------------------------------- MODULE LocalFile -------------------------------
(***************************************************************************)
(* A file several processes replace with fs.writeFile, which truncates it  *)
(* and then writes at the start.  Its content is the sequence of the texts *)
(* found in it: none when it is absent or truncated, one when it is whole, *)
(* and two when a shorter text was written over a longer one whose tail    *)
(* still sticks out.  Only a whole file parses.                            *)
(***************************************************************************)
EXTENDS Sequences

Truncated == <<>>
Whole(content) == Len(content) = 1

\* What a write of `text` may make of a file: over a text somebody else wrote
\* since the truncation, the tail of that one may be left.
Overwritten(text, content) ==
    IF content = Truncated THEN {<<text>>} ELSE {<<text>>, <<text, Head(content)>>}

================================================================================
