-------------------------- MODULE AtomicPublication ---------------------------
(***************************************************************************)
(* What a publication directory promises to readers that go by a receipt   *)
(* which validates: under one package name there is no such receipt or it  *)
(* stands for one whole publication of one publisher, and a publication    *)
(* that was reported to its publisher as frozen stays.                     *)
(***************************************************************************)
CONSTANTS Publishers, Nobody

VARIABLES published,  \* whose publication is there
          reported    \* the publishers that were told theirs is frozen

Init == published = Nobody /\ reported = {}

Publish(p) == published = Nobody /\ published' = p /\ UNCHANGED reported

Withdraw(p) ==
  published = p /\ p \notin reported /\ published' = Nobody /\ UNCHANGED reported

Report(p) == published = p /\ reported' = reported \cup {p} /\ UNCHANGED published

Next == \E p \in Publishers : Publish(p) \/ Withdraw(p) \/ Report(p)

Spec == Init /\ [][Next]_<<published, reported>>
=============================================================================
