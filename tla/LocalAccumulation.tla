--------------------------- MODULE LocalAccumulation ---------------------------
(***************************************************************************)
(* writeLocalAccumulation (src/runtime/local-accumulation/store.ts): the   *)
(* memories of a run are files of one directory, replaced side by side     *)
(* under one Promise.all.  Runs are numbered as they begin; a memory holds *)
(* the number of the run it tells of.                                      *)
(***************************************************************************)
EXTENDS LocalFile, Naturals

CONSTANTS
    Writers,  \* processes with a run
    Memories  \* the files of the directory

VARIABLES
    memory,   \* the content of each file
    writes    \* of each writer, each file: "none", "queued" or "opened"

accumulation == <<memory, writes>>

AccumulationInit ==
    /\ memory = [m \in Memories |-> Truncated]
    /\ writes = [w \in Writers |-> [m \in Memories |-> "none"]]

Writing(w) == \E m \in Memories : writes[w][m] # "none"

\* Promise.all starts the writes of all files.
StartAccumulation(w) ==
    /\ ~Writing(w)
    /\ writes' = [writes EXCEPT ![w] = [m \in Memories |-> "queued"]]
    /\ UNCHANGED memory

OpenMemory(w, m) ==
    /\ writes[w][m] = "queued"
    /\ writes' = [writes EXCEPT ![w][m] = "opened"]
    /\ memory' = [memory EXCEPT ![m] = Truncated]

FillMemory(w, m, run) ==
    /\ writes[w][m] = "opened"
    /\ writes' = [writes EXCEPT ![w][m] = "none"]
    /\ \E content \in Overwritten(run, memory[m]) : memory' = [memory EXCEPT ![m] = content]

\* The process ends, or a write fails: the others may be anywhere.  A write
\* that fails lets the rest go on; they end with the process at the latest.
DropAccumulation(w) ==
    /\ writes' = [writes EXCEPT ![w] = [m \in Memories |-> "none"]]
    /\ UNCHANGED memory

\* readLocalAccumulation, as the set of runs a reader is told of together;
\* one file that does not parse makes it return null.
ReadTogether ==
    IF \A m \in Memories : Whole(memory[m]) THEN {Head(memory[m]) : m \in Memories} ELSE {}

================================================================================
