---------------------------- MODULE ResultLedger ----------------------------
(***************************************************************************)
(* What the task runtime promises the core about results: an outcome is    *)
(* committed, any number of times, and a task is completed or failed only  *)
(* on an outcome committed before.  The runtime may ask again for what was *)
(* already done: lost replies leave it no other way to find out.           *)
(***************************************************************************)
EXTENDS Naturals

CONSTANT Outcomes

VARIABLES commits, terminals

Init == commits = {} /\ terminals = [o \in Outcomes |-> 0]

Commit(o) ==
    /\ commits' = commits \cup {o}
    /\ UNCHANGED terminals

Terminate(o) ==
    /\ o \in commits
    /\ terminals' = [terminals EXCEPT ![o] = @ + 1]
    /\ UNCHANGED commits

Next == \E o \in Outcomes : Commit(o) \/ Terminate(o)

Spec == Init /\ [][Next]_<<commits, terminals>>

=============================================================================
