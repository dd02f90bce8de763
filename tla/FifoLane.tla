------------------------------ MODULE FifoLane ------------------------------
(* The lane as its users see it: a queue and at most one call under way. *)
EXTENDS Sequences

CONSTANT Callers

VARIABLES
    queue,   \* callers waiting, oldest first
    inside   \* the caller whose call runs: a set of at most one

Init == queue = <<>> /\ inside = {}

Join(c) ==
    /\ c \notin inside /\ \A i \in DOMAIN queue : queue[i] # c
    /\ queue' = Append(queue, c)
    /\ UNCHANGED inside

Admit ==
    /\ inside = {} /\ queue # <<>>
    /\ inside' = {Head(queue)}
    /\ queue' = Tail(queue)

Depart == inside # {} /\ inside' = {} /\ UNCHANGED queue

Next == Admit \/ Depart \/ \E c \in Callers : Join(c)

Spec == Init /\ [][Next]_<<queue, inside>>

=============================================================================
