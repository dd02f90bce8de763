------------------------------ MODULE MCCliState ------------------------------
(* CliState with two processes, two accounts and two memories. *)
EXTENDS CliState, TLC

ModelSymmetry == Permutations(Writers) \cup Permutations(Memories) \cup Permutations(Accounts)

===============================================================================
