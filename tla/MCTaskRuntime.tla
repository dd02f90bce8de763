--------------------------- MODULE MCTaskRuntime ---------------------------
(* TaskRuntime on small instances. *)
EXTENDS TaskRuntime, TLC

CallerSymmetry == Permutations(Callers)

\* Every method.
Everything == AllOperations

\* The methods two callers race in.
RacingOperations == {"stageResult", "commitStagedResult", "completeTask"}

\* Calls the orchestrator may block.
CapabilityOnly == {"callCapability"}

============================================================================
