-------------------------- MODULE MCSurfaceRuntime --------------------------
(* SurfaceRuntime on small instances. *)
EXTENDS SurfaceRuntime

SurfaceCallers == {Surface}

\* The methods a run uses.
SurfaceOperations == {"startExecution", "callCapability", "stageResult",
                      "commitStagedResult"}

=============================================================================
