---------------------------- MODULE Task10Evidence -----------------------------
(***************************************************************************)
(* From what the Core producer left behind to the conclusion of the        *)
(* client: the ordered validation of its artifacts                         *)
(* (scripts/task10/core-producer-adapter.ts), the seven scenario rows made *)
(* of it (scenario-adapter.ts) and their evaluation (evaluator.ts).  The   *)
(* contents of an artifact are abstracted to the verdict on it.            *)
(***************************************************************************)
EXTENDS Naturals, Sequences

-----------------------------------------------------------------------------
(* The producer's artifacts, in the order they are read.  An output may    *)
(* report that its mode is blocked; a materialized run may be well formed  *)
(* and yet break the continuity of the recovery or the distinctness of the *)
(* reuse.                                                                  *)

Artifact(class, kind) == [class |-> class, kind |-> kind]

ModeArtifacts(mode) ==
  <<Artifact(mode, "input"), Artifact(mode, "materialized"), Artifact(mode, "readback")>>

Graph ==
  <<Artifact("runtime", "input"), Artifact("reset", "input"),
    Artifact("preflight", "input"), Artifact("preflight", "readback")>>
  \o ModeArtifacts("success-001") \o ModeArtifacts("recovery-001")
  \o ModeArtifacts("success-002-reuse")

CanBeBlocked(i) == Graph[i].kind = "readback"

CanDiverge(i) ==
  Graph[i].kind = "materialized" /\ Graph[i].class \in {"recovery-001", "success-002-reuse"}

(* A run of the producer is told by the artifact its validation stops at   *)
(* and why.  "invalid" stands for each failed precondition, checkout,      *)
(* spawn or artifact, "nonzero" for an exit code against artifacts that    *)
(* all passed, "unpersisted" for a diagnostic that could not be kept, and  *)
(* "probe" for private roots that overlap the Core.                        *)
End == Len(Graph) + 1

Stop(i, how) == [at |-> i, how |-> how]

ProducerRuns ==
  {Stop(i, "blocked") : i \in {j \in DOMAIN Graph : CanBeBlocked(j)}}
  \cup {Stop(i, how) : i \in {j \in DOMAIN Graph : CanDiverge(j)},
                       how \in {"diverges", "unpersisted"}}
  \cup {Stop(End, "passed"), Stop(End, "nonzero"), Stop(1, "invalid"), Stop(0, "probe")}

ProducerStatus(r) ==
  CASE r.how = "passed" -> "completed"
    [] r.how \in {"blocked", "diverges", "probe"} -> "reportable-blocked"
    [] OTHER -> "tooling-failure"

ArtifactPassed(r, i) == i < r.at

(* The groups of evidence of an outcome: one for each class of which an    *)
(* artifact was read, the one the validation stopped at included.          *)
Groups(r) ==
  IF r.how = "probe" THEN {"producer-contract-probe"}
  ELSE {Graph[i].class : i \in {j \in DOMAIN Graph : j <= r.at}}

(* affectedFamilies of a blocked outcome.                                  *)
ProbeFamilies == {"dispatch", "replay-recovery", "result-submission"}

FamilyOf(class) ==
  CASE class = "preflight" -> "readiness"
    [] class = "success-001" -> "dispatch"
    [] class = "recovery-001" -> "replay-recovery"
    [] class = "success-002-reuse" -> "result-submission"

AffectedFamilies(r) ==
  IF r.how = "probe" THEN ProbeFamilies
  ELSE IF ProducerStatus(r) = "reportable-blocked" THEN {FamilyOf(Graph[r.at].class)} ELSE {}

(* buildSanitizedFacts: a class has its fact once its artifacts were read; *)
(* the fact says that all went well, whatever the last artifact says.      *)
HasFact(r, class) ==
  r.how # "probe" /\ \A i \in DOMAIN Graph : Graph[i].class = class => i <= r.at

-----------------------------------------------------------------------------
(* The rows of the scenario ledger, each with its family and the class of  *)
(* the evidence that proves it.                                            *)

Row(family, class) == [family |-> family, class |-> class]

ScenarioRows ==
  <<Row("session-access", "preflight"), Row("readiness", "runtime"), Row("readiness", "reset"),
    Row("dispatch", "success-001"), Row("replay-recovery", "recovery-001"),
    Row("replay-recovery", "success-002-reuse"), Row("result-submission", "success-001")>>

(* The result of a row: blocked when its fact or its evidence is missing   *)
(* or the producer reports its family blocked.                             *)
RowPasses(r, row) ==
  /\ HasFact(r, row.class)
  /\ row.class \in Groups(r)
  /\ row.family \notin AffectedFamilies(r)

(* The ledger: the numbers of the rows that pass.  All are blocked when    *)
(* the producer was not run because of the authority or the gates.         *)
PassedRows(r) == {n \in DOMAIN ScenarioRows : RowPasses(r, ScenarioRows[n])}

-----------------------------------------------------------------------------
(* evaluateExecutionEvidence: what each of its five domains requires for a *)
(* conclusion without a reason and without missing evidence.  The gates    *)
(* are the command rows of the recorder.                                   *)

CommandsPass(gates, count) ==
  Len(gates) = count /\ \A i \in DOMAIN gates : gates[i].status = "executed" /\ gates[i].exit = "0"

ProducerPasses(r) ==
  ProducerStatus(r) = "completed" /\ \A i \in DOMAIN Graph : Graph[i].class \in Groups(r)

ScenariosPass(r) == PassedRows(r) = DOMAIN ScenarioRows

(* finalizeTask10Conclusion: a candidate that passed is confirmed when all *)
(* four checks of its publication are true, never the other way round.     *)
FinalConclusion(candidateConclusion, checks) ==
  IF candidateConclusion = "passed" /\ checks = 4 THEN "passed" ELSE "blocked"
=============================================================================
