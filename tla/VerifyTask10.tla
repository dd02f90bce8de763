----------------------------- MODULE VerifyTask10 ------------------------------
(***************************************************************************)
(* The reproducibility script                                              *)
(* (scripts/verify-task10-client-reproducibility.ts) as the composition of *)
(* the authority check, the gate recorder, the evaluation of the           *)
(* producer's evidence and the publication it assesses, rebuilds and       *)
(* freezes, while other publishers use the same publication root.          *)
(***************************************************************************)
EXTENDS Task10Evidence

CONSTANTS Self,      \* the script
          Rivals,    \* other processes that publish under the same package name
          Nobody,
          Gates,     \* the number of gate commands
          MaxFaults  \* bound on failing steps and crashes, of all parts together

ASSUME VerifyAssumption ==
  /\ Self \notin Rivals /\ Nobody \notin {Self} \cup Rivals
  /\ Gates \in Nat /\ MaxFaults \in Nat

VARIABLES
  phase, rows, child, disk, pump, armed, forced, fin, killed,                 \* recorder
  pc, candidate, checks, handle, stage, final, filled, promoted, result,     \* publication
  faults,
  at,           \* where the script is
  authority,    \* the verification of the Core's authority
  producer,     \* the run of the producer
  fingerprint,  \* whether the checkouts are as frozen
  exit          \* the exit code of the script

recorder == <<phase, rows, child, disk, pump, armed, forced, fin, killed>>
publication == <<pc, candidate, checks, handle, stage, final, filled, promoted, result>>
evidence == <<authority, producer, fingerprint>>

vars == <<recorder, publication, faults, at, evidence, exit>>

Rec == INSTANCE CommandRecorder
Pub == INSTANCE Publication WITH Publishers <- {Self} \cup Rivals

NotRun == [at |-> 0, how |-> "not-run"]

Init ==
  /\ Rec!Init /\ Pub!Init
  /\ at = "authority"
  /\ authority = "reportable-blocked" /\ producer = NotRun /\ fingerprint = "off"
  /\ exit = "none"

GoTo(stop) == at' = stop

-----------------------------------------------------------------------------
(* Gathering the evidence.                                                 *)

VerifyAuthority(status) ==
  /\ at = "authority"
  /\ authority' = status
  /\ GoTo(CASE status = "verified" -> "gates"
            [] status = "reportable-blocked" -> "fingerprint"
            [] status = "tooling-failure" -> "catch")
  /\ UNCHANGED <<recorder, publication, faults, producer, fingerprint, exit>>

(* The recorder works while the script awaits it; after a rejection the    *)
(* events of its last child still arrive.                                  *)
RecorderStep(A) ==
  /\ at = "gates" \/ phase = "rejected"
  /\ A
  /\ UNCHANGED <<publication, at, evidence, exit>>

GateBlocked == ~ CommandsPass(rows, Gates)

GatesEnd ==
  /\ at = "gates"
  /\ \/ phase = "rejected" /\ GoTo("catch")
     \/ phase = "recorded" /\ GoTo(IF GateBlocked THEN "fingerprint" ELSE "producer")
  /\ UNCHANGED <<recorder, publication, faults, evidence, exit>>

RunProducer(r) ==
  /\ at = "producer"
  /\ producer' = r
  /\ GoTo(IF ProducerStatus(r) = "tooling-failure" THEN "catch" ELSE "fingerprint")
  /\ UNCHANGED <<recorder, publication, faults, authority, fingerprint, exit>>

CollectFingerprint(f) ==
  /\ at = "fingerprint"
  /\ fingerprint' = f
  /\ GoTo("assess")
  /\ UNCHANGED <<recorder, publication, faults, authority, producer, exit>>

(* A collaborator throws.                                                  *)
Throws ==
  /\ at \in {"authority", "producer", "fingerprint", "assess", "rebuild"}
  /\ Pub!Fault
  /\ GoTo("catch")
  /\ UNCHANGED <<recorder, publication, evidence, exit>>

-----------------------------------------------------------------------------
(* Assessing, rebuilding and freezing the publication.                     *)

(* evaluateExecutionEvidence: the conclusion no domain objects to.         *)
CandidateConclusion ==
  IF /\ authority = "verified"
     /\ fingerprint = "clean"
     /\ CommandsPass(rows, Gates)
     /\ ProducerPasses(producer)
     /\ ScenariosPass(producer)
  THEN "passed" ELSE "blocked"

(* A candidate that passed is refused when something was redacted from it. *)
AssessFirst ==
  /\ at = "assess"
  /\ \/ Pub!AssessStarts(Self, CandidateConclusion)
     \/ CandidateConclusion = "passed" /\ Pub!AssessRefused(Self)
  /\ GoTo("first")
  /\ UNCHANGED <<recorder, evidence, exit>>

Settled == pc[Self] = "ready"

(* The conclusion is final only if the publication of the candidate was    *)
(* staged with all checks true; a blocked candidate never matches it.      *)
Confirmed == FinalConclusion(CandidateConclusion, checks[Self]) = "passed"

KeepFirst ==
  /\ at = "first" /\ Settled /\ result[Self] = "staged" /\ Confirmed
  /\ GoTo("freeze")
  /\ UNCHANGED <<recorder, publication, faults, evidence, exit>>

DropFirst ==
  /\ at = "first" /\ Settled /\ result[Self] # "failed" /\ ~ Confirmed
  /\ IF handle[Self] = "staged" THEN Pub!Discard(Self) ELSE UNCHANGED <<publication, faults>>
  /\ GoTo("rebuild")
  /\ UNCHANGED <<recorder, evidence, exit>>

Rebuild ==
  /\ at = "rebuild"
  /\ Pub!AssessStarts(Self, "blocked")
  /\ GoTo("second")
  /\ UNCHANGED <<recorder, evidence, exit>>

KeepSecond ==
  /\ at = "second" /\ Settled /\ result[Self] = "staged"
  /\ GoTo("freeze")
  /\ UNCHANGED <<recorder, publication, faults, evidence, exit>>

Freeze ==
  /\ at = "freeze"
  /\ Pub!Freeze(Self)
  /\ GoTo("freezing")
  /\ UNCHANGED <<recorder, evidence, exit>>

Succeed ==
  /\ at = "freezing" /\ result[Self] = "frozen"
  /\ GoTo("end") /\ exit' = "0"
  /\ UNCHANGED <<recorder, publication, faults, evidence>>

(* An assessment or the freeze rejects, or the second assessment is        *)
(* refused.                                                                *)
CallFails ==
  /\ Settled
  /\ \/ at \in {"first", "second", "freezing"} /\ result[Self] = "failed"
     \/ at = "second" /\ result[Self] = "refused"
  /\ GoTo("catch")
  /\ UNCHANGED <<recorder, publication, faults, evidence, exit>>

(* The catch discards a publication that is still staged.  One that a      *)
(* freeze has consumed makes the discard throw: there is nothing to remove.*)
Catch ==
  /\ at = "catch"
  /\ IF handle[Self] = "staged" THEN Pub!Discard(Self) ELSE UNCHANGED <<publication, faults>>
  /\ GoTo("end") /\ exit' = "1"
  /\ UNCHANGED <<recorder, evidence>>

Crash ==
  /\ at # "end"
  /\ Pub!Crash(Self)
  /\ GoTo("end")
  /\ UNCHANGED <<recorder, evidence, exit>>

-----------------------------------------------------------------------------
Script ==
  \/ (\E status \in {"verified", "reportable-blocked", "tooling-failure"} : VerifyAuthority(status))
  \/ GatesEnd
  \/ (\E r \in ProducerRuns : RunProducer(r))
  \/ (\E f \in {"clean", "off"} : CollectFingerprint(f))
  \/ Throws
  \/ AssessFirst \/ KeepFirst \/ DropFirst \/ Rebuild \/ KeepSecond
  \/ Freeze \/ Succeed \/ CallFails \/ Catch

Elsewhere == UNCHANGED <<recorder, at, evidence, exit>>

Publishing == Pub!Proceeds(Self) /\ Elsewhere

(* A rival makes its calls in any order: materializeTask10Publication or a *)
(* second script on the same publication root.  Its conclusion is of no    *)
(* matter to the script.                                                   *)
RivalPublishes(p) ==
  /\ \/ Pub!AssessStarts(p, "blocked") \/ Pub!Discard(p) \/ Pub!Freeze(p)
     \/ Pub!Proceeds(p) \/ Pub!Crash(p)
  /\ Elsewhere

Next ==
  \/ Script \/ RecorderStep(Rec!Next) \/ Publishing \/ Crash
  \/ \E p \in Rivals : RivalPublishes(p)

Spec == Init /\ [][Next]_vars

(* The event loop of the script goes on, as the recorder's fairness says   *)
(* for its part; nothing is assumed of its children or of the rivals.      *)
Fairness ==
  /\ WF_vars(Script)
  /\ WF_vars(Publishing)
  /\ WF_vars(RecorderStep(Rec!Recording))
  /\ WF_vars(RecorderStep(Rec!TimerEvent))
  /\ \A s \in Rec!Logs :
       /\ WF_vars(RecorderStep(Rec!PumpFinishes(s) /\ child[Rec!Gate] \in Rec!Closed))
       /\ WF_vars(RecorderStep(Rec!OverflowReported(s) \/ Rec!FailureReported(s)))

FairSpec == Spec /\ Fairness
-----------------------------------------------------------------------------
(* Every variable of the script and of its two parts keeps its type.       *)
TypeOK ==
  /\ Rec!TypeOK /\ Pub!TypeOK
  /\ at \in {"authority", "gates", "producer", "fingerprint", "assess", "first", "rebuild",
             "second", "freeze", "freezing", "catch", "end"}
  /\ authority \in {"verified", "reportable-blocked", "tooling-failure"}
  /\ producer \in ProducerRuns \cup {NotRun}
  /\ fingerprint \in {"clean", "off"}
  /\ exit \in {"none", "0", "1"}

(* A receipt of the script that says passed stands on a verified           *)
(* authority, clean checkouts, gates whose children all ended with zero    *)
(* and whose output is whole on the disk, and a producer every artifact of *)
(* which passed.                                                           *)
PassedMeansVerified ==
  final["receipt"] = Self /\ candidate[Self] = "passed" =>
    /\ authority = "verified" /\ fingerprint = "clean"
    /\ \A g \in 1 .. Gates : child[g] = "zero" /\ \A s \in Rec!Logs : disk[g][s] = "whole"
    /\ \A i \in DOMAIN Graph : ArtifactPassed(producer, i)

(* The exit code tells what is at the final paths: with zero the whole     *)
(* publication of the script with the conclusion it printed, with one no   *)
(* staging directory, and of its outputs nothing or a whole publication.   *)
ExitTellsPublication ==
  /\ exit = "0" =>
       /\ final["receipt"] = Self /\ Pub!TripleMatches
       /\ candidate[Self] = "passed" => CandidateConclusion = "passed"
  /\ exit = "1" =>
       /\ ~ stage[Self]
       /\ (\E o \in Pub!Outputs : final[o] = Self) => Pub!TripleMatches

(* Whatever settles a gate, its child, timers and logs are accounted for.  *)
NothingIsLeftBehind == Rec!NothingIsLeftBehind

(* Readers of the publication root who find a whole receipt find the whole *)
(* publication it names, and those reported as frozen for good; a crash in *)
(* the middle of a copy leaves a cut file and no receipt that validates.   *)
PublicationIsAtomic == Pub!PublicationIsAtomic

(* The script comes to its end whatever its gate commands and its rivals   *)
(* do.                                                                     *)
ScriptEnds == <>(at = "end")
=============================================================================
