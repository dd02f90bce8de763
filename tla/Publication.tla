----------------------------- MODULE Publication ------------------------------
(***************************************************************************)
(* Staging and freezing of a publication (scripts/task10/publication.ts).  *)
(* A publisher assesses a candidate into a private staging directory, then *)
(* freezes or discards it.  Freezing copies package, archive and receipt   *)
(* one after the other to three final paths that every publisher of the    *)
(* same package name shares; only the exclusive creations keep them apart. *)
(* A copy is no single step: copyFile creates the file at its final path   *)
(* and then fills it, and a process that dies in between leaves it cut.    *)
(***************************************************************************)
EXTENDS Naturals

CONSTANTS Publishers,  \* processes that publish under one package name
          Nobody,
          MaxFaults    \* bound on failing steps and crashes

Conclusions == {"passed", "blocked"}

Outputs == {"package", "archive", "receipt"}

(* Task10PublicationChecks: the four checks are reported in order, those   *)
(* before the failed one as true; a number says how many are.              *)
Checks == 0 .. 4

Stops == {"ready", "assessing", "targets", "package", "members", "archive", "archive-copy",
          "pair", "receipt", "receipt-copy", "offline", "cleanup", "producer", "rollback",
          "done", "dead"}

VARIABLES
  pc,         \* where a publisher is in its call
  candidate,  \* the conclusion of the candidate it assessed last
  checks,     \* the checks of its last assessment
  handle,     \* its staged publication: none, unconsumed, or consumed
  stage,      \* whether its staging directory is on the disk
  final,      \* who wrote what is at each of the final paths
  filled,     \* the final paths whose content is all there
  promoted,   \* promotedPaths of its freeze
  result,     \* how its last call settled
  faults

vars == <<pc, candidate, checks, handle, stage, final, filled, promoted, result, faults>>

Init ==
  /\ pc = [p \in Publishers |-> "ready"]
  /\ candidate = [p \in Publishers |-> "blocked"]
  /\ checks = [p \in Publishers |-> 0]
  /\ handle = [p \in Publishers |-> "none"]
  /\ stage = [p \in Publishers |-> FALSE]
  /\ final = [o \in Outputs |-> Nobody]
  /\ filled = {}
  /\ promoted = [p \in Publishers |-> {}]
  /\ result = [p \in Publishers |-> "none"]
  /\ faults = 0

Fault == faults < MaxFaults /\ faults' = faults + 1

GoTo(p, stop) == pc' = [pc EXCEPT ![p] = stop]

(* The call of p settles.                                                  *)
Settle(p, r) == GoTo(p, "ready") /\ result' = [result EXCEPT ![p] = r]

TargetsAbsent == \A o \in Outputs : final[o] = Nobody

Disk == <<stage, final, filled, promoted>>

-----------------------------------------------------------------------------
(* assessCandidatePublication.                                             *)

Assessed(p, n, h, d) ==
  /\ checks' = [checks EXCEPT ![p] = n]
  /\ handle' = [handle EXCEPT ![p] = h]
  /\ stage' = [stage EXCEPT ![p] = d]

(* A candidate that says passed although something was redacted from it is *)
(* refused before anything is written.                                     *)
AssessRefused(p) ==
  /\ pc[p] = "ready" /\ handle[p] # "staged"
  /\ candidate' = [candidate EXCEPT ![p] = "passed"]
  /\ checks' = [checks EXCEPT ![p] = 0]
  /\ result' = [result EXCEPT ![p] = "refused"]
  /\ UNCHANGED <<pc, handle, stage, final, filled, promoted, faults>>

AssessStarts(p, c) ==
  /\ pc[p] = "ready" /\ handle[p] # "staged"
  /\ candidate' = [candidate EXCEPT ![p] = c]
  /\ IF TargetsAbsent
     THEN /\ stage' = [stage EXCEPT ![p] = TRUE]
          /\ GoTo(p, "assessing") /\ UNCHANGED result
     ELSE Settle(p, "failed") /\ UNCHANGED stage
  /\ UNCHANGED <<checks, handle, final, filled, promoted, faults>>

AssessStaged(p) ==
  /\ pc[p] = "assessing"
  /\ Assessed(p, 4, "staged", TRUE) /\ Settle(p, "staged")
  /\ UNCHANGED <<candidate, final, filled, promoted, faults>>

(* A verification step fails: the caller is told which.                    *)
AssessUnverified(p, n) ==
  /\ pc[p] = "assessing" /\ Fault
  /\ Assessed(p, n, handle[p], FALSE) /\ Settle(p, "refused")
  /\ UNCHANGED <<candidate, final, filled, promoted>>

AssessFails(p) ==
  /\ pc[p] = "assessing" /\ Fault
  /\ Assessed(p, checks[p], handle[p], FALSE) /\ Settle(p, "failed")
  /\ UNCHANGED <<candidate, final, filled, promoted>>

Discard(p) ==
  /\ pc[p] = "ready" /\ handle[p] = "staged"
  /\ Assessed(p, checks[p], "consumed", FALSE) /\ Settle(p, "discarded")
  /\ UNCHANGED <<candidate, final, filled, promoted, faults>>

-----------------------------------------------------------------------------
(* freezeTask10Publication: one action for each awaited step.              *)

Freeze(p) ==
  /\ pc[p] = "ready" /\ handle[p] = "staged"
  /\ handle' = [handle EXCEPT ![p] = "consumed"]
  /\ promoted' = [promoted EXCEPT ![p] = {}]
  /\ GoTo(p, "targets")
  /\ UNCHANGED <<candidate, checks, stage, final, filled, result, faults>>

(* A step of a freeze: go on if it succeeds, else to the catch.            *)
Proceed(p, at, ok, next) ==
  /\ pc[p] = at
  /\ GoTo(p, IF ok THEN next ELSE "rollback")
  /\ UNCHANGED <<candidate, checks, handle, result, faults>>

AssertTargets(p) ==
  Proceed(p, "targets", TargetsAbsent, "package") /\ UNCHANGED Disk

(* An exclusive creation at a final path.                                  *)
Create(p, o, next) ==
  /\ Proceed(p, o, final[o] = Nobody, next)
  /\ final' = IF final[o] = Nobody THEN [final EXCEPT ![o] = p] ELSE final
  /\ UNCHANGED <<stage, filled>>

Promoted(p, o) == promoted' = [promoted EXCEPT ![p] = @ \cup {o}]

MakePackage(p) ==
  /\ Create(p, "package", "members")
  /\ IF final["package"] = Nobody THEN Promoted(p, "package") ELSE UNCHANGED promoted

CopyMembers(p) ==
  /\ Proceed(p, "members", final["package"] = p, "archive")
  /\ filled' = IF final["package"] = p THEN filled \cup {"package"} ELSE filled
  /\ UNCHANGED <<stage, final, promoted>>

Copying(o) == IF o = "archive" THEN "archive-copy" ELSE "receipt-copy"

(* copyFile: the file is created, and only then filled.  A copy that fails *)
(* in between removes what it has created (as the rollback's, the removal  *)
(* is taken to succeed) and is not among the promoted paths.               *)
OpenCopy(p, o) == Create(p, o, Copying(o)) /\ UNCHANGED promoted

FillCopy(p, o, next) ==
  /\ Proceed(p, Copying(o), TRUE, next)
  /\ filled' = filled \cup {o}
  /\ Promoted(p, o)
  /\ UNCHANGED <<stage, final>>

CopyFails(p, o) ==
  /\ pc[p] = Copying(o) /\ Fault
  /\ final' = [final EXCEPT ![o] = Nobody]
  /\ GoTo(p, "rollback")
  /\ UNCHANGED <<candidate, checks, handle, stage, filled, promoted, result>>

Copy(p, o, next) == OpenCopy(p, o) \/ FillCopy(p, o, next) \/ CopyFails(p, o)

CopyArchive(p) == Copy(p, "archive", "pair")

(* Package and archive must hold the same members, byte for byte.          *)
PairMatches == {"package", "archive"} \subseteq filled /\ final["package"] = final["archive"]

ValidatePair(p) == Proceed(p, "pair", PairMatches, "receipt") /\ UNCHANGED Disk

CopyReceipt(p) == Copy(p, "receipt", "offline")

TripleMatches ==
  PairMatches /\ "receipt" \in filled /\ final["receipt"] = final["archive"]

ValidateOffline(p) == Proceed(p, "offline", TripleMatches, "cleanup") /\ UNCHANGED Disk

CleanupStaged(p) ==
  /\ Proceed(p, "cleanup", TRUE, "producer")
  /\ stage' = [stage EXCEPT ![p] = FALSE]
  /\ UNCHANGED <<final, filled, promoted>>

(* The last validation is returned, not awaited: its rejection is not      *)
(* caught, and what was promoted stays.                                    *)
ValidateProducer(p) ==
  /\ pc[p] = "producer"
  /\ IF TripleMatches
     THEN GoTo(p, "done") /\ result' = [result EXCEPT ![p] = "frozen"]
     ELSE Settle(p, "failed")
  /\ UNCHANGED <<candidate, checks, handle, stage, final, filled, promoted, faults>>

ProducerFails(p) ==
  /\ pc[p] = "producer" /\ Fault
  /\ Settle(p, "failed")
  /\ UNCHANGED <<candidate, checks, handle, stage, final, filled, promoted>>

Failing == {"targets", "package", "members", "archive", "pair", "receipt", "offline", "cleanup"}

StepFails(p) ==
  /\ pc[p] \in Failing /\ Fault
  /\ GoTo(p, "rollback")
  /\ UNCHANGED <<candidate, checks, handle, stage, final, filled, promoted, result>>

(* A bug to catch: the outputs are taken back in the order of promotion. *)
RollbackInOrder(p) ==
  IF "package" \in promoted[p] THEN "package"
  ELSE IF "archive" \in promoted[p] THEN "archive" ELSE "receipt"

(* rollbackPromotedOutputs: in the reverse of the order of promotion.      *)
RollbackNext(p) ==
  IF "receipt" \in promoted[p] THEN "receipt"
  ELSE IF "archive" \in promoted[p] THEN "archive" ELSE "package"

Rollback(p) ==
  /\ pc[p] = "rollback" /\ promoted[p] # {}
  /\ LET o == RollbackNext(p) IN
       /\ final' = [final EXCEPT ![o] = Nobody]
       /\ promoted' = [promoted EXCEPT ![p] = @ \ {o}]
       /\ filled' = filled \ {o}
  /\ UNCHANGED <<pc, candidate, checks, handle, stage, result, faults>>

(* A bug to catch: the staging directory is kept. *)
RolledBackKeepingStage(p) ==
  /\ pc[p] = "rollback" /\ promoted[p] = {}
  /\ Settle(p, "failed")
  /\ UNCHANGED <<candidate, checks, handle, stage, final, filled, promoted, faults>>

RolledBack(p) ==
  /\ pc[p] = "rollback" /\ promoted[p] = {}
  /\ stage' = [stage EXCEPT ![p] = FALSE]
  /\ Settle(p, "failed")
  /\ UNCHANGED <<candidate, checks, handle, final, filled, promoted, faults>>

-----------------------------------------------------------------------------
Crash(p) ==
  /\ pc[p] \notin {"done", "dead"} /\ Fault
  /\ GoTo(p, "dead")
  /\ UNCHANGED <<candidate, checks, handle, stage, final, filled, promoted, result>>

Calls(p) ==
  \/ AssessRefused(p) \/ (\E c \in Conclusions : AssessStarts(p, c))
  \/ Discard(p) \/ Freeze(p)

(* What goes on by itself once a call was made.                            *)
Proceeds(p) ==
  \/ AssessStaged(p) \/ (\E n \in 1 .. 3 : AssessUnverified(p, n)) \/ AssessFails(p)
  \/ AssertTargets(p) \/ MakePackage(p) \/ CopyMembers(p) \/ CopyArchive(p)
  \/ ValidatePair(p) \/ CopyReceipt(p) \/ ValidateOffline(p) \/ CleanupStaged(p)
  \/ ValidateProducer(p) \/ ProducerFails(p) \/ StepFails(p)
  \/ Rollback(p) \/ RolledBack(p)

Next == \E p \in Publishers : Calls(p) \/ Proceeds(p) \/ Crash(p)

Spec == Init /\ [][Next]_vars
-----------------------------------------------------------------------------
(* Every variable keeps its type.                                          *)
TypeOK ==
  /\ pc \in [Publishers -> Stops]
  /\ candidate \in [Publishers -> Conclusions]
  /\ checks \in [Publishers -> Checks]
  /\ handle \in [Publishers -> {"none", "staged", "consumed"}]
  /\ stage \in [Publishers -> BOOLEAN]
  /\ final \in [Outputs -> Publishers \cup {Nobody}]
  /\ filled \in SUBSET Outputs
  /\ promoted \in [Publishers -> SUBSET Outputs]
  /\ result \in [Publishers -> {"none", "refused", "staged", "failed", "discarded", "frozen"}]
  /\ faults \in 0 .. MaxFaults

(* What readers see.  A receipt that is cut is no JSON document and        *)
(* validates nothing; one that is whole must come with the package and the *)
(* archive it names.                                                       *)
Published ==
  IF "receipt" \notin filled THEN Nobody
  ELSE IF TripleMatches THEN final["receipt"] ELSE "torn"

Atomic == INSTANCE AtomicPublication WITH
  published <- Published, reported <- {p \in Publishers : pc[p] = "done"}

(* A whole receipt stands for a whole publication: it is there with all it *)
(* names, of one publisher, or it is not there, whoever fails, crashes in  *)
(* the middle of a copy or competes, and what a publisher was told is      *)
(* frozen is never taken away.  It is no claim about the directory: before *)
(* the receipt is whole a reader finds a package without its archive, or a *)
(* file that is cut, and after a crash there these stay.                   *)
PublicationIsAtomic == Atomic!Spec
=============================================================================
