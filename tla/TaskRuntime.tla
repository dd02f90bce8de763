---------------------------- MODULE TaskRuntime ----------------------------
(***************************************************************************)
(* BidviaTaskRuntime (src/runtime/task-runtime.ts) over its journal file   *)
(* (src/runtime/task-journal.ts): one runtime object, the asynchronous     *)
(* methods its callers run on it, the remote core those methods talk to,   *)
(* and the file that is all that is left of it after a restart.            *)
(*                                                                         *)
(* A method is cut at its awaits.  Everything between two awaits is one    *)
(* action, as it is on the event loop.  A method that asks the core first  *)
(* goes idle -> calling -> opening -> writing -> settling -> idle; one     *)
(* that changes the state first starts at "opening".  "opening" waits for  *)
(* mkdir and for the truncating open of writeFile, "writing" for the       *)
(* write, "settling" for the hooks and for the promise to resolve.         *)
(***************************************************************************)
EXTENDS Naturals

CONSTANTS
    Callers,          \* asynchronous callers sharing the runtime object
    Operations,       \* the methods those callers use
    MaxStagings,      \* bound: results staged in a behaviour
    MaxAttempt,       \* bound: attempts opened by timeouts
    MaxFaults,        \* bound: lost replies, failed writes and crashes
    MaxTerminals,     \* bound: terminal calls asked for on one outcome
    HasRegistration   \* is session.identity.registrationId a non-empty string?

Governed == {"claim", "accept", "renewLease", "suspend", "resume",
             "completeTask", "failTask"}
AllOperations == Governed \cup
    {"receiveTask", "startExecution", "callCapability", "stageResult",
     "commitStagedResult", "recordTimeout"}

ASSUME OperationsAssumption == Operations \subseteq AllOperations
ASSUME BoundsAssumption ==
    /\ MaxStagings \in Nat /\ MaxAttempt \in Nat /\ MaxFaults \in Nat
    /\ MaxTerminals \in Nat
    /\ HasRegistration \in BOOLEAN

VARIABLES
    status,        \* state.status
    statePending,  \* state.pendingResult: a clone, never an alias
    journal,       \* the journal object, where the methods look at it
    disk,          \* the journal file
    pc, op,        \* where each caller's method is suspended, and which it is
    held,          \* the pending result the method captured before its await
    snap,          \* what buildPersistedLocalTaskJournal copied for the write
    applied,       \* has the core performed the caller's request?
    staged,        \* results staged so far: the identity of the next one
    coreCommits,   \* the core: outcomes it has a commit for
    coreTerminals, \* the core: complete and fail calls performed, by outcome
    faults

vars == <<status, statePending, journal, disk, pc, op, held, snap, applied,
          staged, coreCommits, coreTerminals, faults>>
coreVars == <<coreCommits, coreTerminals>>

-----------------------------------------------------------------------------
Terminals == {"complete", "fail"}
Ids       == {"claimId", "ackId", "leaseId"}
Outcomes  == (1 .. MaxStagings) \X Terminals

\* A pending result.  Each staging makes a new object, told apart by id; the
\* core may answer a commit with an empty outcomeRef, which `outcome' records.
Results == [id : 0 .. MaxStagings, term : Terminals,
            committed : BOOLEAN, outcome : BOOLEAN]
NoResult == [id |-> 0, term |-> "complete", committed |-> FALSE, outcome |-> FALSE]
OutcomeOf(r) == <<r.id, r.term>>

Statuses == {"idle", "claimed", "accepted", "leased", "executing", "suspended",
             "locally-completed", "locally-failed", "result-committed",
             "completed", "failed"}
AttemptStatuses == {"idle", "offered", "claimed", "leased", "executing",
                    "suspended", "completed", "failed"}
Markers == {"none", "task-received", "claim-created", "claim-accepted",
            "lease-renewed", "execution-started", "task-suspended",
            "task-resumed", "capability-blocked", "result-staged",
            "result-committed", "task-completed", "task-failed",
            "task-timed-out"}
ResumeMarkers == (Markers \ {"capability-blocked"}) \cup
                 {"result-commit", "task-complete", "task-fail"}

\* The journal: its last attempt, its last progress marker, its at most one
\* pending result, recovery.resumeFromMarker and the protocol ids it holds.
Journals == [attempt : Nat, attemptStatus : AttemptStatuses, marker : Markers,
             pending : Results, resume : ResumeMarkers, ids : SUBSET Ids]

\* buildInitialJournal
InitialJournal == [attempt |-> 1, attemptStatus |-> "idle", marker |-> "none",
                   pending |-> NoResult, resume |-> "none", ids |-> {}]

\* The file.  An open truncates it ("empty"); an overlaid text does not parse
\* ("garbled").  Neither is a journal to readLocalTaskJournal.
Files == [kind : {"absent", "empty", "garbled", "journal"}, j : Journals]
FileOf(kind, j) == [kind |-> kind, j |-> j]

\* updateAttemptStatus, before the marker of the same method is pushed
Attempted(j, s) ==
    [j EXCEPT !.attemptStatus = s,
              !.attempt = IF s = "executing" /\ j.marker = "task-timed-out"
                            THEN @ + 1 ELSE @]

\* deriveStatusFromJournal
StatusOfMarker(j) ==
    CASE j.marker = "task-completed" -> "completed"
      [] j.marker = "task-failed"    -> "failed"
      [] j.marker = "task-suspended" -> "suspended"
      [] j.marker \in {"execution-started", "task-resumed"} -> "executing"
      [] j.marker = "lease-renewed"  -> "leased"
      [] j.marker = "claim-accepted" -> "accepted"
      [] j.marker = "claim-created"  -> "claimed"
      [] OTHER -> IF j.attemptStatus = "failed" THEN "failed" ELSE "idle"
\* A bug to catch: a reload takes any pending result for a committed one.
DeriveStatusOptimistically(j) ==
    IF j.pending # NoResult THEN "result-committed" ELSE StatusOfMarker(j)

DeriveStatus(j) ==
    CASE j.pending.committed -> "result-committed"
      [] ~j.pending.committed /\ j.pending # NoResult ->
            IF j.pending.term = "fail" THEN "locally-failed" ELSE "locally-completed"
      [] OTHER -> StatusOfMarker(j)

\* A bug to catch: a staged result is enough for the terminal call.
RequireStaged(term) == statePending # NoResult /\ statePending.term = term

\* requireCommittedResult, and the outcomeRef the terminal call then needs
RequireCommitted(term) ==
    statePending.committed /\ statePending.term = term /\ statePending.outcome

-----------------------------------------------------------------------------
Init ==
    /\ status = "idle" /\ statePending = NoResult
    /\ journal = InitialJournal
    /\ disk = FileOf("absent", InitialJournal)
    /\ pc = [c \in Callers |-> "idle"]
    /\ op = [c \in Callers |-> "none"]
    /\ held = [c \in Callers |-> NoResult]
    /\ snap = [c \in Callers |-> InitialJournal]
    /\ applied = [c \in Callers |-> FALSE]
    /\ staged = 0 /\ faults = 0
    /\ coreCommits = {}
    /\ coreTerminals = [o \in Outcomes |-> 0]

\* The caller leaves its method: it returns, or it throws.
Leave(c) ==
    /\ pc' = [pc EXCEPT ![c] = "idle"]
    /\ op' = [op EXCEPT ![c] = "none"]
    /\ held' = [held EXCEPT ![c] = NoResult]
    /\ snap' = [snap EXCEPT ![c] = InitialJournal]
    /\ applied' = [applied EXCEPT ![c] = FALSE]

\* A bug to catch: the text to write is built before recovery is replaced.
PersistBeforeRecovery(c, name, j, resume) ==
    /\ journal' = [j EXCEPT !.resume = resume]
    /\ snap' = [snap EXCEPT ![c] = j]
    /\ pc' = [pc EXCEPT ![c] = "opening"]
    /\ op' = [op EXCEPT ![c] = name]
    /\ held' = [held EXCEPT ![c] = NoResult]
    /\ applied' = [applied EXCEPT ![c] = FALSE]

\* persistJournal up to its first await: recovery is replaced in the journal
\* object and the text to write is built from it, then mkdir is awaited.
Persist(c, name, j, resume) ==
    LET written == [j EXCEPT !.resume = resume]
    IN  /\ journal' = written
        /\ snap' = [snap EXCEPT ![c] = written]
        /\ pc' = [pc EXCEPT ![c] = "opening"]
        /\ op' = [op EXCEPT ![c] = name]
        /\ held' = [held EXCEPT ![c] = NoResult]
        /\ applied' = [applied EXCEPT ![c] = FALSE]

\* The tail every observing method shares: status, attempt, ids, marker, save.
Advance(c, name, s, attemptStatus, marker, ids) ==
    /\ status' = s
    /\ Persist(c, name, [Attempted(journal, attemptStatus) EXCEPT
                           !.marker = marker, !.ids = @ \cup ids], marker)
    /\ UNCHANGED <<statePending, disk, staged, faults, coreVars>>

Starts(c, name)  == pc[c] = "idle" /\ name \in Operations
Answers(c, name) == pc[c] = "calling" /\ op[c] = name /\ applied[c]

-----------------------------------------------------------------------------
(* Methods that change the state before their first await. *)

ReceiveTask(c) ==
    /\ Starts(c, "receiveTask")
    /\ Advance(c, "receiveTask", "idle", "offered", "task-received", {})

\* A bug to catch: a new execution forgets the result of the last one.
StartExecutionAfresh(c) ==
    /\ Starts(c, "startExecution")
    /\ status' = "executing" /\ statePending' = NoResult
    /\ Persist(c, "startExecution", [Attempted(journal, "executing") EXCEPT
                 !.pending = NoResult, !.marker = "execution-started"], "execution-started")
    /\ UNCHANGED <<disk, staged, faults, coreVars>>

StartExecution(c) ==
    /\ Starts(c, "startExecution")
    /\ Advance(c, "startExecution", "executing", "executing", "execution-started", {})

RecordTimeout(c) ==
    /\ Starts(c, "recordTimeout")
    /\ journal.attempt < MaxAttempt
    /\ Advance(c, "recordTimeout", "suspended", "suspended", "task-timed-out", {})

\* stageResult: a new object replaces whatever was pending.
StageResult(c, term) ==
    /\ Starts(c, "stageResult")
    /\ staged < MaxStagings
    /\ staged' = staged + 1
    /\ LET result == [id |-> staged', term |-> term,
                      committed |-> FALSE, outcome |-> FALSE]
       IN  /\ statePending' = result
           /\ Persist(c, "stageResult", [journal EXCEPT !.pending = result,
                                                        !.marker = "result-staged"],
                      "result-commit")
    /\ status' = IF term = "fail" THEN "locally-failed" ELSE "locally-completed"
    /\ UNCHANGED <<disk, faults, coreVars>>

\* callCapability when the orchestrator throws a blocked error: only a marker
\* is added, and recovery keeps the marker it had.
CapabilityBlocked(c) ==
    /\ Starts(c, "callCapability")
    /\ Persist(c, "callCapability",
               [journal EXCEPT !.marker = "capability-blocked"], journal.resume)
    /\ UNCHANGED <<status, statePending, disk, staged, faults, coreVars>>

-----------------------------------------------------------------------------
(* Methods that ask the core, or the capability, first. *)

\* What the method requires of the runtime before the request leaves.
Ready(name) ==
    /\ name \in Governed => HasRegistration
    /\ name = "commitStagedResult" => journal.pending # NoResult
    /\ name = "completeTask" => RequireCommitted("complete")
    /\ name = "failTask" => RequireCommitted("fail")

\* commitStagedResult captures the journal's object, the terminal methods
\* the clone in the state.
Captured(name) ==
    CASE name = "commitStagedResult" -> journal.pending
      [] name \in {"completeTask", "failTask"} -> statePending
      [] OTHER -> NoResult

Call(c, name) ==
    /\ Starts(c, name)
    /\ Ready(name)
    /\ name \in {"completeTask", "failTask"} =>
         coreTerminals[OutcomeOf(statePending)] < MaxTerminals
    /\ pc' = [pc EXCEPT ![c] = "calling"]
    /\ op' = [op EXCEPT ![c] = name]
    /\ held' = [held EXCEPT ![c] = Captured(name)]
    /\ UNCHANGED <<status, statePending, journal, disk, snap, applied, staged,
                   faults, coreVars>>

\* The core performs the request (external).
CorePerforms(c) ==
    /\ pc[c] = "calling" /\ ~applied[c]
    /\ applied' = [applied EXCEPT ![c] = TRUE]
    /\ coreCommits' = IF op[c] = "commitStagedResult"
                        THEN coreCommits \cup {OutcomeOf(held[c])} ELSE coreCommits
    /\ coreTerminals' = IF op[c] \in {"completeTask", "failTask"}
                          THEN [coreTerminals EXCEPT ![OutcomeOf(held[c])] = @ + 1]
                          ELSE coreTerminals
    /\ UNCHANGED <<status, statePending, journal, disk, pc, op, held, snap,
                   staged, faults>>

Claim(c) ==
    /\ Answers(c, "claim")
    /\ Advance(c, "claim", "claimed", "claimed", "claim-created", {"claimId"})

Accept(c) ==
    /\ Answers(c, "accept")
    /\ Advance(c, "accept", "accepted", "claimed", "claim-accepted", {"claimId", "ackId"})

RenewLease(c) ==
    /\ Answers(c, "renewLease")
    /\ Advance(c, "renewLease", "leased", "leased", "lease-renewed", {"leaseId"})

Suspend(c) ==
    /\ Answers(c, "suspend")
    /\ Advance(c, "suspend", "suspended", "suspended", "task-suspended", {})

Resume(c) ==
    /\ Answers(c, "resume")
    /\ Advance(c, "resume", "executing", "executing", "task-resumed", {})

\* callCapability that succeeds: the hooks run, nothing is written.
CapabilityCalled(c) ==
    /\ Answers(c, "callCapability")
    /\ pc' = [pc EXCEPT ![c] = "settling"]
    /\ UNCHANGED <<status, statePending, journal, disk, op, held, snap, applied,
                   staged, faults, coreVars>>

\* commitStagedResult after its await: the captured object is marked and
\* cloned into the state.  The journal sees the mark only while it still
\* refers to that object.
CommitStagedResult(c, outcome) ==
    /\ Answers(c, "commitStagedResult")
    /\ LET result == [held[c] EXCEPT !.committed = TRUE, !.outcome = outcome]
           same   == journal.pending.id = held[c].id
       IN  /\ statePending' = result
           /\ Persist(c, "commitStagedResult",
                      [journal EXCEPT !.pending = IF same THEN result ELSE @,
                                      !.marker = "result-committed"],
                      IF result.term = "fail" THEN "task-fail" ELSE "task-complete")
    /\ status' = "result-committed"
    /\ UNCHANGED <<disk, staged, faults, coreVars>>

\* A bug to catch: the closed result stays pending.
TerminateKeepingResult(c, name, s, marker) ==
    /\ Answers(c, name)
    /\ status' = s
    /\ Persist(c, name, [Attempted(journal, s) EXCEPT !.marker = marker], "none")
    /\ UNCHANGED <<statePending, disk, staged, faults, coreVars>>

\* A bug to catch: the state forgets the result and the journal does not.
TerminateKeepingJournal(c, name, s, marker) ==
    /\ Answers(c, name)
    /\ status' = s /\ statePending' = NoResult
    /\ Persist(c, name, [Attempted(journal, s) EXCEPT !.marker = marker], "none")
    /\ UNCHANGED <<disk, staged, faults, coreVars>>

\* A bug to catch: the marker to resume from outlives the result.
TerminateKeepingRecovery(c, name, s, marker) ==
    /\ Answers(c, name)
    /\ status' = s /\ statePending' = NoResult
    /\ Persist(c, name, [Attempted(journal, s) EXCEPT !.pending = NoResult,
                                                      !.marker = marker], journal.resume)
    /\ UNCHANGED <<disk, staged, faults, coreVars>>

\* completeTask and failTask after their await: whatever is pending is dropped.
Terminate(c, name, s, marker) ==
    /\ Answers(c, name)
    /\ status' = s
    /\ statePending' = NoResult
    /\ Persist(c, name, [Attempted(journal, s) EXCEPT !.pending = NoResult,
                                                      !.marker = marker], "none")
    /\ UNCHANGED <<disk, staged, faults, coreVars>>
CompleteTask(c) == Terminate(c, "completeTask", "completed", "task-completed")
FailTask(c)     == Terminate(c, "failTask", "failed", "task-failed")

\* The request is refused, or performed and its reply lost.  Only a commit
\* has a catch: it saves the journal again, to be resumed at the commit.
CallRejected(c) ==
    /\ pc[c] = "calling"
    /\ applied[c] => faults < MaxFaults
    /\ faults' = IF applied[c] THEN faults + 1 ELSE faults
    /\ IF op[c] = "commitStagedResult"
         THEN Persist(c, "commit-catch", journal, "result-commit")
         ELSE Leave(c) /\ UNCHANGED journal
    /\ UNCHANGED <<status, statePending, disk, staged, coreVars>>

-----------------------------------------------------------------------------
(* writeLocalTaskJournal: mkdir and open, then the write, then the hooks. *)

OpenFile(c) ==
    /\ pc[c] = "opening"
    /\ disk' = FileOf("empty", InitialJournal)
    /\ pc' = [pc EXCEPT ![c] = "writing"]
    /\ UNCHANGED <<status, statePending, journal, op, held, snap, applied,
                   staged, faults, coreVars>>

\* Over a file another writer filled since our open the text is an overlay:
\* it parses when ours covers it and not when a tail is left.
WriteFile(c) ==
    /\ pc[c] = "writing"
    /\ \/ disk' = FileOf("journal", snap[c])
       \/ /\ disk.kind \in {"journal", "garbled"}
          /\ disk' = FileOf("garbled", InitialJournal)
    /\ pc' = [pc EXCEPT ![c] = "settling"]
    /\ snap' = [snap EXCEPT ![c] = InitialJournal]
    /\ UNCHANGED <<status, statePending, journal, op, held, applied, staged,
                   faults, coreVars>>

\* mkdir, open or write fails.  Inside commitStagedResult the same catch runs.
WriteFails(c) ==
    /\ pc[c] \in {"opening", "writing"}
    /\ faults < MaxFaults
    /\ faults' = faults + 1
    /\ IF op[c] = "commitStagedResult"
         THEN Persist(c, "commit-catch", journal, "result-commit")
         ELSE Leave(c) /\ UNCHANGED journal
    /\ UNCHANGED <<status, statePending, disk, staged, coreVars>>

Settle(c) ==
    /\ pc[c] = "settling"
    /\ Leave(c)
    /\ UNCHANGED <<status, statePending, journal, disk, staged, faults, coreVars>>

\* The process ends and createBidviaTaskRuntime builds a new object from the
\* file; between methods that is an ordinary restart, inside one it is a crash.
Restart ==
    LET loaded == IF disk.kind = "journal" THEN disk.j ELSE InitialJournal
        crash  == \E c \in Callers : pc[c] # "idle"
    IN  /\ crash => faults < MaxFaults
        /\ faults' = IF crash THEN faults + 1 ELSE faults
        /\ journal' = loaded
        /\ status' = DeriveStatus(loaded)
        /\ statePending' = loaded.pending
        /\ pc' = [c \in Callers |-> "idle"]
        /\ op' = [c \in Callers |-> "none"]
        /\ held' = [c \in Callers |-> NoResult]
        /\ snap' = [c \in Callers |-> InitialJournal]
        /\ applied' = [c \in Callers |-> FALSE]
        /\ UNCHANGED <<disk, staged, coreVars>>

-----------------------------------------------------------------------------
Observe(c) == ReceiveTask(c) \/ StartExecution(c) \/ RecordTimeout(c)
Reply(c) == Claim(c) \/ Accept(c) \/ RenewLease(c) \/ Suspend(c) \/ Resume(c)
Save(c) == OpenFile(c) \/ WriteFile(c) \/ WriteFails(c) \/ Settle(c)

Step(c) ==
    \/ Observe(c)
    \/ \E term \in Terminals : StageResult(c, term)
    \/ CapabilityBlocked(c)
    \/ \E name \in Governed \cup {"callCapability", "commitStagedResult"} : Call(c, name)
    \/ CorePerforms(c)
    \/ Reply(c)
    \/ CapabilityCalled(c)
    \/ \E outcome \in BOOLEAN : CommitStagedResult(c, outcome)
    \/ CompleteTask(c)
    \/ FailTask(c)
    \/ CallRejected(c)
    \/ Save(c)

Next == Restart \/ \E c \in Callers : Step(c)

Spec == Init /\ [][Next]_vars

-----------------------------------------------------------------------------
(* What the runtime promises. *)

Closed(term) == \E id \in 1 .. MaxStagings : coreTerminals[<<id, term>>] > 0

\* Every variable keeps its type; the names in it are the code's unions.
TypeOK ==
    /\ status \in Statuses /\ statePending \in Results
    /\ journal \in Journals /\ disk \in Files
    /\ pc \in [Callers -> {"idle", "calling", "opening", "writing", "settling"}]
    /\ op \in [Callers -> AllOperations \cup {"none", "commit-catch"}]
    /\ held \in [Callers -> Results] /\ snap \in [Callers -> Journals]
    /\ applied \in [Callers -> BOOLEAN]
    /\ staged \in 0 .. MaxStagings /\ faults \in 0 .. MaxFaults
    /\ coreCommits \subseteq Outcomes
    /\ coreTerminals \in [Outcomes -> Nat]

\* The core is never asked to complete or fail a task on an outcome it has no
\* commit for, across interleavings, lost replies, crashes and reloads: this
\* is what requireCommittedResult guards, and it reads a local, reloadable copy.
CommitBeforeTerminal ==
    \A o \in Outcomes : coreTerminals[o] > 0 => o \in coreCommits

\* The same as a specification: the runtime implements the ledger.
Ledger == INSTANCE ResultLedger WITH commits <- coreCommits, terminals <- coreTerminals
LedgerSpec == Ledger!Spec

\* What getState reports never runs ahead of the core, live or rebuilt from
\* the journal: completed and failed mean the terminal call was performed,
\* result-committed that the commit was.
StatusIsBacked ==
    /\ status = "completed" => Closed("complete")
    /\ status = "failed"    => Closed("fail")
    /\ status = "result-committed" =>
         statePending.committed /\ OutcomeOf(statePending) \in coreCommits

\* The marker a reload would resume from is true of the result it finds: to
\* complete or fail needs a committed result of that kind, to commit needs one.
ResumeMarkerOf(j) ==
    /\ j.resume = "task-complete" => j.pending.committed /\ j.pending.term = "complete"
    /\ j.resume = "task-fail"     => j.pending.committed /\ j.pending.term = "fail"
    /\ j.resume = "result-commit" => j.pending # NoResult
ResumeMarkerIsHonest == ResumeMarkerOf(journal) /\ ResumeMarkerOf(disk.j)

\* The two copies of the pending result, state and journal, agree whenever a
\* caller can look at them.
StateMatchesJournal == statePending = journal.pending

\* The core sees a second terminal call on one outcome only if something was
\* lost in between: no fault, no repetition.
RepetitionNeedsFault ==
    \A o \in Outcomes : coreTerminals[o] <= 1 + faults

\* A method that saved and is about to return has left its own journal on the
\* disk, as the next process will read it.
AcknowledgedIsDurable ==
    \A c \in Callers : pc[c] = "settling" /\ op[c] # "callCapability" =>
        disk = FileOf("journal", journal)

\* With no fault and no method under way the file, once written, is the
\* journal: the single-writer discipline the policies name.
SingleJournalWriter ==
    /\ faults = 0
    /\ \A c \in Callers : pc[c] = "idle"
    /\ disk.kind # "absent"
    => disk = FileOf("journal", journal)

\* A step may drop a pending result only after the core closed it, short of
\* a fault; staging another in its place is the caller's own decision.
DropsOnlyClosedResults ==
    [][/\ journal.pending # NoResult
       /\ journal'.pending = NoResult
       /\ faults' = 0
       => coreTerminals[OutcomeOf(journal.pending)] > 0]_vars

-----------------------------------------------------------------------------
(* Why CommitBeforeTerminal and StatusIsBacked hold: every copy of a result, *)
(* in memory, captured, on its way to the disk or on it, carries a committed *)
(* mark only when the core has the commit.                                   *)

Backed(r) ==
    /\ r.id = 0 => r = NoResult
    /\ r.committed => OutcomeOf(r) \in coreCommits

JournalBacked(j) ==
    /\ Backed(j.pending)
    /\ j.marker = "task-completed" => Closed("complete")
    /\ j.marker = "task-failed" \/ j.attemptStatus = "failed" => Closed("fail")

TerminalBacked(c, term) ==
    /\ held[c].term = term /\ OutcomeOf(held[c]) \in coreCommits
    /\ applied[c] => coreTerminals[OutcomeOf(held[c])] > 0

CallBacked(c) ==
    /\ pc[c] = "idle" => ~applied[c]
    /\ pc[c] = "calling" =>
         /\ op[c] = "commitStagedResult" =>
              held[c].id # 0 /\ (applied[c] => OutcomeOf(held[c]) \in coreCommits)
         /\ op[c] = "completeTask" => TerminalBacked(c, "complete")
         /\ op[c] = "failTask" => TerminalBacked(c, "fail")

\* The copies and the core agree, whoever interleaves with whom: the inductive
\* strengthening of the two properties.
CopiesAreBacked ==
    /\ Backed(statePending) /\ JournalBacked(journal) /\ JournalBacked(disk.j)
    /\ \A c \in Callers : JournalBacked(snap[c]) /\ CallBacked(c)

============================================================================
