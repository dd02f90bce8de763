--------------------------- MODULE SurfaceRuntime ---------------------------
(***************************************************************************)
(* runBidviaSurfaceCapability (src/runtime/surface-runtime.ts): what one   *)
(* CLI command or MCP tool call does with a task runtime.  A run opens a   *)
(* session, builds the runtime from the journal of its track, starts an    *)
(* execution, calls the helper, stages and commits what came of it, writes *)
(* the local accumulation and closes the session.  A later run of the same *)
(* logical work has the same fingerprint, hence the same track and journal.*)
(*                                                                         *)
(* The runtime is the module TaskRuntime, driven by the one caller         *)
(* Surface; its actions are used whole, so each step of a run is a step of *)
(* that module or leaves it alone.                                         *)
(***************************************************************************)
EXTENDS TaskRuntime

CONSTANTS
    Surface,   \* the one caller of the runtime
    MaxRuns    \* bound: runs of the track

ASSUME SurfaceAssumption ==
    /\ Callers = {Surface}
    /\ MaxRuns \in Nat

VARIABLES
    phase,   \* where the run is suspended
    fate,    \* what the run settles with, once that is decided
    runs,    \* runs opened so far
    port,    \* does the run's client have commitRuntimeResult?
    helper,  \* the helper in this run: "uncalled", "performed" or "returned"
    memory   \* the local accumulation

surfaceVars == <<phase, fate, runs, port, helper, memory>>

-----------------------------------------------------------------------------
Phases == {"none", "opened", "attached", "starting", "started", "calling",
           "succeeded", "failing", "staging", "staged", "committing",
           "accumulating", "closing"}

\* "returned" is the helper's result; the others name the error thrown.
Fates == {"undecided", "returned", "blocked", "helper-error", "commit-error",
          "io-error", "crashed"}

\* The four files of the accumulation, as one group: what its capability usage
\* says of the last run and the pending results it copied from the journal.
\* A write that stops half-way leaves files of two groups ("torn").
Memories == [kind : {"absent", "torn", "written"},
             usage : {"succeeded", "blocked", "none"}, result : Results]
Memory(kind, usage, result) == [kind |-> kind, usage |-> usage, result |-> result]
TornMemory == Memory("torn", "none", NoResult)

\* A helper's failure was handled: the result staged is a "fail".
Failed == fate \in {"helper-error", "io-error"}

SurfaceInit ==
    /\ Init
    /\ phase = "none" /\ fate = "undecided" /\ runs = 0
    /\ port = FALSE /\ helper = "uncalled"
    /\ memory = Memory("absent", "none", NoResult)

\* The run goes on to phase p, its fate decided or not.
GoTo(p) == phase' = p /\ UNCHANGED <<fate, runs, port, helper, memory>>
Decide(p, f) == phase' = p /\ fate' = f /\ UNCHANGED <<runs, port, helper, memory>>

-----------------------------------------------------------------------------
\* Up to the await of createBidviaTaskRuntime; session-opened has gone out.
\* The client is the one createClient returns to this run.
Open ==
    /\ phase = "none" /\ runs < MaxRuns
    /\ phase' = "opened" /\ fate' = "undecided" /\ helper' = "uncalled"
    /\ runs' = runs + 1 /\ port' \in BOOLEAN
    /\ UNCHANGED <<memory, vars>>

\* createBidviaTaskRuntime reads the journal of the track.
Attach == phase = "opened" /\ Restart /\ GoTo("attached")

\* The read throws: the run rejects before its try, so nothing closes the session.
AttachFails == phase = "opened" /\ Decide("none", "io-error") /\ UNCHANGED vars

Start == phase = "attached" /\ StartExecution(Surface) /\ GoTo("starting")

\* startExecution resolves; the capability-memory-accessed hook is awaited.
Started == phase = "starting" /\ Settle(Surface) /\ GoTo("started")

\* A bug to catch: the helper is called without waiting for startExecution.
CallHelperAtOnce ==
    phase \in {"attached", "started"} /\ Call(Surface, "callCapability") /\ GoTo("calling")

CallHelper == phase = "started" /\ Call(Surface, "callCapability") /\ GoTo("calling")

\* The orchestrator throws a blocked error; the runtime saves a marker of it.
CallBlocked ==
    /\ phase = "started" /\ CapabilityBlocked(Surface)
    /\ Decide("calling", "blocked")

HelperPerforms ==
    /\ phase = "calling" /\ CorePerforms(Surface)
    /\ helper' = "performed"
    /\ UNCHANGED <<phase, fate, runs, port, memory>>

\* The helper's answer arrives; the capability-called hook is awaited.
HelperReturns ==
    /\ phase = "calling" /\ CapabilityCalled(Surface)
    /\ helper' = "returned"
    /\ UNCHANGED <<phase, fate, runs, port, memory>>

\* callCapability resolves, or rejects with the blocked error it has saved.
CallSettles ==
    /\ phase = "calling" /\ Settle(Surface)
    /\ IF fate = "blocked" THEN GoTo("accumulating") ELSE GoTo("succeeded")

\* handleExecutionFailure: the helper failed, was unknown or unmapped.
HelperFails ==
    /\ phase = "calling" /\ CallRejected(Surface)
    /\ Decide("failing", "helper-error")

\* A bug to catch: a handled failure is staged like a success.
StageAsComplete ==
    phase \in {"succeeded", "failing"} /\ StageResult(Surface, "complete") /\ GoTo("staging")

Stage ==
    \/ phase = "succeeded" /\ StageResult(Surface, "complete") /\ GoTo("staging")
    \/ phase = "failing" /\ StageResult(Surface, "fail") /\ GoTo("staging")

Staged == phase = "staging" /\ Settle(Surface) /\ GoTo("staged")

Commit == phase = "staged" /\ Call(Surface, "commitStagedResult") /\ GoTo("committing")

CommitPerformed ==
    /\ phase = "committing" /\ port
    /\ CorePerforms(Surface) /\ UNCHANGED surfaceVars

\* commitRuntimeOwnedResult lets no empty outcomeRef through.
Committed == phase = "committing" /\ CommitStagedResult(Surface, TRUE) /\ UNCHANGED surfaceVars

\* The commit rejects.  After a success a missing port is no error of the run,
\* any other is; after a failure the helper's error stays.
CommitRejected ==
    /\ phase = "committing" /\ CallRejected(Surface)
    /\ fate' = IF fate = "undecided" /\ port THEN "commit-error" ELSE fate
    /\ UNCHANGED <<phase, runs, port, helper, memory>>

\* A bug to catch: a commit that failed is handled as a failure of the helper.
CommitSettlesAsFailure ==
    /\ phase = "committing" /\ Settle(Surface)
    /\ GoTo(IF fate = "commit-error" THEN "failing" ELSE "accumulating")

\* A bug to catch: after a handled failure the commit leads nowhere.
CommitSettlesSuccessOnly ==
    phase = "committing" /\ fate = "undecided" /\ Settle(Surface) /\ GoTo("accumulating")

CommitSettles == phase = "committing" /\ Settle(Surface) /\ GoTo("accumulating")

-----------------------------------------------------------------------------
(* The steps of a save, and where a failed one takes the run. *)

Saving == phase \in {"starting", "calling", "staging", "committing"}

SaveGoesOn == Saving /\ (OpenFile(Surface) \/ WriteFile(Surface)) /\ UNCHANGED surfaceVars

\* startExecution and stageResult reject out of the try.
SaveAborts ==
    /\ phase \in {"starting", "staging"} /\ WriteFails(Surface)
    /\ Decide("closing", "io-error")

\* The marker of a blocked call is not saved: callCapability rejects with the
\* error of the save, which is no blocked error, and is handled as a failure.
BlockedSaveFails ==
    /\ phase = "calling" /\ WriteFails(Surface)
    /\ Decide("failing", "io-error")

\* A bug to catch: whatever commitStagedResult throws is taken for a missing port.
CommitSaveFailsQuietly ==
    /\ phase = "committing" /\ WriteFails(Surface)
    /\ GoTo(IF op[Surface] = "commitStagedResult" THEN phase ELSE "accumulating")

\* Inside commitStagedResult the first failure runs its catch, the second
\* rejects; in both the error is the save's.
CommitSaveFails ==
    /\ phase = "committing" /\ WriteFails(Surface)
    /\ LET next == IF op[Surface] = "commitStagedResult" THEN phase ELSE "accumulating"
       IN  Decide(next, IF fate = "undecided" THEN "commit-error" ELSE fate)

-----------------------------------------------------------------------------
\* writeLocalAccumulation with what the runtime holds now.
UsageOf == CASE fate = "blocked" -> "blocked" [] Failed -> "none" [] OTHER -> "succeeded"

\* A bug to catch: a run that succeeded records its result as committed.
AccumulateOptimistically ==
    /\ phase = "accumulating"
    /\ memory' = Memory("written", UsageOf,
                        [journal.pending EXCEPT !.committed = fate = "undecided"])
    /\ fate' = IF fate = "undecided" THEN "returned" ELSE fate
    /\ phase' = "closing"
    /\ UNCHANGED <<runs, port, helper, vars>>

Accumulate ==
    /\ phase = "accumulating"
    /\ memory' = Memory("written", UsageOf, journal.pending)
    /\ fate' = IF fate = "undecided" THEN "returned" ELSE fate
    /\ phase' = "closing"
    /\ UNCHANGED <<runs, port, helper, vars>>

\* One of its files fails; that error replaces whatever the run had to report.
AccumulateFails ==
    /\ phase = "accumulating"
    /\ memory' = TornMemory /\ fate' = "io-error" /\ phase' = "closing"
    /\ UNCHANGED <<runs, port, helper, vars>>

\* finally: task-detached and session-closed go out, and the run settles.
Close == phase = "closing" /\ GoTo("none") /\ UNCHANGED vars

\* The process dies, and the runtime object with it.
Crash ==
    /\ phase # "none" /\ Restart
    /\ phase' = "none" /\ fate' = "crashed"
    /\ memory' \in {memory} \cup IF phase = "accumulating" THEN {TornMemory} ELSE {}
    /\ UNCHANGED <<runs, port, helper>>

-----------------------------------------------------------------------------
Begin == Open \/ Attach \/ AttachFails \/ Start \/ Started
Execute == CallHelper \/ CallBlocked \/ HelperPerforms \/ HelperReturns \/ CallSettles \/ HelperFails
Record == Stage \/ Staged \/ Commit \/ CommitPerformed \/ Committed \/ CommitRejected \/ CommitSettles
Persists == SaveGoesOn \/ SaveAborts \/ BlockedSaveFails \/ CommitSaveFails
End == Accumulate \/ AccumulateFails \/ Close

SurfaceNext == Begin \/ Execute \/ Record \/ Persists \/ End \/ Crash

SurfaceSpec == SurfaceInit /\ [][SurfaceNext]_<<vars, surfaceVars>>

\* The event loop runs whatever is ready, and the file system answers.  The
\* core need not: nothing times a request out by default.
Local == Attach \/ Start \/ Started \/ CallHelper \/ CallSettles \/ Stage \/ Staged
         \/ Commit \/ CommitSettles \/ SaveGoesOn \/ Accumulate \/ Close
SurfaceFairSpec == SurfaceSpec /\ WF_<<vars, surfaceVars>>(Local)

-----------------------------------------------------------------------------
(* What a run promises. *)

SurfaceTypeOK ==
    /\ phase \in Phases /\ fate \in Fates /\ runs \in 0 .. MaxRuns
    /\ port \in BOOLEAN
    /\ helper \in {"uncalled", "performed", "returned"}
    /\ memory \in Memories

\* A run that returns the helper's result has left it in the journal of its
\* track, on the disk, and, where the client can commit, with the core
\* (test/surface-runtime.test.ts:16).
ReportedSuccessIsDurable ==
    phase = "closing" /\ fate = "returned" =>
        /\ helper = "returned"
        /\ disk = FileOf("journal", journal) /\ journal.pending.term = "complete"
        /\ port => OutcomeOf(journal.pending) \in coreCommits

\* The helper is never performed before the journal on the disk says that an
\* execution began: a crash during the call can always be told afterwards.
HelperIsJournaled ==
    [][helper # "performed" /\ helper' = "performed" =>
         disk.kind = "journal" /\ disk.j.marker = "execution-started"]_<<vars, surfaceVars>>

\* The core is told of a success only after the helper returned in this run,
\* and of a failure only when it did not.
OutcomeTellsWhatHappened ==
    [][\A o \in coreCommits' \ coreCommits :
         o[2] = "complete" <=> helper = "returned"]_<<vars, surfaceVars>>

\* A run stages one result at most: a success whose commit or save fails is
\* never recorded again as a failure.
OneResultPerRun == staged <= runs

\* The accumulation never pretends a result is committed that the core does
\* not have (docs/CORE_AGENT_CLIENT_PLANE_CONTRACT_GAPS.md:91).
AccumulationIsBacked ==
    memory.result.committed => OutcomeOf(memory.result) \in coreCommits

\* A run whose requests are answered, or refused, settles whatever fails in it.
RequestsSettle == []<>(pc[Surface] # "calling")
RunsSettle == RequestsSettle => (phase = "opened" ~> phase = "none")

\* Only "non-blocked execution failures" become results
\* (test/mcp-runtime-session.test.ts:216): after a blocked call the journal
\* does not go on to a staged result.
BlockedCallsAreNotResults ==
    [][journal.marker = "capability-blocked" =>
         journal'.marker # "result-staged"]_<<vars, surfaceVars>>

=============================================================================
