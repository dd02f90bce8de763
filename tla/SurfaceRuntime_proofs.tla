----------------------- MODULE SurfaceRuntime_proofs -----------------------
(***************************************************************************)
(* A run of the surface only ever takes steps of the task runtime, so what *)
(* is proved of the runtime holds under the surface, for every number of   *)
(* runs, faults and stagings; from it follows what the accumulation says.  *)
(***************************************************************************)
EXTENDS SurfaceRuntime, TaskRuntime_proofs

allVars == <<vars, surfaceVars>>

\* A step of a run is a step of the runtime or leaves the runtime alone.
LEMMA SurfaceStepIsRuntimeStep == [SurfaceNext]_allVars => [Next]_vars
<1> SUFFICES ASSUME SurfaceNext PROVE [Next]_vars
  BY DEF allVars
<1>1. Surface \in Callers
  BY SurfaceAssumption
<1>2. Step(Surface) => Next
  BY <1>1 DEF Next
<1>3. CASE Begin
  BY <1>2, <1>3 DEF Begin, Open, Attach, AttachFails, Start, Started, Next, Step, Observe, Save
<1>4. CASE Execute
  BY <1>2, <1>4 DEF Execute, CallHelper, CallBlocked, HelperPerforms, HelperReturns,
     CallSettles, HelperFails, Step, Save
<1>5. CASE Record
  <2>1. \A term \in Terminals : StageResult(Surface, term) => Step(Surface)
    BY DEF Step
  <2>2. CommitStagedResult(Surface, TRUE) => Step(Surface)
    BY DEF Step
  <2>3. Stage => Step(Surface)
    BY <2>1 DEF Stage, Terminals
  <2> QED
    BY <1>2, <1>5, <2>2, <2>3 DEF Record, Staged, Commit, CommitPerformed, Committed,
       CommitRejected, CommitSettles, Step, Save
<1>6. CASE Persists
  BY <1>2, <1>6 DEF Persists, SaveGoesOn, SaveAborts, BlockedSaveFails, CommitSaveFails, Step, Save
<1>7. CASE End
  BY <1>7 DEF End, Accumulate, AccumulateFails, Close
<1>8. CASE Crash
  BY <1>8 DEF Crash, Next
<1> QED BY <1>3, <1>4, <1>5, <1>6, <1>7, <1>8 DEF SurfaceNext

\* The surface implements the runtime: every theorem of TaskRuntime_proofs
\* holds of it.
THEOREM SurfaceUsesRuntime == SurfaceSpec => Spec
<1>1. SurfaceInit => Init
  BY DEF SurfaceInit
<1> QED BY <1>1, SurfaceStepIsRuntimeStep, PTL DEF SurfaceSpec, Spec, allVars

-----------------------------------------------------------------------------
\* The core only gains commits.
LEMMA CommitsGrow == [Next]_vars => coreCommits \subseteq coreCommits'
<1> SUFFICES ASSUME Next PROVE coreCommits \subseteq coreCommits'
  BY DEF vars
<1> QED
  BY DEF Next, coreVars, Restart, Step, Observe, ReceiveTask, StartExecution, RecordTimeout,
     Advance, StageResult, CapabilityBlocked, Call, CorePerforms, Reply, Claim, Accept,
     RenewLease, Suspend, Resume, CapabilityCalled, CommitStagedResult, CompleteTask,
     FailTask, Terminate, CallRejected, Save, OpenFile, WriteFile, WriteFails, Settle

\* The memory changes to a copy of the journal's pending result, or to none.
LEMMA MemoryCopies ==
  ASSUME [SurfaceNext]_allVars
  PROVE  memory'.result \in {memory.result, journal.pending, NoResult}
<1>1. UNCHANGED memory \/ memory' = TornMemory
        \/ memory' = Memory("written", UsageOf, journal.pending)
  BY DEF allVars, surfaceVars, SurfaceNext, Begin, Open, Attach, AttachFails, Start, Started,
     Execute, CallHelper, CallBlocked, HelperPerforms, HelperReturns, CallSettles, HelperFails,
     Record, Stage, Staged, Commit, CommitPerformed, Committed, CommitRejected, CommitSettles,
     Persists, SaveGoesOn, SaveAborts, BlockedSaveFails, CommitSaveFails,
     End, Accumulate, AccumulateFails, Close, Crash, GoTo, Decide
<1> QED BY <1>1 DEF TornMemory, Memory

\* Whatever the accumulation says is committed, the core has committed.
THEOREM AccumulationNeverPretends == SurfaceSpec => []AccumulationIsBacked
<1>1. SurfaceInit => AccumulationIsBacked
  BY DEF SurfaceInit, AccumulationIsBacked, Memory, NoResult
<1>2. AccumulationIsBacked /\ CopiesAreBacked /\ [SurfaceNext]_allVars => AccumulationIsBacked'
  <2> SUFFICES ASSUME AccumulationIsBacked, CopiesAreBacked, [SurfaceNext]_allVars
               PROVE  AccumulationIsBacked'
    OBVIOUS
  <2>1. coreCommits \subseteq coreCommits'
    BY SurfaceStepIsRuntimeStep, CommitsGrow
  <2>2. journal.pending.committed => OutcomeOf(journal.pending) \in coreCommits
    BY DEF CopiesAreBacked, JournalBacked, Backed
  <2>3. ~NoResult.committed
    BY DEF NoResult
  <2> QED BY <2>1, <2>2, <2>3, MemoryCopies DEF AccumulationIsBacked, OutcomeOf
<1> QED BY <1>1, <1>2, SurfaceUsesRuntime, CopiesBacked, PTL DEF SurfaceSpec, allVars

-----------------------------------------------------------------------------
\* Before it stages, a run has a staging left.
StagingsLeft ==
    /\ staged \in Nat /\ runs \in Nat /\ staged <= runs
    /\ phase \in {"opened", "attached", "starting", "started", "calling",
                  "succeeded", "failing"} => staged < runs

\* One step keeps StagingsLeft: only Stage takes a staging, and leaves for
\* phases from which only a new run leads back.
LEMMA StagingsLeftKept == StagingsLeft /\ [SurfaceNext]_allVars => StagingsLeft'
<1> SUFFICES ASSUME StagingsLeft, [SurfaceNext]_allVars PROVE StagingsLeft'
  OBVIOUS
<1> USE DEF StagingsLeft
<1>1. CASE UNCHANGED allVars
  BY <1>1 DEF allVars, vars, surfaceVars
<1>2. CASE Begin
  <2>1. UNCHANGED staged
    BY <1>2 DEF Begin, Open, Attach, AttachFails, Start, Started, Restart, StartExecution,
       Advance, Settle, vars
  <2> QED BY <1>2, <2>1 DEF Begin, Open, Attach, AttachFails, Start, Started, GoTo, Decide
<1>3. CASE Execute
  <2>1. UNCHANGED staged
    BY <1>3 DEF Execute, CallHelper, CallBlocked, HelperPerforms, HelperReturns, CallSettles,
       HelperFails, Call, CapabilityBlocked, CorePerforms, CapabilityCalled, Settle, CallRejected
  <2> QED
    BY <1>3, <2>1 DEF Execute, CallHelper, CallBlocked, HelperPerforms, HelperReturns,
       CallSettles, HelperFails, GoTo, Decide
<1>4. CASE Stage
  <2>1. staged' = staged + 1 /\ UNCHANGED runs /\ phase' = "staging" /\ staged < runs
    BY <1>4 DEF Stage, StageResult, GoTo
  <2> QED BY <2>1
<1>5. CASE Record /\ ~Stage
  <2>1. UNCHANGED staged
    BY <1>5 DEF Record, Staged, Commit, CommitPerformed, Committed, CommitRejected,
       CommitSettles, Settle, Call, CorePerforms, CommitStagedResult, CallRejected
  <2> QED
    BY <1>5, <2>1 DEF Record, Staged, Commit, CommitPerformed, Committed, CommitRejected,
       CommitSettles, GoTo, surfaceVars
<1>6. CASE Persists
  <2>1. UNCHANGED staged
    BY <1>6 DEF Persists, SaveGoesOn, SaveAborts, BlockedSaveFails, CommitSaveFails, OpenFile,
       WriteFile, WriteFails
  <2> QED
    BY <1>6, <2>1 DEF Persists, SaveGoesOn, SaveAborts, BlockedSaveFails, CommitSaveFails,
       Decide, surfaceVars
<1>7. CASE End
  BY <1>7 DEF End, Accumulate, AccumulateFails, Close, GoTo, vars
<1>8. CASE Crash
  BY <1>8 DEF Crash, Restart
<1> QED BY <1>1, <1>2, <1>3, <1>4, <1>5, <1>6, <1>7, <1>8 DEF SurfaceNext

\* However its commit, its saves and its accumulation fail, a run stages one
\* result at most.
THEOREM OneResultStaged == SurfaceSpec => []OneResultPerRun
<1>1. SurfaceInit => StagingsLeft
  BY DEF SurfaceInit, Init, StagingsLeft
<1>2. StagingsLeft => OneResultPerRun
  BY DEF StagingsLeft, OneResultPerRun
<1> QED BY <1>1, <1>2, StagingsLeftKept, PTL DEF SurfaceSpec, allVars

-----------------------------------------------------------------------------
(* The run, told by its phase: what the runtime is doing for it, what it    *)
(* has decided, and what the journal then says of it.                       *)

Saves == pc[Surface] \in {"opening", "writing", "settling"}

\* The journal on the disk says that an execution began, and nothing since.
Began == disk = FileOf("journal", journal) /\ journal.marker = "execution-started"

\* The pending result says what became of the helper, and so does the fate.
Told ==
    /\ journal.pending.term = "complete" <=> helper = "returned"
    /\ fate \in (IF helper = "returned" THEN {"undecided", "commit-error"}
                 ELSE {"helper-error", "io-error"})

\* The core has the pending result of a success, if the client can commit.
Delivered == port => OutcomeOf(journal.pending) \in coreCommits

Durable ==
    /\ helper = "returned"
    /\ disk = FileOf("journal", journal) /\ journal.pending.term = "complete"
    /\ Delivered

IdlePhases == {"none", "opened", "attached", "started", "succeeded", "failing",
               "staged", "accumulating", "closing"}

BeginInv ==
    /\ phase \in {"opened", "attached", "starting", "started"} =>
         fate = "undecided" /\ helper = "uncalled"
    /\ phase = "starting" =>
         Saves /\ op[Surface] = "startExecution" /\ journal.marker = "execution-started"
    /\ phase = "started" => Began
ExecuteInv ==
    /\ phase = "calling" =>
         /\ op[Surface] = "callCapability"
         /\ \/ fate = "undecided" /\ Began
               /\ pc[Surface] = (IF helper = "returned" THEN "settling" ELSE "calling")
            \/ fate = "blocked" /\ Saves /\ helper # "returned"
    /\ phase = "succeeded" => fate = "undecided" /\ helper = "returned"
    /\ phase = "failing" => Failed /\ helper # "returned"
RecordInv ==
    /\ phase \in {"staging", "staged", "committing"} => Told
    /\ phase = "staging" => Saves /\ op[Surface] = "stageResult"
    /\ phase = "committing" =>
         \/ pc[Surface] = "calling" /\ op[Surface] = "commitStagedResult"
         \/ /\ Saves /\ op[Surface] \in {"commitStagedResult", "commit-catch"}
            /\ fate = "undecided" => Delivered
EndInv ==
    /\ phase = "accumulating" => fate # "returned" /\ (fate = "undecided" => Durable)
    /\ phase = "closing" => (fate = "returned" => Durable)

RunInv ==
    /\ phase \in IdlePhases => pc[Surface] = "idle"
    /\ BeginInv /\ ExecuteInv /\ RecordInv /\ EndInv

\* The surface is one caller, so what holds of one caller holds under it.
LEMMA SurfaceIsOneCaller == OneCaller /\ Surface \in Callers
BY SurfaceAssumption DEF OneCaller

\* What saving, and leaving, does to the one caller.
LEMMA SavesAt ==
    ASSUME TypeOK, NEW name, NEW j \in Journals, NEW m, Persist(Surface, name, j, m)
    PROVE  /\ pc'[Surface] = "opening" /\ op'[Surface] = name
           /\ journal'.pending = j.pending /\ journal'.marker = j.marker
<1>1. Surface \in Callers
  BY SurfaceIsOneCaller
<1>2. pc'[Surface] = "opening" /\ op'[Surface] = name
  BY <1>1 DEF Persist, TypeOK
<1>3. journal'.pending = j.pending /\ journal'.marker = j.marker
  BY DEF Persist, Journals
<1> QED BY <1>2, <1>3

LEMMA LeavesAt == ASSUME TypeOK, Leave(Surface) PROVE pc'[Surface] = "idle"
BY SurfaceIsOneCaller DEF Leave, TypeOK

\* A new process has nothing under way.
LEMMA RestartsAt == ASSUME Restart PROVE pc'[Surface] = "idle"
BY SurfaceIsOneCaller DEF Restart

\* Opening a run, attaching its runtime and starting an execution.
LEMMA RunBegins ==
    ASSUME IInv, SoloInv, RunInv, Begin PROVE RunInv'
<1> USE DEF RunInv, BeginInv, ExecuteInv, RecordInv, EndInv, IdlePhases
<1>1. TypeOK
  BY DEF IInv
<1>2. CASE Open \/ AttachFails
  BY <1>2 DEF Open, AttachFails, Decide, vars
<1>3. CASE Attach
  BY <1>3, RestartsAt DEF Attach, GoTo
<1>4. CASE Start
  <2> DEFINE j == [Attempted(journal, "executing") EXCEPT !.marker = "execution-started",
                                                          !.ids = @ \cup {}]
  <2>1. Persist(Surface, "startExecution", j, "execution-started")
    BY <1>4 DEF Start, StartExecution, Advance
  <2>2. Attempted(journal, "executing") \in Journals
    BY <1>1, AttemptedType DEF TypeOK, AttemptStatuses
  <2>3. j \in Journals /\ j.marker = "execution-started"
    BY <2>2 DEF Journals, Markers, Ids
  <2> HIDE DEF j
  <2>4. /\ pc'[Surface] = "opening" /\ op'[Surface] = "startExecution"
        /\ journal'.marker = "execution-started"
    BY <1>1, <2>1, <2>3, SavesAt
  <2>5. phase' = "starting" /\ fate' = "undecided" /\ helper' = "uncalled"
    BY <1>4 DEF Start, GoTo
  <2> QED BY <2>4, <2>5 DEF Saves
<1>5. CASE Started
  <2>1. pc[Surface] = "settling" /\ pc'[Surface] = "idle" /\ UNCHANGED <<journal, disk>>
    BY <1>1, <1>5, LeavesAt DEF Started, Settle
  <2>2. disk = FileOf("journal", journal) /\ journal.marker = "execution-started"
    BY <1>5, <2>1, SurfaceIsOneCaller DEF Started, SoloInv, WritesItsJournal
  <2>3. phase' = "started" /\ fate' = "undecided" /\ helper' = "uncalled"
    BY <1>5 DEF Started, GoTo
  <2> QED BY <2>1, <2>2, <2>3 DEF Began
<1> QED BY <1>2, <1>3, <1>4, <1>5 DEF Begin

\* The helper's call, whatever comes of it.
LEMMA RunExecutes ==
    ASSUME IInv, SoloInv, RunInv, Execute PROVE RunInv'
<1> USE DEF RunInv, BeginInv, ExecuteInv, RecordInv, EndInv, IdlePhases
<1>1. TypeOK /\ Surface \in Callers
  BY SurfaceIsOneCaller DEF IInv
<1>2. CASE CallHelper
  <2>1. /\ pc'[Surface] = "calling" /\ op'[Surface] = "callCapability"
        /\ UNCHANGED <<journal, disk>>
    BY <1>1, <1>2 DEF CallHelper, Call, TypeOK
  <2>2. phase = "started" /\ phase' = "calling" /\ UNCHANGED <<fate, helper>>
    BY <1>2 DEF CallHelper, GoTo
  <2> QED BY <2>1, <2>2 DEF Began
<1>3. CASE CallBlocked
  <2>1. Persist(Surface, "callCapability",
                [journal EXCEPT !.marker = "capability-blocked"], journal.resume)
    BY <1>3 DEF CallBlocked, CapabilityBlocked
  <2>2. [journal EXCEPT !.marker = "capability-blocked"] \in Journals
    BY <1>1 DEF TypeOK, Journals, Markers
  <2>3. pc'[Surface] = "opening" /\ op'[Surface] = "callCapability"
    BY <1>1, <2>1, <2>2, SavesAt
  <2>4. phase = "started" /\ phase' = "calling" /\ fate' = "blocked" /\ UNCHANGED helper
    BY <1>3 DEF CallBlocked, Decide
  <2> QED BY <2>3, <2>4 DEF Saves
<1>4. CASE HelperPerforms
  <2>1. pc[Surface] = "calling" /\ UNCHANGED <<pc, op, journal, disk>>
    BY <1>4 DEF HelperPerforms, CorePerforms
  <2>2. phase = "calling" /\ UNCHANGED <<phase, fate>> /\ helper' = "performed"
    BY <1>4 DEF HelperPerforms
  <2> QED BY <2>1, <2>2 DEF Began, Saves
<1>5. CASE HelperReturns
  <2>1. /\ pc[Surface] = "calling" /\ pc'[Surface] = "settling"
        /\ UNCHANGED <<op, journal, disk>>
    BY <1>1, <1>5 DEF HelperReturns, CapabilityCalled, Answers, TypeOK
  <2>2. phase = "calling" /\ UNCHANGED <<phase, fate>> /\ helper' = "returned"
    BY <1>5 DEF HelperReturns
  <2> QED BY <2>1, <2>2 DEF Began, Saves
<1>6. CASE CallSettles
  <2>1. pc[Surface] = "settling" /\ pc'[Surface] = "idle" /\ phase = "calling"
    BY <1>1, <1>6, LeavesAt DEF CallSettles, Settle
  <2>2. \/ fate = "blocked" /\ phase' = "accumulating"
        \/ fate = "undecided" /\ phase' = "succeeded"
    BY <1>6, <2>1 DEF CallSettles, GoTo
  <2>3. UNCHANGED <<fate, helper>>
    BY <1>6 DEF CallSettles, GoTo
  <2> QED BY <2>1, <2>2, <2>3
<1>7. CASE HelperFails
  <2>1. pc[Surface] = "calling" /\ phase = "calling"
    BY <1>7 DEF HelperFails, CallRejected
  <2>2. helper # "returned" /\ op[Surface] # "commitStagedResult"
    BY <2>1 DEF Saves
  <2>3. pc'[Surface] = "idle"
    BY <1>1, <1>7, <2>2, LeavesAt DEF HelperFails, CallRejected
  <2>4. phase' = "failing" /\ fate' = "helper-error" /\ UNCHANGED helper
    BY <1>7 DEF HelperFails, Decide
  <2> QED BY <2>2, <2>3, <2>4 DEF Failed
<1> QED BY <1>2, <1>3, <1>4, <1>5, <1>6, <1>7 DEF Execute

\* Staging what happened.
LEMMA RunStages ==
    ASSUME IInv, SoloInv, RunInv, Stage PROVE RunInv'
<1> USE DEF RunInv, BeginInv, ExecuteInv, RecordInv, EndInv, IdlePhases
<1>1. TypeOK
  BY DEF IInv
<1>2. PICK term \in Terminals :
        /\ StageResult(Surface, term)
        /\ \/ phase = "succeeded" /\ term = "complete"
           \/ phase = "failing" /\ term = "fail"
        /\ GoTo("staging")
  BY DEF Stage, Terminals
<1> DEFINE r == [id |-> staged + 1, term |-> term, committed |-> FALSE, outcome |-> FALSE]
           j == [journal EXCEPT !.pending = r, !.marker = "result-staged"]
<1>3. staged \in Nat /\ staged + 1 \in 0 .. MaxStagings
  BY <1>1, <1>2, BoundsAssumption DEF StageResult, TypeOK
<1>4. r \in Results /\ r.term = term
  BY <1>3 DEF Results
<1>5. j \in Journals /\ j.pending = r
  BY <1>1, <1>4 DEF TypeOK, Journals, Markers
<1>6. Persist(Surface, "stageResult", j, "result-commit")
  BY <1>2 DEF StageResult
<1> HIDE DEF r, j
<1>7. /\ pc'[Surface] = "opening" /\ op'[Surface] = "stageResult"
      /\ journal'.pending.term = term
  BY <1>1, <1>4, <1>5, <1>6, SavesAt
<1>8. phase' = "staging" /\ UNCHANGED <<fate, helper>>
  BY <1>2 DEF GoTo
<1>9. Told'
  BY <1>2, <1>7, <1>8 DEF Told, Failed
<1> QED BY <1>7, <1>8, <1>9 DEF Saves

\* Committing it.
LEMMA RunRecords ==
    ASSUME IInv, SoloInv, RunInv, Record PROVE RunInv'
<1> USE DEF RunInv, BeginInv, ExecuteInv, RecordInv, EndInv, IdlePhases
<1>1. TypeOK /\ Surface \in Callers
  BY SurfaceIsOneCaller DEF IInv
<1>2. CASE Staged
  <2>1. pc'[Surface] = "idle" /\ UNCHANGED journal
    BY <1>1, <1>2, LeavesAt DEF Staged, Settle
  <2>2. phase = "staging" /\ phase' = "staged" /\ UNCHANGED <<fate, helper>>
    BY <1>2 DEF Staged, GoTo
  <2> QED BY <2>1, <2>2 DEF Told
<1>3. CASE Commit
  <2>1. /\ pc'[Surface] = "calling" /\ op'[Surface] = "commitStagedResult"
        /\ UNCHANGED journal
    BY <1>1, <1>3 DEF Commit, Call, TypeOK
  <2>2. phase = "staged" /\ phase' = "committing" /\ UNCHANGED <<fate, helper>>
    BY <1>3 DEF Commit, GoTo
  <2> QED BY <2>1, <2>2 DEF Told
<1>4. CASE CommitPerformed
  <2>1. /\ pc[Surface] = "calling" /\ UNCHANGED <<pc, op, journal>>
        /\ phase = "committing" /\ UNCHANGED <<phase, fate, helper>>
    BY <1>4 DEF CommitPerformed, CorePerforms, surfaceVars
  <2> QED BY <2>1 DEF Told, Saves
<1>5. CASE Committed
  <2> DEFINE r == [held[Surface] EXCEPT !.committed = TRUE, !.outcome = TRUE]
             j == [journal EXCEPT !.pending = IF journal.pending.id = held[Surface].id
                                                THEN r ELSE @,
                                  !.marker = "result-committed"]
             m == IF r.term = "fail" THEN "task-fail" ELSE "task-complete"
  <2>1. /\ CommitStagedResult(Surface, TRUE) /\ phase = "committing"
        /\ UNCHANGED <<phase, fate, helper, port>>
    BY <1>5 DEF Committed, surfaceVars
  <2>2. /\ pc[Surface] = "calling" /\ op[Surface] = "commitStagedResult" /\ applied[Surface]
        /\ Persist(Surface, "commitStagedResult", j, m) /\ UNCHANGED coreCommits
    BY <2>1 DEF CommitStagedResult, Answers, coreVars
  <2>3. held[Surface] = journal.pending /\ held[Surface] \in Results
    BY <1>1, <2>2 DEF SoloInv, HeldIsPending, TypeOK
  <2>4. OutcomeOf(held[Surface]) \in coreCommits
    BY <1>1, <2>2 DEF IInv, CopiesAreBacked, CallBacked
  <2>5. r \in Results /\ r.term = journal.pending.term /\ r.id = journal.pending.id
    BY <2>3 DEF Results
  <2>6. j = [journal EXCEPT !.pending = r, !.marker = "result-committed"]
    BY <2>3
  <2> HIDE DEF r, j, m
  <2>7. j \in Journals /\ j.pending = r
    BY <1>1, <2>5, <2>6 DEF TypeOK, Journals, Markers
  <2>8. /\ pc'[Surface] = "opening" /\ op'[Surface] = "commitStagedResult"
        /\ journal'.pending = r
    BY <1>1, <2>2, <2>7, SavesAt
  <2>9. Delivered'
    BY <2>2, <2>3, <2>4, <2>5, <2>8 DEF Delivered, OutcomeOf
  <2>10. Told'
    BY <2>1, <2>5, <2>8 DEF Told
  <2> QED BY <2>1, <2>8, <2>9, <2>10 DEF Saves
<1>6. CASE CommitRejected
  <2>1. /\ CallRejected(Surface) /\ pc[Surface] = "calling"
        /\ phase = "committing" /\ UNCHANGED <<phase, helper, port>>
        /\ fate' = IF fate = "undecided" /\ port THEN "commit-error" ELSE fate
    BY <1>6 DEF CommitRejected, CallRejected
  <2>2. op[Surface] = "commitStagedResult"
    BY <2>1 DEF Saves
  <2>3. Persist(Surface, "commit-catch", journal, "result-commit") /\ journal \in Journals
    BY <1>1, <2>1, <2>2 DEF CallRejected, TypeOK
  <2>4. /\ pc'[Surface] = "opening" /\ op'[Surface] = "commit-catch"
        /\ journal'.pending = journal.pending
    BY <1>1, <2>3, SavesAt
  <2>5. Told'
    BY <2>1, <2>4 DEF Told
  <2>6. fate' = "undecided" => Delivered'
    BY <2>1 DEF Delivered
  <2> QED BY <2>1, <2>4, <2>5, <2>6 DEF Saves
<1>7. CASE CommitSettles
  <2>1. /\ pc[Surface] = "settling" /\ pc'[Surface] = "idle"
        /\ phase = "committing" /\ phase' = "accumulating"
        /\ UNCHANGED <<journal, disk, coreCommits, fate, helper, port>>
    BY <1>1, <1>7, LeavesAt DEF CommitSettles, Settle, GoTo, coreVars
  <2>2. op[Surface] \in {"commitStagedResult", "commit-catch"}
    BY <2>1
  <2>3. disk = FileOf("journal", journal)
    BY <1>1, <2>1, <2>2 DEF SoloInv, WritesItsJournal
  <2>4. fate # "returned"
    BY <2>1 DEF Told
  <2>5. fate = "undecided" => Durable'
    BY <2>1, <2>3 DEF Durable, Delivered, Told
  <2> QED BY <2>1, <2>4, <2>5
<1> QED BY <1>2, <1>3, <1>4, <1>5, <1>6, <1>7, RunStages DEF Record

\* The steps of a save, and a save that fails.
LEMMA RunSaves ==
    ASSUME IInv, SoloInv, RunInv, Persists PROVE RunInv'
<1> USE DEF RunInv, BeginInv, ExecuteInv, RecordInv, EndInv, IdlePhases
<1>1. TypeOK /\ Surface \in Callers
  BY SurfaceIsOneCaller DEF IInv
<1>2. CASE SaveGoesOn
  <2>1. /\ pc[Surface] \in {"opening", "writing"} /\ pc'[Surface] \in {"writing", "settling"}
        /\ UNCHANGED <<op, journal, coreCommits, phase, fate, helper, port>>
    BY <1>1, <1>2 DEF SaveGoesOn, OpenFile, WriteFile, coreVars, surfaceVars, TypeOK
  <2>2. phase \in {"starting", "calling", "staging", "committing"}
    BY <1>2 DEF SaveGoesOn, Saving
  <2>3. phase = "calling" => fate = "blocked"
    BY <2>1
  <2>4. Told => Told'
    BY <2>1 DEF Told
  <2>5. Delivered => Delivered'
    BY <2>1 DEF Delivered
  <2> QED BY <2>1, <2>2, <2>3, <2>4, <2>5 DEF Saves
<1>3. CASE SaveAborts
  <2>1. /\ phase \in {"starting", "staging"} /\ WriteFails(Surface)
        /\ phase' = "closing" /\ fate' = "io-error"
    BY <1>3 DEF SaveAborts, Decide
  <2>2. op[Surface] # "commitStagedResult"
    BY <2>1
  <2>3. pc'[Surface] = "idle"
    BY <1>1, <2>1, <2>2, LeavesAt DEF WriteFails
  <2> QED BY <2>1, <2>3
<1>4. CASE BlockedSaveFails
  <2>1. /\ phase = "calling" /\ WriteFails(Surface) /\ pc[Surface] \in {"opening", "writing"}
        /\ phase' = "failing" /\ fate' = "io-error" /\ UNCHANGED helper
    BY <1>4 DEF BlockedSaveFails, WriteFails, Decide
  <2>2. op[Surface] = "callCapability" /\ helper # "returned"
    BY <2>1
  <2>3. pc'[Surface] = "idle"
    BY <1>1, <2>1, <2>2, LeavesAt DEF WriteFails
  <2> QED BY <2>1, <2>2, <2>3 DEF Failed
<1>5. CASE CommitSaveFails
  <2>1. /\ phase = "committing" /\ WriteFails(Surface) /\ UNCHANGED <<helper, port>>
        /\ fate' = (IF fate = "undecided" THEN "commit-error" ELSE fate)
        /\ phase' = (IF op[Surface] = "commitStagedResult" THEN phase ELSE "accumulating")
    BY <1>5 DEF CommitSaveFails, Decide
  <2>2. Told
    BY <2>1
  <2>3. fate' \notin {"undecided", "returned"}
    BY <2>1, <2>2 DEF Told
  <2>4. CASE op[Surface] = "commitStagedResult"
    <3>1. Persist(Surface, "commit-catch", journal, "result-commit") /\ journal \in Journals
      BY <1>1, <2>1, <2>4 DEF WriteFails, TypeOK
    <3>2. /\ pc'[Surface] = "opening" /\ op'[Surface] = "commit-catch"
          /\ journal'.pending = journal.pending
      BY <1>1, <3>1, SavesAt
    <3>3. Told'
      BY <2>1, <2>2, <3>2 DEF Told
    <3> QED BY <2>1, <2>3, <2>4, <3>2, <3>3 DEF Saves
  <2>5. CASE op[Surface] # "commitStagedResult"
    <3>1. pc'[Surface] = "idle"
      BY <1>1, <2>1, <2>5, LeavesAt DEF WriteFails
    <3> QED BY <2>1, <2>3, <2>5, <3>1
  <2> QED BY <2>4, <2>5
<1> QED BY <1>2, <1>3, <1>4, <1>5 DEF Persists

\* Accumulating, closing, and dying.
LEMMA RunEnds ==
    ASSUME IInv, SoloInv, RunInv, End \/ Crash PROVE RunInv'
<1> USE DEF RunInv, BeginInv, ExecuteInv, RecordInv, EndInv, IdlePhases
<1>1. CASE Accumulate
  <2>1. /\ phase = "accumulating" /\ phase' = "closing" /\ UNCHANGED <<pc, journal, disk>>
        /\ UNCHANGED <<coreCommits, helper, port>>
        /\ fate' = (IF fate = "undecided" THEN "returned" ELSE fate)
    BY <1>1 DEF Accumulate, vars
  <2>2. fate' = "returned" => Durable'
    BY <2>1 DEF Durable, Delivered
  <2> QED BY <2>1, <2>2
<1>2. CASE AccumulateFails
  BY <1>2 DEF AccumulateFails, vars
<1>3. CASE Close
  BY <1>3 DEF Close, GoTo, vars
<1>4. CASE Crash
  BY <1>4, RestartsAt DEF Crash
<1> QED BY <1>1, <1>2, <1>3, <1>4 DEF End

-----------------------------------------------------------------------------
\* The invariant of the run is inductive, on top of those of its runtime.
LEMMA NextRunInv == IInv /\ SoloInv /\ RunInv /\ [SurfaceNext]_allVars => RunInv'
<1> SUFFICES ASSUME IInv, SoloInv, RunInv, [SurfaceNext]_allVars PROVE RunInv'
  OBVIOUS
<1>1. CASE UNCHANGED allVars
  BY <1>1 DEF allVars, vars, surfaceVars, RunInv, BeginInv, ExecuteInv, RecordInv, EndInv,
     IdlePhases, Saves, Began, Told, Delivered, Durable, Failed
<1> QED BY <1>1, RunBegins, RunExecutes, RunRecords, RunSaves, RunEnds DEF SurfaceNext

\* Whatever fails, the phase of a run says what its runtime is doing.
THEOREM RunInvariance == SurfaceSpec => [](IInv /\ SoloInv /\ RunInv)
<1>1. SurfaceInit => RunInv
  BY SurfaceIsOneCaller DEF SurfaceInit, Init, RunInv, BeginInv, ExecuteInv, RecordInv,
     EndInv, IdlePhases
<1>2. Spec => []SoloInv
  BY SurfaceIsOneCaller, SoloInvariance
<1> QED BY <1>1, <1>2, NextRunInv, SurfaceUsesRuntime, Invariance, PTL
        DEF SurfaceSpec, allVars

\* A run that returns the helper's result has left it on the disk and, where
\* the client can commit, with the core.
THEOREM SuccessIsDurable == SurfaceSpec => []ReportedSuccessIsDurable
<1>1. RunInv => ReportedSuccessIsDurable
  BY DEF RunInv, EndInv, Durable, Delivered, ReportedSuccessIsDurable
<1> QED BY <1>1, RunInvariance, PTL

\* The helper is performed only after the disk says that an execution began.
THEOREM HelperOnlyIfJournaled == SurfaceSpec => HelperIsJournaled
<1> DEFINE Performed == helper # "performed" /\ helper' = "performed"
           OnDisk == disk.kind = "journal" /\ disk.j.marker = "execution-started"
<1>1. ASSUME RunInv, [SurfaceNext]_allVars, Performed PROVE OnDisk
  <2>1. HelperPerforms
    BY <1>1 DEF allVars, surfaceVars, SurfaceNext, Begin, Open, Attach, AttachFails, Start,
       Started, Execute, CallHelper, CallBlocked, HelperReturns, CallSettles, HelperFails,
       Record, Stage, Staged, Commit, CommitPerformed, Committed, CommitRejected,
       CommitSettles, Persists, SaveGoesOn, SaveAborts, BlockedSaveFails, CommitSaveFails,
       End, Accumulate, AccumulateFails, Close, Crash, GoTo, Decide
  <2>2. phase = "calling" /\ pc[Surface] = "calling"
    BY <2>1 DEF HelperPerforms, CorePerforms
  <2>3. Began
    BY <1>1, <2>2 DEF RunInv, ExecuteInv, Saves
  <2> QED BY <2>3 DEF Began, FileOf
<1>2. RunInv /\ [SurfaceNext]_allVars => [Performed => OnDisk]_allVars
  BY <1>1
<1> QED BY <1>2, RunInvariance, PTL DEF SurfaceSpec, HelperIsJournaled, allVars

\* What the core is told is what happened: a success only after the helper
\* returned in this run, a failure only when it did not.
THEOREM CoreIsToldWhatHappened == SurfaceSpec => OutcomeTellsWhatHappened
<1> DEFINE Tells == \A o \in coreCommits' \ coreCommits : o[2] = "complete" <=> helper = "returned"
<1>1. ASSUME IInv, SoloInv, RunInv, [SurfaceNext]_allVars PROVE Tells
  <2>1. SUFFICES ASSUME NEW o \in coreCommits' \ coreCommits
                 PROVE  o[2] = "complete" <=> helper = "returned"
    OBVIOUS
  <2>2. CorePerforms(Surface) /\ phase \in {"calling", "committing"}
    BY <2>1, <1>1 DEF allVars, vars, coreVars, SurfaceNext, Begin, Open, Attach, AttachFails,
       Start, Started, Execute, CallHelper, CallBlocked, HelperPerforms, HelperReturns,
       CallSettles, HelperFails, Record, Stage, Staged, Commit, CommitPerformed, Committed,
       CommitRejected, CommitSettles, Persists, SaveGoesOn, SaveAborts, BlockedSaveFails,
       CommitSaveFails, End, Accumulate, AccumulateFails, Close, Crash, Restart,
       StartExecution, Advance, Settle, Call, CapabilityBlocked, CapabilityCalled,
       CallRejected, StageResult, CommitStagedResult, OpenFile, WriteFile, WriteFails
  <2>3. op[Surface] = "commitStagedResult" /\ o = OutcomeOf(held[Surface])
    BY <2>1, <2>2 DEF CorePerforms
  <2>4. pc[Surface] = "calling" /\ Surface \in Callers
    BY <2>2, SurfaceIsOneCaller DEF CorePerforms
  <2>5. held[Surface] = journal.pending
    BY <1>1, <2>3, <2>4 DEF SoloInv, HeldIsPending
  <2>6. Told
    BY <1>1, <2>2, <2>3 DEF RunInv, ExecuteInv, RecordInv
  <2> QED BY <2>3, <2>5, <2>6 DEF Told, OutcomeOf
<1>2. IInv /\ SoloInv /\ RunInv /\ [SurfaceNext]_allVars => [Tells]_allVars
  BY <1>1
<1> QED BY <1>2, RunInvariance, PTL DEF SurfaceSpec, OutcomeTellsWhatHappened, allVars

-----------------------------------------------------------------------------
(* Where a run can be, and how it gets to its end.                          *)

\* Every variable of a run keeps its type, on top of the runtime's.
THEOREM SurfaceTypeCorrect == SurfaceSpec => []SurfaceTypeOK
<1> USE DEF SurfaceTypeOK
<1>1. SurfaceInit => SurfaceTypeOK
  <2>1. NoResult \in Results
    BY BoundsAssumption DEF NoResult, Results, Terminals
  <2>2. Memory("absent", "none", NoResult) \in Memories
    BY <2>1 DEF Memory, Memories
  <2>3. 0 \in 0 .. MaxRuns
    BY SurfaceAssumption
  <2> QED BY <2>2, <2>3 DEF SurfaceInit, Phases, Fates
<1>2. ASSUME TypeOK, SurfaceTypeOK, [SurfaceNext]_allVars PROVE SurfaceTypeOK'
  <2>1. memory' \in Memories
    <3>1. NoResult \in Results /\ journal.pending \in Results
      BY <1>2, BoundsAssumption DEF TypeOK, Journals, NoResult, Results, Terminals
    <3>2. TornMemory \in Memories /\ Memory("written", UsageOf, journal.pending) \in Memories
      BY <3>1 DEF TornMemory, Memories, Memory, UsageOf
    <3>3. UNCHANGED memory \/ memory' = TornMemory
            \/ memory' = Memory("written", UsageOf, journal.pending)
      BY <1>2 DEF allVars, surfaceVars, SurfaceNext, Begin, Open, Attach, AttachFails, Start,
         Started, Execute, CallHelper, CallBlocked, HelperPerforms, HelperReturns,
         CallSettles, HelperFails, Record, Stage, Staged, Commit, CommitPerformed, Committed,
         CommitRejected, CommitSettles, Persists, SaveGoesOn, SaveAborts, BlockedSaveFails,
         CommitSaveFails, End, Accumulate, AccumulateFails, Close, Crash, GoTo, Decide
    <3> QED BY <1>2, <3>2, <3>3
  <2>2. CASE Open
    BY <1>2, <2>1, <2>2, SurfaceAssumption DEF Open, Phases, Fates
  <2>3. CASE ~Open
    <3>1. UNCHANGED <<runs, port>> /\ helper' \in {helper, "performed", "returned"}
      BY <1>2, <2>3 DEF allVars, surfaceVars, SurfaceNext, Begin, Attach,
         AttachFails, Start, Started, Execute, CallHelper, CallBlocked, HelperPerforms,
         HelperReturns, CallSettles, HelperFails, Record, Stage, Staged, Commit,
         CommitPerformed, Committed, CommitRejected, CommitSettles, Persists, SaveGoesOn,
         SaveAborts, BlockedSaveFails, CommitSaveFails, End, Accumulate, AccumulateFails,
         Close, Crash, GoTo, Decide
    <3>2. phase' \in Phases /\ fate' \in Fates
      BY <1>2, <2>3 DEF allVars, surfaceVars, SurfaceNext, Begin, Attach, AttachFails, Start,
         Started, Execute, CallHelper, CallBlocked, HelperPerforms, HelperReturns,
         CallSettles, HelperFails, Record, Stage, Staged, Commit, CommitPerformed, Committed,
         CommitRejected, CommitSettles, Persists, SaveGoesOn, SaveAborts, BlockedSaveFails,
         CommitSaveFails, End, Accumulate, AccumulateFails, Close, Crash, GoTo, Decide,
         Phases, Fates
    <3> QED BY <1>2, <2>1, <3>1, <3>2
  <2> QED BY <2>1, <2>2, <2>3
<1> QED BY <1>1, <1>2, SurfaceUsesRuntime, TypeCorrect, PTL DEF SurfaceSpec, allVars

\* Until it is committed, what was staged is in the journal.
HasResult == phase \in {"staging", "staged"} => journal.pending # NoResult

\* Only Stage leads to those phases, and nothing in them takes the result away.
LEMMA HasResultKept ==
    TypeOK /\ HasResult /\ [SurfaceNext]_allVars => HasResult'
<1> SUFFICES ASSUME TypeOK, HasResult, [SurfaceNext]_allVars PROVE HasResult'
  OBVIOUS
<1>1. CASE Stage
  <2>1. PICK term \in Terminals : StageResult(Surface, term)
    BY <1>1 DEF Stage, Terminals
  <2>2. staged \in Nat /\ staged + 1 # 0
    BY BoundsAssumption DEF TypeOK
  <2>3. journal'.pending = [id |-> staged + 1, term |-> term,
                            committed |-> FALSE, outcome |-> FALSE]
    BY <2>1 DEF StageResult, Persist, TypeOK, Journals
  <2> QED BY <2>2, <2>3 DEF HasResult, NoResult
<1>2. CASE UNCHANGED allVars
  BY <1>2 DEF HasResult, allVars, vars, surfaceVars
<1>3. CASE Begin \/ Execute \/ End \/ Crash
  BY <1>3 DEF HasResult, Begin, Open, Attach, AttachFails, Start, Started, Execute,
     CallHelper, CallBlocked, HelperPerforms, HelperReturns, CallSettles, HelperFails, End,
     Accumulate, AccumulateFails, Close, Crash, GoTo, Decide
<1>4. CASE Record /\ ~Stage
  BY <1>4 DEF HasResult, Record, Staged, Settle, Commit, CommitPerformed, Committed,
     CommitRejected, CommitSettles, GoTo, surfaceVars
<1>5. CASE Persists
  BY <1>5 DEF HasResult, Persists, SaveGoesOn, OpenFile, WriteFile, SaveAborts,
     BlockedSaveFails, CommitSaveFails, Decide, surfaceVars
<1> QED BY <1>1, <1>2, <1>3, <1>4, <1>5 DEF SurfaceNext

\* The guard of a step that does not need the core, or a request under way:
\* whatever failed before, an open run has one of the two.
RunCanMove ==
    \/ phase = "none"
    \/ phase \in {"opened", "accumulating", "closing"} /\ pc[Surface] = "idle"
    \/ phase = "attached" /\ Starts(Surface, "startExecution")
    \/ phase = "started" /\ Starts(Surface, "callCapability") /\ Ready("callCapability")
    \/ /\ phase \in {"succeeded", "failing"}
       /\ Starts(Surface, "stageResult") /\ staged < MaxStagings
    \/ /\ phase = "staged"
       /\ Starts(Surface, "commitStagedResult") /\ Ready("commitStagedResult")
    \/ Saving /\ Saves
    \/ phase = "calling" /\ pc[Surface] = "calling" /\ op[Surface] = "callCapability"
    \/ phase = "committing" /\ pc[Surface] = "calling" /\ op[Surface] = "commitStagedResult"

RunMethods == {"startExecution", "callCapability", "stageResult", "commitStagedResult"}

\* No failure leaves a run where nothing is to be done: when it comes to start a method
\* its runtime is free, and when it comes to commit there is something to commit
\* (the try and catch of runBidviaSurfaceCapability).
THEOREM RunNeverStuck ==
    ASSUME RunMethods \subseteq Operations, MaxRuns <= MaxStagings
    PROVE  SurfaceSpec => []RunCanMove
<1>1. ASSUME SurfaceTypeOK, StagingsLeft, HasResult, RunInv PROVE RunCanMove
  <2> USE DEF RunInv, RunCanMove, IdlePhases
  <2>1. CASE phase \in {"none", "opened", "accumulating", "closing"}
    BY <1>1, <2>1
  <2>2. CASE phase \in {"attached", "started"}
    BY <1>1, <2>2 DEF Starts, Ready, Governed, RunMethods
  <2>3. CASE phase \in {"succeeded", "failing"}
    <3>1. staged < MaxStagings
      BY <1>1, <2>3, SurfaceAssumption, BoundsAssumption DEF StagingsLeft, SurfaceTypeOK
    <3> QED BY <1>1, <2>3, <3>1 DEF Starts, RunMethods
  <2>4. CASE phase = "staged"
    BY <1>1, <2>4 DEF Starts, Ready, Governed, RunMethods, HasResult
  <2>5. CASE phase \in {"starting", "calling"}
    BY <1>1, <2>5 DEF Saving, BeginInv, ExecuteInv, Saves
  <2>6. CASE phase \in {"staging", "committing"}
    BY <1>1, <2>6 DEF Saving, RecordInv, Saves
  <2> QED BY <1>1, <2>1, <2>2, <2>3, <2>4, <2>5, <2>6 DEF SurfaceTypeOK, Phases
<1>2. SurfaceInit => StagingsLeft /\ HasResult
  BY DEF SurfaceInit, Init, StagingsLeft, HasResult
<1> QED BY <1>1, <1>2, StagingsLeftKept, HasResultKept, SurfaceTypeCorrect, RunInvariance,
        SurfaceUsesRuntime, TypeCorrect, PTL DEF SurfaceSpec, allVars

-----------------------------------------------------------------------------
\* How far a run is from its end, phase by phase, and in a phase await by await.
Remaining(p) ==
    CASE p = "none" -> 0 [] p = "closing" -> 1 [] p = "accumulating" -> 2
      [] p = "committing" -> 3 [] p = "staged" -> 4 [] p = "staging" -> 5
      [] p \in {"succeeded", "failing"} -> 6 [] p = "calling" -> 7 [] p = "started" -> 8
      [] p = "starting" -> 9 [] p = "attached" -> 10 [] OTHER -> 11
Awaits ==
    CASE pc[Surface] = "calling" -> IF applied[Surface] THEN 7 ELSE 8
      [] pc[Surface] = "opening" -> IF op[Surface] = "commit-catch" THEN 3 ELSE 6
      [] pc[Surface] = "writing" -> IF op[Surface] = "commit-catch" THEN 2 ELSE 5
      [] pc[Surface] = "settling" -> IF op[Surface] = "commit-catch" THEN 1 ELSE 4
      [] OTHER -> 0
LeftToDo == 9 * Remaining(phase) + Awaits

\* Every step of an open run brings it nearer to its end.
Nearer == phase # "none" => LeftToDo \in Nat /\ LeftToDo' < LeftToDo
RunGoesOn == [][Nearer]_<<vars, surfaceVars>>

\* Reaching a later phase is enough: an await counts for less than a phase.
LEMMA LaterIsNearer ==
    ASSUME phase \in Phases, Remaining(phase') + 1 <= Remaining(phase),
           Remaining(phase') \in Nat
    PROVE  Nearer
<1>1. Awaits \in 0 .. 8 /\ Awaits' \in 0 .. 8
  BY DEF Awaits
<1>2. Remaining(phase) \in Nat
  BY DEF Remaining
<1> QED BY <1>1, <1>2 DEF Nearer, LeftToDo

\* Within a phase it is the awaits that are counted.
LEMMA EarlierAwaitIsNearer ==
    ASSUME phase' = phase, Awaits' < Awaits PROVE Nearer
<1>1. Awaits \in 0 .. 8 /\ Awaits' \in 0 .. 8
  BY DEF Awaits
<1>2. Remaining(phase) \in Nat /\ Remaining(phase') = Remaining(phase)
  BY DEF Remaining
<1> QED BY <1>1, <1>2 DEF Nearer, LeftToDo

\* A request that is answered, refused or performed, and a save that goes on or
\* fails, without the run leaving its phase.
LEMMA AwaitsShrink ==
    ASSUME TypeOK, RunInv, phase' = phase,
           HelperPerforms \/ HelperReturns \/ CommitPerformed \/ Committed
           \/ CommitRejected \/ SaveGoesOn \/ CommitSaveFails
    PROVE  Nearer
<1>1. Surface \in Callers
  BY SurfaceIsOneCaller
<1>2. CASE HelperPerforms \/ CommitPerformed
  <2>1. /\ pc[Surface] = "calling" /\ pc' = pc /\ ~applied[Surface] /\ applied'[Surface]
    BY <1>1, <1>2 DEF HelperPerforms, CommitPerformed, CorePerforms, TypeOK
  <2> QED BY <2>1, EarlierAwaitIsNearer DEF Awaits
<1>3. CASE HelperReturns
  <2>1. pc[Surface] = "calling" /\ pc'[Surface] = "settling"
    BY <1>1, <1>3 DEF HelperReturns, CapabilityCalled, Answers, TypeOK
  <2> QED BY <2>1, EarlierAwaitIsNearer DEF Awaits
<1>4. CASE Committed
  <2>1. pc[Surface] = "calling" /\ pc'[Surface] = "opening"
    BY <1>1, <1>4 DEF Committed, CommitStagedResult, Answers, Persist, TypeOK
  <2> QED BY <2>1, EarlierAwaitIsNearer DEF Awaits
<1>5. CASE CommitRejected
  <2>1. pc[Surface] = "calling" /\ op[Surface] = "commitStagedResult"
    BY <1>5 DEF CommitRejected, CallRejected, RunInv, RecordInv, Saves
  <2>2. pc'[Surface] = "opening"
    BY <1>1, <1>5, <2>1 DEF CommitRejected, CallRejected, Persist, TypeOK
  <2> QED BY <2>1, <2>2, EarlierAwaitIsNearer DEF Awaits
<1>6. CASE SaveGoesOn
  <2>1. /\ op' = op
        /\ \/ pc[Surface] = "opening" /\ pc'[Surface] = "writing"
           \/ pc[Surface] = "writing" /\ pc'[Surface] = "settling"
    BY <1>1, <1>6 DEF SaveGoesOn, OpenFile, WriteFile, TypeOK
  <2> QED BY <2>1, EarlierAwaitIsNearer DEF Awaits
<1>7. CASE CommitSaveFails
  <2>1. op[Surface] = "commitStagedResult" /\ pc[Surface] \in {"opening", "writing"}
    BY <1>7 DEF CommitSaveFails, WriteFails, Decide
  <2>2. pc'[Surface] = "opening" /\ op'[Surface] = "commit-catch"
    BY <1>1, <1>7, <2>1 DEF CommitSaveFails, WriteFails, Persist, TypeOK
  <2> QED BY <2>1, <2>2, EarlierAwaitIsNearer DEF Awaits
<1> QED BY <1>2, <1>3, <1>4, <1>5, <1>6, <1>7

\* Whatever is answered, refused or lost, a run never goes back: as there is a
\* bound on what is left, it ends when each of its awaits does.
THEOREM RunsGoOn == SurfaceSpec => RunGoesOn
<1>1. ASSUME TypeOK, SurfaceTypeOK, RunInv, SurfaceNext, ~(UNCHANGED allVars) PROVE Nearer
  <2>1. phase \in Phases
    BY <1>1 DEF SurfaceTypeOK
  <2>2. CASE Open
    BY <2>2 DEF Open, Nearer
  <2>3. CASE phase' = phase /\ ~Open
    <3>1. \/ HelperPerforms \/ HelperReturns \/ CommitPerformed \/ Committed
          \/ CommitRejected \/ SaveGoesOn \/ CommitSaveFails
      BY <1>1, <2>3 DEF SurfaceNext, Begin, Attach, AttachFails, Start, Started, Execute,
         CallHelper, CallBlocked, CallSettles, HelperFails, Record, Stage, Staged, Commit,
         CommitSettles, Persists, SaveAborts, BlockedSaveFails, End, Accumulate,
         AccumulateFails, Close, Crash, GoTo, Decide
    <3> QED BY <1>1, <2>3, <3>1, AwaitsShrink
  <2>4. CASE phase' # phase /\ ~Open
    <3>1. CASE phase' = "none" \/ phase' = "closing"
      <4>1. phase # "none" /\ (phase' = "closing" => phase # "closing")
        BY <1>1, <2>4, <3>1 DEF SurfaceNext, Begin, Attach, AttachFails, Start, Started,
           Execute, CallHelper, CallBlocked, HelperPerforms, HelperReturns, CallSettles,
           HelperFails, Record, Stage, Staged, Commit, CommitPerformed, Committed,
           CommitRejected, CommitSettles, Persists, SaveGoesOn, SaveAborts, BlockedSaveFails,
           CommitSaveFails, End, Accumulate, AccumulateFails, Close, Crash, GoTo, Decide,
           surfaceVars, Saving
      <4>2. Remaining(phase) \in 1 .. 11 /\ (phase' = "closing" => Remaining(phase) \in 2 .. 11)
        BY <2>1, <4>1 DEF Remaining, Phases
      <4>3. Remaining("none") = 0 /\ Remaining("closing") = 1
        BY DEF Remaining
      <4> QED BY <2>1, <3>1, <4>2, <4>3, LaterIsNearer
    <3>2. CASE phase' \notin {"none", "closing"}
      <4>1. \/ phase = "opened" /\ phase' = "attached"
            \/ phase = "attached" /\ phase' = "starting"
            \/ phase = "starting" /\ phase' = "started"
            \/ phase = "started" /\ phase' = "calling"
            \/ phase = "calling" /\ phase' \in {"accumulating", "succeeded", "failing"}
            \/ phase \in {"succeeded", "failing"} /\ phase' = "staging"
            \/ phase = "staging" /\ phase' = "staged"
            \/ phase = "staged" /\ phase' = "committing"
            \/ phase = "committing" /\ phase' = "accumulating"
        BY <1>1, <2>4, <3>2 DEF SurfaceNext, Begin, Attach, AttachFails, Start, Started,
           Execute, CallHelper, CallBlocked, HelperPerforms, HelperReturns, CallSettles,
           HelperFails, Record, Stage, Staged, Commit, CommitPerformed, Committed,
           CommitRejected, CommitSettles, Persists, SaveGoesOn, SaveAborts, BlockedSaveFails,
           CommitSaveFails, End, Accumulate, AccumulateFails, Close, Crash, GoTo, Decide,
           surfaceVars
      <4>2. Remaining(phase') + 1 <= Remaining(phase) /\ Remaining(phase') \in Nat
        BY <4>1 DEF Remaining
      <4> QED BY <2>1, <4>2, LaterIsNearer
    <3> QED BY <3>1, <3>2
  <2> QED BY <2>2, <2>3, <2>4
<1>2. TypeOK /\ SurfaceTypeOK /\ RunInv /\ [SurfaceNext]_allVars => [Nearer]_allVars
  BY <1>1
<1> QED BY <1>2, SurfaceUsesRuntime, TypeCorrect, SurfaceTypeCorrect, RunInvariance, PTL
        DEF SurfaceSpec, RunGoesOn, allVars

=============================================================================
