------------------------- MODULE TaskRuntime_proofs -------------------------
(***************************************************************************)
(* Proofs about TaskRuntime for every set of callers, every choice of      *)
(* methods and every bound.                                                *)
(***************************************************************************)
EXTENDS TaskRuntime, TLAPS

\* Shapes the type proof needs by name.
LEMMA RecordTypes ==
    /\ NoResult \in Results
    /\ InitialJournal \in Journals
    /\ \A k \in {"absent", "empty", "garbled", "journal"}, j \in Journals :
         FileOf(k, j) \in Files
BY BoundsAssumption DEF NoResult, Results, Terminals, InitialJournal, Journals,
     AttemptStatuses, Markers, ResumeMarkers, FileOf, Files

\* deriveStatusFromJournal returns a status.
LEMMA DerivedStatusType ==
    ASSUME NEW j \in Journals PROVE DeriveStatus(j) \in Statuses
<1>1. StatusOfMarker(j) \in Statuses
  BY DEF StatusOfMarker, Statuses
<1>2. j.pending.committed \in BOOLEAN
  BY DEF Journals, Results
<1> QED BY <1>1, <1>2 DEF DeriveStatus, Statuses

\* updateAttemptStatus keeps a journal a journal.
LEMMA AttemptedType ==
    ASSUME NEW j \in Journals, NEW s \in AttemptStatuses
    PROVE  Attempted(j, s) \in Journals
<1> DEFINE n == IF s = "executing" /\ j.marker = "task-timed-out"
                  THEN j.attempt + 1 ELSE j.attempt
<1>1. n \in Nat
  BY DEF Journals
<1>2. Attempted(j, s) = [j EXCEPT !.attemptStatus = s, !.attempt = n]
  BY DEF Attempted, Journals
<1> QED BY <1>1, <1>2 DEF Journals

\* persistJournal's synchronous part keeps the types of what it assigns.
LEMMA PersistType ==
    ASSUME TypeOK, NEW c \in Callers, NEW name \in AllOperations \cup {"commit-catch"},
           NEW j \in Journals, NEW m \in ResumeMarkers, Persist(c, name, j, m)
    PROVE  /\ journal' \in Journals
           /\ pc' \in [Callers -> {"idle", "calling", "opening", "writing", "settling"}]
           /\ op' \in [Callers -> AllOperations \cup {"none", "commit-catch"}]
           /\ held' \in [Callers -> Results] /\ snap' \in [Callers -> Journals]
           /\ applied' \in [Callers -> BOOLEAN]
<1>1. [j EXCEPT !.resume = m] \in Journals
  BY DEF Journals
<1> QED BY <1>1, RecordTypes DEF Persist, TypeOK

\* So does leaving a method.
LEMMA LeaveType ==
    ASSUME TypeOK, NEW c \in Callers, Leave(c)
    PROVE  /\ pc' \in [Callers -> {"idle", "calling", "opening", "writing", "settling"}]
           /\ op' \in [Callers -> AllOperations \cup {"none", "commit-catch"}]
           /\ held' \in [Callers -> Results] /\ snap' \in [Callers -> Journals]
           /\ applied' \in [Callers -> BOOLEAN]
BY RecordTypes DEF Leave, TypeOK

\* The shared tail of the observing methods keeps the types.
LEMMA AdvanceType ==
    ASSUME TypeOK, NEW c \in Callers, NEW name \in AllOperations,
           NEW s \in Statuses, NEW a \in AttemptStatuses,
           NEW m \in Markers \ {"capability-blocked"}, NEW ids \in SUBSET Ids,
           Advance(c, name, s, a, m, ids)
    PROVE  TypeOK'
<1> DEFINE j == [Attempted(journal, a) EXCEPT !.marker = m, !.ids = @ \cup ids]
<1>1. j \in Journals
  <2>1. Attempted(journal, a) \in Journals
    BY AttemptedType DEF TypeOK
  <2> QED BY <2>1 DEF Journals
<1>2. m \in ResumeMarkers
  BY DEF ResumeMarkers
<1>3. Persist(c, name, j, m)
  BY DEF Advance
<1> HIDE DEF j
<1> QED BY <1>1, <1>2, <1>3, PersistType DEF Advance, TypeOK, coreVars

-----------------------------------------------------------------------------
IInv == TypeOK /\ CopiesAreBacked /\ StatusIsBacked /\ CommitBeforeTerminal

\* Saving a journal that is backed keeps every copy backed.
LEMMA PersistBacked ==
    ASSUME IInv, NEW c \in Callers, NEW name, NEW j \in Journals, NEW m,
           Persist(c, name, j, m), JournalBacked(j), UNCHANGED coreVars
    PROVE  /\ JournalBacked(journal)'
           /\ \A d \in Callers : JournalBacked(snap[d])' /\ CallBacked(d)'
<1> DEFINE w == [j EXCEPT !.resume = m]
<1>1. JournalBacked(w)
  BY DEF JournalBacked, Journals, Closed, Backed, OutcomeOf
<1>2. /\ journal' = w
      /\ \A d \in Callers : snap'[d] = IF d = c THEN w ELSE snap[d]
      /\ \A d \in Callers : pc'[d] = IF d = c THEN "opening" ELSE pc[d]
      /\ \A d \in Callers \ {c} : op'[d] = op[d] /\ held'[d] = held[d] /\ applied'[d] = applied[d]
  BY DEF Persist, IInv, TypeOK
<1> HIDE DEF w
<1>3. JournalBacked(journal)'
  BY <1>1, <1>2 DEF coreVars, JournalBacked, Closed, Backed, OutcomeOf
<1>4. ASSUME NEW d \in Callers PROVE JournalBacked(snap[d])'
  BY <1>1, <1>2 DEF IInv, CopiesAreBacked, coreVars, JournalBacked, Closed, Backed, OutcomeOf
<1>5. ASSUME NEW d \in Callers PROVE CallBacked(d)'
  BY <1>2 DEF IInv, CopiesAreBacked, coreVars, CallBacked, TerminalBacked, OutcomeOf
<1> QED BY <1>3, <1>4, <1>5

\* Leaving a method takes nothing away from the copies.
LEMMA LeaveBacked ==
    ASSUME IInv, NEW c \in Callers, Leave(c), UNCHANGED coreVars
    PROVE  \A d \in Callers : JournalBacked(snap[d])' /\ CallBacked(d)'
<1>1. /\ \A d \in Callers : snap'[d] = IF d = c THEN InitialJournal ELSE snap[d]
      /\ \A d \in Callers : pc'[d] = IF d = c THEN "idle" ELSE pc[d]
      /\ \A d \in Callers \ {c} : op'[d] = op[d] /\ held'[d] = held[d] /\ applied'[d] = applied[d]
      /\ applied'[c] = FALSE
  BY DEF Leave, IInv, TypeOK
<1>2. JournalBacked(InitialJournal)
  BY DEF JournalBacked, InitialJournal, Backed, NoResult
<1>3. ASSUME NEW d \in Callers PROVE JournalBacked(snap[d])'
  BY <1>1, <1>2 DEF IInv, CopiesAreBacked, coreVars, JournalBacked, Closed, Backed, OutcomeOf
<1>4. ASSUME NEW d \in Callers PROVE CallBacked(d)'
  BY <1>1 DEF IInv, CopiesAreBacked, coreVars, CallBacked, TerminalBacked, OutcomeOf
<1> QED BY <1>3, <1>4

\* The shared tail of the observing methods: the new marker and attempt status
\* are never those of a task completed or failed.
LEMMA AdvanceBacked ==
    ASSUME IInv, NEW c \in Callers, NEW name \in AllOperations,
           NEW s \in Statuses \ {"completed", "failed", "result-committed"},
           NEW a \in AttemptStatuses \ {"failed"},
           NEW m \in Markers \ {"capability-blocked", "task-completed", "task-failed"},
           NEW ids \in SUBSET Ids,
           Advance(c, name, s, a, m, ids)
    PROVE  IInv'
<1> DEFINE j == [Attempted(journal, a) EXCEPT !.marker = m, !.ids = @ \cup ids]
<1>1. TypeOK'
  BY AdvanceType DEF IInv
<1>2. j \in Journals
  <2>1. Attempted(journal, a) \in Journals
    BY AttemptedType DEF IInv, TypeOK
  <2> QED BY <2>1 DEF Journals
<1>3. j.pending = journal.pending /\ j.marker = m /\ j.attemptStatus = a
  BY DEF Attempted, Journals, IInv, TypeOK
<1>4. JournalBacked(j)
  <2> HIDE DEF j
  <2> QED BY <1>3 DEF JournalBacked, IInv, CopiesAreBacked
<1>5. Persist(c, name, j, m)
  BY DEF Advance
<1> HIDE DEF j
<1>6. UNCHANGED <<statePending, disk, coreVars>> /\ status' = s
  BY DEF Advance
<1>7. CopiesAreBacked'
  <2>1. /\ JournalBacked(journal)'
        /\ \A d \in Callers : JournalBacked(snap[d])' /\ CallBacked(d)'
    BY <1>2, <1>4, <1>5, <1>6, PersistBacked
  <2>2. Backed(statePending)' /\ JournalBacked(disk.j)'
    BY <1>6 DEF IInv, CopiesAreBacked, JournalBacked, Backed, Closed, OutcomeOf, coreVars
  <2> QED BY <2>1, <2>2 DEF CopiesAreBacked
<1>8. StatusIsBacked' /\ CommitBeforeTerminal'
  BY <1>6 DEF StatusIsBacked, IInv, CommitBeforeTerminal, coreVars, Closed
<1> QED BY <1>1, <1>7, <1>8 DEF IInv


-----------------------------------------------------------------------------
\* The initial state satisfies the inductive invariant.
LEMMA InitIInv == Init => IInv
<1> SUFFICES ASSUME Init PROVE IInv
  OBVIOUS
<1>1. TypeOK
  BY RecordTypes, BoundsAssumption DEF Init, TypeOK, Statuses, Outcomes
<1>2. JournalBacked(InitialJournal) /\ Backed(NoResult)
  BY DEF JournalBacked, InitialJournal, Backed, NoResult
<1>3. CopiesAreBacked
  BY <1>2 DEF Init, CopiesAreBacked, CallBacked, FileOf
<1>4. StatusIsBacked /\ CommitBeforeTerminal
  BY DEF Init, StatusIsBacked, CommitBeforeTerminal
<1> QED BY <1>1, <1>3, <1>4 DEF IInv

\* The methods that only observe, before or after their await.
LEMMA ObserveStep == ASSUME IInv, NEW c \in Callers, Observe(c) PROVE IInv'
<1> USE DEF Statuses, AttemptStatuses, Markers, Ids, AllOperations, Governed
<1>1. CASE ReceiveTask(c)
  BY <1>1, AdvanceBacked DEF ReceiveTask
<1>2. CASE StartExecution(c)
  BY <1>2, AdvanceBacked DEF StartExecution
<1>3. CASE RecordTimeout(c)
  BY <1>3, AdvanceBacked DEF RecordTimeout
<1> QED BY <1>1, <1>2, <1>3 DEF Observe

\* The methods the core answered.
LEMMA ReplyStep == ASSUME IInv, NEW c \in Callers, Reply(c) PROVE IInv'
<1> USE DEF Statuses, AttemptStatuses, Markers, Ids, AllOperations, Governed
<1>1. CASE Claim(c)
  BY <1>1, AdvanceBacked DEF Claim
<1>2. CASE Accept(c)
  BY <1>2, AdvanceBacked DEF Accept
<1>3. CASE RenewLease(c)
  BY <1>3, AdvanceBacked DEF RenewLease
<1>4. CASE Suspend(c)
  BY <1>4, AdvanceBacked DEF Suspend
<1>5. CASE Resume(c)
  BY <1>5, AdvanceBacked DEF Resume
<1> QED BY <1>1, <1>2, <1>3, <1>4, <1>5 DEF Reply

\* A new result replaces the pending one, uncommitted.
LEMMA StageStep ==
    ASSUME IInv, NEW c \in Callers, NEW term \in Terminals, StageResult(c, term)
    PROVE  IInv'
<1> DEFINE r == [id |-> staged + 1, term |-> term, committed |-> FALSE, outcome |-> FALSE]
           j == [journal EXCEPT !.pending = r, !.marker = "result-staged"]
<1>1. r \in Results /\ staged' \in 0 .. MaxStagings
  BY BoundsAssumption DEF StageResult, Results, IInv, TypeOK
<1>2. j \in Journals
  BY <1>1 DEF IInv, TypeOK, Journals, Markers
<1>3. Backed(r)
  BY DEF Backed, IInv, TypeOK
<1>4. JournalBacked(j)
  BY <1>3 DEF JournalBacked, IInv, CopiesAreBacked, TypeOK, Journals
<1>5. statePending' = r /\ Persist(c, "stageResult", j, "result-commit")
  BY DEF StageResult
<1> HIDE DEF r, j
<1>6. UNCHANGED <<disk, faults, coreVars>> /\ status' \in {"locally-failed", "locally-completed"}
  BY DEF StageResult
<1>7. TypeOK'
  BY <1>1, <1>2, <1>5, <1>6, PersistType
     DEF IInv, TypeOK, Statuses, AllOperations, ResumeMarkers, coreVars
<1>8. CopiesAreBacked'
  <2>1. /\ JournalBacked(journal)'
        /\ \A d \in Callers : JournalBacked(snap[d])' /\ CallBacked(d)'
    BY <1>2, <1>4, <1>5, <1>6, PersistBacked
  <2>2. Backed(statePending)' /\ JournalBacked(disk.j)'
    BY <1>3, <1>5, <1>6 DEF IInv, CopiesAreBacked, JournalBacked, Backed, Closed, OutcomeOf, coreVars
  <2> QED BY <2>1, <2>2 DEF CopiesAreBacked
<1>9. StatusIsBacked' /\ CommitBeforeTerminal'
  BY <1>6 DEF StatusIsBacked, IInv, CommitBeforeTerminal, coreVars
<1> QED BY <1>7, <1>8, <1>9 DEF IInv

\* A blocked capability call adds a marker of its own.
LEMMA BlockedStep == ASSUME IInv, NEW c \in Callers, CapabilityBlocked(c) PROVE IInv'
<1> DEFINE j == [journal EXCEPT !.marker = "capability-blocked"]
<1>1. j \in Journals /\ journal.resume \in ResumeMarkers
  BY DEF IInv, TypeOK, Journals, Markers
<1>2. JournalBacked(j)
  BY DEF JournalBacked, IInv, CopiesAreBacked, TypeOK, Journals
<1>3. Persist(c, "callCapability", j, journal.resume)
  BY DEF CapabilityBlocked
<1> HIDE DEF j
<1>4. UNCHANGED <<status, statePending, disk, staged, faults, coreVars>>
  BY DEF CapabilityBlocked
<1>5. TypeOK'
  BY <1>1, <1>3, <1>4, PersistType DEF IInv, TypeOK, AllOperations, coreVars
<1>6. CopiesAreBacked'
  <2>1. /\ JournalBacked(journal)'
        /\ \A d \in Callers : JournalBacked(snap[d])' /\ CallBacked(d)'
    BY <1>1, <1>2, <1>3, <1>4, PersistBacked
  <2>2. Backed(statePending)' /\ JournalBacked(disk.j)'
    BY <1>4 DEF IInv, CopiesAreBacked, JournalBacked, Backed, Closed, OutcomeOf, coreVars
  <2> QED BY <2>1, <2>2 DEF CopiesAreBacked
<1>7. StatusIsBacked' /\ CommitBeforeTerminal'
  BY <1>4 DEF StatusIsBacked, IInv, CommitBeforeTerminal, coreVars, Closed, OutcomeOf
<1> QED BY <1>5, <1>6, <1>7 DEF IInv

\* A request leaves with what its guard looked at.
LEMMA CallStep ==
    ASSUME IInv, NEW c \in Callers,
           NEW name \in Governed \cup {"callCapability", "commitStagedResult"}, Call(c, name)
    PROVE  IInv'
<1>1. Captured(name) \in Results
  BY RecordTypes DEF Captured, IInv, TypeOK, Journals
<1>2. /\ pc' = [pc EXCEPT ![c] = "calling"] /\ op' = [op EXCEPT ![c] = name]
      /\ held' = [held EXCEPT ![c] = Captured(name)] /\ applied' = applied
      /\ Ready(name) /\ pc[c] = "idle"
      /\ UNCHANGED <<status, statePending, journal, disk, snap, staged, faults, coreVars>>
  BY DEF Call, Starts
<1>3. TypeOK'
  BY <1>1, <1>2 DEF IInv, TypeOK, coreVars, AllOperations
<1>4. CallBacked(c)'
  <2>1. op'[c] = name /\ held'[c] = Captured(name) /\ applied'[c] = FALSE
    BY <1>2 DEF IInv, TypeOK, CopiesAreBacked, CallBacked
  <2>2. name = "commitStagedResult" => held'[c].id # 0
    BY <1>2, <2>1 DEF Captured, Ready, IInv, CopiesAreBacked, JournalBacked, Backed
  <2>3. name = "completeTask" =>
          held'[c].term = "complete" /\ OutcomeOf(held'[c]) \in coreCommits
    BY <1>2, <2>1 DEF Captured, Ready, RequireCommitted, IInv, CopiesAreBacked, Backed
  <2>4. name = "failTask" =>
          held'[c].term = "fail" /\ OutcomeOf(held'[c]) \in coreCommits
    BY <1>2, <2>1 DEF Captured, Ready, RequireCommitted, IInv, CopiesAreBacked, Backed
  <2>5. coreCommits' = coreCommits /\ pc'[c] = "calling"
    BY <1>2 DEF coreVars, IInv, TypeOK
  <2> QED BY <2>1, <2>2, <2>3, <2>4, <2>5 DEF CallBacked, TerminalBacked, OutcomeOf
<1>5. ASSUME NEW d \in Callers PROVE JournalBacked(snap[d])' /\ CallBacked(d)'
  <2>1. CASE d = c
    BY <2>1, <1>2, <1>4 DEF IInv, CopiesAreBacked, coreVars, JournalBacked, Closed, Backed, OutcomeOf
  <2>2. CASE d # c
    <3>1. /\ pc'[d] = pc[d] /\ op'[d] = op[d] /\ held'[d] = held[d]
          /\ applied'[d] = applied[d] /\ snap'[d] = snap[d]
      BY <1>2, <2>2 DEF IInv, TypeOK
    <3> QED BY <1>2, <3>1 DEF IInv, CopiesAreBacked, coreVars, JournalBacked, Closed,
              Backed, OutcomeOf, CallBacked, TerminalBacked
  <2> QED BY <2>1, <2>2
<1>6. Backed(statePending)' /\ JournalBacked(journal)' /\ JournalBacked(disk.j)'
  BY <1>2 DEF IInv, CopiesAreBacked, JournalBacked, Backed, Closed, OutcomeOf, coreVars
<1>7. StatusIsBacked' /\ CommitBeforeTerminal'
  BY <1>2 DEF StatusIsBacked, IInv, CommitBeforeTerminal, coreVars, Closed, OutcomeOf
<1> QED BY <1>3, <1>5, <1>6, <1>7 DEF IInv, CopiesAreBacked

\* The core's own step: it commits anything, and terminates only on requests
\* whose outcome it has; what it has done only grows.
LEMMA CoreStep == ASSUME IInv, NEW c \in Callers, CorePerforms(c) PROVE IInv'
<1> DEFINE o == OutcomeOf(held[c])
<1>1. /\ pc[c] = "calling" /\ applied' = [applied EXCEPT ![c] = TRUE]
      /\ UNCHANGED <<status, statePending, journal, disk, pc, op, held, snap, staged, faults>>
  BY DEF CorePerforms
<1>2. op[c] = "commitStagedResult" => o \in Outcomes
  <2> SUFFICES ASSUME op[c] = "commitStagedResult" PROVE o \in Outcomes
    OBVIOUS
  <2>1. held[c] \in Results /\ held[c].id # 0
    BY <1>1 DEF IInv, TypeOK, CopiesAreBacked, CallBacked
  <2> QED BY <2>1, BoundsAssumption DEF OutcomeOf, Outcomes, Results
<1>3. op[c] \in {"completeTask", "failTask"} => o \in coreCommits
  BY <1>1 DEF IInv, CopiesAreBacked, CallBacked, TerminalBacked
<1>4. /\ coreCommits \subseteq coreCommits' /\ coreCommits' \subseteq Outcomes
      /\ op[c] = "commitStagedResult" => o \in coreCommits'
  BY <1>2 DEF CorePerforms, IInv, TypeOK
<1>5. /\ coreTerminals' \in [Outcomes -> Nat]
      /\ \A x \in Outcomes : coreTerminals[x] > 0 => coreTerminals'[x] > 0
      /\ \A x \in Outcomes : coreTerminals'[x] > 0 => coreTerminals[x] > 0 \/ x \in coreCommits
      /\ op[c] \in {"completeTask", "failTask"} => coreTerminals'[o] > 0
  <2>1. coreTerminals \in [Outcomes -> Nat] /\ coreCommits \subseteq Outcomes
    BY DEF IInv, TypeOK
  <2>2. CASE op[c] \in {"completeTask", "failTask"}
    <3>1. coreTerminals' = [coreTerminals EXCEPT ![o] = @ + 1] /\ o \in Outcomes
      BY <2>1, <2>2, <1>3 DEF CorePerforms
    <3> HIDE DEF o
    <3> QED BY <2>1, <2>2, <1>3, <3>1
  <2>3. CASE op[c] \notin {"completeTask", "failTask"}
    BY <2>1, <2>3 DEF CorePerforms
  <2> QED BY <2>2, <2>3
<1>6. \A term \in Terminals : Closed(term) => Closed(term)'
  BY <1>5 DEF Closed, Outcomes
<1> HIDE DEF o
<1>7. TypeOK'
  BY <1>1, <1>4, <1>5 DEF IInv, TypeOK
<1>9. ASSUME NEW d \in Callers PROVE JournalBacked(snap[d])' /\ CallBacked(d)'
  <2>1. JournalBacked(snap[d])'
    BY <1>1, <1>4, <1>6 DEF IInv, CopiesAreBacked, JournalBacked, Backed, OutcomeOf, Terminals
  <2>2. CASE d = c
    <3>1. applied'[c] = TRUE /\ pc'[c] = "calling" /\ op'[c] = op[c] /\ held'[c] = held[c]
      BY <1>1 DEF IInv, TypeOK
    <3>2. op[c] = "commitStagedResult" => held[c].id # 0
      BY <1>1 DEF IInv, CopiesAreBacked, CallBacked
    <3>3. /\ op[c] = "completeTask" => held[c].term = "complete"
          /\ op[c] = "failTask" => held[c].term = "fail"
      BY <1>1 DEF IInv, CopiesAreBacked, CallBacked, TerminalBacked
    <3>4. /\ op[c] = "commitStagedResult" => OutcomeOf(held[c]) \in coreCommits'
          /\ op[c] \in {"completeTask", "failTask"} =>
               OutcomeOf(held[c]) \in coreCommits' /\ coreTerminals'[OutcomeOf(held[c])] > 0
      BY <1>3, <1>4, <1>5 DEF o
    <3>5. OutcomeOf(held[c])' = OutcomeOf(held[c])
      BY <3>1 DEF OutcomeOf
    <3> QED BY <2>1, <2>2, <3>1, <3>2, <3>3, <3>4, <3>5 DEF CallBacked, TerminalBacked
  <2>3. CASE d # c
    <3>1. applied'[d] = applied[d] /\ pc'[d] = pc[d] /\ op'[d] = op[d] /\ held'[d] = held[d]
      BY <1>1, <2>3 DEF IInv, TypeOK
    <3>2. CallBacked(d) /\ coreCommits \subseteq Outcomes
      BY DEF IInv, CopiesAreBacked, TypeOK
    <3>3. OutcomeOf(held[d])' = OutcomeOf(held[d])
      BY <3>1 DEF OutcomeOf
    <3>4. \A x \in coreCommits : coreTerminals[x] > 0 => coreTerminals'[x] > 0
      BY <3>2, <1>5
    <3>5. \A x \in coreCommits : x \in coreCommits'
      BY <1>4
    <3> QED BY <2>1, <3>1, <3>2, <3>3, <3>4, <3>5 DEF CallBacked, TerminalBacked
  <2> QED BY <2>1, <2>2, <2>3
<1>10. Backed(statePending)' /\ JournalBacked(journal)' /\ JournalBacked(disk.j)'
  BY <1>1, <1>4, <1>6 DEF IInv, CopiesAreBacked, JournalBacked, Backed, OutcomeOf, Terminals
<1>11. StatusIsBacked' /\ CommitBeforeTerminal'
  BY <1>1, <1>4, <1>5, <1>6 DEF IInv, StatusIsBacked, CommitBeforeTerminal, OutcomeOf, Terminals
<1> QED BY <1>7, <1>9, <1>10, <1>11 DEF IInv, CopiesAreBacked

\* A commit answered: the captured object is the one the core has committed.
LEMMA CommitStep ==
    ASSUME IInv, NEW c \in Callers, NEW outcome \in BOOLEAN, CommitStagedResult(c, outcome)
    PROVE  IInv'
<1> DEFINE r == [held[c] EXCEPT !.committed = TRUE, !.outcome = outcome]
           j == [journal EXCEPT !.pending = IF journal.pending.id = held[c].id
                                              THEN r ELSE @,
                                !.marker = "result-committed"]
           m == IF r.term = "fail" THEN "task-fail" ELSE "task-complete"
<1>1. held[c].id # 0 /\ OutcomeOf(held[c]) \in coreCommits
  BY DEF CommitStagedResult, Answers, IInv, CopiesAreBacked, CallBacked
<1>2. r \in Results /\ r.id = held[c].id /\ r.term = held[c].term /\ r.committed
  BY DEF IInv, TypeOK, Results
<1>3. Backed(r)
  BY <1>1, <1>2 DEF Backed, OutcomeOf
<1>4. /\ statePending' = r /\ status' = "result-committed"
      /\ Persist(c, "commitStagedResult", j, m)
      /\ UNCHANGED <<disk, staged, faults, coreVars>>
  BY DEF CommitStagedResult
<1>5. /\ j.pending \in {r, journal.pending} /\ j.marker = "result-committed"
      /\ j.attemptStatus = journal.attemptStatus
  BY DEF IInv, TypeOK, Journals
<1>6. j \in Journals
  <2>1. (IF journal.pending.id = held[c].id THEN r ELSE journal.pending) \in Results
    BY <1>2 DEF IInv, TypeOK, Journals
  <2> HIDE DEF r
  <2> QED BY <2>1 DEF IInv, TypeOK, Journals, Markers
<1>7. m \in ResumeMarkers
  BY DEF ResumeMarkers
<1> HIDE DEF r, j, m
<1>8. JournalBacked(j)
  BY <1>3, <1>5 DEF JournalBacked, IInv, CopiesAreBacked
<1>9. TypeOK'
  BY <1>2, <1>4, <1>6, <1>7, PersistType DEF IInv, TypeOK, Statuses, AllOperations, coreVars
<1>10. /\ JournalBacked(journal)'
       /\ \A d \in Callers : JournalBacked(snap[d])' /\ CallBacked(d)'
  BY <1>4, <1>6, <1>8, PersistBacked
<1>11. Backed(statePending)' /\ JournalBacked(disk.j)'
  BY <1>3, <1>4 DEF IInv, CopiesAreBacked, JournalBacked, Backed, Closed, OutcomeOf, coreVars
<1>12. StatusIsBacked' /\ CommitBeforeTerminal'
  BY <1>1, <1>2, <1>4 DEF StatusIsBacked, IInv, CommitBeforeTerminal, coreVars, OutcomeOf
<1> QED BY <1>9, <1>10, <1>11, <1>12 DEF IInv, CopiesAreBacked

\* A task closed: the outcome was closed at the core, and nothing pending stays.
LEMMA TerminateStep ==
    ASSUME IInv, NEW c \in Callers, CompleteTask(c) \/ FailTask(c)
    PROVE  IInv'
<1>1. ASSUME NEW name, NEW s, NEW marker, NEW term,
             \/ name = "completeTask" /\ s = "completed" /\ marker = "task-completed" /\ term = "complete"
             \/ name = "failTask" /\ s = "failed" /\ marker = "task-failed" /\ term = "fail",
             Terminate(c, name, s, marker)
      PROVE  IInv'
  <2> DEFINE j == [Attempted(journal, s) EXCEPT !.pending = NoResult, !.marker = marker]
  <2>1. s \in AttemptStatuses /\ marker \in Markers /\ s \in Statuses /\ name \in AllOperations
    BY <1>1 DEF AttemptStatuses, Markers, Statuses, AllOperations, Governed
  <2>2. Attempted(journal, s) \in Journals
    BY <2>1, AttemptedType DEF IInv, TypeOK
  <2>3. j \in Journals
    BY <2>1, <2>2, RecordTypes DEF Journals
  <2>4. j.pending = NoResult /\ j.marker = marker /\ j.attemptStatus = s
    <3>1. Attempted(journal, s).attemptStatus = s
      BY DEF Attempted, Journals, IInv, TypeOK
    <3> QED BY <2>2, <3>1 DEF Journals
  <2>5. /\ status' = s /\ statePending' = NoResult /\ Persist(c, name, j, "none")
        /\ UNCHANGED <<disk, staged, faults, coreVars>>
    BY <1>1 DEF Terminate
  <2> HIDE DEF j
  <2>6. Closed(term)
    <3>1. TerminalBacked(c, term) /\ applied[c]
      BY <1>1 DEF Terminate, Answers, IInv, CopiesAreBacked, CallBacked
    <3>2. held[c].id \in 1 .. MaxStagings /\ coreTerminals[<<held[c].id, term>>] > 0
      BY <3>1 DEF TerminalBacked, OutcomeOf, Outcomes, IInv, TypeOK
    <3> QED BY <3>2 DEF Closed
  <2>7. JournalBacked(j)
    BY <1>1, <2>4, <2>6 DEF JournalBacked, Backed, NoResult
  <2>8. TypeOK'
    <3>1. "none" \in ResumeMarkers
      BY DEF ResumeMarkers, Markers
    <3> QED BY <2>1, <2>3, <2>5, <3>1, PersistType, RecordTypes DEF IInv, TypeOK, coreVars
  <2>9. /\ JournalBacked(journal)'
        /\ \A d \in Callers : JournalBacked(snap[d])' /\ CallBacked(d)'
    BY <2>3, <2>5, <2>7, PersistBacked
  <2>10. Backed(statePending)' /\ JournalBacked(disk.j)'
    BY <2>5 DEF IInv, CopiesAreBacked, JournalBacked, Backed, Closed, OutcomeOf, coreVars, NoResult
  <2>11. StatusIsBacked' /\ CommitBeforeTerminal'
    BY <1>1, <2>5, <2>6 DEF StatusIsBacked, IInv, CommitBeforeTerminal, coreVars, Closed
  <2> QED BY <2>8, <2>9, <2>10, <2>11 DEF IInv, CopiesAreBacked
<1>2. CASE CompleteTask(c)
  BY <1>1, <1>2 DEF CompleteTask
<1>3. CASE FailTask(c)
  BY <1>1, <1>3 DEF FailTask
<1> QED BY <1>2, <1>3

\* A call that throws: a failed commit saves the journal as it stands, any
\* other method just leaves.
LEMMA ThrowStep ==
    ASSUME IInv, NEW c \in Callers, CallRejected(c) \/ WriteFails(c)
    PROVE  IInv'
<1>1. /\ UNCHANGED <<status, statePending, disk, staged, coreVars>>
      /\ faults' \in 0 .. MaxFaults
      /\ \/ Persist(c, "commit-catch", journal, "result-commit")
         \/ Leave(c) /\ UNCHANGED journal
  BY BoundsAssumption DEF CallRejected, WriteFails, IInv, TypeOK
<1>2. /\ journal \in Journals /\ JournalBacked(journal)
      /\ "result-commit" \in ResumeMarkers
  BY DEF IInv, TypeOK, CopiesAreBacked, ResumeMarkers
<1>3. TypeOK'
  <2>1. CASE Persist(c, "commit-catch", journal, "result-commit")
    BY <1>1, <1>2, <2>1, PersistType DEF IInv, TypeOK, coreVars
  <2>2. CASE Leave(c) /\ UNCHANGED journal
    BY <1>1, <2>2, LeaveType DEF IInv, TypeOK, coreVars
  <2> QED BY <1>1, <2>1, <2>2
<1>4. \A d \in Callers : JournalBacked(snap[d])' /\ CallBacked(d)'
  BY <1>1, <1>2, PersistBacked, LeaveBacked
<1>5. JournalBacked(journal)'
  <2>1. CASE Persist(c, "commit-catch", journal, "result-commit")
    BY <1>1, <1>2, <2>1, PersistBacked
  <2>2. CASE Leave(c) /\ UNCHANGED journal
    BY <1>1, <1>2, <2>2 DEF JournalBacked, Backed, Closed, OutcomeOf, coreVars
  <2> QED BY <1>1, <2>1, <2>2
<1>6. Backed(statePending)' /\ JournalBacked(disk.j)'
  BY <1>1 DEF IInv, CopiesAreBacked, JournalBacked, Backed, Closed, OutcomeOf, coreVars
<1>7. StatusIsBacked' /\ CommitBeforeTerminal'
  BY <1>1 DEF StatusIsBacked, IInv, CommitBeforeTerminal, coreVars, Closed, OutcomeOf
<1> QED BY <1>3, <1>4, <1>5, <1>6, <1>7 DEF IInv, CopiesAreBacked

\* A method that has nothing to write, or has written, moves on to its hooks
\* and returns.
LEMMA SettleStep ==
    ASSUME IInv, NEW c \in Callers, CapabilityCalled(c) \/ Settle(c)
    PROVE  IInv'
<1>1. /\ UNCHANGED <<status, statePending, journal, disk, staged, faults, coreVars>>
      /\ \/ Leave(c)
         \/ /\ pc' = [pc EXCEPT ![c] = "settling"]
            /\ UNCHANGED <<op, held, snap, applied>>
  BY DEF CapabilityCalled, Settle
<1>2. TypeOK'
  BY <1>1, LeaveType DEF IInv, TypeOK, coreVars
<1>3. ASSUME NEW d \in Callers PROVE JournalBacked(snap[d])' /\ CallBacked(d)'
  <2>1. CASE Leave(c)
    BY <1>1, <2>1, LeaveBacked
  <2>2. CASE pc' = [pc EXCEPT ![c] = "settling"] /\ UNCHANGED <<op, held, snap, applied>>
    <3>1. pc'[d] \in {"settling", pc[d]}
      BY <2>2 DEF IInv, TypeOK
    <3> QED BY <1>1, <2>2, <3>1 DEF IInv, CopiesAreBacked, coreVars, JournalBacked, Closed,
              Backed, OutcomeOf, CallBacked, TerminalBacked
  <2> QED BY <1>1, <2>1, <2>2
<1>4. Backed(statePending)' /\ JournalBacked(journal)' /\ JournalBacked(disk.j)'
  BY <1>1 DEF IInv, CopiesAreBacked, JournalBacked, Backed, Closed, OutcomeOf, coreVars
<1>5. StatusIsBacked' /\ CommitBeforeTerminal'
  BY <1>1 DEF StatusIsBacked, IInv, CommitBeforeTerminal, coreVars, Closed, OutcomeOf
<1> QED BY <1>2, <1>3, <1>4, <1>5 DEF IInv, CopiesAreBacked

\* The file receives nothing but a snapshot, or nothing readable.
LEMMA FileStep ==
    ASSUME IInv, NEW c \in Callers, OpenFile(c) \/ WriteFile(c)
    PROVE  IInv'
<1>1. /\ UNCHANGED <<status, statePending, journal, op, held, applied, staged, faults, coreVars>>
      /\ \A d \in Callers \ {c} : pc'[d] = pc[d]
      /\ pc[c] \in {"opening", "writing"} /\ pc'[c] \in {"writing", "settling"}
      /\ pc' \in [Callers -> {"idle", "calling", "opening", "writing", "settling"}]
  BY DEF OpenFile, WriteFile, IInv, TypeOK
<1>2. /\ JournalBacked(InitialJournal)
      /\ InitialJournal \in Journals
  BY RecordTypes DEF JournalBacked, InitialJournal, Backed, NoResult
<1>3. /\ snap' \in [Callers -> Journals]
      /\ \A d \in Callers : snap'[d] \in {snap[d], InitialJournal}
  BY <1>2 DEF OpenFile, WriteFile, IInv, TypeOK
<1>4. /\ disk' \in Files
      /\ disk'.j \in {InitialJournal, snap[c]}
  BY RecordTypes DEF OpenFile, WriteFile, FileOf, IInv, TypeOK
<1>5. TypeOK'
  BY <1>1, <1>3, <1>4 DEF IInv, TypeOK, coreVars
<1>6. ASSUME NEW d \in Callers PROVE JournalBacked(snap[d])' /\ CallBacked(d)'
  <2>1. JournalBacked(snap[d])'
    BY <1>1, <1>2, <1>3 DEF IInv, CopiesAreBacked, coreVars, JournalBacked, Closed, Backed, OutcomeOf
  <2>2. pc'[d] \in {"idle", "calling"} => pc'[d] = pc[d]
    BY <1>1
  <2> QED BY <1>1, <2>1, <2>2 DEF IInv, CopiesAreBacked, coreVars, CallBacked, TerminalBacked, OutcomeOf
<1>7. JournalBacked(disk.j)'
  BY <1>1, <1>2, <1>4 DEF IInv, CopiesAreBacked, coreVars, JournalBacked, Closed, Backed, OutcomeOf
<1>8. Backed(statePending)' /\ JournalBacked(journal)'
  BY <1>1 DEF IInv, CopiesAreBacked, JournalBacked, Backed, Closed, OutcomeOf, coreVars
<1>9. StatusIsBacked' /\ CommitBeforeTerminal'
  BY <1>1 DEF StatusIsBacked, IInv, CommitBeforeTerminal, coreVars, Closed, OutcomeOf
<1> QED BY <1>5, <1>6, <1>7, <1>8, <1>9 DEF IInv, CopiesAreBacked

\* A reload derives from a backed journal a status the core backs.
LEMMA DerivedStatusBacked ==
    ASSUME NEW j \in Journals, JournalBacked(j)
    PROVE  /\ DeriveStatus(j) = "completed" => Closed("complete")
           /\ DeriveStatus(j) = "failed" => Closed("fail")
           /\ DeriveStatus(j) = "result-committed" =>
                j.pending.committed /\ OutcomeOf(j.pending) \in coreCommits
<1>1. /\ StatusOfMarker(j) = "completed" => j.marker = "task-completed"
      /\ StatusOfMarker(j) = "failed" => j.marker = "task-failed" \/ j.attemptStatus = "failed"
      /\ StatusOfMarker(j) # "result-committed"
  BY DEF StatusOfMarker
<1>2. j.pending.committed \in BOOLEAN
  BY DEF Journals, Results
<1>3. CASE j.pending.committed
  BY <1>3 DEF DeriveStatus, JournalBacked, Backed
<1>4. CASE ~j.pending.committed /\ j.pending # NoResult
  BY <1>4 DEF DeriveStatus
<1>5. CASE ~j.pending.committed /\ j.pending = NoResult
  <2>1. DeriveStatus(j) = StatusOfMarker(j)
    BY <1>5 DEF DeriveStatus
  <2> QED BY <1>1, <2>1 DEF JournalBacked
<1> QED BY <1>2, <1>3, <1>4, <1>5

\* A new process starts from the file, or afresh.
LEMMA RestartStep == ASSUME IInv, Restart PROVE IInv'
<1> DEFINE loaded == IF disk.kind = "journal" THEN disk.j ELSE InitialJournal
<1>1. JournalBacked(InitialJournal) /\ Backed(NoResult)
  BY DEF JournalBacked, InitialJournal, Backed, NoResult
<1>2. loaded \in Journals /\ JournalBacked(loaded)
  BY <1>1, RecordTypes DEF IInv, TypeOK, Files, CopiesAreBacked
<1>3. /\ journal' = loaded /\ status' = DeriveStatus(loaded) /\ statePending' = loaded.pending
      /\ faults' \in 0 .. MaxFaults
      /\ UNCHANGED <<disk, staged, coreVars>>
  BY BoundsAssumption DEF Restart, IInv, TypeOK
<1>4. /\ pc' = [c \in Callers |-> "idle"] /\ op' = [c \in Callers |-> "none"]
      /\ held' = [c \in Callers |-> NoResult] /\ snap' = [c \in Callers |-> InitialJournal]
      /\ applied' = [c \in Callers |-> FALSE]
  BY DEF Restart
<1> HIDE DEF loaded
<1>5. loaded.pending \in Results
  BY <1>2 DEF Journals
<1>6. TypeOK'
  BY <1>2, <1>3, <1>4, <1>5, DerivedStatusType, RecordTypes DEF IInv, TypeOK, coreVars
<1>7. ASSUME NEW c \in Callers PROVE JournalBacked(snap[c])' /\ CallBacked(c)'
  BY <1>1, <1>3, <1>4 DEF coreVars, JournalBacked, Closed, Backed, OutcomeOf, CallBacked
<1>8. Backed(statePending)' /\ JournalBacked(journal)' /\ JournalBacked(disk.j)'
  BY <1>2, <1>3 DEF IInv, CopiesAreBacked, JournalBacked, Backed, Closed, OutcomeOf, coreVars
<1>9. StatusIsBacked'
  BY <1>2, <1>3, DerivedStatusBacked DEF StatusIsBacked, coreVars, Closed, OutcomeOf
<1>10. CommitBeforeTerminal'
  BY <1>3 DEF IInv, CommitBeforeTerminal, coreVars
<1> QED BY <1>6, <1>7, <1>8, <1>9, <1>10 DEF IInv, CopiesAreBacked

-----------------------------------------------------------------------------
\* The strengthened invariant is inductive.
LEMMA NextIInv == IInv /\ [Next]_vars => IInv'
<1> SUFFICES ASSUME IInv, [Next]_vars PROVE IInv'
  OBVIOUS
<1>1. CASE Restart
  BY <1>1, RestartStep
<1>2. ASSUME NEW c \in Callers, Step(c) PROVE IInv'
  <2>1. CASE Observe(c)
    BY <2>1, ObserveStep
  <2>2. CASE \E term \in Terminals : StageResult(c, term)
    BY <2>2, StageStep
  <2>3. CASE CapabilityBlocked(c)
    BY <2>3, BlockedStep
  <2>4. CASE \E name \in Governed \cup {"callCapability", "commitStagedResult"} : Call(c, name)
    BY <2>4, CallStep
  <2>5. CASE CorePerforms(c)
    BY <2>5, CoreStep
  <2>6. CASE Reply(c)
    BY <2>6, ReplyStep
  <2>7. CASE CapabilityCalled(c) \/ Settle(c)
    BY <2>7, SettleStep
  <2>8. CASE \E outcome \in BOOLEAN : CommitStagedResult(c, outcome)
    BY <2>8, CommitStep
  <2>9. CASE CompleteTask(c) \/ FailTask(c)
    BY <2>9, TerminateStep
  <2>10. CASE CallRejected(c) \/ WriteFails(c)
    BY <2>10, ThrowStep
  <2>11. CASE OpenFile(c) \/ WriteFile(c)
    BY <2>11, FileStep
  <2> QED BY <1>2, <2>1, <2>2, <2>3, <2>4, <2>5, <2>6, <2>7, <2>8, <2>9, <2>10, <2>11
          DEF Step, Save
<1>3. CASE UNCHANGED vars
  <2>1. TypeOK'
    BY <1>3 DEF vars, coreVars, IInv, TypeOK
  <2>2. CopiesAreBacked'
    BY <1>3 DEF vars, coreVars, IInv, CopiesAreBacked, Closed, JournalBacked, Backed,
       OutcomeOf, CallBacked, TerminalBacked
  <2>3. StatusIsBacked' /\ CommitBeforeTerminal'
    BY <1>3 DEF vars, coreVars, IInv, StatusIsBacked, CommitBeforeTerminal, Closed, OutcomeOf
  <2> QED BY <2>1, <2>2, <2>3 DEF IInv
<1> QED BY <1>1, <1>2, <1>3 DEF Next

\* The inductive invariant holds in every reachable state.
THEOREM Invariance == Spec => []IInv
BY InitIInv, NextIInv, PTL DEF Spec

\* Every variable of the runtime, its journal and its file keeps its type.
THEOREM TypeCorrect == Spec => []TypeOK
<1>1. IInv => TypeOK
  BY DEF IInv
<1> QED BY <1>1, Invariance, PTL

\* No task is completed or failed at the core on an uncommitted outcome, for
\* any number of concurrent callers, faults and restarts.
THEOREM CommitFirst == Spec => []CommitBeforeTerminal
<1>1. IInv => CommitBeforeTerminal
  BY DEF IInv
<1> QED BY <1>1, Invariance, PTL

\* The status reported, live or rebuilt from the file, never runs ahead of
\* what the core has done.
THEOREM StatusNeverAhead == Spec => []StatusIsBacked
<1>1. IInv => StatusIsBacked
  BY DEF IInv
<1> QED BY <1>1, Invariance, PTL

\* Copies of results, wherever they are, are committed only if the core says so.
THEOREM CopiesBacked == Spec => []CopiesAreBacked
<1>1. IInv => CopiesAreBacked
  BY DEF IInv
<1> QED BY <1>1, Invariance, PTL

-----------------------------------------------------------------------------
\* The runtime implements the ledger: each step is a commit, a terminal call
\* on a committed outcome, or a stutter.
THEOREM RuntimeImplementsLedger == Spec => LedgerSpec
<1>1. Init => Ledger!Init
  BY DEF Init, Ledger!Init
<1>2. IInv /\ [Next]_vars => [Ledger!Next]_<<coreCommits, coreTerminals>>
  <2> SUFFICES ASSUME IInv, [Next]_vars,
                      ~ UNCHANGED <<coreCommits, coreTerminals>>
               PROVE  Ledger!Next
    OBVIOUS
  <2>1. PICK c \in Callers : CorePerforms(c)
    BY DEF Next, vars, coreVars, Restart, Step, Observe, ReceiveTask, StartExecution,
       RecordTimeout, Advance, StageResult, CapabilityBlocked, Call, Reply, Claim, Accept,
       RenewLease, Suspend, Resume, CapabilityCalled, CommitStagedResult, CompleteTask,
       FailTask, Terminate, CallRejected, Save, OpenFile, WriteFile, WriteFails, Settle
  <2>2. CASE op[c] = "commitStagedResult"
    <3>1. held[c] \in Results /\ held[c].id # 0
      BY <2>1, <2>2 DEF CorePerforms, IInv, TypeOK, CopiesAreBacked, CallBacked
    <3>2. OutcomeOf(held[c]) \in Outcomes
      BY <3>1, BoundsAssumption DEF OutcomeOf, Outcomes, Results
    <3>3. Ledger!Commit(OutcomeOf(held[c]))
      BY <2>1, <2>2 DEF CorePerforms, Ledger!Commit
    <3> QED BY <3>2, <3>3 DEF Ledger!Next
  <2>3. CASE op[c] \in {"completeTask", "failTask"}
    <3>1. OutcomeOf(held[c]) \in coreCommits /\ coreCommits \subseteq Outcomes
      BY <2>1, <2>3 DEF CorePerforms, IInv, TypeOK, CopiesAreBacked, CallBacked, TerminalBacked
    <3>2. Ledger!Terminate(OutcomeOf(held[c]))
      BY <2>1, <2>3, <3>1 DEF CorePerforms, Ledger!Terminate
    <3> QED BY <3>1, <3>2 DEF Ledger!Next
  <2>4. CASE op[c] \notin {"commitStagedResult", "completeTask", "failTask"}
    BY <2>1, <2>4 DEF CorePerforms
  <2> QED BY <2>2, <2>3, <2>4
<1> QED BY <1>1, <1>2, Invariance, PTL DEF Spec, LedgerSpec, Ledger!Spec

-----------------------------------------------------------------------------
(* What holds of a runtime object whose methods are called one at a time,   *)
(* as the CLI and the surface runtime call them.  With two callers at once  *)
(* each of these fails on the instance of the shared run.                   *)

OneCaller == \A c, d \in Callers : c = d

Terminating(c) == op[c] \in {"completeTask", "failTask"}

\* The two copies of the pending result agree, and a method that asks the core
\* about a result holds that one.
HeldIsPending ==
    /\ statePending = journal.pending
    /\ \A c \in Callers :
         pc[c] = "calling" /\ (op[c] = "commitStagedResult" \/ Terminating(c)) =>
           held[c] = journal.pending

\* What is written is the journal, over a file just truncated, and once it is
\* written it stays.
WritesItsJournal ==
    \A c \in Callers :
      /\ pc[c] \in {"opening", "writing"} =>
           snap[c] = journal /\ (op[c] = "commitStagedResult" => journal.pending # NoResult)
      /\ pc[c] = "writing" => disk = FileOf("empty", InitialJournal)
      /\ pc[c] = "settling" /\ op[c] # "callCapability" => disk = FileOf("journal", journal)

\* With no fault the file holds the journal whenever no write is under way.
Saved ==
    \/ disk = FileOf("journal", journal)
    \/ disk = FileOf("absent", InitialJournal) /\ journal = InitialJournal
SavedWithoutFault ==
    faults = 0 /\ (\A c \in Callers : pc[c] \notin {"opening", "writing"}) => Saved

\* No copy of a result is of a staging still to come, and the core has heard
\* of none of those.
OnlyStaged ==
    /\ journal.pending.id <= staged /\ disk.j.pending.id <= staged
    /\ \A o \in Outcomes : o[1] > staged => coreTerminals[o] = 0

\* A result that could be closed again without another fault was closed at
\* most as often as there were faults.
Spent(r) == \A o \in Outcomes : OutcomeOf(r) = o => coreTerminals[o] <= faults
InFlight == \E c \in Callers : pc[c] = "calling" /\ Terminating(c) /\ applied[c]
Opening  == \E c \in Callers : pc[c] = "opening"
RepetitionsPaidFor ==
    /\ ~InFlight => Spent(journal.pending)
    /\ ~InFlight /\ ~Opening => Spent(disk.j.pending)

SoloInv ==
    /\ HeldIsPending /\ WritesItsJournal /\ SavedWithoutFault
    /\ OnlyStaged /\ RepetitionsPaidFor /\ RepetitionNeedsFault
    /\ ResumeMarkerIsHonest

\* A step that saves: the journal it saves has to be one the state agrees with,
\* whose marker is honest and whose result was paid for.
LEMMA SoloPersist ==
    ASSUME OneCaller, IInv, SoloInv, NEW c \in Callers, NEW name,
           NEW j \in Journals, NEW m \in ResumeMarkers, Persist(c, name, j, m),
           UNCHANGED <<disk, coreVars>>,
           staged' \in Nat, faults' \in Nat, staged <= staged', faults <= faults',
           statePending' = j.pending, j.pending.id <= staged', Spent(j.pending),
           name = "commitStagedResult" => j.pending # NoResult,
           ResumeMarkerOf([j EXCEPT !.resume = m])
    PROVE  SoloInv'
<1> DEFINE w == [j EXCEPT !.resume = m]
<1>1. w.pending = j.pending /\ w \in Journals
  BY DEF Journals
<1>2. /\ journal' = w /\ snap'[c] = w /\ pc'[c] = "opening" /\ op'[c] = name
      /\ disk' = disk /\ coreTerminals' = coreTerminals
      /\ \A d \in Callers : d = c
  BY DEF Persist, IInv, TypeOK, coreVars, OneCaller
<1>3. ResumeMarkerOf(w)
  OBVIOUS
<1>4. /\ staged \in Nat /\ faults \in Nat /\ coreTerminals \in [Outcomes -> Nat]
      /\ journal.pending.id \in Nat /\ j.pending.id \in Nat /\ disk.j.pending.id \in Nat
      /\ \A o \in Outcomes : o[1] \in Nat
  BY BoundsAssumption DEF IInv, TypeOK, Journals, Results, Files, Outcomes
<1> HIDE DEF w
<1>5. HeldIsPending' /\ WritesItsJournal' /\ SavedWithoutFault'
  BY <1>1, <1>2 DEF HeldIsPending, WritesItsJournal, SavedWithoutFault
<1>6. OnlyStaged'
  BY <1>1, <1>2, <1>4 DEF SoloInv, OnlyStaged
<1>7. Spent(journal.pending)'
  BY <1>1, <1>2, <1>4 DEF Spent, OutcomeOf
<1>8. RepetitionsPaidFor'
  BY <1>2, <1>7 DEF RepetitionsPaidFor, Opening
<1>9. RepetitionNeedsFault'
  BY <1>2, <1>4 DEF SoloInv, RepetitionNeedsFault
<1>10. ResumeMarkerIsHonest'
  BY <1>2, <1>3 DEF SoloInv, ResumeMarkerIsHonest, ResumeMarkerOf
<1> QED BY <1>5, <1>6, <1>8, <1>9, <1>10 DEF SoloInv

\* A fault pays for any repetition there has been.
LEMMA FaultPays ==
    ASSUME IInv, SoloInv, faults' = faults + 1, UNCHANGED coreVars
    PROVE  /\ \A r : Spent(r)'
           /\ RepetitionNeedsFault'
<1>1. faults \in Nat /\ coreTerminals \in [Outcomes -> Nat] /\ coreTerminals' = coreTerminals
  BY BoundsAssumption DEF IInv, TypeOK, coreVars
<1>2. \A o \in Outcomes : coreTerminals'[o] <= faults'
  BY <1>1 DEF SoloInv, RepetitionNeedsFault
<1>3. RepetitionNeedsFault'
  BY <1>1, <1>2 DEF RepetitionNeedsFault
<1>4. ASSUME NEW r PROVE Spent(r)'
  BY <1>2 DEF Spent
<1> QED BY <1>3, <1>4

\* Leaving, or going on to the hooks, with the journal and the file as they
\* are: without a fault, only from where no terminal call is answered.
LEMMA SoloQuiet ==
    ASSUME OneCaller, IInv, SoloInv, NEW c \in Callers,
           pc'[c] \in {"idle", "settling"},
           pc'[c] = "settling" => op'[c] = "callCapability",
           UNCHANGED <<statePending, journal, disk, staged, coreVars>>,
           \/ faults' = faults + 1
           \/ /\ faults' = faults /\ pc[c] \in {"calling", "settling"}
              /\ ~(pc[c] = "calling" /\ Terminating(c) /\ applied[c])
    PROVE  SoloInv'
<1>1. /\ \A d \in Callers : d = c
      /\ coreTerminals' = coreTerminals /\ faults \in Nat /\ faults' \in Nat
  BY BoundsAssumption DEF OneCaller, IInv, TypeOK, coreVars
<1>2. HeldIsPending' /\ WritesItsJournal'
  BY <1>1 DEF SoloInv, HeldIsPending, WritesItsJournal
<1>3. SavedWithoutFault'
  BY <1>1 DEF SoloInv, SavedWithoutFault, Saved
<1>4. OnlyStaged' /\ ResumeMarkerIsHonest'
  BY <1>1 DEF SoloInv, OnlyStaged, ResumeMarkerIsHonest, ResumeMarkerOf
<1>5. RepetitionsPaidFor' /\ RepetitionNeedsFault'
  <2>1. CASE faults' = faults + 1
    BY <2>1, FaultPays DEF RepetitionsPaidFor
  <2>2. CASE /\ faults' = faults /\ pc[c] \in {"calling", "settling"}
             /\ ~(pc[c] = "calling" /\ Terminating(c) /\ applied[c])
    <3>1. ~InFlight /\ ~Opening
      BY <1>1, <2>2 DEF InFlight, Opening
    <3>2. Spent(journal.pending)' /\ Spent(disk.j.pending)'
      BY <1>1, <2>2, <3>1 DEF SoloInv, RepetitionsPaidFor, Spent, OutcomeOf
    <3> QED BY <1>1, <2>2, <3>2 DEF SoloInv, RepetitionsPaidFor, RepetitionNeedsFault
  <2> QED BY <2>1, <2>2
<1> QED BY <1>2, <1>3, <1>4, <1>5 DEF SoloInv

-----------------------------------------------------------------------------
\* The initial state.
LEMMA SoloInit == Init => SoloInv
<1> SUFFICES ASSUME Init PROVE SoloInv
  OBVIOUS
<1>1. /\ journal = InitialJournal /\ disk.j = InitialJournal /\ statePending = NoResult
      /\ disk = FileOf("absent", InitialJournal)
      /\ \A c \in Callers : pc[c] = "idle"
      /\ staged = 0 /\ faults = 0 /\ \A o \in Outcomes : coreTerminals[o] = 0
  BY DEF Init, FileOf
<1>2. InitialJournal.pending = NoResult /\ InitialJournal.resume = "none" /\ NoResult.id = 0
  BY DEF InitialJournal, NoResult
<1>3. HeldIsPending /\ WritesItsJournal /\ SavedWithoutFault /\ ResumeMarkerIsHonest
  BY <1>1, <1>2 DEF HeldIsPending, WritesItsJournal, SavedWithoutFault, Saved,
     ResumeMarkerIsHonest, ResumeMarkerOf
<1>4. OnlyStaged /\ RepetitionsPaidFor /\ RepetitionNeedsFault
  BY <1>1, <1>2 DEF OnlyStaged, RepetitionsPaidFor, Spent, RepetitionNeedsFault
<1> QED BY <1>3, <1>4 DEF SoloInv

\* The observing methods leave the result alone, and their marker is none of
\* the three that speak of a result.
LEMMA SoloAdvance ==
    ASSUME OneCaller, IInv, SoloInv, NEW c \in Callers,
           NEW name \in AllOperations \ {"commitStagedResult"}, NEW s \in Statuses,
           NEW a \in AttemptStatuses, NEW m \in Markers \ {"capability-blocked"},
           NEW ids \in SUBSET Ids, Advance(c, name, s, a, m, ids), ~InFlight
    PROVE  SoloInv'
<1> DEFINE j == [Attempted(journal, a) EXCEPT !.marker = m, !.ids = @ \cup ids]
<1>1. j \in Journals
  <2>1. Attempted(journal, a) \in Journals
    BY AttemptedType DEF IInv, TypeOK
  <2> QED BY <2>1 DEF Journals
<1>2. j.pending = journal.pending
  BY DEF Attempted, Journals, IInv, TypeOK
<1>3. Persist(c, name, j, m) /\ UNCHANGED <<statePending, disk, staged, faults, coreVars>>
  BY DEF Advance
<1> HIDE DEF j
<1>4. m \in ResumeMarkers /\ m \notin {"task-complete", "task-fail", "result-commit"}
  BY DEF ResumeMarkers, Markers
<1>5. ResumeMarkerOf([j EXCEPT !.resume = m])
  BY <1>1, <1>4 DEF ResumeMarkerOf, Journals
<1>6. /\ statePending' = j.pending /\ Spent(j.pending) /\ j.pending.id <= staged'
      /\ staged \in Nat /\ faults \in Nat
  BY <1>2, <1>3, BoundsAssumption
     DEF SoloInv, HeldIsPending, RepetitionsPaidFor, OnlyStaged, IInv, TypeOK
<1> QED BY <1>1, <1>3, <1>4, <1>5, <1>6, SoloPersist

\* The methods that only observe.
LEMMA SoloObserve ==
    ASSUME OneCaller, IInv, SoloInv, NEW c \in Callers, Observe(c) \/ Reply(c)
    PROVE  SoloInv'
<1> USE DEF Statuses, AttemptStatuses, Markers, Ids, AllOperations, Governed
<1>1. ~InFlight
  BY DEF OneCaller, InFlight, Terminating, Observe, Reply, ReceiveTask, StartExecution,
     RecordTimeout, Claim, Accept, RenewLease, Suspend, Resume, Starts, Answers
<1>2. CASE ReceiveTask(c)
  BY <1>1, <1>2, SoloAdvance DEF ReceiveTask
<1>3. CASE StartExecution(c)
  BY <1>1, <1>3, SoloAdvance DEF StartExecution
<1>4. CASE RecordTimeout(c)
  BY <1>1, <1>4, SoloAdvance DEF RecordTimeout
<1>5. CASE Claim(c)
  BY <1>1, <1>5, SoloAdvance DEF Claim
<1>6. CASE Accept(c)
  BY <1>1, <1>6, SoloAdvance DEF Accept
<1>7. CASE RenewLease(c)
  BY <1>1, <1>7, SoloAdvance DEF RenewLease
<1>8. CASE Suspend(c)
  BY <1>1, <1>8, SoloAdvance DEF Suspend
<1>9. CASE Resume(c)
  BY <1>1, <1>9, SoloAdvance DEF Resume
<1> QED BY <1>2, <1>3, <1>4, <1>5, <1>6, <1>7, <1>8, <1>9 DEF Observe, Reply

\* A new result: the core has heard nothing of it.
LEMMA SoloStage ==
    ASSUME OneCaller, IInv, SoloInv, NEW c \in Callers, NEW term \in Terminals,
           StageResult(c, term)
    PROVE  SoloInv'
<1> DEFINE r == [id |-> staged + 1, term |-> term, committed |-> FALSE, outcome |-> FALSE]
           j == [journal EXCEPT !.pending = r, !.marker = "result-staged"]
<1>1. /\ staged \in Nat /\ faults \in Nat /\ staged + 1 \in 0 .. MaxStagings
      /\ coreTerminals \in [Outcomes -> Nat]
  BY BoundsAssumption DEF StageResult, IInv, TypeOK
<1>2. r \in Results /\ r.id = staged + 1 /\ r # NoResult
  BY <1>1 DEF Results, NoResult
<1>3. j \in Journals /\ j.pending = r
  BY <1>2 DEF IInv, TypeOK, Journals, Markers
<1>4. /\ statePending' = r /\ Persist(c, "stageResult", j, "result-commit")
      /\ staged' = staged + 1 /\ UNCHANGED <<disk, faults, coreVars>>
  BY DEF StageResult
<1>5. OutcomeOf(r)[1] = staged + 1
  BY DEF OutcomeOf
<1> HIDE DEF r, j
<1>6. Spent(j.pending)
  BY <1>1, <1>3, <1>5 DEF Spent, SoloInv, OnlyStaged
<1>7. "result-commit" \in ResumeMarkers /\ ResumeMarkerOf([j EXCEPT !.resume = "result-commit"])
  BY <1>2, <1>3 DEF ResumeMarkers, ResumeMarkerOf, Journals
<1> QED BY <1>1, <1>2, <1>3, <1>4, <1>6, <1>7, SoloPersist

\* A blocked capability call keeps the marker to resume from.
LEMMA SoloBlocked ==
    ASSUME OneCaller, IInv, SoloInv, NEW c \in Callers, CapabilityBlocked(c)
    PROVE  SoloInv'
<1> DEFINE j == [journal EXCEPT !.marker = "capability-blocked"]
<1>1. /\ j \in Journals /\ journal.resume \in ResumeMarkers
      /\ j.pending = journal.pending
      /\ ResumeMarkerOf([j EXCEPT !.resume = journal.resume])
  BY DEF IInv, TypeOK, Journals, Markers, SoloInv, ResumeMarkerIsHonest, ResumeMarkerOf
<1>2. /\ Persist(c, "callCapability", j, journal.resume) /\ pc[c] = "idle"
      /\ UNCHANGED <<status, statePending, disk, staged, faults, coreVars>>
  BY DEF CapabilityBlocked, Starts
<1>3. ~InFlight
  BY <1>2 DEF OneCaller, InFlight
<1> HIDE DEF j
<1>4. /\ statePending' = j.pending /\ Spent(j.pending) /\ j.pending.id <= staged'
      /\ staged \in Nat /\ faults \in Nat
  BY <1>1, <1>2, <1>3, BoundsAssumption
     DEF SoloInv, HeldIsPending, RepetitionsPaidFor, OnlyStaged, IInv, TypeOK
<1> QED BY <1>1, <1>2, <1>4, SoloPersist

\* A call captures the one pending result.
LEMMA SoloCall ==
    ASSUME OneCaller, IInv, SoloInv, NEW c \in Callers,
           NEW name \in Governed \cup {"callCapability", "commitStagedResult"}, Call(c, name)
    PROVE  SoloInv'
<1>1. /\ pc[c] = "idle" /\ pc'[c] = "calling" /\ op'[c] = name /\ held'[c] = Captured(name)
      /\ applied'[c] = FALSE /\ \A d \in Callers : d = c
      /\ UNCHANGED <<statePending, journal, disk, staged, faults, coreTerminals>>
  BY DEF Call, Starts, IInv, TypeOK, CopiesAreBacked, CallBacked, OneCaller, coreVars
<1>2. HeldIsPending'
  BY <1>1 DEF SoloInv, HeldIsPending, Terminating, Captured
<1>3. WritesItsJournal' /\ SavedWithoutFault'
  BY <1>1 DEF SoloInv, WritesItsJournal, SavedWithoutFault, Saved
<1>4. OnlyStaged' /\ RepetitionNeedsFault' /\ ResumeMarkerIsHonest'
  BY <1>1 DEF SoloInv, OnlyStaged, RepetitionNeedsFault, ResumeMarkerIsHonest, ResumeMarkerOf
<1>5. ~InFlight /\ ~Opening
  BY <1>1 DEF InFlight, Opening
<1>6. RepetitionsPaidFor'
  BY <1>1, <1>5 DEF SoloInv, RepetitionsPaidFor, Spent, OutcomeOf
<1> QED BY <1>2, <1>3, <1>4, <1>6 DEF SoloInv

\* The core closes the pending result: it was closed at most as often as there
\* were faults, so now at most once more.
LEMMA SoloCore ==
    ASSUME OneCaller, IInv, SoloInv, NEW c \in Callers, CorePerforms(c)
    PROVE  SoloInv'
<1>1. /\ pc[c] = "calling" /\ ~applied[c] /\ applied'[c] = TRUE
      /\ \A d \in Callers : d = c
      /\ UNCHANGED <<statePending, journal, disk, pc, op, held, snap, staged, faults>>
  BY DEF CorePerforms, IInv, TypeOK, OneCaller
<1>2. /\ staged \in Nat /\ faults \in Nat /\ coreTerminals \in [Outcomes -> Nat]
      /\ journal.pending.id \in Nat
  BY BoundsAssumption DEF IInv, TypeOK, Journals, Results
<1>3. HeldIsPending' /\ WritesItsJournal' /\ SavedWithoutFault' /\ ResumeMarkerIsHonest'
  BY <1>1 DEF SoloInv, HeldIsPending, WritesItsJournal, SavedWithoutFault, Saved,
     ResumeMarkerIsHonest, ResumeMarkerOf, Terminating
<1>4. ~InFlight /\ ~Opening
  BY <1>1 DEF InFlight, Opening
<1>5. CASE Terminating(c)
  <2> DEFINE p == OutcomeOf(journal.pending)
  <2>1. /\ held[c] = journal.pending
        /\ coreTerminals' = [coreTerminals EXCEPT ![p] = @ + 1]
    BY <1>1, <1>5 DEF CorePerforms, Terminating, SoloInv, HeldIsPending
  <2>2. p[1] = journal.pending.id
    BY DEF OutcomeOf
  <2>3. p \in Outcomes => coreTerminals[p] <= faults
    BY <1>4 DEF SoloInv, RepetitionsPaidFor, Spent
  <2>4. InFlight'
    BY <1>1, <1>5 DEF InFlight, Terminating
  <2> HIDE DEF p
  <2>5. OnlyStaged'
    <3>1. journal.pending.id <= staged /\ disk.j.pending.id <= staged
      BY DEF SoloInv, OnlyStaged
    <3>2. ASSUME NEW o \in Outcomes, o[1] > staged PROVE coreTerminals'[o] = 0
      <4>1. coreTerminals[o] = 0 /\ o # p
        BY <1>2, <2>2, <3>1, <3>2 DEF SoloInv, OnlyStaged
      <4> QED BY <1>2, <2>1, <4>1
    <3> QED BY <1>1, <3>1, <3>2 DEF OnlyStaged
  <2>6. RepetitionNeedsFault'
    BY <1>1, <1>2, <2>1, <2>3 DEF SoloInv, RepetitionNeedsFault
  <2>7. RepetitionsPaidFor'
    BY <2>4 DEF RepetitionsPaidFor
  <2> QED BY <1>3, <2>5, <2>6, <2>7 DEF SoloInv
<1>6. CASE ~Terminating(c)
  <2>1. coreTerminals' = coreTerminals
    BY <1>6 DEF CorePerforms, Terminating
  <2>2. OnlyStaged' /\ RepetitionNeedsFault' /\ RepetitionsPaidFor'
    BY <1>1, <1>4, <2>1 DEF SoloInv, OnlyStaged, RepetitionNeedsFault, RepetitionsPaidFor,
       Spent, OutcomeOf
  <2> QED BY <1>3, <2>2 DEF SoloInv
<1> QED BY <1>5, <1>6

\* A commit answered: the result it captured is still the pending one, and
\* both copies take the mark.
LEMMA SoloCommit ==
    ASSUME OneCaller, IInv, SoloInv, NEW c \in Callers, NEW outcome \in BOOLEAN,
           CommitStagedResult(c, outcome)
    PROVE  SoloInv'
<1> DEFINE r == [held[c] EXCEPT !.committed = TRUE, !.outcome = outcome]
           j == [journal EXCEPT !.pending = IF journal.pending.id = held[c].id
                                              THEN r ELSE @,
                                !.marker = "result-committed"]
           m == IF r.term = "fail" THEN "task-fail" ELSE "task-complete"
<1>1. /\ held[c] = journal.pending /\ pc[c] = "calling" /\ op[c] = "commitStagedResult"
      /\ held[c] \in Results
  BY DEF CommitStagedResult, Answers, SoloInv, HeldIsPending, IInv, TypeOK
<1>2. /\ r \in Results /\ r.id = held[c].id /\ r.term = held[c].term /\ r.committed
      /\ r.term \in Terminals
  BY <1>1 DEF Results
<1>3. /\ statePending' = r /\ Persist(c, "commitStagedResult", j, m)
      /\ UNCHANGED <<disk, staged, faults, coreVars>>
  BY DEF CommitStagedResult
<1>4. j = [journal EXCEPT !.pending = r, !.marker = "result-committed"]
  BY <1>1
<1>5. m = (IF r.term = "fail" THEN "task-fail" ELSE "task-complete")
  OBVIOUS
<1>6. OutcomeOf(r) = OutcomeOf(journal.pending)
  BY <1>1, <1>2 DEF OutcomeOf
<1> HIDE DEF r, j, m
<1>7. j \in Journals /\ j.pending = r
  BY <1>2, <1>4 DEF IInv, TypeOK, Journals, Markers
<1>8. m \in ResumeMarkers
  BY <1>5 DEF ResumeMarkers
<1>9. ResumeMarkerOf([j EXCEPT !.resume = m])
  BY <1>2, <1>5, <1>7 DEF ResumeMarkerOf, Journals, Terminals
<1>10. ~InFlight
  BY <1>1 DEF OneCaller, InFlight, Terminating
<1>11. Spent(j.pending) /\ j.pending.id <= staged
  BY <1>1, <1>2, <1>6, <1>7, <1>10 DEF SoloInv, RepetitionsPaidFor, Spent, OnlyStaged
<1>12. j.pending # NoResult
  BY <1>2, <1>7 DEF NoResult
<1>13. staged \in Nat /\ faults \in Nat
  BY BoundsAssumption DEF IInv, TypeOK
<1> QED BY <1>3, <1>7, <1>8, <1>9, <1>11, <1>12, <1>13, SoloPersist

\* A task closed: no result is left to speak of.
LEMMA SoloTerminate ==
    ASSUME OneCaller, IInv, SoloInv, NEW c \in Callers, CompleteTask(c) \/ FailTask(c)
    PROVE  SoloInv'
<1>1. ASSUME NEW name \in {"completeTask", "failTask"}, NEW s \in {"completed", "failed"},
             NEW marker \in {"task-completed", "task-failed"}, Terminate(c, name, s, marker)
      PROVE  SoloInv'
  <2> DEFINE j == [Attempted(journal, s) EXCEPT !.pending = NoResult, !.marker = marker]
  <2>1. j \in Journals /\ j.pending = NoResult
    <3>1. Attempted(journal, s) \in Journals
      BY AttemptedType DEF IInv, TypeOK, AttemptStatuses
    <3> QED BY <3>1, RecordTypes DEF Journals, Markers
  <2>2. /\ statePending' = NoResult /\ Persist(c, name, j, "none")
        /\ UNCHANGED <<disk, staged, faults, coreVars>>
    BY <1>1 DEF Terminate
  <2> HIDE DEF j
  <2>3. "none" \in ResumeMarkers /\ ResumeMarkerOf([j EXCEPT !.resume = "none"])
    BY <2>1 DEF ResumeMarkers, Markers, ResumeMarkerOf, Journals
  <2>4. /\ staged \in Nat /\ faults \in Nat /\ NoResult.id = 0 /\ Spent(NoResult)
    BY BoundsAssumption DEF IInv, TypeOK, NoResult, Spent, OutcomeOf, Outcomes
  <2> QED BY <2>1, <2>2, <2>3, <2>4, SoloPersist
<1> QED BY <1>1 DEF CompleteTask, FailTask

\* A call or a write that throws: a commit saves the journal again, which still
\* has its result; anything else leaves.
LEMMA SoloThrow ==
    ASSUME OneCaller, IInv, SoloInv, NEW c \in Callers, CallRejected(c) \/ WriteFails(c)
    PROVE  SoloInv'
<1>1. /\ UNCHANGED <<statePending, disk, staged, coreVars>>
      /\ faults \in Nat /\ faults' \in {faults, faults + 1} /\ staged \in Nat
      /\ pc[c] \in {"calling", "opening", "writing"}
      /\ \A d \in Callers : d = c
  BY BoundsAssumption DEF CallRejected, WriteFails, IInv, TypeOK, OneCaller
<1>2. \/ faults' = faults + 1
      \/ faults' = faults /\ pc[c] = "calling" /\ ~applied[c]
  BY DEF CallRejected, WriteFails
<1>3. CASE op[c] = "commitStagedResult"
  <2>1. Persist(c, "commit-catch", journal, "result-commit")
    BY <1>3 DEF CallRejected, WriteFails
  <2>2. journal.pending # NoResult
    <3>1. CASE pc[c] = "calling"
      BY <1>3, <3>1 DEF IInv, CopiesAreBacked, CallBacked, SoloInv, HeldIsPending, NoResult
    <3>2. CASE pc[c] \in {"opening", "writing"}
      BY <1>3, <3>2 DEF SoloInv, WritesItsJournal
    <3> QED BY <1>1, <3>1, <3>2
  <2>3. ~InFlight
    BY <1>1, <1>3 DEF InFlight, Terminating
  <2>4. /\ journal \in Journals /\ "result-commit" \in ResumeMarkers
        /\ ResumeMarkerOf([journal EXCEPT !.resume = "result-commit"])
    BY <2>2 DEF IInv, TypeOK, ResumeMarkers, ResumeMarkerOf, Journals
  <2>5. /\ statePending' = journal.pending /\ journal.pending.id <= staged
        /\ Spent(journal.pending)
    BY <1>1, <2>3 DEF SoloInv, HeldIsPending, OnlyStaged, RepetitionsPaidFor
  <2> QED BY <1>1, <2>1, <2>2, <2>4, <2>5, SoloPersist
<1>4. CASE op[c] # "commitStagedResult"
  <2>1. Leave(c) /\ UNCHANGED journal
    BY <1>4 DEF CallRejected, WriteFails
  <2>2. pc'[c] = "idle"
    BY <2>1 DEF Leave, IInv, TypeOK
  <2> QED BY <1>1, <1>2, <2>1, <2>2, SoloQuiet
<1> QED BY <1>3, <1>4

\* The hooks, and the return.
LEMMA SoloSettle ==
    ASSUME OneCaller, IInv, SoloInv, NEW c \in Callers, CapabilityCalled(c) \/ Settle(c)
    PROVE  SoloInv'
<1>1. UNCHANGED <<statePending, journal, disk, staged, faults, coreVars>>
  BY DEF CapabilityCalled, Settle
<1>2. CASE CapabilityCalled(c)
  <2>1. /\ pc[c] = "calling" /\ op[c] = "callCapability" /\ pc'[c] = "settling"
        /\ op'[c] = "callCapability"
    BY <1>2 DEF CapabilityCalled, Answers, IInv, TypeOK
  <2> QED BY <1>1, <2>1, SoloQuiet DEF Terminating
<1>3. CASE Settle(c)
  <2>1. pc[c] = "settling" /\ pc'[c] = "idle"
    BY <1>3 DEF Settle, Leave, IInv, TypeOK
  <2> QED BY <1>1, <2>1, SoloQuiet
<1> QED BY <1>2, <1>3

\* The truncating open, then the write: the file was emptied by this method and
\* by nobody since, so its text is the journal.
LEMMA SoloFile ==
    ASSUME OneCaller, IInv, SoloInv, NEW c \in Callers, OpenFile(c) \/ WriteFile(c)
    PROVE  SoloInv'
<1>1. /\ UNCHANGED <<statePending, journal, op, held, applied, staged, faults, coreTerminals>>
      /\ pc[c] \in {"opening", "writing"} /\ \A d \in Callers : d = c
      /\ snap[c] = journal
      /\ op[c] = "commitStagedResult" => journal.pending # NoResult
      /\ staged \in Nat
  BY BoundsAssumption
     DEF OpenFile, WriteFile, SoloInv, WritesItsJournal, OneCaller, coreVars, IInv, TypeOK
<1>2. ~InFlight /\ Spent(journal.pending) /\ Spent(journal.pending)'
  BY <1>1 DEF InFlight, SoloInv, RepetitionsPaidFor, Spent, OutcomeOf
<1>3. RepetitionNeedsFault' /\ HeldIsPending'
  <2>1. pc'[c] # "calling"
    BY DEF OpenFile, WriteFile, IInv, TypeOK
  <2> QED BY <1>1, <2>1 DEF SoloInv, RepetitionNeedsFault, HeldIsPending
<1>4. CASE OpenFile(c)
  <2>1. /\ disk' = FileOf("empty", InitialJournal) /\ pc'[c] = "writing" /\ snap'[c] = journal
    BY <1>1, <1>4 DEF OpenFile, IInv, TypeOK
  <2>2. disk'.j = InitialJournal /\ InitialJournal.pending.id = 0
        /\ InitialJournal.resume = "none"
    BY <2>1 DEF FileOf, InitialJournal, NoResult
  <2>3. WritesItsJournal' /\ SavedWithoutFault'
    BY <1>1, <2>1 DEF WritesItsJournal, SavedWithoutFault
  <2>4. OnlyStaged' /\ ResumeMarkerIsHonest'
    BY <1>1, <2>2 DEF SoloInv, OnlyStaged, ResumeMarkerIsHonest, ResumeMarkerOf
  <2>5. Spent(disk.j.pending)'
    BY <2>2 DEF Spent, OutcomeOf, Outcomes
  <2> QED BY <1>2, <1>3, <2>3, <2>4, <2>5 DEF SoloInv, RepetitionsPaidFor
<1>5. CASE WriteFile(c)
  <2>1. disk = FileOf("empty", InitialJournal)
    BY <1>5 DEF WriteFile, SoloInv, WritesItsJournal
  <2>2. disk' = FileOf("journal", journal) /\ pc'[c] = "settling"
    BY <1>1, <1>5, <2>1 DEF WriteFile, FileOf, IInv, TypeOK
  <2>3. disk'.j = journal
    BY <2>2 DEF FileOf
  <2>4. WritesItsJournal' /\ SavedWithoutFault'
    BY <1>1, <2>2 DEF WritesItsJournal, SavedWithoutFault, Saved
  <2>5. OnlyStaged' /\ ResumeMarkerIsHonest' /\ Spent(disk.j.pending)'
    BY <1>1, <1>2, <2>3 DEF SoloInv, OnlyStaged, ResumeMarkerIsHonest, ResumeMarkerOf,
       Spent, OutcomeOf
  <2> QED BY <1>2, <1>3, <2>4, <2>5 DEF SoloInv, RepetitionsPaidFor
<1> QED BY <1>4, <1>5

\* A new process takes the file for its journal: what that costs in repetitions
\* was paid for, by the crash or before.
LEMMA SoloRestart == ASSUME IInv, SoloInv, Restart PROVE SoloInv'
<1> DEFINE loaded == IF disk.kind = "journal" THEN disk.j ELSE InitialJournal
           crash  == \E c \in Callers : pc[c] # "idle"
<1>1. /\ journal' = loaded /\ statePending' = loaded.pending
      /\ faults' = (IF crash THEN faults + 1 ELSE faults)
      /\ \A c \in Callers : pc'[c] = "idle"
      /\ UNCHANGED <<disk, staged, coreVars>> /\ coreTerminals' = coreTerminals
      /\ faults \in Nat /\ staged \in Nat
  BY BoundsAssumption DEF Restart, coreVars, IInv, TypeOK
<1>2. /\ loaded \in {disk.j, InitialJournal}
      /\ InitialJournal.pending.id = 0 /\ InitialJournal.resume = "none"
  BY DEF InitialJournal, NoResult
<1>3. Saved => loaded = journal
  BY DEF Saved, FileOf
<1>4. crash => faults' # 0
  BY <1>1
<1>5. ~crash => \A c \in Callers : pc[c] = "idle"
  OBVIOUS
<1> HIDE DEF loaded, crash
<1>6. HeldIsPending' /\ WritesItsJournal'
  BY <1>1 DEF HeldIsPending, WritesItsJournal
<1>7. SavedWithoutFault'
  <2> SUFFICES ASSUME faults' = 0 PROVE Saved'
    BY DEF SavedWithoutFault
  <2>1. ~crash /\ faults = 0
    BY <1>1, <1>4
  <2>2. Saved
    BY <1>5, <2>1 DEF SoloInv, SavedWithoutFault
  <2> QED BY <1>1, <1>3, <2>2 DEF Saved
<1>8. OnlyStaged' /\ ResumeMarkerIsHonest'
  BY <1>1, <1>2 DEF SoloInv, OnlyStaged, ResumeMarkerIsHonest, ResumeMarkerOf
<1>9. RepetitionsPaidFor' /\ RepetitionNeedsFault'
  <2>1. CASE crash
    BY <1>1, <2>1, FaultPays DEF RepetitionsPaidFor
  <2>2. CASE ~crash
    <3>1. Spent(disk.j.pending) /\ Spent(InitialJournal.pending)
      BY <1>2, <1>5, <2>2
         DEF SoloInv, RepetitionsPaidFor, InFlight, Opening, Spent, OutcomeOf, Outcomes
    <3>2. Spent(journal.pending)' /\ Spent(disk.j.pending)'
      BY <1>1, <1>2, <2>2, <3>1 DEF Spent, OutcomeOf
    <3> QED BY <1>1, <2>2, <3>2 DEF SoloInv, RepetitionsPaidFor, RepetitionNeedsFault
  <2> QED BY <2>1, <2>2
<1> QED BY <1>6, <1>7, <1>8, <1>9 DEF SoloInv

\* The invariant of one caller is inductive, on top of the one of any callers.
LEMMA NextSolo == ASSUME OneCaller PROVE IInv /\ SoloInv /\ [Next]_vars => SoloInv'
<1> SUFFICES ASSUME IInv, SoloInv, [Next]_vars PROVE SoloInv'
  OBVIOUS
<1>1. CASE Restart
  BY <1>1, SoloRestart
<1>2. ASSUME NEW c \in Callers, Step(c) PROVE SoloInv'
  <2>1. CASE Observe(c) \/ Reply(c)
    BY <2>1, SoloObserve
  <2>2. CASE \E term \in Terminals : StageResult(c, term)
    BY <2>2, SoloStage
  <2>3. CASE CapabilityBlocked(c)
    BY <2>3, SoloBlocked
  <2>4. CASE \E name \in Governed \cup {"callCapability", "commitStagedResult"} : Call(c, name)
    BY <2>4, SoloCall
  <2>5. CASE CorePerforms(c)
    BY <2>5, SoloCore
  <2>6. CASE CapabilityCalled(c) \/ Settle(c)
    BY <2>6, SoloSettle
  <2>7. CASE \E outcome \in BOOLEAN : CommitStagedResult(c, outcome)
    BY <2>7, SoloCommit
  <2>8. CASE CompleteTask(c) \/ FailTask(c)
    BY <2>8, SoloTerminate
  <2>9. CASE CallRejected(c) \/ WriteFails(c)
    BY <2>9, SoloThrow
  <2>10. CASE OpenFile(c) \/ WriteFile(c)
    BY <2>10, SoloFile
  <2> QED BY <1>2, <2>1, <2>2, <2>3, <2>4, <2>5, <2>6, <2>7, <2>8, <2>9, <2>10
          DEF Step, Save
<1>3. CASE UNCHANGED vars
  <2>1. UNCHANGED <<statePending, journal, disk, pc, op, held, snap, applied, staged,
                    faults, coreTerminals>>
    BY <1>3 DEF vars
  <2>2. HeldIsPending' /\ WritesItsJournal' /\ SavedWithoutFault'
    BY <2>1 DEF SoloInv, HeldIsPending, Terminating, WritesItsJournal, SavedWithoutFault, Saved
  <2>3. OnlyStaged' /\ RepetitionNeedsFault' /\ ResumeMarkerIsHonest'
    BY <2>1 DEF SoloInv, OnlyStaged, RepetitionNeedsFault, ResumeMarkerIsHonest, ResumeMarkerOf
  <2>4. RepetitionsPaidFor'
    BY <2>1 DEF SoloInv, RepetitionsPaidFor, InFlight, Terminating, Opening, Spent, OutcomeOf
  <2> QED BY <2>2, <2>3, <2>4 DEF SoloInv
<1> QED BY <1>1, <1>2, <1>3 DEF Next

\* With one caller at a time the stronger invariant holds in every state.
THEOREM SoloInvariance == ASSUME OneCaller PROVE Spec => []SoloInv
<1>1. Init => SoloInv
  BY SoloInit
<1>2. IInv /\ SoloInv /\ [Next]_vars => SoloInv'
  BY NextSolo
<1> QED BY <1>1, <1>2, Invariance, PTL DEF Spec

\* The marker a reload would resume from is true of the result it finds, in
\* memory and on the disk.
THEOREM ResumesHonestly == ASSUME OneCaller PROVE Spec => []ResumeMarkerIsHonest
<1>1. SoloInv => ResumeMarkerIsHonest
  BY DEF SoloInv
<1> QED BY <1>1, SoloInvariance, PTL

\* state.pendingResult and the journal's pending result are never apart.
THEOREM CopiesAgree == ASSUME OneCaller PROVE Spec => []StateMatchesJournal
<1>1. SoloInv => StateMatchesJournal
  BY DEF SoloInv, HeldIsPending, StateMatchesJournal
<1> QED BY <1>1, SoloInvariance, PTL

\* The core sees one outcome closed at most once more than there were faults.
THEOREM RepeatsOnlyAfterFaults == ASSUME OneCaller PROVE Spec => []RepetitionNeedsFault
<1>1. SoloInv => RepetitionNeedsFault
  BY DEF SoloInv
<1> QED BY <1>1, SoloInvariance, PTL

\* A method about to return has left its own journal on the disk.
THEOREM ReturnsDurably == ASSUME OneCaller PROVE Spec => []AcknowledgedIsDurable
<1>1. SoloInv => AcknowledgedIsDurable
  BY DEF SoloInv, WritesItsJournal, AcknowledgedIsDurable
<1> QED BY <1>1, SoloInvariance, PTL

\* The shared tail of the observing methods keeps the result it finds.
LEMMA AdvanceKeepsResult ==
    ASSUME TypeOK, NEW c \in Callers, NEW name \in AllOperations, NEW s \in Statuses,
           NEW a \in AttemptStatuses, NEW m \in Markers \ {"capability-blocked"},
           NEW ids \in SUBSET Ids, Advance(c, name, s, a, m, ids)
    PROVE  journal'.pending = journal.pending
<1> DEFINE j == [Attempted(journal, a) EXCEPT !.marker = m, !.ids = @ \cup ids]
<1>1. Attempted(journal, a) \in Journals
  BY AttemptedType DEF TypeOK
<1>2. j \in Journals
  BY <1>1 DEF Journals
<1>3. j.pending = journal.pending
  BY DEF Attempted, Journals, TypeOK
<1>4. Persist(c, name, j, m)
  BY DEF Advance
<1> HIDE DEF j
<1> QED BY <1>2, <1>3, <1>4 DEF Persist, Journals

\* So does every method that only observes.
LEMMA ObservingKeepsResult ==
    ASSUME TypeOK, NEW c \in Callers, Observe(c) \/ Reply(c)
    PROVE  journal'.pending = journal.pending
<1> USE DEF Statuses, AttemptStatuses, Markers, Ids, AllOperations, Governed
<1>1. CASE ReceiveTask(c)
  BY <1>1, AdvanceKeepsResult DEF ReceiveTask
<1>2. CASE StartExecution(c)
  BY <1>2, AdvanceKeepsResult DEF StartExecution
<1>3. CASE RecordTimeout(c)
  BY <1>3, AdvanceKeepsResult DEF RecordTimeout
<1>4. CASE Claim(c)
  BY <1>4, AdvanceKeepsResult DEF Claim
<1>5. CASE Accept(c)
  BY <1>5, AdvanceKeepsResult DEF Accept
<1>6. CASE RenewLease(c)
  BY <1>6, AdvanceKeepsResult DEF RenewLease
<1>7. CASE Suspend(c)
  BY <1>7, AdvanceKeepsResult DEF Suspend
<1>8. CASE Resume(c)
  BY <1>8, AdvanceKeepsResult DEF Resume
<1> QED BY <1>1, <1>2, <1>3, <1>4, <1>5, <1>6, <1>7, <1>8 DEF Observe, Reply

\* Only closing a result drops it: a completed or failed task had it closed at
\* the core, and a restart without a fault finds it on the disk.
THEOREM DropsOnlyClosed == ASSUME OneCaller PROVE Spec => DropsOnlyClosedResults
<1> DEFINE Drop == journal.pending # NoResult /\ journal'.pending = NoResult /\ faults' = 0
           Shut == coreTerminals[OutcomeOf(journal.pending)] > 0
<1>1. ASSUME IInv, SoloInv, [Next]_vars, Drop PROVE Shut
  <2>1. CASE Restart
    <3> DEFINE loaded == IF disk.kind = "journal" THEN disk.j ELSE InitialJournal
    <3>1. journal' = loaded /\ faults = 0 /\ \A c \in Callers : pc[c] = "idle"
      <4>1. faults \in Nat
        BY <1>1, BoundsAssumption DEF IInv, TypeOK
      <4> QED BY <1>1, <2>1, <4>1 DEF Restart
    <3>2. Saved
      BY <1>1, <3>1 DEF SoloInv, SavedWithoutFault
    <3>3. loaded = journal
      BY <3>2 DEF Saved, FileOf
    <3> QED BY <1>1, <3>1, <3>3
  <2>2. ASSUME NEW c \in Callers, CompleteTask(c) \/ FailTask(c) PROVE Shut
    <3>1. /\ pc[c] = "calling" /\ Terminating(c) /\ applied[c]
      BY <2>2 DEF CompleteTask, FailTask, Terminate, Answers, Terminating
    <3>2. held[c] = journal.pending
      BY <1>1, <3>1 DEF SoloInv, HeldIsPending
    <3>3. coreTerminals[OutcomeOf(held[c])] > 0
      BY <1>1, <3>1 DEF IInv, CopiesAreBacked, CallBacked, TerminalBacked, Terminating
    <3> QED BY <3>2, <3>3
  <2>3. ASSUME NEW c \in Callers, NEW j, NEW name, NEW m, Persist(c, name, j, m),
               j \in Journals, j.pending # NoResult
        PROVE  Shut
    <3>1. journal'.pending = j.pending
      BY <2>3 DEF Persist, Journals
    <3> QED BY <1>1, <2>3, <3>1
  <2>5. ASSUME NEW c \in Callers, Observe(c) \/ Reply(c) PROVE Shut
    <3>1. journal'.pending = journal.pending
      BY <1>1, <2>5, ObservingKeepsResult DEF IInv
    <3> QED BY <1>1, <3>1
  <2>6. ASSUME NEW c \in Callers, NEW term \in Terminals, StageResult(c, term) PROVE Shut
    <3> DEFINE r == [id |-> staged + 1, term |-> term, committed |-> FALSE, outcome |-> FALSE]
               j == [journal EXCEPT !.pending = r, !.marker = "result-staged"]
    <3>1. staged \in Nat /\ staged + 1 \in 0 .. MaxStagings
      BY <1>1, <2>6, BoundsAssumption DEF StageResult, IInv, TypeOK
    <3>2. r \in Results /\ r # NoResult
      BY <3>1 DEF Results, NoResult
    <3>3. j \in Journals /\ j.pending = r
      BY <1>1, <3>2 DEF IInv, TypeOK, Journals, Markers
    <3>4. Persist(c, "stageResult", j, "result-commit")
      BY <2>6 DEF StageResult
    <3> HIDE DEF r, j
    <3> QED BY <2>3, <3>2, <3>3, <3>4
  <2>7. ASSUME NEW c \in Callers, CapabilityBlocked(c) PROVE Shut
    <3> DEFINE j == [journal EXCEPT !.marker = "capability-blocked"]
    <3>1. j \in Journals /\ j.pending = journal.pending
      BY <1>1 DEF IInv, TypeOK, Journals, Markers
    <3>2. Persist(c, "callCapability", j, journal.resume)
      BY <2>7 DEF CapabilityBlocked
    <3> HIDE DEF j
    <3> QED BY <1>1, <2>3, <3>1, <3>2
  <2>8. ASSUME NEW c \in Callers, NEW outcome \in BOOLEAN, CommitStagedResult(c, outcome)
        PROVE  Shut
    <3> DEFINE r == [held[c] EXCEPT !.committed = TRUE, !.outcome = outcome]
               j == [journal EXCEPT !.pending = IF journal.pending.id = held[c].id
                                                  THEN r ELSE @,
                                    !.marker = "result-committed"]
               m == IF r.term = "fail" THEN "task-fail" ELSE "task-complete"
    <3>1. held[c] = journal.pending /\ held[c] \in Results
      BY <1>1, <2>8 DEF CommitStagedResult, Answers, SoloInv, HeldIsPending, IInv, TypeOK
    <3>2. r \in Results /\ r # NoResult
      BY <3>1 DEF Results, NoResult
    <3>3. j = [journal EXCEPT !.pending = r, !.marker = "result-committed"]
      BY <3>1
    <3>4. Persist(c, "commitStagedResult", j, m)
      BY <2>8 DEF CommitStagedResult
    <3> HIDE DEF r, j, m
    <3>5. j \in Journals /\ j.pending = r
      BY <1>1, <3>2, <3>3 DEF IInv, TypeOK, Journals, Markers
    <3> QED BY <2>3, <3>2, <3>4, <3>5
  <2>9. ASSUME NEW c \in Callers, CallRejected(c) \/ WriteFails(c) PROVE Shut
    <3>1. \/ Persist(c, "commit-catch", journal, "result-commit")
          \/ UNCHANGED journal
      BY <2>9 DEF CallRejected, WriteFails
    <3>2. journal \in Journals
      BY <1>1 DEF IInv, TypeOK
    <3> QED BY <1>1, <2>3, <3>1, <3>2
  <2>10. CASE UNCHANGED journal
    BY <1>1, <2>10
  <2> QED BY <1>1, <2>1, <2>2, <2>5, <2>6, <2>7, <2>8, <2>9, <2>10
          DEF Next, Step, Save, vars, Call, CorePerforms, CapabilityCalled, OpenFile,
              WriteFile, Settle
<1>2. IInv /\ SoloInv /\ [Next]_vars => [Drop => Shut]_vars
  BY <1>1
<1> QED BY <1>2, Invariance, SoloInvariance, PTL DEF Spec, DropsOnlyClosedResults

=============================================================================
