------------------------- MODULE VerifyTask10_proofs -------------------------
(***************************************************************************)
(* What the reproducibility script says of its gates, of its conclusion    *)
(* and of what it publishes, for any number of gates, rivals and faults.   *)
(***************************************************************************)
EXTENDS VerifyTask10, TLAPS

-----------------------------------------------------------------------------
(* The recorder.                                                           *)

RecorderType ==
  /\ phase \in Rec!Phases
  /\ rows \in Seq(Rec!Rows) /\ Len(rows) <= Gates
  /\ child \in [1 .. Gates -> Rec!Children]
  /\ disk \in [1 .. Gates -> [Rec!Logs -> Rec!LogFiles]]
  /\ pump \in [Rec!Logs -> Rec!Pumps]
  /\ armed \subseteq Rec!Timers
  /\ forced \in {"null", "124", "125"}
  /\ fin \in Rec!Finalizers
  /\ killed \in BOOLEAN

Between == phase \in {"next", "opening", "recorded"} \/ (phase = "rejected" /\ fin = "none")

\* Between two commands nothing is armed or at work, and no later gate has
\* been started.
Idle ==
  /\ phase \notin {"next", "recorded"} => Len(rows) < Gates
  /\ Between => fin = "none" /\ armed = {} /\ \A s \in Rec!Logs : pump[s] = "done"
  /\ \A g \in 1 .. Gates : g > Rec!Gate \/ (g = Rec!Gate /\ Between) => child[g] = "unborn"
  /\ phase = "running" => fin = "none"
  /\ phase \in {"drain", "move", "clean", "settled"} => fin # "none"

\* What chose the finalizer, and what it leaves running.
Finalizing ==
  /\ fin = "success" => child[Rec!Gate] \in Rec!Closed
  /\ fin = "forced" => forced # "null" /\ (child[Rec!Gate] \in Rec!Closed \/ killed)
  /\ fin = "failure" => killed
  /\ phase = "running" /\ "settle" \in armed => forced # "null" /\ ("kill" \in armed \/ killed)
  /\ phase = "drain" /\ fin = "forced" => armed = {}
  /\ phase = "drain" /\ fin = "success" /\ armed # {} => \E s \in Rec!Logs : pump[s] = "rejected"
  /\ phase = "clean" => fin = "failure"

\* The logs, as the pumps left them.
Promoting ==
  /\ phase = "running" => Rec!Temps = Rec!Logs
  /\ phase = "drain" /\ fin \in {"success", "forced"} => Rec!Temps = Rec!Logs
  /\ phase \in {"move", "settled"} =>
       /\ armed = {} /\ fin \in {"success", "forced"}
       /\ \A s \in Rec!Logs :
            /\ Rec!Ended(s) /\ (fin = "success" => pump[s] = "done")
            /\ disk[Rec!Gate][s] \in {"temp", "partial", "whole"}
            /\ disk[Rec!Gate][s] = "partial" => pump[s] # "done"
  /\ phase = "settled" \/ (phase = "rejected" /\ fin # "forced") => Rec!Temps = {}

\* The rows recorded so far.
Recorded ==
  \A g \in DOMAIN rows :
    /\ rows[g].exit = "0" => child[g] = "zero" /\ \A s \in Rec!Logs : disk[g][s] = "whole"
    /\ child[g] = "running" => rows[g].exit \in {"124", "125"}
    /\ rows[g].status = "executed" => \A s \in Rec!Logs : disk[g][s] \in {"partial", "whole"}

\* The inductive invariant of the recorder.
RecorderInv == RecorderType /\ Idle /\ Finalizing /\ Promoting /\ Recorded
-----------------------------------------------------------------------------
\* While the loop is at a gate, steps that only concern that gate leave the
\* recorded rows as they are.
LEMMA RowsStand ==
  ASSUME RecorderInv, UNCHANGED rows,
         \A g \in 1 .. Gates : g # Rec!Gate => child'[g] = child[g] /\ disk'[g] = disk[g]
  PROVE  Recorded'
<1>1. \A g \in DOMAIN rows : g \in 1 .. Gates /\ g # Rec!Gate
  BY VerifyAssumption DEF RecorderInv, RecorderType, Rec!Gate
<1> QED BY <1>1 DEF RecorderInv, Recorded

\* A command starts: nothing of the previous one is armed.
LEMMA StartStep == ASSUME RecorderInv, Rec!Start PROVE RecorderInv'
<1>1. Recorded'
  BY RowsStand DEF Rec!Start
<1>2. RecorderType' /\ Idle'
  BY VerifyAssumption DEF Rec!Start, RecorderInv, RecorderType, Idle, Between, Rec!Gate,
     Rec!Phases
<1>3. Finalizing' /\ Promoting'
  BY DEF Rec!Start, RecorderInv, Finalizing, Promoting, Idle, Between
<1> QED BY <1>1, <1>2, <1>3 DEF RecorderInv

\* The close of the child settles the command, or finds it taken.
LEMMA ChildClosesStep ==
  ASSUME RecorderInv, NEW code \in Rec!Closed, Rec!ChildCloses(code) PROVE RecorderInv'
<1> USE VerifyAssumption DEF Rec!Logs, Rec!Gate
<1>1. Recorded'
  BY RowsStand DEF Rec!ChildCloses, RecorderInv, RecorderType, Rec!FinalizeSuccess,
     Rec!FinalizeForcedExit
<1>2. RecorderType'
  <2>1. child' \in [1 .. Gates -> Rec!Children]
    BY DEF Rec!ChildCloses, RecorderInv, RecorderType, Rec!Children, Rec!Closed
  <2>2. pump' \in [Rec!Logs -> Rec!Pumps]
    BY DEF Rec!ChildCloses, RecorderInv, RecorderType, Rec!FinalizeSuccess,
       Rec!FinalizeForcedExit,
       Rec!Destroyed, Rec!Pumps
  <2> QED
    BY <2>1, <2>2 DEF Rec!ChildCloses, RecorderInv, RecorderType, Rec!FinalizeSuccess,
       Rec!FinalizeForcedExit, Rec!Phases, Rec!Finalizers
<1>3. Idle'
  BY DEF Rec!ChildCloses, RecorderInv, RecorderType, Idle, Between, Rec!FinalizeSuccess,
     Rec!FinalizeForcedExit, Rec!Live
<1>4. Finalizing'
  BY DEF Rec!ChildCloses, RecorderInv, RecorderType, Idle, Between, Finalizing,
     Rec!FinalizeSuccess, Rec!FinalizeForcedExit, Rec!Live, Rec!Closed
<1>5. Promoting'
  BY DEF Rec!ChildCloses, RecorderInv, RecorderType, Idle, Between, Promoting, Rec!Temps,
     Rec!Ended,
     Rec!FinalizeSuccess, Rec!FinalizeForcedExit, Rec!Live, Rec!Closed
<1> QED BY <1>1, <1>2, <1>3, <1>4, <1>5 DEF RecorderInv

\* The loop ends between two commands.
LEMMA FinishStep == ASSUME RecorderInv, Rec!Finish PROVE RecorderInv'
<1> USE VerifyAssumption DEF Rec!Logs, Rec!Gate
<1>1. Recorded'
  BY RowsStand DEF RecorderInv, RecorderType, Rec!Finish
<1>2. RecorderType'
  BY DEF RecorderInv, RecorderType, Rec!Finish, Idle, Between, Rec!Phases, Rec!Finalizers,
     Rec!Pumps, Rec!LogFiles, Rec!Timers, Rec!Children
<1>3. Idle'
  BY DEF RecorderInv, RecorderType, Rec!Finish, Idle, Between
<1>4. Finalizing'
  BY DEF RecorderInv, RecorderType, Rec!Finish, Idle, Between, Finalizing, Rec!Closed
<1>5. Promoting'
  BY DEF RecorderInv, RecorderType, Rec!Finish, Idle, Between, Promoting, Finalizing, Rec!Temps,
     Rec!Ended
<1> QED BY <1>1, <1>2, <1>3, <1>4, <1>5 DEF RecorderInv

\* A temporary log is opened before the child exists.
LEMMA OpenLogStep ==
  ASSUME RecorderInv, NEW s \in Rec!Logs, Rec!OpenLog(s)
  PROVE  RecorderInv'
<1> USE VerifyAssumption DEF Rec!Logs, Rec!Gate
<1>1. Recorded'
  BY RowsStand DEF RecorderInv, RecorderType, Rec!OpenLog, Rec!SetLog
<1>2. RecorderType'
  BY DEF RecorderInv, RecorderType, Rec!OpenLog, Rec!SetLog, Idle, Between, Rec!Phases,
     Rec!Finalizers, Rec!Pumps, Rec!LogFiles, Rec!Timers, Rec!Children
<1>3. Idle'
  BY DEF RecorderInv, RecorderType, Rec!OpenLog, Rec!SetLog, Idle, Between
<1>4. Finalizing'
  BY DEF RecorderInv, RecorderType, Rec!OpenLog, Rec!SetLog, Idle, Between, Finalizing,
     Rec!Closed
<1>5. Promoting'
  BY DEF RecorderInv, RecorderType, Rec!OpenLog, Rec!SetLog, Idle, Between, Promoting,
     Finalizing, Rec!Temps, Rec!Ended
<1> QED BY <1>1, <1>2, <1>3, <1>4, <1>5 DEF RecorderInv

\* What was opened is removed, and no child was started.
LEMMA OpeningFailsStep == ASSUME RecorderInv, Rec!OpeningFails PROVE RecorderInv'
<1> USE VerifyAssumption DEF Rec!Logs, Rec!Gate
<1>1. Recorded'
  BY RowsStand DEF RecorderInv, RecorderType, Rec!OpeningFails, Rec!OpeningCleanup,
     Rec!WithoutTemps, Rec!Temps
<1>2. RecorderType'
  BY DEF RecorderInv, RecorderType, Rec!OpeningFails, Rec!OpeningCleanup, Rec!WithoutTemps,
     Rec!Temps, Idle, Between, Rec!Phases, Rec!Finalizers, Rec!Pumps, Rec!LogFiles, Rec!Timers,
     Rec!Children
<1>3. Idle'
  BY DEF RecorderInv, RecorderType, Rec!OpeningFails, Rec!OpeningCleanup, Rec!WithoutTemps,
     Rec!Temps, Idle, Between
<1>4. Finalizing'
  BY DEF RecorderInv, RecorderType, Rec!OpeningFails, Rec!OpeningCleanup, Rec!WithoutTemps,
     Rec!Temps, Idle, Between, Finalizing, Rec!Closed
<1>5. Promoting'
  BY DEF RecorderInv, RecorderType, Rec!OpeningFails, Rec!OpeningCleanup, Rec!WithoutTemps,
     Rec!Temps, Idle, Between, Promoting, Finalizing, Rec!Ended
<1> QED BY <1>1, <1>2, <1>3, <1>4, <1>5 DEF RecorderInv

\* A command is armed afresh, with both logs still temporary.
LEMMA SpawnStep == ASSUME RecorderInv, Rec!Spawn PROVE RecorderInv'
<1> USE VerifyAssumption DEF Rec!Logs, Rec!Gate
<1>1. Recorded'
  BY RowsStand DEF RecorderInv, RecorderType, Rec!Spawn, Rec!Temps
<1>2. RecorderType'
  BY DEF RecorderInv, RecorderType, Rec!Spawn, Rec!Temps, Idle, Between, Rec!Phases,
     Rec!Finalizers, Rec!Pumps, Rec!LogFiles, Rec!Timers, Rec!Children
<1>3. Idle'
  BY DEF RecorderInv, RecorderType, Rec!Spawn, Rec!Temps, Idle, Between
<1>4. Finalizing'
  BY DEF RecorderInv, RecorderType, Rec!Spawn, Rec!Temps, Idle, Between, Finalizing, Rec!Closed
<1>5. Promoting'
  BY DEF RecorderInv, RecorderType, Rec!Spawn, Rec!Temps, Idle, Between, Promoting, Finalizing,
     Rec!Ended
<1> QED BY <1>1, <1>2, <1>3, <1>4, <1>5 DEF RecorderInv

\* An error of the child kills it, unless the command is taken.
LEMMA ChildFailsStep == ASSUME RecorderInv, Rec!ChildFails PROVE RecorderInv'
<1> USE VerifyAssumption DEF Rec!Logs, Rec!Gate
<1>1. Recorded'
  BY RowsStand DEF RecorderInv, RecorderType, Rec!ChildFails, Rec!FinalizeFailure, Rec!Live
<1>2. RecorderType'
  <2>1. pump' \in [Rec!Logs -> Rec!Pumps]
    BY DEF RecorderInv, RecorderType, Rec!Pumps, Rec!ChildFails, Rec!FinalizeFailure
  <2> QED
    BY <2>1 DEF RecorderInv, RecorderType, Rec!Phases, Rec!Finalizers, Rec!ChildFails,
       Rec!FinalizeFailure
<1>3. Idle'
  BY DEF RecorderInv, RecorderType, Rec!ChildFails, Rec!FinalizeFailure, Rec!Live, Idle, Between
<1>4. Finalizing'
  BY DEF RecorderInv, RecorderType, Rec!ChildFails, Rec!FinalizeFailure, Rec!Live, Idle,
     Between, Finalizing, Rec!Closed
<1>5. Promoting'
  BY DEF RecorderInv, RecorderType, Rec!ChildFails, Rec!FinalizeFailure, Rec!Live, Idle,
     Between, Promoting, Finalizing, Rec!Temps, Rec!Ended
<1> QED BY <1>1, <1>2, <1>3, <1>4, <1>5 DEF RecorderInv

\* A pump that is done stays so: only a pump at work changes.
LEMMA PumpFinishesStep ==
  ASSUME RecorderInv, NEW s \in Rec!Logs, Rec!PumpFinishes(s)
  PROVE  RecorderInv'
<1> USE VerifyAssumption DEF Rec!Logs, Rec!Gate
<1>1. Recorded'
  BY RowsStand DEF RecorderInv, RecorderType, Rec!PumpFinishes, Rec!Live
<1>2. RecorderType'
  BY DEF RecorderInv, RecorderType, Rec!PumpFinishes, Rec!Live, Idle, Between, Rec!Phases,
     Rec!Finalizers, Rec!Pumps, Rec!LogFiles, Rec!Timers, Rec!Children
<1>3. Idle'
  BY DEF RecorderInv, RecorderType, Rec!PumpFinishes, Rec!Live, Idle, Between
<1>4. Finalizing'
  BY DEF RecorderInv, RecorderType, Rec!PumpFinishes, Rec!Live, Idle, Between, Finalizing,
     Rec!Closed
<1>5. Promoting'
  BY DEF RecorderInv, RecorderType, Rec!PumpFinishes, Rec!Live, Idle, Between, Promoting,
     Finalizing, Rec!Temps, Rec!Ended
<1> QED BY <1>1, <1>2, <1>3, <1>4, <1>5 DEF RecorderInv

\* An overflow is noticed before it is reported.
LEMMA OverflowStep ==
  ASSUME RecorderInv, NEW s \in Rec!Logs, Rec!Overflow(s)
  PROVE  RecorderInv'
<1> USE VerifyAssumption DEF Rec!Logs, Rec!Gate
<1>1. Recorded'
  BY RowsStand DEF RecorderInv, RecorderType, Rec!Overflow, Rec!Live
<1>2. RecorderType'
  BY DEF RecorderInv, RecorderType, Rec!Overflow, Rec!Live, Idle, Between, Rec!Phases,
     Rec!Finalizers, Rec!Pumps, Rec!LogFiles, Rec!Timers, Rec!Children
<1>3. Idle'
  BY DEF RecorderInv, RecorderType, Rec!Overflow, Rec!Live, Idle, Between
<1>4. Finalizing'
  BY DEF RecorderInv, RecorderType, Rec!Overflow, Rec!Live, Idle, Between, Finalizing,
     Rec!Closed
<1>5. Promoting'
  BY DEF RecorderInv, RecorderType, Rec!Overflow, Rec!Live, Idle, Between, Promoting,
     Finalizing, Rec!Temps, Rec!Ended
<1> QED BY <1>1, <1>2, <1>3, <1>4, <1>5 DEF RecorderInv

\* So is a failed log write.
LEMMA LogWriteFailsStep ==
  ASSUME RecorderInv, NEW s \in Rec!Logs, Rec!LogWriteFails(s)
  PROVE  RecorderInv'
<1> USE VerifyAssumption DEF Rec!Logs, Rec!Gate
<1>1. Recorded'
  BY RowsStand DEF RecorderInv, RecorderType, Rec!LogWriteFails, Rec!Live
<1>2. RecorderType'
  BY DEF RecorderInv, RecorderType, Rec!LogWriteFails, Rec!Live, Idle, Between, Rec!Phases,
     Rec!Finalizers, Rec!Pumps, Rec!LogFiles, Rec!Timers, Rec!Children
<1>3. Idle'
  BY DEF RecorderInv, RecorderType, Rec!LogWriteFails, Rec!Live, Idle, Between
<1>4. Finalizing'
  BY DEF RecorderInv, RecorderType, Rec!LogWriteFails, Rec!Live, Idle, Between, Finalizing,
     Rec!Closed
<1>5. Promoting'
  BY DEF RecorderInv, RecorderType, Rec!LogWriteFails, Rec!Live, Idle, Between, Promoting,
     Finalizing, Rec!Temps, Rec!Ended
<1> QED BY <1>1, <1>2, <1>3, <1>4, <1>5 DEF RecorderInv

\* A timer armed after a success began comes with a rejected pump.
LEMMA OverflowReportedStep ==
  ASSUME RecorderInv, NEW s \in Rec!Logs, Rec!OverflowReported(s)
  PROVE  RecorderInv'
<1> USE VerifyAssumption DEF Rec!Logs, Rec!Gate
<1>1. Recorded'
  BY RowsStand DEF RecorderInv, RecorderType, Rec!OverflowReported, Rec!Live, Rec!ForcedBy,
     Rec!ForcedTimers
<1>2. RecorderType'
  BY DEF RecorderInv, RecorderType, Rec!OverflowReported, Rec!Live, Rec!ForcedBy,
     Rec!ForcedTimers, Idle, Between, Rec!Phases, Rec!Finalizers, Rec!Pumps, Rec!LogFiles,
     Rec!Timers, Rec!Children
<1>3. Idle'
  BY DEF RecorderInv, RecorderType, Rec!OverflowReported, Rec!Live, Rec!ForcedBy,
     Rec!ForcedTimers, Idle, Between
<1>4. Finalizing'
  BY DEF RecorderInv, RecorderType, Rec!OverflowReported, Rec!Live, Rec!ForcedBy,
     Rec!ForcedTimers, Idle, Between, Finalizing, Rec!Closed
<1>5. Promoting'
  BY DEF RecorderInv, RecorderType, Rec!OverflowReported, Rec!Live, Rec!ForcedBy,
     Rec!ForcedTimers, Idle, Between, Promoting, Finalizing, Rec!Temps, Rec!Ended
<1> QED BY <1>1, <1>2, <1>3, <1>4, <1>5 DEF RecorderInv

\* A failed pump kills the child, unless the command is taken.
LEMMA FailureReportedStep ==
  ASSUME RecorderInv, NEW s \in Rec!Logs, Rec!FailureReported(s)
  PROVE  RecorderInv'
<1> USE VerifyAssumption DEF Rec!Logs, Rec!Gate
<1>1. Recorded'
  BY RowsStand DEF RecorderInv, RecorderType, Rec!FailureReported, Rec!FinalizeFailure, Rec!Live
<1>2. RecorderType'
  <2>1. pump' \in [Rec!Logs -> Rec!Pumps]
    BY DEF RecorderInv, RecorderType, Rec!Pumps, Rec!FailureReported, Rec!FinalizeFailure
  <2> QED
    BY <2>1 DEF RecorderInv, RecorderType, Rec!Phases, Rec!Finalizers, Rec!FailureReported,
       Rec!FinalizeFailure
<1>3. Idle'
  BY DEF RecorderInv, RecorderType, Rec!FailureReported, Rec!FinalizeFailure, Rec!Live, Idle,
     Between
<1>4. Finalizing'
  BY DEF RecorderInv, RecorderType, Rec!FailureReported, Rec!FinalizeFailure, Rec!Live, Idle,
     Between, Finalizing, Rec!Closed
<1>5. Promoting'
  BY DEF RecorderInv, RecorderType, Rec!FailureReported, Rec!FinalizeFailure, Rec!Live, Idle,
     Between, Promoting, Finalizing, Rec!Temps, Rec!Ended
<1> QED BY <1>1, <1>2, <1>3, <1>4, <1>5 DEF RecorderInv

\* The timeout arms the kill and the settlement behind it.
LEMMA TimeoutFiresStep == ASSUME RecorderInv, Rec!TimeoutFires PROVE RecorderInv'
<1> USE VerifyAssumption DEF Rec!Logs, Rec!Gate
<1>1. Recorded'
  BY RowsStand DEF RecorderInv, RecorderType, Rec!TimeoutFires, Rec!Live, Rec!ForcedBy,
     Rec!ForcedTimers
<1>2. RecorderType'
  BY DEF RecorderInv, RecorderType, Rec!TimeoutFires, Rec!Live, Rec!ForcedBy, Rec!ForcedTimers,
     Idle, Between, Rec!Phases, Rec!Finalizers, Rec!Pumps, Rec!LogFiles, Rec!Timers,
     Rec!Children
<1>3. Idle'
  BY DEF RecorderInv, RecorderType, Rec!TimeoutFires, Rec!Live, Rec!ForcedBy, Rec!ForcedTimers,
     Idle, Between
<1>4. Finalizing'
  BY DEF RecorderInv, RecorderType, Rec!TimeoutFires, Rec!Live, Rec!ForcedBy, Rec!ForcedTimers,
     Idle, Between, Finalizing, Rec!Closed
<1>5. Promoting'
  BY DEF RecorderInv, RecorderType, Rec!TimeoutFires, Rec!Live, Rec!ForcedBy, Rec!ForcedTimers,
     Idle, Between, Promoting, Finalizing, Rec!Temps, Rec!Ended
<1> QED BY <1>1, <1>2, <1>3, <1>4, <1>5 DEF RecorderInv

\* The kill comes before the settlement it allows.
LEMMA KillTimerFiresStep == ASSUME RecorderInv, Rec!KillTimerFires PROVE RecorderInv'
<1> USE VerifyAssumption DEF Rec!Logs, Rec!Gate
<1>1. Recorded'
  BY RowsStand DEF RecorderInv, RecorderType, Rec!KillTimerFires, Rec!Live
<1>2. RecorderType'
  BY DEF RecorderInv, RecorderType, Rec!KillTimerFires, Rec!Live, Idle, Between, Rec!Phases,
     Rec!Finalizers, Rec!Pumps, Rec!LogFiles, Rec!Timers, Rec!Children
<1>3. Idle'
  BY DEF RecorderInv, RecorderType, Rec!KillTimerFires, Rec!Live, Idle, Between
<1>4. Finalizing'
  BY DEF RecorderInv, RecorderType, Rec!KillTimerFires, Rec!Live, Idle, Between, Finalizing,
     Rec!Closed
<1>5. Promoting'
  BY DEF RecorderInv, RecorderType, Rec!KillTimerFires, Rec!Live, Idle, Between, Promoting,
     Finalizing, Rec!Temps, Rec!Ended
<1> QED BY <1>1, <1>2, <1>3, <1>4, <1>5 DEF RecorderInv

\* The settlement finds the child killed.
LEMMA SettleTimerFiresStep == ASSUME RecorderInv, Rec!SettleTimerFires PROVE RecorderInv'
<1> USE VerifyAssumption DEF Rec!Logs, Rec!Gate
<1>1. Recorded'
  BY RowsStand DEF RecorderInv, RecorderType, Rec!SettleTimerFires, Rec!Live,
     Rec!FinalizeForcedExit, Rec!Destroyed
<1>2. RecorderType'
  <2>1. pump' \in [Rec!Logs -> Rec!Pumps]
    BY DEF RecorderInv, RecorderType, Rec!Pumps, Rec!SettleTimerFires, Rec!FinalizeForcedExit,
       Rec!Destroyed
  <2> QED
    BY <2>1 DEF RecorderInv, RecorderType, Rec!Phases, Rec!Finalizers, Rec!SettleTimerFires,
       Rec!FinalizeForcedExit, Rec!Destroyed
<1>3. Idle'
  BY DEF RecorderInv, RecorderType, Rec!SettleTimerFires, Rec!Live, Rec!FinalizeForcedExit,
     Rec!Destroyed, Idle, Between
<1>4. Finalizing'
  BY DEF RecorderInv, RecorderType, Rec!SettleTimerFires, Rec!Live, Rec!FinalizeForcedExit,
     Rec!Destroyed, Idle, Between, Finalizing, Rec!Closed
<1>5. Promoting'
  BY DEF RecorderInv, RecorderType, Rec!SettleTimerFires, Rec!Live, Rec!FinalizeForcedExit,
     Rec!Destroyed, Idle, Between, Promoting, Finalizing, Rec!Temps, Rec!Ended
<1> QED BY <1>1, <1>2, <1>3, <1>4, <1>5 DEF RecorderInv

\* A success moves the logs only when both pumps are done.
LEMMA DrainedStep == ASSUME RecorderInv, Rec!Drained PROVE RecorderInv'
<1> USE VerifyAssumption DEF Rec!Logs, Rec!Gate
<1>1. Recorded'
  BY RowsStand DEF RecorderInv, RecorderType, Rec!Drained, Rec!Ended
<1>2. RecorderType'
  BY DEF RecorderInv, RecorderType, Rec!Drained, Rec!Ended, Idle, Between, Rec!Phases,
     Rec!Finalizers, Rec!Pumps, Rec!LogFiles, Rec!Timers, Rec!Children
<1>3. Idle'
  BY DEF RecorderInv, RecorderType, Rec!Drained, Rec!Ended, Idle, Between
<1>4. Finalizing'
  BY DEF RecorderInv, RecorderType, Rec!Drained, Rec!Ended, Idle, Between, Finalizing,
     Rec!Closed
<1>5. Promoting'
  <2>1. CASE fin = "failure"
    BY <2>1 DEF RecorderInv, Rec!Drained, Promoting
  <2>2. CASE fin = "success"
    <3>1. \A s \in Rec!Logs : pump[s] = "done"
      BY <2>2 DEF Rec!Drained
    <3>2. armed = {} /\ Rec!Temps = Rec!Logs
      BY <2>2, <3>1 DEF RecorderInv, Finalizing, Promoting, Rec!Drained
    <3> QED
      BY <2>2, <3>1, <3>2 DEF Rec!Drained, Promoting, Rec!Temps, Rec!Ended
  <2>3. CASE fin = "forced"
    <3>1. armed = {} /\ Rec!Temps = Rec!Logs
      BY <2>3 DEF RecorderInv, Finalizing, Promoting, Rec!Drained
    <3> QED
      BY <2>3, <3>1 DEF Rec!Drained, Promoting, Rec!Temps, Rec!Ended
  <2> QED
    BY <2>1, <2>2, <2>3 DEF RecorderInv, RecorderType, Idle, Rec!Drained, Rec!Finalizers
<1> QED BY <1>1, <1>2, <1>3, <1>4, <1>5 DEF RecorderInv

\* A success whose pump was rejected becomes a failure.
LEMMA DrainFailsStep == ASSUME RecorderInv, Rec!DrainFails PROVE RecorderInv'
<1> USE VerifyAssumption DEF Rec!Logs, Rec!Gate
<1>1. Recorded'
  BY RowsStand DEF RecorderInv, RecorderType, Rec!DrainFails, Rec!FinalizeFailure
<1>2. RecorderType'
  BY DEF RecorderInv, RecorderType, Rec!DrainFails, Rec!FinalizeFailure, Idle, Between,
     Rec!Phases, Rec!Finalizers, Rec!Pumps, Rec!LogFiles, Rec!Timers, Rec!Children
<1>3. Idle'
  BY DEF RecorderInv, RecorderType, Rec!DrainFails, Rec!FinalizeFailure, Idle, Between
<1>4. Finalizing'
  BY DEF RecorderInv, RecorderType, Rec!DrainFails, Rec!FinalizeFailure, Idle, Between,
     Finalizing, Rec!Closed
<1>5. Promoting'
  BY DEF RecorderInv, RecorderType, Rec!DrainFails, Rec!FinalizeFailure, Idle, Between,
     Promoting, Finalizing, Rec!Temps, Rec!Ended
<1> QED BY <1>1, <1>2, <1>3, <1>4, <1>5 DEF RecorderInv

\* A promoted log is whole when its pump was done.
LEMMA MoveLogStep ==
  ASSUME RecorderInv, NEW s \in Rec!Logs, Rec!MoveLog(s)
  PROVE  RecorderInv'
<1> USE VerifyAssumption DEF Rec!Logs, Rec!Gate
<1>1. Recorded'
  BY RowsStand DEF RecorderInv, RecorderType, Rec!MoveLog, Rec!SetLog, Rec!Temps
<1>2. RecorderType'
  BY DEF RecorderInv, RecorderType, Rec!MoveLog, Rec!SetLog, Rec!Temps, Idle, Between,
     Rec!Phases, Rec!Finalizers, Rec!Pumps, Rec!LogFiles, Rec!Timers, Rec!Children
<1>3. Idle'
  BY DEF RecorderInv, RecorderType, Rec!MoveLog, Rec!SetLog, Rec!Temps, Idle, Between
<1>4. Finalizing'
  BY DEF RecorderInv, RecorderType, Rec!MoveLog, Rec!SetLog, Rec!Temps, Idle, Between,
     Finalizing, Rec!Closed
<1>5. Promoting'
  BY DEF RecorderInv, RecorderType, Rec!MoveLog, Rec!SetLog, Rec!Temps, Idle, Between,
     Promoting, Finalizing, Rec!Ended
<1> QED BY <1>1, <1>2, <1>3, <1>4, <1>5 DEF RecorderInv

\* A success that cannot be promoted becomes a failure.
LEMMA MoveFailsStep == ASSUME RecorderInv, Rec!MoveFails PROVE RecorderInv'
<1> USE VerifyAssumption DEF Rec!Logs, Rec!Gate
<1>1. Recorded'
  BY RowsStand DEF RecorderInv, RecorderType, Rec!MoveFails, Rec!FinalizeFailure
<1>2. RecorderType'
  <2>1. pump' \in [Rec!Logs -> Rec!Pumps]
    BY DEF RecorderInv, RecorderType, Rec!Pumps, Rec!MoveFails, Rec!FinalizeFailure
  <2> QED
    BY <2>1 DEF RecorderInv, RecorderType, Rec!Phases, Rec!Finalizers, Rec!MoveFails,
       Rec!FinalizeFailure
<1>3. Idle'
  BY DEF RecorderInv, RecorderType, Rec!MoveFails, Rec!FinalizeFailure, Idle, Between
<1>4. Finalizing'
  BY DEF RecorderInv, RecorderType, Rec!MoveFails, Rec!FinalizeFailure, Idle, Between,
     Finalizing, Rec!Closed
<1>5. Promoting'
  BY DEF RecorderInv, RecorderType, Rec!MoveFails, Rec!FinalizeFailure, Idle, Between,
     Promoting, Finalizing, Rec!Temps, Rec!Ended
<1> QED BY <1>1, <1>2, <1>3, <1>4, <1>5 DEF RecorderInv

\* A failure removes what it has not promoted.
LEMMA CleanStep == ASSUME RecorderInv, Rec!Clean PROVE RecorderInv'
<1> USE VerifyAssumption DEF Rec!Logs, Rec!Gate
<1>1. Recorded'
  BY RowsStand DEF RecorderInv, RecorderType, Rec!Clean, Rec!WithoutTemps, Rec!Temps
<1>2. RecorderType'
  BY DEF RecorderInv, RecorderType, Rec!Clean, Rec!WithoutTemps, Rec!Temps, Idle, Between,
     Rec!Phases, Rec!Finalizers, Rec!Pumps, Rec!LogFiles, Rec!Timers, Rec!Children
<1>3. Idle'
  BY DEF RecorderInv, RecorderType, Rec!Clean, Rec!WithoutTemps, Rec!Temps, Idle, Between
<1>4. Finalizing'
  BY DEF RecorderInv, RecorderType, Rec!Clean, Rec!WithoutTemps, Rec!Temps, Idle, Between,
     Finalizing, Rec!Closed
<1>5. Promoting'
  BY DEF RecorderInv, RecorderType, Rec!Clean, Rec!WithoutTemps, Rec!Temps, Idle, Between,
     Promoting, Finalizing, Rec!Ended
<1> QED BY <1>1, <1>2, <1>3, <1>4, <1>5 DEF RecorderInv

\* A gate after an error is skipped: its child is never started.
LEMMA SkipStep == ASSUME RecorderInv, Rec!Skip PROVE RecorderInv'
<1> USE VerifyAssumption DEF Rec!Logs, Rec!Gate
<1> DEFINE row == [status |-> "skipped", exit |-> "null"]
<1>1. /\ row \in Rec!Rows /\ rows' = Append(rows, row)
      /\ Len(rows') = Len(rows) + 1
      /\ \A g \in 1 .. Len(rows) : rows'[g] = rows[g]
      /\ rows'[Len(rows) + 1] = row
  BY DEF RecorderInv, RecorderType, Rec!Skip, Rec!Rows
<1>2. child[Rec!Gate] = "unborn"
  BY DEF RecorderInv, RecorderType, Idle, Between, Rec!Skip
<1>3. RecorderType'
  BY <1>1 DEF RecorderInv, RecorderType, Rec!Skip
<1>4. Recorded'
  BY <1>1, <1>2, <1>3 DEF RecorderInv, RecorderType, Recorded, Rec!Skip
<1>5. Idle' /\ Finalizing' /\ Promoting'
  BY <1>1 DEF RecorderInv, RecorderType, Idle, Between, Finalizing, Promoting, Rec!Skip
<1> QED BY <1>3, <1>4, <1>5 DEF RecorderInv

\* The row of a settled command says what its child and its logs say.
LEMMA RecordStep == ASSUME RecorderInv, Rec!Record PROVE RecorderInv'
<1> USE VerifyAssumption DEF Rec!Logs, Rec!Gate
<1> DEFINE row == [status |-> "executed", exit |-> Rec!ExitCode]
<1>1. /\ row \in Rec!Rows /\ rows' = Append(rows, row)
      /\ Len(rows') = Len(rows) + 1
      /\ \A g \in 1 .. Len(rows) : rows'[g] = rows[g]
      /\ rows'[Len(rows) + 1] = row
  BY DEF RecorderInv, RecorderType, Rec!Record, Rec!Rows, Rec!Exits, Rec!ExitCode
<1>2. RecorderType'
  <2>1. rows' \in Seq(Rec!Rows) /\ Len(rows') <= Gates
    BY <1>1 DEF RecorderInv, RecorderType, Idle, Rec!Record
  <2>2. pump' \in [Rec!Logs -> Rec!Pumps]
    BY DEF Rec!Record, Rec!Pumps
  <2> QED
    BY <2>1, <2>2 DEF RecorderInv, RecorderType, Rec!Record, Rec!Phases, Rec!Finalizers
<1>3. /\ Rec!Gate \in 1 .. Gates
      /\ \A s \in Rec!Logs : disk[Rec!Gate][s] \in {"partial", "whole"}
  BY DEF RecorderInv, RecorderType, Idle, Promoting, Rec!Record, Rec!Temps
<1>4. Rec!ExitCode = "0" =>
        child[Rec!Gate] = "zero" /\ \A s \in Rec!Logs : disk[Rec!Gate][s] = "whole"
  <2> SUFFICES ASSUME Rec!ExitCode = "0"
               PROVE child[Rec!Gate] = "zero" /\ \A s \in Rec!Logs : disk[Rec!Gate][s] = "whole"
    OBVIOUS
  <2>1. forced = "null" /\ child[Rec!Gate] = "zero"
    BY DEF RecorderInv, RecorderType, Rec!ExitCode
  <2>2. fin = "success"
    BY <2>1 DEF RecorderInv, Finalizing, Promoting, Rec!Record
  <2>3. \A s \in Rec!Logs : disk[Rec!Gate][s] = "whole"
    BY <1>3, <2>2 DEF RecorderInv, Promoting, Rec!Record
  <2> QED BY <2>1, <2>3
<1>5. child[Rec!Gate] = "running" => Rec!ExitCode \in {"124", "125"}
  BY DEF RecorderInv, RecorderType, Finalizing, Promoting, Rec!Record, Rec!ExitCode, Rec!Closed
<1>6. Recorded'
  BY <1>1, <1>2, <1>3, <1>4, <1>5 DEF RecorderInv, RecorderType, Recorded, Rec!Record
<1>7. Idle' /\ Finalizing' /\ Promoting'
  BY <1>1, <1>3 DEF RecorderInv, RecorderType, Idle, Between, Finalizing, Promoting, Rec!Record
<1> QED BY <1>2, <1>6, <1>7 DEF RecorderInv

\* The invariant holds before the first gate.
LEMMA RecorderStart == Init => RecorderInv
<1> SUFFICES ASSUME Init PROVE RecorderInv
  OBVIOUS
<1> USE VerifyAssumption DEF Init, Rec!Init
<1>1. RecorderType
  <2>1. rows \in Seq(Rec!Rows) /\ Len(rows) = 0
    OBVIOUS
  <2>2. child \in [1 .. Gates -> Rec!Children]
    BY DEF Rec!Children
  <2>3. disk \in [1 .. Gates -> [Rec!Logs -> Rec!LogFiles]]
    BY DEF Rec!LogFiles
  <2>4. pump \in [Rec!Logs -> Rec!Pumps]
    BY DEF Rec!Pumps
  <2>5. /\ phase \in Rec!Phases /\ armed \subseteq Rec!Timers /\ forced \in {"null", "124", "125"}
        /\ fin \in Rec!Finalizers /\ killed \in BOOLEAN
    BY DEF Rec!Phases, Rec!Finalizers
  <2> HIDE DEF Init
  <2> QED
    BY <2>1, <2>2, <2>3, <2>4, <2>5 DEF RecorderType
<1>2. Idle /\ Finalizing /\ Promoting /\ Recorded
  BY DEF Idle, Between, Finalizing, Promoting, Recorded, Rec!Gate
<1> QED BY <1>1, <1>2 DEF RecorderInv

\* Every step of the recorder keeps its invariant.
LEMMA RecorderSteps == RecorderInv /\ Rec!Next => RecorderInv'
<1> SUFFICES ASSUME RecorderInv, Rec!Next PROVE RecorderInv'
  OBVIOUS
<1>1. CASE Rec!Recording
  BY <1>1, StartStep, SkipStep, FinishStep, OpeningFailsStep, SpawnStep, OpenLogStep,
     MoveLogStep,
     DrainedStep, DrainFailsStep, MoveFailsStep, CleanStep, RecordStep DEF Rec!Recording
<1>2. CASE Rec!ChildEvent
  BY <1>2, ChildClosesStep, ChildFailsStep DEF Rec!ChildEvent
<1>3. CASE Rec!PumpEvent
  BY <1>3, PumpFinishesStep, OverflowStep, LogWriteFailsStep, OverflowReportedStep,
     FailureReportedStep DEF Rec!PumpEvent
<1>4. CASE Rec!TimerEvent
  BY <1>4, TimeoutFiresStep, KillTimerFiresStep, SettleTimerFiresStep DEF Rec!TimerEvent
<1> QED BY <1>1, <1>2, <1>3, <1>4 DEF Rec!Next

-----------------------------------------------------------------------------
(* The script.                                                             *)

\* Only the recorder touches what the invariant is about.
LEMMA OthersLeaveRecorder == Next => RecorderStep(Rec!Next) \/ UNCHANGED recorder
BY DEF Next, Script, VerifyAuthority, GatesEnd, RunProducer, CollectFingerprint, Throws,
   AssessFirst, KeepFirst, DropFirst, Rebuild, KeepSecond, Freeze, Succeed, CallFails, Catch,
   Publishing, Crash, RivalPublishes, Elsewhere

\* The invariant is about the recorder alone.
LEMMA RecorderStands == RecorderInv /\ UNCHANGED recorder => RecorderInv'
BY DEF recorder, RecorderInv, RecorderType, Idle, Between, Finalizing, Promoting, Recorded,
   Rec!Gate, Rec!Temps, Rec!Ended

\* So every step of the script keeps it.
LEMMA ScriptKeepsRecorder == RecorderInv /\ [Next]_vars => RecorderInv'
<1> SUFFICES ASSUME RecorderInv, [Next]_vars PROVE RecorderInv'
  OBVIOUS
<1>1. CASE RecorderStep(Rec!Next)
  BY <1>1, RecorderSteps DEF RecorderStep
<1>2. CASE UNCHANGED recorder
  BY <1>2, RecorderStands
<1> QED BY <1>1, <1>2, OthersLeaveRecorder DEF vars

\* The recorder's invariant holds of the script.
LEMMA RecorderKept == Spec => []RecorderInv
BY RecorderStart, ScriptKeepsRecorder, PTL DEF Spec

\* Whatever settles a gate, and whatever the rest of the script does
\* meanwhile, its child, its timers and its logs are accounted for.
THEOREM GatesLeaveNothing == Spec => []NothingIsLeftBehind
<1>1. RecorderInv => NothingIsLeftBehind
  <2> SUFFICES ASSUME RecorderInv PROVE Rec!NothingIsLeftBehind
    BY DEF NothingIsLeftBehind
  <2>1. phase \in {"settled", "rejected"} => child[Rec!Gate] # "running" \/ killed
    <3>1. CASE Between
      BY <3>1, VerifyAssumption DEF RecorderInv, RecorderType, Idle, Between, Rec!Gate
    <3>2. CASE fin # "none"
      BY <3>2 DEF RecorderInv, RecorderType, Finalizing, Rec!Finalizers, Rec!Closed
    <3> QED BY <3>1, <3>2 DEF RecorderInv, Idle, Between
  <2>2. /\ phase = "settled" => armed = {}
        /\ phase = "rejected" /\ fin # "forced" => Rec!Temps = {}
    BY DEF RecorderInv, Promoting
  <2>3. \A g \in DOMAIN rows :
          /\ child[g] = "running" => rows[g].exit \in {"124", "125"}
          /\ rows[g].status = "executed" =>
               \A s \in Rec!Logs : disk[g][s] \in {"partial", "whole"}
    BY DEF RecorderInv, Recorded
  <2> QED BY <2>1, <2>2, <2>3 DEF Rec!NothingIsLeftBehind
<1> QED BY RecorderKept, <1>1, PTL

\* A gate recorded with exit code zero stands on a child that ended with zero
\* by itself and on logs that hold all it wrote, whatever raced to settle it.
THEOREM ZeroIsDrained == Spec => []Rec!ZeroMeansDrained
<1>1. RecorderInv => Rec!ZeroMeansDrained
  BY DEF RecorderInv, Recorded, Rec!ZeroMeansDrained
<1> QED BY RecorderKept, <1>1, PTL

-----------------------------------------------------------------------------
(* The conclusion.                                                         *)

After == {"first", "rebuild", "second", "freeze", "freezing", "catch", "end"}

\* A candidate passed only on evidence that is complete and is not gathered
\* any more.
EvidenceInv ==
  /\ producer \in ProducerRuns \cup {NotRun}
  /\ candidate \in [{Self} \cup Rivals -> Pub!Conclusions]
  /\ candidate[Self] = "passed" => at \in After /\ CandidateConclusion = "passed"

Sources == <<authority, fingerprint, rows, producer>>

\* The conclusion is a function of the evidence.
LEMMA ConclusionStands == UNCHANGED Sources => CandidateConclusion' = CandidateConclusion
BY DEF Sources, CandidateConclusion

\* Where evidence is gathered the candidate is not chosen yet.
LEMMA GatheringKeeps ==
  ASSUME EvidenceInv, at \notin After, candidate' = candidate,
         producer' \in ProducerRuns \cup {NotRun}
  PROVE  EvidenceInv'
BY DEF EvidenceInv

\* Later on the evidence stays.
LEMMA StandingKeeps ==
  ASSUME EvidenceInv, UNCHANGED Sources, at' \in After \/ at' = at,
         candidate' \in [{Self} \cup Rivals -> Pub!Conclusions],
         candidate'[Self] \in {candidate[Self], "blocked"}
  PROVE  EvidenceInv'
BY ConclusionStands DEF EvidenceInv, Sources

\* A publisher's call or step changes the candidate of that publisher only.
LEMMA CandidatesApart ==
  ASSUME NEW p \in {Self} \cup Rivals, EvidenceInv,
         \/ Pub!AssessStarts(p, "blocked") \/ Pub!Discard(p) \/ Pub!Freeze(p)
         \/ Pub!Proceeds(p) \/ Pub!Crash(p)
  PROVE  /\ candidate' \in [{Self} \cup Rivals -> Pub!Conclusions]
         /\ candidate'[Self] \in {candidate[Self], "blocked"}
<1>1. CASE Pub!AssessStarts(p, "blocked")
  BY <1>1 DEF EvidenceInv, Pub!AssessStarts, Pub!Conclusions
<1>2. CASE candidate' = candidate
  BY <1>2 DEF EvidenceInv
<1>3. ASSUME Pub!Discard(p) \/ Pub!Freeze(p) \/ Pub!Crash(p) PROVE candidate' = candidate
  BY <1>3 DEF Pub!Discard, Pub!Freeze, Pub!Crash
<1>4. ASSUME Pub!Proceeds(p) PROVE candidate' = candidate
  BY <1>4 DEF Pub!Proceeds, Pub!AssessStaged, Pub!AssessUnverified, Pub!AssessFails,
     Pub!AssertTargets, Pub!MakePackage, Pub!CopyMembers, Pub!CopyArchive, Pub!Copy,
     Pub!OpenCopy, Pub!FillCopy, Pub!CopyFails, Pub!Copying, Pub!Create, Pub!Promoted,
     Pub!Proceed, Pub!ValidatePair, Pub!CopyReceipt, Pub!ValidateOffline, Pub!CleanupStaged,
     Pub!ValidateProducer, Pub!ProducerFails, Pub!StepFails, Pub!Rollback, Pub!RolledBack
<1> QED BY <1>1, <1>2, <1>3, <1>4

\* The events that come after a rejected recording add no row.
LEMMA RejectedAddsNothing == Rec!Next /\ phase = "rejected" => rows' = rows
BY DEF Rec!Next, Rec!Recording, Rec!ChildEvent, Rec!PumpEvent, Rec!TimerEvent, Rec!Start,
   Rec!Skip, Rec!Finish, Rec!OpeningFails, Rec!Spawn, Rec!OpenLog, Rec!MoveLog, Rec!Drained,
   Rec!DrainFails, Rec!MoveFails, Rec!Clean, Rec!Record, Rec!ChildCloses, Rec!ChildFails,
   Rec!PumpFinishes, Rec!Overflow, Rec!LogWriteFails, Rec!OverflowReported, Rec!FailureReported,
   Rec!TimeoutFires, Rec!KillTimerFires, Rec!SettleTimerFires

\* No candidate has passed at the start.
LEMMA EvidenceStart == Init => EvidenceInv
BY VerifyAssumption DEF Init, Pub!Init, EvidenceInv, Pub!Conclusions

\* Every step of the script keeps it.
LEMMA EvidenceSteps == EvidenceInv /\ [Next]_vars => EvidenceInv'
<1> SUFFICES ASSUME EvidenceInv, [Next]_vars PROVE EvidenceInv'
  OBVIOUS
<1> USE DEF GoTo, evidence, publication, recorder
<1>1. CASE UNCHANGED vars
  BY <1>1, StandingKeeps DEF vars, Sources, EvidenceInv
<1>2. ASSUME NEW status \in {"verified", "reportable-blocked", "tooling-failure"},
             VerifyAuthority(status)
      PROVE  EvidenceInv'
  BY <1>2, GatheringKeeps DEF VerifyAuthority, After, EvidenceInv
<1>3. CASE GatesEnd
  BY <1>3, GatheringKeeps DEF GatesEnd, After, EvidenceInv
<1>4. ASSUME NEW r \in ProducerRuns, RunProducer(r) PROVE EvidenceInv'
  BY <1>4, GatheringKeeps DEF RunProducer, After
<1>5. ASSUME NEW f \in {"clean", "off"}, CollectFingerprint(f) PROVE EvidenceInv'
  BY <1>5, GatheringKeeps DEF CollectFingerprint, After, EvidenceInv
<1>6. CASE Throws
  <2>1. CASE at = "rebuild"
    BY <1>6, <2>1, StandingKeeps DEF Throws, After, Sources, EvidenceInv
  <2>2. CASE at # "rebuild"
    BY <1>6, <2>2, GatheringKeeps DEF Throws, After, EvidenceInv
  <2> QED BY <2>1, <2>2
<1>7. CASE AssessFirst
  <2>1. UNCHANGED Sources /\ at' = "first"
    BY <1>7 DEF AssessFirst, Sources
  <2>2. /\ candidate' \in [{Self} \cup Rivals -> Pub!Conclusions]
        /\ candidate'[Self] = CandidateConclusion
    BY <1>7 DEF AssessFirst, EvidenceInv, Pub!AssessStarts, Pub!AssessRefused, Pub!Conclusions,
       CandidateConclusion
  <2> QED BY <2>1, <2>2, ConclusionStands DEF EvidenceInv, Sources, After
<1>8. CASE KeepFirst \/ KeepSecond \/ Succeed \/ CallFails
  BY <1>8, StandingKeeps DEF KeepFirst, KeepSecond, Succeed, CallFails, After, Sources,
     EvidenceInv
<1>9. CASE DropFirst \/ Freeze \/ Catch \/ Rebuild \/ Crash
  <2>1. UNCHANGED Sources /\ (at' \in After \/ at' = at)
    BY <1>9 DEF DropFirst, Freeze, Catch, Rebuild, Crash, After, Sources
  <2>2. \/ candidate' = candidate
        \/ Pub!AssessStarts(Self, "blocked") \/ Pub!Discard(Self) \/ Pub!Freeze(Self)
        \/ Pub!Crash(Self)
    BY <1>9 DEF DropFirst, Freeze, Catch, Rebuild, Crash
  <2> QED BY <2>1, <2>2, CandidatesApart, StandingKeeps DEF EvidenceInv
<1>10. CASE RecorderStep(Rec!Next)
  <2>1. candidate' = candidate /\ at' = at /\ producer' = producer
    BY <1>10 DEF RecorderStep
  <2>2. CASE at = "gates"
    BY <2>1, <2>2, GatheringKeeps DEF After, EvidenceInv
  <2>3. CASE phase = "rejected"
    <3>1. UNCHANGED Sources
      BY <1>10, <2>3, RejectedAddsNothing DEF RecorderStep, Sources
    <3> QED BY <2>1, <3>1, StandingKeeps DEF EvidenceInv
  <2> QED BY <1>10, <2>2, <2>3 DEF RecorderStep
<1>11. CASE Publishing
  BY <1>11, CandidatesApart, StandingKeeps DEF Publishing, Elsewhere, Sources
<1>12. ASSUME NEW p \in Rivals, RivalPublishes(p) PROVE EvidenceInv'
  BY <1>12, CandidatesApart, StandingKeeps DEF RivalPublishes, Elsewhere, Sources
<1> QED BY <1>1, <1>2, <1>3, <1>4, <1>5, <1>6, <1>7, <1>8, <1>9, <1>10, <1>11, <1>12 DEF Next,
   Script

\* The evidence invariant holds of the script.
LEMMA EvidenceKept == Spec => []EvidenceInv
BY EvidenceStart, EvidenceSteps, PTL DEF Spec

\* Sequences, as the provers see them.
LEMMA ThreeOf ==
  ASSUME NEW S, NEW a \in S, NEW b \in S, NEW c \in S
  PROVE  <<a, b, c>> \in Seq(S)
OBVIOUS

LEMMA FourOf ==
  ASSUME NEW S, NEW a \in S, NEW b \in S, NEW c \in S, NEW d \in S
  PROVE  <<a, b, c, d>> \in Seq(S)
OBVIOUS

LEMMA Joined == ASSUME NEW S, NEW a \in Seq(S), NEW b \in Seq(S) PROVE a \o b \in Seq(S)
OBVIOUS

Modes == {"success-001", "recovery-001", "success-002-reuse"}

Artifacts ==
  {Artifact(class, kind) : class \in {"runtime", "reset", "preflight"} \cup Modes,
                           kind \in {"input", "materialized", "readback"}}

\* The artifacts are numbered from one.
LEMMA GraphIsSequence == Graph \in Seq(Artifacts)
<1>1. ASSUME NEW mode \in Modes PROVE ModeArtifacts(mode) \in Seq(Artifacts)
  <2>1. /\ Artifact(mode, "input") \in Artifacts
        /\ Artifact(mode, "materialized") \in Artifacts
        /\ Artifact(mode, "readback") \in Artifacts
    BY DEF Artifacts
  <2> QED BY <2>1, ThreeOf, Zenon DEF ModeArtifacts
<1>2. /\ Artifact("runtime", "input") \in Artifacts
      /\ Artifact("reset", "input") \in Artifacts
      /\ Artifact("preflight", "input") \in Artifacts
      /\ Artifact("preflight", "readback") \in Artifacts
  BY DEF Artifacts
<1>3. <<Artifact("runtime", "input"), Artifact("reset", "input"),
        Artifact("preflight", "input"), Artifact("preflight", "readback")>> \in Seq(Artifacts)
  BY <1>2, FourOf, Zenon
<1>4. /\ ModeArtifacts("success-001") \in Seq(Artifacts)
      /\ ModeArtifacts("recovery-001") \in Seq(Artifacts)
      /\ ModeArtifacts("success-002-reuse") \in Seq(Artifacts)
  BY <1>1 DEF Modes
<1> QED BY <1>3, <1>4, Joined, Zenon DEF Graph

\* The artifacts of a producer that passed all passed.
LEMMA PassedArtifacts ==
  ASSUME producer \in ProducerRuns \cup {NotRun}, ProducerPasses(producer)
  PROVE  \A i \in DOMAIN Graph : ArtifactPassed(producer, i)
<1>1. producer = Stop(End, "passed")
  BY DEF ProducerPasses, ProducerStatus, ProducerRuns, Stop, NotRun
<1>2. DOMAIN Graph = 1 .. Len(Graph)
  BY GraphIsSequence
<1>3. Len(Graph) \in Nat
  BY GraphIsSequence
<1> QED BY <1>1, <1>2, <1>3 DEF ArtifactPassed, Stop, End

\* A receipt of the script that says passed stands on verified evidence of
\* all kinds, however rivals and failures interleave with it.
THEOREM PassedIsVerified == Spec => []PassedMeansVerified
<1>1. RecorderInv /\ EvidenceInv => PassedMeansVerified
  <2> SUFFICES ASSUME RecorderInv, EvidenceInv, CandidateConclusion = "passed"
               PROVE  /\ authority = "verified" /\ fingerprint = "clean"
                      /\ \A g \in 1 .. Gates :
                           child[g] = "zero" /\ \A s \in Rec!Logs : disk[g][s] = "whole"
                      /\ \A i \in DOMAIN Graph : ArtifactPassed(producer, i)
    BY DEF PassedMeansVerified, EvidenceInv
  <2>1. /\ authority = "verified" /\ fingerprint = "clean"
        /\ CommandsPass(rows, Gates) /\ ProducerPasses(producer)
    BY DEF CandidateConclusion
  <2>2. DOMAIN rows = 1 .. Gates /\ \A g \in 1 .. Gates : rows[g].exit = "0"
    BY <2>1, VerifyAssumption DEF CommandsPass, RecorderInv, RecorderType
  <2> QED BY <2>1, <2>2, PassedArtifacts DEF RecorderInv, Recorded, EvidenceInv
<1> QED BY <1>1, EvidenceKept, RecorderKept, PTL

-----------------------------------------------------------------------------
(* The publication root: what its readers and the caller of the script may *)
(* rely on, for any number of rivals, failing steps and crashes.           *)

All == {Self} \cup Rivals

PublicationType ==
  /\ pc \in [All -> Pub!Stops]
  /\ handle \in [All -> {"none", "staged", "consumed"}]
  /\ stage \in [All -> BOOLEAN]
  /\ final \in [Pub!Outputs -> All \cup {Nobody}]
  /\ filled \in SUBSET {o \in Pub!Outputs : final[o] # Nobody}
  /\ promoted \in [All -> SUBSET Pub!Outputs]
  /\ result \in [All -> {"none", "refused", "staged", "failed", "discarded", "frozen"}]

\* What a publisher remembers to have promoted is at its place, in the order of
\* promotion; what it has created and not promoted is cut.
Owned(p) ==
  /\ \A o \in promoted[p] : final[o] = p
  /\ final["package"] = p => "package" \in promoted[p]
  /\ final["archive"] = p => ("archive" \in promoted[p] <=> "archive" \in filled)
  /\ final["receipt"] = p => ("receipt" \in promoted[p] <=> "receipt" \in filled)
  /\ "archive" \in promoted[p] => {"package", "archive"} \subseteq promoted[p] \cap filled
  /\ "receipt" \in promoted[p] => "archive" \in promoted[p]

\* How far a publisher is tells what it has promoted, and what it is copying.
Reached(p) ==
  /\ pc[p] \in {"assessing", "targets", "package"} => promoted[p] = {}
  /\ pc[p] = "ready" => promoted[p] \in {{}, Pub!Outputs}
  /\ pc[p] = "ready" /\ handle[p] = "staged" => promoted[p] = {}
  /\ pc[p] = "members" => promoted[p] = {"package"}
  /\ pc[p] \in {"archive", "archive-copy"} => promoted[p] = {"package"} /\ "package" \in filled
  /\ pc[p] \in {"pair", "receipt", "receipt-copy"} => promoted[p] = {"package", "archive"}
  /\ pc[p] \in {"offline", "cleanup", "producer", "done"} => promoted[p] = Pub!Outputs
  /\ pc[p] \notin {"archive-copy", "dead"} /\ final["archive"] = p => "archive" \in promoted[p]
  /\ pc[p] \notin {"receipt-copy", "dead"} /\ final["receipt"] = p => "receipt" \in promoted[p]
  /\ pc[p] = "archive-copy" => final["archive"] = p
  /\ pc[p] = "receipt-copy" => final["receipt"] = p

\* A staging directory belongs to a handle that can be used or to a call
\* under way.
Staging(p) ==
  /\ handle[p] = "staged" => pc[p] \in {"ready", "dead"}
  /\ pc[p] = "ready" /\ stage[p] => handle[p] = "staged"
  /\ pc[p] \in {"producer", "done"} => ~ stage[p]
  /\ result[p] = "frozen" => pc[p] = "done"

\* The inductive invariant of the publication root.
PublicationInv == PublicationType /\ \A p \in All : Owned(p) /\ Reached(p) /\ Staging(p)

-----------------------------------------------------------------------------
\* Nobody is no publisher, and the script is none of its rivals.
LEMMA Distinct == Nobody \notin All /\ Self \notin Rivals
BY VerifyAssumption DEF All

\* A publisher that moves leaves what the others own alone.
LEMMA OthersKeep ==
  ASSUME PublicationInv, PublicationType', NEW p \in All, Owned(p)', Reached(p)', Staging(p)',
         \A q \in All : q # p => /\ pc'[q] = pc[q] /\ handle'[q] = handle[q]
                                 /\ stage'[q] = stage[q] /\ promoted'[q] = promoted[q]
                                 /\ result'[q] = result[q],
         \A o \in Pub!Outputs :
           final'[o] # final[o] => final[o] \in {p, Nobody} /\ final'[o] \in {p, Nobody},
         \A o \in Pub!Outputs :
           final[o] \notin {p, Nobody} => (o \in filled' <=> o \in filled)
  PROVE  PublicationInv'
<1>1. ASSUME NEW q \in All, q # p PROVE Owned(q)' /\ Reached(q)' /\ Staging(q)'
  <2>1. Owned(q) /\ Reached(q) /\ Staging(q)
    BY DEF PublicationInv
  <2>2. \A o \in Pub!Outputs : final'[o] = q <=> final[o] = q
    BY <1>1, Distinct DEF PublicationInv, PublicationType
  <2>3. \A o \in Pub!Outputs : final[o] = q => (o \in filled' <=> o \in filled)
    BY <1>1, Distinct
  <2>4. Owned(q)'
    BY <1>1, <2>1, <2>2, <2>3 DEF Owned, Pub!Outputs, PublicationInv, PublicationType
  <2> QED BY <1>1, <2>1, <2>2, <2>3, <2>4 DEF Owned, Reached, Staging, Pub!Outputs
<1> QED BY <1>1 DEF PublicationInv

\* A refused candidate writes nothing.
LEMMA AssessRefusedStep ==
  ASSUME PublicationInv, NEW p \in All, Pub!AssessRefused(p)
  PROVE  PublicationInv'
<1>1. PublicationType'
  BY DEF PublicationInv, PublicationType, Pub!AssessRefused, Pub!Outputs, Pub!Stops
<1>2. Owned(p)' /\ Reached(p)' /\ Staging(p)'
  BY Distinct DEF PublicationInv, PublicationType, Owned, Reached, Staging, Pub!AssessRefused,
     Pub!Outputs
<1> QED BY <1>1, <1>2, OthersKeep DEF PublicationInv, PublicationType, Pub!AssessRefused,
   Pub!Outputs

\* An assessment starts only where nothing is published.
LEMMA AssessStartsStep ==
  ASSUME PublicationInv, NEW p \in All, NEW c \in Pub!Conclusions, Pub!AssessStarts(p, c)
  PROVE  PublicationInv'
<1>1. PublicationType'
  BY DEF PublicationInv, PublicationType, Pub!AssessStarts, Pub!Outputs, Pub!Stops,
     Pub!TargetsAbsent, Pub!Settle, Pub!GoTo
<1>2. Owned(p)' /\ Reached(p)' /\ Staging(p)'
  BY Distinct DEF PublicationInv, PublicationType, Owned, Reached, Staging, Pub!AssessStarts,
     Pub!Outputs, Pub!TargetsAbsent, Pub!Settle, Pub!GoTo
<1> QED BY <1>1, <1>2, OthersKeep DEF PublicationInv, PublicationType, Pub!AssessStarts,
   Pub!Outputs, Pub!TargetsAbsent, Pub!Settle, Pub!GoTo

\* A handle stands for the staging directory it came with.
LEMMA AssessStagedStep ==
  ASSUME PublicationInv, NEW p \in All, Pub!AssessStaged(p)
  PROVE  PublicationInv'
<1>1. PublicationType'
  BY DEF PublicationInv, PublicationType, Pub!AssessStaged, Pub!Outputs, Pub!Stops,
     Pub!Assessed, Pub!Settle, Pub!GoTo
<1>2. Owned(p)' /\ Reached(p)' /\ Staging(p)'
  BY Distinct DEF PublicationInv, PublicationType, Owned, Reached, Staging, Pub!AssessStaged,
     Pub!Outputs, Pub!Assessed, Pub!Settle, Pub!GoTo
<1> QED BY <1>1, <1>2, OthersKeep DEF PublicationInv, PublicationType, Pub!AssessStaged,
   Pub!Outputs, Pub!Assessed, Pub!Settle, Pub!GoTo

\* A failed verification removes the staging directory.
LEMMA AssessUnverifiedStep ==
  ASSUME PublicationInv, NEW p \in All, NEW n \in 1 .. 3, Pub!AssessUnverified(p, n)
  PROVE  PublicationInv'
<1>1. PublicationType'
  BY DEF PublicationInv, PublicationType, Pub!AssessUnverified, Pub!Outputs, Pub!Stops,
     Pub!Assessed, Pub!Settle, Pub!GoTo
<1>2. Owned(p)' /\ Reached(p)' /\ Staging(p)'
  BY Distinct DEF PublicationInv, PublicationType, Owned, Reached, Staging,
     Pub!AssessUnverified, Pub!Outputs, Pub!Assessed, Pub!Settle, Pub!GoTo
<1> QED BY <1>1, <1>2, OthersKeep DEF PublicationInv, PublicationType, Pub!AssessUnverified,
   Pub!Outputs, Pub!Assessed, Pub!Settle, Pub!GoTo

\* So does a failed assessment.
LEMMA AssessFailsStep ==
  ASSUME PublicationInv, NEW p \in All, Pub!AssessFails(p)
  PROVE  PublicationInv'
<1>1. PublicationType'
  BY DEF PublicationInv, PublicationType, Pub!AssessFails, Pub!Outputs, Pub!Stops, Pub!Assessed,
     Pub!Settle, Pub!GoTo
<1>2. Owned(p)' /\ Reached(p)' /\ Staging(p)'
  BY Distinct DEF PublicationInv, PublicationType, Owned, Reached, Staging, Pub!AssessFails,
     Pub!Outputs, Pub!Assessed, Pub!Settle, Pub!GoTo
<1> QED BY <1>1, <1>2, OthersKeep DEF PublicationInv, PublicationType, Pub!AssessFails,
   Pub!Outputs, Pub!Assessed, Pub!Settle, Pub!GoTo

\* A discarded handle has no directory any more.
LEMMA DiscardStep ==
  ASSUME PublicationInv, NEW p \in All, Pub!Discard(p)
  PROVE  PublicationInv'
<1>1. PublicationType'
  BY DEF PublicationInv, PublicationType, Pub!Discard, Pub!Outputs, Pub!Stops, Pub!Assessed,
     Pub!Settle, Pub!GoTo
<1>2. Owned(p)' /\ Reached(p)' /\ Staging(p)'
  BY Distinct DEF PublicationInv, PublicationType, Owned, Reached, Staging, Pub!Discard,
     Pub!Outputs, Pub!Assessed, Pub!Settle, Pub!GoTo
<1> QED BY <1>1, <1>2, OthersKeep DEF PublicationInv, PublicationType, Pub!Discard, Pub!Outputs,
   Pub!Assessed, Pub!Settle, Pub!GoTo

\* A freeze begins with nothing promoted.
LEMMA FreezeStep ==
  ASSUME PublicationInv, NEW p \in All, Pub!Freeze(p)
  PROVE  PublicationInv'
<1>1. PublicationType'
  BY DEF PublicationInv, PublicationType, Pub!Freeze, Pub!Outputs, Pub!Stops, Pub!GoTo
<1>2. Owned(p)' /\ Reached(p)' /\ Staging(p)'
  BY Distinct DEF PublicationInv, PublicationType, Owned, Reached, Staging, Pub!Freeze,
     Pub!Outputs, Pub!GoTo
<1> QED BY <1>1, <1>2, OthersKeep DEF PublicationInv, PublicationType, Pub!Freeze, Pub!Outputs,
   Pub!GoTo

\* Looking at the targets promotes nothing.
LEMMA AssertTargetsStep ==
  ASSUME PublicationInv, NEW p \in All, Pub!AssertTargets(p)
  PROVE  PublicationInv'
<1>1. PublicationType'
  BY DEF PublicationInv, PublicationType, Pub!AssertTargets, Pub!Outputs, Pub!Stops,
     Pub!Proceed, Pub!GoTo, Pub!Disk
<1>2. Owned(p)' /\ Reached(p)' /\ Staging(p)'
  BY Distinct DEF PublicationInv, PublicationType, Owned, Reached, Staging, Pub!AssertTargets,
     Pub!Outputs, Pub!Proceed, Pub!GoTo, Pub!Disk
<1> QED BY <1>1, <1>2, OthersKeep DEF PublicationInv, PublicationType, Pub!AssertTargets,
   Pub!Outputs, Pub!Proceed, Pub!GoTo, Pub!Disk

\* A package is promoted where there was none.
LEMMA MakePackageStep ==
  ASSUME PublicationInv, NEW p \in All, Pub!MakePackage(p)
  PROVE  PublicationInv'
<1>1. PublicationType'
  BY DEF PublicationInv, PublicationType, Pub!MakePackage, Pub!Outputs, Pub!Stops, Pub!Create,
     Pub!Promoted, Pub!Proceed, Pub!GoTo
<1>2. Owned(p)' /\ Reached(p)' /\ Staging(p)'
  BY Distinct DEF PublicationInv, PublicationType, Owned, Reached, Staging, Pub!MakePackage,
     Pub!Outputs, Pub!Create, Pub!Promoted, Pub!Proceed, Pub!GoTo
<1> QED BY <1>1, <1>2, OthersKeep DEF PublicationInv, PublicationType, Pub!MakePackage,
   Pub!Outputs, Pub!Create, Pub!Promoted, Pub!Proceed, Pub!GoTo

\* The members are copied to the publisher's own package.
LEMMA CopyMembersStep ==
  ASSUME PublicationInv, NEW p \in All, Pub!CopyMembers(p)
  PROVE  PublicationInv'
<1>1. /\ pc[p] = "members" /\ promoted[p] = {"package"} /\ final["package"] = p
      /\ filled' = filled \cup {"package"} /\ pc' = [pc EXCEPT ![p] = "archive"]
      /\ UNCHANGED <<handle, stage, final, promoted, result>>
  BY DEF PublicationInv, Owned, Reached, Pub!CopyMembers, Pub!Proceed, Pub!GoTo
<1>2. PublicationType'
  BY <1>1, Distinct DEF PublicationInv, PublicationType, Pub!Outputs, Pub!Stops
<1>3. "archive" \notin promoted[p] /\ "receipt" \notin promoted[p]
  BY <1>1
<1>4. Owned(p)'
  BY <1>1, <1>3 DEF PublicationInv, PublicationType, Owned, Pub!Outputs
<1>5. Reached(p)'
  BY <1>1, <1>3 DEF PublicationInv, PublicationType, Reached
<1>6. Staging(p)'
  BY <1>1 DEF PublicationInv, PublicationType, Staging
<1> QED BY <1>1, <1>2, <1>4, <1>5, <1>6, OthersKeep DEF PublicationInv, PublicationType

\* A copy that begins creates the file, and nothing that was promoted.
LEMMA OpenCopyStep ==
  ASSUME PublicationInv, NEW p \in All, NEW o \in {"archive", "receipt"}, Pub!OpenCopy(p, o)
  PROVE  PublicationInv'
<1>1. CASE final[o] = Nobody
  <2>1. /\ pc[p] = o /\ pc' = [pc EXCEPT ![p] = Pub!Copying(o)]
        /\ final' = [final EXCEPT ![o] = p]
        /\ UNCHANGED <<handle, stage, filled, promoted, result>>
    BY <1>1 DEF Pub!OpenCopy, Pub!Create, Pub!Proceed, Pub!GoTo
  <2>2. PublicationType'
    BY <2>1, Distinct DEF PublicationInv, PublicationType, Pub!Outputs, Pub!Stops, Pub!Copying
  <2>3. o \notin filled
    BY <1>1 DEF PublicationInv, PublicationType
  <2>4. Owned(p)'
    BY <1>1, <2>1, <2>3, Distinct DEF PublicationInv, PublicationType, Owned, Pub!Outputs
  <2>5. Reached(p)' /\ Staging(p)'
    BY <1>1, <2>1, <2>3, Distinct
       DEF PublicationInv, PublicationType, Owned, Reached, Staging, Pub!Outputs, Pub!Copying
  <2> QED BY <1>1, <2>1, <2>2, <2>4, <2>5, OthersKeep
          DEF PublicationInv, PublicationType, Pub!Outputs
<1>2. CASE final[o] # Nobody
  <2>1. /\ pc[p] = o /\ pc' = [pc EXCEPT ![p] = "rollback"]
        /\ UNCHANGED <<handle, stage, final, filled, promoted, result>>
    BY <1>2 DEF Pub!OpenCopy, Pub!Create, Pub!Proceed, Pub!GoTo
  <2>2. PublicationType' /\ Owned(p)' /\ Reached(p)' /\ Staging(p)'
    BY <2>1 DEF PublicationInv, PublicationType, Owned, Reached, Staging, Pub!Outputs, Pub!Stops
  <2> QED BY <2>1, <2>2, OthersKeep DEF PublicationInv, PublicationType
<1> QED BY <1>1, <1>2

\* A copy that ends has promoted what it created.
LEMMA FillCopyStep ==
  ASSUME PublicationInv, NEW p \in All,
         Pub!FillCopy(p, "archive", "pair") \/ Pub!FillCopy(p, "receipt", "offline")
  PROVE  PublicationInv'
<1>1. PICK o \in {"archive", "receipt"} :
        /\ pc[p] = Pub!Copying(o)
        /\ pc' = [pc EXCEPT ![p] = IF o = "archive" THEN "pair" ELSE "offline"]
        /\ filled' = filled \cup {o} /\ promoted' = [promoted EXCEPT ![p] = @ \cup {o}]
        /\ UNCHANGED <<handle, stage, final, result>>
  BY DEF Pub!FillCopy, Pub!Proceed, Pub!GoTo, Pub!Promoted
<1>2. /\ final[o] = p
      /\ promoted[p] = IF o = "archive" THEN {"package"} ELSE {"package", "archive"}
      /\ o = "archive" => "package" \in filled
  BY <1>1 DEF PublicationInv, Reached, Pub!Copying
<1>3. PublicationType'
  BY <1>1, <1>2, Distinct DEF PublicationInv, PublicationType, Pub!Outputs, Pub!Stops
<1>4. Owned(p)' /\ Reached(p)' /\ Staging(p)'
  BY <1>1, <1>2 DEF PublicationInv, PublicationType, Owned, Reached, Staging, Pub!Outputs,
     Pub!Copying
<1> QED BY <1>1, <1>2, <1>3, <1>4, OthersKeep DEF PublicationInv, PublicationType

\* A copy that fails takes back what it has created.
LEMMA CopyFailsStep ==
  ASSUME PublicationInv, NEW p \in All, NEW o \in {"archive", "receipt"}, Pub!CopyFails(p, o)
  PROVE  PublicationInv'
<1>1. /\ pc[p] = Pub!Copying(o) /\ pc' = [pc EXCEPT ![p] = "rollback"]
      /\ final' = [final EXCEPT ![o] = Nobody]
      /\ UNCHANGED <<handle, stage, filled, promoted, result>>
  BY DEF Pub!CopyFails, Pub!GoTo
<1>2. final[o] = p /\ o \notin promoted[p] /\ o \notin filled
  BY <1>1 DEF PublicationInv, Owned, Reached, Pub!Copying
<1>3. PublicationType'
  BY <1>1, <1>2 DEF PublicationInv, PublicationType, Pub!Outputs, Pub!Stops
<1>4. Owned(p)' /\ Reached(p)' /\ Staging(p)'
  BY <1>1, <1>2, Distinct DEF PublicationInv, PublicationType, Owned, Reached, Staging,
     Pub!Outputs, Pub!Copying
<1> QED BY <1>1, <1>2, <1>3, <1>4, OthersKeep DEF PublicationInv, PublicationType, Pub!Outputs

\* The pair is the publisher's own.
LEMMA ValidatePairStep ==
  ASSUME PublicationInv, NEW p \in All, Pub!ValidatePair(p)
  PROVE  PublicationInv'
<1>1. PublicationType'
  BY DEF PublicationInv, PublicationType, Pub!ValidatePair, Pub!Outputs, Pub!Stops, Pub!Proceed,
     Pub!GoTo, Pub!Disk
<1>2. Owned(p)' /\ Reached(p)' /\ Staging(p)'
  BY Distinct DEF PublicationInv, PublicationType, Owned, Reached, Staging, Pub!ValidatePair,
     Pub!Outputs, Pub!Proceed, Pub!GoTo, Pub!Disk
<1> QED BY <1>1, <1>2, OthersKeep DEF PublicationInv, PublicationType, Pub!ValidatePair,
   Pub!Outputs, Pub!Proceed, Pub!GoTo, Pub!Disk

\* Archive and receipt are copied alike.
LEMMA CopyStep ==
  ASSUME PublicationInv, NEW p \in All, Pub!CopyArchive(p) \/ Pub!CopyReceipt(p)
  PROVE  PublicationInv'
BY OpenCopyStep, FillCopyStep, CopyFailsStep DEF Pub!CopyArchive, Pub!CopyReceipt, Pub!Copy

\* All three are the publisher's own.
LEMMA ValidateOfflineStep ==
  ASSUME PublicationInv, NEW p \in All, Pub!ValidateOffline(p)
  PROVE  PublicationInv'
<1>1. PublicationType'
  BY DEF PublicationInv, PublicationType, Pub!ValidateOffline, Pub!Outputs, Pub!Stops,
     Pub!Proceed, Pub!GoTo, Pub!Disk
<1>2. Owned(p)' /\ Reached(p)' /\ Staging(p)'
  BY Distinct DEF PublicationInv, PublicationType, Owned, Reached, Staging, Pub!ValidateOffline,
     Pub!Outputs, Pub!Proceed, Pub!GoTo, Pub!Disk
<1> QED BY <1>1, <1>2, OthersKeep DEF PublicationInv, PublicationType, Pub!ValidateOffline,
   Pub!Outputs, Pub!Proceed, Pub!GoTo, Pub!Disk

\* The staging directory goes when all is promoted.
LEMMA CleanupStagedStep ==
  ASSUME PublicationInv, NEW p \in All, Pub!CleanupStaged(p)
  PROVE  PublicationInv'
<1>1. PublicationType'
  BY DEF PublicationInv, PublicationType, Pub!CleanupStaged, Pub!Outputs, Pub!Stops,
     Pub!Proceed, Pub!GoTo
<1>2. Owned(p)' /\ Reached(p)' /\ Staging(p)'
  BY Distinct DEF PublicationInv, PublicationType, Owned, Reached, Staging, Pub!CleanupStaged,
     Pub!Outputs, Pub!Proceed, Pub!GoTo
<1> QED BY <1>1, <1>2, OthersKeep DEF PublicationInv, PublicationType, Pub!CleanupStaged,
   Pub!Outputs, Pub!Proceed, Pub!GoTo

\* A freeze settles with everything promoted.
LEMMA ValidateProducerStep ==
  ASSUME PublicationInv, NEW p \in All, Pub!ValidateProducer(p)
  PROVE  PublicationInv'
<1>1. PublicationType'
  BY DEF PublicationInv, PublicationType, Pub!ValidateProducer, Pub!Outputs, Pub!Stops,
     Pub!Settle, Pub!GoTo
<1>2. Owned(p)' /\ Reached(p)' /\ Staging(p)'
  BY Distinct DEF PublicationInv, PublicationType, Owned, Reached, Staging,
     Pub!ValidateProducer, Pub!Outputs, Pub!Settle, Pub!GoTo
<1> QED BY <1>1, <1>2, OthersKeep DEF PublicationInv, PublicationType, Pub!ValidateProducer,
   Pub!Outputs, Pub!Settle, Pub!GoTo

\* Also one whose last validation rejects.
LEMMA ProducerFailsStep ==
  ASSUME PublicationInv, NEW p \in All, Pub!ProducerFails(p)
  PROVE  PublicationInv'
<1>1. PublicationType'
  BY DEF PublicationInv, PublicationType, Pub!ProducerFails, Pub!Outputs, Pub!Stops, Pub!Settle,
     Pub!GoTo
<1>2. Owned(p)' /\ Reached(p)' /\ Staging(p)'
  BY Distinct DEF PublicationInv, PublicationType, Owned, Reached, Staging, Pub!ProducerFails,
     Pub!Outputs, Pub!Settle, Pub!GoTo
<1> QED BY <1>1, <1>2, OthersKeep DEF PublicationInv, PublicationType, Pub!ProducerFails,
   Pub!Outputs, Pub!Settle, Pub!GoTo

\* A failed step keeps what it has promoted for the rollback.
LEMMA StepFailsStep ==
  ASSUME PublicationInv, NEW p \in All, Pub!StepFails(p)
  PROVE  PublicationInv'
<1>1. PublicationType'
  BY DEF PublicationInv, PublicationType, Pub!StepFails, Pub!Outputs, Pub!Stops, Pub!GoTo,
     Pub!Failing
<1>2. Owned(p)' /\ Reached(p)' /\ Staging(p)'
  BY Distinct DEF PublicationInv, PublicationType, Owned, Reached, Staging, Pub!StepFails,
     Pub!Outputs, Pub!GoTo, Pub!Failing
<1> QED BY <1>1, <1>2, OthersKeep DEF PublicationInv, PublicationType, Pub!StepFails,
   Pub!Outputs, Pub!GoTo, Pub!Failing

\* The rollback takes back the last output, which is its own.
LEMMA RollbackStep ==
  ASSUME PublicationInv, NEW p \in All, Pub!Rollback(p)
  PROVE  PublicationInv'
<1>1. PICK o \in promoted[p] :
        /\ final' = [final EXCEPT ![o] = Nobody]
        /\ promoted' = [promoted EXCEPT ![p] = @ \ {o}]
        /\ filled' = filled \ {o}
        /\ o = "archive" => "receipt" \notin promoted[p]
        /\ o = "package" => "archive" \notin promoted[p] /\ "receipt" \notin promoted[p]
  BY DEF PublicationInv, PublicationType, Pub!Rollback, Pub!RollbackNext, Pub!Outputs
<1>2. /\ pc[p] = "rollback" /\ o \in Pub!Outputs /\ final[o] = p
      /\ UNCHANGED <<pc, handle, stage, result>>
  BY <1>1 DEF PublicationInv, PublicationType, Owned, Pub!Rollback
<1>3. PublicationType'
  BY <1>1, <1>2 DEF PublicationInv, PublicationType
<1>4. Owned(p)' /\ Reached(p)' /\ Staging(p)'
  BY <1>1, <1>2, Distinct DEF PublicationInv, PublicationType, Owned, Reached, Staging,
     Pub!Outputs
<1>5. \A q \in Pub!Outputs :
        final'[q] # final[q] => final[q] \in {p, Nobody} /\ final'[q] \in {p, Nobody}
  BY <1>1, <1>2 DEF PublicationInv, PublicationType
<1>6. \A q \in Pub!Outputs : final[q] \notin {p, Nobody} => (q \in filled' <=> q \in filled)
  BY <1>1, <1>2
<1> QED BY <1>1, <1>2, <1>3, <1>4, <1>5, <1>6, OthersKeep DEF PublicationInv, PublicationType

\* It ends with nothing promoted and no staging directory.
LEMMA RolledBackStep ==
  ASSUME PublicationInv, NEW p \in All, Pub!RolledBack(p)
  PROVE  PublicationInv'
<1>1. PublicationType'
  BY DEF PublicationInv, PublicationType, Pub!RolledBack, Pub!Outputs, Pub!Stops, Pub!Settle,
     Pub!GoTo
<1>2. Owned(p)' /\ Reached(p)' /\ Staging(p)'
  BY Distinct DEF PublicationInv, PublicationType, Owned, Reached, Staging, Pub!RolledBack,
     Pub!Outputs, Pub!Settle, Pub!GoTo
<1> QED BY <1>1, <1>2, OthersKeep DEF PublicationInv, PublicationType, Pub!RolledBack,
   Pub!Outputs, Pub!Settle, Pub!GoTo

\* A crash leaves what was promoted, in the order of promotion.
LEMMA CrashStep ==
  ASSUME PublicationInv, NEW p \in All, Pub!Crash(p)
  PROVE  PublicationInv'
<1>1. PublicationType'
  BY DEF PublicationInv, PublicationType, Pub!Crash, Pub!Outputs, Pub!Stops, Pub!GoTo
<1>2. Owned(p)' /\ Reached(p)' /\ Staging(p)'
  BY Distinct DEF PublicationInv, PublicationType, Owned, Reached, Staging, Pub!Crash,
     Pub!Outputs, Pub!GoTo
<1> QED BY <1>1, <1>2, OthersKeep DEF PublicationInv, PublicationType, Pub!Crash, Pub!Outputs,
   Pub!GoTo

\* Every call and step of a publisher keeps the invariant.
LEMMA PublisherSteps ==
  ASSUME PublicationInv, NEW p \in All, Pub!Calls(p) \/ Pub!Proceeds(p) \/ Pub!Crash(p)
  PROVE  PublicationInv'
<1>1. CASE Pub!Calls(p)
  BY <1>1, AssessRefusedStep, AssessStartsStep, DiscardStep, FreezeStep DEF Pub!Calls
<1>2. CASE Pub!Proceeds(p)
  BY <1>2, AssessStagedStep, AssessUnverifiedStep, AssessFailsStep, AssertTargetsStep,
     MakePackageStep, CopyMembersStep, ValidatePairStep, CopyStep,
     ValidateOfflineStep, CleanupStagedStep, ValidateProducerStep, ProducerFailsStep,
     StepFailsStep, RollbackStep, RolledBackStep DEF Pub!Proceeds
<1> QED BY <1>1, <1>2, CrashStep

\* Each step of the script is a step of one publisher or publishes nothing.
LEMMA ScriptPublishes ==
  Next => \/ \E p \in All : Pub!Calls(p) \/ Pub!Proceeds(p) \/ Pub!Crash(p)
          \/ UNCHANGED publication
<1> SUFFICES ASSUME Next
             PROVE  \/ \E p \in All : Pub!Calls(p) \/ Pub!Proceeds(p) \/ Pub!Crash(p)
                    \/ UNCHANGED publication
  OBVIOUS
<1>1. Self \in All /\ "blocked" \in Pub!Conclusions /\ CandidateConclusion \in Pub!Conclusions
  BY DEF All, Pub!Conclusions, CandidateConclusion
<1>2. CASE Script
  BY <1>1, <1>2 DEF Script, VerifyAuthority, GatesEnd, RunProducer, CollectFingerprint, Throws,
     AssessFirst, KeepFirst, DropFirst, Rebuild, KeepSecond, Freeze, Succeed, CallFails, Catch,
     Pub!Calls, publication
<1>3. CASE RecorderStep(Rec!Next)
  BY <1>3 DEF RecorderStep
<1>4. CASE Publishing \/ Crash
  BY <1>1, <1>4 DEF Publishing, Crash
<1>5. ASSUME NEW p \in Rivals, RivalPublishes(p)
      PROVE  Pub!Calls(p) \/ Pub!Proceeds(p) \/ Pub!Crash(p)
  BY <1>1, <1>5 DEF RivalPublishes, Pub!Calls
<1> QED BY <1>2, <1>3, <1>4, <1>5 DEF Next, All

\* Nothing is published at the start.
LEMMA PublicationStart == Init => PublicationInv
<1> SUFFICES ASSUME Init PROVE PublicationInv
  OBVIOUS
<1> USE DEF Init, Pub!Init
<1>1. PublicationType
  BY DEF PublicationType, Pub!Outputs, Pub!Stops, All
<1>2. ASSUME NEW p \in All PROVE Owned(p) /\ Reached(p) /\ Staging(p)
  BY Distinct DEF Owned, Reached, Staging, Pub!Outputs, All
<1> QED BY <1>1, <1>2 DEF PublicationInv

\* The invariant of the publication root holds of the script.
LEMMA PublicationKept == Spec => []PublicationInv
<1>1. PublicationInv /\ [Next]_vars => PublicationInv'
  <2>1. PublicationInv /\ UNCHANGED publication => PublicationInv'
    BY DEF publication, PublicationInv, PublicationType, Owned, Reached, Staging
  <2> QED BY <2>1, PublisherSteps, ScriptPublishes DEF vars
<1> QED BY <1>1, PublicationStart, PTL DEF Spec

-----------------------------------------------------------------------------
(* Readers.                                                                *)

Reported == {p \in All : pc[p] = "done"}

\* Whose receipt is whole
Whole == IF "receipt" \in filled THEN final["receipt"] ELSE Nobody

\* A whole receipt has its package and its archive.
LEMMA NeverTorn ==
  PublicationInv => Pub!Published = Whole /\ \A p \in All : Whole = p => Pub!TripleMatches
<1> SUFFICES ASSUME PublicationInv
             PROVE  Pub!Published = Whole /\ \A p \in All : Whole = p => Pub!TripleMatches
  OBVIOUS
<1>1. ASSUME NEW p \in All, Whole = p
      PROVE  /\ final["receipt"] = p /\ final["package"] = p /\ final["archive"] = p
             /\ Pub!Outputs \subseteq filled
  BY <1>1, Distinct DEF PublicationInv, Owned, Pub!Outputs, Whole
<1>2. \A p \in All : Whole = p => Pub!TripleMatches
  BY <1>1 DEF Pub!TripleMatches, Pub!PairMatches, Pub!Outputs
<1>3. "receipt" \in filled => final["receipt"] \in All
  BY DEF PublicationInv, PublicationType, Pub!Outputs
<1> QED BY <1>2, <1>3 DEF Pub!Published, Whole

\* So it is after a step.
LEMMA NeverTornNext == PublicationInv' => (Pub!Published = Whole)'
<1>1. PublicationInv => Pub!Published = Whole
  BY NeverTorn
<1> QED BY <1>1, PTL

\* A publisher publishes with the end of the copy of its receipt, withdraws with the
\* receipt, and reports what is published.
LEMMA PublisherIsAtomic ==
  ASSUME PublicationInv, NEW p \in All,
         Pub!Calls(p) \/ Pub!Proceeds(p) \/ Pub!Crash(p)
  PROVE  \/ UNCHANGED <<Whole, Reported>>
         \/ Whole = Nobody /\ Whole' = p /\ UNCHANGED Reported
         \/ Whole = p /\ p \notin Reported /\ Whole' = Nobody /\ UNCHANGED Reported
         \/ Whole = p /\ Reported' = Reported \cup {p} /\ UNCHANGED Whole
<1> USE DEF Reported, Whole, PublicationInv, PublicationType
<1>1. CASE Pub!Calls(p)
  <2>1. /\ UNCHANGED <<final, filled>>
        /\ pc'[p] = "done" <=> pc[p] = "done"
        /\ \A q \in All \ {p} : pc'[q] = pc[q]
    BY <1>1 DEF Pub!Calls, Pub!AssessRefused, Pub!AssessStarts, Pub!Discard, Pub!Freeze,
       Pub!Settle, Pub!GoTo
  <2> QED BY <2>1
<1>2. CASE \/ Pub!Crash(p) \/ Pub!AssessStaged(p) \/ Pub!AssessFails(p)
           \/ \E n \in 1 .. 3 : Pub!AssessUnverified(p, n)
           \/ Pub!ProducerFails(p) \/ Pub!StepFails(p) \/ Pub!RolledBack(p)
  <2>1. /\ UNCHANGED <<final, filled>>
        /\ pc'[p] = "done" <=> pc[p] = "done"
        /\ \A q \in All \ {p} : pc'[q] = pc[q]
    BY <1>2 DEF Pub!Crash, Pub!AssessStaged, Pub!AssessUnverified, Pub!AssessFails,
       Pub!ProducerFails, Pub!StepFails, Pub!RolledBack, Pub!Settle, Pub!GoTo, Pub!Failing
  <2> QED BY <2>1
<1>3. CASE \/ Pub!AssertTargets(p) \/ Pub!ValidatePair(p) \/ Pub!ValidateOffline(p)
           \/ Pub!CleanupStaged(p)
  <2>1. /\ UNCHANGED <<final, filled>>
        /\ pc'[p] = "done" <=> pc[p] = "done"
        /\ \A q \in All \ {p} : pc'[q] = pc[q]
    BY <1>3 DEF Pub!AssertTargets, Pub!ValidatePair, Pub!ValidateOffline,
       Pub!CleanupStaged, Pub!Proceed, Pub!GoTo, Pub!Disk
  <2> QED BY <2>1
<1>4. CASE Pub!CopyMembers(p) \/ Pub!MakePackage(p)
  <2>1. /\ UNCHANGED final["receipt"] /\ ("receipt" \in filled' <=> "receipt" \in filled)
        /\ pc'[p] = "done" <=> pc[p] = "done"
        /\ \A q \in All \ {p} : pc'[q] = pc[q]
    BY <1>4 DEF Pub!MakePackage, Pub!CopyMembers, Pub!Create, Pub!Proceed, Pub!GoTo, Pub!Outputs
  <2> QED BY <2>1
<1>5. CASE Pub!CopyArchive(p) \/ Pub!CopyReceipt(p)
  <2>1. PICK o \in {"archive", "receipt"}, next \in {"pair", "offline"} : Pub!Copy(p, o, next)
    BY <1>5 DEF Pub!CopyArchive, Pub!CopyReceipt
  <2>2. /\ pc[p] # "done" /\ pc'[p] # "done" /\ \A q \in All \ {p} : pc'[q] = pc[q]
        /\ Reported' = Reported
    BY <2>1 DEF Pub!Copy, Pub!OpenCopy, Pub!FillCopy, Pub!CopyFails, Pub!Create, Pub!Proceed,
       Pub!GoTo, Pub!Copying
  <2>3. CASE Pub!OpenCopy(p, o)
    <3>1. o = "receipt" /\ final["receipt"] = Nobody => "receipt" \notin filled
      OBVIOUS
    <3>2. UNCHANGED Whole
      BY <2>3, <3>1, Distinct DEF Pub!OpenCopy, Pub!Create, Pub!Outputs
    <3> QED BY <2>2, <3>2
  <2>4. CASE Pub!FillCopy(p, o, next)
    <3>1. o = "receipt" => final["receipt"] = p /\ "receipt" \notin filled
      BY <2>4 DEF Pub!FillCopy, Pub!Proceed, Pub!Copying, Owned, Reached
    <3>2. UNCHANGED final /\ filled' = filled \cup {o}
      BY <2>4 DEF Pub!FillCopy
    <3> QED BY <2>2, <3>1, <3>2
  <2>5. CASE Pub!CopyFails(p, o)
    <3>1. o = "receipt" => "receipt" \notin filled
      BY <2>5 DEF Pub!CopyFails, Pub!Copying, Owned, Reached
    <3>2. UNCHANGED filled /\ final' = [final EXCEPT ![o] = Nobody]
      BY <2>5 DEF Pub!CopyFails
    <3> QED BY <2>2, <3>1, <3>2
  <2> QED BY <2>1, <2>3, <2>4, <2>5 DEF Pub!Copy
<1>6. CASE Pub!ValidateProducer(p)
  <2>1. Whole = p
    BY <1>6 DEF Pub!ValidateProducer, Owned, Reached, Pub!Outputs
  <2>2. UNCHANGED <<final, filled>> /\ \A q \in All \ {p} : pc'[q] = pc[q]
    BY <1>6 DEF Pub!ValidateProducer, Pub!Settle, Pub!GoTo
  <2>3. pc[p] = "producer" /\ pc'[p] \in {"done", "ready"}
    BY <1>6 DEF Pub!ValidateProducer, Pub!Settle, Pub!GoTo
  <2> QED BY <2>1, <2>2, <2>3
<1>7. CASE Pub!Rollback(p)
  <2>1. pc[p] = "rollback" /\ UNCHANGED pc
    BY <1>7 DEF Pub!Rollback
  <2>2. PICK o \in promoted[p] :
          final' = [final EXCEPT ![o] = Nobody] /\ filled' = filled \ {o}
    BY <1>7 DEF Pub!Rollback, Pub!RollbackNext, Pub!Outputs
  <2>3. o = "receipt" => Whole = p
    BY DEF Owned
  <2> QED BY <2>1, <2>2, <2>3
<1> QED BY <1>1, <1>2, <1>3, <1>4, <1>5, <1>6, <1>7 DEF Pub!Proceeds

\* Whoever fails, competes or dies in the middle of a copy, a whole receipt stands for
\* the whole publication it names, and one reported as frozen stays for good (freezing
\* in scripts/task10/publication.ts; a cut file at a final path is no whole receipt).
THEOREM ReadersSeeWholePublications == Spec => PublicationIsAtomic
<1>1. Init => Pub!Atomic!Init
  BY Distinct DEF Init, Pub!Init, Pub!Atomic!Init, Pub!Published, Pub!Outputs
<1>2. PublicationInv /\ PublicationInv' /\ [Next]_vars =>
        [Pub!Atomic!Next]_<<Pub!Published, Reported>>
  <2> SUFFICES ASSUME PublicationInv, PublicationInv', [Next]_vars
               PROVE  [Pub!Atomic!Next]_<<Pub!Published, Reported>>
    OBVIOUS
  <2>1. Pub!Published = Whole /\ Pub!Published' = Whole'
    BY NeverTornNext, NeverTorn
  <2>2. CASE UNCHANGED publication
    BY <2>1, <2>2 DEF publication, Reported, Whole
  <2>3. ASSUME NEW p \in All, Pub!Calls(p) \/ Pub!Proceeds(p) \/ Pub!Crash(p)
        PROVE  [Pub!Atomic!Next]_<<Pub!Published, Reported>>
    BY <2>1, <2>3, PublisherIsAtomic DEF Pub!Atomic!Next, Pub!Atomic!Publish,
       Pub!Atomic!Withdraw, Pub!Atomic!Report, Reported, All
  <2> QED BY <2>2, <2>3, ScriptPublishes DEF vars
<1> QED BY <1>1, <1>2, PublicationKept, PTL DEF Spec, PublicationIsAtomic,
   Pub!PublicationIsAtomic, Pub!Atomic!Spec, Reported, All

-----------------------------------------------------------------------------
(* The exit code.                                                          *)

Gathering == {"authority", "gates", "producer", "fingerprint", "assess"}

\* Between its calls the script has no publication under way, and its exit
\* code is that of a call that is over.
ScriptInv ==
  /\ at \in Gathering \cup {"rebuild", "catch"} => pc[Self] = "ready"
  /\ exit \in {"none", "0", "1"}
  /\ exit # "none" => at = "end"
  /\ exit = "0" => pc[Self] = "done"
  /\ exit = "1" => pc[Self] = "ready" /\ ~ stage[Self]

\* What goes on by itself goes on in a call under way.
LEMMA ProceedsUnderWay ==
  ASSUME NEW p \in All, Pub!Proceeds(p)
  PROVE  pc[p] \notin {"ready", "done", "dead"}
BY DEF Pub!Proceeds, Pub!AssessStaged, Pub!AssessUnverified, Pub!AssessFails, Pub!AssertTargets,
   Pub!MakePackage, Pub!CopyMembers, Pub!CopyArchive, Pub!Copy, Pub!OpenCopy, Pub!FillCopy,
   Pub!CopyFails, Pub!Copying, Pub!Create, Pub!Promoted, Pub!Proceed, Pub!ValidatePair,
   Pub!CopyReceipt, Pub!ValidateOffline, Pub!CleanupStaged, Pub!ValidateProducer,
   Pub!ProducerFails, Pub!StepFails, Pub!Failing, Pub!Rollback, Pub!RolledBack

\* A rival moves neither the script nor its staging directory.
LEMMA RivalsApart ==
  ASSUME NEW p \in Rivals, PublicationType, Pub!Calls(p) \/ Pub!Proceeds(p) \/ Pub!Crash(p)
  PROVE  pc'[Self] = pc[Self] /\ stage'[Self] = stage[Self]
<1>1. p # Self /\ p \in All /\ Self \in All
  BY Distinct DEF All
<1>2. CASE Pub!Calls(p) \/ Pub!Crash(p)
  BY <1>1, <1>2 DEF PublicationType, Pub!Calls, Pub!AssessRefused, Pub!AssessStarts,
     Pub!Discard, Pub!Freeze, Pub!Crash, Pub!Assessed, Pub!Settle, Pub!GoTo
<1>3. CASE Pub!Proceeds(p)
  BY <1>1, <1>3 DEF PublicationType, Pub!Proceeds, Pub!AssessStaged, Pub!AssessUnverified,
     Pub!AssessFails, Pub!Assessed, Pub!Settle, Pub!GoTo, Pub!AssertTargets, Pub!MakePackage,
     Pub!CopyMembers, Pub!CopyArchive, Pub!Copy, Pub!OpenCopy, Pub!FillCopy, Pub!CopyFails,
     Pub!Copying, Pub!Create, Pub!Promoted, Pub!Proceed, Pub!ValidatePair, Pub!CopyReceipt,
     Pub!ValidateOffline, Pub!CleanupStaged, Pub!ValidateProducer, Pub!ProducerFails,
     Pub!StepFails, Pub!Rollback, Pub!RolledBack, Pub!Disk
<1> QED BY <1>2, <1>3

\* The script starts outside every call.
LEMMA ScriptStart == Init => ScriptInv
BY DEF Init, Pub!Init, ScriptInv, Gathering

\* A call of the script is over when it goes on.
LEMMA ScriptSteps == ScriptInv /\ PublicationInv /\ [Next]_vars => ScriptInv'
<1> SUFFICES ASSUME ScriptInv, PublicationInv, [Next]_vars PROVE ScriptInv'
  OBVIOUS
<1> USE DEF GoTo, evidence, publication, recorder, Gathering
<1>0. Self \in All /\ PublicationType /\ Staging(Self)
  BY DEF PublicationInv, All
<1>1. CASE UNCHANGED vars
  BY <1>1 DEF vars, ScriptInv
<1>2. CASE \/ \E status \in {"verified", "reportable-blocked", "tooling-failure"} :
                VerifyAuthority(status)
           \/ \E r \in ProducerRuns : RunProducer(r)
           \/ \E f \in {"clean", "off"} : CollectFingerprint(f)
           \/ GatesEnd \/ Throws
  BY <1>2 DEF VerifyAuthority, RunProducer, CollectFingerprint, GatesEnd, Throws, ScriptInv
<1>3. CASE AssessFirst \/ Rebuild \/ Freeze
  BY <1>3 DEF AssessFirst, Rebuild, Freeze, ScriptInv
<1>4. CASE KeepFirst \/ KeepSecond \/ CallFails
  BY <1>4 DEF KeepFirst, KeepSecond, CallFails, Settled, ScriptInv
<1>5. CASE DropFirst
  BY <1>0, <1>5 DEF DropFirst, Settled, ScriptInv, Pub!Discard, Pub!Settle, Pub!GoTo,
     PublicationType
<1>6. CASE Succeed
  BY <1>0, <1>6 DEF Succeed, ScriptInv, Staging
<1>7. CASE Catch
  BY <1>0, <1>7 DEF Catch, ScriptInv, Staging, Pub!Discard, Pub!Assessed, Pub!Settle, Pub!GoTo,
     PublicationType
<1>8. CASE RecorderStep(Rec!Next)
  BY <1>8 DEF RecorderStep, ScriptInv
<1>9. CASE Crash
  BY <1>9 DEF Crash, ScriptInv
<1>10. CASE Publishing
  BY <1>0, <1>10, ProceedsUnderWay DEF Publishing, Elsewhere, ScriptInv
<1>11. ASSUME NEW p \in Rivals, RivalPublishes(p) PROVE ScriptInv'
  <2>1. Pub!Calls(p) \/ Pub!Proceeds(p) \/ Pub!Crash(p)
    BY <1>11 DEF RivalPublishes, Pub!Calls, Pub!Conclusions
  <2> QED BY <1>0, <1>11, <2>1, RivalsApart DEF RivalPublishes, Elsewhere, ScriptInv
<1> QED BY <1>1, <1>2, <1>3, <1>4, <1>5, <1>6, <1>7, <1>8, <1>9, <1>10, <1>11 DEF Next, Script

\* The exit code of the script tells what is at the final paths, whatever
\* fails and whoever competes.
THEOREM ExitCodeIsHonest == Spec => []ExitTellsPublication
<1>1. Spec => []ScriptInv
  BY ScriptStart, ScriptSteps, PublicationKept, PTL DEF Spec
<1>2. ScriptInv /\ PublicationInv /\ EvidenceInv => ExitTellsPublication
  <2> SUFFICES ASSUME ScriptInv, PublicationInv, EvidenceInv PROVE ExitTellsPublication
    OBVIOUS
  <2>1. Self \in All /\ Owned(Self) /\ Reached(Self)
    BY DEF PublicationInv, All
  <2>2. ASSUME promoted[Self] = Pub!Outputs PROVE final["receipt"] = Self /\ Pub!TripleMatches
    <3>1. final["receipt"] = Self /\ Whole = Self
      BY <2>1, <2>2 DEF Owned, Pub!Outputs, Whole
    <3> QED BY <2>1, <3>1, NeverTorn
  <2>3. ASSUME exit = "1"
        PROVE  /\ ~ stage[Self]
               /\ (\E o \in Pub!Outputs : final[o] = Self) => Pub!TripleMatches
    <3>1. pc[Self] = "ready" /\ promoted[Self] \in {{}, Pub!Outputs} /\ ~ stage[Self]
      BY <2>1, <2>3 DEF ScriptInv, Reached
    <3>2. \A o \in Pub!Outputs : final[o] = Self => o \in promoted[Self]
      BY <2>1, <3>1 DEF Owned, Reached, Pub!Outputs
    <3> QED BY <2>2, <3>1, <3>2
  <2>4. ASSUME exit = "0" PROVE final["receipt"] = Self /\ Pub!TripleMatches
    BY <2>1, <2>2, <2>4 DEF ScriptInv, Reached
  <2> QED BY <2>3, <2>4 DEF ExitTellsPublication, EvidenceInv
<1> QED BY <1>1, <1>2, PublicationKept, EvidenceKept, PTL

-----------------------------------------------------------------------------
(* Types.                                                                  *)

\* What the invariants of the parts leave untyped
RestType ==
  /\ candidate \in [All -> Pub!Conclusions] /\ checks \in [All -> Pub!Checks]
  /\ faults \in 0 .. MaxFaults
  /\ at \in {"authority", "gates", "producer", "fingerprint", "assess", "first", "rebuild",
             "second", "freeze", "freezing", "catch", "end"}
  /\ authority \in {"verified", "reportable-blocked", "tooling-failure"}
  /\ producer \in ProducerRuns \cup {NotRun}
  /\ fingerprint \in {"clean", "off"}

\* A publisher keeps the candidates, the checks and the count of faults.
LEMMA PublisherKeepsRest ==
  ASSUME RestType, NEW p \in All, Pub!Calls(p) \/ Pub!Proceeds(p) \/ Pub!Crash(p)
  PROVE  /\ candidate' \in [All -> Pub!Conclusions] /\ checks' \in [All -> Pub!Checks]
         /\ faults' \in 0 .. MaxFaults
<1> USE DEF RestType, Pub!Conclusions, Pub!Checks
<1>0. ASSUME Pub!Fault PROVE faults' \in 0 .. MaxFaults
  BY <1>0, VerifyAssumption DEF Pub!Fault
<1>1. CASE Pub!Calls(p) \/ Pub!Crash(p)
  BY <1>0, <1>1 DEF Pub!Calls, Pub!AssessRefused, Pub!AssessStarts, Pub!Discard, Pub!Freeze,
     Pub!Crash, Pub!Assessed, Pub!Settle
<1>2. CASE \/ Pub!AssessStaged(p) \/ (\E n \in 1 .. 3 : Pub!AssessUnverified(p, n))
           \/ Pub!AssessFails(p)
  BY <1>0, <1>2 DEF Pub!AssessStaged, Pub!AssessUnverified, Pub!AssessFails, Pub!Assessed
<1>3. CASE \/ Pub!AssertTargets(p) \/ Pub!MakePackage(p) \/ Pub!CopyMembers(p)
           \/ Pub!CopyArchive(p) \/ Pub!ValidatePair(p) \/ Pub!CopyReceipt(p)
           \/ Pub!ValidateOffline(p) \/ Pub!CleanupStaged(p) \/ Pub!ValidateProducer(p)
           \/ Pub!ProducerFails(p) \/ Pub!StepFails(p) \/ Pub!Rollback(p) \/ Pub!RolledBack(p)
  BY <1>0, <1>3 DEF Pub!AssertTargets, Pub!MakePackage, Pub!CopyMembers, Pub!CopyArchive,
     Pub!Copy, Pub!OpenCopy, Pub!FillCopy, Pub!CopyFails, Pub!Copying, Pub!Create, Pub!Promoted,
     Pub!Proceed, Pub!ValidatePair, Pub!CopyReceipt, Pub!ValidateOffline, Pub!CleanupStaged,
     Pub!ValidateProducer, Pub!ProducerFails, Pub!StepFails, Pub!Rollback, Pub!RolledBack
<1> QED BY <1>1, <1>2, <1>3 DEF Pub!Proceeds

\* The recorder keeps the count of faults.
LEMMA RecorderKeepsFaults ==
  ASSUME faults \in 0 .. MaxFaults, Rec!Next PROVE faults' \in 0 .. MaxFaults
<1>0. ASSUME Rec!Fault PROVE faults' \in 0 .. MaxFaults
  BY <1>0, VerifyAssumption DEF Rec!Fault
<1>1. CASE Rec!Recording
  BY <1>0, <1>1 DEF Rec!Recording, Rec!Start, Rec!Skip, Rec!Finish, Rec!OpeningFails, Rec!Spawn,
     Rec!OpenLog, Rec!MoveLog, Rec!Drained, Rec!DrainFails, Rec!MoveFails, Rec!Clean, Rec!Record
<1>2. CASE Rec!ChildEvent \/ Rec!PumpEvent
  BY <1>0, <1>2 DEF Rec!ChildEvent, Rec!ChildCloses, Rec!ChildFails, Rec!PumpEvent,
     Rec!PumpFinishes, Rec!Overflow, Rec!LogWriteFails, Rec!OverflowReported,
     Rec!FailureReported
<1>3. CASE Rec!TimerEvent
  BY <1>3 DEF Rec!TimerEvent, Rec!TimeoutFires, Rec!KillTimerFires, Rec!SettleTimerFires
<1> QED BY <1>1, <1>2, <1>3 DEF Rec!Next

\* Every step keeps the rest.
LEMMA RestSteps == RestType /\ [Next]_vars => RestType'
<1> SUFFICES ASSUME RestType, [Next]_vars PROVE RestType'
  OBVIOUS
<1>1. /\ candidate' \in [All -> Pub!Conclusions] /\ checks' \in [All -> Pub!Checks]
      /\ faults' \in 0 .. MaxFaults
  <2>1. CASE \E p \in All : Pub!Calls(p) \/ Pub!Proceeds(p) \/ Pub!Crash(p)
    BY <2>1, PublisherKeepsRest
  <2>2. CASE UNCHANGED publication
    <3>1. candidate' = candidate /\ checks' = checks
      BY <2>2 DEF publication
    <3>2. CASE RecorderStep(Rec!Next)
      BY <3>1, <3>2, RecorderKeepsFaults DEF RecorderStep, RestType
    <3>3. CASE ~ RecorderStep(Rec!Next)
      <4>1. faults' \in 0 .. MaxFaults
        <5>1. CASE Script
          <6>1. CASE Throws
            BY <6>1, VerifyAssumption DEF RestType, Throws, Pub!Fault
          <6>2. CASE AssessFirst \/ DropFirst \/ Rebuild \/ Freeze \/ Catch
            BY <6>2 DEF RestType, AssessFirst, DropFirst, Rebuild, Freeze, Catch,
               Pub!AssessRefused, Pub!AssessStarts, Pub!Discard, Pub!Freeze
          <6>3. CASE \/ \E status \in {"verified", "reportable-blocked", "tooling-failure"} :
                          VerifyAuthority(status)
                     \/ \E r \in ProducerRuns : RunProducer(r)
                     \/ \E f \in {"clean", "off"} : CollectFingerprint(f)
                     \/ GatesEnd \/ KeepFirst \/ KeepSecond \/ Succeed \/ CallFails
            BY <6>3 DEF RestType, VerifyAuthority, RunProducer, CollectFingerprint, GatesEnd,
               KeepFirst, KeepSecond, Succeed, CallFails
          <6> QED BY <5>1, <6>1, <6>2, <6>3 DEF Script
        <5>2. CASE Publishing \/ Crash
          BY <5>2, PublisherKeepsRest DEF Publishing, Crash, All
        <5>3. ASSUME NEW p \in Rivals, RivalPublishes(p) PROVE faults' \in 0 .. MaxFaults
          BY <5>3, PublisherKeepsRest DEF RivalPublishes, All, Pub!Calls, Pub!Conclusions
        <5> QED BY <3>3, <5>1, <5>2, <5>3 DEF Next, RestType, vars
      <4> QED BY <3>1, <4>1 DEF RestType
    <3> QED BY <3>2, <3>3
  <2>3. CASE UNCHANGED vars
    BY <2>3 DEF vars, publication, RestType
  <2> QED BY <2>1, <2>2, <2>3, ScriptPublishes
<1>2. /\ at' \in {"authority", "gates", "producer", "fingerprint", "assess", "first", "rebuild",
                  "second", "freeze", "freezing", "catch", "end"}
      /\ authority' \in {"verified", "reportable-blocked", "tooling-failure"}
      /\ producer' \in ProducerRuns \cup {NotRun}
      /\ fingerprint' \in {"clean", "off"}
  <2> USE DEF RestType, GoTo, evidence
  <2>1. CASE \/ \E status \in {"verified", "reportable-blocked", "tooling-failure"} :
                  VerifyAuthority(status)
             \/ \E r \in ProducerRuns : RunProducer(r)
             \/ \E f \in {"clean", "off"} : CollectFingerprint(f)
             \/ GatesEnd \/ Throws
    BY <2>1 DEF VerifyAuthority, RunProducer, CollectFingerprint, GatesEnd, Throws
  <2>2. CASE \/ AssessFirst \/ KeepFirst \/ DropFirst \/ Rebuild \/ KeepSecond \/ Freeze
             \/ Succeed \/ CallFails \/ Catch
    BY <2>2 DEF AssessFirst, KeepFirst, DropFirst, Rebuild, KeepSecond, Freeze, Succeed,
       CallFails, Catch
  <2>3. CASE \/ RecorderStep(Rec!Next) \/ Publishing \/ Crash
             \/ \E p \in Rivals : RivalPublishes(p)
    BY <2>3 DEF RecorderStep, Publishing, Crash, RivalPublishes, Elsewhere
  <2>4. CASE UNCHANGED vars
    BY <2>4 DEF vars
  <2> QED BY <2>1, <2>2, <2>3, <2>4 DEF Next, Script
<1> QED BY <1>1, <1>2 DEF RestType

\* Every variable of the script, the recorder and the publication root keeps its type.
THEOREM TypeCorrect == Spec => []TypeOK
<1>1. Init => RestType
  BY VerifyAssumption DEF Init, Pub!Init, RestType, Pub!Conclusions, Pub!Checks, All
<1>2. Spec => []RestType
  BY <1>1, RestSteps, PTL DEF Spec
<1>3. RecorderInv /\ PublicationInv /\ ScriptInv /\ RestType => TypeOK
  BY DEF RecorderInv, RecorderType, PublicationInv, PublicationType, ScriptInv, RestType,
     TypeOK, Rec!TypeOK, Pub!TypeOK, All
<1>4. Spec => []ScriptInv
  BY ScriptStart, ScriptSteps, PublicationKept, PTL DEF Spec
<1> QED BY <1>2, <1>3, <1>4, RecorderKept, PublicationKept, PTL

-----------------------------------------------------------------------------
(* Why the script comes to its end.  Whatever a gate command does, and      *)
(* whatever its rivals do, the script never waits for something that need   *)
(* not happen.                                                              *)

\* What has begun at a gate can go on: the logs are opened in their order, a
\* running command has a timer left that settles it, a finalizer that gave up on
\* the output has destroyed it, and a log is left to move.
Watched ==
  /\ \A g \in 1 .. Gates :
       g > Rec!Gate \/ (g = Rec!Gate /\ phase = "next") => \A s \in Rec!Logs : disk[g][s] = "none"
  /\ phase = "opening" =>
       /\ \A s \in Rec!Logs : disk[Rec!Gate][s] \in {"none", "temp"}
       /\ disk[Rec!Gate]["stderr"] = "temp" => disk[Rec!Gate]["stdout"] = "temp"
  /\ phase = "running" => IF forced = "null" THEN "timeout" \in armed ELSE "settle" \in armed
  /\ phase = "drain" /\ fin # "success" => \A s \in Rec!Logs : pump[s] # "piping"
  /\ phase = "move" => Rec!Temps # {}

\* The recorder has a step of its own to take, or a timer to fire, or a pump that
\* must end because its child has closed or its streams are destroyed.
RecorderCanMove ==
  \/ phase \in {"next", "clean", "settled", "recorded", "rejected"}
  \/ /\ phase = "opening"
     /\ \/ Rec!Temps = Rec!Logs
        \/ \E s \in Rec!Logs : disk[Rec!Gate][s] = "none"
                               /\ (s = "stderr" => disk[Rec!Gate]["stdout"] = "temp")
  \/ phase = "running" /\ armed \cap {"timeout", "settle"} # {}
  \/ /\ phase = "drain"
     /\ \/ \A s \in Rec!Logs : IF fin = "success" THEN pump[s] = "done" ELSE Rec!Ended(s)
        \/ fin = "success" /\ \E s \in Rec!Logs : pump[s] = "rejected"
        \/ \E s \in Rec!Logs : pump[s] \in {"overflowing", "failing", "destroyed"}
        \/ child[Rec!Gate] \in Rec!Closed /\ \E s \in Rec!Logs : pump[s] = "piping"
  \/ phase = "move" /\ \E s \in Rec!Temps : s = "stderr" => "stdout" \notin Rec!Temps

\* What has begun at a gate lets the recorder go on.
LEMMA WatchedMoves == RecorderInv /\ Watched => RecorderCanMove
<1> SUFFICES ASSUME RecorderInv, Watched PROVE RecorderCanMove
  OBVIOUS
<1>0. phase \in Rec!Phases /\ pump \in [Rec!Logs -> Rec!Pumps]
  BY DEF RecorderInv, RecorderType
<1>1. CASE phase = "opening"
  <2>1. CASE disk[Rec!Gate]["stdout"] = "none" \/ disk[Rec!Gate]["stderr"] = "none"
    BY <1>1, <2>1 DEF Watched, RecorderCanMove, Rec!Logs
  <2>2. CASE disk[Rec!Gate]["stdout"] # "none" /\ disk[Rec!Gate]["stderr"] # "none"
    BY <1>1, <2>2 DEF Watched, RecorderCanMove, Rec!Logs, Rec!Temps
  <2> QED BY <2>1, <2>2
<1>2. CASE phase = "running"
  BY <1>2 DEF Watched, RecorderCanMove
<1>3. CASE phase = "drain"
  <2>1. fin = "success" => child[Rec!Gate] \in Rec!Closed
    BY DEF RecorderInv, Finalizing
  <2> QED BY <1>0, <1>3, <2>1 DEF Watched, RecorderCanMove, Rec!Pumps, Rec!Logs, Rec!Ended
<1>4. CASE phase = "move"
  BY <1>4 DEF Watched, RecorderCanMove, Rec!Temps, Rec!Logs
<1> QED BY <1>0, <1>1, <1>2, <1>3, <1>4 DEF RecorderCanMove, Rec!Phases

\* Every step of the recorder keeps it.
LEMMA WatchedSteps == RecorderInv /\ Watched /\ Rec!Next => Watched'
<1> SUFFICES ASSUME RecorderInv, Watched, Rec!Next PROVE Watched'
  OBVIOUS
<1> USE VerifyAssumption DEF Rec!Logs, Rec!Gate, Rec!Temps, RecorderInv, RecorderType
<1>1. CASE Rec!Start \/ Rec!Skip \/ Rec!Finish \/ Rec!OpeningFails \/ Rec!Clean
  BY <1>1 DEF Watched, Rec!Start, Rec!Skip, Rec!Finish, Rec!OpeningFails, Rec!OpeningCleanup,
     Rec!WithoutTemps, Rec!Clean
<1>2. CASE Rec!Spawn
  BY <1>2 DEF Watched, Rec!Spawn
<1>3. ASSUME NEW s \in Rec!Logs, Rec!OpenLog(s) PROVE Watched'
  BY <1>3 DEF Watched, Rec!OpenLog, Rec!SetLog
<1>4. ASSUME NEW s \in Rec!Logs, Rec!MoveLog(s) PROVE Watched'
  BY <1>4 DEF Watched, Rec!MoveLog, Rec!SetLog
<1>5. CASE Rec!Drained
  BY <1>5 DEF Watched, Rec!Drained, Promoting, Finalizing, Idle, Rec!Finalizers
<1>6. CASE Rec!DrainFails \/ Rec!MoveFails
  BY <1>6 DEF Watched, Rec!DrainFails, Rec!MoveFails, Rec!FinalizeFailure
<1>7. CASE Rec!Record
  BY <1>7 DEF Watched, Rec!Record
<1>8. CASE Rec!ChildEvent
  BY <1>8 DEF Watched, Rec!ChildEvent, Rec!ChildCloses, Rec!ChildFails, Rec!FinalizeSuccess,
     Rec!FinalizeForcedExit, Rec!FinalizeFailure, Rec!Destroyed
<1>9. ASSUME NEW s \in Rec!Logs,
             \/ Rec!PumpFinishes(s) \/ Rec!Overflow(s) \/ Rec!LogWriteFails(s)
             \/ Rec!OverflowReported(s)
      PROVE  Watched'
  BY <1>9 DEF Watched, Rec!PumpFinishes, Rec!Overflow, Rec!LogWriteFails,
     Rec!OverflowReported, Rec!ForcedBy, Rec!ForcedTimers
<1>10. ASSUME NEW s \in Rec!Logs, Rec!FailureReported(s) PROVE Watched'
  BY <1>10 DEF Watched, Rec!FailureReported, Rec!FinalizeFailure
<1>11. CASE Rec!TimerEvent
  BY <1>11 DEF Watched, Rec!TimerEvent, Rec!TimeoutFires, Rec!KillTimerFires,
     Rec!SettleTimerFires, Rec!ForcedBy, Rec!ForcedTimers, Rec!FinalizeForcedExit,
     Rec!Destroyed, Idle
<1> QED BY <1>1, <1>2, <1>3, <1>4, <1>5, <1>6, <1>7, <1>8, <1>9, <1>10, <1>11
        DEF Rec!Next, Rec!Recording, Rec!PumpEvent

\* It holds of the script: rejected, the recorder only takes events.
LEMMA WatchedKept == Spec => []Watched
<1>1. Init => Watched
  BY VerifyAssumption DEF Init, Rec!Init, Watched, Rec!Gate
<1>2. RecorderInv /\ Watched /\ [Next]_vars => Watched'
  <2>1. Watched /\ UNCHANGED recorder => Watched'
    BY DEF recorder, Watched, Rec!Gate, Rec!Temps
  <2> QED BY <2>1, WatchedSteps, OthersLeaveRecorder DEF RecorderStep, vars
<1> QED BY <1>1, <1>2, RecorderKept, PTL DEF Spec

\* No gate hangs the recorder: whatever the child does or does not do, whichever
\* pump fails and however often a timer has fired, there is a step the recorder takes
\* by itself (the timers and finalizers of scripts/task10/command-recorder.ts).
THEOREM NoGateHangs == Spec => []RecorderCanMove
BY RecorderKept, WatchedKept, WatchedMoves, PTL

\* A call of the script is under way, or has settled with an answer the script has a
\* branch for.
Answered ==
  /\ at \in {"assess", "rebuild"} => handle[Self] # "staged"
  /\ at = "first" =>
       \/ pc[Self] = "assessing" /\ handle[Self] # "staged"
       \/ /\ pc[Self] = "ready" /\ result[Self] \in {"staged", "refused", "failed"}
          /\ result[Self] = "refused" => checks[Self] # 4
          /\ result[Self] = "staged" <=> handle[Self] = "staged"
  /\ at = "second" =>
       \/ pc[Self] = "assessing" /\ handle[Self] # "staged"
       \/ /\ pc[Self] = "ready" /\ result[Self] \in {"staged", "refused", "failed"}
          /\ result[Self] = "staged" <=> handle[Self] = "staged"
  /\ at = "freeze" => pc[Self] = "ready" /\ handle[Self] = "staged"
  /\ at = "freezing" =>
       /\ pc[Self] \notin {"dead", "assessing"}
       /\ pc[Self] = "ready" => result[Self] = "failed"
       /\ pc[Self] = "done" => result[Self] = "frozen"
  /\ at \in Gathering => handle[Self] # "staged"

\* The script has a step to take, or a call of it has.
ScriptCanMove ==
  \/ at \in {"authority", "producer", "fingerprint"}
  \/ at = "gates" /\ RecorderCanMove
  \/ at \in {"assess", "rebuild"} /\ Settled /\ handle[Self] # "staged"
  \/ at = "freeze" /\ Settled /\ handle[Self] = "staged"
  \/ at \in {"first", "second", "freezing"} /\ pc[Self] \notin {"ready", "done", "dead"}
  \/ at \in {"first", "second", "freezing"} /\ Settled /\ result[Self] = "failed"
  \/ at = "first" /\ Settled /\ result[Self] = "staged" /\ Confirmed
  \/ at = "first" /\ Settled /\ result[Self] # "failed" /\ ~ Confirmed
  \/ at = "second" /\ Settled /\ result[Self] \in {"staged", "refused"}
  \/ at = "freezing" /\ result[Self] = "frozen"
  \/ at = "catch" /\ (handle[Self] = "staged" => Settled)
  \/ at = "end"

\* Every answer has its branch.
LEMMA AnsweredMoves ==
  TypeOK /\ ScriptInv /\ PublicationInv /\ Answered /\ RecorderCanMove => ScriptCanMove
<1> SUFFICES ASSUME TypeOK, ScriptInv, PublicationInv, Answered, RecorderCanMove
             PROVE  ScriptCanMove
  OBVIOUS
<1>1. at \in Gathering \cup {"rebuild", "catch"} => pc[Self] = "ready"
  BY DEF ScriptInv
<1>2. CASE at = "first" /\ pc[Self] = "ready"
  BY <1>2 DEF Answered, ScriptCanMove, Settled, Confirmed, FinalConclusion
<1>3. CASE at = "second"
  BY <1>3 DEF Answered, ScriptCanMove, Settled
<1>4. CASE at = "freezing"
  BY <1>4 DEF Answered, ScriptCanMove, Settled
<1>5. CASE at = "first" /\ pc[Self] # "ready"
  BY <1>5 DEF Answered, ScriptCanMove
<1>6. CASE at \in {"authority", "gates", "producer", "fingerprint", "assess", "rebuild",
                   "freeze", "catch", "end"}
  BY <1>1, <1>6 DEF Answered, ScriptCanMove, Settled, Gathering
<1> QED BY <1>2, <1>3, <1>4, <1>5, <1>6 DEF TypeOK

\* A rival does not touch what the script was answered.
LEMMA RivalsLeaveAnswers ==
  ASSUME NEW p \in Rivals, PublicationType, RestType,
         Pub!Calls(p) \/ Pub!Proceeds(p) \/ Pub!Crash(p)
  PROVE  handle'[Self] = handle[Self] /\ result'[Self] = result[Self]
         /\ checks'[Self] = checks[Self]
<1>1. p # Self /\ p \in All /\ Self \in All
  BY Distinct DEF All
<1> USE DEF PublicationType, RestType
<1>2. CASE Pub!Calls(p) \/ Pub!Crash(p)
  BY <1>1, <1>2 DEF Pub!Calls, Pub!AssessRefused, Pub!AssessStarts,
     Pub!Discard, Pub!Freeze, Pub!Crash, Pub!Assessed, Pub!Settle, Pub!GoTo
<1>3. CASE Pub!Proceeds(p)
  BY <1>1, <1>3 DEF Pub!Proceeds, Pub!AssessStaged, Pub!AssessUnverified,
     Pub!AssessFails, Pub!Assessed, Pub!Settle, Pub!GoTo, Pub!AssertTargets, Pub!MakePackage,
     Pub!CopyMembers, Pub!CopyArchive, Pub!Copy, Pub!OpenCopy, Pub!FillCopy, Pub!CopyFails,
     Pub!Copying, Pub!Create, Pub!Promoted, Pub!Proceed, Pub!ValidatePair, Pub!CopyReceipt,
     Pub!ValidateOffline, Pub!CleanupStaged, Pub!ValidateProducer, Pub!ProducerFails,
     Pub!StepFails, Pub!Rollback, Pub!RolledBack, Pub!Disk
<1> QED BY <1>2, <1>3

\* What an assessment of the script that goes on ends with
LEMMA AssessmentEnds ==
  ASSUME PublicationType, RestType, Pub!Proceeds(Self), pc[Self] = "assessing",
         handle[Self] # "staged"
  PROVE  /\ pc'[Self] = "ready" /\ result'[Self] \in {"staged", "refused", "failed"}
         /\ result'[Self] = "refused" => checks'[Self] # 4
         /\ result'[Self] = "staged" <=> handle'[Self] = "staged"
<1>1. Self \in All
  BY DEF All
<1> QED
  BY <1>1 DEF PublicationType, RestType, Pub!Proceeds, Pub!AssessStaged, Pub!AssessUnverified,
     Pub!AssessFails, Pub!Assessed, Pub!Settle, Pub!GoTo, Pub!AssertTargets, Pub!MakePackage,
     Pub!CopyMembers, Pub!CopyArchive, Pub!Copy, Pub!OpenCopy, Pub!FillCopy, Pub!CopyFails,
     Pub!Copying, Pub!Create, Pub!Promoted, Pub!Proceed, Pub!ValidatePair, Pub!CopyReceipt,
     Pub!ValidateOffline, Pub!CleanupStaged, Pub!ValidateProducer, Pub!ProducerFails,
     Pub!StepFails, Pub!Failing, Pub!Rollback, Pub!RolledBack

\* A freeze of the script goes on, ends frozen, or fails.
LEMMA FreezeGoesOn ==
  ASSUME PublicationType, RestType, Pub!Proceeds(Self), pc[Self] \notin {"dead", "assessing"}
  PROVE  /\ pc'[Self] \notin {"dead", "assessing"}
         /\ pc'[Self] = "ready" => result'[Self] = "failed"
         /\ pc'[Self] = "done" => result'[Self] = "frozen"
<1>1. Self \in All
  BY DEF All
<1>2. CASE \/ Pub!AssertTargets(Self) \/ Pub!MakePackage(Self) \/ Pub!CopyMembers(Self)
           \/ Pub!CopyArchive(Self) \/ Pub!ValidatePair(Self) \/ Pub!CopyReceipt(Self)
           \/ Pub!ValidateOffline(Self) \/ Pub!CleanupStaged(Self) \/ Pub!StepFails(Self)
  BY <1>1, <1>2 DEF PublicationType, Pub!GoTo, Pub!AssertTargets, Pub!MakePackage,
     Pub!CopyMembers, Pub!CopyArchive, Pub!Copy, Pub!OpenCopy, Pub!FillCopy, Pub!CopyFails,
     Pub!Copying, Pub!Create, Pub!Promoted, Pub!Proceed, Pub!ValidatePair, Pub!CopyReceipt,
     Pub!ValidateOffline, Pub!CleanupStaged, Pub!StepFails
<1>3. CASE \/ Pub!ValidateProducer(Self) \/ Pub!ProducerFails(Self) \/ Pub!Rollback(Self)
           \/ Pub!RolledBack(Self)
  BY <1>1, <1>3 DEF PublicationType, Pub!GoTo, Pub!Settle, Pub!ValidateProducer,
     Pub!ProducerFails, Pub!Rollback, Pub!RolledBack
<1> QED BY <1>2, <1>3 DEF Pub!Proceeds, Pub!AssessStaged, Pub!AssessUnverified, Pub!AssessFails

\* The script calls only when it has been answered, and takes what it is answered.
LEMMA AnsweredSteps ==
  TypeOK /\ ScriptInv /\ PublicationInv /\ Answered /\ [Next]_vars => Answered'
<1> SUFFICES ASSUME TypeOK, ScriptInv, PublicationInv, Answered, [Next]_vars PROVE Answered'
  OBVIOUS
<1> USE DEF GoTo, evidence, publication, recorder, Gathering
<1>0. Self \in All /\ PublicationType /\ RestType
  BY DEF PublicationInv, All, TypeOK, Pub!TypeOK, Rec!TypeOK, RestType
<1>1. CASE UNCHANGED vars
  BY <1>1 DEF vars, Answered
<1>2. CASE \/ \E status \in {"verified", "reportable-blocked", "tooling-failure"} :
                VerifyAuthority(status)
           \/ \E r \in ProducerRuns : RunProducer(r)
           \/ \E f \in {"clean", "off"} : CollectFingerprint(f)
           \/ GatesEnd \/ Throws
  BY <1>2 DEF VerifyAuthority, RunProducer, CollectFingerprint, GatesEnd, Throws, Answered
<1>3. CASE AssessFirst \/ Rebuild
  BY <1>0, <1>3 DEF AssessFirst, Rebuild, Answered, ScriptInv, Pub!AssessStarts,
     Pub!AssessRefused, Pub!Settle, Pub!GoTo, PublicationType, RestType
<1>4. CASE KeepFirst \/ KeepSecond
  BY <1>4 DEF KeepFirst, KeepSecond, Settled, Answered
<1>5. CASE DropFirst
  BY <1>0, <1>5 DEF DropFirst, Settled, Answered, Pub!Discard, Pub!Settle, Pub!GoTo,
     Pub!Assessed, PublicationType
<1>6. CASE Freeze
  BY <1>0, <1>6 DEF Freeze, Answered, Pub!Freeze, Pub!GoTo, PublicationType
<1>7. CASE CallFails
  BY <1>7 DEF CallFails, Answered
<1>8. CASE Succeed \/ Catch \/ Crash
  BY <1>8 DEF Succeed, Catch, Crash, Answered
<1>9. CASE RecorderStep(Rec!Next)
  BY <1>9 DEF RecorderStep, Answered
<1>10. CASE Publishing
  <2>1. pc[Self] \notin {"ready", "done", "dead"}
    BY <1>0, <1>10, ProceedsUnderWay DEF Publishing
  <2>2. CASE at \in {"first", "second"}
    BY <1>0, <1>10, <2>1, <2>2, AssessmentEnds DEF Publishing, Elsewhere, Answered
  <2>3. CASE at = "freezing"
    BY <1>0, <1>10, <2>1, <2>3, FreezeGoesOn DEF Publishing, Elsewhere, Answered
  <2> QED BY <1>10, <2>1, <2>2, <2>3 DEF Publishing, Elsewhere, Answered, ScriptInv
<1>11. ASSUME NEW p \in Rivals, RivalPublishes(p) PROVE Answered'
  <2>1. Pub!Calls(p) \/ Pub!Proceeds(p) \/ Pub!Crash(p)
    BY <1>11 DEF RivalPublishes, Pub!Calls, Pub!Conclusions
  <2> QED BY <1>0, <1>11, <2>1, RivalsApart, RivalsLeaveAnswers
          DEF RivalPublishes, Elsewhere, Answered
<1> QED BY <1>1, <1>2, <1>3, <1>4, <1>5, <1>6, <1>7, <1>8, <1>9, <1>10, <1>11 DEF Next, Script

\* The script never waits for what need not happen: until its end it has a step to
\* take, its recorder has, or a call of it goes on or has settled with an answer that
\* one of its branches takes, whatever its gates and its rivals do.
THEOREM ScriptNeverStuck == Spec => []ScriptCanMove
<1>1. Init => Answered
  BY DEF Init, Pub!Init, Answered
<1>2. Spec => []ScriptInv
  BY ScriptStart, ScriptSteps, PublicationKept, PTL DEF Spec
<1>3. Spec => []Answered
  BY <1>1, <1>2, AnsweredSteps, TypeCorrect, PublicationKept, PTL DEF Spec
<1> QED BY <1>2, <1>3, AnsweredMoves, TypeCorrect, NoGateHangs, PublicationKept, PTL
=============================================================================
