---------------------------- MODULE CommandRecorder ----------------------------
(***************************************************************************)
(* The gate recorder of the reproducibility script                         *)
(* (scripts/task10/command-recorder.ts): the gate commands run one after   *)
(* the other, each a child process whose two outputs are pumped through a  *)
(* shared size limit into private temporary logs.  The close of the child, *)
(* an error, a failed pump, an overflow and three timers race to settle    *)
(* the command; whoever comes first chooses how the logs are finalized.    *)
(***************************************************************************)
EXTENDS Naturals, Sequences

CONSTANTS Gates,     \* the number of gate commands
          MaxFaults  \* bound on failing file operations, log writes and spawns

Logs == {"stdout", "stderr"}

Timers == {"timeout", "kill", "settle"}

(* What the operating system knows of a child: not spawned, running, or   *)
(* closed with a code (null when a signal ended it).                       *)
Children == {"unborn", "running", "zero", "nonzero", "null"}

Closed == {"zero", "nonzero", "null"}

(* A log on the disk: nothing, the temporary file, or the promoted log     *)
(* with all the child wrote or with less.                                  *)
LogFiles == {"none", "temp", "partial", "whole"}

(* pipeline(): at work, finished, ended by an error it has yet to report   *)
(* (an overflow, a failed log write, or because it was destroyed), or      *)
(* rejected.                                                               *)
Pumps == {"piping", "done", "overflowing", "failing", "destroyed", "rejected"}

Finalizers == {"none", "success", "failure", "forced"}

(* Where the recorder is: between commands, opening the logs, waiting for  *)
(* the command to settle, in a finalizer that drains the pumps, moves the  *)
(* logs or removes them, settled, or at its end.                           *)
Phases == {"next", "opening", "running", "drain", "move", "clean",
           "settled", "recorded", "rejected"}

(* A row's exitCode; null for a skipped row. *)
Exits == {"0", "1", "124", "125"}

Rows == [status : {"executed"}, exit : Exits] \cup [status : {"skipped"}, exit : {"null"}]

VARIABLES
  phase,
  rows,     \* the rows recorded so far
  child,    \* for each gate, its child process
  disk,     \* for each gate, its two logs
  pump,     \* the pumps of the current command
  armed,    \* the timers of the current command that will fire
  forced,   \* forcedExitCode
  fin,      \* finalizing: which finalizer has the command
  killed,   \* whether the child was sent SIGKILL
  faults

vars == <<phase, rows, child, disk, pump, armed, forced, fin, killed, faults>>

Gate == Len(rows) + 1

FirstError == \E i \in DOMAIN rows : rows[i].exit \in Exits \ {"0"}

Init ==
  /\ phase = "next"
  /\ rows = <<>>
  /\ child = [g \in 1 .. Gates |-> "unborn"]
  /\ disk = [g \in 1 .. Gates |-> [s \in Logs |-> "none"]]
  /\ pump = [s \in Logs |-> "done"]
  /\ armed = {}
  /\ forced = "null"
  /\ fin = "none"
  /\ killed = FALSE
  /\ faults = 0

Fault == faults < MaxFaults /\ faults' = faults + 1

SetLog(s, f) == disk' = [disk EXCEPT ![Gate][s] = f]

Temps == {s \in Logs : disk[Gate][s] = "temp"}

WithoutTemps == [s \in Logs |-> IF s \in Temps THEN "none" ELSE disk[Gate][s]]

-----------------------------------------------------------------------------
(* The loop over the gates.                                                *)

Start ==
  /\ phase = "next" /\ Gate <= Gates /\ ~ FirstError
  /\ phase' = "opening"
  /\ UNCHANGED <<rows, child, disk, pump, armed, forced, fin, killed, faults>>

Skip ==
  /\ phase = "next" /\ Gate <= Gates /\ FirstError
  /\ rows' = Append(rows, [status |-> "skipped", exit |-> "null"])
  /\ UNCHANGED <<phase, child, disk, pump, armed, forced, fin, killed, faults>>

Finish ==
  /\ phase = "next" /\ Gate > Gates
  /\ phase' = "recorded"
  /\ UNCHANGED <<rows, child, disk, pump, armed, forced, fin, killed, faults>>

-----------------------------------------------------------------------------
(* Opening the logs and spawning the child.  A failure removes what was    *)
(* opened and rejects the recording.                                       *)

OpenLog(s) ==
  /\ phase = "opening" /\ disk[Gate][s] = "none"
  /\ s = "stderr" => disk[Gate]["stdout"] = "temp"
  /\ SetLog(s, "temp")
  /\ UNCHANGED <<phase, rows, child, pump, armed, forced, fin, killed, faults>>

OpeningCleanup == disk' = [disk EXCEPT ![Gate] = WithoutTemps]

OpeningFails ==
  /\ phase = "opening" /\ Fault
  /\ OpeningCleanup
  /\ phase' = "rejected"
  /\ UNCHANGED <<rows, child, pump, armed, forced, fin, killed>>

Spawn ==
  /\ phase = "opening" /\ Temps = Logs
  /\ child' = [child EXCEPT ![Gate] = "running"]
  /\ pump' = [s \in Logs |-> "piping"]
  /\ armed' = {"timeout"}
  /\ forced' = "null" /\ fin' = "none" /\ killed' = FALSE
  /\ phase' = "running"
  /\ UNCHANGED <<rows, disk, faults>>

-----------------------------------------------------------------------------
(* Finalizers.  settleOnce lets only the first one in.  Those that give up *)
(* on the output destroy the streams, so a pump still at work will reject. *)

Destroyed == [s \in Logs |-> IF pump[s] = "piping" THEN "destroyed" ELSE pump[s]]

FinalizeSuccess ==
  /\ fin' = "success" /\ phase' = "drain" /\ armed' = {}
  /\ UNCHANGED <<pump, killed>>

FinalizeForcedExit ==
  /\ fin' = "forced" /\ phase' = "drain" /\ armed' = {} /\ pump' = Destroyed
  /\ UNCHANGED killed

(* A bug to catch: the child is left to itself. *)
FinalizeFailureWithoutKill(p) ==
  /\ fin' = "failure" /\ phase' = "drain" /\ armed' = {} /\ UNCHANGED killed
  /\ pump' = [s \in Logs |-> IF p[s] = "piping" THEN "destroyed" ELSE p[s]]

FinalizeFailure(p) ==
  /\ fin' = "failure" /\ phase' = "drain" /\ armed' = {} /\ killed' = TRUE
  /\ pump' = [s \in Logs |-> IF p[s] = "piping" THEN "destroyed" ELSE p[s]]

(* beginForcedExit: SIGTERM, and the two timers behind it; only once.      *)
ForcedBy(code) == IF forced = "null" THEN code ELSE forced

(* A bug to catch: a forced exit that only kills and waits for the close. *)
ForcedTimersKillOnly(t) == IF forced = "null" THEN t \cup {"kill"} ELSE t

ForcedTimers(t) == IF forced = "null" THEN t \cup {"kill", "settle"} ELSE t

-----------------------------------------------------------------------------
(* Events of the child, its pumps and the timers.  Until the recorder goes *)
(* on they may come in any order and after the settlement too.             *)

Live == phase \in {"running", "drain", "move", "clean", "settled", "rejected"}

ChildCloses(code) ==
  /\ Live /\ child[Gate] = "running"
  /\ child' = [child EXCEPT ![Gate] = code]
  /\ IF fin # "none" THEN UNCHANGED <<phase, pump, armed, fin, killed>>
     ELSE IF forced = "null" THEN FinalizeSuccess
     ELSE FinalizeForcedExit
  /\ UNCHANGED <<rows, disk, forced, faults>>

(* The child could not be started, or not be sent a signal.                *)
ChildFails ==
  /\ Live /\ child[Gate] = "running" /\ Fault
  /\ IF fin # "none" THEN UNCHANGED <<phase, pump, armed, fin, killed>>
     ELSE FinalizeFailure(pump)
  /\ UNCHANGED <<rows, child, disk, forced>>

PumpFinishes(s) ==
  /\ Live /\ pump[s] = "piping"
  /\ pump' = [pump EXCEPT ![s] = "done"]
  /\ UNCHANGED <<phase, rows, child, disk, armed, forced, fin, killed, faults>>

(* The combined limit is exceeded: the limiter passes on what still fits   *)
(* and fails.                                                              *)
Overflow(s) ==
  /\ Live /\ pump[s] = "piping"
  /\ pump' = [pump EXCEPT ![s] = "overflowing"]
  /\ UNCHANGED <<phase, rows, child, disk, armed, forced, fin, killed, faults>>

LogWriteFails(s) ==
  /\ Live /\ pump[s] = "piping" /\ Fault
  /\ pump' = [pump EXCEPT ![s] = "failing"]
  /\ UNCHANGED <<phase, rows, child, disk, armed, forced, fin, killed>>

(* The catch of an overflowed pump.  A timer scheduled here after a        *)
(* finalizer has cleared them stays armed.                                 *)
OverflowReported(s) ==
  /\ Live /\ pump[s] = "overflowing"
  /\ pump' = [pump EXCEPT ![s] = "rejected"]
  /\ forced' = ForcedBy("125")
  /\ armed' = ForcedTimers(armed)
  /\ UNCHANGED <<phase, rows, child, disk, fin, killed, faults>>

(* The catch of a pump that failed or was destroyed.                       *)
FailureReported(s) ==
  /\ Live /\ pump[s] \in {"failing", "destroyed"}
  /\ IF fin = "none" THEN FinalizeFailure([pump EXCEPT ![s] = "rejected"])
     ELSE /\ pump' = [pump EXCEPT ![s] = "rejected"]
          /\ UNCHANGED <<phase, armed, fin, killed>>
  /\ UNCHANGED <<rows, child, disk, forced, faults>>

TimeoutFires ==
  /\ Live /\ "timeout" \in armed
  /\ forced' = ForcedBy("124")
  /\ armed' = ForcedTimers(armed \ {"timeout"})
  /\ UNCHANGED <<phase, rows, child, disk, pump, fin, killed, faults>>

KillTimerFires ==
  /\ Live /\ "kill" \in armed
  /\ armed' = armed \ {"kill"} /\ killed' = TRUE
  /\ UNCHANGED <<phase, rows, child, disk, pump, forced, fin, faults>>

(* Scheduled for a later time than the kill timer of the same forced exit. *)
SettleTimerFires ==
  /\ Live /\ "settle" \in armed /\ "kill" \notin armed
  /\ IF fin # "none" THEN armed' = armed \ {"settle"} /\ UNCHANGED <<phase, pump, fin, killed>>
     ELSE FinalizeForcedExit
  /\ UNCHANGED <<rows, child, disk, forced, faults>>

-----------------------------------------------------------------------------
(* The steps of the finalizers.                                            *)

Ended(s) == pump[s] \in {"done", "rejected"}

(* Promise.all of the pumps for a success, Promise.allSettled otherwise.   *)
Drained ==
  /\ phase = "drain"
  /\ \A s \in Logs : IF fin = "success" THEN pump[s] = "done" ELSE Ended(s)
  /\ phase' = IF fin = "failure" THEN "clean" ELSE "move"
  /\ UNCHANGED <<rows, child, disk, pump, armed, forced, fin, killed, faults>>

DrainFails ==
  /\ phase = "drain" /\ fin = "success" /\ \E s \in Logs : pump[s] = "rejected"
  /\ FinalizeFailure(pump)
  /\ UNCHANGED <<rows, child, disk, forced, faults>>

(* rename of a temporary log to its place, stdout first.                   *)
MoveLog(s) ==
  /\ phase = "move" /\ s \in Temps
  /\ s = "stderr" => "stdout" \notin Temps
  /\ SetLog(s, IF pump[s] = "done" THEN "whole" ELSE "partial")
  /\ phase' = IF Temps = {s} THEN "settled" ELSE "move"
  /\ UNCHANGED <<rows, child, pump, armed, forced, fin, killed, faults>>

(* The destination is unsafe or the rename fails: a success turns into a   *)
(* failure, a forced exit rejects as it is.                                *)
MoveFails ==
  /\ phase = "move" /\ Fault
  /\ IF fin = "success" THEN FinalizeFailure(pump)
     ELSE phase' = "rejected" /\ UNCHANGED <<pump, armed, fin, killed>>
  /\ UNCHANGED <<rows, child, disk, forced>>

Clean ==
  /\ phase = "clean"
  /\ disk' = [disk EXCEPT ![Gate] = WithoutTemps]
  /\ phase' = "rejected"
  /\ UNCHANGED <<rows, child, pump, armed, forced, fin, killed, faults>>

-----------------------------------------------------------------------------
(* A bug to catch: the code zero of the child hides a forced exit. *)
ExitCodeOfChild ==
  IF child[Gate] = "zero" THEN "0" ELSE IF forced # "null" THEN forced ELSE "1"

(* What the promise resolves with; a child ended by a signal counts as 1.  *)
ExitCode ==
  IF forced # "null" THEN forced ELSE IF child[Gate] = "zero" THEN "0" ELSE "1"

(* The loop goes on.  What the settled command's closure still holds can   *)
(* only concern its own child, and is forgotten.                           *)
Record ==
  /\ phase = "settled"
  /\ rows' = Append(rows, [status |-> "executed", exit |-> ExitCode])
  /\ phase' = "next"
  /\ pump' = [s \in Logs |-> "done"]
  /\ armed' = {} /\ forced' = "null" /\ fin' = "none" /\ killed' = FALSE
  /\ UNCHANGED <<child, disk, faults>>

ChildEvent == (\E code \in Closed : ChildCloses(code)) \/ ChildFails

PumpEvent ==
  \E s \in Logs :
    \/ PumpFinishes(s) \/ Overflow(s) \/ LogWriteFails(s)
    \/ OverflowReported(s) \/ FailureReported(s)

TimerEvent == TimeoutFires \/ KillTimerFires \/ SettleTimerFires

Recording ==
  \/ Start \/ Skip \/ Finish \/ OpeningFails \/ Spawn
  \/ (\E s \in Logs : OpenLog(s) \/ MoveLog(s))
  \/ Drained \/ DrainFails \/ MoveFails \/ Clean \/ Record

Next == Recording \/ ChildEvent \/ PumpEvent \/ TimerEvent

Spec == Init /\ [][Next]_vars

(* Timers fire, file operations and promises settle, and a pump whose      *)
(* source has ended or was destroyed ends.  Nothing is assumed of the      *)
(* child.                                                                  *)
Fairness ==
  /\ WF_vars(Recording)
  /\ WF_vars(TimerEvent)
  /\ \A s \in Logs :
       /\ WF_vars(PumpFinishes(s) /\ child[Gate] \in Closed)
       /\ WF_vars(OverflowReported(s) \/ FailureReported(s))

FairSpec == Spec /\ Fairness
-----------------------------------------------------------------------------
(* Every variable keeps its type: the rows are those recordTask10Gate-     *)
(* Commands may return, in order, and the logs are in one of their states. *)
TypeOK ==
  /\ phase \in Phases
  /\ rows \in Seq(Rows) /\ Len(rows) <= Gates
  /\ child \in [1 .. Gates -> Children]
  /\ disk \in [1 .. Gates -> [Logs -> LogFiles]]
  /\ pump \in [Logs -> Pumps]
  /\ armed \subseteq Timers
  /\ forced \in {"null", "124", "125"}
  /\ fin \in Finalizers
  /\ killed \in BOOLEAN
  /\ faults \in 0 .. MaxFaults

(* A gate is recorded as passed only when its child ended with code zero   *)
(* by itself and all it wrote has been drained into the promoted logs.     *)
ZeroMeansDrained ==
  \A g \in DOMAIN rows : rows[g].exit = "0" =>
    child[g] = "zero" /\ \A s \in Logs : disk[g][s] = "whole"

(* However a command settles, nothing of it is left behind: its child is   *)
(* closed or was sent SIGKILL, no timer outlives an exit code, its two     *)
(* logs are promoted together, and what remains of a rejected command is a *)
(* log whose promotion had begun but no temporary file, unless a forced    *)
(* exit failed to promote it.                                              *)
NothingIsLeftBehind ==
  /\ phase \in {"settled", "rejected"} => child[Gate] # "running" \/ killed
  /\ phase = "settled" => armed = {}
  /\ phase = "rejected" /\ fin # "forced" => Temps = {}
  /\ \A g \in DOMAIN rows :
       /\ child[g] = "running" => rows[g].exit \in {"124", "125"}
       /\ rows[g].status = "executed" => \A s \in Logs : disk[g][s] \in {"partial", "whole"}

(* A recording comes to its end even if a child never does.                *)
RecordingEnds == <>(phase \in {"recorded", "rejected"})
=============================================================================
