-------------------------------- MODULE CliState --------------------------------
(***************************************************************************)
(* The commands of the CLI that change the local onboarding state          *)
(* (src/cli.ts, src/cli-runtime-dispatch.ts, src/local-onboarding-state.ts)*)
(* run by several processes against the sessions and claims of the core.   *)
(* Each command reads the file once, asks the core with the session of the *)
(* environment or else of the file, and replaces the file by a state       *)
(* computed from the reply and from what it read at the start.             *)
(* The four ids of a claimed agent (agent, principal, company,             *)
(* registration) go together and are one value here, the account they      *)
(* were claimed by; the tenant is the environment's.                       *)
(***************************************************************************)
EXTENDS LocalAccumulation, FiniteSets

CONSTANTS
    Accounts,     \* accounts of the core
    None,         \* no account
    MaxCommands,  \* bound: commands in a behaviour
    MaxFaults,    \* bound: lost replies, failed writes and dead processes
    MaxOverrides  \* bound: commands run with BIDVIA_SESSION_ID set

Processes == Writers
Stages == {"idle", "asking", "accumulating", "failing", "saving", "filling"}

\* 0 stands for no session; the core never numbers one so.
NoSession == 0
Sessions == 1 .. MaxCommands + 1
State == [session : Sessions \cup {NoSession}, agent : Accounts \cup {None}]
Blank == [session |-> NoSession, agent |-> None]

Onboarding == {"provisional-agent", "claim-provisional-agent"}
\* "account-me" stands for every command that preserves the claimed context,
\* "integration-app" for those that need a session and do not.
Commands == Onboarding \cup {"sign-in", "account-me", "session-refresh", "session-revoke",
                             "integration-app", "operator-decision"}
NeedSession == {"claim-provisional-agent", "account-me", "session-refresh",
                "session-revoke", "integration-app"}
PreserveClaim == {"account-me", "session-refresh", "provisional-agent"}

ASSUME CliAssumption ==
    /\ None \notin Accounts /\ Memories # {}
    /\ MaxCommands \in Nat /\ MaxFaults \in Nat /\ MaxOverrides \in Nat

VARIABLES
    file,       \* the onboarding state file
    owner,      \* core: the account of each session issued, None of the others
    live,       \* core: the sessions it accepts
    pc,         \* "idle", "asking", "accumulating", "failing", "saving" or "filling"
    command,    \* the command a process runs
    snapshot,   \* the state it read at its start
    env,        \* BIDVIA_SESSION_ID, NoSession when unset
    text,       \* the state it is about to write
    run,        \* the number of its run
    commands, faults, overrides, \* counters under their bounds
    overlapped, \* history: two commands were under way at the same time
    lone        \* history: the run that accumulated last, 0 when another was at it
                \* too or when it was cut short

process == <<pc, command, snapshot, env, text, run>>
bounds  == <<commands, faults, overrides, overlapped>>
directory == <<accumulation, lone>>
vars    == <<file, owner, live, process, bounds, directory>>

Issued == {s \in Sessions : owner[s] # None}
\* The core numbers sessions as it issues them.
Fresh == Cardinality(Issued) + 1

-----------------------------------------------------------------------------
(* What a command sees and what it makes of it. *)

\* readLocalOnboardingStateWithDiagnostics: a file that is absent, empty or
\* garbled reads as no state.
ReadState == IF Whole(file) THEN Head(file) ELSE Blank

\* readEffectiveSessionId: the environment goes before the file.
Effective(p) == IF env[p] # NoSession THEN env[p] ELSE snapshot[p].session

\* A bug to catch: every command keeps the session it ran with.
SessionAfterAlwaysKept(p, replied) ==
    IF command[p] \in Onboarding THEN snapshot[p].session
    ELSE IF replied.session # NoSession THEN replied.session ELSE Effective(p)

\* The session of the state a command writes.
SessionAfter(p, replied) ==
    IF command[p] = "session-revoke" THEN NoSession
    ELSE IF command[p] \in Onboarding THEN snapshot[p].session
    ELSE IF replied.session # NoSession THEN replied.session
    ELSE Effective(p)

\* A bug to catch: the claim outlives a sign-in with another account.
AgentAfterAlwaysKept(p, replied) ==
    IF replied.agent # None THEN replied.agent ELSE snapshot[p].agent

\* The claim in it: the reply's, else what a preserving command read.
AgentAfter(p, replied) ==
    IF replied.agent # None THEN replied.agent
    ELSE IF command[p] \in PreserveClaim THEN snapshot[p].agent
    ELSE None

\* buildPersistedIdentitySessionState, buildCliPersistedOnboardingActionState
StateAfter(p, replied) ==
    [session |-> SessionAfter(p, replied), agent |-> AgentAfter(p, replied)]

-----------------------------------------------------------------------------
(* The file is absent, or left by an agent signed in and perhaps claimed. *)
Init ==
    /\ AccumulationInit
    /\ \E a \in Accounts :
         /\ owner = [s \in Sessions |-> IF s = 1 THEN a ELSE None]
         /\ \/ file = Truncated
            \/ \E agent \in {None, a} : file = <<[session |-> 1, agent |-> agent]>>
    /\ live = {1}
    /\ pc = [p \in Processes |-> "idle"]
    /\ command = [p \in Processes |-> "account-me"]
    /\ snapshot = [p \in Processes |-> Blank]
    /\ env = [p \in Processes |-> NoSession]
    /\ text = [p \in Processes |-> Blank]
    /\ run = [p \in Processes |-> 0]
    /\ commands = 0 /\ faults = 0 /\ overrides = 0 /\ overlapped = FALSE /\ lone = 0

\* What a process read is of no more use to it.
Forget(p) ==
    /\ command' = [command EXCEPT ![p] = "account-me"]
    /\ snapshot' = [snapshot EXCEPT ![p] = Blank]
    /\ env' = [env EXCEPT ![p] = NoSession]

\* The process ends.
End(p) ==
    /\ pc' = [pc EXCEPT ![p] = "idle"]
    /\ Forget(p)
    /\ text' = [text EXCEPT ![p] = Blank]
    /\ run' = [run EXCEPT ![p] = 0]

\* A command reads the file and goes on when its context is complete; with
\* context missing it exits and changes nothing.
Begin(p, c, s) ==
    /\ pc[p] = "idle" /\ commands < MaxCommands
    /\ s # NoSession => overrides < MaxOverrides
    /\ c \in NeedSession => s # NoSession \/ ReadState.session # NoSession
    /\ pc' = [pc EXCEPT ![p] = "asking"]
    /\ command' = [command EXCEPT ![p] = c]
    /\ snapshot' = [snapshot EXCEPT ![p] = ReadState]
    /\ env' = [env EXCEPT ![p] = s]
    /\ commands' = commands + 1
    /\ run' = [run EXCEPT ![p] = commands']
    /\ overrides' = IF s # NoSession THEN overrides + 1 ELSE overrides
    /\ overlapped' = (overlapped \/ \E q \in Processes : pc[q] # "idle")
    /\ UNCHANGED <<file, owner, live, text, faults, directory>>

\* The request of a command that needs a session carries one the core accepts.
Accepted(p) == command[p] \in NeedSession => Effective(p) \in live

Issue(a) == /\ Fresh \in Sessions
            /\ owner' = [owner EXCEPT ![Fresh] = a]

\* The core acts on the request of `p` and replies.
Served(p, replied) ==
    /\ pc[p] = "asking" /\ Accepted(p)
    /\ CASE command[p] = "sign-in" ->
              \E a \in Accounts : /\ Issue(a)
                                  /\ live' = live \cup {Fresh}
                                  /\ replied = [session |-> Fresh, agent |-> None]
         [] command[p] = "session-refresh" ->
              \/ /\ Issue(owner[Effective(p)])
                 /\ live' = (live \ {Effective(p)}) \cup {Fresh}
                 /\ replied = [session |-> Fresh, agent |-> None]
              \/ /\ UNCHANGED <<owner, live>>
                 /\ replied = [session |-> Effective(p), agent |-> None]
         [] command[p] = "session-revoke" ->
              /\ live' = live \ {Effective(p)} /\ UNCHANGED owner
              /\ replied = Blank
         [] command[p] = "claim-provisional-agent" ->
              /\ UNCHANGED <<owner, live>>
              /\ replied = [session |-> NoSession, agent |-> owner[Effective(p)]]
         [] OTHER -> UNCHANGED <<owner, live>> /\ replied = Blank

\* A run that succeeded and one that failed write their memories alike.
Accumulating(p) == pc[p] \in {"accumulating", "failing"}

Accumulate(p) ==
    /\ StartAccumulation(p)
    /\ lone' = IF \E q \in Processes \ {p} : Accumulating(q) THEN 0 ELSE run[p]

\* The reply arrives.  An onboarding action is a run of the surface runtime,
\* which writes its accumulation before the command writes the state.
Reply(p) ==
    /\ \E replied \in State : /\ Served(p, replied)
                              /\ text' = [text EXCEPT ![p] = StateAfter(p, replied)]
    /\ IF command[p] \in Onboarding
       THEN pc' = [pc EXCEPT ![p] = "accumulating"] /\ Accumulate(p)
       ELSE pc' = [pc EXCEPT ![p] = "saving"] /\ UNCHANGED directory
    /\ Forget(p)
    /\ UNCHANGED <<file, run, bounds>>

\* The request of `p` fails.  An onboarding action is a failing run, which
\* writes its memories before it rejects; any other command exits at once.
Fail(p) ==
    IF command[p] \in Onboarding
    THEN /\ pc' = [pc EXCEPT ![p] = "failing"] /\ Accumulate(p)
         /\ Forget(p) /\ UNCHANGED <<text, run>>
    ELSE End(p) /\ UNCHANGED directory

\* The core refuses the request: one whose session it no longer accepts it
\* cannot serve, any other it may turn down.
Refuse(p) ==
    /\ pc[p] = "asking"
    /\ Fail(p)
    /\ UNCHANGED <<file, owner, live, bounds>>

\* The core acts and its reply is lost.
LoseReply(p) ==
    /\ faults < MaxFaults
    /\ \E replied \in State : Served(p, replied)
    /\ Fail(p)
    /\ faults' = faults + 1
    /\ UNCHANGED <<file, commands, overrides, overlapped>>

WriteMemory(p, m) ==
    /\ Accumulating(p)
    /\ OpenMemory(p, m) \/ FillMemory(p, m, run[p])
    /\ UNCHANGED <<file, owner, live, process, bounds, lone>>

\* A bug to catch: the run does not wait for the writes of its accumulation.
AccumulatedUnawaited(p) ==
    /\ pc[p] = "accumulating"
    /\ pc' = [pc EXCEPT ![p] = "saving"]
    /\ DropAccumulation(p)
    /\ UNCHANGED <<file, owner, live, command, snapshot, env, text, run, bounds, lone>>

\* Promise.all fulfils.
Accumulated(p) ==
    /\ pc[p] = "accumulating" /\ ~Writing(p)
    /\ pc' = [pc EXCEPT ![p] = "saving"]
    /\ UNCHANGED <<file, owner, live, command, snapshot, env, text, run, bounds, directory>>

\* The memories of a failing run are written and it rejects: exit 1, and the
\* state file stays as it is.
Rejected(p) ==
    /\ pc[p] = "failing" /\ ~Writing(p)
    /\ End(p)
    /\ UNCHANGED <<file, owner, live, bounds, directory>>

\* writeFile truncates the state file ...
OpenFile(p) ==
    /\ pc[p] = "saving"
    /\ pc' = [pc EXCEPT ![p] = "filling"]
    /\ file' = Truncated
    /\ UNCHANGED <<owner, live, command, snapshot, env, text, run, bounds, directory>>

\* ... and writes it: exit 0.
FillFile(p) ==
    /\ pc[p] = "filling"
    /\ End(p)
    /\ file' \in Overwritten(text[p], file)
    /\ UNCHANGED <<owner, live, bounds, directory>>

\* A write fails, or the process ends: what it wrote so far stays.
Stop(p) ==
    /\ pc[p] # "idle" /\ faults < MaxFaults
    /\ End(p)
    /\ faults' = faults + 1
    /\ DropAccumulation(p)
    /\ lone' = IF Accumulating(p) THEN 0 ELSE lone
    /\ UNCHANGED <<file, owner, live, commands, overrides, overlapped>>

Next == \E p \in Processes :
    \/ \E c \in Commands, s \in Issued \cup {NoSession} : Begin(p, c, s)
    \/ Reply(p) \/ Refuse(p) \/ LoseReply(p)
    \/ \E m \in Memories : WriteMemory(p, m)
    \/ Accumulated(p) \/ Rejected(p) \/ OpenFile(p) \/ FillFile(p) \/ Stop(p)

Spec == Init /\ [][Next]_vars

-----------------------------------------------------------------------------
TypeOK ==
    /\ file \in Seq(State) /\ Len(file) <= 2
    /\ owner \in [Sessions -> Accounts \cup {None}] /\ live \subseteq Issued
    /\ pc \in [Processes -> Stages]
    /\ command \in [Processes -> Commands]
    /\ snapshot \in [Processes -> State] /\ text \in [Processes -> State]
    /\ env \in [Processes -> Issued \cup {NoSession}]
    /\ commands \in 0 .. MaxCommands /\ faults \in 0 .. MaxFaults
    /\ overrides \in 0 .. MaxOverrides /\ overlapped \in BOOLEAN /\ lone \in Nat

\* A state is consistent when the claim in it was made by the account of its session.
OfOneAccount(state) ==
    state.session # NoSession /\ state.agent # None => owner[state.session] = state.agent

\* Whatever commands overlap, replies are lost, writes tear or processes die,
\* the state a command reads never pairs the session of one account with the
\* agent another account claimed; only a session of the environment can do that.
IdentityIsOfOneAccount == overrides = 0 => OfOneAccount(ReadState)

\* A session that was revoked or replaced comes back into the file, or stays
\* there, only when a reply or a write was lost, when a command read the file
\* before the revocation was written, or when the environment named it.
DeadSessionsStayOut ==
    ReadState.session \in Issued \ live /\ (\A p \in Processes : pc[p] = "idle")
        => faults > 0 \/ overlapped \/ overrides > 0

\* A run that accumulates with no other run at it, and is not cut short, leaves
\* a directory that tells of it alone: no memory is missing, torn or of another
\* run.  So it is of a run that failed, whatever other commands overlap it, and
\* whatever runs that overlapped or died had left there.  (While two runs write,
\* and until a third has written, a reader may be told of both.)
AccumulationIsOfOneRun ==
    lone # 0 /\ (\A p \in Processes : ~Accumulating(p))
        => ReadTogether = {lone}

================================================================================
