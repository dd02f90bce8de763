---------------------------- MODULE CliState_proofs ----------------------------
(***************************************************************************)
(* The onboarding file never pairs the session of one account with the     *)
(* agent of another, dead sessions stay out of it and a run that           *)
(* accumulates alone leaves its own memories: for any number of processes, *)
(* commands, accounts, memories and faults.                                *)
(***************************************************************************)
EXTENDS CliState, FiniteSetTheorems, TLAPS

-----------------------------------------------------------------------------
(* The inductive invariant.                                                *)

AllIdle == \A p \in Processes : pc[p] = "idle"

\* What TypeOK leaves open: the accumulation and the numbers of the runs.
RunTypes ==
    /\ memory \in [Memories -> Seq(Nat)]
    /\ writes \in [Writers -> [Memories -> {"none", "queued", "opened"}]]
    /\ run \in [Processes -> Nat]

\* The core has numbered the sessions it issued one after the other.
NumberedInOrder == \E k \in Nat : Issued = 1 .. k

\* Every session anybody remembers was issued.
Known(state) == state.session \in Issued \cup {NoSession}
SessionsKnown ==
    /\ \A i \in 1 .. Len(file) : Known(file[i])
    /\ \A p \in Processes : Known(snapshot[p]) /\ Known(text[p])

\* Without an override every state anybody holds is of one account, also those
\* in a file that is torn.
StatesOfOneAccount == overrides = 0 =>
    /\ \A i \in 1 .. Len(file) : OfOneAccount(file[i])
    /\ \A p \in Processes : /\ env[p] = NoSession
                            /\ OfOneAccount(snapshot[p]) /\ OfOneAccount(text[p])

\* Commands that do not overlap run one at a time.
OneAtATime == ~overlapped =>
    \A p, q \in Processes : pc[p] # "idle" /\ pc[q] # "idle" => p = q

\* Undisturbed, a command starts from a session the core accepts and has one to
\* write.
Accepts(state) == state.session \in live \cup {NoSession}
SessionsAlive == faults = 0 /\ ~overlapped /\ overrides = 0 =>
    /\ AllIdle => Accepts(ReadState)
    /\ \A p \in Processes : pc[p] = "asking" => snapshot[p] = ReadState
    /\ \A p \in Processes : pc[p] \in {"asking", "failing"} => Accepts(ReadState)
    /\ \A p \in Processes : pc[p] \in {"accumulating", "saving", "filling"} => Accepts(text[p])

\* A process writes memories only while it accumulates.
WritesOnlyAccumulating == \A p \in Processes :
    ~Accumulating(p) => \A m \in Memories : writes[p][m] = "none"

\* What the run that accumulates alone has written is its own, and what it has
\* opened is empty; once it is through, all memories are its own.
OwnMemory == <<lone>>
LoneRun == lone # 0 =>
    /\ (\A p \in Processes : ~Accumulating(p)) => \A m \in Memories : memory[m] = OwnMemory
    /\ \A p \in Processes : Accumulating(p) =>
         /\ run[p] = lone
         /\ \A q \in Processes : Accumulating(q) => q = p
         /\ \A m \in Memories : /\ writes[p][m] = "none" => memory[m] = OwnMemory
                                /\ writes[p][m] = "opened" => memory[m] = Truncated

IInv == /\ TypeOK /\ RunTypes /\ NumberedInOrder /\ SessionsKnown /\ StatesOfOneAccount
        /\ OneAtATime /\ SessionsAlive /\ WritesOnlyAccumulating /\ LoneRun

-----------------------------------------------------------------------------
(* Facts about states.                                                     *)

\* A blank state is one, of no session and no agent.
LEMMA BlankIsAState ==
    /\ Blank \in State /\ Known(Blank) /\ OfOneAccount(Blank)
    /\ Blank.session = NoSession /\ Blank.agent = None
  BY DEF Blank, State, Known, OfOneAccount

\* What a command reads is a state somebody wrote.
LEMMA ReadStateIsWritten ==
    ASSUME IInv
    PROVE  /\ ReadState \in State /\ Known(ReadState)
           /\ overrides = 0 => OfOneAccount(ReadState)
<1>1. CASE Whole(file)
  <2>1. file \in Seq(State) /\ Len(file) = 1
    BY <1>1 DEF IInv, TypeOK, Whole
  <2>2. 1 \in 1 .. Len(file) /\ Head(file) = file[1] /\ file[1] \in State
    BY <2>1
  <2>3. Known(file[1]) /\ (overrides = 0 => OfOneAccount(file[1]))
    BY <2>2 DEF IInv, SessionsKnown, StatesOfOneAccount
  <2> QED BY <1>1, <2>2, <2>3 DEF ReadState
<1>2. CASE ~ Whole(file)
  BY <1>2, BlankIsAState DEF ReadState
<1> QED BY <1>1, <1>2

\* The core forgets no session it issued, nor whose it is.
CoreGrows ==
    /\ owner' \in [Sessions -> Accounts \cup {None}] /\ live' \subseteq Issued'
    /\ NumberedInOrder' /\ Issued \subseteq Issued'
    /\ \A s \in Issued : owner'[s] = owner[s]

\* A core nobody asked is as it was.
LEMMA CoreStays == ASSUME IInv, owner' = owner, live' = live PROVE CoreGrows
<1>1. Issued' = Issued
  BY DEF Issued
<1> QED BY <1>1 DEF IInv, TypeOK, NumberedInOrder, CoreGrows

\* A new session has a new number.
LEMMA IssuedIsNew ==
    ASSUME IInv, NEW a \in Accounts, Issue(a)
    PROVE  /\ Fresh \in Sessions /\ Fresh \notin Issued /\ Issued' = Issued \cup {Fresh}
           /\ owner' \in [Sessions -> Accounts \cup {None}] /\ owner'[Fresh] = a
           /\ NumberedInOrder' /\ \A s \in Issued : owner'[s] = owner[s]
<1>1. PICK k \in Nat : Issued = 1 .. k
  BY DEF IInv, NumberedInOrder
<1>2. Cardinality(1 .. k) = k
  BY FS_Interval
<1>3. Fresh = k + 1
  BY <1>1, <1>2 DEF Fresh
<1>4. k + 1 \in Sessions /\ owner' = [owner EXCEPT ![k + 1] = a]
  BY <1>3 DEF Issue
<1>5. owner \in [Sessions -> Accounts \cup {None}] /\ a # None
  BY CliAssumption DEF IInv, TypeOK
<1>6. /\ owner' \in [Sessions -> Accounts \cup {None}] /\ owner'[k + 1] = a
      /\ \A s \in Sessions : s # k + 1 => owner'[s] = owner[s]
  BY <1>4, <1>5
<1>7. k + 1 \notin Issued /\ Issued \subseteq Sessions
  BY <1>1 DEF Issued
<1>8. Issued' = Issued \cup {k + 1}
  BY <1>4, <1>5, <1>6, <1>7 DEF Issued
<1>9. Issued' = 1 .. k + 1
  BY <1>1, <1>8
<1> QED BY <1>3, <1>4, <1>6, <1>7, <1>8, <1>9 DEF NumberedInOrder

\* A state somebody remembers keeps its meaning.
LEMMA StateStays ==
    ASSUME CoreGrows, NEW state, Known(state)
    PROVE  Known(state)' /\ (OfOneAccount(state) => OfOneAccount(state)')
  BY DEF CoreGrows, Known, OfOneAccount

\* Whatever the core replies, the state a command makes of it names a session
\* that was issued; it is of one account when the state it read was, and its
\* session is live when that one was.
LEMMA ReplyIsKnown ==
    ASSUME IInv, NEW p \in Processes, NEW replied \in State, Served(p, replied),
           NEW t, t = StateAfter(p, replied)
    PROVE  /\ CoreGrows /\ t \in State /\ Known(t)'
           /\ env[p] = NoSession /\ OfOneAccount(snapshot[p]) => OfOneAccount(t)'
           /\ env[p] = NoSession /\ Accepts(snapshot[p]) => Accepts(t)'
<1> DEFINE e == Effective(p)
           c == command[p]
           s == snapshot[p]
<1>1. /\ s \in State /\ c \in Commands /\ env[p] \in Issued \cup {NoSession}
      /\ Known(s) /\ live \subseteq Issued /\ Issued \subseteq Sessions
      /\ NoSession \notin Sessions
      /\ owner \in [Sessions -> Accounts \cup {None}] /\ None \notin Accounts
  <2>1. /\ s \in State /\ c \in Commands /\ env[p] \in Issued \cup {NoSession}
        /\ live \subseteq Issued
        /\ owner \in [Sessions -> Accounts \cup {None}]
    BY DEF IInv, TypeOK
  <2>2. Known(s)
    BY DEF IInv, SessionsKnown
  <2>3. NoSession \notin Sessions
    BY CliAssumption DEF NoSession, Sessions
  <2> QED BY <2>1, <2>2, <2>3, CliAssumption DEF Issued
<1>2. /\ e \in Issued \cup {NoSession}
      /\ env[p] = NoSession => e = s.session
      /\ c \in NeedSession => e \in live
  BY <1>1 DEF Effective, Known, Served, Accepted
<1>3. s.session \in Sessions \cup {NoSession} /\ s.agent \in Accounts \cup {None}
  BY <1>1 DEF State
<1>4. /\ t = [session |-> SessionAfter(p, replied), agent |-> AgentAfter(p, replied)]
      /\ t.session = SessionAfter(p, replied) /\ t.agent = AgentAfter(p, replied)
  BY DEF StateAfter
<1>5. \A i \in Sessions : i \in Issued <=> owner[i] # None
  BY DEF Issued
<1> HIDE DEF e, c, s
<1>6. CASE c = "sign-in"
  <2>1. PICK a \in Accounts : /\ Issue(a) /\ live' = live \cup {Fresh}
                              /\ replied = [session |-> Fresh, agent |-> None]
    BY <1>6 DEF Served, c
  <2>2. /\ Fresh \in Sessions /\ Fresh \notin Issued /\ Issued' = Issued \cup {Fresh}
        /\ owner' \in [Sessions -> Accounts \cup {None}] /\ owner'[Fresh] = a
        /\ NumberedInOrder' /\ \A i \in Issued : owner'[i] = owner[i]
    BY <2>1, IssuedIsNew
  <2>3. CoreGrows
    BY <1>1, <2>1, <2>2 DEF CoreGrows
  <2>4. t.session = Fresh /\ t.agent = None
    BY <1>1, <1>4, <1>6, <2>1, <2>2
       DEF SessionAfter, AgentAfter, Onboarding, PreserveClaim, c
  <2> QED BY <1>4, <2>1, <2>2, <2>3, <2>4 DEF State, Known, OfOneAccount, Accepts
<1>7. CASE c = "session-refresh"
  <2>1. e \in live
    BY <1>2, <1>7 DEF NeedSession
  <2>2. t.agent = IF replied.agent # None THEN replied.agent ELSE s.agent
    BY <1>4, <1>7 DEF AgentAfter, PreserveClaim, c, s
  <2>3. t.session = IF replied.session # NoSession THEN replied.session ELSE e
    BY <1>4, <1>7 DEF SessionAfter, Onboarding, c, e
  <2>4. \/ /\ Issue(owner[e]) /\ live' = (live \ {e}) \cup {Fresh}
           /\ replied = [session |-> Fresh, agent |-> None]
        \/ /\ owner' = owner /\ live' = live
           /\ replied = [session |-> e, agent |-> None]
    BY <1>7 DEF Served, c, e
  <2>5. CASE /\ Issue(owner[e]) /\ live' = (live \ {e}) \cup {Fresh}
             /\ replied = [session |-> Fresh, agent |-> None]
    <3>1. owner[e] \in Accounts
      BY <1>1, <1>5, <2>1
    <3>2. /\ Fresh \in Sessions /\ Fresh \notin Issued /\ Issued' = Issued \cup {Fresh}
          /\ owner' \in [Sessions -> Accounts \cup {None}] /\ owner'[Fresh] = owner[e]
          /\ NumberedInOrder' /\ \A i \in Issued : owner'[i] = owner[i]
      BY <2>5, <3>1, IssuedIsNew
    <3>3. CoreGrows
      BY <1>1, <2>5, <3>2 DEF CoreGrows
    <3>4. t.session = Fresh /\ t.agent = s.agent
      BY <1>1, <2>2, <2>3, <2>5, <3>2
    <3>5. env[p] = NoSession /\ OfOneAccount(s) => OfOneAccount(t)'
      BY <1>1, <1>2, <2>1, <3>2, <3>4 DEF OfOneAccount
    <3> QED BY <1>3, <1>4, <2>5, <3>2, <3>3, <3>4, <3>5 DEF State, Known, Accepts, s
  <2>6. CASE /\ owner' = owner /\ live' = live
             /\ replied = [session |-> e, agent |-> None]
    <3>1. CoreGrows /\ Issued' = Issued
      BY <2>6, CoreStays DEF Issued
    <3>2. t.session = e /\ t.agent = s.agent
      BY <1>1, <2>2, <2>3, <2>6
    <3>3. env[p] = NoSession /\ OfOneAccount(s) => OfOneAccount(t)'
      BY <1>2, <2>6, <3>2 DEF OfOneAccount
    <3> QED BY <1>1, <1>3, <1>4, <2>1, <2>6, <3>1, <3>2, <3>3 DEF State, Known, Accepts, s
  <2> QED BY <2>4, <2>5, <2>6
<1>8. CASE c = "session-revoke"
  <2>1. live' = live \ {e} /\ owner' = owner /\ replied = Blank
    BY <1>8 DEF Served, c, e
  <2>2. CoreGrows
    <3>1. Issued' = Issued
      BY <2>1 DEF Issued
    <3> QED BY <1>1, <2>1, <3>1 DEF CoreGrows, IInv, NumberedInOrder
  <2>3. t.session = NoSession /\ t.agent = None
    BY <1>4, <1>8, <2>1, BlankIsAState
       DEF SessionAfter, AgentAfter, PreserveClaim, c
  <2> QED BY <1>4, <2>2, <2>3 DEF State, Known, OfOneAccount, Accepts
<1>9. CASE c = "claim-provisional-agent"
  <2>1. /\ live' = live /\ owner' = owner
        /\ replied = [session |-> NoSession, agent |-> owner[e]]
    BY <1>9 DEF Served, c, e
  <2>2. CoreGrows /\ Issued' = Issued
    BY <2>1, CoreStays DEF Issued
  <2>3. e \in live /\ owner[e] \in Accounts
    BY <1>1, <1>2, <1>5, <1>9 DEF NeedSession
  <2>4. t.session = s.session /\ t.agent = owner[e]
    BY <1>1, <1>4, <1>9, <2>1, <2>3
       DEF SessionAfter, AgentAfter, Onboarding, c, s
  <2>5. env[p] = NoSession => OfOneAccount(t)'
    BY <1>2, <2>1, <2>4 DEF OfOneAccount
  <2> QED BY <1>1, <1>3, <1>4, <2>1, <2>2, <2>3, <2>4, <2>5 DEF State, Known, Accepts, s
<1>10. CASE c \in {"provisional-agent", "account-me", "integration-app", "operator-decision"}
  <2>1. live' = live /\ owner' = owner /\ replied = Blank
    BY <1>10 DEF Served, c
  <2>2. CoreGrows /\ Issued' = Issued
    BY <2>1, CoreStays DEF Issued
  <2>3. t.session \in {s.session, e} /\ t.agent \in {s.agent, None}
    BY <1>4, <1>10, <2>1, BlankIsAState
       DEF SessionAfter, AgentAfter, Onboarding, PreserveClaim, c, s, e
  <2>4. env[p] = NoSession => t.session = s.session
    BY <1>2, <2>3
  <2>5. env[p] = NoSession /\ OfOneAccount(s) => OfOneAccount(t)'
    BY <2>1, <2>3, <2>4 DEF OfOneAccount
  <2> QED BY <1>1, <1>2, <1>3, <1>4, <2>1, <2>2, <2>3, <2>4, <2>5
          DEF State, Known, Accepts, s
<1> QED BY <1>1, <1>6, <1>7, <1>8, <1>9, <1>10 DEF Commands, Onboarding

\* What a write leaves: its text, and perhaps the head of what was there.
LEMMA OverwrittenIs ==
    ASSUME NEW S, NEW x \in S, NEW f \in Seq(S), NEW content \in Overwritten(x, f)
    PROVE  /\ content \in Seq(S) /\ Len(content) \in {1, 2} /\ Len(content) <= 2
           /\ content[1] = x
           /\ Len(content) = 2 => 1 \in 1 .. Len(f) /\ content[2] = f[1]
           /\ f = Truncated => content = <<x>>
<1>1. CASE content = <<x>>
  BY <1>1
<1>2. CASE f # Truncated /\ content = <<x, Head(f)>>
  <2>1. f # <<>> /\ Len(f) \in Nat /\ 1 \in 1 .. Len(f) /\ Head(f) = f[1] /\ f[1] \in S
    BY <1>2 DEF Truncated
  <2> QED BY <1>2, <2>1
<1> QED BY <1>1, <1>2 DEF Overwritten

-----------------------------------------------------------------------------
(* Types.                                                                  *)

\* What a process that ends keeps of itself.
LEMMA EndedProcess ==
    ASSUME IInv, NEW p \in Processes, End(p)
    PROVE  /\ pc' \in [Processes -> Stages]
           /\ command' \in [Processes -> Commands]
           /\ snapshot' \in [Processes -> State] /\ text' \in [Processes -> State]
           /\ env' \in [Processes -> Issued \cup {NoSession}]
           /\ run' \in [Processes -> Nat]
           /\ \A q \in Processes :
                /\ pc'[q] = IF q = p THEN "idle" ELSE pc[q]
                /\ snapshot'[q] \in {snapshot[q], Blank} /\ text'[q] \in {text[q], Blank}
                /\ env'[q] \in {env[q], NoSession}
                /\ q # p => /\ snapshot'[q] = snapshot[q] /\ text'[q] = text[q]
                            /\ run'[q] = run[q] /\ env'[q] = env[q]
  BY BlankIsAState DEF IInv, TypeOK, RunTypes, End, Forget, Commands, Stages

\* What a process keeps of itself once it has its reply or its failure.
LEMMA ForgottenProcess ==
    ASSUME IInv, NEW p \in Processes, Forget(p)
    PROVE  /\ command' \in [Processes -> Commands]
           /\ snapshot' \in [Processes -> State]
           /\ env' \in [Processes -> Issued \cup {NoSession}]
           /\ \A q \in Processes :
                /\ snapshot'[q] \in {snapshot[q], Blank} /\ env'[q] \in {env[q], NoSession}
                /\ q # p => snapshot'[q] = snapshot[q] /\ env'[q] = env[q]
  BY BlankIsAState DEF IInv, TypeOK, Forget, Commands

\* A process whose run begins to accumulate.
LEMMA AccumulatingProcess ==
    ASSUME IInv, NEW p \in Processes, Accumulate(p)
    PROVE  /\ memory' = memory
           /\ writes' \in [Writers -> [Memories -> {"none", "queued", "opened"}]]
           /\ \A m \in Memories : writes'[p][m] = "queued"
           /\ \A q \in Processes : q # p => writes'[q] = writes[q]
           /\ lone' \in Nat /\ lone' \in {0, run[p]}
           /\ lone' # 0 => \A q \in Processes : q # p => ~Accumulating(q)
<1>1. /\ writes \in [Processes -> [Memories -> {"none", "queued", "opened"}]]
      /\ run[p] \in Nat
  BY DEF IInv, RunTypes, Processes
<1>2. memory' = memory /\ writes' = [writes EXCEPT ![p] = [m \in Memories |-> "queued"]]
  BY DEF Accumulate, StartAccumulation
<1>3. lone' = IF \E q \in Processes \ {p} : Accumulating(q) THEN 0 ELSE run[p]
  BY DEF Accumulate
<1> QED BY <1>1, <1>2, <1>3 DEF Processes

\* A process whose request fails: it ends, or it is a run that accumulates.
LEMMA FailedProcess ==
    ASSUME IInv, NEW p \in Processes, Fail(p)
    PROVE  /\ pc' \in [Processes -> Stages]
           /\ command' \in [Processes -> Commands]
           /\ snapshot' \in [Processes -> State] /\ text' \in [Processes -> State]
           /\ env' \in [Processes -> Issued \cup {NoSession}]
           /\ run' \in [Processes -> Nat]
           /\ memory' = memory
           /\ writes' \in [Writers -> [Memories -> {"none", "queued", "opened"}]]
           /\ lone' \in Nat
           /\ pc'[p] \in {"idle", "failing"}
           /\ \A q \in Processes :
                /\ q # p => pc'[q] = pc[q]
                /\ snapshot'[q] \in {snapshot[q], Blank} /\ text'[q] \in {text[q], Blank}
                /\ env'[q] \in {env[q], NoSession}
           /\ \/ pc'[p] = "idle" /\ End(p) /\ UNCHANGED directory
              \/ pc'[p] = "failing" /\ Accumulate(p) /\ run' = run
<1>1. TypeOK /\ RunTypes
  BY DEF IInv
<1>2. CASE End(p) /\ UNCHANGED directory
  BY <1>1, <1>2, EndedProcess DEF TypeOK, RunTypes, directory, accumulation
<1>3. CASE /\ pc' = [pc EXCEPT ![p] = "failing"] /\ Accumulate(p)
           /\ Forget(p) /\ UNCHANGED <<text, run>>
  <2>1. pc' \in [Processes -> Stages] /\ pc'[p] = "failing"
    BY <1>1, <1>3 DEF TypeOK, Stages
  <2> QED BY <1>1, <1>3, <2>1, ForgottenProcess, AccumulatingProcess DEF TypeOK, RunTypes
<1> QED BY <1>2, <1>3 DEF Fail

\* The accumulation of a process that stops.
LEMMA DroppedAccumulation ==
    ASSUME IInv, NEW p \in Processes, DropAccumulation(p)
    PROVE  /\ memory' = memory
           /\ writes' \in [Writers -> [Memories -> {"none", "queued", "opened"}]]
           /\ \A m \in Memories : writes'[p][m] = "none"
           /\ \A q \in Processes : q # p => writes'[q] = writes[q]
  BY DEF IInv, RunTypes, DropAccumulation, Processes

\* Sessions issued stay so in the environments.
LEMMA TypesWith ==
    ASSUME IInv, CoreGrows,
           file' \in Seq(State), Len(file') <= 2,
           pc' \in [Processes -> Stages],
           command' \in [Processes -> Commands],
           snapshot' \in [Processes -> State], text' \in [Processes -> State],
           env' \in [Processes -> Issued \cup {NoSession}],
           commands' \in 0 .. MaxCommands, faults' \in 0 .. MaxFaults,
           overrides' \in 0 .. MaxOverrides, overlapped' \in BOOLEAN, lone' \in Nat
    PROVE  TypeOK'
<1>1. env' \in [Processes -> Issued' \cup {NoSession}]
  BY DEF CoreGrows
<1> QED BY <1>1 DEF TypeOK, CoreGrows

\* Every command keeps the types, and the core only grows.
LEMMA NextTypes == IInv /\ Next => TypeOK' /\ RunTypes' /\ CoreGrows
<1> SUFFICES ASSUME IInv, NEW p \in Processes,
                    \/ \E c \in Commands, s \in Issued \cup {NoSession} : Begin(p, c, s)
                    \/ Reply(p) \/ Refuse(p) \/ LoseReply(p)
                    \/ \E m \in Memories : WriteMemory(p, m)
                    \/ Accumulated(p) \/ Rejected(p) \/ OpenFile(p) \/ FillFile(p) \/ Stop(p)
             PROVE  TypeOK' /\ RunTypes' /\ CoreGrows
  BY DEF Next
<1>1. TypeOK /\ RunTypes
  BY DEF IInv
<1>2. MaxCommands \in Nat /\ MaxFaults \in Nat /\ MaxOverrides \in Nat
  BY CliAssumption
<1>3. CASE \E c \in Commands, s \in Issued \cup {NoSession} : Begin(p, c, s)
  <2>1. PICK c \in Commands, s \in Issued \cup {NoSession} : Begin(p, c, s)
    BY <1>3
  <2>2. CoreGrows
    BY <2>1, CoreStays DEF Begin
  <2>3. commands' \in 0 .. MaxCommands /\ overrides' \in 0 .. MaxOverrides
    BY <1>1, <1>2, <2>1 DEF Begin, TypeOK
  <2>4. /\ pc' \in [Processes -> Stages]
        /\ command' \in [Processes -> Commands]
        /\ snapshot' \in [Processes -> State] /\ text' \in [Processes -> State]
        /\ env' \in [Processes -> Issued \cup {NoSession}]
    BY <1>1, <2>1, ReadStateIsWritten DEF Begin, TypeOK, Stages
  <2>5. /\ file' \in Seq(State) /\ Len(file') <= 2 /\ faults' \in 0 .. MaxFaults
        /\ overlapped' \in BOOLEAN /\ lone' \in Nat
    BY <1>1, <2>1 DEF Begin, TypeOK, directory
  <2>6. RunTypes'
    <3>1. commands' \in Nat /\ run' = [run EXCEPT ![p] = commands']
      BY <1>2, <2>1, <2>3 DEF Begin
    <3> QED BY <1>1, <2>1, <3>1 DEF Begin, RunTypes, directory, accumulation
  <2> QED BY <2>2, <2>3, <2>4, <2>5, <2>6, TypesWith
<1>4. CASE Reply(p)
  <2>1. PICK replied \in State : /\ Served(p, replied)
                                 /\ text' = [text EXCEPT ![p] = StateAfter(p, replied)]
    BY <1>4 DEF Reply
  <2>2. CoreGrows /\ StateAfter(p, replied) \in State
    BY <2>1, ReplyIsKnown
  <2>3. /\ file' = file /\ run' = run /\ commands' = commands /\ faults' = faults
        /\ overrides' = overrides /\ overlapped' = overlapped /\ Forget(p)
    BY <1>4 DEF Reply, bounds
  <2>4. pc' \in [Processes -> Stages]
    BY <1>1, <1>4 DEF Reply, TypeOK, Stages
  <2>5. /\ memory' = memory /\ lone' \in Nat
        /\ writes' \in [Writers -> [Memories -> {"none", "queued", "opened"}]]
    <3>1. CASE Accumulate(p)
      BY <3>1, AccumulatingProcess
    <3>2. CASE UNCHANGED directory
      BY <1>1, <3>2 DEF directory, accumulation, TypeOK, RunTypes
    <3> QED BY <1>4, <3>1, <3>2 DEF Reply
  <2>6. TypeOK'
    BY <1>1, <2>1, <2>2, <2>3, <2>4, <2>5, ForgottenProcess, TypesWith DEF TypeOK
  <2> QED BY <1>1, <2>2, <2>3, <2>5, <2>6 DEF RunTypes
<1>5. CASE Refuse(p)
  <2>1. /\ Fail(p) /\ file' = file /\ owner' = owner /\ live' = live /\ commands' = commands
        /\ faults' = faults /\ overrides' = overrides /\ overlapped' = overlapped
    BY <1>5 DEF Refuse, bounds
  <2>2. CoreGrows
    BY <2>1, CoreStays
  <2>3. TypeOK'
    BY <1>1, <2>1, <2>2, FailedProcess, TypesWith DEF TypeOK
  <2> QED BY <1>1, <2>1, <2>2, <2>3, FailedProcess DEF RunTypes
<1>6. CASE LoseReply(p)
  <2>1. /\ Fail(p) /\ file' = file /\ commands' = commands /\ faults < MaxFaults
        /\ faults' = faults + 1 /\ overrides' = overrides /\ overlapped' = overlapped
    BY <1>6 DEF LoseReply
  <2>2. PICK replied \in State : Served(p, replied)
    BY <1>6 DEF LoseReply
  <2>3. CoreGrows
    BY <2>2, ReplyIsKnown
  <2>4. faults' \in 0 .. MaxFaults
    BY <1>1, <1>2, <2>1 DEF TypeOK
  <2>5. TypeOK'
    BY <1>1, <2>1, <2>3, <2>4, FailedProcess, TypesWith DEF TypeOK
  <2> QED BY <1>1, <2>1, <2>3, <2>5, FailedProcess DEF RunTypes
<1>7. CASE \E m \in Memories : WriteMemory(p, m)
  <2>1. PICK m \in Memories : WriteMemory(p, m)
    BY <1>7
  <2>2. /\ UNCHANGED <<file, owner, live, process, bounds, lone>>
    BY <2>1 DEF WriteMemory
  <2>3. CoreGrows
    BY <2>2, CoreStays
  <2>4. TypeOK'
    BY <1>1, <2>2, <2>3, TypesWith DEF TypeOK, process, bounds
  <2>5. RunTypes'
    <3>1. CASE OpenMemory(p, m)
      <4>1. Truncated \in Seq(Nat)
        BY DEF Truncated
      <4> QED BY <1>1, <2>2, <3>1, <4>1 DEF OpenMemory, RunTypes, process, Processes
    <3>2. CASE FillMemory(p, m, run[p])
      <4>1. PICK content \in Overwritten(run[p], memory[m]) :
              memory' = [memory EXCEPT ![m] = content]
        BY <3>2 DEF FillMemory
      <4>2. memory[m] \in Seq(Nat) /\ run[p] \in Nat
        BY <1>1 DEF RunTypes
      <4>3. content \in Seq(Nat)
        BY <4>2, OverwrittenIs
      <4> QED BY <1>1, <2>2, <3>2, <4>1, <4>3 DEF FillMemory, RunTypes, process, Processes
    <3> QED BY <2>1, <3>1, <3>2 DEF WriteMemory
  <2> QED BY <2>3, <2>4, <2>5
<1>8. CASE Accumulated(p)
  <2>1. /\ pc' = [pc EXCEPT ![p] = "saving"]
        /\ UNCHANGED <<file, owner, live, command, snapshot, env, text, run, bounds,
                       directory>>
    BY <1>8 DEF Accumulated
  <2>2. CoreGrows
    BY <2>1, CoreStays
  <2>3. TypeOK'
    BY <1>1, <2>1, <2>2, TypesWith DEF TypeOK, bounds, directory, Stages
  <2> QED BY <1>1, <2>1, <2>2, <2>3 DEF RunTypes, directory, accumulation
<1>9. CASE OpenFile(p)
  <2>1. /\ pc' = [pc EXCEPT ![p] = "filling"] /\ file' = Truncated
        /\ UNCHANGED <<owner, live, command, snapshot, env, text, run, bounds, directory>>
    BY <1>9 DEF OpenFile
  <2>2. CoreGrows
    BY <2>1, CoreStays
  <2>3. file' \in Seq(State) /\ Len(file') <= 2
    BY <2>1 DEF Truncated
  <2>4. TypeOK'
    BY <1>1, <2>1, <2>2, <2>3, TypesWith DEF TypeOK, bounds, directory, Stages
  <2> QED BY <1>1, <2>1, <2>2, <2>4 DEF RunTypes, directory, accumulation
<1>10. CASE FillFile(p)
  <2>1. /\ End(p) /\ file' \in Overwritten(text[p], file)
        /\ UNCHANGED <<owner, live, bounds, directory>>
    BY <1>10 DEF FillFile
  <2>2. CoreGrows
    BY <2>1, CoreStays
  <2>3. file' \in Seq(State) /\ Len(file') <= 2
    <3>1. text[p] \in State /\ file \in Seq(State)
      BY <1>1 DEF TypeOK
    <3> QED BY <2>1, <3>1, OverwrittenIs
  <2>4. TypeOK'
    BY <1>1, <2>1, <2>2, <2>3, EndedProcess, TypesWith DEF TypeOK, bounds, directory
  <2> QED BY <1>1, <2>1, <2>2, <2>4, EndedProcess DEF RunTypes, directory, accumulation
<1>11. CASE Stop(p)
  <2>1. /\ End(p) /\ DropAccumulation(p) /\ faults < MaxFaults /\ faults' = faults + 1
        /\ lone' = IF Accumulating(p) THEN 0 ELSE lone
        /\ UNCHANGED <<file, owner, live, commands, overrides, overlapped>>
    BY <1>11 DEF Stop
  <2>2. CoreGrows
    BY <2>1, CoreStays
  <2>3. faults' \in 0 .. MaxFaults
    BY <1>1, <1>2, <2>1 DEF TypeOK
  <2>4. TypeOK'
    BY <1>1, <2>1, <2>2, <2>3, EndedProcess, TypesWith DEF TypeOK
  <2> QED BY <1>1, <2>1, <2>2, <2>4, EndedProcess, DroppedAccumulation DEF RunTypes
<1>12. CASE Rejected(p)
  <2>1. End(p) /\ UNCHANGED <<file, owner, live, bounds, directory>>
    BY <1>12 DEF Rejected
  <2>2. CoreGrows
    BY <2>1, CoreStays
  <2>3. TypeOK'
    BY <1>1, <2>1, <2>2, EndedProcess, TypesWith DEF TypeOK, bounds, directory
  <2> QED BY <1>1, <2>1, <2>2, <2>3, EndedProcess DEF RunTypes, directory, accumulation
<1> QED BY <1>3, <1>4, <1>5, <1>6, <1>7, <1>8, <1>9, <1>10, <1>11, <1>12

-----------------------------------------------------------------------------
(* Whose sessions and claims the states are.                               *)

\* States that were there before, and new ones the core vouches for.
LEMMA StatesKept ==
    ASSUME IInv, CoreGrows,
           \A i \in 1 .. Len(file') :
             \/ \E j \in 1 .. Len(file) : file'[i] = file[j]
             \/ \E q \in Processes : file'[i] = text[q],
           \A q \in Processes : snapshot'[q] \in {snapshot[q], Blank, ReadState},
           \A q \in Processes :
             \/ text'[q] \in {text[q], Blank}
             \/ \E t : text'[q] = t /\ Known(t)' /\ (overrides' = 0 => OfOneAccount(t)'),
           overrides' = 0 => overrides = 0 /\ \A q \in Processes : env'[q] = NoSession
    PROVE  SessionsKnown' /\ StatesOfOneAccount'
<1>1. \A state : Known(state) => Known(state)'
  BY StateStays
<1>2. \A state : Known(state) /\ OfOneAccount(state) => OfOneAccount(state)'
  BY StateStays
<1>3. ASSUME NEW i \in 1 .. Len(file')
      PROVE  Known(file'[i]) /\ (overrides' = 0 => OfOneAccount(file'[i]))
  <2>1. CASE \E j \in 1 .. Len(file) : file'[i] = file[j]
    BY <2>1 DEF IInv, SessionsKnown, StatesOfOneAccount
  <2>2. CASE \E q \in Processes : file'[i] = text[q]
    BY <2>2 DEF IInv, SessionsKnown, StatesOfOneAccount
  <2> QED BY <2>1, <2>2
<1>4. ASSUME NEW q \in Processes
      PROVE  Known(snapshot'[q]) /\ (overrides' = 0 => OfOneAccount(snapshot'[q]))
  BY BlankIsAState, ReadStateIsWritten DEF IInv, SessionsKnown, StatesOfOneAccount
<1>5. ASSUME NEW q \in Processes
      PROVE  \E t : text'[q] = t /\ Known(t)' /\ (overrides' = 0 => OfOneAccount(t)')
  <2>1. CASE text'[q] \in {text[q], Blank}
    <3>1. Known(text'[q]) /\ (overrides' = 0 => OfOneAccount(text'[q]))
      BY <2>1, BlankIsAState DEF IInv, SessionsKnown, StatesOfOneAccount
    <3>2. PICK t : t = text'[q]
      OBVIOUS
    <3>3. Known(t) /\ (overrides' = 0 => OfOneAccount(t))
      BY <3>1, <3>2
    <3> QED BY <1>1, <1>2, <3>2, <3>3
  <2> QED BY <2>1
<1>6. SessionsKnown'
  BY <1>1, <1>3, <1>4, <1>5 DEF SessionsKnown
<1>7. StatesOfOneAccount'
  BY <1>1, <1>2, <1>3, <1>4, <1>5 DEF StatesOfOneAccount
<1> QED BY <1>6, <1>7

\* No command gives a state a session that was not issued, or makes it of two
\* accounts.
LEMMA NextStates == IInv /\ Next => SessionsKnown' /\ StatesOfOneAccount'
<1> SUFFICES ASSUME IInv, CoreGrows, NEW p \in Processes,
                    \/ \E c \in Commands, s \in Issued \cup {NoSession} : Begin(p, c, s)
                    \/ Reply(p) \/ Refuse(p) \/ LoseReply(p)
                    \/ \E m \in Memories : WriteMemory(p, m)
                    \/ Accumulated(p) \/ Rejected(p) \/ OpenFile(p) \/ FillFile(p) \/ Stop(p)
             PROVE  SessionsKnown' /\ StatesOfOneAccount'
  BY NextTypes DEF Next
<1>1. TypeOK /\ (overrides = 0 => \A q \in Processes : env[q] = NoSession)
  BY DEF IInv, StatesOfOneAccount
<1>2. CASE \E c \in Commands, s \in Issued \cup {NoSession} : Begin(p, c, s)
  <2>1. PICK c \in Commands, s \in Issued \cup {NoSession} : Begin(p, c, s)
    BY <1>2
  <2>2. overrides' = 0 => overrides = 0 /\ s = NoSession
    BY <1>1, <2>1 DEF Begin, TypeOK
  <2>3. \A q \in Processes : env'[q] \in {env[q], s} /\ snapshot'[q] \in {snapshot[q], ReadState}
    BY <1>1, <2>1 DEF Begin, TypeOK
  <2>4. file' = file /\ text' = text
    BY <2>1 DEF Begin
  <2>5. \A i \in 1 .. Len(file') : \E j \in 1 .. Len(file) : file'[i] = file[j]
    BY <2>4
  <2> QED BY <1>1, <2>2, <2>3, <2>4, <2>5, StatesKept
<1>3. CASE Reply(p)
  <2>1. PICK replied \in State : /\ Served(p, replied)
                                 /\ text' = [text EXCEPT ![p] = StateAfter(p, replied)]
    BY <1>3 DEF Reply
  <2>2. PICK t : t = StateAfter(p, replied)
    OBVIOUS
  <2>3. Known(t)' /\ (env[p] = NoSession /\ OfOneAccount(snapshot[p]) => OfOneAccount(t)')
    BY <2>1, <2>2, ReplyIsKnown
  <2>4. /\ file' = file /\ Forget(p) /\ overrides' = overrides
    BY <1>3 DEF Reply, bounds
  <2>5. overrides' = 0 => OfOneAccount(t)'
    BY <2>3, <2>4 DEF IInv, StatesOfOneAccount
  <2>6. \A q \in Processes : text'[q] = text[q] \/ text'[q] = t
    BY <1>1, <2>1, <2>2 DEF TypeOK
  <2>7. \A i \in 1 .. Len(file') : \E j \in 1 .. Len(file) : file'[i] = file[j]
    BY <2>4
  <2>8. \A q \in Processes : /\ snapshot'[q] \in {snapshot[q], Blank}
                             /\ env'[q] \in {env[q], NoSession}
    BY <2>4, ForgottenProcess
  <2> QED BY <1>1, <2>3, <2>4, <2>5, <2>6, <2>7, <2>8, StatesKept
<1>4. CASE Refuse(p) \/ LoseReply(p) \/ Stop(p) \/ Rejected(p)
  <2>1. (End(p) \/ Fail(p)) /\ file' = file /\ overrides' = overrides
    BY <1>4 DEF Refuse, LoseReply, Stop, Rejected, bounds
  <2>2. \A i \in 1 .. Len(file') : \E j \in 1 .. Len(file) : file'[i] = file[j]
    BY <2>1
  <2>3. \A q \in Processes : /\ snapshot'[q] \in {snapshot[q], Blank}
                             /\ text'[q] \in {text[q], Blank}
                             /\ env'[q] \in {env[q], NoSession}
    BY <2>1, EndedProcess, FailedProcess
  <2> QED BY <1>1, <2>1, <2>2, <2>3, StatesKept
<1>5. CASE \/ \E m \in Memories : WriteMemory(p, m)
           \/ Accumulated(p)
  <2>1. /\ file' = file /\ snapshot' = snapshot /\ text' = text /\ env' = env
        /\ overrides' = overrides
    BY <1>5 DEF WriteMemory, Accumulated, process, bounds
  <2>2. \A i \in 1 .. Len(file') : \E j \in 1 .. Len(file) : file'[i] = file[j]
    BY <2>1
  <2> QED BY <1>1, <2>1, <2>2, StatesKept
<1>6. CASE OpenFile(p)
  <2>1. /\ file' = <<>> /\ snapshot' = snapshot /\ text' = text /\ env' = env
        /\ overrides' = overrides
    BY <1>6 DEF OpenFile, bounds, Truncated
  <2>2. 1 .. Len(file') = {}
    BY <2>1
  <2> QED BY <1>1, <2>1, <2>2, StatesKept
<1>7. CASE FillFile(p)
  <2>1. End(p) /\ file' \in Overwritten(text[p], file) /\ overrides' = overrides
    BY <1>7 DEF FillFile, bounds
  <2>2. text[p] \in State /\ file \in Seq(State)
    BY <1>1 DEF TypeOK
  <2>3. /\ Len(file') \in {1, 2} /\ file'[1] = text[p]
        /\ Len(file') = 2 => 1 \in 1 .. Len(file) /\ file'[2] = file[1]
    BY <2>1, <2>2, OverwrittenIs
  <2>4. ASSUME NEW i \in 1 .. Len(file')
        PROVE  \/ \E j \in 1 .. Len(file) : file'[i] = file[j]
               \/ \E q \in Processes : file'[i] = text[q]
    <3>1. i = 1 \/ (i = 2 /\ Len(file') = 2)
      <4>1. CASE Len(file') = 1
        BY <4>1
      <4>2. CASE Len(file') = 2
        BY <4>2
      <4> QED BY <2>3, <4>1, <4>2
    <3> QED BY <2>3, <3>1
  <2>5. \A q \in Processes : /\ snapshot'[q] \in {snapshot[q], Blank}
                             /\ text'[q] \in {text[q], Blank}
                             /\ env'[q] \in {env[q], NoSession}
    BY <2>1, EndedProcess
  <2> QED BY <1>1, <2>1, <2>4, <2>5, StatesKept
<1> QED BY <1>2, <1>3, <1>4, <1>5, <1>6, <1>7

-----------------------------------------------------------------------------
(* One command at a time.                                                  *)

\* What a step does to the counters and to the history.
LEMMA CountersMove ==
    ASSUME NEW p \in Processes
    PROVE  /\ \A c, s : Begin(p, c, s) =>
                /\ faults' = faults /\ overrides' \in {overrides, overrides + 1}
                /\ overlapped => overlapped'
           /\ \/ Reply(p) \/ Refuse(p) \/ Accumulated(p) \/ Rejected(p) \/ OpenFile(p)
              \/ FillFile(p) \/ \E m : WriteMemory(p, m)
              => UNCHANGED <<faults, overrides, overlapped>>
           /\ LoseReply(p) \/ Stop(p) =>
                faults' = faults + 1 /\ overrides' = overrides /\ overlapped' = overlapped
<1>1. \A c, s : Begin(p, c, s) =>
        /\ faults' = faults /\ overrides' \in {overrides, overrides + 1}
        /\ overlapped => overlapped'
  BY DEF Begin
<1>2. Reply(p) \/ Refuse(p) \/ Accumulated(p) \/ Rejected(p) =>
        UNCHANGED <<faults, overrides, overlapped>>
  BY DEF Reply, Refuse, Accumulated, Rejected, bounds
<1>3. OpenFile(p) \/ FillFile(p) => UNCHANGED <<faults, overrides, overlapped>>
  BY DEF OpenFile, FillFile, bounds
<1>4. \A m : WriteMemory(p, m) => UNCHANGED <<faults, overrides, overlapped>>
  BY DEF WriteMemory, bounds
<1>5. LoseReply(p) \/ Stop(p) =>
        faults' = faults + 1 /\ overrides' = overrides /\ overlapped' = overlapped
  BY DEF LoseReply, Stop
<1> QED BY <1>1, <1>2, <1>3, <1>4, <1>5

\* Which of the processes move, and that only a beginning command lets two be
\* under way.
LEMMA NextOneAtATime == IInv /\ Next => OneAtATime'
<1> SUFFICES ASSUME IInv, ~ overlapped', NEW p \in Processes,
                    \/ \E c \in Commands, s \in Issued \cup {NoSession} : Begin(p, c, s)
                    \/ Reply(p) \/ Refuse(p) \/ LoseReply(p)
                    \/ \E m \in Memories : WriteMemory(p, m)
                    \/ Accumulated(p) \/ Rejected(p) \/ OpenFile(p) \/ FillFile(p) \/ Stop(p)
             PROVE  \A q, r \in Processes : pc'[q] # "idle" /\ pc'[r] # "idle" => q = r
  BY DEF Next, OneAtATime
<1>1. pc \in [Processes -> Stages]
  BY DEF IInv, TypeOK
<1>2. CASE \E c \in Commands, s \in Issued \cup {NoSession} : Begin(p, c, s)
  <2>1. (\A q \in Processes : pc[q] = "idle") /\ pc' = [pc EXCEPT ![p] = "asking"]
    BY <1>2 DEF Begin
  <2> QED BY <1>1, <2>1
<1>3. CASE ~ (\E c \in Commands, s \in Issued \cup {NoSession} : Begin(p, c, s))
  <2>1. ~ overlapped
    BY <1>3, CountersMove
  <2>2. \A q, r \in Processes : pc[q] # "idle" /\ pc[r] # "idle" => q = r
    BY <2>1 DEF IInv, OneAtATime
  <2>3. \A q \in Processes : pc'[q] # "idle" => pc[q] # "idle"
    <3>1. CASE Reply(p)
      BY <1>1, <3>1 DEF Reply, Served
    <3>2. CASE Rejected(p) \/ FillFile(p) \/ Stop(p)
      BY <3>2, EndedProcess DEF Rejected, FillFile, Stop
    <3>3. CASE \E m \in Memories : WriteMemory(p, m)
      BY <3>3 DEF WriteMemory, process
    <3>4. CASE Accumulated(p) \/ OpenFile(p)
      BY <1>1, <3>4 DEF Accumulated, OpenFile
    <3>5. CASE Refuse(p) \/ LoseReply(p)
      BY <3>5, FailedProcess DEF Refuse, LoseReply, Served
    <3> QED BY <1>3, <3>1, <3>2, <3>3, <3>4, <3>5
  <2> QED BY <2>2, <2>3
<1> QED BY <1>2, <1>3

\* Undisturbed, a process under way is the only one.
LEMMA Alone ==
    ASSUME IInv, ~ overlapped, NEW p \in Processes, pc[p] # "idle", NEW q \in Processes, q # p
    PROVE  pc[q] = "idle"
  BY DEF IInv, OneAtATime

-----------------------------------------------------------------------------
(* Sessions alive.                                                         *)

\* What a command reads of a file written whole, or torn.
LEMMA ReadStateAfterWrite ==
    ASSUME NEW x, NEW f \in Seq(State), x \in State, NEW content \in Overwritten(x, f)
    PROVE  (IF Whole(content) THEN Head(content) ELSE Blank) \in {x, Blank}
<1>1. content \in Seq(State) /\ Len(content) \in {1, 2} /\ content[1] = x
  BY OverwrittenIs
<1>2. CASE Whole(content)
  <2>1. Head(content) = content[1]
    BY <1>1
  <2> QED BY <1>1, <1>2, <2>1
<1>3. CASE ~ Whole(content)
  BY <1>3
<1> QED BY <1>2, <1>3

\* A command alone in an undisturbed behaviour passes on a live session.
LEMMA NextAlive == IInv /\ Next => SessionsAlive'
<1> SUFFICES ASSUME IInv, NEW p \in Processes, faults' = 0, ~ overlapped', overrides' = 0,
                    \/ \E c \in Commands, s \in Issued \cup {NoSession} : Begin(p, c, s)
                    \/ Reply(p) \/ Refuse(p) \/ LoseReply(p)
                    \/ \E m \in Memories : WriteMemory(p, m)
                    \/ Accumulated(p) \/ Rejected(p) \/ OpenFile(p) \/ FillFile(p) \/ Stop(p)
             PROVE  /\ AllIdle' => Accepts(ReadState)'
                    /\ \A q \in Processes : pc'[q] = "asking" => snapshot'[q] = ReadState'
                    /\ \A q \in Processes : pc'[q] \in {"asking", "failing"} =>
                         Accepts(ReadState)'
                    /\ \A q \in Processes : pc'[q] \in {"accumulating", "saving", "filling"} =>
                         Accepts(text[q])'
  BY DEF Next, SessionsAlive
<1>1. TypeOK
  BY DEF IInv
<1>2. pc \in [Processes -> Stages]
  BY <1>1 DEF TypeOK
<1>3. faults \in Nat /\ overrides \in Nat
  BY <1>1, CliAssumption DEF TypeOK
<1>4. faults = 0 /\ ~ overlapped /\ overrides = 0
  BY <1>3, CountersMove
<1>5. /\ AllIdle => Accepts(ReadState)
      /\ \A q \in Processes : pc[q] = "asking" => snapshot[q] = ReadState
      /\ \A q \in Processes : pc[q] \in {"asking", "failing"} => Accepts(ReadState)
      /\ \A q \in Processes :
           pc[q] \in {"accumulating", "saving", "filling"} => Accepts(text[q])
      /\ \A q \in Processes : env[q] = NoSession
  BY <1>4 DEF IInv, SessionsAlive, StatesOfOneAccount
<1>6. \A q \in Processes : pc[p] # "idle" /\ q # p => pc[q] = "idle"
  BY <1>4, Alone
<1>7. CASE \E c \in Commands, s \in Issued \cup {NoSession} : Begin(p, c, s)
  <2>1. PICK c \in Commands, s \in Issued \cup {NoSession} : Begin(p, c, s)
    BY <1>7
  <2>2. AllIdle
    BY <2>1 DEF Begin, AllIdle
  <2>3. file' = file /\ live' = live /\ ReadState' = ReadState
    BY <2>1 DEF Begin, ReadState
  <2>4. Accepts(ReadState)'
    BY <1>5, <2>2, <2>3 DEF Accepts
  <2>5. \A q \in Processes : pc'[q] = IF q = p THEN "asking" ELSE "idle"
    BY <1>2, <2>1, <2>2 DEF Begin, AllIdle
  <2>6. snapshot'[p] = ReadState
    BY <1>1, <2>1 DEF Begin, TypeOK
  <2> QED BY <2>3, <2>4, <2>5, <2>6
<1>8. CASE Reply(p)
  <2>1. PICK replied \in State : /\ Served(p, replied)
                                 /\ text' = [text EXCEPT ![p] = StateAfter(p, replied)]
    BY <1>8 DEF Reply
  <2>2. PICK t : t = StateAfter(p, replied)
    OBVIOUS
  <2>3. pc[p] = "asking"
    BY <2>1 DEF Served
  <2>4. Accepts(snapshot[p]) /\ env[p] = NoSession
    BY <1>5, <2>3
  <2>5. Accepts(t)'
    BY <2>1, <2>2, <2>4, ReplyIsKnown
  <2>6. text'[p] = t
    BY <1>1, <2>1, <2>2 DEF TypeOK
  <2>7. \A q \in Processes : IF q = p THEN pc'[q] \in {"accumulating", "saving"}
                                      ELSE pc'[q] = "idle"
    BY <1>2, <1>6, <1>8, <2>3 DEF Reply
  <2> QED BY <2>5, <2>6, <2>7 DEF AllIdle
<1>9. CASE Refuse(p)
  <2>1. pc[p] = "asking" /\ Fail(p) /\ file' = file /\ live' = live
    BY <1>9 DEF Refuse
  <2>2. Accepts(ReadState)'
    BY <1>5, <2>1 DEF Accepts, ReadState
  <2>3. \A q \in Processes : pc'[q] \in {"idle", "failing"}
    BY <1>6, <2>1, FailedProcess
  <2> QED BY <2>2, <2>3
<1>10. CASE LoseReply(p) \/ Stop(p)
  BY <1>3, <1>4, <1>10 DEF LoseReply, Stop
<1>11. CASE \E m \in Memories : WriteMemory(p, m)
  <2>1. /\ pc' = pc /\ text' = text /\ snapshot' = snapshot /\ file' = file /\ live' = live
    BY <1>11 DEF WriteMemory, process
  <2> QED BY <1>5, <2>1 DEF AllIdle, Accepts, ReadState
<1>12. CASE Accumulated(p) \/ OpenFile(p)
  <2>1. /\ pc[p] \in {"accumulating", "saving"} /\ text' = text /\ live' = live
        /\ pc'[p] \in {"saving", "filling"}
        /\ \A q \in Processes : q # p => pc'[q] = pc[q]
    BY <1>2, <1>12 DEF Accumulated, OpenFile
  <2>2. Accepts(text[p])'
    BY <1>5, <2>1 DEF Accepts
  <2>3. \A q \in Processes : q # p => pc'[q] = "idle"
    BY <1>6, <2>1
  <2> QED BY <2>1, <2>2, <2>3 DEF AllIdle
<1>13. CASE FillFile(p)
  <2>1. pc[p] = "filling" /\ End(p) /\ file' \in Overwritten(text[p], file) /\ live' = live
    BY <1>13 DEF FillFile
  <2>2. text[p] \in State /\ file \in Seq(State) /\ Accepts(text[p])
    BY <1>1, <1>5, <2>1 DEF TypeOK
  <2>3. ReadState' \in {text[p], Blank}
    BY <2>1, <2>2, ReadStateAfterWrite DEF ReadState
  <2>4. Accepts(ReadState)'
    BY <2>1, <2>2, <2>3, BlankIsAState DEF Accepts
  <2>5. \A q \in Processes : pc'[q] = "idle"
    BY <1>6, <2>1, EndedProcess
  <2> QED BY <2>4, <2>5
<1>14. CASE Rejected(p)
  <2>1. pc[p] = "failing" /\ End(p) /\ file' = file /\ live' = live
    BY <1>14 DEF Rejected
  <2>2. Accepts(ReadState)'
    BY <1>5, <2>1 DEF Accepts, ReadState
  <2>3. \A q \in Processes : pc'[q] = "idle"
    BY <1>6, <2>1, EndedProcess
  <2> QED BY <2>2, <2>3
<1> QED BY <1>7, <1>8, <1>9, <1>10, <1>11, <1>12, <1>13, <1>14

-----------------------------------------------------------------------------
(* The memories.                                                           *)

\* A step that begins, ends and writes no accumulation leaves everybody's alone.
Elsewhere(p) ==
    /\ memory' = memory /\ lone' = lone
    /\ ~Accumulating(p) /\ ~Accumulating(p)'
    /\ \A m \in Memories : writes'[p][m] = "none"
    /\ \A q \in Processes : q # p => /\ pc'[q] = pc[q] /\ run'[q] = run[q]
                                     /\ writes'[q] = writes[q]

\* A step that begins one: of a run that succeeded or of one that failed.
BeginsToAccumulate(p) ==
    /\ ~Accumulating(p) /\ Accumulating(p)' /\ Accumulate(p)
    /\ run' = run /\ \A q \in Processes : q # p => pc'[q] = pc[q]

\* A step that ends one, whose memories are all written.
EndsToAccumulate(p) ==
    /\ Accumulating(p) /\ ~Accumulating(p)' /\ ~Writing(p)
    /\ UNCHANGED directory
    /\ \A q \in Processes : q # p => pc'[q] = pc[q]

\* What a step has to do with the accumulation.
LEMMA StepsOfAccumulation ==
    ASSUME IInv, NEW p \in Processes,
                    \/ \E c \in Commands, s \in Issued \cup {NoSession} : Begin(p, c, s)
                    \/ Reply(p) \/ Refuse(p) \/ LoseReply(p)
                    \/ \E m \in Memories : WriteMemory(p, m)
                    \/ Accumulated(p) \/ Rejected(p) \/ OpenFile(p) \/ FillFile(p) \/ Stop(p)
    PROVE  \/ Elsewhere(p) \/ BeginsToAccumulate(p) \/ EndsToAccumulate(p)
           \/ \E m \in Memories : WriteMemory(p, m)
           \/ Accumulating(p) /\ Stop(p)
<1>1. /\ pc \in [Processes -> Stages] /\ run \in [Processes -> Nat]
      /\ ~Accumulating(p) => \A m \in Memories : writes[p][m] = "none"
  BY DEF IInv, TypeOK, RunTypes, WritesOnlyAccumulating
<1>2. CASE \E c \in Commands, s \in Issued \cup {NoSession} : Begin(p, c, s)
  <2>1. PICK c \in Commands, s \in Issued \cup {NoSession} : Begin(p, c, s)
    BY <1>2
  <2>2. /\ pc[p] = "idle" /\ pc' = [pc EXCEPT ![p] = "asking"]
        /\ run' = [run EXCEPT ![p] = commands'] /\ UNCHANGED directory
    BY <2>1 DEF Begin
  <2> QED BY <1>1, <2>2 DEF Elsewhere, Accumulating, directory, accumulation
<1>3. CASE Reply(p)
  <2>1. pc[p] = "asking" /\ run' = run
    BY <1>3 DEF Reply, Served
  <2>2. CASE pc' = [pc EXCEPT ![p] = "accumulating"] /\ Accumulate(p)
    BY <1>1, <2>1, <2>2 DEF BeginsToAccumulate, Accumulating
  <2>3. CASE pc' = [pc EXCEPT ![p] = "saving"] /\ UNCHANGED directory
    BY <1>1, <2>1, <2>3 DEF Elsewhere, Accumulating, directory, accumulation
  <2> QED BY <1>3, <2>2, <2>3 DEF Reply
<1>4. CASE Refuse(p) \/ LoseReply(p)
  <2>1. pc[p] = "asking" /\ Fail(p)
    BY <1>4 DEF Refuse, LoseReply, Served
  <2>2. CASE pc'[p] = "idle" /\ End(p) /\ UNCHANGED directory
    BY <1>1, <2>1, <2>2, EndedProcess DEF Elsewhere, Accumulating, directory, accumulation
  <2>3. CASE pc'[p] = "failing" /\ Accumulate(p) /\ run' = run
    BY <2>1, <2>3, FailedProcess DEF BeginsToAccumulate, Accumulating
  <2> QED BY <2>1, <2>2, <2>3, FailedProcess
<1>5. CASE Accumulated(p)
  BY <1>1, <1>5 DEF Accumulated, EndsToAccumulate, Accumulating
<1>6. CASE Rejected(p)
  BY <1>6, EndedProcess DEF Rejected, EndsToAccumulate, Accumulating
<1>7. CASE OpenFile(p)
  BY <1>1, <1>7 DEF OpenFile, Elsewhere, Accumulating, directory, accumulation
<1>8. CASE FillFile(p)
  BY <1>1, <1>8, EndedProcess DEF FillFile, Elsewhere, Accumulating, directory, accumulation
<1>9. CASE Stop(p) /\ ~Accumulating(p)
  <2>1. End(p) /\ DropAccumulation(p) /\ lone' = lone
    BY <1>9 DEF Stop
  <2> QED BY <1>9, <2>1, EndedProcess, DroppedAccumulation DEF Elsewhere, Accumulating
<1> QED BY <1>2, <1>3, <1>4, <1>5, <1>6, <1>7, <1>8, <1>9

\* Memories are written by the processes that accumulate.
LEMMA NextWrites == IInv /\ Next => WritesOnlyAccumulating'
<1> SUFFICES ASSUME IInv, NEW p \in Processes,
                    \/ \E c \in Commands, s \in Issued \cup {NoSession} : Begin(p, c, s)
                    \/ Reply(p) \/ Refuse(p) \/ LoseReply(p)
                    \/ \E m \in Memories : WriteMemory(p, m)
                    \/ Accumulated(p) \/ Rejected(p) \/ OpenFile(p) \/ FillFile(p) \/ Stop(p),
                    NEW q \in Processes, ~Accumulating(q)', NEW n \in Memories
             PROVE  writes'[q][n] = "none"
  BY DEF Next, WritesOnlyAccumulating
<1>1. /\ writes \in [Processes -> [Memories -> {"none", "queued", "opened"}]]
      /\ ~Accumulating(q) => writes[q][n] = "none"
  BY DEF IInv, RunTypes, WritesOnlyAccumulating, Processes
<1>2. CASE Elsewhere(p)
  BY <1>1, <1>2 DEF Elsewhere, Accumulating
<1>3. CASE BeginsToAccumulate(p)
  <2>1. q # p
    BY <1>3 DEF BeginsToAccumulate
  <2> QED BY <1>1, <1>3, <2>1, AccumulatingProcess DEF BeginsToAccumulate, Accumulating
<1>4. CASE EndsToAccumulate(p)
  <2>1. writes' = writes /\ \A m \in Memories : writes[p][m] = "none"
    BY <1>4 DEF EndsToAccumulate, Writing, directory, accumulation
  <2> QED BY <1>1, <1>4, <2>1 DEF EndsToAccumulate, Accumulating
<1>5. CASE \E m \in Memories : WriteMemory(p, m)
  <2>1. PICK m \in Memories : WriteMemory(p, m)
    BY <1>5
  <2>2. pc' = pc /\ Accumulating(p) /\ q # p
    BY <2>1 DEF WriteMemory, process, Accumulating
  <2>3. writes'[q] = writes[q]
    BY <1>1, <2>1, <2>2 DEF WriteMemory, OpenMemory, FillMemory, Processes
  <2> QED BY <1>1, <2>2, <2>3 DEF Accumulating
<1>6. CASE Stop(p)
  <2>1. End(p) /\ DropAccumulation(p)
    BY <1>6 DEF Stop
  <2> QED BY <1>1, <2>1, DroppedAccumulation, EndedProcess DEF Accumulating
<1> QED BY <1>2, <1>3, <1>4, <1>5, <1>6, StepsOfAccumulation

\* The memories of a run that accumulates alone are its own.
LEMMA NextLoneRun == IInv /\ Next => LoneRun'
<1> SUFFICES ASSUME IInv, NEW p \in Processes, lone' # 0,
                    \/ \E c \in Commands, s \in Issued \cup {NoSession} : Begin(p, c, s)
                    \/ Reply(p) \/ Refuse(p) \/ LoseReply(p)
                    \/ \E m \in Memories : WriteMemory(p, m)
                    \/ Accumulated(p) \/ Rejected(p) \/ OpenFile(p) \/ FillFile(p) \/ Stop(p)
             PROVE  /\ (\A q \in Processes : ~Accumulating(q)') =>
                         \A m \in Memories : memory'[m] = OwnMemory'
                    /\ \A q \in Processes : Accumulating(q)' =>
                         /\ run'[q] = lone'
                         /\ \A r \in Processes : Accumulating(r)' => r = q
                         /\ \A m \in Memories :
                              /\ writes'[q][m] = "none" => memory'[m] = OwnMemory'
                              /\ writes'[q][m] = "opened" => memory'[m] = Truncated
  BY DEF Next, LoneRun
<1>1. /\ writes \in [Processes -> [Memories -> {"none", "queued", "opened"}]]
      /\ memory \in [Memories -> Seq(Nat)]
  BY DEF IInv, RunTypes, Processes
<1>2. LoneRun
  BY DEF IInv
<1>3. CASE Elsewhere(p)
  <2>1. \A q \in Processes : Accumulating(q)' <=> Accumulating(q)
    BY <1>3 DEF Elsewhere, Accumulating
  <2>2. lone' = lone /\ memory' = memory /\ lone # 0
    BY <1>3 DEF Elsewhere
  <2>6. OwnMemory' = OwnMemory
    BY <2>2 DEF OwnMemory
  <2>3. \A q \in Processes : Accumulating(q) => run'[q] = run[q] /\ writes'[q] = writes[q]
    BY <1>3 DEF Elsewhere
  <2>4. (\A q \in Processes : ~Accumulating(q)) => \A m \in Memories : memory[m] = OwnMemory
    BY <1>2, <2>2 DEF LoneRun
  <2>5. ASSUME NEW q \in Processes, Accumulating(q)
        PROVE  /\ run[q] = lone /\ \A t \in Processes : Accumulating(t) => t = q
               /\ \A m \in Memories : /\ writes[q][m] = "none" => memory[m] = OwnMemory
                                      /\ writes[q][m] = "opened" => memory[m] = Truncated
    BY <1>2, <2>2, <2>5 DEF LoneRun
  <2> QED BY <2>1, <2>2, <2>3, <2>4, <2>5, <2>6
<1>4. CASE BeginsToAccumulate(p)
  <2>1. \A q \in Processes : Accumulating(q)' <=> q = p
    BY <1>4, AccumulatingProcess DEF BeginsToAccumulate, Accumulating
  <2>2. run'[p] = lone' /\ \A m \in Memories : writes'[p][m] = "queued"
    BY <1>4, AccumulatingProcess DEF BeginsToAccumulate
  <2> QED BY <2>1, <2>2
<1>5. CASE EndsToAccumulate(p)
  <2>1. lone' = lone /\ memory' = memory /\ \A m \in Memories : writes[p][m] = "none"
    BY <1>5 DEF EndsToAccumulate, Writing, directory, accumulation
  <2>2. Accumulating(p) /\ lone # 0
    BY <1>5, <2>1 DEF EndsToAccumulate
  <2>3. \A m \in Memories : memory[m] = OwnMemory
    BY <1>2, <2>1, <2>2 DEF LoneRun
  <2>4. \A q \in Processes : Accumulating(q) => q = p
    BY <1>2, <2>2 DEF LoneRun
  <2>5. \A q \in Processes : ~Accumulating(q)'
    BY <1>5, <2>4 DEF EndsToAccumulate, Accumulating
  <2>6. OwnMemory' = OwnMemory
    BY <2>1 DEF OwnMemory
  <2> QED BY <2>1, <2>3, <2>5, <2>6
<1>6. CASE \E m \in Memories : WriteMemory(p, m)
  <2>1. PICK m \in Memories : WriteMemory(p, m)
    BY <1>6
  <2>2. pc' = pc /\ Accumulating(p) /\ run' = run /\ lone' = lone
    BY <2>1 DEF WriteMemory, process
  <2>3. /\ run[p] = lone /\ \A q \in Processes : Accumulating(q) => q = p
        /\ \A n \in Memories : /\ writes[p][n] = "none" => memory[n] = OwnMemory
                               /\ writes[p][n] = "opened" => memory[n] = Truncated
    BY <1>2, <2>2 DEF LoneRun
  <2>4. ASSUME NEW n \in Memories
        PROVE  /\ writes'[p][n] = "none" => memory'[n] = OwnMemory
               /\ writes'[p][n] = "opened" => memory'[n] = Truncated
    <3>1. CASE OpenMemory(p, m)
      <4>1. CASE n = m
        BY <1>1, <3>1, <4>1 DEF OpenMemory
      <4>2. CASE n # m
        <5>1. memory'[n] = memory[n] /\ writes'[p][n] = writes[p][n]
          BY <1>1, <3>1, <4>2 DEF OpenMemory
        <5> QED BY <2>3, <5>1
      <4> QED BY <4>1, <4>2
    <3>2. CASE FillMemory(p, m, run[p])
      <4>1. memory[m] = Truncated
        BY <2>3, <3>2 DEF FillMemory
      <4>2. memory' = [memory EXCEPT ![m] = OwnMemory]
        BY <2>3, <3>2, <4>1 DEF FillMemory, Overwritten, OwnMemory
      <4>3. writes' = [writes EXCEPT ![p][m] = "none"]
        BY <3>2 DEF FillMemory
      <4>4. CASE n = m
        BY <1>1, <4>2, <4>3, <4>4
      <4>5. CASE n # m
        <5>1. memory'[n] = memory[n] /\ writes'[p][n] = writes[p][n]
          BY <1>1, <4>2, <4>3, <4>5
        <5> QED BY <2>3, <5>1
      <4> QED BY <4>4, <4>5
    <3> QED BY <2>1, <3>1, <3>2 DEF WriteMemory
  <2>5. \A q \in Processes : Accumulating(q)' <=> Accumulating(q)
    BY <2>2 DEF Accumulating
  <2>6. OwnMemory' = OwnMemory
    BY <2>2 DEF OwnMemory
  <2> QED BY <2>2, <2>3, <2>4, <2>5, <2>6
<1>7. CASE Accumulating(p) /\ Stop(p)
  BY <1>7 DEF Stop
<1> QED BY <1>3, <1>4, <1>5, <1>6, <1>7, StepsOfAccumulation

-----------------------------------------------------------------------------
(* The theorems.                                                           *)

\* The CLI starts from a file of one account, or from none.
LEMMA InitInv == Init => IInv
<1> SUFFICES ASSUME Init PROVE IInv
  OBVIOUS
<1>1. PICK a \in Accounts :
        /\ owner = [s \in Sessions |-> IF s = 1 THEN a ELSE None]
        /\ \/ file = Truncated
           \/ \E agent \in {None, a} : file = <<[session |-> 1, agent |-> agent]>>
  BY DEF Init
<1>2. /\ live = {1} /\ pc = [p \in Processes |-> "idle"]
      /\ command = [p \in Processes |-> "account-me"]
      /\ snapshot = [p \in Processes |-> Blank] /\ env = [p \in Processes |-> NoSession]
      /\ text = [p \in Processes |-> Blank] /\ run = [p \in Processes |-> 0]
      /\ commands = 0 /\ faults = 0 /\ overrides = 0 /\ overlapped = FALSE
      /\ lone = 0 /\ memory = [m \in Memories |-> Truncated]
      /\ writes = [w \in Writers |-> [m \in Memories |-> "none"]]
  BY DEF Init, AccumulationInit
<1>3. /\ 1 \in Sessions /\ None \notin Accounts /\ NoSession # 1
      /\ MaxCommands \in Nat /\ MaxFaults \in Nat /\ MaxOverrides \in Nat
  BY CliAssumption DEF Sessions, NoSession
<1>4. Issued = {1} /\ Issued = 1 .. 1
  BY <1>1, <1>3 DEF Issued
<1>5. /\ file \in Seq(State) /\ Len(file) <= 1
      /\ \A i \in 1 .. Len(file) : Known(file[i]) /\ OfOneAccount(file[i])
      /\ Accepts(ReadState)
  <2>1. CASE file = Truncated
    <3>1. file = <<>> /\ Len(file) = 0 /\ ~ Whole(file)
      BY <2>1 DEF Truncated, Whole
    <3> QED BY <3>1, BlankIsAState DEF ReadState, Accepts
  <2>2. CASE \E agent \in {None, a} : file = <<[session |-> 1, agent |-> agent]>>
    <3>1. PICK agent \in {None, a} : file = <<[session |-> 1, agent |-> agent]>>
      BY <2>2
    <3> DEFINE state == [session |-> 1, agent |-> agent]
    <3>2. state \in State /\ Known(state) /\ OfOneAccount(state) /\ Accepts(state)
      BY <1>1, <1>2, <1>3, <1>4 DEF State, Known, OfOneAccount, Accepts
    <3> HIDE DEF state
    <3>3. file = <<state>> /\ Len(file) = 1 /\ file[1] = state /\ Head(file) = state
      BY <3>1 DEF state
    <3>4. ReadState = state
      BY <3>3 DEF ReadState, Whole
    <3> QED BY <3>2, <3>3, <3>4
  <2> QED BY <1>1, <2>1, <2>2
<1>6. TypeOK
  <2>1. Len(file) <= 2
    BY <1>5
  <2>2. owner \in [Sessions -> Accounts \cup {None}] /\ live \subseteq Issued
    BY <1>1, <1>2, <1>4
  <2>3. /\ command \in [Processes -> Commands] /\ snapshot \in [Processes -> State]
        /\ text \in [Processes -> State] /\ env \in [Processes -> Issued \cup {NoSession}]
    BY <1>2, BlankIsAState DEF Commands
  <2>4. /\ pc \in [Processes -> Stages]
        /\ commands \in 0 .. MaxCommands /\ faults \in 0 .. MaxFaults
        /\ overrides \in 0 .. MaxOverrides
    BY <1>2, <1>3 DEF Stages
  <2>5. overlapped \in BOOLEAN /\ lone \in Nat
    BY <1>2
  <2> QED BY <1>5, <2>1, <2>2, <2>3, <2>4, <2>5 DEF TypeOK
<1>7. RunTypes
  <2>1. Truncated \in Seq(Nat)
    BY DEF Truncated
  <2> QED BY <1>2, <2>1 DEF RunTypes
<1>8. SessionsKnown /\ StatesOfOneAccount
  BY <1>2, <1>5, BlankIsAState DEF SessionsKnown, StatesOfOneAccount
<1>9. OneAtATime /\ SessionsAlive /\ WritesOnlyAccumulating /\ LoneRun
  BY <1>2, <1>5 DEF OneAtATime, SessionsAlive, WritesOnlyAccumulating, LoneRun, Processes
<1> QED BY <1>4, <1>6, <1>7, <1>8, <1>9 DEF IInv, NumberedInOrder

\* The invariant is inductive.
LEMMA NextInv == IInv /\ [Next]_vars => IInv'
<1> SUFFICES ASSUME IInv, [Next]_vars PROVE IInv'
  OBVIOUS
<1>1. CASE Next
  <2>1. TypeOK' /\ RunTypes' /\ NumberedInOrder'
    BY <1>1, NextTypes DEF CoreGrows
  <2> QED BY <1>1, <2>1, NextStates, NextOneAtATime, NextAlive, NextWrites, NextLoneRun DEF IInv
<1>2. CASE UNCHANGED vars
  <2>1. /\ file' = file /\ owner' = owner /\ live' = live /\ pc' = pc /\ command' = command
        /\ snapshot' = snapshot /\ env' = env /\ text' = text /\ run' = run
        /\ commands' = commands /\ faults' = faults /\ overrides' = overrides
        /\ overlapped' = overlapped /\ memory' = memory /\ writes' = writes /\ lone' = lone
    BY <1>2 DEF vars, process, bounds, directory, accumulation
  <2>2. Issued' = Issued /\ ReadState' = ReadState
    BY <2>1 DEF Issued, ReadState
  <2>3. TypeOK' /\ RunTypes' /\ NumberedInOrder'
    BY <2>1, <2>2 DEF IInv, TypeOK, RunTypes, NumberedInOrder
  <2>4. SessionsKnown' /\ StatesOfOneAccount'
    BY <2>1, <2>2 DEF IInv, SessionsKnown, StatesOfOneAccount, Known, OfOneAccount
  <2>5. OneAtATime' /\ SessionsAlive'
    BY <2>1, <2>2 DEF IInv, OneAtATime, SessionsAlive, Accepts, AllIdle
  <2>6. WritesOnlyAccumulating'
    BY <2>1 DEF IInv, WritesOnlyAccumulating, Accumulating
  <2>7. LoneRun'
    <3>1. LoneRun /\ OwnMemory' = OwnMemory
      BY <2>1 DEF IInv, OwnMemory
    <3> QED BY <2>1, <3>1 DEF LoneRun, Accumulating
  <2> QED BY <2>3, <2>4, <2>5, <2>6, <2>7 DEF IInv
<1> QED BY <1>1, <1>2 DEF vars

\* It holds of every reachable state.
THEOREM AlwaysConsistent == Spec => []IInv
  BY InitInv, NextInv, PTL DEF Spec

\* The file, the core's sessions and every process have their type: what a
\* command writes is made of sessions and accounts there are.
THEOREM TypeCorrect == Spec => []TypeOK
<1>1. IInv => TypeOK
  BY DEF IInv
<1> QED BY <1>1, AlwaysConsistent, PTL

\* However many processes overlap, replies are lost, writes tear or processes
\* die, without a session of the environment the state a command reads never
\* pairs the session of one account with the agent another account claimed.
THEOREM IdentityIsOfOneAccountHolds == Spec => []IdentityIsOfOneAccount
<1>1. IInv => IdentityIsOfOneAccount
  BY ReadStateIsWritten DEF IdentityIsOfOneAccount
<1> QED BY <1>1, AlwaysConsistent, PTL

\* A session that was revoked or replaced is not in the file between commands,
\* unless a reply or a write was lost, commands overlapped or the environment
\* named a session.
THEOREM DeadSessionsStayOutHolds == Spec => []DeadSessionsStayOut
<1>1. IInv => DeadSessionsStayOut
  <2> SUFFICES ASSUME IInv, ReadState.session \in Issued \ live,
                      \A p \in Processes : pc[p] = "idle",
                      ~ (faults > 0 \/ overlapped \/ overrides > 0)
               PROVE  FALSE
    BY DEF DeadSessionsStayOut
  <2>1. faults \in Nat /\ overrides \in Nat /\ Issued \subseteq Sessions
    BY CliAssumption DEF IInv, TypeOK, Issued
  <2>2. faults = 0 /\ overrides = 0
    BY <2>1
  <2>3. Accepts(ReadState)
    BY <2>2 DEF IInv, SessionsAlive, AllIdle
  <2>4. NoSession \notin Sessions
    BY CliAssumption DEF NoSession, Sessions
  <2> QED BY <2>1, <2>3, <2>4 DEF Accepts
<1> QED BY <1>1, AlwaysConsistent, PTL

\* A run that accumulates with no other run at it, and is not cut short, leaves
\* a directory that tells of it alone: whether it succeeded or failed, whatever
\* other commands do meanwhile and whatever was left there before.
THEOREM AccumulationIsOfOneRunHolds == Spec => []AccumulationIsOfOneRun
<1>1. IInv => AccumulationIsOfOneRun
  <2> SUFFICES ASSUME IInv, lone # 0, \A p \in Processes : ~Accumulating(p)
               PROVE  ReadTogether = {lone}
    BY DEF AccumulationIsOfOneRun
  <2>1. \A m \in Memories : memory[m] = OwnMemory
    BY DEF IInv, LoneRun
  <2>2. \A m \in Memories : Whole(memory[m]) /\ Head(memory[m]) = lone
    BY <2>1 DEF Whole, OwnMemory
  <2> QED BY <2>2, CliAssumption DEF ReadTogether
<1> QED BY <1>1, AlwaysConsistent, PTL

================================================================================
