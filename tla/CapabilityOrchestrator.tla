----------------------- MODULE CapabilityOrchestrator -----------------------
(***************************************************************************)
(* BidviaCapabilityOrchestrator (src/runtime/capability-orchestration.ts): *)
(* which capability calls are let through with the identity at hand, and   *)
(* the lane that runs the serial ones one after the other.                 *)
(*                                                                         *)
(* The lane is a chain of promises.  A serial call reads the tail of the   *)
(* chain, puts a new promise in its place, awaits the one it read and      *)
(* resolves its own when the call has settled.  Promises are numbered in   *)
(* the order they are made; 0 is the resolved one the lane starts from.    *)
(***************************************************************************)
EXTENDS Naturals

CONSTANTS
    Callers,     \* asynchronous callers of one orchestrator
    Helpers,     \* helper keys they ask for
    Registry,    \* getRouteCapability and getPlaneExecutionGate, by known key
    ContextKeys, \* the keys of an execution identity
    MaxPromises  \* bound: promises chained in a behaviour

Families == {"tenant", "registration", "session", "admin-session",
             "principal-governed-read", "operator-company", "scenario"}
Gates == {"none", "packet-grounded-execution", "packet-grounded-read",
          "compatibility-only", "blocked-pending-packet"}

\* What the orchestrator reads of a capability.  "public" is the context
\* semantic public-provisional, "commercial" the /runtime/commercial-actions
\* route prefix.
Capabilities == [family : Families, public : BOOLEAN, commercial : BOOLEAN,
                 write : BOOLEAN, requires : SUBSET ContextKeys, gate : Gates]

ASSUME RegistryAssumption ==
    /\ Helpers # {}
    /\ \A h \in DOMAIN Registry : Registry[h] \in Capabilities
ASSUME PromisesAssumption == MaxPromises \in Nat

VARIABLES
    identity,  \* the context keys with a value in the identity
    pc,        \* "idle", "queued" on the lane, or "running" its call
    asked,     \* the helper the caller is in a call of
    awaits,    \* previousExecution: the promise the caller waits for
    holds,     \* the promise its release resolves; 0 off the lane
    tail,      \* this.serialExecution
    resolved   \* the promises resolved so far

vars == <<identity, pc, asked, awaits, holds, tail, resolved>>

-----------------------------------------------------------------------------
(* The policy of a capability. *)

\* inferExecutionKind, in the order of its tests
KindOf(cap) ==
    CASE cap.public -> "public-provisional"
      [] ~cap.public /\ cap.commercial /\ cap.write -> "commercial-action"
      [] ~cap.public /\ ~(cap.commercial /\ cap.write)
           /\ cap.family = "principal-governed-read" -> "governed-read"
      [] OTHER ->
           CASE cap.write /\ cap.family = "session" -> "session-bound"
             [] cap.write /\ cap.family = "registration" -> "runtime-write"
             [] cap.write /\ cap.family \in {"admin-session", "operator-company", "scenario"}
                  -> "governed-write"
             [] OTHER -> "unmapped"

\* getCapabilityExecutionPolicy: concurrency and guard always go together.
Concurrent(cap) == KindOf(cap) \in {"public-provisional", "governed-read"}
Serial(cap)     == KindOf(cap) \in {"session-bound", "governed-write",
                                    "runtime-write", "commercial-action"}

\* collectMissingContext
Missing(cap) == cap.requires \ identity

\* The plane execution gate
GateOpen(cap) ==
    \/ cap.gate \in {"none", "packet-grounded-execution"}
    \/ cap.gate = "packet-grounded-read" /\ ~cap.write

\* A bug to catch: serial calls are let through with context missing.
AdmittedWithoutContext(cap) == (Concurrent(cap) \/ Serial(cap)) /\ GateOpen(cap)

\* What call lets through; anything else throws and changes nothing here.
Admitted(cap) ==
    /\ Concurrent(cap) \/ Serial(cap)
    /\ Serial(cap) => Missing(cap) = {}
    /\ GateOpen(cap)

-----------------------------------------------------------------------------
Init ==
    /\ identity \in SUBSET ContextKeys
    /\ pc = [c \in Callers |-> "idle"]
    /\ asked = [c \in Callers |-> CHOOSE h \in Helpers : TRUE]
    /\ awaits = [c \in Callers |-> 0]
    /\ holds = [c \in Callers |-> 0]
    /\ tail = 0
    /\ resolved = {0}

\* A call of a read, or of a public helper, starts at once.
CallConcurrent(c, h) ==
    /\ pc[c] = "idle"
    /\ h \in DOMAIN Registry /\ Admitted(Registry[h]) /\ Concurrent(Registry[h])
    /\ pc' = [pc EXCEPT ![c] = "running"]
    /\ asked' = [asked EXCEPT ![c] = h]
    /\ UNCHANGED <<identity, awaits, holds, tail, resolved>>

\* A bug to catch: the tail is read after it was replaced.
CallSerialAwaitingItself(c, h) ==
    /\ pc[c] = "idle"
    /\ h \in DOMAIN Registry /\ Admitted(Registry[h]) /\ Serial(Registry[h])
    /\ tail < MaxPromises
    /\ pc' = [pc EXCEPT ![c] = "queued"]
    /\ asked' = [asked EXCEPT ![c] = h]
    /\ tail' = tail + 1
    /\ awaits' = [awaits EXCEPT ![c] = tail']
    /\ holds' = [holds EXCEPT ![c] = tail']
    /\ UNCHANGED <<identity, resolved>>

\* A bug to catch: the tail is read once, when the orchestrator is made.
CallSerialFromTheStart(c, h) ==
    /\ pc[c] = "idle"
    /\ h \in DOMAIN Registry /\ Admitted(Registry[h]) /\ Serial(Registry[h])
    /\ tail < MaxPromises
    /\ pc' = [pc EXCEPT ![c] = "queued"]
    /\ asked' = [asked EXCEPT ![c] = h]
    /\ tail' = tail + 1
    /\ holds' = [holds EXCEPT ![c] = tail']
    /\ UNCHANGED <<identity, awaits, resolved>>

\* runSerial up to its await
CallSerial(c, h) ==
    /\ pc[c] = "idle"
    /\ h \in DOMAIN Registry /\ Admitted(Registry[h]) /\ Serial(Registry[h])
    /\ tail < MaxPromises
    /\ pc' = [pc EXCEPT ![c] = "queued"]
    /\ asked' = [asked EXCEPT ![c] = h]
    /\ awaits' = [awaits EXCEPT ![c] = tail]
    /\ tail' = tail + 1
    /\ holds' = [holds EXCEPT ![c] = tail']
    /\ UNCHANGED <<identity, resolved>>

\* A bug to catch: the call does not wait for the one before it.
EnterAtOnce(c) ==
    /\ pc[c] = "queued"
    /\ pc' = [pc EXCEPT ![c] = "running"]
    /\ UNCHANGED <<identity, asked, awaits, holds, tail, resolved>>

\* The promise awaited is resolved: the continuation runs the call.
Enter(c) ==
    /\ pc[c] = "queued" /\ awaits[c] \in resolved
    /\ pc' = [pc EXCEPT ![c] = "running"]
    /\ UNCHANGED <<identity, asked, awaits, holds, tail, resolved>>

\* The call settles, either way; "finally" resolves the promise of a serial one.
Settle(c) ==
    /\ pc[c] = "running"
    /\ pc' = [pc EXCEPT ![c] = "idle"]
    /\ resolved' = IF holds[c] # 0 THEN resolved \cup {holds[c]} ELSE resolved
    /\ holds' = [holds EXCEPT ![c] = 0]
    /\ awaits' = [awaits EXCEPT ![c] = 0]
    /\ UNCHANGED <<identity, asked, tail>>

Next == \E c \in Callers :
    \/ \E h \in Helpers : CallConcurrent(c, h) \/ CallSerial(c, h)
    \/ Enter(c)
    \/ Settle(c)

Spec == Init /\ [][Next]_vars

\* The event loop runs a continuation whose promise is resolved.  Nothing
\* makes a call settle: the transport has no default timeout.
FairSpec == Spec /\ \A c \in Callers : WF_vars(Enter(c))

-----------------------------------------------------------------------------
TypeOK ==
    /\ identity \subseteq ContextKeys
    /\ pc \in [Callers -> {"idle", "queued", "running"}]
    /\ asked \in [Callers -> Helpers]
    /\ tail \in 0 .. MaxPromises
    /\ awaits \in [Callers -> 0 .. tail] /\ holds \in [Callers -> 0 .. tail]
    /\ resolved \subseteq 0 .. tail

OnLane(c)  == holds[c] # 0
Running(c) == pc[c] = "running"

\* Two serial calls never run at the same time, however they were issued
\* (test/capability-orchestration.test.ts:274).
MutualExclusion ==
    \A c, d \in Callers : OnLane(c) /\ OnLane(d) /\ Running(c) /\ Running(d) => c = d

\* The serial call that runs is the oldest on the lane: no write overtakes one
\* issued before it.
FirstComeFirstServed ==
    \A c, d \in Callers : OnLane(c) /\ OnLane(d) /\ Running(c) => holds[c] <= holds[d]

\* A write of a session, a registration, an admin session, a company or a
\* scenario runs only on the lane, with all of its context, past an open gate.
WritesFailClosed ==
    \A c \in Callers :
        LET cap == Registry[asked[c]]
        IN  /\ Running(c) /\ cap.write /\ ~cap.public
            /\ cap.family \in {"session", "registration", "admin-session",
                               "operator-company", "scenario"}
            => /\ OnLane(c)
               /\ cap.requires \subseteq identity
               /\ cap.gate \in {"none", "packet-grounded-execution"}

\* The lane always moves on: when no call runs for ever, every queued call
\* gets to run, whatever order the callers come and go in.
CallsSettle == \A c \in Callers : []<>~Running(c)
QueuedCallsRun == CallsSettle => \A c \in Callers : pc[c] = "queued" ~> Running(c)

\* Why MutualExclusion holds: promises resolve in the order they were made, a
\* caller on the lane waits for its predecessor and holds one not yet resolved.
LaneInv ==
    /\ 0 \in resolved /\ resolved \subseteq 0 .. tail
    /\ \A n \in resolved : 0 .. n \subseteq resolved
    /\ \A c \in Callers :
         /\ pc[c] = "idle" => ~OnLane(c)
         /\ OnLane(c) => /\ holds[c] = awaits[c] + 1
                         /\ holds[c] <= tail /\ holds[c] \notin resolved
                         /\ Running(c) => awaits[c] \in resolved
         /\ \A d \in Callers \ {c} : OnLane(c) => holds[c] # holds[d]

-----------------------------------------------------------------------------
(* The lane implements FifoLane.                                           *)

\* The call that runs on the lane is inside.
Inside == {c \in Callers : OnLane(c) /\ Running(c)}

\* The promises up to this one are resolved or held by who is inside.
Served(n)  == n \in resolved \/ \E c \in Inside : holds[c] = n
LastServed == CHOOSE n \in 0 .. tail : /\ \A m \in 0 .. n : Served(m)
                                       /\ n = tail \/ ~ Served(n + 1)

\* The others wait in the order of their promises.
Holder(n) == CHOOSE c \in Callers : holds[c] = n
Queue     == [i \in 1 .. tail - LastServed |-> Holder(LastServed + i)]

Lane == INSTANCE FifoLane WITH queue <- Queue, inside <- Inside

\* The lane is a queue: a serial call joins at its end, the oldest is let in
\* when the one before it has settled, and nobody else ever is, although every
\* caller only ever sees one promise of the chain (capability-orchestration.ts).
LaneIsFifo == Lane!Spec

============================================================================
