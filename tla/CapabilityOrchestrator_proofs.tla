-------------------- MODULE CapabilityOrchestrator_proofs --------------------
(* The lane and the guards, for every set of callers and every catalogue; then
   the ways in, table against table, for every identity. *)
EXTENDS EntryPoints, SequenceTheorems, TLAPS

\* Every variable keeps its type.
THEOREM TypeCorrect == Spec => []TypeOK
<1>1. Init => TypeOK
  BY RegistryAssumption, PromisesAssumption DEF Init, TypeOK
<1>2. TypeOK /\ [Next]_vars => TypeOK'
  <2> SUFFICES ASSUME TypeOK, [Next]_vars PROVE TypeOK'
    OBVIOUS
  <2> USE PromisesAssumption, RegistryAssumption DEF TypeOK
  <2>1. ASSUME NEW c \in Callers, NEW h \in Helpers, CallConcurrent(c, h) PROVE TypeOK'
    BY <2>1 DEF CallConcurrent
  <2>2. ASSUME NEW c \in Callers, NEW h \in Helpers, CallSerial(c, h) PROVE TypeOK'
    <3>1. tail + 1 \in 0 .. MaxPromises
      BY <2>2 DEF CallSerial
    <3> QED BY <2>2, <3>1 DEF CallSerial
  <2>3. ASSUME NEW c \in Callers, Enter(c) PROVE TypeOK'
    BY <2>3 DEF Enter
  <2>4. ASSUME NEW c \in Callers, Settle(c) PROVE TypeOK'
    <3>1. 0 \in 0 .. tail /\ holds[c] \in 0 .. tail
      OBVIOUS
    <3>2. resolved' \subseteq 0 .. tail
      BY <2>4, <3>1 DEF Settle
    <3> QED BY <2>4, <3>1, <3>2 DEF Settle
  <2>5. CASE UNCHANGED vars
    BY <2>5 DEF vars
  <2> QED BY <2>1, <2>2, <2>3, <2>4, <2>5 DEF Next
<1> QED BY <1>1, <1>2, PTL DEF Spec

\* A call that settles resolves the oldest unresolved promise, its own.
LEMMA SettleKeepsLane ==
    ASSUME TypeOK, LaneInv, NEW c \in Callers, Settle(c) PROVE LaneInv'
<1>1. /\ tail \in Nat /\ \A d \in Callers : holds[d] \in Nat /\ awaits[d] \in Nat
      /\ resolved \subseteq Nat
  BY PromisesAssumption DEF TypeOK
<1>2. tail' = tail
  BY DEF Settle
<1>3. \A d \in Callers : /\ pc'[d] = IF d = c THEN "idle" ELSE pc[d]
                         /\ holds'[d] = IF d = c THEN 0 ELSE holds[d]
                         /\ awaits'[d] = IF d = c THEN 0 ELSE awaits[d]
  BY DEF Settle, TypeOK
<1>4. \/ resolved' = resolved
      \/ resolved' = resolved \cup {holds[c]} /\ holds[c] # 0
  BY DEF Settle
<1>5. holds[c] # 0 => /\ awaits[c] \in resolved /\ holds[c] = awaits[c] + 1
                      /\ holds[c] <= tail
  BY DEF LaneInv, OnLane, Running, Settle
<1>6. 0 \in resolved' /\ resolved' \subseteq 0 .. tail'
  <2>1. 0 \in resolved /\ resolved \subseteq 0 .. tail
    BY DEF LaneInv
  <2>2. holds[c] # 0 => holds[c] \in 0 .. tail
    BY <1>1, <1>5
  <2> QED BY <1>2, <1>4, <2>1, <2>2
<1>7. ASSUME NEW n \in resolved' PROVE 0 .. n \subseteq resolved'
  <2>1. CASE n \in resolved
    BY <1>4, <2>1 DEF LaneInv
  <2>2. CASE n = holds[c] /\ holds[c] # 0 /\ resolved' = resolved \cup {holds[c]}
    <3>1. 0 .. awaits[c] \subseteq resolved
      BY <1>5, <2>2 DEF LaneInv
    <3>2. \A k \in 0 .. n : k \in 0 .. awaits[c] \/ k = n
      BY <1>1, <1>5, <2>2
    <3> QED BY <2>2, <3>1, <3>2
  <2> QED BY <1>4, <1>7, <2>1, <2>2
<1>8. ASSUME NEW d \in Callers
      PROVE  /\ pc'[d] = "idle" => holds'[d] = 0
             /\ holds'[d] # 0 => /\ holds'[d] = awaits'[d] + 1
                                 /\ holds'[d] <= tail' /\ holds'[d] \notin resolved'
                                 /\ pc'[d] = "running" => awaits'[d] \in resolved'
             /\ \A e \in Callers \ {d} : holds'[d] # 0 => holds'[d] # holds'[e]
  <2>1. CASE d = c
    BY <1>3, <2>1
  <2>2. CASE d # c
    <3>1. holds[d] # 0 => holds[d] # holds[c] /\ holds[d] \notin resolved'
      BY <1>4, <2>2 DEF LaneInv, OnLane
    <3>2. \A e \in Callers \ {d} : holds[d] # 0 => holds[d] # holds'[e]
      BY <1>3 DEF LaneInv, OnLane
    <3> QED BY <1>2, <1>3, <1>4, <2>2, <3>1, <3>2 DEF LaneInv, OnLane, Running
  <2> QED BY <2>1, <2>2
<1> QED BY <1>6, <1>7, <1>8 DEF LaneInv, OnLane, Running

\* The promises of the lane are made, held and resolved in one order.
THEOREM LaneInvariance == Spec => []LaneInv
<1>1. Init => LaneInv
  BY DEF Init, LaneInv, OnLane
<1>2. TypeOK /\ LaneInv /\ [Next]_vars => LaneInv'
  <2> SUFFICES ASSUME TypeOK, LaneInv, [Next]_vars PROVE LaneInv'
    OBVIOUS
  <2> USE PromisesAssumption DEF TypeOK, LaneInv, OnLane, Running
  <2>1. ASSUME NEW c \in Callers, NEW h \in Helpers, CallConcurrent(c, h) PROVE LaneInv'
    BY <2>1 DEF CallConcurrent
  <2>2. ASSUME NEW c \in Callers, NEW h \in Helpers, CallSerial(c, h) PROVE LaneInv'
    BY <2>2 DEF CallSerial
  <2>3. ASSUME NEW c \in Callers, Enter(c) PROVE LaneInv'
    BY <2>3 DEF Enter
  <2>4. ASSUME NEW c \in Callers, Settle(c) PROVE LaneInv'
    BY <2>4, SettleKeepsLane
  <2>5. CASE UNCHANGED vars
    BY <2>5 DEF vars
  <2> QED BY <2>1, <2>2, <2>3, <2>4, <2>5 DEF Next
<1> QED BY <1>1, <1>2, TypeCorrect, PTL DEF Spec

\* Promises in order: a caller whose turn it is holds the oldest one.
LEMMA OldestRuns == TypeOK /\ LaneInv => FirstComeFirstServed
<1> SUFFICES ASSUME TypeOK, LaneInv, NEW c \in Callers, NEW d \in Callers,
                    OnLane(c), OnLane(d), Running(c)
             PROVE  holds[c] <= holds[d]
  BY DEF FirstComeFirstServed
<1>1. awaits[c] \in resolved /\ holds[c] = awaits[c] + 1 /\ holds[d] \notin resolved
  BY DEF LaneInv
<1>2. 0 .. awaits[c] \subseteq resolved
  BY <1>1 DEF LaneInv
<1> QED BY <1>1, <1>2, PromisesAssumption DEF TypeOK

\* At most one serial call runs, and it is the oldest.
THEOREM OneSerialCall == Spec => [](MutualExclusion /\ FirstComeFirstServed)
<1>1. TypeOK /\ LaneInv => MutualExclusion
  <2> SUFFICES ASSUME TypeOK, LaneInv, NEW c \in Callers, NEW d \in Callers,
                      OnLane(c), OnLane(d), Running(c), Running(d), c # d
               PROVE  FALSE
    BY DEF MutualExclusion
  <2>1. holds[c] <= holds[d] /\ holds[d] <= holds[c]
    BY OldestRuns DEF FirstComeFirstServed
  <2>2. holds[c] # holds[d]
    BY DEF LaneInv
  <2> QED BY <2>1, <2>2, PromisesAssumption DEF TypeOK
<1> QED BY <1>1, OldestRuns, TypeCorrect, LaneInvariance, PTL

-----------------------------------------------------------------------------
\* A call under way was admitted with the identity it still runs under, and is
\* on the lane when its policy is serial.
AdmittedInv ==
    \A c \in Callers : pc[c] # "idle" =>
        /\ asked[c] \in DOMAIN Registry
        /\ Admitted(Registry[asked[c]])
        /\ Serial(Registry[asked[c]]) => OnLane(c)

\* A serial policy is never a concurrent one.
LEMMA PoliciesDisjoint ==
    ASSUME NEW cap PROVE ~(Serial(cap) /\ Concurrent(cap))
BY DEF Serial, Concurrent

\* inferExecutionKind sends the writes of the five families to the lane.
LEMMA WritesAreSerial ==
    ASSUME NEW cap \in Capabilities, cap.write, ~cap.public,
           cap.family \in {"session", "registration", "admin-session",
                           "operator-company", "scenario"}
    PROVE  Serial(cap)
BY DEF Serial, KindOf, Capabilities

\* Admission is checked in the step that starts the call and nothing it
\* depends on changes afterwards.
LEMMA AdmissionKept == Spec => []AdmittedInv
<1>1. Init => AdmittedInv
  BY DEF Init, AdmittedInv
<1>2. TypeOK /\ AdmittedInv /\ [Next]_vars => AdmittedInv'
  <2> SUFFICES ASSUME TypeOK, AdmittedInv, [Next]_vars PROVE AdmittedInv'
    OBVIOUS
  <2> USE DEF TypeOK, AdmittedInv, Admitted, Missing, OnLane
  <2>1. ASSUME NEW c \in Callers, NEW h \in Helpers, CallConcurrent(c, h) PROVE AdmittedInv'
    BY <2>1, PoliciesDisjoint DEF CallConcurrent
  <2>2. ASSUME NEW c \in Callers, NEW h \in Helpers, CallSerial(c, h) PROVE AdmittedInv'
    BY <2>2, PromisesAssumption DEF CallSerial
  <2>3. ASSUME NEW c \in Callers, Enter(c) PROVE AdmittedInv'
    BY <2>3 DEF Enter
  <2>4. ASSUME NEW c \in Callers, Settle(c) PROVE AdmittedInv'
    BY <2>4 DEF Settle
  <2>5. CASE UNCHANGED vars
    BY <2>5 DEF vars
  <2> QED BY <2>1, <2>2, <2>3, <2>4, <2>5 DEF Next
<1> QED BY <1>1, <1>2, TypeCorrect, PTL DEF Spec

\* Such a write runs on the lane, with its context, past an open gate.
THEOREM WritesGuarded == Spec => []WritesFailClosed
<1>1. AdmittedInv => WritesFailClosed
  <2> SUFFICES ASSUME AdmittedInv, NEW c \in Callers, Running(c),
                      Registry[asked[c]].write, ~Registry[asked[c]].public,
                      Registry[asked[c]].family \in
                        {"session", "registration", "admin-session",
                         "operator-company", "scenario"}
               PROVE  /\ OnLane(c)
                      /\ Registry[asked[c]].requires \subseteq identity
                      /\ Registry[asked[c]].gate \in {"none", "packet-grounded-execution"}
    BY DEF WritesFailClosed
  <2>1. asked[c] \in DOMAIN Registry /\ Admitted(Registry[asked[c]])
        /\ (Serial(Registry[asked[c]]) => OnLane(c))
    BY DEF AdmittedInv, Running
  <2>2. Serial(Registry[asked[c]])
    BY <2>1, RegistryAssumption, WritesAreSerial
  <2> QED BY <2>1, <2>2 DEF Admitted, Missing, GateOpen
<1> QED BY <1>1, AdmissionKept, PTL

-----------------------------------------------------------------------------
(* The lane implements FifoLane.                                           *)

\* The promises resolved are the first ones, and each later one has a holder; at
\* most one call is inside, and it holds the next promise.
ServedInv ==
    \E r \in 0 .. tail :
        /\ resolved = 0 .. r
        /\ \A n \in r + 1 .. tail : \E c \in Callers : holds[c] = n
        /\ \/ Inside = {} /\ LastServed = r
           \/ \E c \in Callers : /\ Inside = {c} /\ holds[c] = r + 1 /\ r + 1 <= tail
                                 /\ LastServed = r + 1

\* The queue is made of the holders of the promises not served, in their order.
QueueInv ==
    /\ \A c \in Callers : pc[c] = "queued" => OnLane(c)
    /\ Queue \in Seq(Callers) /\ LastServed \in 0 .. tail /\ Len(Queue) = tail - LastServed
    /\ \A i \in 1 .. tail - LastServed : holds[Queue[i]] = LastServed + i

\* Promises are resolved one by one and none is without a holder.
PromiseInv ==
    /\ \A c \in Callers : pc[c] = "queued" => OnLane(c)
    /\ \E r \in 0 .. tail :
        /\ resolved = 0 .. r
        /\ \A n \in r + 1 .. tail : \E c \in Callers : holds[c] = n

\* A caller that settles holds the promise that is resolved next.
LEMMA PromisesHeld == Spec => []PromiseInv
<1>1. Init => PromiseInv
  BY DEF Init, PromiseInv
<1>2. TypeOK /\ LaneInv /\ PromiseInv /\ [Next]_vars => PromiseInv'
  <2> SUFFICES ASSUME TypeOK, LaneInv, PromiseInv, [Next]_vars PROVE PromiseInv'
    OBVIOUS
  <2>1. PICK r \in 0 .. tail : /\ resolved = 0 .. r
                               /\ \A n \in r + 1 .. tail : \E c \in Callers : holds[c] = n
    BY DEF PromiseInv
  <2>2. \A c \in Callers : pc[c] = "queued" => OnLane(c)
    BY DEF PromiseInv
  <2>3. tail \in Nat /\ r \in Nat
    BY PromisesAssumption DEF TypeOK
  <2>4. ASSUME NEW c \in Callers, NEW h \in Helpers, CallConcurrent(c, h) PROVE PromiseInv'
    BY <2>1, <2>2, <2>4 DEF CallConcurrent, PromiseInv, OnLane, TypeOK
  <2>5. ASSUME NEW c \in Callers, NEW h \in Helpers, CallSerial(c, h) PROVE PromiseInv'
    <3>1. /\ holds' = [holds EXCEPT ![c] = tail'] /\ tail' = tail + 1 /\ resolved' = resolved
          /\ pc' = [pc EXCEPT ![c] = "queued"] /\ holds[c] = 0
      BY <2>5 DEF CallSerial, LaneInv, OnLane
    <3>2. \A n \in r + 1 .. tail + 1 : \E d \in Callers : holds'[d] = n
      <4>1. ASSUME NEW n \in r + 1 .. tail PROVE \E d \in Callers : holds'[d] = n
        <5>1. PICK d \in Callers : holds[d] = n
          BY <2>1
        <5>2. holds'[d] = n
          BY <2>3, <3>1, <5>1 DEF TypeOK
        <5> QED BY <5>2
      <4>2. holds'[c] = tail + 1
        BY <3>1 DEF TypeOK
      <4>3. \A n \in r + 1 .. tail + 1 : n \in r + 1 .. tail \/ n = tail + 1
        BY <2>3
      <4> QED BY <4>1, <4>2, <4>3
    <3>3. r \in 0 .. tail'
      BY <2>3, <3>1
    <3>4. \A d \in Callers : pc'[d] = "queued" => OnLane(d)'
      BY <2>2, <2>3, <3>1 DEF OnLane, TypeOK
    <3> QED BY <2>1, <3>1, <3>2, <3>3, <3>4 DEF PromiseInv
  <2>6. ASSUME NEW c \in Callers, Enter(c) PROVE PromiseInv'
    BY <2>1, <2>2, <2>6 DEF Enter, PromiseInv, OnLane, TypeOK
  <2>7. ASSUME NEW c \in Callers, Settle(c) PROVE PromiseInv'
    <3>1. /\ holds' = [holds EXCEPT ![c] = 0] /\ tail' = tail
          /\ pc' = [pc EXCEPT ![c] = "idle"]
          /\ resolved' = IF holds[c] # 0 THEN resolved \cup {holds[c]} ELSE resolved
      BY <2>7 DEF Settle
    <3>2. \A d \in Callers : pc'[d] = "queued" => OnLane(d)'
      BY <2>2, <3>1 DEF OnLane, TypeOK
    <3>3. CASE holds[c] = 0
      <4>1. resolved' = 0 .. r /\ holds' = holds
        BY <2>1, <3>1, <3>3 DEF TypeOK
      <4> QED BY <2>1, <3>1, <3>2, <4>1 DEF PromiseInv
    <3>4. CASE holds[c] # 0
      <4>1. awaits[c] \in 0 .. r /\ holds[c] = awaits[c] + 1 /\ holds[c] \notin 0 .. r
            /\ holds[c] <= tail
        BY <2>1, <2>7, <3>4 DEF LaneInv, OnLane, Running, Settle
      <4>2. holds[c] = r + 1 /\ r + 1 \in 0 .. tail'
        BY <2>3, <3>1, <4>1
      <4>3. resolved' = 0 .. r + 1
        BY <2>1, <2>3, <3>1, <3>4, <4>2
      <4>4. ASSUME NEW n \in (r + 1) + 1 .. tail' PROVE \E d \in Callers : holds'[d] = n
        <5>1. PICK d \in Callers : holds[d] = n
          BY <2>1, <2>3, <3>1
        <5>2. d # c
          BY <2>3, <4>2, <5>1
        <5>3. holds'[d] = n
          BY <3>1, <5>1, <5>2 DEF TypeOK
        <5> QED BY <5>3
      <4> QED BY <3>2, <4>2, <4>3, <4>4 DEF PromiseInv
    <3> QED BY <3>3, <3>4
  <2>8. CASE UNCHANGED vars
    BY <2>1, <2>2, <2>8 DEF vars, PromiseInv, OnLane
  <2> QED BY <2>4, <2>5, <2>6, <2>7, <2>8 DEF Next
<1> QED BY <1>1, <1>2, TypeCorrect, LaneInvariance, PTL DEF Spec

\* So the promises served are the first ones, and who is inside holds the last.
LEMMA ServedInOrder == TypeOK /\ LaneInv /\ PromiseInv => ServedInv
<1> SUFFICES ASSUME TypeOK, LaneInv, PromiseInv PROVE ServedInv
  OBVIOUS
<1>1. PICK r \in 0 .. tail : /\ resolved = 0 .. r
                             /\ \A n \in r + 1 .. tail : \E c \in Callers : holds[c] = n
  BY DEF PromiseInv
<1>2. tail \in Nat /\ r \in Nat
  BY PromisesAssumption DEF TypeOK
<1>3. ASSUME NEW c \in Inside PROVE holds[c] = r + 1 /\ r + 1 <= tail
  <2>1. c \in Callers /\ OnLane(c) /\ Running(c)
    BY DEF Inside
  <2>2. /\ awaits[c] \in 0 .. r /\ holds[c] = awaits[c] + 1 /\ holds[c] \notin 0 .. r
        /\ holds[c] <= tail
    BY <1>1, <2>1 DEF LaneInv
  <2> QED BY <1>2, <2>2
<1>4. CASE Inside = {}
  <2>1. \A n \in 0 .. tail : Served(n) <=> n <= r
    BY <1>1, <1>2, <1>4 DEF Served
  <2>2. \A n \in 0 .. tail : (/\ \A m \in 0 .. n : Served(m)
                              /\ n = tail \/ ~ Served(n + 1)) <=> n = r
    <3>1. ASSUME NEW n \in 0 .. tail
          PROVE  (/\ \A m \in 0 .. n : Served(m)
                  /\ n = tail \/ ~ Served(n + 1)) <=> n = r
      <4>1. \A m \in 0 .. n : m \in 0 .. tail
        BY <1>2
      <4>2. (\A m \in 0 .. n : Served(m)) <=> n <= r
        BY <1>2, <2>1, <4>1
      <4>3. n # tail => (Served(n + 1) <=> n + 1 <= r)
        BY <1>2, <2>1
      <4> QED BY <1>2, <4>2, <4>3
    <3> QED BY <3>1
  <2>3. LastServed = r
    BY <2>2 DEF LastServed
  <2> QED BY <1>1, <1>4, <2>3 DEF ServedInv
<1>5. CASE Inside # {}
  <2>1. PICK c \in Callers : c \in Inside
    BY <1>5 DEF Inside
  <2>2. holds[c] = r + 1 /\ r + 1 <= tail
    BY <1>3, <2>1
  <2>3. Inside = {c}
    <3>1. ASSUME NEW d \in Inside PROVE d = c
      <4>1. holds[d] = holds[c] /\ d \in Callers /\ OnLane(c)
        BY <1>3, <2>1 DEF Inside
      <4> QED BY <4>1 DEF LaneInv
    <3> QED BY <2>1, <3>1
  <2>4. \A n \in 0 .. tail : Served(n) <=> n <= r + 1
    BY <1>1, <1>2, <2>2, <2>3 DEF Served
  <2>5. \A n \in 0 .. tail : (/\ \A m \in 0 .. n : Served(m)
                              /\ n = tail \/ ~ Served(n + 1)) <=> n = r + 1
    <3>1. ASSUME NEW n \in 0 .. tail
          PROVE  (/\ \A m \in 0 .. n : Served(m)
                  /\ n = tail \/ ~ Served(n + 1)) <=> n = r + 1
      <4>1. \A m \in 0 .. n : m \in 0 .. tail
        BY <1>2
      <4>2. (\A m \in 0 .. n : Served(m)) <=> n <= r + 1
        BY <1>2, <2>4, <4>1
      <4>3. n # tail => (Served(n + 1) <=> n + 1 <= r + 1)
        BY <1>2, <2>4
      <4> QED BY <1>2, <2>2, <4>2, <4>3
    <3> QED BY <3>1
  <2>6. LastServed = r + 1
    BY <1>2, <2>2, <2>5 DEF LastServed
  <2> QED BY <1>1, <2>2, <2>3, <2>6 DEF ServedInv
<1> QED BY <1>4, <1>5

\* The queue lists the holders of the promises that are not served yet.
LEMMA QueueInOrder == TypeOK /\ PromiseInv /\ ServedInv => QueueInv
<1> SUFFICES ASSUME TypeOK, PromiseInv, ServedInv PROVE QueueInv
  OBVIOUS
<1>1. PICK r \in 0 .. tail :
        /\ \A n \in r + 1 .. tail : \E c \in Callers : holds[c] = n
        /\ LastServed = r \/ (LastServed = r + 1 /\ r + 1 <= tail)
  <2>1. PICK r \in 0 .. tail :
          /\ \A n \in r + 1 .. tail : \E c \in Callers : holds[c] = n
          /\ \/ LastServed = r
             \/ \E c \in Callers : LastServed = r + 1 /\ r + 1 <= tail
    BY DEF ServedInv
  <2> QED BY <2>1
<1>2. tail \in Nat /\ r \in Nat
  BY PromisesAssumption DEF TypeOK
<1>3. PICK k \in 0 .. tail : k = LastServed
  BY <1>1, <1>2
<1>4. ASSUME NEW i \in 1 .. tail - k
      PROVE  Holder(k + i) \in Callers /\ holds[Holder(k + i)] = k + i
  <2>1. k + i \in r + 1 .. tail
    BY <1>1, <1>2, <1>3
  <2>2. \E c \in Callers : holds[c] = k + i
    BY <1>1, <2>1
  <2> QED BY <2>2 DEF Holder
<1>5. Queue = [i \in 1 .. tail - k |-> Holder(k + i)]
  BY <1>3 DEF Queue
<1>6. tail - k \in Nat
  BY <1>2, <1>3
<1>7. Queue \in [1 .. tail - k -> Callers]
  BY <1>4, <1>5
<1>8. Queue \in Seq(Callers) /\ Len(Queue) = tail - k
  BY <1>6, <1>7
<1>9. \A i \in 1 .. tail - k : holds[Queue[i]] = k + i
  BY <1>4, <1>5
<1>10. \A c \in Callers : pc[c] = "queued" => OnLane(c)
  BY DEF PromiseInv
<1> QED BY <1>3, <1>8, <1>9, <1>10 DEF QueueInv

\* What is known of the lane in every state.
LaneState == TypeOK /\ LaneInv /\ ServedInv /\ QueueInv

\* It holds in all of them.
LEMMA LaneStateKept == Spec => []LaneState
BY TypeCorrect, LaneInvariance, PromisesHeld, ServedInOrder, QueueInOrder, PTL DEF LaneState

\* Two sequences that list the same callers are the same.
LEMMA SameQueue ==
    ASSUME NEW p \in Seq(Callers), NEW q \in Seq(Callers), Len(p) = Len(q),
           \A i \in 1 .. Len(p) : p[i] = q[i]
    PROVE  p = q
BY SeqEqual

\* A step that changes no promise and moves nobody in or out leaves the queue alone.
LEMMA LaneStutters ==
    ASSUME LaneState, LaneState', holds' = holds, tail' = tail, resolved' = resolved,
           Inside' = Inside
    PROVE  Queue' = Queue
<1>1. LastServed' = LastServed
  <2>1. \A n : Served(n)' <=> Served(n)
    BY DEF Served
  <2> QED BY <2>1 DEF LastServed
<1> QED BY <1>1 DEF Queue, Holder

\* Every step of the orchestrator is a step of the queue or none.
LEMMA LaneStep ==
    ASSUME LaneState, LaneState', [Next]_vars
    PROVE  [Lane!Next]_<<Queue, Inside>>
<1>1. TypeOK /\ LaneInv /\ QueueInv /\ TypeOK' /\ LaneInv' /\ QueueInv'
  BY DEF LaneState
<1>2. PICK r \in 0 .. tail :
        /\ resolved = 0 .. r
        /\ \/ Inside = {} /\ LastServed = r
           \/ \E c \in Callers : /\ Inside = {c} /\ holds[c] = r + 1 /\ r + 1 <= tail
                                 /\ LastServed = r + 1
  BY DEF LaneState, ServedInv
<1>3. PICK s \in 0 .. tail' :
        /\ resolved' = 0 .. s
        /\ \/ Inside' = {} /\ LastServed' = s
           \/ \E c \in Callers : /\ Inside' = {c} /\ holds'[c] = s + 1 /\ s + 1 <= tail'
                                 /\ LastServed' = s + 1
  BY DEF LaneState, ServedInv
<1>4. /\ tail \in Nat /\ tail' \in Nat /\ r \in Nat /\ s \in Nat
      /\ pc \in [Callers -> {"idle", "queued", "running"}]
      /\ \A c \in Callers : holds[c] \in Nat
      /\ holds \in [Callers -> 0 .. tail]
  BY <1>1, PromisesAssumption DEF TypeOK
<1>5. /\ Queue \in Seq(Callers) /\ LastServed \in 0 .. tail /\ Len(Queue) = tail - LastServed
      /\ \A i \in 1 .. tail - LastServed : holds[Queue[i]] = LastServed + i
      /\ Queue' \in Seq(Callers) /\ LastServed' \in 0 .. tail'
      /\ Len(Queue') = tail' - LastServed'
      /\ \A i \in 1 .. tail' - LastServed' : holds'[Queue'[i]] = LastServed' + i
  BY <1>1 DEF QueueInv
<1>6. \A c \in Callers : c \in Inside <=> holds[c] # 0 /\ pc[c] = "running"
  BY DEF Inside, OnLane, Running
<1>7. \A c \in Callers : c \in Inside' <=> holds'[c] # 0 /\ pc'[c] = "running"
  BY DEF Inside, OnLane, Running
<1>8. Inside \subseteq Callers /\ Inside' \subseteq Callers
  BY DEF Inside
<1>9. ASSUME NEW c \in Callers, NEW i \in 1 .. tail' - LastServed',
             holds'[c] = LastServed' + i
      PROVE  Queue'[i] = c
  <2>1. i \in 1 .. Len(Queue') /\ holds'[Queue'[i]] = holds'[c] /\ holds'[c] # 0
    BY <1>5, <1>9
  <2>2. Queue'[i] \in Callers
    BY <1>5, <2>1
  <2> QED BY <1>1, <2>1, <2>2 DEF LaneInv, OnLane
<1>10. ASSUME NEW c \in Callers, NEW h \in Helpers, CallConcurrent(c, h)
       PROVE  UNCHANGED <<Queue, Inside>>
  <2>1. /\ holds' = holds /\ tail' = tail /\ resolved' = resolved
        /\ pc' = [pc EXCEPT ![c] = "running"] /\ pc[c] = "idle"
    BY <1>10 DEF CallConcurrent
  <2>2. holds[c] = 0
    BY <1>1, <2>1 DEF LaneInv, OnLane
  <2>3. Inside' = Inside
    BY <1>4, <1>6, <1>7, <1>8, <2>1, <2>2
  <2> QED BY <2>1, <2>3, LaneStutters
<1>11. ASSUME NEW c \in Callers, NEW h \in Helpers, CallSerial(c, h)
       PROVE  Lane!Join(c)
  <2>1. /\ holds' = [holds EXCEPT ![c] = tail'] /\ tail' = tail + 1 /\ resolved' = resolved
        /\ pc' = [pc EXCEPT ![c] = "queued"] /\ pc[c] = "idle"
    BY <1>11 DEF CallSerial
  <2>2. holds[c] = 0
    BY <1>1, <2>1 DEF LaneInv, OnLane
  <2>3. Inside' = Inside
    BY <1>4, <1>6, <1>7, <1>8, <2>1, <2>2
  <2>4. s = r
    <3>1. r \in 0 .. s /\ s \in 0 .. r
      BY <1>2, <1>3, <1>4, <2>1
    <3> QED BY <3>1
  <2>5. LastServed' = LastServed
    BY <1>2, <1>3, <2>3, <2>4
  <2>6. /\ c \notin Inside
        /\ \A i \in DOMAIN Queue : Queue[i] # c
    <3>1. \A i \in 1 .. tail - LastServed : Queue[i] # c
      BY <1>4, <1>5, <2>2
    <3>2. DOMAIN Queue = 1 .. tail - LastServed
      BY <1>5
    <3> QED BY <1>6, <2>2, <3>1, <3>2
  <2>7. Queue' = Append(Queue, c)
    <3>1. /\ Append(Queue, c) \in Seq(Callers) /\ Len(Append(Queue, c)) = Len(Queue) + 1
          /\ \A i \in 1 .. Len(Queue) : Append(Queue, c)[i] = Queue[i]
          /\ Append(Queue, c)[Len(Queue) + 1] = c
      BY <1>5
    <3>2. Len(Queue') = Len(Queue) + 1
      BY <1>4, <1>5, <2>1, <2>5
    <3>3. ASSUME NEW i \in 1 .. Len(Queue') PROVE Queue'[i] = Append(Queue, c)[i]
      <4>1. i \in 1 .. tail' - LastServed'
        BY <1>5
      <4>2. CASE i \in 1 .. Len(Queue)
        <5>1. Queue[i] \in Callers /\ Queue[i] # c /\ holds[Queue[i]] = LastServed + i
          BY <1>5, <2>6, <4>2
        <5>2. holds'[Queue[i]] = LastServed' + i
          BY <1>4, <2>1, <2>5, <5>1
        <5>3. Queue'[i] = Queue[i]
          BY <4>1, <5>1, <5>2, <1>9
        <5> QED BY <3>1, <4>2, <5>3
      <4>3. CASE i = Len(Queue) + 1
        <5>1. holds'[c] = LastServed' + i
          BY <1>4, <1>5, <2>1, <2>5, <4>3
        <5>2. Queue'[i] = c
          BY <4>1, <5>1, <1>9
        <5> QED BY <3>1, <4>3, <5>2
      <4>4. Len(Queue) \in Nat
        BY <1>5
      <4> QED BY <3>2, <4>2, <4>3, <4>4
    <3> QED BY <1>5, <3>1, <3>2, <3>3, SameQueue
  <2> QED BY <2>3, <2>6, <2>7 DEF Lane!Join
<1>12. ASSUME NEW c \in Callers, Enter(c)
       PROVE  Lane!Admit
  <2>1. /\ holds' = holds /\ tail' = tail /\ resolved' = resolved
        /\ pc' = [pc EXCEPT ![c] = "running"] /\ pc[c] = "queued" /\ awaits[c] \in resolved
    BY <1>12 DEF Enter
  <2>2. /\ holds[c] # 0 /\ holds[c] = awaits[c] + 1 /\ holds[c] \notin resolved
        /\ holds[c] <= tail
    BY <1>1, <2>1 DEF LaneInv, QueueInv, OnLane
  <2>3. holds[c] = r + 1
    BY <1>2, <1>4, <2>1, <2>2
  <2>4. Inside = {} /\ LastServed = r
    <3>1. ASSUME NEW d \in Callers, Inside = {d}, holds[d] = r + 1 PROVE FALSE
      <4>1. d = c
        BY <1>1, <2>2, <2>3, <3>1 DEF LaneInv, OnLane
      <4> QED BY <1>6, <2>1, <3>1, <4>1
    <3> QED BY <1>2, <3>1
  <2>5. Inside' = {c}
    BY <1>4, <1>6, <1>7, <1>8, <2>1, <2>2, <2>4
  <2>6. s = r
    <3>1. r \in 0 .. s /\ s \in 0 .. r
      BY <1>2, <1>3, <1>4, <2>1
    <3> QED BY <3>1
  <2>7. LastServed' = r + 1
    BY <1>3, <2>5, <2>6
  <2>8. Len(Queue) \in Nat \ {0} /\ Queue # <<>> /\ Head(Queue) = c
    <3>1. 1 \in 1 .. tail - LastServed /\ Len(Queue) \in Nat \ {0}
      BY <1>4, <1>5, <2>2, <2>3, <2>4
    <3>2. holds[Queue[1]] = r + 1 /\ Queue[1] \in Callers
      BY <1>5, <2>4, <3>1
    <3>3. Queue[1] = c
      BY <1>1, <2>2, <2>3, <3>2 DEF LaneInv, OnLane
    <3> QED BY <1>5, <3>1, <3>3
  <2>9. Queue' = Tail(Queue)
    <3>1. /\ Tail(Queue) \in Seq(Callers) /\ Len(Tail(Queue)) = Len(Queue) - 1
          /\ \A i \in 1 .. Len(Queue) - 1 : Tail(Queue)[i] = Queue[i + 1]
      BY <1>5, <2>8
    <3>2. Len(Queue') = Len(Queue) - 1
      BY <1>4, <1>5, <2>1, <2>4, <2>7
    <3>3. ASSUME NEW i \in 1 .. Len(Queue') PROVE Queue'[i] = Tail(Queue)[i]
      <4>1. /\ i \in 1 .. tail' - LastServed' /\ i + 1 \in 1 .. tail - LastServed
            /\ i \in 1 .. Len(Queue) - 1 /\ i + 1 \in 1 .. Len(Queue)
        <5>1. i \in 1 .. Len(Queue) - 1 /\ i + 1 \in 1 .. Len(Queue)
          BY <2>8, <3>2
        <5>2. Len(Queue) = tail - LastServed /\ Len(Queue') = tail' - LastServed'
          BY <1>5
        <5> QED BY <5>1, <5>2
      <4>2. Queue[i + 1] \in Callers /\ holds[Queue[i + 1]] = LastServed + (i + 1)
        BY <1>5, <4>1
      <4>3. holds'[Queue[i + 1]] = LastServed' + i
        BY <1>4, <2>1, <2>4, <2>7, <4>1, <4>2
      <4>4. Queue'[i] = Queue[i + 1]
        BY <1>9, <4>1, <4>2, <4>3
      <4> QED BY <3>1, <4>1, <4>4
    <3> QED BY <1>5, <3>1, <3>2, <3>3, SameQueue
  <2> QED BY <2>4, <2>5, <2>8, <2>9 DEF Lane!Admit
<1>13. ASSUME NEW c \in Callers, Settle(c)
       PROVE  Lane!Depart \/ UNCHANGED <<Queue, Inside>>
  <2>1. /\ holds' = [holds EXCEPT ![c] = 0] /\ tail' = tail
        /\ pc' = [pc EXCEPT ![c] = "idle"] /\ pc[c] = "running"
        /\ resolved' = IF holds[c] # 0 THEN resolved \cup {holds[c]} ELSE resolved
    BY <1>13 DEF Settle
  <2>2. CASE holds[c] = 0
    <3>1. holds' = holds /\ resolved' = resolved
      BY <1>4, <2>1, <2>2
    <3>2. Inside' = Inside
      BY <1>4, <1>6, <1>7, <1>8, <2>1, <2>2
    <3> QED BY <2>1, <3>1, <3>2, LaneStutters
  <2>3. CASE holds[c] # 0
    <3>1. c \in Inside
      BY <1>6, <2>1, <2>3
    <3>2. Inside = {c} /\ holds[c] = r + 1 /\ r + 1 <= tail /\ LastServed = r + 1
      BY <1>2, <3>1
    <3>3. Inside' = {}
      BY <1>4, <1>6, <1>7, <1>8, <2>1, <3>2
    <3>4. s = r + 1
      <4>1. resolved' = 0 .. r + 1
        BY <1>2, <1>4, <2>1, <2>3, <3>2
      <4>2. r + 1 \in 0 .. s /\ s \in 0 .. r + 1
        BY <1>3, <1>4, <4>1
      <4> QED BY <4>2
    <3>5. LastServed' = LastServed
      BY <1>3, <3>2, <3>3, <3>4
    <3>6. Len(Queue') = Len(Queue)
      BY <1>5, <2>1, <3>5
    <3>7. ASSUME NEW i \in 1 .. Len(Queue') PROVE Queue'[i] = Queue[i]
      <4>1. i \in 1 .. tail' - LastServed' /\ i \in 1 .. tail - LastServed
            /\ i \in 1 .. Len(Queue)
        BY <1>5, <3>6
      <4>2. Queue[i] \in Callers /\ holds[Queue[i]] = LastServed + i
        BY <1>5, <4>1
      <4>3. Queue[i] # c
        BY <1>4, <3>2, <4>2
      <4>4. holds'[Queue[i]] = LastServed' + i
        BY <1>4, <2>1, <3>5, <4>2, <4>3
      <4> QED BY <1>9, <4>1, <4>2, <4>4
    <3>8. Queue' = Queue
      BY <1>5, <3>6, <3>7, SameQueue
    <3> QED BY <3>2, <3>3, <3>8 DEF Lane!Depart
  <2> QED BY <2>2, <2>3
<1>14. CASE UNCHANGED vars
  <2>1. /\ holds' = holds /\ tail' = tail /\ resolved' = resolved /\ Inside' = Inside
    BY <1>14 DEF vars, Inside, OnLane, Running
  <2> QED BY <2>1, LaneStutters
<1> QED BY <1>10, <1>11, <1>12, <1>13, <1>14 DEF Next, Lane!Next

\* The lane of the orchestrator implements the queue: a serial call joins at its
\* end, the oldest is let in when the one before it has settled
\* (capability-orchestration.ts), for any callers and any catalogue.
THEOREM OrchestratorImplementsLane == Spec => LaneIsFifo
<1>1. Init => Lane!Init
  <2> SUFFICES ASSUME Init PROVE Lane!Init
    OBVIOUS
  <2>1. Inside = {}
    BY DEF Init, Inside, OnLane
  <2>2. tail = 0 /\ resolved = {0}
    BY DEF Init
  <2>3. LastServed = 0
    <3>1. \A n \in 0 .. tail : (/\ \A m \in 0 .. n : Served(m)
                                /\ n = tail \/ ~ Served(n + 1)) <=> n = 0
      BY <2>2 DEF Served
    <3> QED BY <2>2, <3>1 DEF LastServed
  <2>4. Queue = [i \in 1 .. 0 |-> Holder(0 + i)]
    BY <2>2, <2>3 DEF Queue
  <2>5. Queue = <<>>
    BY <2>4
  <2> QED BY <2>1, <2>5 DEF Lane!Init
<1> QED BY <1>1, LaneStateKept, LaneStep, PTL DEF Spec, LaneIsFifo, Lane!Spec

-----------------------------------------------------------------------------
(* Why the lane moves on.  A caller only ever waits for one promise, which  *)
(* somebody must resolve: no promise is ever without a holder that runs or  *)
(* can, and every call that settles brings all that wait nearer.            *)

\* While a call waits, one on the lane runs or may be let in.
SomeoneCanMove ==
    (\E c \in Callers : pc[c] = "queued") =>
        \E d \in Callers : OnLane(d) /\ (Running(d) \/ awaits[d] \in resolved)

\* The promises a caller on the lane still waits for
Ahead(c) == (0 .. awaits[c]) \ resolved

\* The caller holds its promise in every state in which it waits.
LEMMA SomeoneHolds == TypeOK /\ LaneInv /\ PromiseInv => SomeoneCanMove
<1> SUFFICES ASSUME TypeOK, LaneInv, PromiseInv, NEW c \in Callers, pc[c] = "queued"
             PROVE  \E d \in Callers : OnLane(d) /\ (Running(d) \/ awaits[d] \in resolved)
  BY DEF SomeoneCanMove
<1>1. PICK r \in 0 .. tail : /\ resolved = 0 .. r
                             /\ \A n \in r + 1 .. tail : \E d \in Callers : holds[d] = n
  BY DEF PromiseInv
<1>2. tail \in Nat /\ r \in Nat
  BY PromisesAssumption DEF TypeOK
<1>3. OnLane(c)
  BY DEF PromiseInv
<1>4. holds[c] \in 0 .. tail /\ holds[c] \notin 0 .. r
  BY <1>1, <1>3 DEF TypeOK, LaneInv
<1>5. r + 1 \in r + 1 .. tail
  BY <1>2, <1>4
<1>6. PICK d \in Callers : holds[d] = r + 1
  BY <1>1, <1>5
<1>7. OnLane(d)
  BY <1>2, <1>6 DEF OnLane
<1>8. awaits[d] \in 0 .. tail /\ holds[d] = awaits[d] + 1
  BY <1>7 DEF TypeOK, LaneInv
<1>9. awaits[d] = r /\ r \in 0 .. r
  BY <1>2, <1>6, <1>8
<1> QED BY <1>1, <1>7, <1>9

\* A chain of promises is never broken: whenever a caller waits, another, or itself,
\* runs on the lane or waits for a promise that is resolved already, whatever calls
\* came, went and failed before (runSerial in src/runtime/capability-orchestration.ts).
THEOREM LaneNeverStuck == Spec => []SomeoneCanMove
<1> QED BY SomeoneHolds, TypeCorrect, LaneInvariance, PromisesHeld, PTL

\* No step puts anything before a caller that waits, and a call that settles on the
\* lane takes itself from what each of them still waits for: a caller waits for no
\* more calls than were on the lane when it came.
WaitingShrinks ==
    \A c \in Callers : pc[c] = "queued" /\ pc'[c] = "queued" =>
        /\ awaits'[c] = awaits[c]
        /\ Ahead(c)' \subseteq Ahead(c)
        /\ \A d \in Callers : OnLane(d) /\ Settle(d) =>
             holds[d] \in Ahead(c) /\ Ahead(c)' = Ahead(c) \ {holds[d]}

\* A step of the lane shrinks what its callers wait for.
LEMMA StepShrinks ==
    TypeOK /\ LaneInv /\ PromiseInv /\ FirstComeFirstServed /\ [Next]_vars => WaitingShrinks
<1> SUFFICES ASSUME TypeOK, LaneInv, PromiseInv, FirstComeFirstServed, [Next]_vars,
                    NEW c \in Callers, pc[c] = "queued", pc'[c] = "queued"
             PROVE  /\ awaits'[c] = awaits[c]
                    /\ Ahead(c)' \subseteq Ahead(c)
                    /\ \A d \in Callers : OnLane(d) /\ Settle(d) =>
                         holds[d] \in Ahead(c) /\ Ahead(c)' = Ahead(c) \ {holds[d]}
  BY DEF WaitingShrinks
<1>1. awaits'[c] = awaits[c] /\ resolved \subseteq resolved'
  <2>1. ASSUME NEW d \in Callers, NEW h \in Helpers, CallConcurrent(d, h) \/ CallSerial(d, h)
        PROVE  awaits'[c] = awaits[c] /\ resolved \subseteq resolved'
    BY <2>1 DEF CallConcurrent, CallSerial, TypeOK
  <2>2. ASSUME NEW d \in Callers, Enter(d) \/ Settle(d)
        PROVE  awaits'[c] = awaits[c] /\ resolved \subseteq resolved'
    BY <2>2 DEF Enter, Settle, TypeOK
  <2>3. CASE UNCHANGED vars
    BY <2>3 DEF vars
  <2> QED BY <2>1, <2>2, <2>3 DEF Next
<1>2. ASSUME NEW d \in Callers, OnLane(d), Settle(d)
      PROVE  holds[d] \in Ahead(c) /\ Ahead(c)' = Ahead(c) \ {holds[d]}
  <2>1. Running(d) /\ resolved' = resolved \cup {holds[d]}
    BY <1>2 DEF Settle, Running, OnLane
  <2>2. OnLane(c) /\ c # d
    BY <2>1 DEF PromiseInv, Running
  <2>3. holds[d] <= holds[c] /\ holds[d] # holds[c] /\ holds[c] = awaits[c] + 1
    BY <1>2, <2>1, <2>2 DEF FirstComeFirstServed, LaneInv
  <2>4. holds[d] \in 0 .. tail /\ awaits[c] \in 0 .. tail /\ tail \in Nat
    BY PromisesAssumption DEF TypeOK
  <2>5. holds[d] \in 0 .. awaits[c] /\ holds[d] \notin resolved
    BY <1>2, <2>3, <2>4 DEF LaneInv
  <2> QED BY <1>1, <2>1, <2>5 DEF Ahead
<1> QED BY <1>1, <1>2 DEF Ahead

\* A caller on the lane is never overtaken or pushed back, and every call that settles
\* there shortens its wait, for any callers and any catalogue.
THEOREM WaitsShrink == Spec => [][WaitingShrinks]_vars
<1> QED BY StepShrinks, TypeCorrect, LaneInvariance, PromisesHeld, OneSerialCall, PTL DEF Spec

-----------------------------------------------------------------------------
(* The ways in.  An entry fits when the context it checks and its first     *)
(* call's demands cover the demands of its later calls, each call's demands *)
(* and that context cover what the call writes, and the ids it refuses to   *)
(* go without cover the ids of its paths.  The tables are walked stretch by *)
(* stretch: what holds of two stretches holds of their join.                *)

\* The calls of a registration, which write a tenant they do not demand
RegistrationCalls ==
    {"postHeartbeat", "uploadSync", "downloadSync", "submitEvidence", "submitProposal"}

\* A table gives the keys M nothing outside X.
Names(F, M, X) == \A m \in M : m \in DOMAIN F => F[m] \subseteq X

\* What a client call writes it demands, the tenant of a registration apart.
Demanded(F) == \A m \in DOMAIN F \ RegistrationCalls : F[m].writes \subseteq F[m].demands

\* What the call m writes it demands, and its path names no ids but these.
Sound(m, ids) ==
    Client[m].writes \subseteq Client[m].demands /\ PathIds(m) \subseteq ids

\* The same of a call the orchestrator lets through first
GovernedSound(m, ids) ==
    /\ Client[m].writes \subseteq Catalogue[m].requires \cup Client[m].demands
    /\ PathIds(m) \subseteq ids

\* The calls of an entry, for a caller that holds the context X and the ids
Fits(n, calls, ids, X) ==
    \A i \in DOMAIN calls :
        /\ i \in Nat \ {0}
        /\ n = "universe run"
           \/ Client[calls[i]].demands \subseteq X \cup Client[calls[1]].demands
        /\ Client[calls[i]].writes \subseteq X \cup Client[calls[i]].demands
        /\ n \in Unguarded \/ PathIds(calls[i]) \subseteq ids

\* An entry has its five fields.
IsWay(e) == e = [calls |-> e.calls, ids |-> e.ids, requires |-> e.requires,
                 carries |-> e.carries, via |-> e.via]
\* The calls of a table fit under the context X, or under what each entry checks.
FitUnder(X, F) == \A n \in DOMAIN F : IsWay(F[n]) /\ Fits(n, F[n].calls, F[n].ids, X)
Fit(F) == \A n \in DOMAIN F : IsWay(F[n]) /\ Fits(n, F[n].calls, F[n].ids, F[n].requires)

\* A table of entries the orchestrator is asked for, by their own names
GovernedFit(F) ==
    \A n \in DOMAIN F : /\ IsWay(F[n])
                        /\ Fits(n, F[n].calls, F[n].ids, Catalogue[n].requires)

\* Two stretches of the ids that keep to X do so together.
LEMMA JoinNames ==
    ASSUME NEW f, NEW g, NEW M, NEW X, Names(f, M, X), Names(g, M, X)
    PROVE  Names(f @@ g, M, X)
<1>1. Names(Over(f, g), M, X)
  BY DEF Names, Over
<1> QED BY <1>1 DEF @@

\* Two stretches of client methods that demand what they write, together.
LEMMA JoinDemanded ==
    ASSUME NEW f, NEW g, Demanded(f), Demanded(g)
    PROVE  Demanded(f @@ g)
<1>1. Demanded(Over(f, g))
  BY DEF Demanded, Over
<1> QED BY <1>1 DEF @@

\* Two stretches of entries that fit a context, together.
LEMMA JoinFitUnder ==
    ASSUME NEW f, NEW g, NEW X, FitUnder(X, f), FitUnder(X, g)
    PROVE  FitUnder(X, f @@ g)
<1>1. FitUnder(X, Over(f, g))
  BY DEF FitUnder, Over
<1> QED BY <1>1 DEF @@

\* Two stretches of entries that fit, together.
LEMMA JoinFit ==
    ASSUME NEW f, NEW g, Fit(f), Fit(g)
    PROVE  Fit(f @@ g)
<1>1. Fit(Over(f, g))
  BY DEF Fit, Over
<1> QED BY <1>1 DEF @@

\* A stretch of the ids names its own ids, of its own methods.
LEMMA NamingNames ==
    ASSUME NEW H, NEW I, NEW M, NEW X, M \cap H = {} \/ I \subseteq X
    PROVE  Names(Naming(H, I), M, X)
  BY DEF Names, Naming

\* The methods with a builder of headers demand what they write.
LEMMA MethodDemands ==
    ASSUME NEW H, NEW K
    PROVE  Demanded(Method(H, K)) /\ DOMAIN Method(H, K) = H
  BY DEF Demanded, Method

\* The registration methods are the ones that may not.
LEMMA RegistrationDemands ==
    ASSUME NEW H, H \subseteq RegistrationCalls
    PROVE  Demanded(ByRegistration(H)) /\ DOMAIN ByRegistration(H) = H
  BY DEF Demanded, ByRegistration

\* An entry made of its calls and ids has the fields of one.
LEMMA MakingIsWay ==
    ASSUME NEW calls, NEW ids
    PROVE  /\ IsWay(Making(calls, ids))
           /\ Making(calls, ids).calls = calls /\ Making(calls, ids).ids = ids
  BY DEF IsWay, Making

\* A table of one entry fits when its calls do.
LEMMA OneFits ==
    ASSUME NEW n, NEW calls, NEW ids, NEW X, Fits(n, calls, ids, X)
    PROVE  FitUnder(X, n :> Making(calls, ids))
  BY MakingIsWay DEF FitUnder, :>

\* The places of a sequence of one call.
LEMMA OneCall ==
    ASSUME NEW m
    PROVE  \A i \in DOMAIN <<m>> : i = 1 /\ i \in Nat \ {0} /\ <<m>>[i] = m
  OBVIOUS

\* One call fits when it demands what it writes and its ids are asked for.
LEMMA AloneFits ==
    ASSUME NEW n, NEW m, NEW ids, NEW X,
           Client[m].writes \subseteq X \cup Client[m].demands,
           n \in Unguarded \/ PathIds(m) \subseteq ids
    PROVE  Fits(n, <<m>>, ids, X)
<1> DEFINE calls == <<m>>
<1>1. \A i \in DOMAIN calls : i = 1 /\ i \in Nat \ {0} /\ calls[i] = m
  BY OneCall
<1> HIDE DEF calls
<1>2. \A i \in DOMAIN calls :
         /\ Client[calls[i]].demands \subseteq X \cup Client[calls[1]].demands
         /\ Client[calls[i]].writes \subseteq X \cup Client[calls[i]].demands
         /\ n \in Unguarded \/ PathIds(calls[i]) \subseteq ids
  BY <1>1
<1>3. Fits(n, calls, ids, X)
  BY <1>1, <1>2 DEF Fits
<1> QED BY <1>3 DEF calls

\* What Each files under a method.
LEMMA EachIs ==
    ASSUME NEW M, NEW ids
    PROVE  DOMAIN Each(M, ids) = M /\ \A m \in M : Each(M, ids)[m] = Making(<<m>>, ids)
  BY DEF Each

\* Entries that make the one sound call they are named for fit any context.
LEMMA EachFits ==
    ASSUME NEW M, NEW ids, NEW X, \A m \in M : Sound(m, ids)
    PROVE  FitUnder(X, Each(M, ids))
<1>1. ASSUME NEW m \in M
      PROVE  Fits(m, <<m>>, ids, X)
  BY <1>1, AloneFits DEF Sound
<1>2. ASSUME NEW m \in DOMAIN Each(M, ids)
      PROVE  IsWay(Each(M, ids)[m])
             /\ Fits(m, Each(M, ids)[m].calls, Each(M, ids)[m].ids, X)
  <2>1. m \in M /\ Each(M, ids)[m] = Making(<<m>>, ids)
    BY EachIs, <1>2
  <2> QED BY <2>1, <1>1, MakingIsWay
<1> QED BY <1>2 DEF FitUnder

\* The same of entries the orchestrator is asked for.
LEMMA EachGoverned ==
    ASSUME NEW M, NEW ids, \A m \in M : GovernedSound(m, ids)
    PROVE  GovernedFit(Each(M, ids))
<1>1. ASSUME NEW m \in M
      PROVE  Fits(m, <<m>>, ids, Catalogue[m].requires)
  BY <1>1, AloneFits DEF GovernedSound
<1>2. ASSUME NEW m \in DOMAIN Each(M, ids)
      PROVE  IsWay(Each(M, ids)[m])
             /\ Fits(m, Each(M, ids)[m].calls, Each(M, ids)[m].ids, Catalogue[m].requires)
  <2>1. m \in M /\ Each(M, ids)[m] = Making(<<m>>, ids)
    BY EachIs, <1>2
  <2> QED BY <2>1, <1>1, MakingIsWay
<1> QED BY <1>2 DEF GovernedFit

\* An entry of one sound call fits any context.
LEMMA SoundAloneFits ==
    ASSUME NEW n, NEW m, NEW ids, NEW X, Sound(m, ids)
    PROVE  FitUnder(X, n :> Making(<<m>>, ids))
<1>1. Fits(n, <<m>>, ids, X)
  BY AloneFits DEF Sound
<1> QED BY <1>1, OneFits

\* Of an unguarded entry the ids do not matter.
LEMMA UnguardedAloneFits ==
    ASSUME NEW n, NEW m, NEW ids, NEW other, NEW X, Sound(m, other), n \in Unguarded
    PROVE  FitUnder(X, n :> Making(<<m>>, ids))
<1>1. Fits(n, <<m>>, ids, X)
  BY AloneFits DEF Sound
<1> QED BY <1>1, OneFits

\* An entry that makes no call fits.
LEMMA NoCallFits ==
    ASSUME NEW n, NEW ids, NEW X
    PROVE  FitUnder(X, n :> Making(<<>>, ids))
<1> DEFINE calls == <<>>
<1>1. \A i \in DOMAIN calls : FALSE
  OBVIOUS
<1> HIDE DEF calls
<1>2. Fits(n, calls, ids, X)
  BY <1>1 DEF Fits
<1>3. Fits(n, <<>>, ids, X)
  BY <1>2 DEF calls
<1> QED BY <1>3, OneFits

\* What fits with no context fits with every one.
LEMMA Wider ==
    ASSUME NEW X, NEW F, FitUnder({}, F)
    PROVE  FitUnder(X, F) /\ Fit(F)
  BY DEF FitUnder, Fit, Fits

\* Entries that check the context their calls fit under fit.
LEMMA CheckingFits ==
    ASSUME NEW X, NEW F, FitUnder(X, F)
    PROVE  Fit(Checking(X, F))
  BY DEF FitUnder, Fit, Checking, IsWay

\* What the client of an entry is given changes nothing.
LEMMA CarryingFits ==
    ASSUME NEW K, NEW F
    PROVE  /\ Fit(F) => Fit(Carrying(K, F))
           /\ \A X : FitUnder(X, F) => FitUnder(X, Carrying(K, F))
  BY DEF FitUnder, Fit, Carrying, IsWay

\* Nor does the helper an entry asks the orchestrator for.
LEMMA AskingFits ==
    ASSUME NEW h, NEW F, Fit(F)
    PROVE  Fit(Asking(h, F))
  BY DEF FitUnder, Fit, Asking, IsWay

\* Entries held to the context of the catalogue fit.
LEMMA GovernedFits ==
    ASSUME NEW F, GovernedFit(F)
    PROVE  Fit(Governed(F))
  BY DEF GovernedFit, Fit, Governed, IsWay

\* Two stretches of entries held to the catalogue, together.
LEMMA JoinGoverned ==
    ASSUME NEW f, NEW g, GovernedFit(f), GovernedFit(g)
    PROVE  GovernedFit(f @@ g)
<1>1. GovernedFit(Over(f, g))
  BY DEF GovernedFit, Over
<1> QED BY <1>1 DEF @@

\* What fits with no context fits with that of the catalogue.
LEMMA UngovernedFits ==
    ASSUME NEW F, FitUnder({}, F)
    PROVE  GovernedFit(F)
  BY DEF FitUnder, GovernedFit, Fits

\* A dispatcher fits for the tools the server offers.
LEMMA DispatchedFits ==
    ASSUME NEW T, NEW F
    PROVE  /\ FitUnder({}, F) => FitUnder({}, Dispatched(T, F))
           /\ GovernedFit(F) => GovernedFit(Dispatched(T, F))
  BY DEF FitUnder, GovernedFit, Dispatched

\* The two invariants, of a table whose entries fit: what is demanded at the first
\* call covers the later ones, and what is checked or demanded covers what is written.
LEMMA FitIsEnough ==
    ASSUME NEW F, Fit(F)
    PROVE  RefusedFirst(F) /\ Whole(F)
<1>1. ASSUME NEW n \in DOMAIN F, n # "universe run", Goes(F[n]),
             NEW i \in DOMAIN F[n].calls, ~Allowed(F[n], i), Allowed(F[n], 1)
      PROVE  FALSE
  BY <1>1 DEF Fit, Fits, Goes, Allowed, Held
<1>2. ASSUME NEW n \in DOMAIN F, Goes(F[n]),
             NEW i \in DOMAIN F[n].calls, Allowed(F[n], i)
      PROVE  /\ Client[F[n].calls[i]].writes \subseteq Held(F[n])
             /\ n \in Unguarded \/ PathIds(F[n].calls[i]) \subseteq F[n].ids
  BY <1>2 DEF Fit, Fits, Goes, Allowed, Held
<1>3. ASSUME NEW n \in DOMAIN F, NEW i \in Reached(F[n])
      PROVE  i \in DOMAIN F[n].calls /\ Allowed(F[n], i)
  <2>1. i \in DOMAIN F[n].calls /\ \A j \in 1 .. i : Allowed(F[n], j)
    BY <1>3 DEF Reached
  <2>2. i \in Nat \ {0}
    BY <2>1, <1>3 DEF Fit, Fits
  <2>3. i \in 1 .. i
    BY <2>2
  <2> QED BY <2>1, <2>3
<1> QED BY <1>1, <1>2, <1>3 DEF RefusedFirst, Whole

\* The client calls by the ids their paths name
WithoutId ==
    {"listAgentRegistrations", "listAuthorityProfiles", "listCapabilityProfiles",
     "listCanonicalSemanticLabels", "listCanonicalSemanticMappings",
     "listPricingRuleAtoms", "listPricingQuotationMethodModules",
     "listPricingQuoteTemplates", "listPricingQuotations", "listPricingExplanations",
     "listPublicIntegrationApps", "createAccountIntegrationApp",
     "createAccountIntegrationInstallation", "listAccountIntegrationApps",
     "listAccountIntegrationInstallations", "listAccountIntegrationCapabilities",
     "getAccountMe", "listAccountAgents", "selectOrg",
     "acceptAccountMembershipInvitation", "listAccountAgentBindings",
     "listAccountRecords", "listCanonicalSemanticConcepts", "listPricingBases",
     "listDocumentArtifacts", "listMediaAssets", "listEvidenceAssets",
     "listAttachmentBindings", "signUpPersonalAccount", "signUpEnterpriseAccount",
     "signIn", "refreshSession", "revokeSession", "listCanonicalSemanticTaxonomyEntries",
     "listCanonicalSemanticLineageLinks", "createProvisionalAgent",
     "claimProvisionalAgent", "createOperatorConnection", "createOperatorExecutionListing"}
OfAgent ==
    {"getAccountAgent", "getAccountAgentDispatchAuthority", "getAccountAgentClosureStatus",
     "patchAgentSelfService", "createAccountAgentDispatchAuthorityRequest",
     "getAccountAgentExecutionStatus", "refreshAccountAgentAuthorization",
     "createAccountAgentExternalBinding", "listTaskDispatches", "createLease",
     "createTaskDispatch", "createClaim", "postAccountAgentExecutionPresence",
     "uploadAccountAgentExecutionSync", "submitAccountAgentExecutionEvidence",
     "submitAccountAgentExecutionProposal", "createAccountAgentExecutionListing",
     "downloadAccountAgentExecutionSync"}
OfRegistration ==
    {"getAgentReadiness", "getAgentSummary", "getAgentRegistration",
     "getAgentAuthorityProfile", "getAgentAuthorityLadder", "getAgentCapabilityProfile",
     "postAgentAuthorityProfile", "postAgentAuthorityLadder",
     "postAgentCapabilityProfile", "getAgentPresence", "getAgentAuthority",
     "listParticipationStates", "createParticipationState"}
OfDispatch ==
    {"getTaskDispatch", "getAccountAgentGovernedWorkClosure", "assignTaskDispatch",
     "suspendTaskDispatch", "resumeTaskDispatch", "completeTaskDispatch",
     "failTaskDispatch", "createTaskDispatchOutcome", "createTaskDispatchEvidenceBundle",
     "createTaskDispatchConfirmationCycle"}
OfItem ==
    {"getCanonicalSemanticLabel", "getCanonicalSemanticMapping", "getPricingRuleAtom",
     "getPricingQuotationMethodModule", "getPricingQuoteTemplate", "getPricingQuotation",
     "getPricingExplanation", "getCanonicalSemanticConcept", "getPricingBasis",
     "getDocumentArtifact", "getMediaAsset", "getEvidenceAsset", "getAttachmentBinding",
     "getCanonicalSemanticTaxonomyEntry", "getCanonicalSemanticLineageLink"}
OfCommercial ==
    {"getOperatorCommercialActionStatus", "getOperatorCommercialActionReceipt",
     "getOperatorCommercialActionAudit"}
OfListing ==
    {"activateAccountAgentExecutionListing", "getAccountAgentExecutionListingStatus",
     "getAccountAgentExecutionListingMaterializationStatus"}
OfOpportunity ==
    {"getAccountAgentExecutionOpportunityStatus", "getAccountAgentExecutionOpportunityEndState"}
OfMatching ==
    {"activateOperatorExecutionListing", "generateOperatorMatchCandidates",
     "listOperatorMatches"}

\* The table F has the key m.
Has(F, m) == m \in DOMAIN F

\* The calls M demand the context V.
Demand(F, M, V) == \A m \in M : m \in DOMAIN F => F[m].demands = V

\* A key of one of two stretches is a key of the whole.
LEMMA JoinHas ==
    ASSUME NEW f, NEW g, NEW m, Has(f, m) \/ Has(g, m)
    PROVE  Has(f @@ g, m)
<1>1. Has(Over(f, g), m)
  BY DEF Has, Over
<1> QED BY <1>1 DEF @@

\* Two stretches of methods that demand V, together.
LEMMA JoinDemand ==
    ASSUME NEW f, NEW g, NEW M, NEW V, Demand(f, M, V), Demand(g, M, V)
    PROVE  Demand(f @@ g, M, V)
<1>1. Demand(Over(f, g), M, V)
  BY DEF Demand, Over
<1> QED BY <1>1 DEF @@

\* A stretch of methods has the methods it lists.
LEMMA MethodHas ==
    /\ \A H, K : \A m \in H : Has(Method(H, K), m)
    /\ \A H : \A m \in H : Has(ByRegistration(H), m)
  BY DEF Has, Method, ByRegistration

\* A stretch of methods demands one context.
LEMMA MethodDemand ==
    ASSUME NEW H, NEW K, NEW M, NEW V, M \cap H = {} \/ K = V
    PROVE  Demand(Method(H, K), M, V)
  BY DEF Demand, Method

\* The registration methods are none of the others.
LEMMA RegistrationDemand ==
    ASSUME NEW H, NEW M, NEW V, M \cap H = {}
    PROVE  Demand(ByRegistration(H), M, V)
  BY DEF Demand, ByRegistration

\* Every client method but those of a registration demands what it writes.
LEMMA ClientDemanded == Demanded(Client)
  BY JoinDemanded, MethodDemands, RegistrationDemands
  DEF Client, IntegrationMethods, ProviderMethods, AccountMethods, ProvisionalMethods,
      ExecutionMethods, OpportunityMethods, OperatorMethods, RegistrationMethods,
      AuthorityMethods, ProfileMethods, ParticipationMethods, DispatchMethods,
      NotificationMethods, OutcomeMethods, ClaimMethods, SemanticMethods,
      PricingMethods, AssetMethods, CommercialMethods, ListingMethods, RegistrationCalls,
      Open, ByTenant, BySession, ByAdminSession, ByPrincipal, ByOperator, ByAccountTask

\* A method of a stretch is a method of the client.
LEMMA StretchHas ==
    ASSUME NEW m,
           \/ Has(IntegrationMethods, m) \/ Has(ProviderMethods, m)
           \/ Has(AccountMethods, m) \/ Has(ProvisionalMethods, m)
           \/ Has(ExecutionMethods, m) \/ Has(OpportunityMethods, m)
           \/ Has(OperatorMethods, m) \/ Has(RegistrationMethods, m)
           \/ Has(AuthorityMethods, m) \/ Has(ProfileMethods, m)
           \/ Has(ParticipationMethods, m) \/ Has(DispatchMethods, m)
           \/ Has(NotificationMethods, m) \/ Has(OutcomeMethods, m)
           \/ Has(ClaimMethods, m) \/ Has(SemanticMethods, m)
           \/ Has(PricingMethods, m) \/ Has(AssetMethods, m)
           \/ Has(CommercialMethods, m) \/ Has(ListingMethods, m)
    PROVE Has(Client, m)
  BY JoinHas DEF Client

\* A call of the client whose path names no other ids is sound.
LEMMA HasNames ==
    ASSUME NEW M, NEW X, \A m \in M : Has(Client, m), M \cap RegistrationCalls = {},
           Names(Paths, M, X)
    PROVE  \A m \in M : Sound(m, X)
  BY ClientDemanded DEF Has, Demanded, Names, Sound, PathIds

\* The calls of the entries are methods of the client.
LEMMA AreCalls ==
    /\ \A m \in WithoutId : Has(Client, m)
    /\ \A m \in OfAgent : Has(Client, m)
    /\ \A m \in OfRegistration : Has(Client, m)
    /\ \A m \in OfDispatch : Has(Client, m)
    /\ \A m \in OfItem : Has(Client, m)
    /\ \A m \in OfCommercial : Has(Client, m)
    /\ \A m \in OfListing : Has(Client, m)
    /\ \A m \in OfOpportunity : Has(Client, m)
    /\ \A m \in OfMatching : Has(Client, m)
    /\ \A m \in {"getAccountAgentIntegrationEligibility"} : Has(Client, m)
    /\ \A m \in {"getParticipationState"} : Has(Client, m)
    /\ \A m \in {"queryProvisionalAgent"} : Has(Client, m)
    /\ \A m \in {"connectAccountIntegrationInstallation"} : Has(Client, m)
    /\ \A m \in {"decideDispatchAuthorityRequest"} : Has(Client, m)
    /\ \A m \in {"exportOperatorOpportunityPackage"} : Has(Client, m)
    /\ \A m \in {"approveOperatorConnection"} : Has(Client, m)
    /\ \A m \in {"acceptClaim", "rejectClaim"} : Has(Client, m)
    /\ \A m \in {"getNotification", "acknowledgeNotification"} : Has(Client, m)
  BY StretchHas, JoinHas, MethodHas
  DEF WithoutId, OfAgent, OfRegistration, OfDispatch, OfItem, OfCommercial, OfListing,
      OfOpportunity, OfMatching, IntegrationMethods, ProviderMethods, AccountMethods,
      ProvisionalMethods, ExecutionMethods, OpportunityMethods, OperatorMethods,
      RegistrationMethods, AuthorityMethods, ProfileMethods, ParticipationMethods,
      DispatchMethods, NotificationMethods, OutcomeMethods, ClaimMethods, SemanticMethods,
      PricingMethods, AssetMethods, CommercialMethods, ListingMethods, Open, ByTenant,
      BySession, ByAdminSession, ByPrincipal, ByOperator, ByAccountTask

\* The ids the paths of those calls name.
LEMMA AreNamed ==
    /\ Names(Paths, WithoutId, {})
    /\ Names(Paths, OfAgent, {"agent"})
    /\ Names(Paths, OfRegistration, {"registration"})
    /\ Names(Paths, OfDispatch, {"agent", "dispatch"})
    /\ Names(Paths, OfItem, {"item"})
    /\ Names(Paths, OfCommercial, {"commercial"})
    /\ Names(Paths, OfListing, {"agent", "listing"})
    /\ Names(Paths, OfOpportunity, {"agent", "opportunity"})
    /\ Names(Paths, OfMatching, {"listing"})
    /\ Names(Paths, {"getAccountAgentIntegrationEligibility"}, {"agent", "integration"})
    /\ Names(Paths, {"getParticipationState"}, {"registration", "participation"})
    /\ Names(Paths, {"queryProvisionalAgent"}, {"provisional"})
    /\ Names(Paths, {"connectAccountIntegrationInstallation"}, {"installation"})
    /\ Names(Paths, {"decideDispatchAuthorityRequest"}, {"request"})
    /\ Names(Paths, {"exportOperatorOpportunityPackage"}, {"opportunity"})
    /\ Names(Paths, {"approveOperatorConnection"}, {"approval"})
    /\ Names(Paths, {"acceptClaim", "rejectClaim"}, {"agent", "claim"})
    /\ Names(Paths, {"getNotification", "acknowledgeNotification"},
             {"agent", "notification"})
<1> USE JoinNames, NamingNames
  DEF WithoutId, OfAgent, OfRegistration, OfDispatch, OfItem, OfCommercial, OfListing,
      OfOpportunity, OfMatching, Paths, IntegrationPaths, MembershipPaths, ProvisionalPaths,
      ExecutionPaths, OperatorPaths, AgentPaths, RegistrationPaths, TaskPaths, ReadPaths,
      CommercialPaths
<1>1. /\ Names(Paths, WithoutId, {})
      /\ Names(Paths, OfAgent, {"agent"})
      /\ Names(Paths, OfRegistration, {"registration"})
  OBVIOUS
<1>2. /\ Names(Paths, OfDispatch, {"agent", "dispatch"})
      /\ Names(Paths, OfItem, {"item"})
      /\ Names(Paths, OfCommercial, {"commercial"})
      /\ Names(Paths, OfListing, {"agent", "listing"})
      /\ Names(Paths, OfOpportunity, {"agent", "opportunity"})
      /\ Names(Paths, OfMatching, {"listing"})
  OBVIOUS
<1>3. /\ Names(Paths, {"getAccountAgentIntegrationEligibility"}, {"agent", "integration"})
      /\ Names(Paths, {"getParticipationState"}, {"registration", "participation"})
      /\ Names(Paths, {"queryProvisionalAgent"}, {"provisional"})
      /\ Names(Paths, {"connectAccountIntegrationInstallation"}, {"installation"})
      /\ Names(Paths, {"decideDispatchAuthorityRequest"}, {"request"})
      /\ Names(Paths, {"exportOperatorOpportunityPackage"}, {"opportunity"})
      /\ Names(Paths, {"approveOperatorConnection"}, {"approval"})
      /\ Names(Paths, {"acceptClaim", "rejectClaim"}, {"agent", "claim"})
      /\ Names(Paths, {"getNotification", "acknowledgeNotification"},
             {"agent", "notification"})
  OBVIOUS
<1> QED BY <1>1, <1>2, <1>3

\* Each of those calls is sound with the ids of its path.
LEMMA AreSound ==
    /\ \A m \in WithoutId : Sound(m, {})
    /\ \A m \in OfAgent : Sound(m, {"agent"})
    /\ \A m \in OfRegistration : Sound(m, {"registration"})
    /\ \A m \in OfDispatch : Sound(m, {"agent", "dispatch"})
    /\ \A m \in OfItem : Sound(m, {"item"})
    /\ \A m \in OfCommercial : Sound(m, {"commercial"})
    /\ \A m \in OfListing : Sound(m, {"agent", "listing"})
    /\ \A m \in OfOpportunity : Sound(m, {"agent", "opportunity"})
    /\ \A m \in OfMatching : Sound(m, {"listing"})
    /\ \A m \in {"getAccountAgentIntegrationEligibility"} : Sound(m, {"agent", "integration"})
    /\ \A m \in {"getParticipationState"} : Sound(m, {"registration", "participation"})
    /\ \A m \in {"queryProvisionalAgent"} : Sound(m, {"provisional"})
    /\ \A m \in {"connectAccountIntegrationInstallation"} : Sound(m, {"installation"})
    /\ \A m \in {"decideDispatchAuthorityRequest"} : Sound(m, {"request"})
    /\ \A m \in {"exportOperatorOpportunityPackage"} : Sound(m, {"opportunity"})
    /\ \A m \in {"approveOperatorConnection"} : Sound(m, {"approval"})
    /\ \A m \in {"acceptClaim", "rejectClaim"} : Sound(m, {"agent", "claim"})
    /\ \A m \in {"getNotification", "acknowledgeNotification"} : Sound(m, {"agent", "notification"})
  BY AreCalls, AreNamed, HasNames
  DEF WithoutId, OfAgent, OfRegistration, OfDispatch, OfItem, OfCommercial, OfListing,
      OfOpportunity, OfMatching, RegistrationCalls

\* The calls of entries that make several, by the context they demand
SessionCalls ==
    {"getAccountAgent", "getAccountAgentClosureStatus", "patchAgentSelfService",
     "createAccountAgentExternalBinding", "createAccountAgentDispatchAuthorityRequest",
     "getAccountMe", "getAccountAgentExecutionListingMaterializationStatus",
     "acceptAccountMembershipInvitation", "selectOrg"}
AdminCalls ==
    {"createOperatorExecutionListing", "activateOperatorExecutionListing",
     "generateOperatorMatchCandidates", "listOperatorMatches", "createOperatorConnection",
     "approveOperatorConnection", "getOperatorCommercialActionStatus",
     "getOperatorCommercialActionReceipt", "getOperatorCommercialActionAudit"}
CompanyCalls ==
    {"createListing", "activateListing", "generateMatchCandidates",
     "createCommercialAction", "policyCheckCommercialAction",
     "requestCommercialActionApproval", "executeCommercialAction"}

\* A context every stretch demands of the calls M is the one the client demands.
LEMMA StretchDemand ==
    ASSUME NEW M, NEW V,
           Demand(IntegrationMethods, M, V), Demand(ProviderMethods, M, V),
           Demand(AccountMethods, M, V), Demand(ProvisionalMethods, M, V),
           Demand(ExecutionMethods, M, V), Demand(OpportunityMethods, M, V),
           Demand(OperatorMethods, M, V), Demand(RegistrationMethods, M, V),
           Demand(AuthorityMethods, M, V), Demand(ProfileMethods, M, V),
           Demand(ParticipationMethods, M, V), Demand(DispatchMethods, M, V),
           Demand(NotificationMethods, M, V), Demand(OutcomeMethods, M, V),
           Demand(ClaimMethods, M, V), Demand(SemanticMethods, M, V),
           Demand(PricingMethods, M, V), Demand(AssetMethods, M, V),
           Demand(CommercialMethods, M, V), Demand(ListingMethods, M, V)
    PROVE  Demand(Client, M, V)
  BY JoinDemand DEF Client

\* The calls of the claimant demand a session.
LEMMA SessionDemanded == Demand(Client, SessionCalls, Session)
  BY StretchDemand, JoinDemand, MethodDemand, RegistrationDemand
  DEF IntegrationMethods, ProviderMethods, AccountMethods, ProvisionalMethods,
      ExecutionMethods, OpportunityMethods, OperatorMethods, RegistrationMethods,
      AuthorityMethods, ProfileMethods, ParticipationMethods, DispatchMethods,
      NotificationMethods, OutcomeMethods, ClaimMethods, SemanticMethods, PricingMethods,
      AssetMethods, CommercialMethods, ListingMethods, Open, ByTenant, BySession,
      ByAdminSession, ByPrincipal, ByOperator, ByAccountTask, SessionCalls

\* The calls of an operator demand an admin session.
LEMMA AdminDemanded == Demand(Client, AdminCalls, AdminSession)
  BY StretchDemand, JoinDemand, MethodDemand, RegistrationDemand
  DEF IntegrationMethods, ProviderMethods, AccountMethods, ProvisionalMethods,
      ExecutionMethods, OpportunityMethods, OperatorMethods, RegistrationMethods,
      AuthorityMethods, ProfileMethods, ParticipationMethods, DispatchMethods,
      NotificationMethods, OutcomeMethods, ClaimMethods, SemanticMethods, PricingMethods,
      AssetMethods, CommercialMethods, ListingMethods, Open, ByTenant, BySession,
      ByAdminSession, ByPrincipal, ByOperator, ByAccountTask, AdminCalls

\* The writes of a company demand the company.
LEMMA CompanyDemanded == Demand(Client, CompanyCalls, Company)
  BY StretchDemand, JoinDemand, MethodDemand, RegistrationDemand
  DEF IntegrationMethods, ProviderMethods, AccountMethods, ProvisionalMethods,
      ExecutionMethods, OpportunityMethods, OperatorMethods, RegistrationMethods,
      AuthorityMethods, ProfileMethods, ParticipationMethods, DispatchMethods,
      NotificationMethods, OutcomeMethods, ClaimMethods, SemanticMethods, PricingMethods,
      AssetMethods, CommercialMethods, ListingMethods, Open, ByTenant, BySession,
      ByAdminSession, ByPrincipal, ByOperator, ByAccountTask, CompanyCalls

\* All of them are methods of the client.
LEMMA AlikeAreCalls == \A m \in SessionCalls \cup AdminCalls \cup CompanyCalls : Has(Client, m)
  BY StretchHas, JoinHas, MethodHas
  DEF IntegrationMethods, ProviderMethods, AccountMethods, ProvisionalMethods,
      ExecutionMethods, OpportunityMethods, OperatorMethods, RegistrationMethods,
      AuthorityMethods, ProfileMethods, ParticipationMethods, DispatchMethods,
      NotificationMethods, OutcomeMethods, ClaimMethods, SemanticMethods, PricingMethods,
      AssetMethods, CommercialMethods, ListingMethods, Open, ByTenant, BySession,
      ByAdminSession, ByPrincipal, ByOperator, ByAccountTask, SessionCalls, AdminCalls,
      CompanyCalls

\* The client calls that demand the context V and name no ids but these
CallsOf(V, ids) ==
    {m \in DOMAIN Client : /\ Client[m].demands = V /\ Client[m].writes \subseteq V
                           /\ PathIds(m) \subseteq ids}

\* The paths of the writes of a company name a listing or an action.
LEMMA CompanyNamed == Names(Paths, CompanyCalls, {"commercial", "listing"})
  BY JoinNames, NamingNames
  DEF CompanyCalls, Paths, IntegrationPaths, MembershipPaths, ProvisionalPaths,
      ExecutionPaths, OperatorPaths, AgentPaths, RegistrationPaths, TaskPaths, ReadPaths,
      CommercialPaths

\* They demand their context, and write no more.
LEMMA AreAlike ==
    /\ \A m \in SessionCalls : Client[m].demands = Session /\ Client[m].writes \subseteq Session
    /\ \A m \in AdminCalls :
          Client[m].demands = AdminSession /\ Client[m].writes \subseteq AdminSession
    /\ \A m \in CompanyCalls : Client[m].demands = Company /\ Client[m].writes \subseteq Company
<1>1. /\ SessionCalls \cap RegistrationCalls = {}
      /\ AdminCalls \cap RegistrationCalls = {}
      /\ CompanyCalls \cap RegistrationCalls = {}
  BY DEF SessionCalls, AdminCalls, CompanyCalls, RegistrationCalls
<1> QED BY <1>1, AlikeAreCalls, SessionDemanded, AdminDemanded, CompanyDemanded,
           ClientDemanded DEF Demand, Demanded, Has

\* The same, with the ids they name.
LEMMA AreCallsOf ==
    /\ \A m \in SessionCalls : \A ids : Sound(m, ids) => m \in CallsOf(Session, ids)
    /\ \A m \in AdminCalls : \A ids : Sound(m, ids) => m \in CallsOf(AdminSession, ids)
    /\ CompanyCalls \subseteq CallsOf(Company, {"commercial", "listing"})
  BY AreAlike, AlikeAreCalls, CompanyNamed DEF CallsOf, Sound, Has, Names, PathIds

\* A sound call is sound with more ids.
LEMMA SoundWider == \A m, A, B : Sound(m, A) /\ A \subseteq B => Sound(m, B)
  BY DEF Sound

\* The calls of the claimant, by the ids of the entries that make them.
LEMMA SessionCallsOf ==
    /\ {"getAccountMe", "acceptAccountMembershipInvitation", "selectOrg"}
          \subseteq CallsOf(Session, {})
    /\ {"getAccountAgent", "getAccountAgentClosureStatus", "patchAgentSelfService",
        "createAccountAgentExternalBinding", "createAccountAgentDispatchAuthorityRequest"}
          \subseteq CallsOf(Session, {"agent"})
    /\ {"getAccountMe", "getAccountAgentExecutionListingMaterializationStatus"}
          \subseteq CallsOf(Session, {"agent", "listing"})
<1>1. SessionCalls \cap WithoutId
         = {"getAccountMe", "acceptAccountMembershipInvitation", "selectOrg"}
  BY DEF SessionCalls, WithoutId
<1>2. {"getAccountAgent", "getAccountAgentClosureStatus", "patchAgentSelfService",
        "createAccountAgentExternalBinding", "createAccountAgentDispatchAuthorityRequest"}
      \subseteq SessionCalls \cap OfAgent
  BY DEF SessionCalls, OfAgent
<1>3. "getAccountAgentExecutionListingMaterializationStatus" \in SessionCalls \cap OfListing
  BY DEF SessionCalls, OfListing
<1> QED BY <1>1, <1>2, <1>3, AreCallsOf, AreSound, SoundWider

\* The calls of an operator, by the ids of the entries that make them.
LEMMA AdminCallsOf ==
    /\ OfCommercial \subseteq CallsOf(AdminSession, {"commercial"})
    /\ {"createOperatorExecutionListing", "activateOperatorExecutionListing",
        "generateOperatorMatchCandidates", "listOperatorMatches"}
          \subseteq CallsOf(AdminSession, {"listing"})
    /\ {"createOperatorConnection", "approveOperatorConnection"}
          \subseteq CallsOf(AdminSession, {"approval"})
<1>1. OfCommercial \subseteq AdminCalls /\ OfMatching \subseteq AdminCalls
      /\ {"createOperatorExecutionListing", "createOperatorConnection"}
            \subseteq AdminCalls \cap WithoutId
      /\ "approveOperatorConnection" \in AdminCalls
  BY DEF AdminCalls, OfCommercial, OfMatching, WithoutId
<1>2. OfMatching = {"activateOperatorExecutionListing", "generateOperatorMatchCandidates",
                    "listOperatorMatches"}
  BY DEF OfMatching
<1> QED BY <1>1, <1>2, AreCallsOf, AreSound, SoundWider

\* The calls of a claimant entry are all of a session.
LEMMA SessionSequences ==
    /\ Readiness \in Seq(CallsOf(Session, {"agent"}))
    /\ Repair \in Seq(CallsOf(Session, {"agent"}))
    /\ <<"getAccountAgent", "patchAgentSelfService">> \in Seq(CallsOf(Session, {"agent"}))
    /\ <<"getAccountMe">> \in Seq(CallsOf(Session, {}))
    /\ <<"acceptAccountMembershipInvitation", "getAccountMe", "selectOrg", "getAccountMe">>
          \in Seq(CallsOf(Session, {}))
    /\ <<"getAccountMe", "getAccountAgentExecutionListingMaterializationStatus">>
          \in Seq(CallsOf(Session, {"agent", "listing"}))
<1> DEFINE S == CallsOf(Session, {"agent"})
<1>1. <<"getAccountAgent", "getAccountAgentClosureStatus">> \in Seq(S)
  BY SessionCallsOf
<1>2. <<"patchAgentSelfService", "createAccountAgentExternalBinding",
        "createAccountAgentDispatchAuthorityRequest">> \in Seq(S)
  BY SessionCallsOf
<1>3. \A s, t \in Seq(S) : s \o t \in Seq(S)
  OBVIOUS
<1>4. Repair \in Seq(S)
  BY <1>1, <1>2, <1>3 DEF Repair, Readiness
<1>5. Readiness \in Seq(S)
  BY <1>1 DEF Readiness
<1> QED BY <1>4, <1>5, SessionCallsOf

\* The calls of an operator entry, and of the scenario of a company.
LEMMA OtherSequences ==
    /\ Matching \in Seq(CallsOf(AdminSession, {"listing"}))
    /\ CommercialReads \in Seq(CallsOf(AdminSession, {"commercial"}))
    /\ <<"createOperatorConnection", "approveOperatorConnection">>
          \in Seq(CallsOf(AdminSession, {"approval"}))
    /\ CommercialWrites \in Seq(CallsOf(Company, {"commercial", "listing"}))
    /\ IndustryChain \in Seq(CallsOf(Company, {"commercial", "listing"}))
<1>1. CommercialReads \in Seq(CallsOf(AdminSession, {"commercial"}))
  BY AdminCallsOf DEF CommercialReads, OfCommercial
<1>2. {"createListing", "activateListing", "generateMatchCandidates",
     "createCommercialAction", "policyCheckCommercialAction",
     "requestCommercialActionApproval", "executeCommercialAction"}
       \subseteq CallsOf(Company, {"commercial", "listing"})
  BY AreCallsOf DEF CompanyCalls
<1> QED BY <1>1, <1>2, AdminCallsOf DEF Matching, CommercialWrites, IndustryChain

\* An entry whose calls demand one context fits any: the first call decides.
LEMMA AlikeCallsFit ==
    ASSUME NEW n, NEW V, NEW A, NEW calls \in Seq(CallsOf(V, A)), NEW ids, NEW X,
           n \in Unguarded \/ A \subseteq ids
    PROVE  FitUnder(X, n :> Making(calls, ids))
<1>1. ASSUME NEW i \in DOMAIN calls
      PROVE  i \in Nat \ {0} /\ calls[i] \in CallsOf(V, A) /\ calls[1] \in CallsOf(V, A)
  BY <1>1
<1>2. \A i \in DOMAIN calls :
         /\ Client[calls[i]].demands \subseteq X \cup Client[calls[1]].demands
         /\ Client[calls[i]].writes \subseteq X \cup Client[calls[i]].demands
         /\ n \in Unguarded \/ PathIds(calls[i]) \subseteq ids
  BY <1>1 DEF CallsOf
<1>3. Fits(n, calls, ids, X)
  BY <1>1, <1>2 DEF Fits
<1> QED BY <1>3, OneFits

\* That entry, asking for the ids its calls name.
LEMMA AlikeFits ==
    ASSUME NEW n, NEW V, NEW ids, NEW calls \in Seq(CallsOf(V, ids)), NEW X
    PROVE  FitUnder(X, n :> Making(calls, ids))
  BY AlikeCallsFit

\* That entry, when it is unguarded.
LEMMA UnguardedAlikeFits ==
    ASSUME NEW n \in Unguarded, NEW V, NEW A, NEW calls \in Seq(CallsOf(V, A)), NEW ids, NEW X
    PROVE  FitUnder(X, n :> Making(calls, ids))
  BY AlikeCallsFit

\* The flags X are among those the command refuses to go without.
Flagged(c, X) == X \subseteq CheckedFlags(c)

\* The table of flags asks for at least these of the commands C.
Asks(F, C, X) == \A c \in C : c \in DOMAIN F => X \subseteq F[c]

\* A table of reads by command, with the call and the ids a read is made with
ReadsFit(F) == \A c \in DOMAIN F : Sound(F[c], CheckedFlags(c))

\* Two stretches of the flags, together.
LEMMA JoinAsks ==
    ASSUME NEW f, NEW g, NEW C, NEW X, Asks(f, C, X), Asks(g, C, X)
    PROVE  Asks(f @@ g, C, X)
<1>1. Asks(Over(f, g), C, X)
  BY DEF Asks, Over
<1> QED BY <1>1 DEF @@

\* A stretch of the flags asks for its flags, of its commands.
LEMMA FlagsAsk ==
    ASSUME NEW H, NEW I, NEW C, NEW X, C \cap H = {} \/ X \subseteq I
    PROVE  Asks(Flags(H, I), C, X)
  BY DEF Asks, Flags

\* A stretch of the flags has the commands it lists.
LEMMA FlagsHas == \A H, I : \A c \in H : Has(Flags(H, I), c)
  BY DEF Has, Flags

\* The flags the table asks for are refused without.
LEMMA AsksFlagged ==
    ASSUME NEW C, NEW X, \A c \in C : Has(truthFetchRequiredFlagsByCommand, c),
           Asks(truthFetchRequiredFlagsByCommand, C, X)
    PROVE  \A c \in C : Flagged(c, X)
  BY DEF Has, Asks, Flagged, CheckedFlags

\* The reads of the command line, by the ids they are made with
RegistrationReads ==
    {"agent-presence", "agent-authority", "agent-readiness", "agent-summary",
     "agent-registration", "agent-authority-profile", "agent-authority-ladder",
     "agent-capability-profile", "participation-states"}
ItemReads ==
    {"canonical-semantic-concept", "canonical-semantic-label",
     "canonical-semantic-mapping", "canonical-semantic-taxonomy-entry",
     "canonical-semantic-lineage-link", "pricing-basis", "pricing-rule-atom",
     "pricing-quotation-method-module", "pricing-quote-template",
     "pricing-quotation", "pricing-explanation", "document-artifact",
     "media-asset", "evidence-asset", "attachment-binding"}
AgentReads == {"account-agent-execution-status", "task-dispatches"}
ListingReads == {"account-agent-execution-listing-status",
                 "account-agent-execution-materialization-status"}
OpportunityReads == {"account-agent-execution-opportunity-status",
                     "account-agent-execution-opportunity-end-state"}
DispatchReads == {"task-dispatch", "governed-work-closure"}

\* The flags the table asks for, of the reads by id.
LEMMA AreAsked ==
    /\ Asks(truthFetchRequiredFlagsByCommand, RegistrationReads, {"registration"})
    /\ Asks(truthFetchRequiredFlagsByCommand, ItemReads, {"item"})
    /\ Asks(truthFetchRequiredFlagsByCommand, AgentReads, {"agent"})
    /\ Asks(truthFetchRequiredFlagsByCommand, ListingReads, {"agent", "listing"})
    /\ Asks(truthFetchRequiredFlagsByCommand, OpportunityReads, {"agent", "opportunity"})
    /\ Asks(truthFetchRequiredFlagsByCommand, DispatchReads, {"agent", "dispatch"})
    /\ Asks(truthFetchRequiredFlagsByCommand, {"participation-state"},
            {"registration", "participation"})
    /\ Asks(truthFetchRequiredFlagsByCommand, {"account-agent-integration-eligibility"},
            {"agent", "integration"})
  BY JoinAsks, FlagsAsk
  DEF truthFetchRequiredFlagsByCommand, RegistrationReads, ItemReads, AgentReads,
      ListingReads, OpportunityReads, DispatchReads

\* Those reads are in the table.
LEMMA HaveFlags ==
    \A c \in RegistrationReads \cup ItemReads \cup AgentReads \cup ListingReads
             \cup OpportunityReads \cup DispatchReads
             \cup {"participation-state", "account-agent-integration-eligibility"} :
        Has(truthFetchRequiredFlagsByCommand, c)
  BY JoinHas, FlagsHas
  DEF truthFetchRequiredFlagsByCommand, RegistrationReads, ItemReads, AgentReads,
      ListingReads, OpportunityReads, DispatchReads

\* What each read refuses to go without.
LEMMA AreFlagged ==
    /\ \A c : Flagged(c, {})
    /\ \A c \in RegistrationReads : Flagged(c, {"registration"})
    /\ \A c \in ItemReads : Flagged(c, {"item"})
    /\ \A c \in AgentReads : Flagged(c, {"agent"})
    /\ \A c \in ListingReads : Flagged(c, {"agent", "listing"})
    /\ \A c \in OpportunityReads : Flagged(c, {"agent", "opportunity"})
    /\ \A c \in DispatchReads : Flagged(c, {"agent", "dispatch"})
    /\ Flagged("participation-state", {"registration", "participation"})
    /\ Flagged("account-agent-integration-eligibility", {"agent", "integration"})
    /\ \A c \in canonicalAccountAgentIdentifierCommands : Flagged(c, {"agent"})
<1>1. /\ \A c : Flagged(c, {})
      /\ \A c \in canonicalAccountAgentIdentifierCommands : Flagged(c, {"agent"})
  BY DEF Flagged, CheckedFlags
<1>2. /\ Flagged("participation-state", {"registration", "participation"})
      /\ Flagged("account-agent-integration-eligibility", {"agent", "integration"})
  BY AreAsked, HaveFlags, AsksFlagged
<1> QED BY <1>1, <1>2, AreAsked, HaveFlags, AsksFlagged

\* Two stretches of the reads, together.
LEMMA JoinReads ==
    ASSUME NEW f, NEW g, ReadsFit(f), ReadsFit(g)
    PROVE  ReadsFit(f @@ g)
<1>1. ReadsFit(Over(f, g))
  BY DEF ReadsFit, Over
<1> QED BY <1>1 DEF @@

\* A read fits when its flags cover the ids of its call.
LEMMA OneRead ==
    ASSUME NEW c, NEW m, NEW X, Sound(m, X), Flagged(c, X)
    PROVE  ReadsFit(c :> m)
  BY DEF ReadsFit, Sound, Flagged, :>

\* The reads of the account ask for the ids their calls name.
LEMMA AccountReadsFit == ReadsFit(ReadsOfAccount)
  BY JoinReads, OneRead, AreSound, AreFlagged
  DEF ReadsOfAccount, WithoutId, OfAgent, OfListing, OfOpportunity,
      AgentReads, ListingReads, OpportunityReads, canonicalAccountAgentIdentifierCommands

\* So do the reads of an agent,
LEMMA AgentReadsFit == ReadsFit(ReadsOfAgents)
  BY JoinReads, OneRead, AreSound, AreFlagged
  DEF ReadsOfAgents, WithoutId, OfAgent, OfRegistration, OfDispatch, RegistrationReads,
      AgentReads, DispatchReads

\* the semantic and pricing reads,
LEMMA BusinessReadsFit == ReadsFit(ReadsOfBusiness)
  BY JoinReads, OneRead, AreSound, AreFlagged
  DEF ReadsOfBusiness, WithoutId, OfItem, ItemReads

\* and the reads of quotes and assets.
LEMMA OfferReadsFit == ReadsFit(ReadsOfOffers)
  BY JoinReads, OneRead, AreSound, AreFlagged
  DEF ReadsOfOffers, WithoutId, OfItem, ItemReads

\* The reads of the command line fit.
LEMMA TruthFetchFits == Fit(TruthFetchCommands)
<1> DEFINE reads == ReadsOfAccount @@ ReadsOfAgents @@ ReadsOfBusiness @@ ReadsOfOffers
<1>1. ReadsFit(reads)
  BY JoinReads, AccountReadsFit, AgentReadsFit, BusinessReadsFit, OfferReadsFit
<1>2. TruthFetchCommands = [c \in DOMAIN reads |-> Making(<<reads[c]>>, CheckedFlags(c))]
  BY DEF TruthFetchCommands
<1> HIDE DEF reads
<1>3. ASSUME NEW c \in DOMAIN TruthFetchCommands
      PROVE  LET e == TruthFetchCommands[c]
             IN  IsWay(e) /\ Fits(c, e.calls, e.ids, {})
  <2>1. /\ c \in DOMAIN reads
        /\ TruthFetchCommands[c] = Making(<<reads[c]>>, CheckedFlags(c))
    BY <1>2, <1>3
  <2>2. Sound(reads[c], CheckedFlags(c))
    BY <1>1, <2>1 DEF ReadsFit
  <2>3. Fits(c, <<reads[c]>>, CheckedFlags(c), {})
    BY <2>2, AloneFits DEF Sound
  <2> QED BY <2>1, <2>3, MakingIsWay
<1>4. FitUnder({}, TruthFetchCommands)
  BY <1>3 DEF FitUnder
<1> QED BY <1>4, Wider

\* The commands of a provisional agent fit.
LEMMA OnboardingFits == Fit(OnboardingCommands)
<1>1. /\ Sound("createProvisionalAgent", {"provisional"})
      /\ Sound("queryProvisionalAgent", {"provisional"})
      /\ Sound("claimProvisionalAgent", {"provisional"})
  BY AreSound, SoundWider DEF WithoutId
<1> QED BY <1>1, JoinFit, AskingFits, CheckingFits, CarryingFits, SoundAloneFits
        DEF OnboardingCommands

\* The commands of a signed-in account fit its session.
LEMMA SignedInFits == FitUnder(Session, SignedInCommands)
  BY JoinFitUnder, SoundAloneFits, AreSound DEF SignedInCommands, WithoutId

\* So do the commands of the agents of an account.
LEMMA AgentCommandsFit == FitUnder(Session, AgentCommands)
  BY JoinFitUnder, SoundAloneFits, AlikeFits, SessionSequences, AreSound
  DEF AgentCommands, WithoutId, OfAgent

\* The identity commands fit.
LEMMA IdentityFits == Fit(IdentityCommands)
<1>1. FitUnder({}, Each({"signUpPersonalAccount", "signUpEnterpriseAccount", "signIn"}, {}))
  BY EachFits, AreSound DEF WithoutId
<1>2. Fit(Checking(Session, SignedInCommands @@ AgentCommands))
  BY SignedInFits, AgentCommandsFit, JoinFitUnder, CheckingFits
<1>3. Fit(Checking(AdminSession, "operator-dispatch-authority-decision"
                        :> Making(<<"decideDispatchAuthorityRequest">>, {"request"})))
  BY AreSound, SoundAloneFits, CheckingFits
<1> QED BY <1>1, <1>2, <1>3, Wider, JoinFit, CarryingFits DEF IdentityCommands

\* The commands of the claimant fit.
LEMMA ClaimantFits == Fit(ClaimantCommands)
<1>1. FitUnder({"sessionId"},
        "claimant-precondition-inspect" :> Making(<<"getAccountMe">>, {})
        @@ "claimant-precondition-establish-canonical-company-public"
               :> Making(<<"acceptAccountMembershipInvitation", "getAccountMe", "selectOrg",
                           "getAccountMe">>, {}))
  <2>1. FitUnder({"sessionId"},
            "claimant-precondition-inspect" :> Making(<<"getAccountMe">>, {}))
    BY SoundAloneFits, AreSound DEF WithoutId
  <2>2. FitUnder({"sessionId"},
            "claimant-precondition-establish-canonical-company-public"
               :> Making(<<"acceptAccountMembershipInvitation", "getAccountMe", "selectOrg",
                           "getAccountMe">>, {}))
    BY AlikeFits, SessionSequences
  <2> QED BY <2>1, <2>2, JoinFitUnder
<1>2. FitUnder(Session,
        "claimant-readiness-inspect" :> Making(Readiness, {"agent"})
        @@ "claimant-readiness-repair" :> Making(Repair, {"agent"})
        @@ "claimant-task-entry-inspect" :> Making(Readiness, {"agent"})
        @@ "claimant-handoff-inspect"
               :> Making(<<"getAccountMe", "getAccountAgentExecutionListingMaterializationStatus">>,
                         {"agent"})
        @@ "claimant-handoff-opportunity-status"
               :> Making(<<"getAccountAgentExecutionOpportunityStatus">>, {"agent"})
        @@ "claimant-handoff-opportunity-end-state"
               :> Making(<<"getAccountAgentExecutionOpportunityEndState">>, {"agent"}))
  BY JoinFitUnder, AlikeFits, UnguardedAlikeFits, SessionSequences, UnguardedAloneFits,
     AreSound
  DEF Unguarded, OfOpportunity
<1>3. FitUnder(Session \cup Company,
        "claimant-task-entry-run" :> Making(<<"createTaskDispatch">>, {"agent"}))
  BY SoundAloneFits, AreSound DEF OfAgent
<1> QED BY <1>1, <1>2, <1>3, JoinFit, CheckingFits DEF ClaimantCommands

\* A commercial run fits an admin session: its first write demands the company the
\* other writes demand, and the reads that follow demand the session checked.
LEMMA CommercialRunFits ==
    ASSUME NEW n \in Unguarded, NEW ids
    PROVE  FitUnder(AdminSession, n :> Making(CommercialRun, ids))
<1> DEFINE calls == CommercialRun
<1>1. calls \in Seq(CallsOf(Company, {"commercial", "listing"})
                    \cup CallsOf(AdminSession, {"commercial"}))
  BY OtherSequences DEF CommercialRun
<1>2. calls[1] = "createCommercialAction"
  BY DEF CommercialRun, CommercialWrites, CommercialReads
<1>3. Client["createCommercialAction"].demands = Company
  BY AreAlike DEF CompanyCalls
<1>4. ASSUME NEW i \in DOMAIN calls
      PROVE  /\ i \in Nat \ {0}
             /\ \/ calls[i] \in CallsOf(Company, {"commercial", "listing"})
                \/ calls[i] \in CallsOf(AdminSession, {"commercial"})
  BY <1>1, <1>4
<1> HIDE DEF calls
<1>5. ASSUME NEW i \in DOMAIN calls
      PROVE  /\ Client[calls[i]].demands \subseteq AdminSession \cup Client[calls[1]].demands
             /\ Client[calls[i]].writes \subseteq AdminSession \cup Client[calls[i]].demands
  BY <1>2, <1>3, <1>4 DEF CallsOf
<1>6. Fits(n, calls, ids, AdminSession)
  BY <1>4, <1>5 DEF Fits
<1> QED BY <1>6, OneFits DEF calls

\* The commands of an operator fit.
LEMMA OperatorFits == Fit(OperatorCommands)
<1>1. FitUnder(AdminSession,
        "operator-handoff-consume" :> Making(<<"listOperatorMatches">>, {})
        @@ "operator-progression-match" :> Making(Matching, {})
        @@ "operator-progression-connect"
               :> Making(<<"createOperatorConnection", "approveOperatorConnection">>, {"approval"})
        @@ "operator-progression-approve" :> Making(<<"approveOperatorConnection">>, {"approval"})
        @@ "operator-progression-package-export"
               :> Making(<<"exportOperatorOpportunityPackage">>, {"opportunity"})
        @@ "operator-closure-commercial-action-run" :> Making(CommercialRun, {})
        @@ "operator-closure-inspect" :> Making(CommercialReads, {"commercial"}))
  <2>1. FitUnder(AdminSession,
            "operator-handoff-consume" :> Making(<<"listOperatorMatches">>, {}))
    BY UnguardedAloneFits, AreSound DEF OfMatching, Unguarded
  <2>2. FitUnder(AdminSession, "operator-progression-match" :> Making(Matching, {}))
    BY UnguardedAlikeFits, OtherSequences DEF Unguarded
  <2>3. FitUnder(AdminSession, "operator-progression-connect"
            :> Making(<<"createOperatorConnection", "approveOperatorConnection">>, {"approval"}))
    BY AlikeFits, OtherSequences
  <2>4. FitUnder(AdminSession, "operator-closure-commercial-action-run" :> Making(CommercialRun, {}))
    BY CommercialRunFits DEF Unguarded
  <2>5. FitUnder(AdminSession, "operator-closure-inspect" :> Making(CommercialReads, {"commercial"}))
    BY AlikeFits, OtherSequences
  <2>6. /\ FitUnder(AdminSession,
               "operator-progression-approve" :> Making(<<"approveOperatorConnection">>, {"approval"}))
        /\ FitUnder(AdminSession, "operator-progression-package-export"
               :> Making(<<"exportOperatorOpportunityPackage">>, {"opportunity"}))
    BY SoundAloneFits, AreSound
  <2> QED BY <2>1, <2>2, <2>3, <2>4, <2>5, <2>6, JoinFitUnder
<1> QED BY <1>1, CheckingFits DEF OperatorCommands

\* The commands of the task plane fit.
LEMMA TaskPlaneFits == Fit(TaskPlaneCommands) /\ Fit(TaskPlaneTransitions)
<1>1. /\ FitUnder(Session \cup Company,
            Each({"createLease", "createTaskDispatch", "createClaim"}, {"agent"}))
      /\ FitUnder(Session \cup Company,
            Each({"createTaskDispatchOutcome", "createTaskDispatchEvidenceBundle",
                 "createTaskDispatchConfirmationCycle"}, {"agent", "dispatch"}))
      /\ FitUnder(Session \cup Company,
            Each({"assignTaskDispatch", "suspendTaskDispatch", "resumeTaskDispatch",
              "completeTaskDispatch", "failTaskDispatch"}, {"agent", "dispatch"}))
      /\ FitUnder(Session \cup Company, Each({"acceptClaim", "rejectClaim"}, {"agent", "claim"}))
  BY EachFits, AreSound DEF OfAgent, OfDispatch
<1> QED BY <1>1, JoinFitUnder, CheckingFits DEF TaskPlaneCommands, TaskPlaneTransitions

\* The calls M write the context V; the helpers M are filed with the entry r.
Writes(F, M, V) == \A m \in M : m \in DOMAIN F => F[m].writes = V
Filed(F, M, r) == \A m \in M : m \in DOMAIN F => F[m] = r

\* Two stretches of methods that write V, together.
LEMMA JoinWrites ==
    ASSUME NEW f, NEW g, NEW M, NEW V, Writes(f, M, V), Writes(g, M, V)
    PROVE  Writes(f @@ g, M, V)
<1>1. Writes(Over(f, g), M, V)
  BY DEF Writes, Over
<1> QED BY <1>1 DEF @@

\* Two stretches of the catalogue that file M so, together.
LEMMA JoinFiled ==
    ASSUME NEW f, NEW g, NEW M, NEW r, Filed(f, M, r), Filed(g, M, r)
    PROVE  Filed(f @@ g, M, r)
<1>1. Filed(Over(f, g), M, r)
  BY DEF Filed, Over
<1> QED BY <1>1 DEF @@

\* A stretch of methods writes one context.
LEMMA MethodWrites ==
    /\ \A H, K, M, V : M \cap H = {} \/ K = V => Writes(Method(H, K), M, V)
    /\ \A H, M : Writes(ByRegistration(H), M, Registration)
  BY DEF Writes, Method, ByRegistration

\* The registration methods write a tenant.
LEMMA RegistrationWrites == Writes(Client, RegistrationCalls, Registration)
<1>1. ASSUME NEW M, NEW V,
             Writes(IntegrationMethods, M, V), Writes(ProviderMethods, M, V),
             Writes(AccountMethods, M, V), Writes(ProvisionalMethods, M, V),
             Writes(ExecutionMethods, M, V), Writes(OpportunityMethods, M, V),
             Writes(OperatorMethods, M, V), Writes(RegistrationMethods, M, V),
             Writes(AuthorityMethods, M, V), Writes(ProfileMethods, M, V),
             Writes(ParticipationMethods, M, V), Writes(DispatchMethods, M, V),
             Writes(NotificationMethods, M, V), Writes(OutcomeMethods, M, V),
             Writes(ClaimMethods, M, V), Writes(SemanticMethods, M, V),
             Writes(PricingMethods, M, V), Writes(AssetMethods, M, V),
             Writes(CommercialMethods, M, V), Writes(ListingMethods, M, V)
      PROVE  Writes(Client, M, V)
  BY <1>1, JoinWrites DEF Client
<1> QED BY <1>1, JoinWrites, MethodWrites
  DEF IntegrationMethods, ProviderMethods, AccountMethods, ProvisionalMethods,
      ExecutionMethods, OpportunityMethods, OperatorMethods, RegistrationMethods,
      AuthorityMethods, ProfileMethods, ParticipationMethods, DispatchMethods,
      NotificationMethods, OutcomeMethods, ClaimMethods, SemanticMethods, PricingMethods,
      AssetMethods, CommercialMethods, ListingMethods, Open, ByTenant, BySession,
      ByAdminSession, ByPrincipal, ByOperator, ByAccountTask, RegistrationCalls

\* What the catalogue files of a helper
Entry(family, requires, write) ==
    [family |-> family, requires |-> requires, write |-> write,
     public |-> FALSE, commercial |-> FALSE]

\* A stretch of the catalogue files its helpers one way.
LEMMA EntriesFiled ==
    /\ \A H, f, q, w, M, r : M \cap H = {} \/ r = Entry(f, q, w) => Filed(Entries(H, f, q, w), M, r)
    /\ \A H, f, q, w, M, r : M \cap H = {} => /\ Filed(Public(Entries(H, f, q, w)), M, r)
                                              /\ Filed(Commercial(Entries(H, f, q, w)), M, r)
    /\ \A H, f, q, w : \A m \in H : Has(Entries(H, f, q, w), m)
  BY DEF Filed, Entries, Entry, Public, Commercial, Has

\* A helper every stretch files so is filed so in the catalogue.
LEMMA StretchFiled ==
    ASSUME NEW M, NEW r,
           Filed(AgentEntries, M, r), Filed(SemanticAndPricingEntries, M, r),
           Filed(IntegrationEntries, M, r), Filed(OnboardingEntries, M, r),
           Filed(AccountEntries, M, r), Filed(ExecutionEntries, M, r),
           Filed(AuthorizationEntries, M, r), Filed(AssetEntries, M, r),
           Filed(TaskEntries, M, r), Filed(TaskOutcomeEntries, M, r),
           Filed(CommercialEntries, M, r), Filed(ClaimantEntries, M, r),
           Filed(OperatorEntries, M, r), Filed(ScenarioEntries, M, r)
    PROVE  Filed(Catalogue, M, r)
  BY JoinFiled DEF Catalogue

\* The registration writes require the tenant, with the rest.
LEMMA RegistrationFiled ==
    Filed(Catalogue, RegistrationCalls \ {"downloadSync"}, Entry("registration", Registration, TRUE))
<1>1. RegistrationCalls \ {"downloadSync"}
         = {"postHeartbeat", "uploadSync", "submitEvidence", "submitProposal"}
  BY DEF RegistrationCalls
<1>2. Filed(Catalogue, {"postHeartbeat", "uploadSync", "submitEvidence", "submitProposal"},
            Entry("registration", Registration, TRUE))
  BY StretchFiled, JoinFiled, EntriesFiled
  DEF AgentEntries, SemanticAndPricingEntries, IntegrationEntries, OnboardingEntries,
      AccountEntries, ExecutionEntries, AuthorizationEntries, AssetEntries, TaskEntries,
      TaskOutcomeEntries, CommercialEntries, ClaimantEntries, OperatorEntries,
      ScenarioEntries, TenantReads, GovernedReads, SessionReads, SessionWrites,
      OperatorReads, OperatorWrites, CompanyWrites
<1> QED BY <1>1, <1>2

\* So does the registration read.
LEMMA DownloadFiled ==
    Filed(Catalogue, {"downloadSync"}, Entry("registration", Registration, FALSE))
  BY StretchFiled, JoinFiled, EntriesFiled
  DEF AgentEntries, SemanticAndPricingEntries, IntegrationEntries, OnboardingEntries,
      AccountEntries, ExecutionEntries, AuthorizationEntries, AssetEntries, TaskEntries,
      TaskOutcomeEntries, CommercialEntries, ClaimantEntries, OperatorEntries,
      ScenarioEntries, TenantReads, GovernedReads, SessionReads, SessionWrites,
      OperatorReads, OperatorWrites, CompanyWrites

\* A commercial run requires an admin session.
LEMMA CommercialRunFiled ==
    Filed(Catalogue, {"runOperatorCommercialAction"}, Entry("admin-session", AdminSession, TRUE))
  BY StretchFiled, JoinFiled, EntriesFiled
  DEF AgentEntries, SemanticAndPricingEntries, IntegrationEntries, OnboardingEntries,
      AccountEntries, ExecutionEntries, AuthorizationEntries, AssetEntries, TaskEntries,
      TaskOutcomeEntries, CommercialEntries, ClaimantEntries, OperatorEntries,
      ScenarioEntries, TenantReads, GovernedReads, SessionReads, SessionWrites,
      OperatorReads, OperatorWrites, CompanyWrites

\* Those helpers are in the catalogue.
LEMMA AreFiled ==
    \A h \in RegistrationCalls \cup {"runOperatorCommercialAction"} : Has(Catalogue, h)
<1>1. \A h : Has(OnboardingEntries, h) \/ Has(OperatorEntries, h) => Has(Catalogue, h)
  BY JoinHas DEF Catalogue
<1>2. \A h \in {"postHeartbeat", "uploadSync", "submitEvidence", "submitProposal",
                "downloadSync"} : Has(OnboardingEntries, h)
  <2> DEFINE a == Public(Entries({"createProvisionalAgent"}, "tenant", Tenant, TRUE))
             b == Public(TenantReads({"queryProvisionalAgent"}))
             c == SessionWrites({"claimProvisionalAgent"})
             d == Entries({"postHeartbeat", "uploadSync", "submitEvidence", "submitProposal"},
                          "registration", Registration, TRUE)
             e == Entries({"downloadSync"}, "registration", Registration, FALSE)
  <2>1. OnboardingEntries = a @@ b @@ c @@ d @@ e
    BY DEF OnboardingEntries
  <2>2. /\ \A h \in {"postHeartbeat", "uploadSync", "submitEvidence", "submitProposal"} : Has(d, h)
        /\ Has(e, "downloadSync")
    BY EntriesFiled
  <2> HIDE DEF a, b, c, d, e
  <2>3. \A h : Has(d, h) \/ Has(e, h) => Has(a @@ b @@ c @@ d @@ e, h)
    BY JoinHas
  <2> QED BY <2>1, <2>2, <2>3
<1>3. Has(OperatorEntries, "runOperatorCommercialAction")
  <2> DEFINE a == OperatorReads({"consumeOperatorHandoff", "inspectOperatorCommercialAction",
                                 "inspectOperatorHandoffFailure"})
             b == OperatorWrites({"runOperatorMatching", "runOperatorConnectionContinuation",
                     "runOperatorApprovalContinuation", "runOperatorPackageExport",
                     "runOperatorCommercialAction"})
             c == Entries({"inspectPlatformManagedEntry", "inspectPlatformManagedReadiness"},
                          "scenario", {}, FALSE)
             d == Entries({"runPlatformManagedProgression"}, "scenario", {}, TRUE)
  <2>1. OperatorEntries = a @@ b @@ c @@ d
    BY DEF OperatorEntries
  <2>2. Has(b, "runOperatorCommercialAction")
    BY EntriesFiled DEF OperatorWrites
  <2> HIDE DEF a, b, c, d
  <2>3. \A h : Has(b, h) => Has(a @@ b @@ c @@ d, h)
    BY JoinHas
  <2> QED BY <2>1, <2>2, <2>3
<1> QED BY <1>1, <1>2, <1>3 DEF RegistrationCalls

\* The registration methods name no id.
LEMMA RegistrationNamed == Names(Paths, RegistrationCalls, {})
  BY JoinNames, NamingNames
  DEF RegistrationCalls, Paths, IntegrationPaths, MembershipPaths, ProvisionalPaths,
      ExecutionPaths, OperatorPaths, AgentPaths, RegistrationPaths, TaskPaths, ReadPaths,
      CommercialPaths

\* The registration methods are methods of the client.
LEMMA RegistrationHas == \A m \in RegistrationCalls : Has(Client, m)
  BY StretchHas, JoinHas, MethodHas
  DEF RegistrationMethods, AssetMethods, RegistrationCalls

\* What the registration methods write the catalogue requires.
LEMMA RegistrationSound ==
    \A m \in RegistrationCalls :
        /\ Client[m].writes = Registration
        /\ Catalogue[m].requires = Registration
        /\ PathIds(m) = {}
<1>1. \A m \in RegistrationCalls : Client[m].writes = Registration
  BY RegistrationHas, RegistrationWrites DEF Has, Writes
<1>2. \A m \in RegistrationCalls : PathIds(m) = {}
  BY RegistrationNamed DEF Names, PathIds
<1>3. \A m \in RegistrationCalls : Catalogue[m].requires = Registration
  BY AreFiled, RegistrationFiled, DownloadFiled DEF Has, Filed, Entry
<1> QED BY <1>1, <1>2, <1>3

\* So they are sound behind the orchestrator.
LEMMA RegistrationGoverned == \A m \in RegistrationCalls : GovernedSound(m, {})
  BY RegistrationSound DEF GovernedSound

\* A sound call is sound behind the orchestrator.
LEMMA SoundGoverned == \A m, ids : Sound(m, ids) => GovernedSound(m, ids)
  BY DEF Sound, GovernedSound

\* The runtime writes of the command line fit.
LEMMA ExecutionsFit == Fit(ExecutionCommands)
  BY EachGoverned, GovernedFits, RegistrationGoverned DEF ExecutionCommands, RegistrationCalls

\* The industry scenario fits.
LEMMA IndustryFits == Fit(IndustryCommand)
  BY UnguardedAlikeFits, OtherSequences, UngovernedFits, GovernedFits
  DEF IndustryCommand, Unguarded

\* The inspections of a universe fit.
LEMMA InspectionsFit == FitUnder({}, UniverseInspections)
<1>1. /\ FitUnder({}, "universe inspect closure" :> Making(CommercialReads, {"commercial"}))
      /\ FitUnder({}, "universe inspect materialization"
           :> Making(<<"getAccountMe", "getAccountAgentExecutionListingMaterializationStatus">>,
                     {"agent", "listing"}))
      /\ FitUnder({}, "universe inspect readiness" :> Making(Readiness, {"agent"}))
  BY AlikeFits, SessionSequences, OtherSequences
<1>2. /\ FitUnder({}, "universe inspect handoff" :> Making(<<"listOperatorMatches">>, {"listing"}))
      /\ FitUnder({}, "universe inspect precondition" :> Making(<<"getAccountMe">>, {}))
  BY SoundAloneFits, AreSound DEF OfMatching, WithoutId
<1> QED BY <1>1, <1>2, JoinFitUnder DEF UniverseInspections

\* A run of the universe, whose parts demand different contexts, writes what they demand.
LEMMA UniverseFits == Fit(UniverseCommands)
<1> DEFINE W == {m \in DOMAIN Client : Client[m].writes \subseteq Client[m].demands}
           calls == <<"acceptAccountMembershipInvitation", "getAccountMe">> \o Readiness
                    \o <<"createTaskDispatch">> \o Matching
<1>1. /\ CallsOf(Session, {}) \subseteq W /\ CallsOf(Session, {"agent"}) \subseteq W
      /\ CallsOf(AdminSession, {"listing"}) \subseteq W
  BY DEF CallsOf
<1>2. "createTaskDispatch" \in W
  BY AreSound, AreCalls DEF Sound, Has, OfAgent
<1>3. <<"acceptAccountMembershipInvitation", "getAccountMe">> \in Seq(W)
  BY <1>1, SessionCallsOf
<1>4. Readiness \in Seq(W) /\ Matching \in Seq(W)
  <2>1. ASSUME NEW S, S \subseteq W, NEW s \in Seq(S)
        PROVE  s \in Seq(W)
    BY <2>1
  <2> QED BY <2>1, <1>1, SessionSequences, OtherSequences
<1>5. <<"createTaskDispatch">> \in Seq(W)
  BY <1>2
<1>6. calls \in Seq(W)
  BY <1>3, <1>4, <1>5
<1>7. ASSUME NEW i \in DOMAIN calls
      PROVE  i \in Nat \ {0} /\ calls[i] \in W
  BY <1>6, <1>7
<1>8. "universe run" \in Unguarded
  BY DEF Unguarded
<1> HIDE DEF calls
<1>9. Fits("universe run", calls, {"agent"}, {})
  BY <1>7, <1>8 DEF Fits
<1>10. FitUnder({}, "universe run" :> Making(calls, {"agent"}))
  BY <1>9, OneFits
<1>11. UniverseCommands = UniverseInspections @@ "universe run" :> Making(calls, {"agent"})
  BY DEF UniverseCommands, calls
<1> QED BY <1>10, <1>11, InspectionsFit, JoinFitUnder, Wider

\* Every command fits.
LEMMA CommandsFit == Fit(CliCommands)
  BY JoinFit, TruthFetchFits, OnboardingFits, IdentityFits, ClaimantFits, OperatorFits,
     TaskPlaneFits, ExecutionsFit, IndustryFits, UniverseFits
  DEF CliCommands

-----------------------------------------------------------------------------

\* The account reads of the MCP server fit.
LEMMA AccountDispatchFits == FitUnder({}, AccountDispatch)
  BY JoinFitUnder, EachFits, AreSound
  DEF AccountDispatch, WithoutId, OfAgent, OfListing, OfOpportunity

\* So do its registration, semantic and pricing reads,
LEMMA BusinessDispatchFits == FitUnder({}, BusinessDispatch)
  BY JoinFitUnder, EachFits, AreSound DEF BusinessDispatch, WithoutId, OfItem

\* its asset reads and operator inspections,
LEMMA AssetDispatchFits == FitUnder({}, AssetAndOperatorDispatch)
  BY JoinFitUnder, EachFits, SoundAloneFits, AlikeFits, OtherSequences, AreSound
  DEF AssetAndOperatorDispatch, WithoutId, OfItem, OfRegistration, OfMatching

\* its inspections by role
LEMMA RoleDispatchFits == FitUnder({}, RoleDispatch)
  BY JoinFitUnder, NoCallFits, SoundAloneFits, AlikeFits, SessionSequences, AreSound
  DEF RoleDispatch, WithoutId, OfOpportunity

\* and its governed reads.
LEMMA GovernedDispatchFits == FitUnder({}, GovernedDispatch)
  BY JoinFitUnder, EachFits, AreSound
  DEF GovernedDispatch, OfRegistration, OfAgent, OfDispatch

\* The read dispatcher fits.
LEMMA TruthFetchDispatchFits == FitUnder({}, TruthFetchDispatch)
  BY JoinFitUnder, AccountDispatchFits, BusinessDispatchFits, AssetDispatchFits,
     RoleDispatchFits, GovernedDispatchFits
  DEF TruthFetchDispatch

\* The executions by role fit what the catalogue requires.
LEMMA RoleExecutionsFit == GovernedFit(RoleExecutions)
<1>1. /\ FitUnder({}, "establishClaimantCanonicalCompanyPublicPrecondition"
            :> Making(<<"acceptAccountMembershipInvitation", "getAccountMe", "selectOrg",
                        "getAccountMe">>, {}))
      /\ FitUnder({}, "repairClaimantReadiness" :> Making(Repair, {"agent"}))
      /\ FitUnder({}, "runOperatorConnectionContinuation"
            :> Making(<<"createOperatorConnection", "approveOperatorConnection">>, {"approval"}))
  BY AlikeFits, SessionSequences, OtherSequences
<1>2. /\ FitUnder({}, "runOperatorMatching" :> Making(Matching, {"listing"}))
      /\ FitUnder({}, "executeIndustryUniverseScenario" :> Making(IndustryChain, {}))
  BY UnguardedAlikeFits, OtherSequences DEF Unguarded
<1>3. /\ FitUnder({}, "runClaimantTaskEntry" :> Making(<<"createTaskDispatch">>, {"agent"}))
      /\ FitUnder({}, "runOperatorApprovalContinuation"
            :> Making(<<"approveOperatorConnection">>, {"approval"}))
      /\ FitUnder({}, "runOperatorPackageExport"
           :> Making(<<"exportOperatorOpportunityPackage">>, {"opportunity"}))
  BY SoundAloneFits, AreSound DEF OfAgent
<1>4. FitUnder({}, "runPlatformManagedProgression" :> Making(<<>>, {}))
  BY NoCallFits
<1>5. GovernedFit("runOperatorCommercialAction" :> Making(CommercialRun, {}))
  <2> DEFINE h == "runOperatorCommercialAction"
             F == h :> Making(CommercialRun, {})
  <2>1. FitUnder(AdminSession, F)
    BY CommercialRunFits DEF Unguarded
  <2>2. Catalogue[h].requires = AdminSession
    BY AreFiled, CommercialRunFiled DEF Has, Filed, Entry
  <2>3. \A n \in DOMAIN F : n = h
    BY DEF :>
  <2> HIDE DEF F
  <2>4. GovernedFit(F)
    BY <2>1, <2>2, <2>3 DEF FitUnder, GovernedFit
  <2> QED BY <2>4 DEF F
<1> QED BY <1>1, <1>2, <1>3, <1>4, <1>5, UngovernedFits, JoinGoverned DEF RoleExecutions

\* So do those of an account,
LEMMA AccountExecutionsFit == GovernedFit(AccountExecutions)
  BY JoinGoverned, EachGoverned, AreSound, SoundGoverned
  DEF AccountExecutions, WithoutId, OfAgent, OfListing

\* those of an authority,
LEMMA AuthorityExecutionsFit == GovernedFit(AuthorityExecutions)
  BY JoinGoverned, EachGoverned, AreSound, SoundGoverned, RegistrationGoverned
  DEF AuthorityExecutions, WithoutId, OfAgent, OfRegistration, OfDispatch, RegistrationCalls

\* those of a task
LEMMA TaskExecutionsFit == GovernedFit(TaskExecutions)
  BY JoinGoverned, EachGoverned, AreSound, SoundGoverned
  DEF TaskExecutions, OfAgent, OfRegistration, OfDispatch

\* and the registered adapters.
LEMMA AdaptersFit == GovernedFit(AdapterExecutions)
  BY EachGoverned, RegistrationGoverned DEF AdapterExecutions, RegistrationCalls

\* The execution dispatcher fits.
LEMMA ExecutionDispatchFits == GovernedFit(ExecutionDispatch)
  BY JoinGoverned, RoleExecutionsFit, AccountExecutionsFit, AuthorityExecutionsFit,
     TaskExecutionsFit, AdaptersFit
  DEF ExecutionDispatch

\* Every tool of the server fits.
LEMMA ToolsFit == Fit(McpTools)
  BY TruthFetchDispatchFits, ExecutionDispatchFits, DispatchedFits, GovernedFits, Wider, JoinFit
  DEF McpTools

-----------------------------------------------------------------------------

\* What an embedding program asks for by helper.
LEMMA HelperIs ==
    ASSUME NEW h \in DOMAIN SdkHelpers
    PROVE  /\ h \in DOMAIN Catalogue \cap DOMAIN Client
           /\ SdkHelpers[h] = [calls |-> <<h>>, ids |-> PathIds(h), requires |-> {},
                               carries |-> ContextKeys, via |-> {h}]
  BY DEF SdkHelpers, Making

\* It makes the one call the helper is named for.
LEMMA OneCallOfHelper ==
    ASSUME NEW h \in DOMAIN SdkHelpers, NEW i \in DOMAIN SdkHelpers[h].calls
    PROVE  i = 1 /\ SdkHelpers[h].calls[i] = h
  BY HelperIs, OneCall

\* A helper of one call is refused at its first.
LEMMA HelpersRefused == RefusedFirst(SdkHelpers)
  BY OneCallOfHelper DEF RefusedFirst

\* The orchestrator lets a registration call through only with its tenant: a write is
\* serial, and the read fits no policy.
LEMMA RegistrationAdmitted ==
    ASSUME Registry = Routes, NEW h \in RegistrationCalls, Admitted(Registry[h])
    PROVE  Registration \subseteq identity
<1>1. h \in DOMAIN Catalogue
  BY AreFiled DEF Has
<1>2. /\ Routes[h].family = Catalogue[h].family /\ Routes[h].requires = Catalogue[h].requires
      /\ Routes[h].write = Catalogue[h].write /\ Routes[h].public = Catalogue[h].public
      /\ Routes[h].commercial = Catalogue[h].commercial
  BY <1>1 DEF Routes
<1>3. CASE h # "downloadSync"
  <2>1. Catalogue[h] = Entry("registration", Registration, TRUE)
    BY <1>1, <1>3, RegistrationFiled DEF Filed
  <2>2. /\ Routes[h].family = "registration" /\ Routes[h].requires = Registration
        /\ Routes[h].write = TRUE /\ Routes[h].public = FALSE
        /\ Routes[h].commercial = FALSE
    BY <1>2, <2>1 DEF Entry
  <2>3. KindOf(Routes[h]) = "runtime-write"
    BY <2>2 DEF KindOf
  <2> QED BY <2>2, <2>3 DEF Admitted, Serial, Missing
<1>4. CASE h = "downloadSync"
  <2>1. Catalogue[h] = Entry("registration", Registration, FALSE)
    BY <1>1, <1>4, DownloadFiled DEF Filed
  <2>2. /\ Routes[h].family = "registration" /\ Routes[h].write = FALSE
        /\ Routes[h].public = FALSE /\ Routes[h].commercial = FALSE
    BY <1>2, <2>1 DEF Entry
  <2>3. KindOf(Routes[h]) = "unmapped"
    BY <2>2 DEF KindOf
  <2> QED BY <2>3 DEF Admitted, Concurrent, Serial
<1> QED BY <1>3, <1>4

\* A helper the orchestrator lets through writes no key the identity lacks.
LEMMA HelpersWhole ==
    ASSUME Registry = Routes, identity \subseteq ContextKeys
    PROVE  Whole(SdkHelpers)
<1> SUFFICES ASSUME NEW h \in DOMAIN SdkHelpers, Goes(SdkHelpers[h]),
                    NEW i \in Reached(SdkHelpers[h])
             PROVE  /\ Client[SdkHelpers[h].calls[i]].writes \subseteq Held(SdkHelpers[h])
                    /\ PathIds(SdkHelpers[h].calls[i]) \subseteq SdkHelpers[h].ids
  BY DEF Whole
<1> DEFINE e == SdkHelpers[h]
<1>1. /\ e.calls = <<h>> /\ e.ids = PathIds(h) /\ e.carries = ContextKeys /\ e.via = {h}
      /\ h \in DOMAIN Client
  BY HelperIs
<1>2. i \in DOMAIN e.calls /\ \A j \in 1 .. i : Allowed(e, j)
  BY DEF Reached
<1>3. i = 1 /\ e.calls[i] = h
  BY <1>2, OneCallOfHelper
<1>4. Held(e) = identity
  BY <1>1 DEF Held
<1>5. Allowed(e, 1)
  BY <1>2, <1>3
<1>6. Client[h].demands \subseteq identity
  BY <1>3, <1>4, <1>5 DEF Allowed
<1>7. CASE h \in RegistrationCalls
  <2>1. Admitted(Registry[h])
    BY <1>1 DEF Goes
  <2>2. Registration \subseteq identity
    BY <1>7, <2>1, RegistrationAdmitted
  <2> QED BY <1>1, <1>3, <1>4, <1>7, <2>2, RegistrationSound
<1>8. CASE h \notin RegistrationCalls
  <2>1. Client[h].writes \subseteq Client[h].demands
    BY <1>1, <1>8, ClientDemanded DEF Demanded
  <2> QED BY <1>1, <1>3, <1>4, <1>6, <2>1
<1> QED BY <1>7, <1>8

\* The table F has no key m.
Lacks(F, m) == m \notin DOMAIN F

\* What two stretches lack their join lacks.
LEMMA JoinLacks ==
    ASSUME NEW f, NEW g, NEW m, Lacks(f, m), Lacks(g, m)
    PROVE  Lacks(f @@ g, m)
<1>1. Lacks(Over(f, g), m)
  BY DEF Lacks, Over
<1> QED BY <1>1 DEF @@

\* The keys of a stretch of gates and of one of calls.
LEMMA KeysOfStretches ==
    /\ \A H, x, m : m \notin H => Lacks(Gate(H, x), m)
    /\ \A H, ids, m : m \in H => Has(Each(H, ids), m)
  BY DEF Lacks, Has, Gate, Each

\* An execution tool of the server asks the orchestrator for the helper of its name.
LEMMA ExecutionTool ==
    ASSUME NEW t \in ExecutionTools, t \in DOMAIN ExecutionDispatch, t \notin ReadTools
    PROVE  t \in DOMAIN McpTools /\ McpTools[t].via = {t}
<1> DEFINE reads == Dispatched(ReadTools, TruthFetchDispatch)
           runs  == Governed(Dispatched(ExecutionTools, ExecutionDispatch))
<1>1. t \notin DOMAIN reads
  BY DEF Dispatched
<1>2. t \in DOMAIN runs /\ runs[t].via = {t}
  BY DEF Dispatched, Governed
<1>3. McpTools = reads @@ runs
  BY DEF McpTools
<1> HIDE DEF reads, runs
<1>4. t \in DOMAIN Over(reads, runs) /\ Over(reads, runs)[t] = runs[t]
  BY <1>1, <1>2 DEF Over
<1> QED BY <1>2, <1>3, <1>4 DEF @@

SyncDownloads == {"downloadSync", "downloadAccountAgentExecutionSync"}

\* The read of the account is filed with its session.
LEMMA AccountDownloadFiled ==
    Filed(Catalogue, {"downloadAccountAgentExecutionSync"}, Entry("session", Session, FALSE))
  BY StretchFiled, JoinFiled, EntriesFiled
  DEF AgentEntries, SemanticAndPricingEntries, IntegrationEntries, OnboardingEntries,
      AccountEntries, ExecutionEntries, AuthorizationEntries, AssetEntries, TaskEntries,
      TaskOutcomeEntries, CommercialEntries, ClaimantEntries, OperatorEntries,
      ScenarioEntries, TenantReads, GovernedReads, SessionReads, SessionWrites,
      OperatorReads, OperatorWrites, CompanyWrites

\* Both are in the catalogue.
LEMMA DownloadsAreFiled == \A t \in SyncDownloads : t \in DOMAIN Catalogue
<1>1. "downloadSync" \in DOMAIN Catalogue
  BY AreFiled DEF RegistrationCalls, Has
<1>2. Has(ExecutionEntries, "downloadAccountAgentExecutionSync")
  BY JoinHas, EntriesFiled DEF ExecutionEntries, SessionReads
<1>3. Has(Catalogue, "downloadAccountAgentExecutionSync")
  BY <1>2, JoinHas DEF Catalogue
<1> QED BY <1>1, <1>3 DEF SyncDownloads, Has

\* The tools of the sync downloads are offered, and throw whatever the identity:
\* they ask for a read of the registration or of the session, which no execution
\* policy fits (src/discovery-catalog.ts:785-791 and :945-951, src/mcp.ts:882-965,
\* src/runtime/capability-orchestration.ts:58-98).
THEOREM SyncDownloadsNeverRun ==
    ASSUME Registry = Routes, NEW t \in SyncDownloads
    PROVE  t \in ExecutionTools /\ t \in DOMAIN McpTools /\ ~Goes(McpTools[t])
<1>1. t \notin DOMAIN Matrix
  <2>1. Lacks(IdentityGates, t) /\ Lacks(TaskGates, t) /\ Lacks(CapabilityGates, t)
    BY JoinLacks, KeysOfStretches DEF IdentityGates, TaskGates, CapabilityGates, SyncDownloads
  <2>2. Lacks(NotificationGates, t) /\ Lacks(IntegrationGates, t)
    BY JoinLacks, KeysOfStretches DEF NotificationGates, IntegrationGates, SyncDownloads
  <2>3. Lacks(Matrix, t)
    BY <2>1, <2>2, JoinLacks DEF Matrix
  <2> QED BY <2>3 DEF Lacks
<1>2. t \in ExecutionTools
  BY <1>1 DEF ExecutionTools, Exposed, ClaimantExecutionTools, OperatorExecutionTools,
              SyncDownloads
<1>3. t \in DOMAIN ExecutionDispatch
  <2>1. Has(AccountExecutions, t) \/ Has(AuthorityExecutions, t)
    BY JoinHas, KeysOfStretches DEF AccountExecutions, AuthorityExecutions, SyncDownloads
  <2>2. Has(ExecutionDispatch, t)
    BY <2>1, JoinHas DEF ExecutionDispatch
  <2> QED BY <2>2 DEF Has
<1>4. t \notin ReadTools
  BY DEF ReadTools, IntegrationAndExecutionReadTools, GovernedReadTools, LocalReadTools,
         SyncDownloads
<1>5. ~Admitted(Registry[t])
  <2>1. t \in DOMAIN Catalogue
    BY DownloadsAreFiled
  <2>2. /\ Catalogue[t].family \in {"registration", "session"} /\ Catalogue[t].write = FALSE
        /\ Catalogue[t].public = FALSE /\ Catalogue[t].commercial = FALSE
    BY <2>1, DownloadFiled, AccountDownloadFiled DEF Filed, Entry, SyncDownloads
  <2>3. /\ Registry[t].family \in {"registration", "session"} /\ Registry[t].write = FALSE
        /\ Registry[t].public = FALSE /\ Registry[t].commercial = FALSE
    BY <2>1, <2>2 DEF Routes
  <2>4. KindOf(Registry[t]) = "unmapped"
    BY <2>3 DEF KindOf
  <2> QED BY <2>4 DEF Admitted, Concurrent, Serial
<1>6. t \in DOMAIN McpTools /\ McpTools[t].via = {t}
  BY <1>2, <1>3, <1>4, ExecutionTool
<1> QED BY <1>2, <1>5, <1>6 DEF Goes

\* A way in that is let go and refused by the client is refused before its first
\* request, whatever the identity and the registry (src/cli.ts, src/mcp.ts and the
\* checks at the head of the methods of src/client.ts).
THEOREM RefusedBeforeAnyRequest == Spec => []RefusedBeforeSending
<1>1. RefusedBeforeSending
  BY CommandsFit, ToolsFit, HelpersRefused, FitIsEnough DEF RefusedBeforeSending
<1> QED BY <1>1, PTL

\* No request goes out without a context key that it writes, and every entry
\* outside Unguarded checks all the ids its paths name, whatever the identity, when
\* the orchestrator asks the shipped catalogue (src/capabilities.ts against
\* src/client.ts).
THEOREM RequestsWhole ==
    ASSUME Registry = Routes
    PROVE  Spec => []EveryRequestIsWhole
<1>1. TypeOK => EveryRequestIsWhole
  <2> SUFFICES ASSUME TypeOK PROVE EveryRequestIsWhole
    OBVIOUS
  <2>1. identity \subseteq ContextKeys
    BY DEF TypeOK
  <2> QED BY <2>1, CommandsFit, ToolsFit, HelpersWhole, FitIsEnough DEF EveryRequestIsWhole
<1> QED BY <1>1, TypeCorrect, PTL

=============================================================================
