---------------------- MODULE RequestTransport_proofs ----------------------
(***************************************************************************)
(* What a request may report, for any number of requests, timers and       *)
(* holders of the caller's signal.                                         *)
(***************************************************************************)
EXTENDS RequestTransport, TLAPS

\* Timers and listeners are where they were asked for, the flags tell what
\* happened, and nothing is armed for a request that is not under way.
RequestInv(r) ==
    /\ timer[r] \/ timedOut[r] => r \in Timed
    /\ listener[r] => r \in Signalled /\ ~signal
    /\ aborted[r] => r \in Signalled /\ signal
    /\ r \in Signalled /\ pc[r] \notin {"idle", "done"} =>
         (signal => aborted[r]) /\ (~signal => listener[r])
    /\ pc[r] \in {"idle", "done"} => ~timer[r] /\ ~listener[r]
    /\ outcome[r] = "timeout" => timedOut[r]
    /\ outcome[r] = "aborted" => r \in Signalled /\ signal
    /\ outcome[r] = "connection" => ~timedOut[r] /\ ~aborted[r]
    /\ pc[r] # "done" => outcome[r] = "none"

\* The inductive invariant of the transport.
TransportInv == TypeOK /\ \A r \in Requests : RequestInv(r)

\* It says all that KindIsHonest and AbortReachesAll do.
LEMMA InvIsHonest == TransportInv => KindIsHonest /\ AbortReachesAll
<1> SUFFICES ASSUME TransportInv PROVE KindIsHonest /\ AbortReachesAll
  OBVIOUS
<1>1. ASSUME NEW r \in Requests PROVE RequestInv(r)
  BY DEF TransportInv
<1>2. KindIsHonest
  BY <1>1 DEF RequestInv, KindIsHonest, Cancelled
<1>3. AbortReachesAll
  BY <1>1, RequestsAssumption DEF RequestInv, AbortReachesAll
<1> QED BY <1>2, <1>3

\* A normalized error is honest about the flags.
LEMMA NormalizedIsHonest ==
  ASSUME NEW r \in Requests, NEW error \in {"connection", "unknown"}, TypeOK
  PROVE  /\ Normalized(r, error) \in Outcomes
         /\ Normalized(r, error) = "timeout" => timedOut[r]
         /\ Normalized(r, error) = "aborted" => aborted[r]
         /\ Normalized(r, error) = "connection" => ~Cancelled(r)
         /\ Normalized(r, error) # "none"
BY DEF Normalized, Outcomes, Cancelled, TypeOK

\* Settling with an honest outcome keeps the invariant.
LEMMA SettleKeeps ==
  ASSUME TransportInv, NEW r \in Requests, NEW o \in Outcomes,
         Settle(r, o), UNCHANGED <<signal, timedOut, left>>,
         \/ UNCHANGED aborted
         \/ /\ r \in Signalled /\ signal
            /\ aborted' = [aborted EXCEPT ![r] = TRUE]
            /\ o = "aborted",
         o = "timeout" => timedOut[r],
         o = "aborted" => r \in Signalled /\ signal,
         o = "connection" => ~Cancelled(r)
  PROVE  TransportInv'
<1>1. TypeOK'
  BY DEF TransportInv, TypeOK, Settle
<1>2. RequestInv(r)'
  BY DEF TransportInv, TypeOK, RequestInv, Settle, Cancelled
<1>3. ASSUME NEW q \in Requests, q # r PROVE RequestInv(q)'
  <2>1. /\ pc'[q] = pc[q] /\ timer'[q] = timer[q] /\ listener'[q] = listener[q]
        /\ outcome'[q] = outcome[q] /\ aborted'[q] = aborted[q]
    BY <1>3 DEF TransportInv, TypeOK, Settle
  <2> QED BY <2>1 DEF TransportInv, RequestInv
<1> QED BY <1>1, <1>2, <1>3 DEF TransportInv

\* The invariant holds initially.
LEMMA InitTransport == Init => TransportInv
BY DEF Init, TransportInv, RequestInv, TypeOK, Outcomes

\* Every step keeps it.
LEMMA NextTransport == TransportInv /\ [Next]_vars => TransportInv'
<1> SUFFICES ASSUME TransportInv, [Next]_vars PROVE TransportInv'
  OBVIOUS
<1>1. ASSUME NEW r \in Requests, Request(r) PROVE TransportInv'
  <2>1. CASE r \in Signalled /\ signal
    BY <1>1, <2>1, SettleKeeps DEF Request, Outcomes
  <2>2. CASE ~(r \in Signalled /\ signal)
    <3>1. /\ pc' = [pc EXCEPT ![r] = "headers"]
          /\ timer' = [timer EXCEPT ![r] = r \in Timed]
          /\ listener' = [listener EXCEPT ![r] = r \in Signalled]
          /\ UNCHANGED <<aborted, outcome, signal, timedOut, left>>
          /\ pc[r] = "idle"
      BY <1>1, <2>2 DEF Request
    <3>2. TypeOK'
      BY <3>1 DEF TransportInv, TypeOK
    <3>3. RequestInv(r)'
      BY <3>1, <2>2 DEF TransportInv, RequestInv, TypeOK
    <3>4. ASSUME NEW q \in Requests, q # r PROVE RequestInv(q)'
      <4>1. pc'[q] = pc[q] /\ timer'[q] = timer[q] /\ listener'[q] = listener[q]
        BY <3>1, <3>4 DEF TransportInv, TypeOK
      <4> QED BY <3>1, <4>1 DEF TransportInv, RequestInv
    <3> QED BY <3>2, <3>3, <3>4 DEF TransportInv
  <2> QED BY <2>1, <2>2
<1>2. ASSUME NEW r \in Requests, FetchImpl(r) PROVE TransportInv'
  <2>1. CASE aborted[r]
    <3>1. r \in Signalled /\ signal
      BY <2>1 DEF TransportInv, RequestInv
    <3> QED BY <1>2, <2>1, <3>1, SettleKeeps DEF FetchImpl, Outcomes
  <2>2. CASE ~aborted[r] /\ Cancelled(r)
    <3>1. TypeOK
      BY DEF TransportInv
    <3>2. Settle(r, Normalized(r, "unknown")) /\ UNCHANGED <<signal, timedOut, aborted, left>>
      BY <1>2, <2>2 DEF FetchImpl
    <3> QED BY <2>2, <3>1, <3>2, NormalizedIsHonest, SettleKeeps
  <2>3. CASE ~aborted[r] /\ ~Cancelled(r)
    BY <1>2, <2>3 DEF FetchImpl, TransportInv, RequestInv, TypeOK
  <2> QED BY <2>1, <2>2, <2>3
<1>3. ASSUME NEW r \in Requests, ProviderFails(r) \/ FetchRejects(r) PROVE TransportInv'
  <2>1. PICK error \in {"connection", "unknown"} :
          Settle(r, Normalized(r, error)) /\ UNCHANGED <<signal, timedOut, aborted, left>>
    BY <1>3 DEF ProviderFails, FetchRejects
  <2>2. TypeOK /\ (aborted[r] => r \in Signalled /\ signal)
    BY DEF TransportInv, RequestInv
  <2> QED BY <2>1, <2>2, NormalizedIsHonest, SettleKeeps
<1>4. ASSUME NEW r \in Requests, Responds(r) PROVE TransportInv'
  BY <1>4 DEF Responds, TransportInv, RequestInv, TypeOK
<1>5. ASSUME NEW r \in Requests, ParseResponse(r) PROVE TransportInv'
  BY <1>5, SettleKeeps DEF ParseResponse, Outcomes
<1>6. ASSUME NEW r \in Requests, TimerFires(r) PROVE TransportInv'
  BY <1>6 DEF TimerFires, TransportInv, RequestInv, TypeOK
<1>7. CASE CallerAborts
  <2>1. TypeOK'
    BY <1>7 DEF CallerAborts, TransportInv, TypeOK
  <2>2. ASSUME NEW r \in Requests PROVE RequestInv(r)'
    <3>1. /\ aborted'[r] = (aborted[r] \/ listener[r]) /\ ~listener'[r]
          /\ pc'[r] = pc[r] /\ timer'[r] = timer[r] /\ timedOut'[r] = timedOut[r]
          /\ outcome'[r] = outcome[r] /\ ~signal /\ signal'
      BY <1>7 DEF CallerAborts, TransportInv, TypeOK
    <3>2. outcome[r] = "connection" => ~aborted'[r]
      BY <3>1 DEF TransportInv, RequestInv
    <3> QED BY <3>1, <3>2 DEF TransportInv, RequestInv
  <2> QED BY <2>1, <2>2 DEF TransportInv
<1>8. CASE UNCHANGED vars
  BY <1>8 DEF vars, TransportInv, RequestInv, TypeOK
<1> QED BY <1>1, <1>2, <1>3, <1>4, <1>5, <1>6, <1>7, <1>8 DEF Next, Step

-----------------------------------------------------------------------------
\* The inductive invariant of the transport.
THEOREM TransportInvariance == Spec => []TransportInv
<1> QED BY InitTransport, NextTransport, PTL DEF Spec

\* No request reports a timeout, an abort or a broken connection that is not one.
THEOREM KindsAreHonest == Spec => []KindIsHonest
<1> QED BY InvIsHonest, TransportInvariance, PTL

\* No request under way misses its caller's abort.
THEOREM AbortsReachAll == Spec => []AbortReachesAll
<1> QED BY InvIsHonest, TransportInvariance, PTL

\* Nothing goes out after a cancel.
THEOREM NothingGoesOut == Spec => NothingLeavesAfterCancel
<1>1. TransportInv /\ [Next]_vars => [NothingLeaves]_vars
  <2> SUFFICES ASSUME TransportInv, Next, NEW r \in Requests, ~left[r], left'[r]
               PROVE  ~timedOut[r] /\ (r \in Signalled => ~signal)
    BY DEF NothingLeaves
  <2>1. PICK q \in Requests : FetchImpl(q)
    BY DEF Next, Step, Request, ProviderFails, Responds, FetchRejects, ParseResponse,
       TimerFires, CallerAborts
  <2>2. ~aborted[q] /\ ~Cancelled(q) /\ q = r /\ pc[r] = "headers"
    BY <2>1 DEF FetchImpl, TransportInv, TypeOK
  <2> QED BY <2>2 DEF TransportInv, RequestInv, Cancelled
<1> QED BY <1>1, TransportInvariance, PTL DEF Spec, NothingLeavesAfterCancel

\* What settling leaves: no step of any request, and no later abort, touches one
\* that has settled (createRequestTransport's cleanup in client.ts).
SettledStays ==
    \A r \in Requests : pc[r] = "done" =>
        /\ ~timer[r] /\ ~listener[r]
        /\ timedOut'[r] = timedOut[r] /\ aborted'[r] = aborted[r]

\* A settled request keeps neither timer nor listener, and its flags are final.
THEOREM SettledHoldsNothing == Spec => SettledLeavesNothing
<1>1. TransportInv /\ [Next]_vars => [SettledStays]_vars
  <2> SUFFICES ASSUME TransportInv, Next, NEW r \in Requests, pc[r] = "done"
               PROVE  /\ ~timer[r] /\ ~listener[r]
                      /\ timedOut'[r] = timedOut[r] /\ aborted'[r] = aborted[r]
    BY DEF SettledStays
  <2>1. ~timer[r] /\ ~listener[r]
    BY DEF TransportInv, RequestInv
  <2>2. ASSUME NEW q \in Requests, Step(q)
        PROVE  timedOut'[r] = timedOut[r] /\ aborted'[r] = aborted[r]
    <3>1. CASE TimerFires(q)
      <4>1. q # r
        BY <2>1, <3>1 DEF TimerFires
      <4> QED BY <3>1, <4>1 DEF TimerFires, TransportInv, TypeOK
    <3>2. CASE Request(q)
      <4>1. q # r
        BY <3>2 DEF Request
      <4> QED BY <3>2, <4>1 DEF Request, TransportInv, TypeOK
    <3> QED BY <2>2, <3>1, <3>2
          DEF Step, FetchImpl, ProviderFails, Responds, FetchRejects, ParseResponse
  <2>3. CASE CallerAborts
    <3>1. timedOut' = timedOut /\ aborted' = [q \in Requests |-> aborted[q] \/ listener[q]]
      BY <2>3 DEF CallerAborts
    <3>2. aborted[r] \in BOOLEAN
      BY DEF TransportInv, TypeOK
    <3>3. aborted'[r] = (aborted[r] \/ listener[r])
      BY <3>1
    <3>4. aborted'[r] = aborted[r]
      BY <2>1, <3>2, <3>3
    <3>5. timedOut'[r] = timedOut[r]
      BY <3>1
    <3> QED BY <2>1, <3>4, <3>5
  <2> QED BY <2>1, <2>2, <2>3 DEF Next
<1> QED BY <1>1, TransportInvariance, PTL DEF Spec, SettledLeavesNothing, SettledStays

-----------------------------------------------------------------------------
\* Every variable of the transport keeps its type.
THEOREM TypeCorrect == Spec => []TypeOK
<1>1. TransportInv => TypeOK
  BY DEF TransportInv
<1> QED BY <1>1, TransportInvariance, PTL

\* A request with a timeout that is under way will be stopped: its timer is
\* armed, or has fired already.
TimersHold ==
    \A r \in Timed : pc[r] \in {"headers", "fetching", "reading"} => timer[r] \/ timedOut[r]

\* No step but the firing of the timer, or the end of the request, disarms it
\* (createRequestTransport in client.ts arms one per request).
LEMMA NextTimers == TransportInv /\ TimersHold /\ [Next]_vars => TimersHold'
<1> SUFFICES ASSUME TransportInv, TimersHold, [Next]_vars, NEW r \in Timed,
                    pc'[r] \in {"headers", "fetching", "reading"}
             PROVE  timer'[r] \/ timedOut'[r]
  BY DEF TimersHold
<1>1. TypeOK /\ r \in Requests
  BY RequestsAssumption DEF TransportInv
<1>2. CASE UNCHANGED vars
  BY <1>2 DEF vars, TimersHold
<1>3. CASE CallerAborts
  BY <1>3 DEF CallerAborts, TimersHold
<1>4. ASSUME NEW q \in Requests, Step(q) PROVE timer'[r] \/ timedOut'[r]
  <2>1. CASE q = r
    <3>1. CASE Request(r)
      BY <1>1, <3>1 DEF Request, Settle, TypeOK
    <3>2. CASE FetchImpl(r)
      BY <1>1, <3>2 DEF FetchImpl, Settle, TypeOK, TimersHold
    <3>3. CASE Responds(r)
      BY <1>1, <3>3 DEF Responds, TypeOK, TimersHold
    <3>4. CASE TimerFires(r)
      BY <1>1, <3>4 DEF TimerFires, TypeOK
    <3>5. CASE ProviderFails(r) \/ FetchRejects(r) \/ ParseResponse(r)
      BY <1>1, <3>5 DEF ProviderFails, FetchRejects, ParseResponse, Settle, TypeOK
    <3> QED BY <1>4, <2>1, <3>1, <3>2, <3>3, <3>4, <3>5 DEF Step
  <2>2. CASE q # r
    <3>1. pc'[r] = pc[r] /\ timer'[r] = timer[r] /\ timedOut'[r] = timedOut[r]
      BY <1>1, <1>4, <2>2 DEF Step, Request, FetchImpl, ProviderFails, Responds, FetchRejects,
         ParseResponse, TimerFires, Settle, TypeOK
    <3> QED BY <3>1 DEF TimersHold
  <2> QED BY <2>1, <2>2
<1> QED BY <1>2, <1>3, <1>4 DEF Next

\* However its headers, its fetch and its body come and go, a timed request
\* under way is never left without a timer.
THEOREM TimersAlwaysHold == Spec => []TimersHold
<1>1. Init => TimersHold
  BY RequestsAssumption DEF Init, TimersHold
<1> QED BY <1>1, NextTimers, TransportInvariance, PTL DEF Spec

\* Nothing cancels a request that has not begun: it has no timer and no listener yet.
NotBegun == \A r \in Requests : pc[r] = "idle" => ~Cancelled(r)

\* Every step keeps it: what could cancel a request is armed when it begins.
LEMMA NextNotBegun == TransportInv /\ NotBegun /\ [Next]_vars => NotBegun'
<1> SUFFICES ASSUME TransportInv, NotBegun, [Next]_vars, NEW r \in Requests, pc'[r] = "idle"
             PROVE  ~timedOut'[r] /\ ~aborted'[r]
  BY DEF NotBegun, Cancelled
<1>1. TypeOK /\ (pc[r] = "idle" => ~timer[r] /\ ~listener[r] /\ ~timedOut[r] /\ ~aborted[r])
  BY DEF TransportInv, RequestInv, NotBegun, Cancelled
<1>2. CASE UNCHANGED vars
  BY <1>1, <1>2 DEF vars
<1>3. CASE CallerAborts
  <2>1. pc' = pc /\ timedOut' = timedOut /\ aborted' = [q \in Requests |-> aborted[q] \/ listener[q]]
    BY <1>3 DEF CallerAborts
  <2>2. ~aborted'[r]
    BY <1>1, <2>1
  <2> QED BY <1>1, <2>1, <2>2
<1>4. ASSUME NEW q \in Requests, Step(q) PROVE ~timedOut'[r] /\ ~aborted'[r]
  <2>1. pc[r] = "idle"
    BY <1>1, <1>4 DEF Step, Request, FetchImpl, ProviderFails, Responds, FetchRejects,
       ParseResponse, TimerFires, Settle, TypeOK
  <2>2. ~Request(r)
    BY <1>1 DEF Request, Settle, TypeOK
  <2>3. q = r => FALSE
    BY <1>1, <1>4, <2>1, <2>2 DEF Step, FetchImpl, ProviderFails, Responds, FetchRejects,
       ParseResponse, TimerFires
  <2> QED
    BY <1>1, <1>4, <2>1, <2>3 DEF Step, Request, FetchImpl, ProviderFails, Responds,
       FetchRejects, ParseResponse, TimerFires, TypeOK
<1> QED BY <1>2, <1>3, <1>4 DEF Next

\* A request that was cancelled stays cancelled, and settling is all it still does.
CancelledSettles ==
    \A r \in Requests : Cancelled(r) /\ pc[r] # "done" =>
        /\ Cancelled(r)'
        /\ pc'[r] \in {pc[r], "done"}

\* Once its timer fired or its caller aborted, nothing the core or a provider
\* answers takes a request any further than to its end: what is left of
\* RequestsSettle is that the awaited fetch rejects.
THEOREM CancelledOnlySettles == Spec => [][CancelledSettles]_vars
<1>1. TransportInv /\ NotBegun /\ [Next]_vars => [CancelledSettles]_vars
  <2> SUFFICES ASSUME TransportInv, NotBegun, Next, NEW r \in Requests, Cancelled(r),
                      pc[r] # "done"
               PROVE  Cancelled(r)' /\ pc'[r] \in {pc[r], "done"}
    BY DEF CancelledSettles
  <2>1. TypeOK /\ RequestInv(r)
    BY DEF TransportInv
  <2>2. CASE CallerAborts
    <3>1. pc' = pc /\ timedOut' = timedOut /\ (aborted[r] => aborted'[r])
      BY <2>2 DEF CallerAborts
    <3> QED BY <3>1 DEF Cancelled
  <2>3. ASSUME NEW q \in Requests, Step(q) PROVE Cancelled(r)' /\ pc'[r] \in {pc[r], "done"}
    <3>1. (timedOut[r] => timedOut'[r]) /\ (aborted[r] => aborted'[r])
      BY <2>1, <2>3 DEF Step, Request, FetchImpl, ProviderFails, Responds, FetchRejects,
         ParseResponse, TimerFires, Settle, TypeOK
    <3>2. CASE q # r
      <4>1. pc'[r] = pc[r]
        BY <2>1, <2>3, <3>2 DEF Step, Request, FetchImpl, ProviderFails, Responds,
           FetchRejects, ParseResponse, TimerFires, Settle, TypeOK
      <4> QED BY <3>1, <4>1 DEF Cancelled
    <3>3. CASE q = r
      <4>1. ASSUME Request(r) \/ Responds(r) PROVE pc'[r] = "done"
        <5>1. CASE Request(r)
          BY <5>1 DEF Request, NotBegun
        <5>2. CASE Responds(r)
          BY <5>2 DEF Responds
        <5> QED BY <4>1, <5>1, <5>2
      <4>2. CASE FetchImpl(r)
        BY <2>1, <3>1, <4>2 DEF FetchImpl, Cancelled, Settle, TypeOK
      <4>3. CASE ProviderFails(r) \/ FetchRejects(r) \/ ParseResponse(r)
        BY <2>1, <3>1, <4>3 DEF ProviderFails, FetchRejects, ParseResponse, Cancelled, Settle,
           TypeOK
      <4>4. CASE TimerFires(r)
        BY <2>1, <3>1, <4>4 DEF TimerFires, Cancelled
      <4> QED BY <2>3, <3>1, <3>3, <4>1, <4>2, <4>3, <4>4 DEF Step, Cancelled
    <3> QED BY <3>2, <3>3
  <2> QED BY <2>2, <2>3 DEF Next
<1>2. Init => NotBegun
  BY DEF Init, NotBegun, Cancelled
<1> QED BY <1>1, <1>2, NextNotBegun, TransportInvariance, PTL DEF Spec

=============================================================================
