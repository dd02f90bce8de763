-------------------------- MODULE RequestTransport --------------------------
(***************************************************************************)
(* BidviaClient.request (src/client.ts): requests under way at the same    *)
(* time, each with its own abort controller, some with a timer, some with  *)
(* the abort signal of a caller.  A request resolves its headers (an auth  *)
(* or header provider may be asynchronous), fetches, reads the body and    *)
(* settles once; whatever ends it, finally takes down timer and listener.  *)
(***************************************************************************)

CONSTANTS
    Requests,
    Timed,     \* requests with a timeoutMs, of their own or the client's
    Signalled  \* requests given the caller's signal

ASSUME RequestsAssumption == Timed \subseteq Requests /\ Signalled \subseteq Requests

VARIABLES
    pc,        \* "idle", at an await ("headers", "fetching", "reading"), "done"
    signal,    \* has the caller aborted its signal?
    timer,     \* a setTimeout is pending
    listener,  \* an abort listener is on the caller's signal
    timedOut, aborted, \* the two flags of the transport
    left,      \* the request went out
    outcome

vars == <<pc, signal, timer, listener, timedOut, aborted, left, outcome>>

-----------------------------------------------------------------------------
Outcomes == {"none", "value", "status", "invalid-json", "timeout", "aborted",
             "connection", "unknown"}

\* A bug to catch: the caller's abort never reaches the controller.
CancelledByTimer(r) == timedOut[r]

\* controller.signal.aborted: whichever flag was set first aborted it.
Cancelled(r) == timedOut[r] \/ aborted[r]

Init ==
    /\ pc = [r \in Requests |-> "idle"]
    /\ signal = FALSE
    /\ timer = [r \in Requests |-> FALSE]
    /\ listener = [r \in Requests |-> FALSE]
    /\ timedOut = [r \in Requests |-> FALSE]
    /\ aborted = [r \in Requests |-> FALSE]
    /\ left = [r \in Requests |-> FALSE]
    /\ outcome = [r \in Requests |-> "none"]

\* A bug to catch: no cleanup.
SettleWithoutCleanup(r, o) ==
    /\ pc' = [pc EXCEPT ![r] = "done"]
    /\ outcome' = [outcome EXCEPT ![r] = o]
    /\ UNCHANGED <<timer, listener>>

\* finally: cleanup, and the promise settles.
Settle(r, o) ==
    /\ pc' = [pc EXCEPT ![r] = "done"]
    /\ outcome' = [outcome EXCEPT ![r] = o]
    /\ timer' = [timer EXCEPT ![r] = FALSE]
    /\ listener' = [listener EXCEPT ![r] = FALSE]

\* A bug to catch: the class of the error is looked at before the flags.
NormalizedErrorFirst(r, error) ==
    CASE error = "connection" -> error
      [] error # "connection" /\ timedOut[r] -> "timeout"
      [] error # "connection" /\ ~timedOut[r] /\ aborted[r] -> "aborted"
      [] OTHER -> error

\* normalizeTransportError, for an error that is not a transport error yet.
Normalized(r, error) ==
    CASE timedOut[r] -> "timeout"
      [] ~timedOut[r] /\ aborted[r] -> "aborted"
      [] OTHER -> error

\* A bug to catch: a signal aborted before the request is only listened to.
RequestListeningOnly(r) ==
    /\ pc[r] = "idle"
    /\ pc' = [pc EXCEPT ![r] = "headers"]
    /\ timer' = [timer EXCEPT ![r] = r \in Timed]
    /\ listener' = [listener EXCEPT ![r] = r \in Signalled]
    /\ UNCHANGED <<signal, timedOut, aborted, left, outcome>>

\* createRequestTransport and the first throwIfRequestAborted.
Request(r) ==
    /\ pc[r] = "idle"
    /\ IF r \in Signalled /\ signal
         THEN /\ aborted' = [aborted EXCEPT ![r] = TRUE]
              /\ Settle(r, "aborted")
         ELSE /\ pc' = [pc EXCEPT ![r] = "headers"]
              /\ timer' = [timer EXCEPT ![r] = r \in Timed]
              /\ listener' = [listener EXCEPT ![r] = r \in Signalled]
              /\ UNCHANGED <<aborted, outcome>>
    /\ UNCHANGED <<signal, timedOut, left>>

\* A bug to catch: fetch is given no signal.
FetchWithoutSignal(r) ==
    /\ pc[r] = "headers"
    /\ pc' = [pc EXCEPT ![r] = "fetching"]
    /\ left' = [left EXCEPT ![r] = TRUE]
    /\ UNCHANGED <<signal, timer, listener, timedOut, aborted, outcome>>

\* The providers answer: the second throwIfRequestAborted, then fetch, which
\* rejects without sending when its signal is aborted.
FetchImpl(r) ==
    /\ pc[r] = "headers"
    /\ CASE aborted[r] -> Settle(r, "aborted") /\ UNCHANGED left
         [] ~aborted[r] /\ Cancelled(r) -> Settle(r, Normalized(r, "unknown")) /\ UNCHANGED left
         [] OTHER -> /\ pc' = [pc EXCEPT ![r] = "fetching"]
                     /\ left' = [left EXCEPT ![r] = TRUE]
                     /\ UNCHANGED <<timer, listener, outcome>>
    /\ UNCHANGED <<signal, timedOut, aborted>>

\* A provider throws, with a TypeError or another error.
ProviderFails(r) ==
    /\ pc[r] = "headers"
    /\ \E error \in {"connection", "unknown"} : Settle(r, Normalized(r, error))
    /\ UNCHANGED <<signal, timedOut, aborted, left>>

\* The response's head arrives.
Responds(r) ==
    /\ pc[r] = "fetching" /\ ~Cancelled(r)
    /\ pc' = [pc EXCEPT ![r] = "reading"]
    /\ UNCHANGED <<signal, timer, listener, timedOut, aborted, left, outcome>>

\* fetch, or the reading of the body, rejects: the connection broke, or the
\* controller was aborted.
FetchRejects(r) ==
    /\ pc[r] \in {"fetching", "reading"}
    /\ Settle(r, Normalized(r, "connection"))
    /\ UNCHANGED <<signal, timedOut, aborted, left>>

\* The body is there, perhaps just before an abort: it is parsed.
ParseResponse(r) ==
    /\ pc[r] = "reading"
    /\ \E o \in {"value", "status", "invalid-json"} : Settle(r, o)
    /\ UNCHANGED <<signal, timedOut, aborted, left>>

TimerFires(r) ==
    /\ timer[r]
    /\ timer' = [timer EXCEPT ![r] = FALSE]
    /\ timedOut' = [timedOut EXCEPT ![r] = TRUE]
    /\ UNCHANGED <<pc, signal, listener, aborted, left, outcome>>

\* The caller aborts: every listener runs, and is removed (once).
CallerAborts ==
    /\ ~signal /\ signal' = TRUE
    /\ aborted' = [r \in Requests |-> aborted[r] \/ listener[r]]
    /\ listener' = [r \in Requests |-> FALSE]
    /\ UNCHANGED <<pc, timer, timedOut, left, outcome>>

Step(r) == Request(r) \/ FetchImpl(r) \/ ProviderFails(r) \/ Responds(r)
           \/ FetchRejects(r) \/ ParseResponse(r) \/ TimerFires(r)

Next == CallerAborts \/ \E r \in Requests : Step(r)

Spec == Init /\ [][Next]_vars

\* Timers fire, and a fetch whose controller is aborted rejects.  Nothing
\* makes a core or a provider answer.
FairSpec == Spec /\ \A r \in Requests :
    WF_vars(TimerFires(r)) /\ WF_vars(Cancelled(r) /\ FetchRejects(r))

-----------------------------------------------------------------------------
TypeOK ==
    /\ pc \in [Requests -> {"idle", "headers", "fetching", "reading", "done"}]
    /\ signal \in BOOLEAN
    /\ timer \in [Requests -> BOOLEAN] /\ listener \in [Requests -> BOOLEAN]
    /\ timedOut \in [Requests -> BOOLEAN] /\ aborted \in [Requests -> BOOLEAN]
    /\ left \in [Requests -> BOOLEAN] /\ outcome \in [Requests -> Outcomes]

\* The kind of an error tells what ended the request: a timeout is reported
\* only by a request whose timer fired, an abort only after its caller's, and
\* a cancelled fetch is never passed off as a broken connection
\* (test/client-transport.test.ts:75 and 120).
KindIsHonest ==
    \A r \in Requests :
        /\ outcome[r] = "timeout" => r \in Timed /\ timedOut[r]
        /\ outcome[r] = "aborted" => r \in Signalled /\ signal
        /\ outcome[r] = "connection" => ~Cancelled(r)

\* Once its caller has aborted, or its timer fired, a request that has not
\* gone out never does, however long its headers take.
NothingLeaves == \A r \in Requests : ~left[r] /\ left'[r] =>
    /\ ~timedOut[r]
    /\ r \in Signalled => ~signal
NothingLeavesAfterCancel == [][NothingLeaves]_vars

\* An abort reaches every request under way that holds the signal.
AbortReachesAll ==
    signal => \A r \in Signalled : pc[r] \notin {"idle", "done"} => aborted[r]

\* A request that has settled holds neither timer nor listener, so a process
\* or a long-lived signal is not kept by it, and its flags are final.
SettledLeavesNothing ==
    [][\A r \in Requests : pc[r] = "done" =>
         /\ ~timer[r] /\ ~listener[r]
         /\ timedOut'[r] = timedOut[r] /\ aborted'[r] = aborted[r]]_vars

\* A request with a timeout, or whose caller has aborted, settles whether the
\* core answers or not, as long as the header providers answer: the timer does
\* not bound those.
ProvidersAnswer == \A r \in Requests : []<>(pc[r] # "headers")
RequestsSettle ==
    ProvidersAnswer =>
        /\ \A r \in Timed : pc[r] = "headers" ~> pc[r] = "done"
        /\ \A r \in Requests : aborted[r] ~> pc[r] = "done"

=============================================================================
