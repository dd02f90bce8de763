----------------------------- MODULE GovernedChain -----------------------------
(***************************************************************************)
(* The chains of governed calls: the scenarios (registration-lifecycle.ts, *)
(* registered-agent-operations.ts, universe.ts, connection.ts, handoffs.ts,*)
(* commercial-action.ts), the coordinator that strings four of them        *)
(* together (coordinator.ts), and the stages of the business universe      *)
(* (business-universe/).  A chain awaits one call after the other; a plan  *)
(* names every object beforehand, and Core may give the object it creates  *)
(* another id and say so in its reply.  An id is `Planned`, the creating   *)
(* call's own (the id Core chose), or Empty (the code's '').  One caller   *)
(* makes MaxRuns runs, each after the other, and may resume the universe   *)
(* from the artifact an earlier run returned.                              *)
(***************************************************************************)
EXTENDS Naturals, Sequences, SequencesExt

CONSTANTS MaxRuns, Planned, Empty, None

ASSUME MaxRunsAssumption == MaxRuns \in Nat \ {0}

VARIABLES runs,      \* how many runs were started
          outcome,   \* of the last run: idle, running, returned or threw
          segments,  \* the flows it still has to run, the first one underway
          todo,      \* the calls of that flow still to make
          ids,       \* the ids its next calls will name
          named,     \* the ids Core's replies named in this flow
          acted,     \* the ids this flow's calls last named
          bundle,    \* its evidence so far: the calls that were answered
          results,   \* the evidence of the flows that ended
          boundary,  \* the approval the coordinator hands over
          performed, \* what Core did for this run
          read,      \* what the last reads of the claimant's state said
          current    \* the state the last universe run returned

chain == <<outcome, segments, todo, ids, named, acted, bundle, results, boundary,
           performed, read>>
vars  == <<runs, current, chain>>

Slots == {"agent", "registration", "listing", "trigger", "match", "approval",
          "request", "opportunity", "package"}

\* `None' is no id and no object: an object no reply named has it for its id.
ASSUME NoneAssumption == None \notin Slots \cup {Planned, Empty}

Step(call, on, makes) == [call |-> call, on |-> on, makes |-> makes]
Read(call)            == Step(call, {}, None)

-----------------------------------------------------------------------------
(* The calls of each flow, with the objects a call names and the one whose *)
(* id its reply may name.                                                  *)

AgentOperations ==
    <<Step("postHeartbeat", {"registration"}, None), Step("uploadSync", {"registration"}, None),
      Step("downloadSync", {"registration"}, None), Step("submitEvidence", {"registration"}, None),
      Step("submitProposal", {"registration"}, None)>>

RegistrationLifecycle ==
    <<Step("createProvisionalAgent", {"agent"}, "agent"), Step("queryProvisionalAgent", {"agent"}, None),
      Step("claimProvisionalAgent", {"agent"}, "registration")>> \o AgentOperations

IndustryUniverse ==
    <<Step("createListing", {}, "listing"), Step("activateListing", {"listing"}, "trigger"),
      Step("generateMatchCandidates", {"listing", "trigger"}, "match")>>

ConnectionApproval ==
    <<Step("createConnectionRequest", {"match"}, "approval"),
      Step("approveConnectionRequest", {"approval"}, None)>>

OpportunityPackage == <<Step("exportOpportunityPackage", {"opportunity"}, "package")>>

CommercialAction ==
    <<Step("createCommercialAction", {}, "request"),
      Step("policyCheckCommercialAction", {"request"}, None),
      Step("requestCommercialActionApproval", {"request", "approval"}, "approval"),
      Step("executeCommercialAction", {"request", "approval"}, None)>>

CommercialReview ==
    <<Step("getCommercialActionStatus", {"request"}, None),
      Step("getCommercialActionReceipt", {"request"}, None),
      Step("getCommercialActionAudit", {"request"}, None)>>

HandoffReads == <<Read("getAccountMe"), Step("getMaterializationStatus", {"listing"}, None)>>

HandoffPreparation ==
    <<Step("createExecutionListing", {"listing"}, "listing"),
      Step("activateExecutionListing", {"listing"}, None)>> \o HandoffReads

OperatorMatching ==
    <<Step("createOperatorListing", {"listing"}, "listing"), Step("activateOperatorListing", {"listing"}, None),
      Step("generateOperatorMatchCandidates", {}, None), Read("listOperatorMatches")>>

OperatorApproval == <<Step("approveOperatorConnection", {"approval"}, None)>>

OperatorConnection == <<Step("createOperatorConnection", {"match"}, "approval")>> \o OperatorApproval

OperatorPackage == <<Step("exportOperatorOpportunityPackage", {"opportunity"}, None)>>

OperatorReview ==
    <<Step("getOperatorCommercialActionStatus", {"request"}, None),
      Step("getOperatorCommercialActionReceipt", {"request"}, None),
      Step("getOperatorCommercialActionAudit", {"request"}, None)>>

OperatorCommercialAction ==
    <<Step("createCommercialAction", {}, "request"),
      Step("policyCheckCommercialAction", {"request"}, None),
      Step("requestCommercialActionApproval", {"request"}, "approval"),
      Step("executeCommercialAction", {"request", "approval"}, None)>> \o OperatorReview

Readiness == <<Read("getAccountAgent"), Read("getClosureStatus")>>

Flow ==
    [registration |-> RegistrationLifecycle, operations |-> AgentOperations,
     industry |-> IndustryUniverse, connection |-> ConnectionApproval,
     package |-> OpportunityPackage, commercial |-> CommercialAction,
     review |-> CommercialReview,
     invitation |-> <<Read("acceptInvitation"), Read("getAccountMe")>>,
     precondition |-> <<Read("getAccountMe")>>,
     repair |-> Readiness, taskEntry |-> <<Read("createTaskDispatch")>>,
     preparation |-> HandoffPreparation, matching |-> OperatorMatching,
     operatorConnection |-> OperatorConnection, operatorApproval |-> OperatorApproval,
     operatorPackage |-> OperatorPackage, operatorCommercial |-> OperatorCommercialAction,
     inspectClosure |-> OperatorReview, inspectOperator |-> <<Read("listOperatorMatches")>>,
     inspectHandoff |-> HandoffReads, inspectReadiness |-> Readiness,
     inspectPrecondition |-> <<Read("getAccountMe")>>]

\* A bug to catch: the approval is given under the id of the plan.
AdoptedInListingOnly(flow) ==
    CASE flow = "industry" -> {"listing", "trigger", "match"}
      [] flow \in {"commercial", "operatorCommercial"} -> {"request"}
      [] OTHER -> {}

\* The objects whose id a flow takes from the reply that names it.
Adopted(flow) ==
    CASE flow = "industry" -> {"listing", "trigger", "match"}
      [] flow \in {"connection", "operatorConnection"} -> {"approval"}
      [] flow = "package" -> {"package"}
      [] flow = "commercial" -> {"request"}
      [] flow = "operatorCommercial" -> {"request", "approval"}
      [] OTHER -> {}

\* The objects a flow's evidence records; a stage of the universe records none.
Recorded(flow) ==
    CASE flow \in {"registration", "operations"} -> {"registration"}
      [] flow = "industry" -> {"listing"}
      [] flow = "connection" -> {"match", "approval"}
      [] flow = "package" -> {"opportunity"}
      [] flow = "commercial" -> {"request", "approval"}
      [] OTHER -> {}

\* ... and the ones it records only when a reply named them.
RecordedIfNamed(flow) ==
    CASE flow = "industry" -> {"match"} [] flow = "package" -> {"package"} [] OTHER -> {}

Records(flow, chosen, shown) ==
    [s \in Slots |-> IF s \in Recorded(flow) \/ (s \in RecordedIfNamed(flow) /\ shown[s] # None)
                     THEN chosen[s] ELSE None]

\* The request an operator closes has no planned id.
PlannedIds(flow) ==
    [s \in Slots |-> IF flow = "operatorCommercial" /\ s = "request" THEN Empty ELSE Planned]

\* A flow starts from its plan; the commercial review from the evidence.
FirstIds(flow, evidence) ==
    IF flow = "review" THEN [PlannedIds(flow) EXCEPT !["request"] = evidence.ids["request"]]
    ELSE PlannedIds(flow)

NoIds       == [s \in Slots |-> None]
EmptyBundle == [calls |-> <<>>, ids |-> NoIds]

-----------------------------------------------------------------------------
(* The claimant's state, as a read gives it, and the stage made of it.     *)

NextSteps  == {"self_service", "external_binding", "authority_review", "none"}
Unread     == [canonical |-> FALSE, allowed |-> FALSE, next |-> "none", route |-> FALSE]

Replies(call) ==
    CASE call = "getAccountMe" -> {[read EXCEPT !.canonical = c] : c \in BOOLEAN}
      [] call = "getClosureStatus" ->
            [canonical : {read.canonical}, allowed : BOOLEAN, next : NextSteps, route : {read.route}]
      [] call = "getMaterializationStatus" -> {[read EXCEPT !.route = c] : c \in BOOLEAN}
      [] OTHER -> {read}

RepairCall ==
    [self_service |-> <<Read("patchAgentSelfService")>>,
     external_binding |-> <<Read("createExternalBinding")>>,
     authority_review |-> <<Read("createAuthorityRequest")>>, none |-> <<>>]

\* What a flow still has to do after a call, once its reply is `seen`.
Remaining(flow, call, seen) ==
    CASE flow \in {"invitation", "precondition"} /\ call = "getAccountMe"
            /\ ~ seen.canonical /\ "selectOrg" \notin ToSet(bundle.calls) ->
                <<Read("selectOrg"), Read("getAccountMe")>>
      [] flow = "repair" /\ call = "getClosureStatus" -> RepairCall[seen.next]
      [] OTHER -> Tail(todo)

Stops == {"non-canonical-fail-close", "bounded-stop", "later-wave-stop"}

Snapshot(role, stage, executability) ==
    [role |-> role, stage |-> stage, executability |-> executability]

PreconditionSnapshot ==
    Snapshot("claimant", "entry", IF read.canonical THEN "canonical" ELSE "bounded-stop")

ReadinessSnapshot ==
    IF read.allowed THEN Snapshot("claimant", "task-entry", "canonical")
    ELSE Snapshot("claimant", "readiness",
                  IF read.next = "self_service" THEN "canonical" ELSE "bounded-stop")

HandoffSnapshot ==
    Snapshot("claimant", "handoff",
             IF read.route /\ read.canonical THEN "executable-handoff" ELSE "metadata-only-handoff")

NextKind(snapshot) ==
    IF snapshot.executability \in Stops THEN "stop"
    ELSE IF snapshot.executability = "executable-handoff" THEN "handoff" ELSE "continue"

State(snapshot) == [snapshot |-> snapshot, kind |-> NextKind(snapshot)]

CurrentAfter(flow) ==
    CASE flow \in {"preparation", "inspectHandoff"} -> State(HandoffSnapshot)
      [] flow \in {"matching", "operatorConnection", "operatorApproval"} ->
            State(Snapshot("operator", "progression", "canonical"))
      [] flow \in {"operatorPackage", "operatorCommercial", "inspectClosure"} ->
            State(Snapshot("operator", "closure", "canonical"))
      [] flow = "inspectOperator" -> State(Snapshot("operator", "handoff", "canonical"))
      [] flow = "inspectReadiness" -> State(ReadinessSnapshot)
      [] flow = "inspectPrecondition" -> State(PreconditionSnapshot)
      [] OTHER -> current

IsStopArtifact(artifact) ==
    artifact.kind = "stop" \/ artifact.snapshot.executability \in Stops

-----------------------------------------------------------------------------
Init ==
    /\ runs = 0 /\ outcome = "idle" /\ segments = <<>> /\ todo = <<>>
    /\ ids = PlannedIds("industry") /\ named = NoIds /\ acted = NoIds
    /\ bundle = EmptyBundle /\ results = <<>> /\ boundary = None
    /\ performed = <<>> /\ read = Unread /\ current = None

Enter(flow, evidence) ==
    /\ todo' = Flow[flow] /\ ids' = FirstIds(flow, evidence)
    /\ named' = NoIds /\ acted' = NoIds /\ bundle' = EmptyBundle

Reset ==
    /\ runs < MaxRuns /\ outcome # "running" /\ runs' = runs + 1
    /\ results' = <<>> /\ boundary' = None /\ performed' = <<>> /\ read' = Unread
    /\ UNCHANGED current

Start(flows) ==
    /\ Reset
    /\ outcome' = "running" /\ segments' = flows /\ Enter(Head(flows), EmptyBundle)

RunScenario ==
    \E flow \in {"registration", "operations", "industry", "connection", "package"} :
        Start(<<flow>>)

RunCommercialAction == \E reviewed \in {<<>>, <<"review">>} : Start(<<"commercial">> \o reviewed)

RunCoordinator ==
    \E continuation \in {<<>>, <<"commercial">>} :
        Start(<<"industry", "connection", "package">> \o continuation)

\* The stages of the claimant an input may ask for, each of them optional, ...
ClaimantStages == {<<>>, <<"precondition">>, <<"invitation", "repair">>, <<"repair", "taskEntry">>}

\* ... the continuations, of which the first one named is the last of the run,
Continuations == {"preparation", "matching", "operatorConnection", "operatorApproval",
                  "operatorPackage", "operatorCommercial"}

\* ... and what it looks at when none is named.
Inspections == {"inspectClosure", "inspectOperator", "inspectHandoff", "inspectReadiness",
                "inspectPrecondition"}

RunUniverse ==
    \E stages \in ClaimantStages, last \in Continuations \cup Inspections :
        Start(stages \o <<last>>)

\* The run returns the artifact it was given.
ReturnArtifact ==
    /\ Reset
    /\ outcome' = "returned" /\ segments' = <<>> /\ todo' = <<>> /\ bundle' = EmptyBundle
    /\ UNCHANGED <<ids, named, acted>>

\* A run resumed from a stop makes no call whatever its input asks for; one
\* resumed from anything else does not look where things stand.
ResumeUniverse ==
    /\ current # None
    /\ \/ IsStopArtifact(current) /\ ReturnArtifact
       \/ /\ ~ IsStopArtifact(current)
          /\ \E stages \in ClaimantStages, last \in {<<>>} \cup {<<c>> : c \in Continuations} :
                IF stages \o last = <<>> THEN ReturnArtifact ELSE Start(stages \o last)

\* Core performs the call and its reply arrives.
Answered ==
    /\ outcome = "running" /\ todo # <<>>
    /\ LET step == Head(todo)
           flow == Head(segments)
       IN  /\ performed' = Append(performed, step.call)
           /\ acted' = [s \in Slots |-> IF s \in step.on THEN ids[s] ELSE acted[s]]
           /\ \E id \in IF step.makes = None THEN {None} ELSE {None, Planned, step.call} :
                 /\ named' = [s \in Slots |-> IF s = step.makes THEN id ELSE named[s]]
                 /\ ids' = [s \in Slots |-> IF s = step.makes /\ s \in Adopted(flow) /\ id # None
                                            THEN id ELSE ids[s]]
           /\ bundle' = [calls |-> Append(bundle.calls, step.call),
                         ids |-> Records(flow, ids', named')]
           /\ \E seen \in Replies(step.call) :
                 /\ read' = seen
                 /\ todo' = Remaining(flow, step.call, seen)
    /\ UNCHANGED <<runs, outcome, segments, results, boundary, current>>

\* A bug to catch: a call that failed does not end the chain.
ThrowAndGoOn ==
    /\ todo' = Tail(todo)
    /\ bundle' = [bundle EXCEPT !.calls = Append(@, Head(todo).call)]
    /\ UNCHANGED <<outcome, segments, results, boundary>>

\* The await rejects: nothing is undone, and the evidence is lost with the run.
Throw ==
    /\ outcome' = "threw" /\ segments' = <<>> /\ todo' = <<>>
    /\ bundle' = EmptyBundle /\ results' = <<>> /\ boundary' = None

\* Core refuses, the request never reaches it, or the client throws before it
\* is sent (a repair without the external binding it needs).
Refused ==
    /\ outcome = "running" /\ todo # <<>> /\ Throw
    /\ UNCHANGED <<runs, ids, named, acted, performed, read, current>>

\* Core performs the call and the reply is lost.
Lost ==
    /\ outcome = "running" /\ todo # <<>> /\ Throw
    /\ performed' = Append(performed, Head(todo).call)
    /\ UNCHANGED <<runs, ids, named, acted, read, current>>

\* A flow ends: its evidence is kept, and the coordinator's boundary takes the
\* approval the connection recorded.
FlowEnds ==
    /\ outcome = "running" /\ todo = <<>>
    /\ LET flow == Head(segments)
           rest == Tail(segments)
       IN  /\ results' = Append(results, [flow |-> flow, calls |-> bundle.calls,
                                          ids |-> bundle.ids, acted |-> acted])
           /\ boundary' = IF flow = "connection" THEN bundle.ids["approval"] ELSE boundary
           /\ current' = CurrentAfter(flow)
           /\ segments' = rest
           /\ \/ /\ rest = <<>> /\ outcome' = "returned" /\ bundle' = EmptyBundle
                 /\ UNCHANGED <<todo, ids, named, acted>>
              \/ /\ rest # <<>> /\ Enter(Head(rest), bundle)
                 /\ UNCHANGED outcome
    /\ UNCHANGED <<runs, performed, read>>

Next ==
    \/ RunScenario \/ RunCommercialAction \/ RunCoordinator \/ RunUniverse \/ ResumeUniverse
    \/ Answered \/ Refused \/ Lost \/ FlowEnds

Spec == Init /\ [][Next]_vars

-----------------------------------------------------------------------------
(* Properties.                                                             *)

\* The objects a flow names by its plan to the end, although the reply of one of
\* its calls may have named another: the agent and the registration of a
\* registration, the approval of a commercial action (commercial-action.ts reads
\* the request off the first reply and nothing off the third), the listing that
\* is prepared for the handoff or offered for matching.
FromThePlan(flow) ==
    CASE flow = "registration" -> {"agent", "registration"}
      [] flow = "commercial" -> {"approval"}
      [] flow \in {"preparation", "matching"} -> {"listing"}
      [] OTHER -> {}

\* Within a flow, a chain works on what it made: once a reply named an object,
\* the calls name that one and not the one of the plan, of every object but those
\* of FromThePlan; and the review reads the request that was executed
\* (universe.ts, connection.ts, commercial-action.ts, business-universe/operator.ts).
StepsFollowTheReply ==
    /\ segments # <<>> =>
          \A s \in Slots \ FromThePlan(Head(segments)) :
              named[s] # None /\ acted[s] # None => acted[s] = named[s]
    /\ \A i \in 2..Len(results) :
          results[i].flow = "review" => results[i].acted["request"] = results[i - 1].acted["request"]

\* From one flow to the next: the coordinator's connection is requested for the
\* match the universe returned, and its commercial action is approved under the
\* approval the connection returned ("continue downstream with the returned match
\* and approval ids", universe.ts:183 and connection.ts:135).  The code names the
\* ones of the plan (coordinator.ts:172 and :206).
ContinuesOnReturnedIds ==
    \A i, k \in DOMAIN results : i < k =>
        /\ results[i].flow = "industry" /\ results[k].flow = "connection"
           /\ results[i].ids["match"] # None
             => results[k].acted["match"] = results[i].ids["match"]
        /\ results[i].flow = "connection" /\ results[k].flow = "commercial"
             => results[k].acted["approval"] = results[i].acted["approval"]

Reported == FlattenSeq([i \in DOMAIN results |-> results[i].calls]) \o bundle.calls

\* Evidence is of this run: the calls a run reports are, in order, the ones
\* Core performed for it, none missing and none that failed; a recorded object
\* is the one the calls worked on; the coordinator's boundary names the approval
\* that was given; and what a failed run had Core do is reported nowhere
\* (verification.ts, coordinator.ts, business-universe/orchestrator.ts).
EvidenceIsOfTheRun ==
    /\ outcome \in {"running", "returned"} => Reported = performed
    /\ outcome = "threw" => Reported = <<>>
    /\ \A i \in DOMAIN results : \A s \in Slots :
          results[i].ids[s] # None /\ results[i].acted[s] # None
            => results[i].ids[s] = results[i].acted[s]
    /\ \A i \in DOMAIN results :
          results[i].flow = "connection" => boundary = results[i].acted["approval"]

=============================================================================
