------------------------- MODULE GovernedChain_proofs -------------------------
(***************************************************************************)
(* Within a flow, a chain works on the ids its replies named, and its      *)
(* evidence is of what Core did for the run: for any number of runs,       *)
(* whatever Core names and whichever call fails.                           *)
(***************************************************************************)
EXTENDS GovernedChain, SequenceTheorems, TLAPS

-----------------------------------------------------------------------------
(* FlattenSeq, one sequence at a time.                                     *)

\* The prefixes of a sequence of sequences, each of them flattened.
Partials(f, ss) ==
    f = [i \in 1 .. Len(ss) |-> IF i = 1 THEN ss[i] ELSE f[i - 1] \o ss[i]]

\* There is exactly one such function.
Flattens(ss) == \E f : Partials(f, ss) /\ \A g : Partials(g, ss) => g = f

\* Its last value is what FlattenSeq computes.
LEMMA FlattenIsLastPrefix ==
    ASSUME NEW ss, Len(ss) # 0, Flattens(ss), NEW f, Partials(f, ss)
    PROVE  FlattenSeq(ss) = f[Len(ss)]
<1> DEFINE c == CHOOSE h : Partials(h, ss)
<1>1. FlattenSeq(ss) = c[Len(ss)]
  BY DEF FlattenSeq, Partials
<1>2. Partials(c, ss)
  OBVIOUS
<1> HIDE DEF c
<1>3. c = f
  BY <1>2 DEF Flattens
<1> QED BY <1>1, <1>3

\* One more sequence is flattened by adding its elements.
LEMMA FlattenAppend ==
    ASSUME NEW X, NEW ss \in Seq(Seq(X)), NEW s \in Seq(X), Flattens(ss),
           NEW tt, tt = Append(ss, s)
    PROVE  Flattens(tt) /\ FlattenSeq(tt) = FlattenSeq(ss) \o s
<1> DEFINE n == Len(ss)
<1>1. /\ n \in Nat /\ Len(tt) = n + 1 /\ tt[n + 1] = s
      /\ \A i \in 1 .. n : tt[i] = ss[i]
  OBVIOUS
<1>2. PICK f : Partials(f, ss) /\ \A g : Partials(g, ss) => g = f
  BY DEF Flattens
<1>3. /\ DOMAIN f = 1 .. n
      /\ \A i \in 1 .. n : f[i] = IF i = 1 THEN ss[i] ELSE f[i - 1] \o ss[i]
  BY <1>2 DEF Partials
<1> HIDE DEF n
<1> DEFINE h == [i \in 1 .. n + 1 |-> IF i = n + 1 THEN IF n = 0 THEN s ELSE f[n] \o s
                                      ELSE f[i]]
<1>4. Partials(h, tt)
  <2>1. ASSUME NEW i \in 1 .. n + 1
        PROVE  h[i] = IF i = 1 THEN tt[i] ELSE h[i - 1] \o tt[i]
    <3>1. CASE i = n + 1
      <4>1. CASE n = 0
        BY <1>1, <3>1, <4>1
      <4>2. CASE n # 0
        <5>1. h[i - 1] = f[n] /\ i # 1 /\ h[i] = f[n] \o s /\ tt[i] = s
          BY <1>1, <3>1, <4>2
        <5> QED BY <5>1
      <4> QED BY <4>1, <4>2
    <3>2. CASE i # n + 1
      <4>1. i \in 1 .. n /\ h[i] = f[i] /\ tt[i] = ss[i] /\ (i # 1 => h[i - 1] = f[i - 1])
        BY <1>1, <3>2
      <4> QED BY <1>3, <4>1
    <3> QED BY <3>1, <3>2
  <2>2. h = [i \in 1 .. n + 1 |-> IF i = 1 THEN tt[i] ELSE h[i - 1] \o tt[i]]
    BY <2>1
  <2> QED BY <1>1, <2>2 DEF Partials
<1>5. ASSUME NEW g, Partials(g, tt) PROVE g = h
  <2>1. /\ g = [i \in 1 .. n + 1 |-> IF i = 1 THEN tt[i] ELSE g[i - 1] \o tt[i]]
    BY <1>1, <1>5 DEF Partials
  <2>2. \A i \in 1 .. n + 1 : g[i] = IF i = 1 THEN tt[i] ELSE g[i - 1] \o tt[i]
    BY <2>1
  <2> DEFINE k == [i \in 1 .. n |-> g[i]]
  <2>3. Partials(k, ss)
    <3>1. ASSUME NEW i \in 1 .. n
          PROVE  g[i] = IF i = 1 THEN ss[i] ELSE k[i - 1] \o ss[i]
      <4>1. i \in 1 .. n + 1 /\ tt[i] = ss[i] /\ (i # 1 => k[i - 1] = g[i - 1])
        BY <1>1
      <4> QED BY <2>2, <4>1
    <3>2. k = [i \in 1 .. n |-> IF i = 1 THEN ss[i] ELSE k[i - 1] \o ss[i]]
      BY <3>1
    <3> QED BY <3>2 DEF Partials, n
  <2>4. k = f
    BY <1>2, <2>3
  <2>5. ASSUME NEW i \in 1 .. n + 1 PROVE g[i] = h[i]
    <3>1. CASE i # n + 1
      <4>1. i \in 1 .. n /\ k[i] = g[i] /\ h[i] = f[i]
        BY <1>1, <3>1
      <4> QED BY <2>4, <4>1
    <3>2. CASE i = n + 1 /\ n = 0
      BY <1>1, <2>2, <3>2
    <3>3. CASE i = n + 1 /\ n # 0
      <4>1. /\ g[i] = g[n] \o s /\ k[n] = g[n] /\ h[i] = f[n] \o s
        <5>1. i # 1 /\ i - 1 = n /\ n \in 1 .. n /\ tt[i] = s
          BY <1>1, <3>3
        <5>2. g[i] = g[i - 1] \o tt[i]
          BY <2>2, <5>1
        <5> QED BY <3>3, <5>1, <5>2
      <4> QED BY <2>4, <4>1
    <3> QED BY <3>1, <3>2, <3>3
  <2>6. g = [i \in 1 .. n + 1 |-> g[i]]
    <3>1. DOMAIN g = 1 .. n + 1 /\ g = [i \in DOMAIN g |-> g[i]]
      BY <2>1
    <3> QED BY <3>1
  <2> QED BY <2>5, <2>6
<1> HIDE DEF h
<1>6. Flattens(tt)
  BY <1>4, <1>5 DEF Flattens
<1>7. FlattenSeq(tt) = h[n + 1]
  <2>1. Len(tt) = n + 1 /\ Len(tt) # 0
    BY <1>1
  <2> QED BY <1>4, <1>6, <2>1, FlattenIsLastPrefix
<1>8. CASE n = 0
  <2>1. h[n + 1] = s
    BY <1>8 DEF h
  <2>2. ss = <<>> /\ FlattenSeq(ss) = ss
    BY <1>8 DEF n, FlattenSeq
  <2> QED BY <1>6, <1>7, <2>1, <2>2
<1>9. CASE n # 0
  <2>1. FlattenSeq(ss) = f[n]
    BY <1>2, <1>9, FlattenIsLastPrefix DEF n
  <2>2. h[n + 1] = f[n] \o s
    BY <1>1, <1>9 DEF h
  <2> QED BY <1>6, <1>7, <2>1, <2>2
<1> QED BY <1>8, <1>9

\* No sequences at all are flattened to none.
LEMMA FlattenNone == Flattens(<<>>) /\ FlattenSeq(<<>>) = <<>>
<1>1. FlattenSeq(<<>>) = <<>>
  BY DEF FlattenSeq
<1>2. ASSUME NEW f PROVE Partials(f, <<>>) <=> f = <<>>
  <2> DEFINE e == [i \in 1 .. Len(<<>>) |-> IF i = 1 THEN <<>>[i] ELSE f[i - 1] \o <<>>[i]]
  <2>1. e \in [1 .. 0 -> {}]
    OBVIOUS
  <2>2. e = <<>>
    <3>1. e \in Seq({}) /\ Len(e) = 0
      BY <2>1
    <3> QED BY <3>1
  <2> QED BY <2>2 DEF Partials
<1> QED BY <1>1, <1>2 DEF Flattens

-----------------------------------------------------------------------------
(* The invariant.                                                          *)

\* The flows a run may be made of.
FlowNames == DOMAIN Flow

\* The calls the flows, the repairs and the precondition are made of.
Calls ==
    {"postHeartbeat", "uploadSync", "downloadSync", "submitEvidence", "submitProposal",
     "createProvisionalAgent", "queryProvisionalAgent", "claimProvisionalAgent",
     "createListing", "activateListing", "generateMatchCandidates",
     "createConnectionRequest", "approveConnectionRequest", "exportOpportunityPackage",
     "createCommercialAction", "policyCheckCommercialAction",
     "requestCommercialActionApproval", "executeCommercialAction",
     "getCommercialActionStatus", "getCommercialActionReceipt", "getCommercialActionAudit",
     "getAccountMe", "getMaterializationStatus", "createExecutionListing",
     "activateExecutionListing", "createOperatorListing", "activateOperatorListing",
     "generateOperatorMatchCandidates", "listOperatorMatches", "approveOperatorConnection",
     "createOperatorConnection", "exportOperatorOpportunityPackage",
     "getOperatorCommercialActionStatus", "getOperatorCommercialActionReceipt",
     "getOperatorCommercialActionAudit", "getAccountAgent", "getClosureStatus",
     "acceptInvitation", "createTaskDispatch", "patchAgentSelfService",
     "createExternalBinding", "createAuthorityRequest", "selectOrg"}

\* What the state is made of.
Steps     == [call : Calls, on : SUBSET Slots, makes : Slots \cup {None}]
Names     == Calls \cup {Planned, Empty, None}
Namings   == [Slots -> Names]
Bundles   == [calls : Seq(Calls), ids : Namings]
Results   == [flow : FlowNames, calls : Seq(Calls), ids : Namings, acted : Namings]
Reads     == [canonical : BOOLEAN, allowed : BOOLEAN, next : NextSteps, route : BOOLEAN]

\* The type invariant; a run is underway as long as it has a flow to run.
ChainType ==
    /\ outcome \in {"idle", "running", "returned", "threw"}
    /\ segments \in Seq(FlowNames) /\ (outcome = "running" <=> segments # <<>>)
    /\ todo \in Seq(Steps)
    /\ ids \in Namings /\ named \in Namings /\ acted \in Namings
    /\ bundle \in Bundles /\ results \in Seq(Results) /\ performed \in Seq(Calls)
    /\ read \in Reads

\* The objects the replies to these calls may name.
Makes(steps, S) == \A i \in DOMAIN steps : steps[i].makes \in S
MayName(flow)   == Adopted(flow) \cup FromThePlan(flow) \cup {None}

\* An object whose id a flow takes from a reply is worked on only after it.
Fresh(flow) ==
    \A i \in DOMAIN todo : todo[i].makes \in Adopted(flow) =>
        /\ acted[todo[i].makes] = None
        /\ \A j \in 1 .. i : todo[i].makes \notin todo[j].on

\* The objects a flow hands over to what follows it, each worked on by then.
Carried(flow) ==
    CASE flow \in {"commercial", "review"} -> {"request"}
      [] flow = "connection" -> {"approval"}
      [] OTHER -> {}
WorkedOn(flow) ==
    \A s \in Carried(flow) : acted[s] # None \/ \E i \in DOMAIN todo : s \in todo[i].on

\* The ids the last calls named, the ones the replies named and the ones the
\* evidence records are the ids the next calls will name.
OneIdEach(flow) ==
    /\ \A s \in Slots : ids[s] # None
    /\ \A s \in Slots : acted[s] # None => acted[s] = ids[s]
    /\ \A s \in Slots \ FromThePlan(flow) : named[s] # None => named[s] = ids[s]
    /\ \A s \in Slots : bundle.ids[s] # None => bundle.ids[s] = ids[s]
    /\ \A s \in Recorded(flow) : bundle.ids[s] = ids[s] \/ acted = NoIds

FlowInv == segments # <<>> =>
    /\ Makes(todo, MayName(Head(segments)))
    /\ Fresh(Head(segments)) /\ WorkedOn(Head(segments)) /\ OneIdEach(Head(segments))

\* A review follows the commercial action it reviews; a run approves one
\* connection at most.
PlanInv ==
    /\ \A i \in 2 .. Len(segments) : segments[i] = "review" => segments[i - 1] = "commercial"
    /\ segments # <<>> /\ Head(segments) = "review" =>
         results # <<>> /\ ids["request"] = results[Len(results)].acted["request"]
    /\ \A i, k \in DOMAIN segments :
         segments[i] = "connection" /\ segments[k] = "connection" => i = k
    /\ \A i \in DOMAIN results, k \in DOMAIN segments :
         results[i].flow = "connection" => segments[k] # "connection"

ResultsInv ==
    /\ \A i \in DOMAIN results : \A s \in Slots :
         results[i].ids[s] # None /\ results[i].acted[s] # None
           => results[i].ids[s] = results[i].acted[s]
    /\ \A i \in DOMAIN results :
         results[i].flow = "connection" => boundary = results[i].acted["approval"]
    /\ \A i \in 2 .. Len(results) :
         results[i].flow = "review" => results[i].acted["request"] = results[i - 1].acted["request"]

\* What a run reports, flow by flow.
Reports == [i \in DOMAIN results |-> results[i].calls]

ReportInv ==
    /\ Flattens(Reports) /\ FlattenSeq(Reports) \in Seq(Calls)
    /\ outcome \in {"running", "returned"} => Reported = performed
    /\ outcome = "threw" => results = <<>> /\ bundle.calls = <<>>

\* The inductive invariant.
IInv == ChainType /\ FlowInv /\ PlanInv /\ ResultsInv /\ ReportInv

-----------------------------------------------------------------------------
(* What the tables say.                                                    *)

\* A step is one of the steps.
LEMMA StepType ==
    ASSUME NEW call \in Calls, NEW on \in SUBSET Slots, NEW makes \in Slots \cup {None}
    PROVE  Step(call, on, makes) \in Steps
BY DEF Step, Steps

\* A call that names no object and makes none.
LEMMA ReadType == ASSUME NEW call \in Calls PROVE Read(call) \in Steps
BY StepType DEF Read

\* The flows and their names.
LEMMA Flows ==
    /\ FlowNames = {"registration", "operations", "industry", "connection", "package",
         "commercial", "review", "invitation", "precondition", "repair", "taskEntry",
         "preparation", "matching", "operatorConnection", "operatorApproval",
         "operatorPackage", "operatorCommercial", "inspectClosure", "inspectOperator",
         "inspectHandoff", "inspectReadiness", "inspectPrecondition"}
    /\ Flow["registration"] = RegistrationLifecycle /\ Flow["operations"] = AgentOperations
    /\ Flow["industry"] = IndustryUniverse /\ Flow["connection"] = ConnectionApproval
    /\ Flow["package"] = OpportunityPackage /\ Flow["commercial"] = CommercialAction
    /\ Flow["review"] = CommercialReview /\ Flow["preparation"] = HandoffPreparation
    /\ Flow["matching"] = OperatorMatching /\ Flow["operatorConnection"] = OperatorConnection
    /\ Flow["operatorApproval"] = OperatorApproval /\ Flow["operatorPackage"] = OperatorPackage
    /\ Flow["operatorCommercial"] = OperatorCommercialAction
    /\ Flow["inspectClosure"] = OperatorReview /\ Flow["inspectHandoff"] = HandoffReads
    /\ Flow["repair"] = Readiness /\ Flow["inspectReadiness"] = Readiness
    /\ Flow["invitation"] = <<Read("acceptInvitation"), Read("getAccountMe")>>
    /\ Flow["precondition"] = <<Read("getAccountMe")>>
    /\ Flow["inspectPrecondition"] = <<Read("getAccountMe")>>
    /\ Flow["taskEntry"] = <<Read("createTaskDispatch")>>
    /\ Flow["inspectOperator"] = <<Read("listOperatorMatches")>>
BY DEF FlowNames, Flow

\* Short sequences of steps.
LEMMA Tuples ==
    ASSUME NEW a \in Steps, NEW b \in Steps, NEW c \in Steps, NEW d \in Steps, NEW e \in Steps
    PROVE  /\ <<a>> \in Seq(Steps) /\ <<a, b>> \in Seq(Steps) /\ <<a, b, c>> \in Seq(Steps)
           /\ <<a, b, c, d>> \in Seq(Steps) /\ <<a, b, c, d, e>> \in Seq(Steps)
OBVIOUS

\* Two steps, one after the other.
LEMMA Joins ==
    ASSUME NEW a \in Steps, NEW b \in Steps
    PROVE  <<a>> \o <<b>> = <<a, b>>
<1>1. <<a>> \in Seq(Steps) /\ <<b>> \in Seq(Steps) /\ <<a, b>> \in Seq(Steps)
  BY Tuples
<1> DEFINE s == <<a>> \o <<b>>
<1>2. s \in Seq(Steps) /\ Len(s) = 2 /\ s[1] = a /\ s[2] = b
  BY <1>1, ConcatProperties
<1> HIDE DEF s
<1>3. s = <<a, b>>
  BY <1>1, <1>2, SeqEqual
<1> QED BY <1>3 DEF s

\* Every flow is a sequence of steps.
LEMMA FlowType == ASSUME NEW flow \in FlowNames PROVE Flow[flow] \in Seq(Steps)
<1>1. AgentOperations \in Seq(Steps)
  <2>1. /\ Step("postHeartbeat", {"registration"}, None) \in Steps
        /\ Step("uploadSync", {"registration"}, None) \in Steps
        /\ Step("downloadSync", {"registration"}, None) \in Steps
        /\ Step("submitEvidence", {"registration"}, None) \in Steps
        /\ Step("submitProposal", {"registration"}, None) \in Steps
    BY StepType, ReadType DEF Slots, Calls
  <2> QED BY <2>1, Tuples DEF AgentOperations
<1>2. RegistrationLifecycle \in Seq(Steps)
  <2>1. /\ Step("createProvisionalAgent", {"agent"}, "agent") \in Steps
        /\ Step("queryProvisionalAgent", {"agent"}, None) \in Steps
        /\ Step("claimProvisionalAgent", {"agent"}, "registration") \in Steps
    BY StepType, ReadType DEF Slots, Calls
  <2>2. <<Step("createProvisionalAgent", {"agent"}, "agent"),
          Step("queryProvisionalAgent", {"agent"}, None),
          Step("claimProvisionalAgent", {"agent"}, "registration")>> \in Seq(Steps)
    BY <2>1, Tuples
  <2> QED BY <1>1, <2>2, ConcatProperties DEF RegistrationLifecycle
<1>3. IndustryUniverse \in Seq(Steps)
  <2>1. /\ Step("createListing", {}, "listing") \in Steps
        /\ Step("activateListing", {"listing"}, "trigger") \in Steps
        /\ Step("generateMatchCandidates", {"listing", "trigger"}, "match") \in Steps
    BY StepType, ReadType DEF Slots, Calls
  <2> QED BY <2>1, Tuples DEF IndustryUniverse
<1>4. ConnectionApproval \in Seq(Steps)
  <2>1. /\ Step("createConnectionRequest", {"match"}, "approval") \in Steps
        /\ Step("approveConnectionRequest", {"approval"}, None) \in Steps
    BY StepType, ReadType DEF Slots, Calls
  <2> QED BY <2>1, Tuples DEF ConnectionApproval
<1>5. OpportunityPackage \in Seq(Steps)
  <2>1. /\ Step("exportOpportunityPackage", {"opportunity"}, "package") \in Steps
    BY StepType, ReadType DEF Slots, Calls
  <2> QED BY <2>1, Tuples DEF OpportunityPackage
<1>6. CommercialAction \in Seq(Steps)
  <2>1. /\ Step("createCommercialAction", {}, "request") \in Steps
        /\ Step("policyCheckCommercialAction", {"request"}, None) \in Steps
        /\ Step("requestCommercialActionApproval", {"request", "approval"}, "approval") \in Steps
        /\ Step("executeCommercialAction", {"request", "approval"}, None) \in Steps
    BY StepType, ReadType DEF Slots, Calls
  <2> QED BY <2>1, Tuples DEF CommercialAction
<1>7. CommercialReview \in Seq(Steps)
  <2>1. /\ Step("getCommercialActionStatus", {"request"}, None) \in Steps
        /\ Step("getCommercialActionReceipt", {"request"}, None) \in Steps
        /\ Step("getCommercialActionAudit", {"request"}, None) \in Steps
    BY StepType, ReadType DEF Slots, Calls
  <2> QED BY <2>1, Tuples DEF CommercialReview
<1>8. HandoffReads \in Seq(Steps)
  <2>1. /\ Read("getAccountMe") \in Steps
        /\ Step("getMaterializationStatus", {"listing"}, None) \in Steps
    BY StepType, ReadType DEF Slots, Calls
  <2> QED BY <2>1, Tuples DEF HandoffReads
<1>9. HandoffPreparation \in Seq(Steps)
  <2>1. /\ Step("createExecutionListing", {"listing"}, "listing") \in Steps
        /\ Step("activateExecutionListing", {"listing"}, None) \in Steps
    BY StepType, ReadType DEF Slots, Calls
  <2>2. <<Step("createExecutionListing", {"listing"}, "listing"),
          Step("activateExecutionListing", {"listing"}, None)>> \in Seq(Steps)
    BY <2>1, Tuples
  <2> QED BY <1>8, <2>2, ConcatProperties DEF HandoffPreparation
<1>10. OperatorMatching \in Seq(Steps)
  <2>1. /\ Step("createOperatorListing", {"listing"}, "listing") \in Steps
        /\ Step("activateOperatorListing", {"listing"}, None) \in Steps
        /\ Step("generateOperatorMatchCandidates", {}, None) \in Steps
        /\ Read("listOperatorMatches") \in Steps
    BY StepType, ReadType DEF Slots, Calls
  <2> QED BY <2>1, Tuples DEF OperatorMatching
<1>11. OperatorApproval \in Seq(Steps)
  <2>1. /\ Step("approveOperatorConnection", {"approval"}, None) \in Steps
    BY StepType, ReadType DEF Slots, Calls
  <2> QED BY <2>1, Tuples DEF OperatorApproval
<1>12. OperatorConnection \in Seq(Steps)
  <2>1. /\ Step("createOperatorConnection", {"match"}, "approval") \in Steps
    BY StepType, ReadType DEF Slots, Calls
  <2>2. <<Step("createOperatorConnection", {"match"}, "approval")>> \in Seq(Steps)
    BY <2>1, Tuples
  <2> QED BY <1>11, <2>2, ConcatProperties DEF OperatorConnection
<1>13. OperatorPackage \in Seq(Steps)
  <2>1. /\ Step("exportOperatorOpportunityPackage", {"opportunity"}, None) \in Steps
    BY StepType, ReadType DEF Slots, Calls
  <2> QED BY <2>1, Tuples DEF OperatorPackage
<1>14. OperatorReview \in Seq(Steps)
  <2>1. /\ Step("getOperatorCommercialActionStatus", {"request"}, None) \in Steps
        /\ Step("getOperatorCommercialActionReceipt", {"request"}, None) \in Steps
        /\ Step("getOperatorCommercialActionAudit", {"request"}, None) \in Steps
    BY StepType, ReadType DEF Slots, Calls
  <2> QED BY <2>1, Tuples DEF OperatorReview
<1>15. OperatorCommercialAction \in Seq(Steps)
  <2>1. /\ Step("createCommercialAction", {}, "request") \in Steps
        /\ Step("policyCheckCommercialAction", {"request"}, None) \in Steps
        /\ Step("requestCommercialActionApproval", {"request"}, "approval") \in Steps
        /\ Step("executeCommercialAction", {"request", "approval"}, None) \in Steps
    BY StepType, ReadType DEF Slots, Calls
  <2>2. <<Step("createCommercialAction", {}, "request"),
          Step("policyCheckCommercialAction", {"request"}, None),
          Step("requestCommercialActionApproval", {"request"}, "approval"),
          Step("executeCommercialAction", {"request", "approval"}, None)>> \in Seq(Steps)
    BY <2>1, Tuples
  <2> QED BY <1>14, <2>2, ConcatProperties DEF OperatorCommercialAction
<1>16. Readiness \in Seq(Steps)
  <2>1. /\ Read("getAccountAgent") \in Steps
        /\ Read("getClosureStatus") \in Steps
    BY StepType, ReadType DEF Slots, Calls
  <2> QED BY <2>1, Tuples DEF Readiness
<1>17. /\ Read("acceptInvitation") \in Steps
        /\ Read("getAccountMe") \in Steps
        /\ Read("createTaskDispatch") \in Steps
        /\ Read("listOperatorMatches") \in Steps
  BY ReadType DEF Calls
<1>18. /\ <<Read("acceptInvitation"), Read("getAccountMe")>> \in Seq(Steps)
       /\ <<Read("getAccountMe")>> \in Seq(Steps) /\ <<Read("createTaskDispatch")>> \in Seq(Steps)
       /\ <<Read("listOperatorMatches")>> \in Seq(Steps)
  BY <1>17, Tuples
<1> HIDE DEF Steps
<1> QED
  BY <1>1, <1>2, <1>3, <1>4, <1>5, <1>6, <1>7, <1>8, <1>9, <1>10, <1>11, <1>12, <1>13, <1>14,
     <1>15, <1>16, <1>18, Flows

\* The repairs are sequences of reads.
LEMMA RepairType ==
    ASSUME NEW next \in NextSteps
    PROVE  RepairCall[next] \in Seq(Steps)
<1>1. CASE next = "none"
  <2>1. RepairCall[next] = <<>>
    BY <1>1 DEF RepairCall
  <2> QED BY <2>1
<1>2. CASE next # "none"
  <2>1. PICK call \in Calls : RepairCall[next] = <<Read(call)>>
    BY <1>2 DEF RepairCall, NextSteps, Calls
  <2>2. <<Read(call)>> \in Seq(Steps)
    BY ReadType, Tuples
  <2> QED BY <2>1, <2>2
<1> QED BY <1>1, <1>2

\* The objects a flow takes from a reply.
LEMMA AdoptedType ==
    ASSUME NEW flow
    PROVE  /\ Adopted(flow) \subseteq Slots /\ FromThePlan(flow) \subseteq Slots
           /\ Recorded(flow) \subseteq Slots /\ Carried(flow) \subseteq Slots
BY DEF Adopted, FromThePlan, Recorded, Carried, Slots

\* The seven calls that close a request.
LEMMA ClosingCalls ==
    OperatorCommercialAction =
      <<Step("createCommercialAction", {}, "request"),
        Step("policyCheckCommercialAction", {"request"}, None),
        Step("requestCommercialActionApproval", {"request"}, "approval"),
        Step("executeCommercialAction", {"request", "approval"}, None),
        Step("getOperatorCommercialActionStatus", {"request"}, None),
        Step("getOperatorCommercialActionReceipt", {"request"}, None),
        Step("getOperatorCommercialActionAudit", {"request"}, None)>>
<1> DEFINE a == Step("createCommercialAction", {}, "request")
           b == Step("policyCheckCommercialAction", {"request"}, None)
           c == Step("requestCommercialActionApproval", {"request"}, "approval")
           d == Step("executeCommercialAction", {"request", "approval"}, None)
           e == Step("getOperatorCommercialActionStatus", {"request"}, None)
           f == Step("getOperatorCommercialActionReceipt", {"request"}, None)
           g == Step("getOperatorCommercialActionAudit", {"request"}, None)
<1>1. /\ a \in Steps /\ b \in Steps /\ c \in Steps /\ d \in Steps
      /\ e \in Steps /\ f \in Steps /\ g \in Steps
  BY StepType DEF Slots, Calls
<1>2. OperatorCommercialAction = <<a, b, c, d>> \o <<e, f, g>>
  BY DEF OperatorCommercialAction, OperatorReview
<1> HIDE DEF a, b, c, d, e, f, g
<1>3. <<a, b, c, d>> \o <<e, f, g>> = <<a, b, c, d, e, f, g>>
  <2>1. /\ <<a, b, c, d>> \in Seq(Steps) /\ <<e, f, g>> \in Seq(Steps)
        /\ <<a, b, c, d, e, f, g>> \in Seq(Steps)
    BY <1>1
  <2> DEFINE s == <<a, b, c, d>> \o <<e, f, g>>
  <2>2. /\ s \in Seq(Steps) /\ Len(s) = 7 /\ s[1] = a /\ s[2] = b /\ s[3] = c /\ s[4] = d
        /\ s[5] = e /\ s[6] = f /\ s[7] = g
    BY <2>1, ConcatProperties
  <2> HIDE DEF s
  <2>3. s = <<a, b, c, d, e, f, g>>
    BY <2>1, <2>2, SeqEqual
  <2> QED BY <2>3 DEF s
<1>4. OperatorCommercialAction = <<a, b, c, d, e, f, g>>
  BY <1>2, <1>3
<1> QED BY <1>4 DEF a, b, c, d, e, f, g

\* A flow works on such an object only after the call that makes it.
MakesFirst(steps, adopted) ==
    \A i \in DOMAIN steps : steps[i].makes \in adopted =>
        \A j \in 1 .. i : steps[i].makes \notin steps[j].on

LEMMA FlowMakesFirst ==
    ASSUME NEW flow \in FlowNames PROVE MakesFirst(Flow[flow], Adopted(flow))
<1> USE NoneAssumption DEF MakesFirst, Slots, Step
<1>1. CASE flow = "industry"
  <2>1. Adopted(flow) = {"listing", "trigger", "match"} /\ Flow[flow] = IndustryUniverse
    BY <1>1, Flows DEF Adopted
  <2> QED BY <2>1 DEF IndustryUniverse
<1>2. CASE flow = "connection"
  <2>1. Adopted(flow) = {"approval"} /\ Flow[flow] = ConnectionApproval
    BY <1>2, Flows DEF Adopted
  <2> QED BY <2>1 DEF ConnectionApproval
<1>3. CASE flow = "operatorConnection"
  <2>1. Adopted(flow) = {"approval"} /\ Flow[flow] = OperatorConnection
    BY <1>3, Flows DEF Adopted
  <2>2. OperatorConnection = <<Step("createOperatorConnection", {"match"}, "approval"),
                               Step("approveOperatorConnection", {"approval"}, None)>>
    <3>1. /\ Step("createOperatorConnection", {"match"}, "approval") \in Steps
          /\ Step("approveOperatorConnection", {"approval"}, None) \in Steps
      BY StepType DEF Slots, Calls
    <3> QED BY <3>1, Joins DEF OperatorConnection, OperatorApproval
  <2> QED BY <2>1, <2>2
<1>4. CASE flow = "package"
  <2>1. Adopted(flow) = {"package"} /\ Flow[flow] = OpportunityPackage
    BY <1>4, Flows DEF Adopted
  <2> QED BY <2>1 DEF OpportunityPackage
<1>5. CASE flow = "commercial"
  <2>1. Adopted(flow) = {"request"} /\ Flow[flow] = CommercialAction
    BY <1>5, Flows DEF Adopted
  <2> QED BY <2>1 DEF CommercialAction
<1>6. CASE flow = "operatorCommercial"
  <2>1. Adopted(flow) = {"request", "approval"} /\ Flow[flow] = OperatorCommercialAction
    BY <1>6, Flows DEF Adopted
  <2>2. OperatorCommercialAction =
          <<Step("createCommercialAction", {}, "request"),
            Step("policyCheckCommercialAction", {"request"}, None),
            Step("requestCommercialActionApproval", {"request"}, "approval"),
            Step("executeCommercialAction", {"request", "approval"}, None),
            Step("getOperatorCommercialActionStatus", {"request"}, None),
            Step("getOperatorCommercialActionReceipt", {"request"}, None),
            Step("getOperatorCommercialActionAudit", {"request"}, None)>>
    BY ClosingCalls
  <2> QED BY <2>1, <2>2
<1>7. CASE flow \notin {"industry", "connection", "operatorConnection", "package",
                        "commercial", "operatorCommercial"}
  BY <1>7 DEF Adopted
<1> QED BY <1>1, <1>2, <1>3, <1>4, <1>5, <1>6, <1>7

\* One sequence of calls after the other.
LEMMA MakesConcat ==
    ASSUME NEW S, NEW s \in Seq(Steps), NEW t \in Seq(Steps), Makes(s, S), Makes(t, S)
    PROVE  Makes(s \o t, S)
<1>1. /\ Len(s) \in Nat /\ Len(t) \in Nat /\ DOMAIN s = 1 .. Len(s) /\ DOMAIN t = 1 .. Len(t)
      /\ s \o t \in Seq(Steps) /\ Len(s \o t) = Len(s) + Len(t)
      /\ DOMAIN (s \o t) = 1 .. Len(s) + Len(t)
  OBVIOUS
<1>2. ASSUME NEW i \in DOMAIN (s \o t) PROVE (s \o t)[i].makes \in S
  <2>1. CASE i <= Len(s)
    <3>1. (s \o t)[i] = s[i] /\ i \in DOMAIN s
      BY <1>1, <2>1
    <3> QED BY <3>1 DEF Makes
  <2>2. CASE ~ (i <= Len(s))
    <3>1. (s \o t)[i] = t[i - Len(s)] /\ i - Len(s) \in DOMAIN t
      BY <1>1, <2>2
    <3> QED BY <3>1 DEF Makes
  <2> QED BY <2>1, <2>2
<1> QED BY <1>2 DEF Makes

\* The replies of a flow name nothing but what the flow takes from them and what
\* it names by its plan.
LEMMA FlowMakes == ASSUME NEW flow \in FlowNames PROVE Makes(Flow[flow], MayName(flow))
<1>1. CASE flow \in {"operations", "registration"}
  <2>1. Makes(AgentOperations, {None}) /\ Makes(AgentOperations, MayName("registration"))
    BY DEF AgentOperations, Step, Makes, MayName
  <2>2. AgentOperations \in Seq(Steps) /\ MayName(flow) = Adopted(flow) \cup FromThePlan(flow) \cup {None}
    BY FlowType, Flows DEF MayName
  <2>3. CASE flow = "operations"
    BY <2>1, <2>3, Flows DEF Makes, MayName
  <2>4. CASE flow = "registration"
    <3> DEFINE first == <<Step("createProvisionalAgent", {"agent"}, "agent"),
                          Step("queryProvisionalAgent", {"agent"}, None),
                          Step("claimProvisionalAgent", {"agent"}, "registration")>>
    <3>1. MayName(flow) = {"agent", "registration", None}
      BY <2>4 DEF MayName, Adopted, FromThePlan
    <3>2. Makes(first, MayName(flow))
      BY <3>1 DEF Step, Makes
    <3>3. /\ Step("createProvisionalAgent", {"agent"}, "agent") \in Steps
          /\ Step("queryProvisionalAgent", {"agent"}, None) \in Steps
          /\ Step("claimProvisionalAgent", {"agent"}, "registration") \in Steps
      BY StepType DEF Slots, Calls
    <3>4. first \in Seq(Steps)
      BY <3>3, Tuples
    <3>5. Flow[flow] = first \o AgentOperations
      BY <2>4, Flows DEF RegistrationLifecycle
    <3> HIDE DEF first
    <3> QED BY <2>1, <2>2, <2>4, <3>2, <3>4, <3>5, MakesConcat
  <2> QED BY <1>1, <2>3, <2>4
<1>2. CASE flow = "industry"
  <2>1. MayName(flow) = {"listing", "trigger", "match", None} /\ Flow[flow] = IndustryUniverse
    BY <1>2, Flows DEF MayName, Adopted, FromThePlan
  <2> QED BY <2>1 DEF IndustryUniverse, Step, Makes
<1>3. CASE flow \in {"connection", "operatorConnection"}
  <2>1. MayName(flow) = {"approval", None}
    BY <1>3 DEF MayName, Adopted, FromThePlan
  <2>2. Makes(ConnectionApproval, MayName(flow))
    BY <2>1 DEF ConnectionApproval, Step, Makes
  <2>3. OperatorConnection = <<Step("createOperatorConnection", {"match"}, "approval"),
                               Step("approveOperatorConnection", {"approval"}, None)>>
    <3>1. /\ Step("createOperatorConnection", {"match"}, "approval") \in Steps
          /\ Step("approveOperatorConnection", {"approval"}, None) \in Steps
      BY StepType DEF Slots, Calls
    <3> QED BY <3>1, Joins DEF OperatorConnection, OperatorApproval
  <2>4. Makes(OperatorConnection, MayName(flow))
    BY <2>1, <2>3 DEF Step, Makes
  <2> QED BY <1>3, <2>2, <2>4, Flows
<1>4. CASE flow = "package"
  <2>1. MayName(flow) = {"package", None} /\ Flow[flow] = OpportunityPackage
    BY <1>4, Flows DEF MayName, Adopted, FromThePlan
  <2> QED BY <2>1 DEF OpportunityPackage, Step, Makes
<1>5. CASE flow \in {"commercial", "operatorCommercial"}
  <2>1. MayName(flow) = {"request", "approval", None}
    BY <1>5 DEF MayName, Adopted, FromThePlan
  <2>2. Makes(CommercialAction, MayName(flow))
    BY <2>1 DEF CommercialAction, Step, Makes
  <2>3. Makes(OperatorCommercialAction, MayName(flow))
    BY <2>1, ClosingCalls DEF Step, Makes
  <2> QED BY <1>5, <2>2, <2>3, Flows
<1>6. CASE flow \in {"preparation", "matching", "inspectHandoff"}
  <2>1. None \in MayName(flow) /\ (flow # "inspectHandoff" => "listing" \in MayName(flow))
    BY <1>6 DEF MayName, FromThePlan
  <2>2. Makes(HandoffReads, MayName(flow)) /\ HandoffReads \in Seq(Steps)
    <3>1. Makes(HandoffReads, MayName(flow))
      BY <2>1 DEF HandoffReads, Read, Step, Makes
    <3>2. "inspectHandoff" \in FlowNames /\ Flow["inspectHandoff"] = HandoffReads
      BY Flows
    <3>3. Flow["inspectHandoff"] \in Seq(Steps)
      BY <3>2, FlowType
    <3> QED BY <3>1, <3>2, <3>3
  <2>3. CASE flow = "preparation"
    <3> DEFINE first == <<Step("createExecutionListing", {"listing"}, "listing"),
                          Step("activateExecutionListing", {"listing"}, None)>>
    <3>1. Makes(first, MayName(flow))
      BY <2>1, <2>3 DEF Step, Makes
    <3>2. /\ Step("createExecutionListing", {"listing"}, "listing") \in Steps
          /\ Step("activateExecutionListing", {"listing"}, None) \in Steps
      BY StepType DEF Slots, Calls
    <3>3. first \in Seq(Steps)
      BY <3>2, Tuples
    <3>4. Flow[flow] = first \o HandoffReads
      BY <2>3, Flows DEF HandoffPreparation
    <3> HIDE DEF first
    <3> QED BY <2>2, <3>1, <3>3, <3>4, MakesConcat
  <2>4. CASE flow = "matching"
    BY <2>1, <2>4, Flows DEF OperatorMatching, Read, Step, Makes
  <2> QED BY <1>6, <2>2, <2>3, <2>4, Flows
<1>7. CASE flow \in {"review", "inspectClosure", "operatorApproval", "operatorPackage",
                     "repair", "inspectReadiness"}
  <2>1. None \in MayName(flow)
    BY DEF MayName
  <2>2. Makes(CommercialReview, MayName(flow)) /\ Makes(OperatorReview, MayName(flow))
    BY <2>1 DEF CommercialReview, OperatorReview, Step, Makes
  <2>3. Makes(OperatorApproval, MayName(flow)) /\ Makes(OperatorPackage, MayName(flow))
    BY <2>1 DEF OperatorApproval, OperatorPackage, Step, Makes
  <2>4. Makes(Readiness, MayName(flow))
    BY <2>1 DEF Readiness, Read, Step, Makes
  <2> QED BY <1>7, <2>2, <2>3, <2>4, Flows
<1>8. CASE flow \in {"invitation", "precondition", "inspectPrecondition", "taskEntry",
                     "inspectOperator"}
  <2>1. None \in MayName(flow)
    BY DEF MayName
  <2> QED BY <1>8, <2>1, Flows DEF Read, Step, Makes
<1> QED BY <1>1, <1>2, <1>3, <1>4, <1>5, <1>6, <1>7, <1>8, Flows

\* A flow that hands an object over has a call that works on it.
LEMMA FlowWorksOn ==
    ASSUME NEW flow \in FlowNames, NEW s \in Carried(flow)
    PROVE  \E i \in DOMAIN Flow[flow] : s \in Flow[flow][i].on
<1>1. \/ flow = "commercial" /\ s = "request" /\ Flow[flow] = CommercialAction
      \/ flow = "review" /\ s = "request" /\ Flow[flow] = CommercialReview
      \/ flow = "connection" /\ s = "approval" /\ Flow[flow] = ConnectionApproval
  BY Flows DEF Carried
<1>2. 2 \in DOMAIN CommercialAction /\ "request" \in CommercialAction[2].on
  BY DEF CommercialAction, Step
<1>3. 2 \in DOMAIN CommercialReview /\ "request" \in CommercialReview[2].on
  BY DEF CommercialReview, Step
<1>4. 2 \in DOMAIN ConnectionApproval /\ "approval" \in ConnectionApproval[2].on
  BY DEF ConnectionApproval, Step
<1> QED BY <1>1, <1>2, <1>3, <1>4


-----------------------------------------------------------------------------
(* A flow begins.                                                          *)

\* A flow starts with the calls of its table, every object named and none
\* worked on; a review needs the evidence to name its request.
LEMMA EnterFlow ==
    ASSUME NEW flow \in FlowNames, NEW evidence \in Bundles, Enter(flow, evidence),
           flow = "review" => evidence.ids["request"] # None
    PROVE  /\ todo' \in Seq(Steps) /\ ids' \in Namings /\ named' \in Namings
           /\ acted' \in Namings /\ bundle' \in Bundles /\ bundle'.calls = <<>>
           /\ Makes(todo, MayName(flow))'
           /\ Fresh(flow)' /\ WorkedOn(flow)' /\ OneIdEach(flow)'
           /\ flow = "review" => ids'["request"] = evidence.ids["request"]
<1>1. /\ todo' = Flow[flow] /\ ids' = FirstIds(flow, evidence)
      /\ named' = NoIds /\ acted' = NoIds /\ bundle' = EmptyBundle
  BY DEF Enter
<1>2. todo' \in Seq(Steps)
  BY <1>1, FlowType
<1>3. NoIds \in Namings /\ \A s \in Slots : NoIds[s] = None
  BY DEF NoIds, Namings, Names
<1>4. bundle' \in Bundles /\ bundle'.calls = <<>> /\ bundle'.ids = NoIds
  <2>1. <<>> \in Seq(Calls)
    OBVIOUS
  <2> QED BY <1>1, <1>3, <2>1 DEF EmptyBundle, Bundles
<1>5. evidence.ids \in Namings /\ "request" \in Slots
  BY DEF Bundles, Slots
<1>6. /\ ids' \in Namings /\ \A s \in Slots : ids'[s] # None
      /\ flow = "review" => ids'["request"] = evidence.ids["request"]
  <2>1. /\ PlannedIds(flow) \in Namings
        /\ \A s \in Slots : PlannedIds(flow)[s] \in {Planned, Empty}
    BY DEF PlannedIds, Namings, Names
  <2>2. None # Planned /\ None # Empty
    BY NoneAssumption
  <2>3. CASE flow = "review"
    <3>1. ids' = [PlannedIds(flow) EXCEPT !["request"] = evidence.ids["request"]]
      BY <1>1, <2>3 DEF FirstIds
    <3>2. evidence.ids["request"] \in Names
      BY <1>5 DEF Namings
    <3> QED BY <1>5, <2>1, <2>2, <2>3, <3>1, <3>2 DEF Namings
  <2>4. CASE flow # "review"
    <3>1. ids' = PlannedIds(flow)
      BY <1>1, <2>4 DEF FirstIds
    <3> QED BY <2>1, <2>2, <2>4, <3>1
  <2> QED BY <2>3, <2>4
<1>7. Fresh(flow)'
  <2>1. MakesFirst(Flow[flow], Adopted(flow))
    BY FlowMakesFirst
  <2>2. ASSUME NEW i \in DOMAIN Flow[flow], Flow[flow][i].makes \in Adopted(flow)
        PROVE  /\ acted'[Flow[flow][i].makes] = None
               /\ \A j \in 1 .. i : Flow[flow][i].makes \notin Flow[flow][j].on
    <3>1. Flow[flow][i].makes \in Slots
      BY <2>2, AdoptedType
    <3> QED BY <1>1, <1>3, <2>1, <2>2, <3>1 DEF MakesFirst
  <2> QED BY <1>1, <2>2 DEF Fresh
<1>8. WorkedOn(flow)'
  BY <1>1, FlowWorksOn DEF WorkedOn
<1>9. OneIdEach(flow)'
  BY <1>1, <1>3, <1>4, <1>6 DEF OneIdEach
<1>10. Makes(todo, MayName(flow))'
  BY <1>1, FlowMakes DEF Makes
<1> QED BY <1>1, <1>2, <1>3, <1>4, <1>6, <1>7, <1>8, <1>9, <1>10

\* What every plan of flows satisfies.
GoodPlan(flows) ==
    /\ flows \in Seq(FlowNames) /\ flows # <<>> /\ Head(flows) # "review"
    /\ \A i \in 2 .. Len(flows) : flows[i] = "review" => flows[i - 1] = "commercial"
    /\ \A i, k \in DOMAIN flows :
         flows[i] = "connection" /\ flows[k] = "connection" => i = k

\* A run without a review and without a connection is such a plan.
LEMMA PlainPlan ==
    ASSUME NEW flows \in Seq(FlowNames \ {"review", "connection"}), flows # <<>>
    PROVE  GoodPlan(flows)
<1>1. flows \in Seq(FlowNames)
  BY SeqDef
<1>2. \A i \in 1 .. Len(flows) : flows[i] # "review" /\ flows[i] # "connection"
  OBVIOUS
<1>3. Head(flows) = flows[1] /\ 1 \in 1 .. Len(flows) /\ DOMAIN flows = 1 .. Len(flows)
  OBVIOUS
<1>4. \A i \in 2 .. Len(flows) : i \in 1 .. Len(flows)
  OBVIOUS
<1> QED BY <1>1, <1>2, <1>3, <1>4 DEF GoodPlan

\* The stages of the universe, and what follows them, are neither.
LEMMA UniversePlan ==
    ASSUME NEW stages \in ClaimantStages, NEW last,
           \/ last = <<>>
           \/ \E f \in Continuations \cup Inspections : last = <<f>>,
           stages \o last # <<>>
    PROVE  GoodPlan(stages \o last)
<1> DEFINE Others == FlowNames \ {"review", "connection"}
<1>1. stages \in Seq(Others)
  <2>1. /\ "precondition" \in Others /\ "invitation" \in Others
        /\ "repair" \in Others /\ "taskEntry" \in Others
    BY Flows
  <2> HIDE DEF Others
  <2>2. /\ <<>> \in Seq(Others) /\ <<"precondition">> \in Seq(Others)
        /\ <<"invitation", "repair">> \in Seq(Others) /\ <<"repair", "taskEntry">> \in Seq(Others)
    BY <2>1
  <2> QED BY <2>2 DEF ClaimantStages
<1>2. last \in Seq(Others)
  <2>1. \A f \in Continuations \cup Inspections : f \in Others
    BY Flows DEF Continuations, Inspections
  <2> HIDE DEF Others
  <2>2. <<>> \in Seq(Others) /\ \A f \in Others : <<f>> \in Seq(Others)
    OBVIOUS
  <2>3. CASE last = <<>>
    BY <2>2, <2>3
  <2>4. CASE last # <<>>
    <3>1. PICK f \in Continuations \cup Inspections : last = <<f>>
      BY <2>4
    <3> QED BY <2>1, <2>2, <3>1
  <2> QED BY <2>3, <2>4
<1> HIDE DEF Others
<1>3. stages \o last \in Seq(Others)
  BY <1>1, <1>2, ConcatProperties
<1> QED BY <1>3, PlainPlan DEF Others

\* A scenario is one flow.
LEMMA ScenarioPlan ==
    ASSUME NEW flow \in {"registration", "operations", "industry", "connection", "package"}
    PROVE  GoodPlan(<<flow>>)
<1>1. flow \in FlowNames /\ flow # "review"
  BY Flows
<1> QED BY <1>1 DEF GoodPlan

\* The commercial action, and its review.
LEMMA CommercialPlan ==
    ASSUME NEW reviewed \in {<<>>, <<"review">>}
    PROVE  GoodPlan(<<"commercial">> \o reviewed)
<1>1. "commercial" \in FlowNames /\ "review" \in FlowNames
  BY Flows
<1>2. /\ <<"commercial">> \in Seq(FlowNames) /\ <<"review">> \in Seq(FlowNames)
      /\ <<>> \in Seq(FlowNames)
  BY <1>1
<1>3. CASE reviewed = <<>>
  <2>1. <<"commercial">> \o reviewed = <<"commercial">>
    BY <1>2, <1>3, ConcatEmptySeq
  <2>2. GoodPlan(<<"commercial">>)
    BY <1>1 DEF GoodPlan
  <2> QED BY <2>1, <2>2
<1>4. CASE reviewed = <<"review">>
  <2> DEFINE f == <<"commercial">> \o <<"review">>
  <2>1. f \in Seq(FlowNames) /\ Len(f) = 2 /\ f[1] = "commercial" /\ f[2] = "review"
    BY <1>2, ConcatProperties
  <2> HIDE DEF f
  <2>2. f # <<>> /\ Head(f) = f[1] /\ DOMAIN f = 1 .. 2
    BY <2>1
  <2>3. GoodPlan(f)
    BY <2>1, <2>2 DEF GoodPlan
  <2> QED BY <1>4, <2>3 DEF f
<1> QED BY <1>3, <1>4

\* The coordinator's chain.
LEMMA CoordinatorPlan ==
    ASSUME NEW continuation \in {<<>>, <<"commercial">>}
    PROVE  GoodPlan(<<"industry", "connection", "package">> \o continuation)
<1>1. /\ "industry" \in FlowNames /\ "connection" \in FlowNames
      /\ "package" \in FlowNames /\ "commercial" \in FlowNames
  BY Flows
<1>2. /\ <<"industry", "connection", "package">> \in Seq(FlowNames)
      /\ <<>> \in Seq(FlowNames) /\ <<"commercial">> \in Seq(FlowNames)
  BY <1>1
<1> DEFINE f == <<"industry", "connection", "package">> \o continuation
<1>3. /\ f \in Seq(FlowNames) /\ Len(f) \in {3, 4}
      /\ f[1] = "industry" /\ f[2] = "connection" /\ f[3] = "package"
      /\ Len(f) = 4 => f[4] = "commercial"
  <2>1. CASE continuation = <<>>
    BY <1>2, <2>1, ConcatEmptySeq
  <2>2. CASE continuation = <<"commercial">>
    BY <1>2, <2>2, ConcatProperties
  <2> QED BY <2>1, <2>2
<1> HIDE DEF f
<1>4. f # <<>> /\ Head(f) = f[1] /\ DOMAIN f = 1 .. Len(f)
  BY <1>3
<1>5. GoodPlan(f)
  BY <1>3, <1>4 DEF GoodPlan
<1> QED BY <1>5 DEF f

\* A run starts.
LEMMA StartStep ==
    ASSUME IInv, NEW flows, GoodPlan(flows), Start(flows)
    PROVE  IInv'
<1>1. /\ results' = <<>> /\ performed' = <<>> /\ read' = Unread /\ outcome' = "running"
      /\ segments' = flows /\ Enter(Head(flows), EmptyBundle)
  BY DEF Start, Reset
<1>2. /\ flows \in Seq(FlowNames) /\ flows # <<>> /\ Head(flows) \in FlowNames
      /\ Head(flows) # "review"
  BY DEF GoodPlan
<1>3. EmptyBundle \in Bundles
  BY DEF EmptyBundle, Bundles, NoIds, Namings, Names
<1>4. /\ todo' \in Seq(Steps) /\ ids' \in Namings /\ named' \in Namings
      /\ acted' \in Namings /\ bundle' \in Bundles /\ bundle'.calls = <<>>
      /\ Makes(todo, MayName(Head(flows)))'
      /\ Fresh(Head(flows))' /\ WorkedOn(Head(flows))' /\ OneIdEach(Head(flows))'
  BY <1>1, <1>2, <1>3, EnterFlow
<1>5. read' \in Reads
  BY <1>1 DEF Unread, Reads, NextSteps
<1>6. ChainType'
  <2>1. results' \in Seq(Results) /\ performed' \in Seq(Calls)
    BY <1>1
  <2> QED BY <1>1, <1>2, <1>4, <1>5, <2>1 DEF ChainType
<1>7. FlowInv'
  BY <1>1, <1>4 DEF FlowInv, Makes, Fresh, WorkedOn, OneIdEach
<1>8. PlanInv'
  <2>1. DOMAIN results' = {}
    BY <1>1
  <2> QED BY <1>1, <1>2, <2>1 DEF PlanInv, GoodPlan
<1>9. ResultsInv'
  <2>1. DOMAIN results' = {} /\ Len(results') = 0
    BY <1>1
  <2> QED BY <2>1 DEF ResultsInv
<1>10. ReportInv'
  <2>1. Reports' = <<>>
    BY <1>1 DEF Reports
  <2>2. /\ Flattens(<<>>) /\ FlattenSeq(<<>>) = <<>>
    BY FlattenNone
  <2>3. <<>> \in Seq(Calls) /\ <<>> \o <<>> = <<>>
    OBVIOUS
  <2>4. Reported' = FlattenSeq(Reports') \o bundle'.calls
    BY DEF Reported, Reports
  <2> QED BY <1>1, <1>4, <2>1, <2>2, <2>3, <2>4 DEF ReportInv
<1> QED BY <1>6, <1>7, <1>8, <1>9, <1>10 DEF IInv

\* A run that returns what it was given makes no call.
LEMMA ReturnStep ==
    ASSUME IInv, ReturnArtifact
    PROVE  IInv'
<1>1. /\ results' = <<>> /\ performed' = <<>> /\ read' = Unread /\ outcome' = "returned"
      /\ segments' = <<>> /\ todo' = <<>> /\ bundle' = EmptyBundle
      /\ ids' = ids /\ named' = named /\ acted' = acted
  BY DEF ReturnArtifact, Reset
<1>2. bundle' \in Bundles /\ bundle'.calls = <<>>
  BY <1>1 DEF EmptyBundle, Bundles, NoIds, Namings, Names
<1>3. read' \in Reads
  BY <1>1 DEF Unread, Reads, NextSteps
<1>4. /\ results' \in Seq(Results) /\ performed' \in Seq(Calls)
      /\ segments' \in Seq(FlowNames) /\ todo' \in Seq(Steps)
  BY <1>1
<1>5. ids \in Namings /\ named \in Namings /\ acted \in Namings
  BY DEF IInv, ChainType
<1>6. ChainType'
  BY <1>1, <1>2, <1>3, <1>4, <1>5 DEF ChainType
<1>7. FlowInv'
  BY <1>1 DEF FlowInv
<1>8. DOMAIN results' = {} /\ Len(results') = 0 /\ DOMAIN segments' = {} /\ Len(segments') = 0
  BY <1>1
<1>9. PlanInv' /\ ResultsInv'
  BY <1>1, <1>8 DEF PlanInv, ResultsInv
<1>10. ReportInv'
  <2>1. Reports' = <<>>
    BY <1>1 DEF Reports
  <2>2. Flattens(<<>>) /\ FlattenSeq(<<>>) = <<>>
    BY FlattenNone
  <2>3. <<>> \in Seq(Calls) /\ <<>> \o <<>> = <<>>
    OBVIOUS
  <2>4. Reported' = FlattenSeq(Reports') \o bundle'.calls
    BY DEF Reported, Reports
  <2> QED BY <1>1, <1>2, <2>1, <2>2, <2>3, <2>4 DEF ReportInv
<1> QED BY <1>6, <1>7, <1>9, <1>10 DEF IInv

\* A call that fails ends the run and takes its evidence along.
LEMMA ThrowStep ==
    ASSUME IInv, Refused \/ Lost
    PROVE  IInv'
<1>1. /\ results' = <<>> /\ outcome' = "threw" /\ segments' = <<>> /\ todo' = <<>>
      /\ bundle' = EmptyBundle /\ ids' = ids /\ named' = named /\ acted' = acted
      /\ read' = read
  BY DEF Refused, Lost, Throw
<1>2. bundle' \in Bundles /\ bundle'.calls = <<>>
  BY <1>1 DEF EmptyBundle, Bundles, NoIds, Namings, Names
<1>3. performed' \in Seq(Calls)
  <2>1. performed \in Seq(Calls) /\ todo \in Seq(Steps)
    BY DEF IInv, ChainType
  <2>2. CASE Refused
    BY <2>1, <2>2 DEF Refused
  <2>3. CASE Lost
    <3>1. performed' = Append(performed, Head(todo).call) /\ todo # <<>>
      BY <2>3 DEF Lost
    <3>2. Head(todo) \in Steps
      BY <2>1, <3>1
    <3>3. Head(todo).call \in Calls
      BY <3>2 DEF Steps
    <3> QED BY <2>1, <3>1, <3>3
  <2> QED BY <2>2, <2>3
<1>4. /\ results' \in Seq(Results) /\ segments' \in Seq(FlowNames) /\ todo' \in Seq(Steps)
  BY <1>1
<1>5. ids \in Namings /\ named \in Namings /\ acted \in Namings /\ read \in Reads
  BY DEF IInv, ChainType
<1>6. ChainType'
  BY <1>1, <1>2, <1>3, <1>4, <1>5 DEF ChainType
<1>7. FlowInv'
  BY <1>1 DEF FlowInv
<1>8. DOMAIN results' = {} /\ Len(results') = 0 /\ DOMAIN segments' = {} /\ Len(segments') = 0
  BY <1>1
<1>9. PlanInv' /\ ResultsInv'
  BY <1>1, <1>8 DEF PlanInv, ResultsInv
<1>10. ReportInv'
  <2>1. Reports' = <<>>
    BY <1>1 DEF Reports
  <2>2. Flattens(<<>>) /\ FlattenSeq(<<>>) = <<>>
    BY FlattenNone
  <2>3. <<>> \in Seq(Calls)
    OBVIOUS
  <2> QED BY <1>1, <1>2, <2>1, <2>2, <2>3 DEF ReportInv
<1> QED BY <1>6, <1>7, <1>9, <1>10 DEF IInv

-----------------------------------------------------------------------------
(* A call is answered.                                                     *)

\* What a reply says of the claimant is one of the states it may be in.
LEMMA ReplyType ==
    ASSUME read \in Reads, NEW call, NEW seen \in Replies(call)
    PROVE  seen \in Reads
<1>1. ASSUME NEW c \in BOOLEAN
      PROVE  [read EXCEPT !.canonical = c] \in Reads /\ [read EXCEPT !.route = c] \in Reads
  BY <1>1 DEF Reads
<1>2. [canonical : {read.canonical}, allowed : BOOLEAN, next : NextSteps, route : {read.route}]
        \subseteq Reads
  BY DEF Reads
<1>3. CASE call = "getAccountMe"
  BY <1>1, <1>3 DEF Replies
<1>4. CASE call = "getMaterializationStatus"
  BY <1>1, <1>4 DEF Replies
<1>5. CASE call = "getClosureStatus"
  BY <1>2, <1>5 DEF Replies
<1>6. CASE call # "getAccountMe" /\ call # "getMaterializationStatus" /\ call # "getClosureStatus"
  BY <1>6 DEF Replies
<1> QED BY <1>3, <1>4, <1>5, <1>6

\* A flow goes on with its next call, except where a reply decides.
LEMMA RemainingCalls ==
    ASSUME NEW flow, NEW call, NEW seen \in Reads, todo \in Seq(Steps), todo # <<>>
    PROVE  /\ Remaining(flow, call, seen) \in Seq(Steps)
           /\ \/ Remaining(flow, call, seen) = Tail(todo)
              \/ flow \in {"invitation", "precondition", "repair"}
           /\ Makes(todo, MayName(flow)) => Makes(Remaining(flow, call, seen), MayName(flow))
<1>1. /\ Tail(todo) \in Seq(Steps)
      /\ Makes(todo, MayName(flow)) => Makes(Tail(todo), MayName(flow))
  <2>1. /\ Tail(todo) \in Seq(Steps) /\ DOMAIN todo = 1 .. Len(todo) /\ Len(todo) \in Nat
        /\ \A i \in DOMAIN Tail(todo) : Tail(todo)[i] = todo[i + 1] /\ i + 1 \in DOMAIN todo
    OBVIOUS
  <2> QED BY <2>1 DEF Makes
<1>2. RepairCall[seen.next] \in Seq(Steps) /\ Makes(RepairCall[seen.next], MayName(flow))
  <2>1. seen.next \in NextSteps
    BY DEF Reads
  <2>2. \A i \in DOMAIN RepairCall[seen.next] : RepairCall[seen.next][i].makes = None
    BY <2>1 DEF NextSteps, RepairCall, Read, Step
  <2> QED BY <2>1, <2>2, RepairType DEF Makes, MayName
<1>3. /\ <<Read("selectOrg"), Read("getAccountMe")>> \in Seq(Steps)
      /\ Makes(<<Read("selectOrg"), Read("getAccountMe")>>, MayName(flow))
  <2>1. Read("selectOrg") \in Steps /\ Read("getAccountMe") \in Steps
    BY ReadType DEF Calls
  <2>2. Makes(<<Read("selectOrg"), Read("getAccountMe")>>, MayName(flow))
    BY DEF Read, Step, Makes, MayName
  <2> QED BY <2>1, <2>2, Tuples
<1> QED BY <1>1, <1>2, <1>3 DEF Remaining

\* The ids a reply may name.
Naming(step) == IF step.makes = None THEN {None} ELSE {None, Planned, step.call}

\* What one answered call does to the ids, named for the reply's.
Told(step, flow, id) ==
    /\ acted' = [s \in Slots |-> IF s \in step.on THEN ids[s] ELSE acted[s]]
    /\ named' = [s \in Slots |-> IF s = step.makes THEN id ELSE named[s]]
    /\ ids' = [s \in Slots |-> IF s = step.makes /\ s \in Adopted(flow) /\ id # None
                               THEN id ELSE ids[s]]
    /\ bundle' = [calls |-> Append(bundle.calls, step.call),
                  ids |-> Records(flow, ids', named')]

\* Every object keeps one id, when the one a call makes was not worked on before.
LEMMA ToldOneId ==
    ASSUME ids \in Namings, named \in Namings, acted \in Namings, bundle \in Bundles,
           NEW flow, NEW step \in Steps, NEW id \in Naming(step), Told(step, flow, id),
           OneIdEach(flow), step.makes \in MayName(flow),
           step.makes \in Adopted(flow) =>
             acted[step.makes] = None /\ step.makes \notin step.on
    PROVE  /\ ids' \in Namings /\ named' \in Namings /\ acted' \in Namings
           /\ bundle' \in Bundles /\ OneIdEach(flow)'
<1>1. id \in Names /\ step.call \in Calls
  BY DEF Naming, Names, Steps
<1>2. ids' \in Namings /\ named' \in Namings /\ acted' \in Namings
  BY <1>1 DEF Told, Namings
<1>3. /\ \A s \in Slots : acted'[s] = IF s \in step.on THEN ids[s] ELSE acted[s]
      /\ \A s \in Slots : named'[s] = IF s = step.makes THEN id ELSE named[s]
      /\ \A s \in Slots : ids'[s] = IF s = step.makes /\ s \in Adopted(flow) /\ id # None
                                    THEN id ELSE ids[s]
  BY DEF Told
<1>4. /\ bundle'.calls = Append(bundle.calls, step.call)
      /\ bundle'.ids = Records(flow, ids', named')
      /\ bundle' = [calls |-> bundle'.calls, ids |-> bundle'.ids]
  BY DEF Told
<1>5. /\ bundle'.ids \in Namings
      /\ \A s \in Slots : bundle'.ids[s] # None => bundle'.ids[s] = ids'[s]
      /\ \A s \in Recorded(flow) : bundle'.ids[s] = ids'[s]
  <2>1. None \in Names /\ \A s \in Recorded(flow) : s \in Slots
    BY AdoptedType DEF Names
  <2> QED BY <1>2, <1>4, <2>1 DEF Records, Namings
<1>6. bundle' \in Bundles
  <2>1. bundle'.calls \in Seq(Calls)
    BY <1>1, <1>4 DEF Bundles
  <2> QED BY <1>4, <1>5, <2>1 DEF Bundles
<1>7. OneIdEach(flow)'
  <2>1. \A s \in Slots : ids'[s] # None
    BY <1>3 DEF OneIdEach
  <2>2. ASSUME NEW s \in Slots, acted'[s] # None PROVE acted'[s] = ids'[s]
    <3>1. CASE s = step.makes /\ s \in Adopted(flow)
      BY <1>3, <2>2, <3>1
    <3>2. CASE ~ (s = step.makes /\ s \in Adopted(flow))
      BY <1>3, <2>2, <3>2 DEF OneIdEach
    <3> QED BY <3>1, <3>2
  <2>3. ASSUME NEW s \in Slots \ FromThePlan(flow), named'[s] # None PROVE named'[s] = ids'[s]
    <3>1. CASE s = step.makes
      <4>1. s # None
        BY NoneAssumption
      <4>2. s \in Adopted(flow) /\ named'[s] = id
        BY <1>3, <3>1, <4>1 DEF MayName
      <4> QED BY <1>3, <2>3, <3>1, <4>2
    <3>2. CASE s # step.makes
      BY <1>3, <2>3, <3>2 DEF OneIdEach
    <3> QED BY <3>1, <3>2
  <2> QED BY <1>5, <2>1, <2>2, <2>3 DEF OneIdEach
<1> QED BY <1>2, <1>6, <1>7

\* An answered call.
LEMMA AnsweredStep ==
    ASSUME IInv, Answered
    PROVE  IInv'
<1>1. /\ segments \in Seq(FlowNames) /\ segments # <<>> /\ todo \in Seq(Steps)
      /\ todo # <<>>
  BY DEF IInv, ChainType, Answered
<1>2. PICK step \in Steps : step = Head(todo)
  BY <1>1
<1>3. PICK flow \in FlowNames : flow = Head(segments)
  BY <1>1
<1>4. /\ outcome = "running" /\ todo # <<>>
      /\ performed' = Append(performed, step.call)
      /\ outcome' = outcome /\ segments' = segments /\ results' = results
      /\ boundary' = boundary
  BY <1>2 DEF Answered
<1>5. PICK id \in Naming(step) : Told(step, flow, id)
  BY <1>2, <1>3 DEF Answered, Naming, Told
<1>6. PICK seen \in Replies(step.call) :
        read' = seen /\ todo' = Remaining(flow, step.call, seen)
  BY <1>2, <1>3 DEF Answered
<1>7. /\ segments \in Seq(FlowNames) /\ segments # <<>> /\ todo \in Seq(Steps)
      /\ ids \in Namings /\ named \in Namings /\ acted \in Namings /\ bundle \in Bundles
      /\ results \in Seq(Results) /\ performed \in Seq(Calls) /\ read \in Reads
  BY <1>4 DEF IInv, ChainType
<1>8. step = todo[1] /\ 1 \in DOMAIN todo
  BY <1>1, <1>2
<1>9. Makes(todo, MayName(flow)) /\ Fresh(flow) /\ WorkedOn(flow) /\ OneIdEach(flow)
  BY <1>3, <1>7 DEF IInv, FlowInv
<1>10. step.call \in Calls /\ step.on \subseteq Slots
  BY <1>8 DEF Steps
<1>11. seen \in Reads /\ read' = seen
  BY <1>6, <1>7, ReplyType
<1>12. /\ todo' \in Seq(Steps)
       /\ todo' = Tail(todo) \/ flow \in {"invitation", "precondition", "repair"}
       /\ Makes(todo, MayName(flow))'
  <2>1. Makes(Remaining(flow, step.call, seen), MayName(flow))
    BY <1>4, <1>7, <1>9, <1>11, RemainingCalls
  <2> QED BY <1>4, <1>6, <1>7, <1>11, <2>1, RemainingCalls DEF Makes
<1>13. step.makes \in Adopted(flow) => acted[step.makes] = None /\ step.makes \notin step.on
  BY <1>8, <1>9 DEF Fresh
<1>14. /\ ids' \in Namings /\ named' \in Namings /\ acted' \in Namings
       /\ bundle' \in Bundles /\ OneIdEach(flow)'
  <2>1. step.makes \in MayName(flow)
    BY <1>8, <1>9 DEF Makes
  <2> QED BY <1>5, <1>7, <1>8, <1>9, <1>13, <2>1, ToldOneId
<1>15. ChainType'
  <2>1. performed' \in Seq(Calls)
    BY <1>4, <1>7, <1>10
  <2>2. /\ outcome' \in {"idle", "running", "returned", "threw"}
        /\ segments' \in Seq(FlowNames) /\ (outcome' = "running" <=> segments' # <<>>)
        /\ results' \in Seq(Results)
    BY <1>4, <1>7
  <2>3. todo' \in Seq(Steps) /\ read' \in Reads
    BY <1>11, <1>12
  <2>4. ids' \in Namings /\ named' \in Namings /\ acted' \in Namings /\ bundle' \in Bundles
    BY <1>14
  <2> QED BY <2>1, <2>2, <2>3, <2>4 DEF ChainType
<1>16. \A s \in Slots : acted'[s] = IF s \in step.on THEN ids[s] ELSE acted[s]
  BY <1>5 DEF Told
<1>17. /\ Len(Tail(todo)) = Len(todo) - 1
       /\ \A i \in 1 .. Len(todo) - 1 : Tail(todo)[i] = todo[i + 1]
       /\ DOMAIN todo = 1 .. Len(todo) /\ DOMAIN Tail(todo) = 1 .. Len(todo) - 1
       /\ Len(todo) \in Nat
  BY <1>4, <1>7
<1>18. Fresh(flow)'
  <2>1. CASE todo' = Tail(todo)
    <3>1. ASSUME NEW i \in DOMAIN Tail(todo), Tail(todo)[i].makes \in Adopted(flow)
          PROVE  /\ acted'[Tail(todo)[i].makes] = None
                 /\ \A j \in 1 .. i : Tail(todo)[i].makes \notin Tail(todo)[j].on
      <4>1. /\ i + 1 \in DOMAIN todo /\ Tail(todo)[i] = todo[i + 1]
            /\ \A j \in 1 .. i : j + 1 \in 1 .. i + 1 /\ Tail(todo)[j] = todo[j + 1]
            /\ 1 \in 1 .. i + 1
        BY <1>17
      <4>2. /\ acted[todo[i + 1].makes] = None
            /\ \A j \in 1 .. i + 1 : todo[i + 1].makes \notin todo[j].on
        BY <1>9, <3>1, <4>1 DEF Fresh
      <4>3. todo[i + 1].makes \in Slots
        BY <3>1, <4>1, AdoptedType
      <4> QED BY <1>8, <1>16, <4>1, <4>2, <4>3
    <3> QED BY <2>1, <3>1 DEF Fresh
  <2>2. CASE flow \in {"invitation", "precondition", "repair"}
    <3>1. Adopted(flow) = {}
      BY <2>2 DEF Adopted
    <3> QED BY <3>1 DEF Fresh
  <2> QED BY <1>12, <2>1, <2>2
<1>19. WorkedOn(flow)'
  <2>1. CASE todo' = Tail(todo)
    <3>1. ASSUME NEW s \in Carried(flow)
          PROVE  acted'[s] # None \/ \E i \in DOMAIN Tail(todo) : s \in Tail(todo)[i].on
      <4>1. s \in Slots
        BY AdoptedType
      <4>2. ids[s] # None
        BY <1>9, <4>1 DEF OneIdEach
      <4>3. CASE acted[s] # None
        BY <1>16, <4>1, <4>2, <4>3
      <4>4. CASE \E i \in DOMAIN todo : s \in todo[i].on
        <5>1. PICK i \in DOMAIN todo : s \in todo[i].on
          BY <4>4
        <5>2. CASE i = 1
          BY <1>8, <1>16, <4>1, <4>2, <5>1, <5>2
        <5>3. CASE i # 1
          <6>1. i - 1 \in DOMAIN Tail(todo) /\ Tail(todo)[i - 1] = todo[i]
            BY <1>17, <5>3
          <6> QED BY <5>1, <6>1
        <5> QED BY <5>2, <5>3
      <4> QED BY <1>9, <4>3, <4>4 DEF WorkedOn
    <3> QED BY <2>1, <3>1 DEF WorkedOn
  <2>2. CASE flow \in {"invitation", "precondition", "repair"}
    <3>1. Carried(flow) = {}
      BY <2>2 DEF Carried
    <3> QED BY <3>1 DEF WorkedOn
  <2> QED BY <1>12, <2>1, <2>2
<1>20. FlowInv'
  BY <1>3, <1>4, <1>12, <1>14, <1>18, <1>19 DEF FlowInv, Makes, Fresh, WorkedOn, OneIdEach
<1>21. PlanInv'
  <2>1. flow = "review" => ids'["request"] = ids["request"]
    <3>1. flow = "review" => Adopted(flow) = {}
      BY DEF Adopted
    <3>2. "request" \in Slots
      BY DEF Slots
    <3> QED BY <1>5, <3>1, <3>2 DEF Told
  <2> QED BY <1>3, <1>4, <2>1 DEF IInv, PlanInv
<1>22. ResultsInv'
  BY <1>4 DEF IInv, ResultsInv
<1>23. ReportInv'
  <2>1. Reports' = Reports
    BY <1>4 DEF Reports
  <2>2. FlattenSeq(Reports) \in Seq(Calls) /\ bundle.calls \in Seq(Calls)
    BY <1>7 DEF IInv, ReportInv, Bundles
  <2>3. bundle'.calls = Append(bundle.calls, step.call)
    BY <1>5 DEF Told
  <2>4. FlattenSeq(Reports) \o Append(bundle.calls, step.call)
          = Append(FlattenSeq(Reports) \o bundle.calls, step.call)
    BY <1>10, <2>2
  <2>5. Reported = FlattenSeq(Reports) \o bundle.calls
    BY DEF Reported, Reports
  <2>6. Reported' = FlattenSeq(Reports') \o bundle'.calls
    BY DEF Reported, Reports
  <2>7. Reported = performed
    BY <1>4 DEF IInv, ReportInv
  <2>8. Reported' = performed'
    BY <1>4, <2>1, <2>3, <2>4, <2>5, <2>6, <2>7
  <2> QED BY <1>4, <2>1, <2>2, <2>8 DEF IInv, ReportInv
<1> QED BY <1>15, <1>20, <1>21, <1>22, <1>23 DEF IInv

-----------------------------------------------------------------------------
(* A flow ends.                                                            *)

\* When no call is left, an object the flow hands over was worked on, under the
\* id its evidence records.
LEMMA HandedOver ==
    ASSUME NEW flow, NEW s, s \in Carried(flow), s \in Recorded(flow) \/ flow = "review",
           todo = <<>>, WorkedOn(flow), OneIdEach(flow)
    PROVE  /\ acted[s] # None /\ acted[s] = ids[s]
           /\ s \in Recorded(flow) => bundle.ids[s] = acted[s]
<1>1. s \in Slots /\ DOMAIN todo = {}
  BY AdoptedType
<1>2. acted[s] # None /\ acted[s] = ids[s]
  BY <1>1 DEF WorkedOn, OneIdEach
<1>3. acted # NoIds
  BY <1>1, <1>2 DEF NoIds
<1> QED BY <1>2, <1>3 DEF OneIdEach

\* A flow that ended keeps its evidence, and the next one starts from it.
LEMMA FlowEndsStep ==
    ASSUME IInv, FlowEnds
    PROVE  IInv'
<1>1. /\ outcome = "running" /\ todo = <<>> /\ segments \in Seq(FlowNames)
      /\ segments # <<>> /\ results \in Seq(Results) /\ bundle \in Bundles
      /\ ids \in Namings /\ named \in Namings /\ acted \in Namings
      /\ performed \in Seq(Calls) /\ read \in Reads
  BY DEF IInv, ChainType, FlowEnds
<1>2. PICK flow \in FlowNames : flow = Head(segments)
  BY <1>1
<1>3. PICK rest \in Seq(FlowNames) : rest = Tail(segments)
  <2>1. Tail(segments) \in Seq(FlowNames)
    BY <1>1
  <2> QED BY <2>1
<1>4. PICK done \in Results : done = [flow |-> flow, calls |-> bundle.calls,
                                      ids |-> bundle.ids, acted |-> acted]
  BY <1>1 DEF Results, Bundles
<1>5. /\ results' = Append(results, done)
      /\ boundary' = IF flow = "connection" THEN bundle.ids["approval"] ELSE boundary
      /\ segments' = rest /\ performed' = performed /\ read' = read
      /\ \/ /\ rest = <<>> /\ outcome' = "returned" /\ bundle' = EmptyBundle
            /\ todo' = todo /\ ids' = ids /\ named' = named /\ acted' = acted
         \/ rest # <<>> /\ Enter(Head(rest), bundle) /\ outcome' = outcome
  BY <1>2, <1>3, <1>4 DEF FlowEnds
<1>6. Fresh(flow) /\ WorkedOn(flow) /\ OneIdEach(flow)
  BY <1>1, <1>2 DEF IInv, FlowInv
<1>7. /\ flow = segments[1] /\ Len(segments) \in Nat \ {0} /\ Len(rest) = Len(segments) - 1
      /\ \A i \in 1 .. Len(rest) : i + 1 \in 1 .. Len(segments) /\ rest[i] = segments[i + 1]
      /\ DOMAIN segments = 1 .. Len(segments) /\ DOMAIN rest = 1 .. Len(rest)
      /\ 1 \in 1 .. Len(segments)
  BY <1>1, <1>2, <1>3
<1>8. PICK n \in Nat : /\ n = Len(results) /\ Len(results') = n + 1
                       /\ results'[n + 1] = done
                       /\ \A i \in 1 .. n : results'[i] = results[i]
                       /\ DOMAIN results = 1 .. n /\ DOMAIN results' = 1 .. n + 1
                       /\ results' \in Seq(Results) /\ results' # <<>>
  <2>1. results' = Append(results, done) /\ results \in Seq(Results) /\ done \in Results
    BY <1>1, <1>5
  <2> DEFINE n == Len(results)
  <2>2. /\ n \in Nat /\ Len(results') = n + 1 /\ results'[n + 1] = done
        /\ \A i \in 1 .. n : results'[i] = results[i]
        /\ DOMAIN results = 1 .. n /\ DOMAIN results' = 1 .. n + 1
        /\ results' \in Seq(Results) /\ results' # <<>>
    BY <2>1
  <2> QED BY <2>2
<1>9. done.flow = flow /\ done.calls = bundle.calls /\ done.ids = bundle.ids /\ done.acted = acted
  BY <1>4
<1>10. \A i \in 1 .. n + 1 : i \in 1 .. n \/ i = n + 1
  OBVIOUS
<1>11. rest # <<>> /\ Head(rest) = "review" =>
         bundle.ids["request"] # None /\ bundle.ids["request"] = acted["request"]
  <2>1. SUFFICES ASSUME rest # <<>>, Head(rest) = "review"
                 PROVE  bundle.ids["request"] # None /\ bundle.ids["request"] = acted["request"]
    OBVIOUS
  <2>2. 2 \in 2 .. Len(segments) /\ segments[2] = "review"
    BY <1>1, <1>3, <2>1
  <2>3. segments[2 - 1] = "commercial"
    BY <2>2 DEF IInv, PlanInv
  <2>4. flow = "commercial"
    BY <1>7, <2>3
  <2>5. "request" \in Carried(flow) /\ "request" \in Recorded(flow)
    BY <2>4 DEF Carried, Recorded
  <2> QED BY <1>1, <1>6, <2>5, HandedOver
<1>12. /\ todo' \in Seq(Steps) /\ ids' \in Namings /\ named' \in Namings
       /\ acted' \in Namings /\ bundle' \in Bundles /\ bundle'.calls = <<>>
       /\ rest # <<>> => /\ Makes(todo, MayName(Head(rest)))'
                         /\ Fresh(Head(rest))' /\ WorkedOn(Head(rest))'
                         /\ OneIdEach(Head(rest))'
                         /\ Head(rest) = "review" => ids'["request"] = acted["request"]
  <2>1. CASE rest = <<>>
    <3>1. bundle' \in Bundles /\ bundle'.calls = <<>>
      <4>1. bundle' = EmptyBundle
        BY <1>5, <2>1
      <4> QED BY <4>1 DEF EmptyBundle, Bundles, NoIds, Namings, Names
    <3>2. todo' \in Seq(Steps)
      BY <1>1, <1>5, <2>1
    <3> QED BY <1>1, <1>5, <2>1, <3>1, <3>2
  <2>2. CASE rest # <<>>
    <3>1. PICK next \in FlowNames : next = Head(rest)
      BY <2>2
    <3>2. Enter(next, bundle)
      BY <1>5, <2>2, <3>1
    <3>3. next = "review" =>
            bundle.ids["request"] # None /\ bundle.ids["request"] = acted["request"]
      BY <1>11, <2>2, <3>1
    <3>4. /\ todo' \in Seq(Steps) /\ ids' \in Namings /\ named' \in Namings
          /\ acted' \in Namings /\ bundle' \in Bundles /\ bundle'.calls = <<>>
          /\ Makes(todo, MayName(next))'
          /\ Fresh(next)' /\ WorkedOn(next)' /\ OneIdEach(next)'
          /\ next = "review" => ids'["request"] = bundle.ids["request"]
      BY <1>1, <3>2, <3>3, EnterFlow
    <3> QED BY <3>1, <3>3, <3>4
  <2> QED BY <2>1, <2>2
<1>13. ChainType'
  <2>1. outcome' \in {"idle", "running", "returned", "threw"}
        /\ (outcome' = "running" <=> segments' # <<>>)
    BY <1>1, <1>5
  <2> QED BY <1>1, <1>5, <1>8, <1>12, <2>1 DEF ChainType
<1>14. FlowInv'
  BY <1>5, <1>12 DEF FlowInv, Makes, Fresh, WorkedOn, OneIdEach
<1>15. PlanInv'
  <2>1. ASSUME NEW i \in 2 .. Len(rest), rest[i] = "review" PROVE rest[i - 1] = "commercial"
    <3>1. /\ i + 1 \in 2 .. Len(segments) /\ segments[i + 1] = "review"
          /\ rest[i - 1] = segments[(i + 1) - 1]
      BY <1>7, <2>1
    <3> QED BY <3>1 DEF IInv, PlanInv
  <2>2. rest # <<>> /\ Head(rest) = "review" =>
          results' # <<>> /\ ids'["request"] = results'[Len(results')].acted["request"]
    BY <1>8, <1>9, <1>12
  <2>3. ASSUME NEW i \in DOMAIN rest, NEW k \in DOMAIN rest,
               rest[i] = "connection", rest[k] = "connection"
        PROVE  i = k
    <3>1. /\ i + 1 \in DOMAIN segments /\ k + 1 \in DOMAIN segments
          /\ segments[i + 1] = "connection" /\ segments[k + 1] = "connection"
      BY <1>7, <2>3
    <3>2. i + 1 = k + 1
      BY <3>1 DEF IInv, PlanInv
    <3> QED BY <1>7, <3>2
  <2>4. ASSUME NEW i \in DOMAIN results', NEW k \in DOMAIN rest,
               results'[i].flow = "connection"
        PROVE  rest[k] # "connection"
    <3>1. k + 1 \in DOMAIN segments /\ rest[k] = segments[k + 1] /\ k + 1 # 1
      BY <1>7
    <3>2. CASE i \in 1 .. n
      BY <1>8, <2>4, <3>1, <3>2 DEF IInv, PlanInv
    <3>3. CASE i = n + 1
      <4>1. segments[1] = "connection"
        BY <1>7, <1>8, <1>9, <2>4, <3>3
      <4> QED BY <1>7, <3>1, <4>1 DEF IInv, PlanInv
    <3> QED BY <1>8, <1>10, <3>2, <3>3
  <2> QED BY <1>5, <2>1, <2>2, <2>3, <2>4 DEF PlanInv
<1>16. ResultsInv'
  <2>1. ASSUME NEW i \in DOMAIN results', NEW s \in Slots,
               results'[i].ids[s] # None, results'[i].acted[s] # None
        PROVE  results'[i].ids[s] = results'[i].acted[s]
    <3>1. CASE i \in 1 .. n
      BY <1>8, <2>1, <3>1 DEF IInv, ResultsInv
    <3>2. CASE i = n + 1
      BY <1>6, <1>8, <1>9, <2>1, <3>2 DEF OneIdEach
    <3> QED BY <1>8, <1>10, <3>1, <3>2
  <2>2. ASSUME NEW i \in DOMAIN results', results'[i].flow = "connection"
        PROVE  boundary' = results'[i].acted["approval"]
    <3>1. CASE i \in 1 .. n
      <4>1. flow # "connection"
        BY <1>7, <1>8, <2>2, <3>1 DEF IInv, PlanInv
      <4> QED BY <1>5, <1>8, <2>2, <3>1, <4>1 DEF IInv, ResultsInv
    <3>2. CASE i = n + 1
      <4>1. flow = "connection"
        BY <1>8, <1>9, <2>2, <3>2
      <4>2. "approval" \in Carried(flow) /\ "approval" \in Recorded(flow)
        BY <4>1 DEF Carried, Recorded
      <4>3. bundle.ids["approval"] = acted["approval"]
        BY <1>1, <1>6, <4>2, HandedOver
      <4> QED BY <1>5, <1>8, <1>9, <3>2, <4>1, <4>3
    <3> QED BY <1>8, <1>10, <3>1, <3>2
  <2>3. ASSUME NEW i \in 2 .. Len(results'), results'[i].flow = "review"
        PROVE  results'[i].acted["request"] = results'[i - 1].acted["request"]
    <3>1. CASE i \in 2 .. n
      <4>1. i \in 1 .. n /\ i - 1 \in 1 .. n
        BY <3>1
      <4> QED BY <1>8, <2>3, <3>1, <4>1 DEF IInv, ResultsInv
    <3>2. CASE i = n + 1
      <4>1. flow = "review" /\ n \in 1 .. n /\ i - 1 = n
        BY <1>8, <1>9, <2>3, <3>2
      <4>2. "request" \in Carried(flow)
        BY <4>1 DEF Carried
      <4>3. acted["request"] = ids["request"]
        BY <1>1, <1>6, <4>1, <4>2, HandedOver
      <4>4. ids["request"] = results[n].acted["request"]
        BY <1>1, <1>2, <1>8, <4>1 DEF IInv, PlanInv
      <4> QED BY <1>8, <1>9, <3>2, <4>1, <4>3, <4>4
    <3>3. i \in 2 .. n \/ i = n + 1
      BY <1>8
    <3> QED BY <3>1, <3>2, <3>3
  <2> QED BY <2>1, <2>2, <2>3 DEF ResultsInv
<1>17. ReportInv'
  <2>1. Reports \in Seq(Seq(Calls)) /\ bundle.calls \in Seq(Calls)
    <3>1. \A i \in DOMAIN results : results[i].calls \in Seq(Calls)
      <4>1. \A i \in DOMAIN results : results[i] \in Results
        BY <1>1
      <4> QED BY <4>1 DEF Results
    <3>2. Reports \in [1 .. n -> Seq(Calls)]
      BY <1>8, <3>1 DEF Reports
    <3> QED BY <1>1, <3>2, SeqDef DEF Bundles
  <2>2. Reports' = Append(Reports, bundle.calls)
    <3>1. DOMAIN Reports = 1 .. n /\ \A i \in 1 .. n : Reports[i] = results[i].calls
      BY <1>8 DEF Reports
    <3>2. /\ Reports' = [i \in 1 .. n + 1 |-> Reports'[i]]
          /\ \A i \in 1 .. n + 1 : Reports'[i] = results'[i].calls
      BY <1>8 DEF Reports
    <3>3. \A i \in 1 .. n + 1 : Reports'[i] = IF i = n + 1 THEN bundle.calls ELSE Reports[i]
      BY <1>8, <1>9, <1>10, <3>1, <3>2
    <3>4. Len(Reports) = n
      BY <2>1, <3>1
    <3> DEFINE next == Append(Reports, bundle.calls)
    <3>5. /\ next \in Seq(Seq(Calls)) /\ Len(next) = n + 1
          /\ \A i \in 1 .. n + 1 : next[i] = IF i = n + 1 THEN bundle.calls ELSE Reports[i]
      BY <2>1, <3>4
    <3> HIDE DEF next
    <3>6. next = [i \in 1 .. n + 1 |-> next[i]]
      BY <3>5
    <3>7. next = Reports'
      BY <3>2, <3>3, <3>5, <3>6
    <3> QED BY <3>7 DEF next
  <2>3. /\ Flattens(Reports') /\ FlattenSeq(Reports') = FlattenSeq(Reports) \o bundle.calls
    BY <2>1, <2>2, FlattenAppend DEF IInv, ReportInv
  <2>4. FlattenSeq(Reports) \in Seq(Calls) /\ Reported = performed
    BY <1>1 DEF IInv, ReportInv
  <2>5. Reported = FlattenSeq(Reports) \o bundle.calls
    BY DEF Reported, Reports
  <2>6. Reported' = FlattenSeq(Reports') \o bundle'.calls
    BY DEF Reported, Reports
  <2>7. FlattenSeq(Reports') \in Seq(Calls)
    BY <1>1, <2>3, <2>4, <2>5
  <2>8. Reported' = FlattenSeq(Reports')
    BY <1>12, <2>6, <2>7, ConcatEmptySeq
  <2>9. outcome' # "threw"
    BY <1>1, <1>5
  <2> QED BY <1>5, <2>3, <2>4, <2>5, <2>7, <2>8, <2>9 DEF ReportInv
<1> QED BY <1>13, <1>14, <1>15, <1>16, <1>17 DEF IInv

-----------------------------------------------------------------------------
(* The theorems.                                                           *)

\* The invariant holds at first, ...
LEMMA InitInv == Init => IInv
<1> SUFFICES ASSUME Init PROVE IInv
  OBVIOUS
<1>1. /\ outcome = "idle" /\ segments = <<>> /\ todo = <<>> /\ ids = PlannedIds("industry")
      /\ named = NoIds /\ acted = NoIds /\ bundle = EmptyBundle /\ results = <<>>
      /\ performed = <<>> /\ read = Unread
  BY DEF Init
<1>2. /\ ids \in Namings /\ named \in Namings /\ acted \in Namings /\ bundle \in Bundles
      /\ bundle.calls = <<>>
  BY <1>1 DEF PlannedIds, NoIds, EmptyBundle, Bundles, Namings, Names
<1>3. read \in Reads
  BY <1>1 DEF Unread, Reads, NextSteps
<1>4. /\ segments \in Seq(FlowNames) /\ todo \in Seq(Steps) /\ results \in Seq(Results)
      /\ performed \in Seq(Calls)
  BY <1>1
<1>5. ChainType
  BY <1>1, <1>2, <1>3, <1>4 DEF ChainType
<1>6. DOMAIN results = {} /\ Len(results) = 0 /\ DOMAIN segments = {} /\ Len(segments) = 0
  BY <1>1
<1>7. FlowInv /\ PlanInv /\ ResultsInv
  BY <1>1, <1>6 DEF FlowInv, PlanInv, ResultsInv
<1>8. ReportInv
  <2>1. Reports = <<>>
    BY <1>1 DEF Reports
  <2>2. Flattens(<<>>) /\ FlattenSeq(<<>>) = <<>> /\ <<>> \in Seq(Calls)
    BY FlattenNone
  <2> QED BY <1>1, <2>1, <2>2 DEF ReportInv
<1> QED BY <1>5, <1>7, <1>8 DEF IInv

\* ... and every step keeps it.
LEMMA NextInv == IInv /\ [Next]_vars => IInv'
<1> SUFFICES ASSUME IInv, [Next]_vars PROVE IInv'
  OBVIOUS
<1>1. CASE RunScenario
  BY <1>1, ScenarioPlan, StartStep DEF RunScenario
<1>2. CASE RunCommercialAction
  BY <1>2, CommercialPlan, StartStep DEF RunCommercialAction
<1>3. CASE RunCoordinator
  BY <1>3, CoordinatorPlan, StartStep DEF RunCoordinator
<1>4. CASE RunUniverse
  <2>1. PICK stages \in ClaimantStages, last \in Continuations \cup Inspections :
          Start(stages \o <<last>>)
    BY <1>4 DEF RunUniverse
  <2>2. stages \o <<last>> # <<>>
    BY <2>1 DEF ClaimantStages
  <2>3. GoodPlan(stages \o <<last>>)
    BY <2>2, UniversePlan
  <2> QED BY <2>1, <2>3, StartStep
<1>5. CASE ResumeUniverse
  <2>1. CASE ReturnArtifact
    BY <2>1, ReturnStep
  <2>2. CASE ~ ReturnArtifact
    <3>1. PICK stages \in ClaimantStages, last \in {<<>>} \cup {<<c>> : c \in Continuations} :
            stages \o last # <<>> /\ Start(stages \o last)
      BY <1>5, <2>2 DEF ResumeUniverse
    <3>2. GoodPlan(stages \o last)
      BY <3>1, UniversePlan
    <3> QED BY <3>1, <3>2, StartStep
  <2> QED BY <2>1, <2>2
<1>6. CASE Answered
  BY <1>6, AnsweredStep
<1>7. CASE Refused \/ Lost
  BY <1>7, ThrowStep
<1>8. CASE FlowEnds
  BY <1>8, FlowEndsStep
<1>9. CASE UNCHANGED vars
  BY <1>9 DEF vars, chain, IInv, ChainType, FlowInv, Makes, Fresh, WorkedOn, OneIdEach, PlanInv,
              ResultsInv, ReportInv, Reports, Reported
<1> QED BY <1>1, <1>2, <1>3, <1>4, <1>5, <1>6, <1>7, <1>8, <1>9 DEF Next

\* The state of a chain is consistent with its calls and their replies: the
\* inductive invariant, in every run of every scenario, coordinator and stage.
THEOREM AlwaysConsistent == Spec => []IInv
BY InitInv, NextInv, PTL DEF Spec

\* Within a flow, a chain works on what it made: once a reply named an object,
\* the calls name that one, of every object but those the flow names by its plan
\* to the end (FromThePlan: the agent and registration of a registration, the
\* approval of a commercial action, the listing of preparation and matching); a
\* review reads the request that was executed.  From one of the coordinator's
\* scenarios to the next nothing of the kind holds (ContinuesOnReturnedIds).
THEOREM StepsFollowTheReplyHolds == Spec => []StepsFollowTheReply
<1>1. ASSUME IInv PROVE StepsFollowTheReply
  <2>1. ASSUME segments # <<>>, NEW s \in Slots \ FromThePlan(Head(segments)),
               named[s] # None, acted[s] # None
        PROVE  acted[s] = named[s]
    <3>1. OneIdEach(Head(segments))
      BY <1>1, <2>1 DEF IInv, FlowInv
    <3> QED BY <2>1, <3>1 DEF OneIdEach
  <2> QED BY <1>1, <2>1 DEF StepsFollowTheReply, IInv, ResultsInv
<1> QED BY <1>1, AlwaysConsistent, PTL

\* Evidence is of this run: what a run reports is what Core performed for it, the
\* ids it records are the ones its calls named, and a failed run reports nothing
\* (verification.ts, coordinator.ts, business-universe/orchestrator.ts).
THEOREM EvidenceIsOfTheRunHolds == Spec => []EvidenceIsOfTheRun
<1>1. ASSUME IInv PROVE EvidenceIsOfTheRun
  <2>1. outcome = "threw" => Reported = <<>>
    <3>1. SUFFICES ASSUME outcome = "threw" PROVE Reported = <<>>
      OBVIOUS
    <3>2. results = <<>> /\ bundle.calls = <<>>
      BY <1>1, <3>1 DEF IInv, ReportInv
    <3>3. Reports = <<>> /\ Reported = FlattenSeq(Reports) \o bundle.calls
      BY <3>2 DEF Reports, Reported
    <3>4. FlattenSeq(<<>>) = <<>> /\ <<>> \o <<>> = <<>>
      BY FlattenNone
    <3> QED BY <3>2, <3>3, <3>4
  <2> QED BY <1>1, <2>1 DEF EvidenceIsOfTheRun, IInv, ResultsInv, ReportInv
<1> QED BY <1>1, AlwaysConsistent, PTL
=============================================================================
