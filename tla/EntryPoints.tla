------------------------------ MODULE EntryPoints ------------------------------
(***************************************************************************)
(* The ways into the client: the commands of src/cli.ts, the MCP tools of  *)
(* src/discovery-catalog.ts with their dispatchers in src/mcp.ts, and the  *)
(* helpers an embedding program asks the orchestrator for.  An entry makes *)
(* one or more client calls; what it checks first (context, flags, fields  *)
(* of its input) is kept in tables of its own, next to the catalogue the   *)
(* orchestrator reads and the checks the client makes.                     *)
(***************************************************************************)
EXTENDS CapabilityOrchestrator, RouteCatalogue, Sequences

-----------------------------------------------------------------------------
(* The ids the path or the query of a client method names. *)

Naming(helpers, ids) == [h \in helpers |-> ids]

IntegrationPaths ==
    Naming({"connectAccountIntegrationInstallation"}, {"installation"})
    @@ Naming({"submitIntegrationOnboardingContract"}, {"integration"})

MembershipPaths ==
    Naming({"transferAccountMembershipAdmin", "removeAccountMembership"}, {"membership"})
    @@ Naming({"patchAgentSelfService"}, {"agent"})

ProvisionalPaths ==
    Naming({"queryProvisionalAgent"}, {"provisional"})
    @@ Naming({"postAccountAgentExecutionPresence", "getAccountAgentExecutionStatus",
               "uploadAccountAgentExecutionSync", "downloadAccountAgentExecutionSync"}, {"agent"})

ExecutionPaths ==
    Naming({"submitAccountAgentExecutionEvidence", "submitAccountAgentExecutionProposal",
            "createAccountAgentExecutionListing"}, {"agent"})
    @@ Naming({"activateAccountAgentExecutionListing", "getAccountAgentExecutionListingStatus",
               "getAccountAgentExecutionListingMaterializationStatus",
               "updateAccountAgentExecutionListing"}, {"agent", "listing"})
    @@ Naming({"getAccountAgentExecutionOpportunityStatus",
               "getAccountAgentExecutionOpportunityEndState"}, {"agent", "opportunity"})

OperatorPaths ==
    Naming({"activateOperatorExecutionListing", "generateOperatorMatchCandidates",
            "listOperatorMatches"}, {"listing"})
    @@ Naming({"approveOperatorConnection"}, {"approval"})
    @@ Naming({"exportOperatorOpportunityPackage"}, {"opportunity"})
    @@ Naming({"getOperatorCommercialActionStatus", "getOperatorCommercialActionReceipt",
               "getOperatorCommercialActionAudit"}, {"commercial"})

AgentPaths ==
    Naming({"getAccountAgent", "getAccountAgentDispatchAuthority",
            "getAccountAgentClosureStatus", "refreshAccountAgentAuthorization",
            "createAccountAgentExternalBinding",
            "createAccountAgentDispatchAuthorityRequest"}, {"agent"})
    @@ Naming({"getAccountAgentIntegrationEligibility"}, {"agent", "integration"})
    @@ Naming({"decideDispatchAuthorityRequest"}, {"request"})

RegistrationPaths ==
    Naming({"getAgentPresence", "getAgentAuthority", "getAgentReadiness", "getAgentSummary",
            "getAgentRegistration", "getAgentAuthorityProfile", "getAgentAuthorityLadder",
            "getAgentCapabilityProfile", "postAgentAuthorityProfile",
            "postAgentAuthorityLadder", "postAgentCapabilityProfile",
            "listParticipationStates", "createParticipationState"}, {"registration"})
    @@ Naming({"getParticipationState"}, {"registration", "participation"})

TaskPaths ==
    Naming({"createLease", "listTaskDispatches", "createTaskDispatch", "createClaim"}, {"agent"})
    @@ Naming({"getTaskDispatch", "getAccountAgentGovernedWorkClosure", "assignTaskDispatch",
               "suspendTaskDispatch", "resumeTaskDispatch", "completeTaskDispatch",
               "failTaskDispatch", "createTaskDispatchOutcome",
               "createTaskDispatchEvidenceBundle",
               "createTaskDispatchConfirmationCycle"}, {"agent", "dispatch"})
    @@ Naming({"acceptClaim", "rejectClaim"}, {"agent", "claim"})
    @@ Naming({"getNotification", "acknowledgeNotification"}, {"agent", "notification"})
    @@ Naming({"retryNotification", "expireNotification"}, {"notification"})

ReadPaths ==
    Naming({"getCanonicalSemanticConcept", "getCanonicalSemanticLabel",
            "getCanonicalSemanticMapping", "getCanonicalSemanticTaxonomyEntry",
            "getCanonicalSemanticLineageLink", "getPricingBasis", "getPricingRuleAtom",
            "getPricingQuotationMethodModule", "getPricingQuoteTemplate",
            "getPricingQuotation", "getPricingExplanation", "getDocumentArtifact",
            "getMediaAsset", "getEvidenceAsset", "getAttachmentBinding", "getFileResource"},
           {"item"})
    @@ Naming({"listTargetAttachmentBindings"}, {"target"})

CommercialPaths ==
    Naming({"policyCheckCommercialAction", "requestCommercialActionApproval",
            "executeCommercialAction", "getCommercialActionStatus",
            "getCommercialActionReceipt", "getCommercialActionAudit"}, {"commercial"})
    @@ Naming({"activateListing", "generateMatchCandidates"}, {"listing"})
    @@ Naming({"approveConnectionRequest"}, {"approval"})
    @@ Naming({"exportOpportunityPackage"}, {"opportunity"})

Paths == IntegrationPaths @@ MembershipPaths @@ ProvisionalPaths @@ ExecutionPaths
         @@ OperatorPaths @@ AgentPaths @@ RegistrationPaths @@ TaskPaths
         @@ ReadPaths @@ CommercialPaths
PathIds(method) == IF method \in DOMAIN Paths THEN Paths[method] ELSE {}

-----------------------------------------------------------------------------
(* An entry: the client calls it may make, in the order it makes them; the  *)
(* ids it refuses to go without; the context it checks; the context keys    *)
(* its client is given; the helpers it asks the orchestrator to admit.      *)

Making(calls, ids) ==
    [calls |-> calls, ids |-> ids, requires |-> {}, carries |-> ContextKeys, via |-> {}]
\* Entries that make the one call they are named for
Each(methods, ids) == [m \in methods |-> Making(<<m>>, ids)]
Checking(context, entries) ==
    [e \in DOMAIN entries |-> [entries[e] EXCEPT !.requires = context]]
\* The client of a command keeps only some of the context.
Carrying(keys, entries) ==
    [e \in DOMAIN entries |-> [entries[e] EXCEPT !.carries = keys]]
\* An entry that goes through the orchestrator, with the catalogue's context
Governed(entries) ==
    [e \in DOMAIN entries |->
        [calls |-> entries[e].calls, ids |-> entries[e].ids,
         requires |-> Catalogue[e].requires, carries |-> entries[e].carries, via |-> {e}]]

\* An entry that asks the orchestrator, under a helper of another name
Asking(helper, entries) ==
    [e \in DOMAIN entries |-> [entries[e] EXCEPT !.via = {helper}]]

-----------------------------------------------------------------------------
(* The reads of the command line: a table of the flags a command refuses to *)
(* go without, and one of the calls.                                        *)

Flags(commands, ids) == [c \in commands |-> ids]

truthFetchRequiredFlagsByCommand ==
    Flags({"agent-presence", "agent-authority", "agent-readiness", "agent-summary",
           "agent-registration", "agent-authority-profile", "agent-authority-ladder",
           "agent-capability-profile", "participation-states"}, {"registration"})
    @@ Flags({"participation-state"}, {"registration", "participation"})
    @@ Flags({"account-agent-execution-status", "task-dispatches"}, {"agent"})
    @@ Flags({"account-agent-execution-listing-status",
              "account-agent-execution-materialization-status"}, {"agent", "listing"})
    @@ Flags({"account-agent-execution-opportunity-status",
              "account-agent-execution-opportunity-end-state"}, {"agent", "opportunity"})
    @@ Flags({"account-agent-integration-eligibility"}, {"agent", "integration"})
    @@ Flags({"task-dispatch", "governed-work-closure"}, {"agent", "dispatch"})
    @@ Flags({"canonical-semantic-concept", "canonical-semantic-label",
              "canonical-semantic-mapping", "canonical-semantic-taxonomy-entry",
              "canonical-semantic-lineage-link", "pricing-basis", "pricing-rule-atom",
              "pricing-quotation-method-module", "pricing-quote-template",
              "pricing-quotation", "pricing-explanation", "document-artifact",
              "media-asset", "evidence-asset", "attachment-binding"}, {"item"})

canonicalAccountAgentIdentifierCommands ==
    {"account-agent", "account-agent-dispatch-authority", "account-agent-closure-status",
     "governed-work-closure", "account-agent-dispatch-authority-request",
     "account-agent-authorization-refresh", "account-agent-external-binding",
     "agent-self-service"}

\* A bug to catch: only the flags of the reads are checked, and the agent is
\* left to the command.
CheckedFlagsOfReads(command) ==
    IF command \in DOMAIN truthFetchRequiredFlagsByCommand
        THEN truthFetchRequiredFlagsByCommand[command] ELSE {}

\* What runCli refuses to go without before it looks at the command: an agent
\* may be named by its registration.
CheckedFlags(command) ==
    (IF command \in canonicalAccountAgentIdentifierCommands THEN {"agent"} ELSE {})
    \cup (IF command \in DOMAIN truthFetchRequiredFlagsByCommand
              THEN truthFetchRequiredFlagsByCommand[command] ELSE {})

ReadsOfAccount ==
    "account-agents" :> "listAccountAgents"
    @@ "account-agent" :> "getAccountAgent"
    @@ "account-agent-dispatch-authority" :> "getAccountAgentDispatchAuthority"
    @@ "account-agent-closure-status" :> "getAccountAgentClosureStatus"
    @@ "account-agent-execution-status" :> "getAccountAgentExecutionStatus"
    @@ "account-agent-execution-listing-status" :> "getAccountAgentExecutionListingStatus"
    @@ "account-agent-execution-opportunity-status" :> "getAccountAgentExecutionOpportunityStatus"
    @@ "account-agent-execution-opportunity-end-state"
           :> "getAccountAgentExecutionOpportunityEndState"
    @@ "account-agent-execution-materialization-status"
           :> "getAccountAgentExecutionListingMaterializationStatus"
    @@ "public-integration-apps" :> "listPublicIntegrationApps"
    @@ "account-integration-apps" :> "listAccountIntegrationApps"
    @@ "account-integration-installations" :> "listAccountIntegrationInstallations"
    @@ "account-integration-capabilities" :> "listAccountIntegrationCapabilities"
    @@ "account-agent-integration-eligibility" :> "getAccountAgentIntegrationEligibility"
    @@ "account-agent-bindings" :> "listAccountAgentBindings"
    @@ "account-records" :> "listAccountRecords"

ReadsOfAgents ==
    "agent-presence" :> "getAgentPresence"
    @@ "agent-authority" :> "getAgentAuthority"
    @@ "agent-readiness" :> "getAgentReadiness"
    @@ "agent-summary" :> "getAgentSummary"
    @@ "agent-registrations" :> "listAgentRegistrations"
    @@ "agent-registration" :> "getAgentRegistration"
    @@ "authority-profiles" :> "listAuthorityProfiles"
    @@ "agent-authority-profile" :> "getAgentAuthorityProfile"
    @@ "agent-authority-ladder" :> "getAgentAuthorityLadder"
    @@ "capability-profiles" :> "listCapabilityProfiles"
    @@ "agent-capability-profile" :> "getAgentCapabilityProfile"
    @@ "participation-states" :> "listParticipationStates"
    @@ "participation-state" :> "getParticipationState"
    @@ "task-dispatches" :> "listTaskDispatches"
    @@ "task-dispatch" :> "getTaskDispatch"
    @@ "governed-work-closure" :> "getAccountAgentGovernedWorkClosure"

ReadsOfBusiness ==
    "canonical-semantic-concepts" :> "listCanonicalSemanticConcepts"
    @@ "canonical-semantic-concept" :> "getCanonicalSemanticConcept"
    @@ "canonical-semantic-labels" :> "listCanonicalSemanticLabels"
    @@ "canonical-semantic-label" :> "getCanonicalSemanticLabel"
    @@ "canonical-semantic-mappings" :> "listCanonicalSemanticMappings"
    @@ "canonical-semantic-mapping" :> "getCanonicalSemanticMapping"
    @@ "canonical-semantic-taxonomy-entries" :> "listCanonicalSemanticTaxonomyEntries"
    @@ "canonical-semantic-taxonomy-entry" :> "getCanonicalSemanticTaxonomyEntry"
    @@ "canonical-semantic-lineage-links" :> "listCanonicalSemanticLineageLinks"
    @@ "canonical-semantic-lineage-link" :> "getCanonicalSemanticLineageLink"
    @@ "pricing-bases" :> "listPricingBases"
    @@ "pricing-basis" :> "getPricingBasis"
    @@ "pricing-rule-atoms" :> "listPricingRuleAtoms"
    @@ "pricing-rule-atom" :> "getPricingRuleAtom"
    @@ "pricing-quotation-method-modules" :> "listPricingQuotationMethodModules"
    @@ "pricing-quotation-method-module" :> "getPricingQuotationMethodModule"

ReadsOfOffers ==
    "pricing-quote-templates" :> "listPricingQuoteTemplates"
    @@ "pricing-quote-template" :> "getPricingQuoteTemplate"
    @@ "pricing-quotations" :> "listPricingQuotations"
    @@ "pricing-quotation" :> "getPricingQuotation"
    @@ "pricing-explanations" :> "listPricingExplanations"
    @@ "pricing-explanation" :> "getPricingExplanation"
    @@ "document-artifacts" :> "listDocumentArtifacts"
    @@ "document-artifact" :> "getDocumentArtifact"
    @@ "media-assets" :> "listMediaAssets"
    @@ "media-asset" :> "getMediaAsset"
    @@ "evidence-assets" :> "listEvidenceAssets"
    @@ "evidence-asset" :> "getEvidenceAsset"
    @@ "attachment-bindings" :> "listAttachmentBindings"
    @@ "attachment-binding" :> "getAttachmentBinding"

\* A read checks no context of its own.
TruthFetchCommands ==
    LET reads == ReadsOfAccount @@ ReadsOfAgents @@ ReadsOfBusiness @@ ReadsOfOffers
    IN  [c \in DOMAIN reads |-> Making(<<reads[c]>>, CheckedFlags(c))]

-----------------------------------------------------------------------------
(* The other commands. *)

\* The first two know nothing of a session, whatever the environment says.
OnboardingCommands ==
    Asking("createProvisionalAgent", Checking(Tenant, Carrying({"tenantId", "adminSessionId"},
        "create-provisional-agent" :> Making(<<"createProvisionalAgent">>, {"provisional"}))))
    @@ Asking("queryProvisionalAgent", Checking(Tenant, Carrying({"tenantId", "adminSessionId"},
        "query-provisional-agent" :> Making(<<"queryProvisionalAgent">>, {"provisional"}))))
    @@ Asking("claimProvisionalAgent", Checking(Session,
        "claim-provisional-agent" :> Making(<<"claimProvisionalAgent">>, {"provisional"})))

SignedInCommands ==
    "account-me" :> Making(<<"getAccountMe">>, {})
    @@ "select-org" :> Making(<<"selectOrg">>, {})
    @@ "create-account-integration-app" :> Making(<<"createAccountIntegrationApp">>, {})
    @@ "create-account-integration-installation"
           :> Making(<<"createAccountIntegrationInstallation">>, {})
    @@ "connect-account-integration-installation"
           :> Making(<<"connectAccountIntegrationInstallation">>, {"installation"})

\* The account's agents: self-service looks at the agent before it patches it.
AgentCommands ==
    "agent-self-service"
        :> Making(<<"getAccountAgent", "patchAgentSelfService">>, {"agent"})
    @@ "account-agent-authorization-refresh"
        :> Making(<<"refreshAccountAgentAuthorization">>, {"agent"})
    @@ "account-agent-external-binding"
        :> Making(<<"createAccountAgentExternalBinding">>, {"agent"})
    @@ "account-agent-dispatch-authority-request"
        :> Making(<<"createAccountAgentDispatchAuthorityRequest">>, {"agent"})
    @@ "session-refresh" :> Making(<<"refreshSession">>, {})
    @@ "session-revoke" :> Making(<<"revokeSession">>, {})

IdentityCommands ==
    Carrying(ContextKeys \ {"principalId", "registrationId"},
        Each({"signUpPersonalAccount", "signUpEnterpriseAccount", "signIn"}, {})
        @@ Checking(Session, SignedInCommands @@ AgentCommands)
        @@ Checking(AdminSession, "operator-dispatch-authority-decision"
                        :> Making(<<"decideDispatchAuthorityRequest">>, {"request"})))

Readiness == <<"getAccountAgent", "getAccountAgentClosureStatus">>
\* One of the last three, by the step the agent's status recommends
Repair == Readiness \o <<"patchAgentSelfService", "createAccountAgentExternalBinding",
                         "createAccountAgentDispatchAuthorityRequest">>

\* Nothing checks the listing and the target a handoff is inspected by.
ClaimantCommands ==
    Checking({"sessionId"},
        "claimant-precondition-inspect" :> Making(<<"getAccountMe">>, {})
        @@ "claimant-precondition-establish-canonical-company-public"
               :> Making(<<"acceptAccountMembershipInvitation", "getAccountMe", "selectOrg",
                           "getAccountMe">>, {}))
    @@ Checking(Session,
        "claimant-readiness-inspect" :> Making(Readiness, {"agent"})
        @@ "claimant-readiness-repair" :> Making(Repair, {"agent"})
        @@ "claimant-task-entry-inspect" :> Making(Readiness, {"agent"})
        @@ "claimant-handoff-inspect"
               :> Making(<<"getAccountMe", "getAccountAgentExecutionListingMaterializationStatus">>,
                         {"agent"})
        @@ "claimant-handoff-opportunity-status"
               :> Making(<<"getAccountAgentExecutionOpportunityStatus">>, {"agent"})
        @@ "claimant-handoff-opportunity-end-state"
               :> Making(<<"getAccountAgentExecutionOpportunityEndState">>, {"agent"}))
    @@ Checking(Session \cup Company,
        "claimant-task-entry-run" :> Making(<<"createTaskDispatch">>, {"agent"}))

CommercialWrites == <<"createCommercialAction", "policyCheckCommercialAction",
                      "requestCommercialActionApproval", "executeCommercialAction">>
CommercialReads  == <<"getOperatorCommercialActionStatus", "getOperatorCommercialActionReceipt",
                      "getOperatorCommercialActionAudit">>
Matching == <<"createOperatorExecutionListing", "activateOperatorExecutionListing",
              "generateOperatorMatchCandidates", "listOperatorMatches">>

\* A bug to catch: the status of a commercial action is read before the writes.
CommercialRunReadingFirst == CommercialReads \o CommercialWrites
CommercialRun == CommercialWrites \o CommercialReads

\* The session of an operator is checked; the company a commercial action is
\* written for is not.  Nor are the listing of a handoff, the candidate's
\* listing, and the id of the action, read off the reply that created it.
OperatorCommands ==
    Checking(AdminSession,
        "operator-handoff-consume" :> Making(<<"listOperatorMatches">>, {})
        @@ "operator-progression-match" :> Making(Matching, {})
        @@ "operator-progression-connect"
               :> Making(<<"createOperatorConnection", "approveOperatorConnection">>, {"approval"})
        @@ "operator-progression-approve" :> Making(<<"approveOperatorConnection">>, {"approval"})
        @@ "operator-progression-package-export"
               :> Making(<<"exportOperatorOpportunityPackage">>, {"opportunity"})
        @@ "operator-closure-commercial-action-run" :> Making(CommercialRun, {})
        @@ "operator-closure-inspect" :> Making(CommercialReads, {"commercial"}))

TaskPlaneCommands ==
    Checking(Session \cup Company,
        Each({"createLease", "createTaskDispatch", "createClaim"}, {"agent"})
        @@ Each({"createTaskDispatchOutcome", "createTaskDispatchEvidenceBundle",
                 "createTaskDispatchConfirmationCycle"}, {"agent", "dispatch"}))

TaskPlaneTransitions ==
    Checking(Session \cup Company,
        Each({"assignTaskDispatch", "suspendTaskDispatch", "resumeTaskDispatch",
              "completeTaskDispatch", "failTaskDispatch"}, {"agent", "dispatch"})
        @@ Each({"acceptClaim", "rejectClaim"}, {"agent", "claim"}))

\* heartbeat, sync-upload, evidence and proposal, by the helper they run
ExecutionCommands ==
    Governed(Each({"postHeartbeat", "uploadSync", "submitEvidence", "submitProposal"}, {}))

IndustryChain == <<"createListing", "activateListing", "generateMatchCandidates">>
IndustryCommand ==
    Governed("executeIndustryUniverseScenario" :> Making(IndustryChain, {}))

\* What an inspection reads goes by the ids it is given; nothing checks the
\* context.
UniverseInspections ==
    "universe inspect closure" :> Making(CommercialReads, {"commercial"})
    @@ "universe inspect handoff" :> Making(<<"listOperatorMatches">>, {"listing"})
    @@ "universe inspect materialization"
           :> Making(<<"getAccountMe", "getAccountAgentExecutionListingMaterializationStatus">>,
                     {"agent", "listing"})
    @@ "universe inspect readiness" :> Making(Readiness, {"agent"})
    @@ "universe inspect precondition" :> Making(<<"getAccountMe">>, {})

\* A run with the claimant's parts and the operator's matching; nothing checks
\* its context or the listing of its candidate.
UniverseCommands ==
    UniverseInspections
    @@ "universe run"
           :> Making(<<"acceptAccountMembershipInvitation", "getAccountMe">> \o Readiness
                     \o <<"createTaskDispatch">> \o Matching, {"agent"})

CliCommands ==
    TruthFetchCommands @@ OnboardingCommands @@ IdentityCommands @@ ClaimantCommands
    @@ OperatorCommands @@ TaskPlaneCommands @@ TaskPlaneTransitions @@ ExecutionCommands
    @@ IndustryCommand @@ UniverseCommands

-----------------------------------------------------------------------------
(* The tools of the MCP server: the bindings of the local discovery         *)
(* catalogue, and the dispatchers with the input fields they refuse to go   *)
(* without.  A preview runs on a client that sends nothing and is left out. *)

IntegrationAndExecutionReadTools ==
    {"listPublicIntegrationApps", "listAccountIntegrationApps",
     "listAccountIntegrationInstallations", "listAccountIntegrationCapabilities",
     "getAccountAgentIntegrationEligibility", "queryProvisionalAgent",
     "getAccountAgentClosureStatus", "getAccountAgentExecutionStatus",
     "getAccountAgentExecutionListingStatus", "getAccountAgentExecutionOpportunityStatus",
     "getAccountAgentExecutionOpportunityEndState",
     "getAccountAgentExecutionListingMaterializationStatus", "getAgentReadiness",
     "inspectClaimantPrecondition", "inspectClaimantReadiness", "consumeOperatorHandoff",
     "inspectOperatorCommercialAction", "inspectPlatformManagedEntry"}

GovernedReadTools ==
    {"inspectPlatformManagedReadiness", "inspectClaimantHandoff",
     "inspectClaimantOpportunityStatus", "inspectClaimantOpportunityEndState",
     "getAgentSummary", "listAgentRegistrations", "getAgentRegistration",
     "listAuthorityProfiles", "getAgentAuthorityProfile", "getAgentAuthorityLadder",
     "listCapabilityProfiles", "getAgentCapabilityProfile", "listParticipationStates",
     "getParticipationState", "listTaskDispatches", "getTaskDispatch", "getNotification",
     "getAccountAgentGovernedWorkClosure"}

LocalReadTools ==
    {"listAccountAgents", "listAccountAgentBindings", "listAccountRecords",
     "getAgentPresence", "getAgentAuthority", "listCanonicalSemanticConcepts",
     "getCanonicalSemanticConcept", "listPricingBases", "getPricingBasis",
     "listDocumentArtifacts", "getDocumentArtifact", "listMediaAssets", "getMediaAsset",
     "listEvidenceAssets", "getEvidenceAsset", "listAttachmentBindings",
     "getAttachmentBinding"}

ClaimantExecutionTools ==
    {"acknowledgeNotification", "createProvisionalAgent", "claimProvisionalAgent",
     "createAccountIntegrationApp", "createAccountIntegrationInstallation",
     "connectAccountIntegrationInstallation", "postAccountAgentExecutionPresence",
     "uploadAccountAgentExecutionSync", "downloadAccountAgentExecutionSync",
     "submitAccountAgentExecutionEvidence", "submitAccountAgentExecutionProposal",
     "createAccountAgentExecutionListing", "activateAccountAgentExecutionListing",
     "createTaskDispatchOutcome", "createTaskDispatchEvidenceBundle",
     "createTaskDispatchConfirmationCycle",
     "establishClaimantCanonicalCompanyPublicPrecondition", "repairClaimantReadiness"}

OperatorExecutionTools ==
    {"runOperatorMatching", "runOperatorConnectionContinuation",
     "runOperatorApprovalContinuation", "runOperatorPackageExport",
     "runOperatorCommercialAction", "runPlatformManagedProgression", "runClaimantTaskEntry",
     "refreshAccountAgentAuthorization", "createAccountAgentExternalBinding",
     "decideDispatchAuthorityRequest", "downloadSync", "createParticipationState",
     "createLease", "createTaskDispatch", "assignTaskDispatch", "suspendTaskDispatch",
     "resumeTaskDispatch"}

TaskAndProfileTools ==
    {"completeTaskDispatch", "failTaskDispatch", "createClaim", "acceptClaim", "rejectClaim",
     "postAgentAuthorityProfile", "postAgentAuthorityLadder", "postAgentCapabilityProfile",
     "createCommercialAction", "requestCommercialActionApproval", "executeCommercialAction"}

LocalExecutionTools ==
    {"executeIndustryUniverseScenario", "postHeartbeat", "uploadSync", "submitEvidence",
     "submitProposal"}

\* shouldExposeMcpBinding: an execution tool with a gate that is not a grounded
\* execution is not offered.
Exposed(tools) ==
    {t \in tools : t \in DOMAIN Matrix => Matrix[t] = "packet-grounded-execution"}
ReadTools == IntegrationAndExecutionReadTools \cup GovernedReadTools \cup LocalReadTools
ExecutionTools == Exposed(ClaimantExecutionTools \cup OperatorExecutionTools
                          \cup TaskAndProfileTools \cup LocalExecutionTools)

\* dispatchGovernanceTruthFetchTool, in four stretches
AccountDispatch ==
    Each({"listAccountAgents", "listPublicIntegrationApps", "listAccountIntegrationApps",
          "listAccountIntegrationInstallations", "listAccountIntegrationCapabilities"}, {})
    @@ Each({"getAccountAgentClosureStatus", "getAccountAgentExecutionStatus"}, {"agent"})
    @@ Each({"getAccountAgentExecutionListingStatus",
             "getAccountAgentExecutionListingMaterializationStatus"}, {"agent", "listing"})
    @@ Each({"getAccountAgentExecutionOpportunityStatus",
             "getAccountAgentExecutionOpportunityEndState"}, {"agent", "opportunity"})
    @@ Each({"getAccountAgentIntegrationEligibility"}, {"agent", "integration"})

BusinessDispatch ==
    Each({"listAccountAgentBindings", "listAccountRecords", "listAgentRegistrations",
          "listAuthorityProfiles", "listCapabilityProfiles", "listCanonicalSemanticConcepts",
          "listPricingBases", "listDocumentArtifacts"}, {})
    @@ Each({"queryProvisionalAgent"}, {"provisional"})
    @@ Each({"getCanonicalSemanticConcept", "getPricingBasis", "getDocumentArtifact"}, {"item"})

AssetAndOperatorDispatch ==
    Each({"listMediaAssets", "listEvidenceAssets", "listAttachmentBindings"}, {})
    @@ Each({"getMediaAsset", "getEvidenceAsset", "getAttachmentBinding"}, {"item"})
    @@ Each({"getNotification"}, {"agent", "notification"})
    @@ Each({"getAgentReadiness", "getAgentSummary", "getAgentRegistration"}, {"registration"})
    @@ "consumeOperatorHandoff" :> Making(<<"listOperatorMatches">>, {"listing"})
    @@ "inspectOperatorCommercialAction" :> Making(CommercialReads, {"commercial"})

\* The platform's inspections are local.
RoleDispatch ==
    "inspectPlatformManagedEntry" :> Making(<<>>, {})
    @@ "inspectPlatformManagedReadiness" :> Making(<<>>, {})
    @@ "inspectClaimantPrecondition" :> Making(<<"getAccountMe">>, {})
    @@ "inspectClaimantReadiness" :> Making(Readiness, {"agent"})
    @@ "inspectClaimantHandoff"
           :> Making(<<"getAccountMe", "getAccountAgentExecutionListingMaterializationStatus">>,
                     {"agent", "listing"})
    @@ "inspectClaimantOpportunityStatus"
           :> Making(<<"getAccountAgentExecutionOpportunityStatus">>, {"agent", "opportunity"})
    @@ "inspectClaimantOpportunityEndState"
           :> Making(<<"getAccountAgentExecutionOpportunityEndState">>, {"agent", "opportunity"})

GovernedDispatch ==
    Each({"getAgentAuthorityProfile", "getAgentAuthorityLadder", "getAgentCapabilityProfile",
          "listParticipationStates", "getAgentPresence", "getAgentAuthority"},
         {"registration"})
    @@ Each({"getParticipationState"}, {"registration", "participation"})
    @@ Each({"listTaskDispatches"}, {"agent"})
    @@ Each({"getTaskDispatch", "getAccountAgentGovernedWorkClosure"}, {"agent", "dispatch"})

TruthFetchDispatch ==
    AccountDispatch @@ BusinessDispatch @@ AssetAndOperatorDispatch @@ RoleDispatch
    @@ GovernedDispatch

\* widenedExecutionDispatchersByCapabilityKey, in four stretches
RoleExecutions ==
    "establishClaimantCanonicalCompanyPublicPrecondition"
        :> Making(<<"acceptAccountMembershipInvitation", "getAccountMe", "selectOrg",
                    "getAccountMe">>, {})
    @@ "repairClaimantReadiness" :> Making(Repair, {"agent"})
    @@ "runClaimantTaskEntry" :> Making(<<"createTaskDispatch">>, {"agent"})
    @@ "runOperatorMatching" :> Making(Matching, {"listing"})
    @@ "runOperatorConnectionContinuation"
           :> Making(<<"createOperatorConnection", "approveOperatorConnection">>, {"approval"})
    @@ "runOperatorApprovalContinuation" :> Making(<<"approveOperatorConnection">>, {"approval"})
    @@ "runOperatorPackageExport"
           :> Making(<<"exportOperatorOpportunityPackage">>, {"opportunity"})
    @@ "runOperatorCommercialAction" :> Making(CommercialRun, {})
    @@ "runPlatformManagedProgression" :> Making(<<>>, {})
    @@ "executeIndustryUniverseScenario" :> Making(IndustryChain, {})

AccountExecutions ==
    Each({"createProvisionalAgent", "claimProvisionalAgent"}, {})
    @@ Each({"acknowledgeNotification"}, {"agent", "notification"})
    @@ Each({"postAccountAgentExecutionPresence", "uploadAccountAgentExecutionSync",
             "downloadAccountAgentExecutionSync", "submitAccountAgentExecutionEvidence",
             "submitAccountAgentExecutionProposal", "createAccountAgentExecutionListing",
             "refreshAccountAgentAuthorization", "createAccountAgentExternalBinding"},
            {"agent"})
    @@ Each({"activateAccountAgentExecutionListing"}, {"agent", "listing"})

AuthorityExecutions ==
    Each({"createAccountIntegrationApp", "createAccountIntegrationInstallation",
          "downloadSync"}, {})
    @@ Each({"connectAccountIntegrationInstallation"}, {"installation"})
    @@ Each({"decideDispatchAuthorityRequest"}, {"request"})
    @@ Each({"createParticipationState"}, {"registration"})
    @@ Each({"createLease", "createTaskDispatch"}, {"agent"})
    @@ Each({"createTaskDispatchOutcome", "createTaskDispatchEvidenceBundle",
             "createTaskDispatchConfirmationCycle"}, {"agent", "dispatch"})

TaskExecutions ==
    Each({"assignTaskDispatch", "suspendTaskDispatch", "resumeTaskDispatch",
          "completeTaskDispatch", "failTaskDispatch"}, {"agent", "dispatch"})
    @@ Each({"createClaim"}, {"agent"})
    @@ Each({"acceptClaim", "rejectClaim"}, {"agent", "claim"})
    @@ Each({"postAgentAuthorityProfile", "postAgentAuthorityLadder",
             "postAgentCapabilityProfile"}, {"registration"})

\* The registered agent execution adapters
AdapterExecutions == Each({"postHeartbeat", "uploadSync", "submitEvidence", "submitProposal"}, {})

ExecutionDispatch ==
    RoleExecutions @@ AccountExecutions @@ AuthorityExecutions @@ TaskExecutions
    @@ AdapterExecutions

\* dispatchMcpToolCall: a read asks its client directly, an execution has its
\* context checked twice, before and by the orchestrator.
Dispatched(tools, dispatch) == [t \in tools \cap DOMAIN dispatch |-> dispatch[t]]
McpTools == Dispatched(ReadTools, TruthFetchDispatch)
            @@ Governed(Dispatched(ExecutionTools, ExecutionDispatch))

-----------------------------------------------------------------------------
\* What an embedding program asks the orchestrator for by helper: nothing else
\* is checked, and the ids are its own affair.
SdkHelpers ==
    [h \in DOMAIN Catalogue \cap DOMAIN Client |->
        [Making(<<h>>, PathIds(h)) EXCEPT !.via = {h}]]

\* The context an entry's client has, of the identity at hand
Held(e) == identity \cap e.carries
\* What an entry checks before it makes its first call
Goes(e) == e.requires \subseteq Held(e) /\ \A h \in e.via : Admitted(Registry[h])
\* What the client method of a call checks before it sends its request
Allowed(e, i) == Client[e.calls[i]].demands \subseteq Held(e)
\* The calls an entry gets to: one that is refused throws past the rest.
Reached(e) == {i \in DOMAIN e.calls : \A j \in 1 .. i : Allowed(e, j)}

\* Entries whose calls take an id off a reply, or off an input nobody checked
Unguarded == {"claimant-handoff-inspect", "claimant-handoff-opportunity-status",
              "claimant-handoff-opportunity-end-state", "operator-handoff-consume",
              "operator-progression-match", "operator-closure-commercial-action-run",
              "universe run", "runOperatorMatching", "runOperatorCommercialAction",
              "executeIndustryUniverseScenario"}

RefusedFirst(entries) ==
    \A n \in DOMAIN entries \ {"universe run"} :
        LET e == entries[n]
        IN  Goes(e) /\ (\E i \in DOMAIN e.calls : ~Allowed(e, i)) => ~Allowed(e, 1)

\* A way in that is let go and refused by the client is refused before its
\* first request: no entry writes half of what it is for and then throws for
\* context.  Only a run of the universe, whose parts belong to different
\* identities, does.
RefusedBeforeSending ==
    /\ RefusedFirst(CliCommands)
    /\ RefusedFirst(McpTools)
    /\ RefusedFirst(SdkHelpers)

Whole(entries) ==
    \A n \in DOMAIN entries :
        LET e == entries[n]
        IN  Goes(e) => \A i \in Reached(e) :
                          /\ Client[e.calls[i]].writes \subseteq Held(e)
                          /\ n \in Unguarded \/ PathIds(e.calls[i]) \subseteq e.ids

\* Whatever the identity and whichever way in, no request goes out without a
\* context key that it writes into path or headers, and an entry that checks ids
\* checks all that its paths name: what the entry checks, what the catalogue
\* requires and what the client demands cover what the client writes.  The
\* registration routes never check their tenant (src/client.ts:2802-2809) and no
\* method checks an id.  Of ids this says nothing where nobody checks them: the
\* entries of Unguarded pass some on as they come (src/cli.ts:2091, :2098), and
\* their paths may hold "undefined"; a helper's ids are what its caller passes.
EveryRequestIsWhole == Whole(CliCommands) /\ Whole(McpTools) /\ Whole(SdkHelpers)

=============================================================================
