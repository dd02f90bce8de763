---------------------------- MODULE RouteCatalogue ----------------------------
(***************************************************************************)
(* The three tables a capability call goes through, each kept by hand:     *)
(*   Catalogue (src/capabilities.ts)     what the orchestrator asks for,   *)
(*   Matrix    (src/core-payload-contract-matrix.ts)   whether Core's      *)
(*             payload packet grounds the helper,                          *)
(*   Client    (src/client.ts)           what the method that sends the    *)
(*             request demands of the context, and what it writes into the *)
(*             request.                                                    *)
(* Each definition is one stretch of a table; `Routes` joins them.         *)
(***************************************************************************)
\* A table of one key, and two stretches of a table put together: the operators of TLC's module,
\* defined here where a proof can see what they do.
d :> e == [x \in {d} |-> e]
Over(f, g) == [x \in DOMAIN f \cup DOMAIN g |-> IF x \in DOMAIN f THEN f[x] ELSE g[x]]
f @@ g == Over(f, g)

Tenant       == {"tenantId"}
Session      == {"tenantId", "sessionId"}
AdminSession == {"tenantId", "adminSessionId"}
Principal    == {"tenantId", "principalId"}
Registration == {"tenantId", "registrationId", "principalId"}
Company      == {"tenantId", "principalId", "companyId"}

-----------------------------------------------------------------------------
(* Catalogue.  A route is filed under an access context family, with the  *)
(* context it requires, read or write; `public` is the context semantic    *)
(* public-provisional, `commercial` the route prefix                       *)
(* /runtime/commercial-actions.                                            *)

Entries(helpers, family, requires, write) ==
    [h \in helpers |-> [family |-> family, requires |-> requires, write |-> write,
                        public |-> FALSE, commercial |-> FALSE]]
Public(entries)     == [h \in DOMAIN entries |-> [entries[h] EXCEPT !.public = TRUE]]
Commercial(entries) == [h \in DOMAIN entries |-> [entries[h] EXCEPT !.commercial = TRUE]]

TenantReads(helpers)     == Entries(helpers, "tenant", Tenant, FALSE)
GovernedReads(helpers)   == Entries(helpers, "principal-governed-read", Principal, FALSE)
SessionReads(helpers)    == Entries(helpers, "session", Session, FALSE)
SessionWrites(helpers)   == Entries(helpers, "session", Session, TRUE)
OperatorReads(helpers)   == Entries(helpers, "admin-session", AdminSession, FALSE)
OperatorWrites(helpers)  == Entries(helpers, "admin-session", AdminSession, TRUE)
CompanyWrites(helpers)   == Entries(helpers, "operator-company", Company, TRUE)

AgentEntries ==
    GovernedReads({"getAgentReadiness", "getAgentSummary", "listAgentRegistrations",
        "getAgentRegistration", "listAuthorityProfiles", "getAgentAuthorityProfile",
        "getAgentAuthorityLadder", "listCapabilityProfiles", "getAgentCapabilityProfile"})
    @@ CompanyWrites({"postAgentAuthorityProfile", "postAgentAuthorityLadder",
                      "postAgentCapabilityProfile"})

SemanticAndPricingEntries ==
    TenantReads({"listCanonicalSemanticLabels", "getCanonicalSemanticLabel",
        "listCanonicalSemanticMappings", "getCanonicalSemanticMapping",
        "listPricingRuleAtoms", "getPricingRuleAtom",
        "listPricingQuotationMethodModules", "getPricingQuotationMethodModule",
        "listPricingQuoteTemplates", "getPricingQuoteTemplate", "listPricingQuotations",
        "getPricingQuotation", "listPricingExplanations", "getPricingExplanation"})

IntegrationEntries ==
    TenantReads({"listPublicIntegrationApps"})
    @@ SessionWrites({"createAccountIntegrationApp", "createAccountIntegrationInstallation",
                      "connectAccountIntegrationInstallation"})
    @@ SessionReads({"listAccountIntegrationApps", "listAccountIntegrationInstallations",
                     "listAccountIntegrationCapabilities",
                     "getAccountAgentIntegrationEligibility"})
    @@ Entries({"submitIntegrationOnboardingContract", "logInHaisiWms",
                "createHaisiWmsInbound"}, "principal-governed-read", Principal, TRUE)
    @@ GovernedReads({"listHaisiWmsWarehouses"})

\* A bug to catch: the heartbeat family is filed without its tenant.
OnboardingEntriesWithoutTenant ==
    Public(Entries({"createProvisionalAgent"}, "tenant", Tenant, TRUE))
    @@ Public(TenantReads({"queryProvisionalAgent"}))
    @@ SessionWrites({"claimProvisionalAgent"})
    @@ Entries({"postHeartbeat", "uploadSync", "submitEvidence", "submitProposal"},
               "registration", Registration \ Tenant, TRUE)
    @@ Entries({"downloadSync"}, "registration", Registration, FALSE)

OnboardingEntries ==
    Public(Entries({"createProvisionalAgent"}, "tenant", Tenant, TRUE))
    @@ Public(TenantReads({"queryProvisionalAgent"}))
    @@ SessionWrites({"claimProvisionalAgent"})
    @@ Entries({"postHeartbeat", "uploadSync", "submitEvidence", "submitProposal"},
               "registration", Registration, TRUE)
    @@ Entries({"downloadSync"}, "registration", Registration, FALSE)

AccountEntries ==
    SessionReads({"getAccountMe", "listAccountAgents", "getAccountAgent",
                  "getAccountAgentDispatchAuthority", "getAccountAgentClosureStatus"})
    @@ SessionWrites({"selectOrg", "createAccountMembershipInvitation",
        "acceptAccountMembershipInvitation", "transferAccountMembershipAdmin",
        "removeAccountMembership", "patchAgentSelfService",
        "createAccountAgentDispatchAuthorityRequest"})

ExecutionEntries ==
    SessionWrites({"postAccountAgentExecutionPresence", "uploadAccountAgentExecutionSync",
        "submitAccountAgentExecutionEvidence", "submitAccountAgentExecutionProposal",
        "createAccountAgentExecutionListing", "activateAccountAgentExecutionListing",
        "updateAccountAgentExecutionListing"})
    @@ SessionReads({"getAccountAgentExecutionStatus", "downloadAccountAgentExecutionSync",
        "getAccountAgentExecutionListingStatus", "getAccountAgentExecutionOpportunityStatus",
        "getAccountAgentExecutionOpportunityEndState"})

AuthorizationEntries ==
    SessionReads({"getAccountAgentExecutionListingMaterializationStatus",
                  "listAccountAgentBindings", "listAccountRecords"})
    @@ SessionWrites({"refreshAccountAgentAuthorization", "createAccountAgentExternalBinding"})
    @@ OperatorWrites({"decideDispatchAuthorityRequest"})
    @@ GovernedReads({"getAgentPresence", "getAgentAuthority"})

AssetEntries ==
    TenantReads({"listCanonicalSemanticConcepts", "getCanonicalSemanticConcept",
        "listPricingBases", "getPricingBasis", "listDocumentArtifacts",
        "getDocumentArtifact", "listMediaAssets", "getMediaAsset", "listEvidenceAssets",
        "getEvidenceAsset", "listAttachmentBindings", "getAttachmentBinding"})

TaskEntries ==
    GovernedReads({"listParticipationStates", "getParticipationState",
                   "listTaskDispatches", "getTaskDispatch", "getNotification"})
    @@ SessionReads({"getAccountAgentGovernedWorkClosure"})
    @@ CompanyWrites({"createParticipationState", "createLease", "acknowledgeNotification",
        "createTaskDispatch", "assignTaskDispatch", "suspendTaskDispatch",
        "resumeTaskDispatch"})

TaskOutcomeEntries ==
    CompanyWrites({"completeTaskDispatch", "createTaskDispatchOutcome",
        "createTaskDispatchEvidenceBundle", "createTaskDispatchConfirmationCycle",
        "failTaskDispatch", "createClaim", "acceptClaim", "rejectClaim"})

CommercialEntries ==
    Commercial(CompanyWrites({"createCommercialAction", "policyCheckCommercialAction",
                              "requestCommercialActionApproval", "executeCommercialAction"}))
    @@ Commercial(GovernedReads({"getCommercialActionStatus", "getCommercialActionReceipt",
                                 "getCommercialActionAudit"}))
    @@ CompanyWrites({"createListing", "activateListing", "generateMatchCandidates",
                      "createConnectionRequest", "approveConnectionRequest",
                      "exportOpportunityPackage"})

ClaimantEntries ==
    Entries({"inspectClaimantPrecondition"}, "session", {"sessionId"}, FALSE)
    @@ Entries({"establishClaimantCanonicalCompanyPublicPrecondition"},
               "session", {"sessionId"}, TRUE)
    @@ SessionReads({"inspectClaimantReadiness", "inspectClaimantHandoff",
                     "inspectClaimantOpportunityStatus", "inspectClaimantOpportunityEndState"})
    @@ SessionWrites({"repairClaimantReadiness"})
    @@ Entries({"runClaimantTaskEntry"}, "session", Session \cup Company, TRUE)

OperatorEntries ==
    OperatorReads({"consumeOperatorHandoff", "inspectOperatorCommercialAction",
                   "inspectOperatorHandoffFailure"})
    @@ OperatorWrites({"runOperatorMatching", "runOperatorConnectionContinuation",
        "runOperatorApprovalContinuation", "runOperatorPackageExport",
        "runOperatorCommercialAction"})
    @@ Entries({"inspectPlatformManagedEntry", "inspectPlatformManagedReadiness"},
               "scenario", {}, FALSE)
    @@ Entries({"runPlatformManagedProgression"}, "scenario", {}, TRUE)

ScenarioEntries ==
    Entries({"buildIndustryUniverseScenarioPlan", "executeIndustryUniverseScenario",
             "buildConnectionApprovalScenarioPlan", "buildOpportunityPackageHandoffPlan"},
            "scenario", Company, TRUE)

Catalogue ==
    AgentEntries @@ SemanticAndPricingEntries @@ IntegrationEntries @@ OnboardingEntries
    @@ AccountEntries @@ ExecutionEntries @@ AuthorizationEntries @@ AssetEntries
    @@ TaskEntries @@ TaskOutcomeEntries @@ CommercialEntries @@ ClaimantEntries
    @@ OperatorEntries @@ ScenarioEntries

-----------------------------------------------------------------------------
(* Matrix: the execution truth of the helpers that have one. *)

Gate(helpers, truth) == [h \in helpers |-> truth]

IdentityGates ==
    Gate({"queryProvisionalAgent", "getAgentReadiness", "listAgentRegistrations",
          "getAgentRegistration", "getAccountAgentDispatchAuthority",
          "getAccountAgentClosureStatus"}, "packet-grounded-read")
    @@ Gate({"createProvisionalAgent", "claimProvisionalAgent",
             "createAccountAgentDispatchAuthorityRequest", "refreshAccountAgentAuthorization",
             "createAccountAgentExternalBinding", "decideDispatchAuthorityRequest"},
            "packet-grounded-execution")

TaskGates ==
    Gate({"listParticipationStates", "getParticipationState", "listTaskDispatches",
          "getTaskDispatch", "getAccountAgentGovernedWorkClosure"}, "packet-grounded-read")
    @@ Gate({"postHeartbeat", "createLease", "createClaim", "acceptClaim", "rejectClaim",
             "createParticipationState", "createTaskDispatch", "createTaskDispatchOutcome",
             "createTaskDispatchEvidenceBundle", "createTaskDispatchConfirmationCycle",
             "assignTaskDispatch", "suspendTaskDispatch", "resumeTaskDispatch",
             "completeTaskDispatch", "failTaskDispatch"}, "packet-grounded-execution")

CapabilityGates ==
    Gate({"listAuthorityProfiles", "listCapabilityProfiles", "getAgentSummary",
          "getAgentCapabilityProfile"}, "packet-grounded-read")
    @@ Gate({"refreshRemoteCapabilityTruth"}, "compatibility-only")

NotificationGates ==
    Gate({"getNotification"}, "packet-grounded-read")
    @@ Gate({"acknowledgeNotification"}, "packet-grounded-execution")
    @@ Gate({"createNotificationDelivery", "retryNotification", "expireNotification"},
            "compatibility-only")

IntegrationGates ==
    Gate({"listPublicIntegrationApps", "listAccountIntegrationApps",
          "listAccountIntegrationInstallations", "listAccountIntegrationCapabilities",
          "getAccountAgentIntegrationEligibility", "listDocumentArtifacts",
          "getDocumentArtifact", "listMediaAssets", "getMediaAsset", "listEvidenceAssets",
          "getEvidenceAsset", "listAttachmentBindings", "getAttachmentBinding",
          "getCommercialActionStatus", "getCommercialActionReceipt",
          "getCommercialActionAudit"}, "packet-grounded-read")
    @@ Gate({"createAccountIntegrationApp", "createAccountIntegrationInstallation",
             "connectAccountIntegrationInstallation"}, "packet-grounded-execution")
    @@ Gate({"submitIntegrationOnboardingContract", "logInHaisiWms", "listHaisiWmsWarehouses",
             "createHaisiWmsInbound", "createCommercialAction", "policyCheckCommercialAction",
             "requestCommercialActionApproval", "executeCommercialAction"},
            "compatibility-only")
    @@ Gate({"buildEvidenceSubmissionInput", "buildCommercialActionScenarioPlan",
             "runCommercialActionScenario", "readCommercialActionScenarioReview",
             "buildGovernedProposalReviewUsePlan", "buildGovernedProposalReviewUseResult",
             "buildOpportunityPackageHandoffPlan", "runOpportunityPackageHandoff"},
            "blocked-pending-packet")

Matrix == IdentityGates @@ TaskGates @@ CapabilityGates @@ NotificationGates @@ IntegrationGates

-----------------------------------------------------------------------------
(* Client.  `demands` is what the method throws without, `writes` what it   *)
(* puts into the path and the headers.                                     *)

Method(helpers, context) == [h \in helpers |-> [demands |-> context, writes |-> context]]

\* The builders of a request's headers, with the tenant of its path
Open(helpers)             == Method(helpers, {})
ByTenant(helpers)         == Method(helpers, Tenant)
BySession(helpers)        == Method(helpers, Session)
ByAdminSession(helpers)   == Method(helpers, AdminSession)
ByPrincipal(helpers)      == Method(helpers, Principal)
ByOperator(helpers)       == Method(helpers, Company)
ByAccountTask(helpers)    == Method(helpers, Company \cup Session)
\* registrationPath and requireRegistrationHeaders write a tenant they never check.
ByRegistration(helpers) ==
    [h \in helpers |-> [demands |-> Registration \ Tenant, writes |-> Registration]]

IntegrationMethods ==
    ByTenant({"listPublicIntegrationApps"})
    @@ BySession({"createAccountIntegrationApp", "listAccountIntegrationApps",
                  "createAccountIntegrationInstallation",
                  "listAccountIntegrationInstallations",
                  "connectAccountIntegrationInstallation"})
    @@ ByPrincipal({"submitIntegrationOnboardingContract"})

ProviderMethods ==
    ByPrincipal({"logInHaisiWms", "listHaisiWmsWarehouses", "createHaisiWmsInbound"})
    @@ Open({"signUpPersonalAccount", "signUpEnterpriseAccount", "signIn"})
    @@ BySession({"refreshSession", "revokeSession", "getAccountMe", "selectOrg"})

AccountMethods ==
    BySession({"createAccountMembershipInvitation", "acceptAccountMembershipInvitation",
               "transferAccountMembershipAdmin", "removeAccountMembership",
               "patchAgentSelfService"})

ProvisionalMethods ==
    Open({"createProvisionalAgent", "queryProvisionalAgent"})
    @@ BySession({"claimProvisionalAgent", "postAccountAgentExecutionPresence",
                  "getAccountAgentExecutionStatus", "uploadAccountAgentExecutionSync",
                  "downloadAccountAgentExecutionSync"})

ExecutionMethods ==
    BySession({"submitAccountAgentExecutionEvidence", "submitAccountAgentExecutionProposal",
               "createAccountAgentExecutionListing", "activateAccountAgentExecutionListing",
               "getAccountAgentExecutionListingStatus",
               "getAccountAgentExecutionListingMaterializationStatus"})

OpportunityMethods ==
    BySession({"updateAccountAgentExecutionListing",
               "getAccountAgentExecutionOpportunityStatus",
               "getAccountAgentExecutionOpportunityEndState"})
    @@ ByAdminSession({"createOperatorExecutionListing", "activateOperatorExecutionListing"})

OperatorMethods ==
    ByAdminSession({"generateOperatorMatchCandidates", "listOperatorMatches",
        "createOperatorConnection", "approveOperatorConnection",
        "exportOperatorOpportunityPackage", "getOperatorCommercialActionStatus",
        "getOperatorCommercialActionReceipt", "getOperatorCommercialActionAudit"})

RegistrationMethods ==
    ByRegistration({"postHeartbeat", "uploadSync", "downloadSync"})
    @@ BySession({"listAccountAgents", "getAccountAgent",
        "listAccountIntegrationCapabilities", "getAccountAgentIntegrationEligibility",
        "getAccountAgentDispatchAuthority", "getAccountAgentClosureStatus",
        "refreshAccountAgentAuthorization"})

AuthorityMethods ==
    BySession({"createAccountAgentExternalBinding",
               "createAccountAgentDispatchAuthorityRequest", "listAccountAgentBindings",
               "listAccountRecords"})
    @@ ByAdminSession({"decideDispatchAuthorityRequest"})
    @@ ByPrincipal({"getAgentPresence", "getAgentAuthority"})

ProfileMethods ==
    ByPrincipal({"getAgentReadiness", "getAgentSummary", "listAgentRegistrations",
        "getAgentRegistration", "listAuthorityProfiles", "getAgentAuthorityProfile",
        "getAgentAuthorityLadder", "listCapabilityProfiles", "getAgentCapabilityProfile"})

ParticipationMethods ==
    ByOperator({"postAgentAuthorityProfile", "postAgentAuthorityLadder",
                "postAgentCapabilityProfile", "createParticipationState"})
    @@ ByPrincipal({"listParticipationStates", "getParticipationState"})
    @@ ByAccountTask({"createLease"})

DispatchMethods ==
    BySession({"listTaskDispatches", "getTaskDispatch", "getAccountAgentGovernedWorkClosure"})
    @@ ByAccountTask({"createTaskDispatch"})
    @@ ByPrincipal({"getNotification"})
    @@ ByOperator({"createNotificationDelivery"})

NotificationMethods ==
    ByOperator({"acknowledgeNotification", "retryNotification", "expireNotification"})
    @@ ByAccountTask({"assignTaskDispatch", "suspendTaskDispatch", "resumeTaskDispatch"})

OutcomeMethods ==
    ByAccountTask({"completeTaskDispatch", "failTaskDispatch", "createTaskDispatchOutcome",
                   "createTaskDispatchEvidenceBundle",
                   "createTaskDispatchConfirmationCycle"})

ClaimMethods ==
    ByAccountTask({"createClaim", "acceptClaim", "rejectClaim"})
    @@ ByPrincipal({"listCanonicalSemanticConcepts", "getCanonicalSemanticConcept",
        "listCanonicalSemanticLabels", "getCanonicalSemanticLabel",
        "listCanonicalSemanticMappings"})

SemanticMethods ==
    ByPrincipal({"getCanonicalSemanticMapping", "listCanonicalSemanticTaxonomyEntries",
        "getCanonicalSemanticTaxonomyEntry", "listCanonicalSemanticLineageLinks",
        "getCanonicalSemanticLineageLink", "listPricingBases", "getPricingBasis",
        "listPricingRuleAtoms", "getPricingRuleAtom", "listPricingQuotationMethodModules"})

PricingMethods ==
    ByPrincipal({"getPricingQuotationMethodModule", "listPricingQuoteTemplates",
        "getPricingQuoteTemplate", "listPricingQuotations", "getPricingQuotation",
        "listPricingExplanations", "getPricingExplanation", "listDocumentArtifacts",
        "getDocumentArtifact", "listMediaAssets", "getMediaAsset"})

AssetMethods ==
    ByPrincipal({"listEvidenceAssets", "getEvidenceAsset", "listAttachmentBindings",
        "getAttachmentBinding", "listFileResources", "getFileResource",
        "listTargetAttachmentBindings"})
    @@ ByRegistration({"submitEvidence", "submitProposal"})

CommercialMethods ==
    ByOperator({"createCommercialAction", "policyCheckCommercialAction",
                "requestCommercialActionApproval", "executeCommercialAction"})
    @@ ByPrincipal({"getCommercialActionStatus", "getCommercialActionReceipt",
                    "getCommercialActionAudit"})

ListingMethods ==
    ByOperator({"createListing", "activateListing", "generateMatchCandidates",
                "createConnectionRequest", "approveConnectionRequest",
                "exportOpportunityPackage"})

Client ==
    IntegrationMethods @@ ProviderMethods @@ AccountMethods @@ ProvisionalMethods
    @@ ExecutionMethods @@ OpportunityMethods @@ OperatorMethods @@ RegistrationMethods
    @@ AuthorityMethods @@ ProfileMethods @@ ParticipationMethods @@ DispatchMethods
    @@ NotificationMethods @@ OutcomeMethods @@ ClaimMethods @@ SemanticMethods
    @@ PricingMethods @@ AssetMethods @@ CommercialMethods @@ ListingMethods

-----------------------------------------------------------------------------
\* What the orchestrator reads of a helper
Routes ==
    [h \in DOMAIN Catalogue |->
        [family |-> Catalogue[h].family, requires |-> Catalogue[h].requires,
         write |-> Catalogue[h].write, public |-> Catalogue[h].public,
         commercial |-> Catalogue[h].commercial,
         gate |-> IF h \in DOMAIN Matrix THEN Matrix[h] ELSE "none"]]

=============================================================================
