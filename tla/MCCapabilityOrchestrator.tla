---------------------- MODULE MCCapabilityOrchestrator ----------------------
(* CapabilityOrchestrator and EntryPoints over the shipped catalogue. *)
EXTENDS EntryPoints

Shipped == Routes

Keys == {"tenantId", "principalId", "companyId", "registrationId", "sessionId", "adminSessionId"}

\* One helper of each kind of policy: a governed read, an open and a session
\* write, writes of a company with and without a demand the catalogue lacks, a
\* runtime write, a gated commercial action and a route no policy fits.
AskedFor == {"getAgentReadiness", "createProvisionalAgent", "claimProvisionalAgent",
             "createParticipationState", "postHeartbeat", "executeCommercialAction",
             "listCanonicalSemanticLabels"}

Ids == {"agent", "registration", "listing", "approval", "request", "opportunity",
        "integration", "installation", "membership", "provisional", "commercial",
        "participation", "dispatch", "claim", "notification", "item", "target"}

Ways == [calls : Seq(DOMAIN Client), ids : SUBSET Ids, requires : SUBSET Keys,
         carries : SUBSET Keys, via : SUBSET DOMAIN Shipped]

\* The tables name keys, ids, methods and helpers there are.
ASSUME TablesAreTyped ==
    /\ Shipped \in [DOMAIN Shipped -> Capabilities]
    /\ Client \in [DOMAIN Client -> [demands : SUBSET Keys, writes : SUBSET Keys]]
    /\ Paths \in [DOMAIN Paths -> SUBSET Ids] /\ DOMAIN Paths \subseteq DOMAIN Client
    /\ CliCommands \in [DOMAIN CliCommands -> Ways]
    /\ McpTools \in [DOMAIN McpTools -> Ways]
    /\ SdkHelpers \in [DOMAIN SdkHelpers -> Ways]
=============================================================================
