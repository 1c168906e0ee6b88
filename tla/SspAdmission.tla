------------------------------ MODULE SspAdmission ------------------------------
(***************************************************************************)
(* What guards the SSP: the validating webhook of the operator              *)
(* (webhooks/ssp_webhook.go, with the conversion of v1beta2 requests) and    *)
(* the controller that widens its scope (controllers/webhook_controller.go). *)
(*                                                                          *)
(* The API server asks the webhook of the version that a request uses, when  *)
(* the configuration has no namespace selector or the selector matches.  OLM *)
(* installs the configuration with selectors for its own namespaces, and the *)
(* controller removes them.  The webhook lists the SSPs in an informer's     *)
(* cache, and tries a placement with the dry run of a Deployment.  The       *)
(* operator's own updates of an SSP, its finalizer, pass the webhook too.    *)
(***************************************************************************)
EXTENDS Naturals, Sequences, Architecture

CONSTANTS
    Namespaces,     \* where an SSP may be created
    OlmNamespaces,  \* the namespaces that the selectors of OLM match
    Specs,          \* the SSPs that users ask for
    MaxRequests,    \* bound: requests of users
    MaxInstalls     \* bound: changes of the configuration by OLM

Versions == {"v1beta2", "v1beta3"}

\* The webhooks of the configuration: one per version of the SSP, and one that
\* has no rule for the group of the SSP.
Hooks == Versions \cup {"other"}

\* What an SSP asks for.  named: its DataImportCron templates have names.
SspSpec(archNames) ==
    [multi: BOOLEAN, named: BOOLEAN, placement: {"none", "good", "bad"},
     cluster: [nil: BOOLEAN, cp: Seq(archNames), wl: Seq(archNames)]]

archsOf(spec) == Range(spec.cluster.cp) \cup Range(spec.cluster.wl)

ASSUME SpecsAssumption == \A spec \in Specs : spec \in SspSpec(archsOf(spec))

VARIABLES
    ssps,         \* namespace -> the SSP in it; {} or {[spec, finalizer, deleting, vetted]}
    listed,       \* the namespaces with an SSP in the informer's cache
    terminating,  \* the namespaces that are being deleted
    config,       \* the ValidatingWebhookConfiguration; {} or {[rv, labelled, selector]}
    configSeen,   \* the informer's copy of it
    configQueued, \* a request of the webhook configuration controller
    requests,
    installs

vars == <<ssps, listed, terminating, config, configSeen, configQueued, requests, installs>>

sspVars == <<ssps, listed, terminating, requests>>
configVars == <<config, configSeen, configQueued, installs>>

-----------------------------------------------------------------------------
(* sspValidator *)

\* placement: "none", "good", or "bad" (the dry run of the Deployment is
\* refused).  Nothing is created in a namespace that is being deleted.
validatePlacement(ns, spec) ==
    spec.placement = "none" \/ (spec.placement = "good" /\ ns \notin terminating)

validateDataImportCronTemplates(spec) == spec.named

validateSspObject(ns, spec) ==
    /\ validateCluster(spec)
    /\ validateDataImportCronTemplates(spec)
    /\ validatePlacement(ns, spec)

ValidateCreate(ns, spec) == listed = {} /\ validateSspObject(ns, spec)

\* Mutant: an update is validated like a creation.
ValidateUpdateAsCreate(ns, spec) == ValidateCreate(ns, spec)

ValidateUpdate(ns, spec) == validateSspObject(ns, spec)

\* v1beta2 knows neither the cluster nor its architectures.
ConvertSSP(version, spec) ==
    IF version = "v1beta3" THEN spec
    ELSE [spec EXCEPT !.multi = FALSE, !.cluster = [nil |-> TRUE, cp |-> <<>>, wl |-> <<>>]]

\* The API server calls the webhook of the version of the request.
Called(ns, version) ==
    \E c \in config : c.selector[version] => ns \in OlmNamespaces

Request == requests > 0 /\ requests' = requests - 1 /\ UNCHANGED configVars

CreateSsp(ns, version, spec) ==
    LET new == ConvertSSP(version, spec)
    IN  /\ Request
        /\ ssps[ns] = {} /\ ns \notin terminating
        /\ Called(ns, version) => ValidateCreate(ns, new)
        /\ ssps' = [ssps EXCEPT ![ns] = {[spec |-> new, finalizer |-> FALSE, deleting |-> FALSE,
                                          vetted |-> Called(ns, version)]}]
        /\ UNCHANGED <<listed, terminating>>

UpdateSsp(ns, version, spec) ==
    LET new == ConvertSSP(version, spec)
    IN  /\ Request
        /\ Called(ns, version) => ValidateUpdate(ns, new)
        /\ \E s \in ssps[ns] :
              ssps' = [ssps EXCEPT ![ns] = {[s EXCEPT !.spec = new, !.vetted = Called(ns, version)]}]
        /\ UNCHANGED <<listed, terminating>>

\* An SSP without finalizers is removed at once.
Marked(s) == IF s.finalizer THEN {[s EXCEPT !.deleting = TRUE]} ELSE {}

\* ValidateDelete admits every deletion.
DeleteSsp(ns) ==
    /\ Request
    /\ \E s \in ssps[ns] : ~s.deleting /\ ssps' = [ssps EXCEPT ![ns] = Marked(s)]
    /\ UNCHANGED <<listed, terminating>>

\* The deletion of the namespace deletes what is in it.
DeleteNamespace(ns) ==
    /\ Request
    /\ ns \notin terminating
    /\ terminating' = terminating \cup {ns}
    /\ ssps' = [ssps EXCEPT ![ns] = UNION {Marked(s) : s \in ssps[ns]}]
    /\ UNCHANGED listed

\* The informer catches up.
UpdateList ==
    /\ listed # {ns \in Namespaces : ssps[ns] # {}}
    /\ listed' = {ns \in Namespaces : ssps[ns] # {}}
    /\ UNCHANGED <<ssps, terminating, requests, configVars>>

-----------------------------------------------------------------------------
(* The finalizer that the SSP controller adds and, after cleanup, removes *)

AddFinalizer(ns) ==
    /\ \E s \in ssps[ns] :
          /\ ~s.finalizer /\ ~s.deleting
          /\ Called(ns, "v1beta3") => ValidateUpdate(ns, s.spec)
          /\ ssps' = [ssps EXCEPT ![ns] = {[s EXCEPT !.finalizer = TRUE,
                                                     !.vetted = Called(ns, "v1beta3")]}]
    /\ UNCHANGED <<listed, terminating, requests, configVars>>

RemoveFinalizer(ns) ==
    /\ \E s \in ssps[ns] :
          /\ s.deleting
          /\ Called(ns, "v1beta3") => ValidateUpdate(ns, s.spec)
          /\ ssps' = [ssps EXCEPT ![ns] = {}]
    /\ UNCHANGED <<listed, terminating, requests, configVars>>

-----------------------------------------------------------------------------
(* webhookCtrl *)

hasExpectedLabel(c) == c.labelled

\* Mutant: every selector of the configuration is removed.
updateWebhookConfigurationAll(c) == [c EXCEPT !.selector = [h \in Hooks |-> FALSE]]

updateWebhookConfiguration(c) ==
    [c EXCEPT !.selector = [h \in Hooks |-> h \notin Versions /\ c.selector[h]]]

\* The predicate judges the new object, and the old one of a deletion.
DeliverConfig ==
    /\ configSeen # config
    /\ configSeen' = config
    /\ configQueued' = (configQueued \/ \E c \in (IF config = {} THEN configSeen ELSE config) :
                                            hasExpectedLabel(c))
    /\ UNCHANGED <<config, installs, sspVars>>

ReconcileConfig ==
    /\ configQueued
    /\ \/ /\ \A c \in configSeen : hasExpectedLabel(c) => updateWebhookConfiguration(c) = c
          /\ configQueued' = FALSE /\ UNCHANGED config
       \/ \E c \in configSeen :
             /\ hasExpectedLabel(c) /\ updateWebhookConfiguration(c) # c
             /\ IF config = configSeen
                THEN /\ config' = {[updateWebhookConfiguration(c) EXCEPT !.rv = c.rv + 1]}
                     /\ configQueued' = FALSE
                ELSE UNCHANGED <<config, configQueued>>  \* conflict or not found: tried again
    /\ UNCHANGED <<configSeen, installs, sspVars>>

\* A version of the configuration as OLM installs it, or as other tools do.
Installed(rv) ==
    {[rv |-> rv, labelled |-> TRUE, selector |-> [h \in Hooks |-> TRUE]],
     [rv |-> rv, labelled |-> FALSE, selector |-> [h \in Hooks |-> h = "other"]]}

\* OLM installs the configuration, again after an upgrade, or removes it.
InstallConfig ==
    /\ installs > 0 /\ installs' = installs - 1
    /\ \/ config' = {}
       \/ \E c \in Installed(10 * installs) : config' = {c}
    /\ UNCHANGED <<configSeen, configQueued, sspVars>>

-----------------------------------------------------------------------------
Init ==
    /\ ssps = [ns \in Namespaces |-> {}] /\ listed = {} /\ terminating = {}
    /\ config \in {{c} : c \in Installed(0)} /\ configSeen = {} /\ configQueued = FALSE
    /\ requests = MaxRequests /\ installs = MaxInstalls

Next ==
    \/ \E ns \in Namespaces :
          \/ \E version \in Versions, spec \in Specs :
                CreateSsp(ns, version, spec) \/ UpdateSsp(ns, version, spec)
          \/ DeleteSsp(ns) \/ DeleteNamespace(ns) \/ AddFinalizer(ns) \/ RemoveFinalizer(ns)
    \/ UpdateList
    \/ DeliverConfig \/ ReconcileConfig \/ InstallConfig

-----------------------------------------------------------------------------
(* Properties *)

\* What the webhook admits, the operands can work with: an SSP whose last update
\* was validated names architectures that GetSSPArchs resolves, so that no
\* operand fails on it for ever.  It relates validateCluster to GetSSPArchs, on
\* creation, on update and through the conversion of v1beta2 requests.
AdmittedIsUsable ==
    \A ns \in Namespaces : \A s \in ssps[ns] : s.vetted => GetSSPArchs(s.spec) # <<>>

\* The webhooks of the SSP end up without namespace selector in a configuration
\* of OLM, whatever OLM and the controller write in which order, and webhooks of
\* other groups keep theirs.
ScopeWide ==
    \A c \in config : hasExpectedLabel(c) => \A h \in Hooks : c.selector[h] <=> h = "other"

\* Nothing but its own content can keep an SSP from going away: when an SSP that
\* is being deleted satisfies the webhook and its namespace stays, the removal of
\* the finalizer is admitted and the SSP disappears.
RemovalAdmitted ==
    \A ns \in Namespaces :
        LET Deleting == \E s \in ssps[ns] : s.deleting
            Sound == /\ ns \notin terminating
                     /\ \A s \in ssps[ns] :
                            validateCluster(s.spec) /\ s.spec.named /\ s.spec.placement # "bad"
        IN  []Sound => (Deleting ~> ~Deleting)

\* There is never more than one SSP.
AtMostOneSsp == \A ns1, ns2 \in Namespaces : ssps[ns1] # {} /\ ssps[ns2] # {} => ns1 = ns2

\* An SSP that is deleted, itself or with its namespace, goes away.
RemovalCompletes ==
    \A ns \in Namespaces : (\E s \in ssps[ns] : s.deleting) ~> ssps[ns] = {}
=============================================================================
