---------------------------- MODULE CommonTemplates ----------------------------
(***************************************************************************)
(* The common-templates operand (internal/operands/common-templates): it    *)
(* deploys the templates of its bundle for the architectures of the cluster, *)
(* deprecates the templates of earlier versions, deletes those of other      *)
(* architectures, and counts the templates it restored after somebody       *)
(* changed them.  Operators of several versions run one after the other.    *)
(*                                                                          *)
(* The template validator's webhook refuses to delete a template that VMs   *)
(* need for their validation (used; see VmCache).  Reconcile reads templates *)
(* from the informer (seen); its requests are about different templates, so *)
(* each list of requests is one step that may end early.                    *)
(***************************************************************************)
EXTENDS Architecture

CONSTANTS
    Namespaces,
    Names,
    ArchOf,     \* name |-> the architecture of the template
    Bundle,     \* operator version |-> names of the bundle's templates
    Specs,      \* the SSP specs users choose from: [multi, cluster, ns]
    Legacy,     \* templates that may exist from the time before the SSP
    MaxEdits,   \* bound: actions of users
    MaxFaults,  \* bound: failed requests and restarts
    None

ASSUME BoundsAssumption == MaxEdits \in Nat /\ MaxFaults \in Nat

Versions == DOMAIN Bundle
Keys == Namespaces \X Names

\* version: the version label, 0 when it cannot be parsed; base: the type label
\* is base; os: the OS, flavor and workload labels; rules: the annotation with
\* validation rules; content: objects and parameters; mine: the owner
\* annotations name the SSP
Template == [version: Versions \cup {0}, base: BOOLEAN, arch: Archs \cup {NoArch},
             os: BOOLEAN, deprecated: BOOLEAN, rules: BOOLEAN,
             content: {"plain", "suffixed", "changed", "empty"}, mine: BOOLEAN]

\* What is left to do for the running Reconcile: the spec it works for, and the old
\* templates it listed.
Plan == [stage: {"templates"}, spec: Specs, changed: BOOLEAN]
        \cup [stage: {"list"}, spec: Specs]
        \cup [stage: {"old"}, spec: Specs, delete: SUBSET Keys,
              deprecate: UNION {[S -> Template] : S \in SUBSET Keys}]

ASSUME BundleAssumption == /\ Versions \subseteq Nat \ {0}
                           /\ \A v \in Versions : Bundle[v] \subseteq Names
                           /\ ArchOf \in [Names -> Archs]
ASSUME SpecsAssumption == \A spec \in Specs : spec.ns \in Namespaces /\ spec.multi \in BOOLEAN
ASSUME LegacyAssumption == DOMAIN Legacy \subseteq Keys /\ \A k \in DOMAIN Legacy : Legacy[k] \in Template
ASSUME NoneAssumption == None \notin Template \cup Plan

VARIABLES
    ssp,        \* the SSP: [spec, paused, deleting, gone, observed (version)]
    version,    \* of the running operator
    last,       \* sspController.lastSspSpec, or None
    templates,  \* the templates of the cluster
    seen,       \* the informer's copies
    news,       \* the informer has events of the SSP's templates to deliver
    used,       \* templates that VMs need for their validation
    plan,       \* what the running Reconcile still has to do, or None
    queued,     \* a reconciliation is waiting, or will be retried
    restored,   \* templates that the restored metric counted
    touched,    \* history: templates that somebody else changed
    edits,
    faults

vars == <<ssp, version, last, templates, seen, news, used, plan, queued, restored,
          touched, edits, faults>>

outside == <<templates, news, used, touched>>
bounds == <<edits, faults>>

-----------------------------------------------------------------------------
(* What should exist *)

ArchsOfSpecs == {[spec |-> spec, archs |-> GetSSPArchs(spec)] : spec \in Specs}

ClusterArchs(spec) == (CHOOSE r \in ArchsOfSpecs : r.spec = spec).archs

\* getTemplatesForArchs, in the namespace of the SSP's spec
Deployed(spec, v) == {k \in {spec.ns} \X Bundle[v] : ArchOf[k[2]] \in Range(ClusterArchs(spec))}

\* addArchSuffixToDataSourceParameter
Content(spec) == IF spec.multi THEN "suffixed" ELSE "plain"

\* Mutant: predefined labels and annotations are only added.
UpdatedOnlyAdds(found, k, spec) ==
    [found EXCEPT !.version = version, !.base = TRUE, !.arch = ArchOf[k[2]], !.os = TRUE,
                  !.content = Content(spec), !.mine = TRUE]

\* Predefined labels and annotations that the bundle's template does not have are
\* removed; of those that the model tells apart this is the one of deprecation.
syncPredefinedAnnotationsAndLabels(found) == [found EXCEPT !.deprecated = FALSE]

\* The template that CreateOrUpdate makes of the one it found.
Updated(found, k, spec) ==
    [syncPredefinedAnnotationsAndLabels(found) EXCEPT
        !.version = version, !.base = TRUE, !.arch = ArchOf[k[2]], !.os = TRUE,
        !.content = Content(spec), !.mine = TRUE]

Empty == [version |-> 0, base |-> FALSE, arch |-> NoArch, os |-> FALSE, deprecated |-> FALSE,
          rules |-> FALSE, content |-> "empty", mine |-> FALSE]

\* The template that is made of the one found in the informer, when the one
\* that was listed was old; labels and annotations of the listed one are kept.
Deprecated(found, listed) ==
    IF found = None THEN [listed EXCEPT !.content = "empty", !.os = FALSE, !.deprecated = TRUE, !.mine = TRUE]
    ELSE [found EXCEPT !.os = FALSE, !.deprecated = TRUE, !.mine = TRUE]

Owned(f) == {k \in Keys : f[k] # None /\ f[k].mine}

\* getOldTemplatesLabelSelector, and the templates of the SSP
NonDeployed(spec) ==
    {k \in Keys : /\ k[1] = spec.ns /\ seen[k] # None
                  /\ (seen[k].base /\ seen[k].version # version) \/ seen[k].mine}
    \ Deployed(spec, version)

\* An unknown architecture is NoArch, and never one of the cluster.
OtherArch(spec) == {k \in NonDeployed(spec) : seen[k].arch \notin Range(ClusterArchs(spec))}

ToDeprecate(spec) == {k \in NonDeployed(spec) \ OtherArch(spec) : seen[k].version < version}

\* admitTemplate: the template validator refuses the deletion
Forbidden(k) == templates[k] # None /\ templates[k].base /\ templates[k].rules /\ k \in used

-----------------------------------------------------------------------------
(* Reconcile *)

\* The running Reconcile ends with an error, the request is queued again.
Abort == plan' = None /\ queued' = TRUE

Fault == faults > 0 /\ faults' = faults - 1

\* sspController.Reconcile up to this operand: it remembers the spec, stops when
\* the SSP is paused, and may fail before it comes to the templates.
Start ==
    /\ queued /\ plan = None /\ ~ssp.deleting
    /\ last' = ssp.spec
    /\ \/ ssp.paused /\ queued' = FALSE /\ UNCHANGED <<plan, faults>>
       \/ /\ ~ssp.paused
          /\ \/ ClusterArchs(ssp.spec) = <<>> /\ Abort /\ UNCHANGED faults
             \/ Fault /\ Abort
             \/ /\ ClusterArchs(ssp.spec) # <<>>
                /\ plan' = [stage |-> "templates", spec |-> ssp.spec,
                            changed |-> last # ssp.spec \/ ssp.observed # version]
                /\ queued' = FALSE /\ UNCHANGED faults
    /\ UNCHANGED <<ssp, version, outside, seen, restored, edits>>

Found(k) == IF seen[k] = None THEN Empty ELSE seen[k]

\* The templates after those of S were written as in new, and those of D deleted; a
\* write that changes nothing is not made, one from an old copy is refused.
Written(S, D, new) ==
    [k \in Keys |-> IF k \in S /\ new[k] # seen[k] THEN new[k] ELSE IF k \in D THEN None ELSE templates[k]]

\* Mutant: the write has the resource version of the operator's own object, not of
\* the one it found.
RefusedAlways(k, new) == new # seen[k]

Refused(k, new) == new # seen[k] /\ seen[k] # templates[k]

\* incrementTemplatesRestoredMetric
Restored == {k \in Deployed(plan.spec, version) :
               /\ seen[k] # None /\ seen[k] # Updated(seen[k], k, plan.spec)
               /\ seen[k].version = version}

\* CreateOrUpdate of each template, and the metric.
ApplyTemplates ==
    LET all == Deployed(plan.spec, version)
        new == [k \in all |-> Updated(Found(k), k, plan.spec)]
        stopped == \E S \in SUBSET {k \in all : ~Refused(k, new[k])} :
                      /\ S # all
                      /\ templates' = Written(S, {}, new) /\ Abort /\ UNCHANGED restored
    IN  /\ plan # None /\ plan.stage = "templates"
        /\ \/ /\ \A k \in all : ~Refused(k, new[k])
              /\ templates' = Written(all, {}, new)
              /\ restored' = IF plan.changed THEN restored ELSE restored \cup Restored
              /\ plan' = [stage |-> "list", spec |-> plan.spec]
              /\ UNCHANGED <<queued, faults>>
           \/ (\E k \in all : Refused(k, new[k])) /\ stopped /\ UNCHANGED faults
           \/ Fault /\ stopped
        /\ UNCHANGED <<ssp, version, last, seen, used, touched, edits>>

\* deprecateOrDeleteOldTemplates lists old templates from the informer.
ListOld ==
    /\ plan # None /\ plan.stage = "list"
    /\ \/ /\ plan' = [stage |-> "old", spec |-> plan.spec, delete |-> OtherArch(plan.spec),
                      deprecate |-> [k \in ToDeprecate(plan.spec) |-> seen[k]]]
          /\ UNCHANGED <<queued, faults>>
       \/ Fault /\ Abort
    /\ UNCHANGED <<ssp, version, last, outside, seen, restored, edits>>

\* The old templates are deprecated and deleted in any order, until a request is
\* refused; then the other operands follow, and updateStatus, which is refused
\* when the SSP changed.
ApplyOld ==
    LET old == DOMAIN plan.deprecate
        new == [k \in old |-> Deprecated(seen[k], plan.deprecate[k])]
        bad == {k \in old : Refused(k, new[k])} \cup
               {k \in plan.delete : Forbidden(k)}
        all == old \cup plan.delete
        stopped == \E S \in SUBSET (all \ bad) :
                      /\ S # all \/ bad = {}
                      /\ templates' = Written(S \cap old, S \cap plan.delete, new)
                      /\ Abort /\ UNCHANGED ssp
    IN  /\ plan # None /\ plan.stage = "old"
        /\ \/ /\ bad = {}
              /\ templates' = Written(old, plan.delete, new)
              /\ IF ssp.spec = plan.spec /\ ~ssp.paused /\ ~ssp.deleting
                 THEN plan' = None /\ ssp' = [ssp EXCEPT !.observed = version] /\ UNCHANGED queued
                 ELSE Abort /\ UNCHANGED ssp
              /\ UNCHANGED faults
           \/ bad # {} /\ stopped /\ UNCHANGED faults
           \/ Fault /\ stopped
        /\ UNCHANGED <<version, last, seen, used, restored, touched, edits>>

\* Mutant: only the namespace of the spec is cleaned up.
CleanupSet(spec) == Owned(seen) \cap ({spec.ns} \X Names)

\* The deprecated templates of the namespace that are owned are among the owned.
OwnedEverywhere(spec) == Owned(seen)

\* The webhook was deleted by the template validator's Cleanup, which is earlier.
\* The SSP is released when nothing is found.
Cleanup ==
    /\ queued /\ plan = None /\ ssp.deleting /\ ~ssp.gone
    /\ seen = templates
    /\ \/ /\ templates' = Written({}, OwnedEverywhere(ssp.spec), seen)
          /\ ssp' = [ssp EXCEPT !.gone = OwnedEverywhere(ssp.spec) = {}]
          /\ queued' = FALSE /\ last' = None
          /\ UNCHANGED faults
       \/ /\ Fault
          /\ \E S \in SUBSET OwnedEverywhere(ssp.spec) : templates' = Written({}, S, seen)
          /\ last' = ssp.spec
          /\ UNCHANGED <<ssp, queued>>
    /\ UNCHANGED <<version, seen, used, plan, restored, touched, edits>>

\* The operator restarts, perhaps as another version.
Restart(v) ==
    /\ Fault
    /\ version' = v /\ last' = None
    /\ Abort
    /\ seen' = templates /\ news' = FALSE
    /\ UNCHANGED <<ssp, templates, used, restored, touched, edits>>

-----------------------------------------------------------------------------
(* The informer and users *)

\* Mutant: the annotations of the owner are not watched.
NotifyNone == news' = news

\* Templates have no spec, so relevantChangesPredicate lets every change pass.
Notify == news' = (news \/ \E k \in Owned(templates) \cup Owned(templates)' :
                              templates'[k] # templates[k])

Deliver ==
    /\ seen # templates \/ news
    /\ seen' = templates
    /\ queued' = (queued \/ news)
    /\ news' = FALSE
    /\ UNCHANGED <<ssp, version, last, templates, used, plan, restored, touched, bounds>>

User == edits > 0 /\ edits' = edits - 1 /\ UNCHANGED <<version, last, seen, plan, restored, faults>>

EditSsp(spec) ==
    /\ User /\ ~ssp.deleting /\ spec # ssp.spec
    /\ ssp' = [ssp EXCEPT !.spec = spec] /\ queued' = TRUE
    /\ UNCHANGED <<templates, used, touched>>

PauseSsp ==
    /\ User /\ ~ssp.deleting
    /\ ssp' = [ssp EXCEPT !.paused = ~ssp.paused] /\ queued' = TRUE
    /\ UNCHANGED <<templates, used, touched>>

DeleteSsp ==
    /\ User /\ ~ssp.deleting
    /\ ssp' = [ssp EXCEPT !.deleting = TRUE] /\ queued' = TRUE
    /\ UNCHANGED <<templates, used, touched>>

ChangeTemplate(k) ==
    /\ User /\ templates[k] # None
    /\ \/ templates' = [templates EXCEPT ![k].content = "changed"]
       \/ ~Forbidden(k) /\ templates' = [templates EXCEPT ![k] = None]
    /\ touched' = touched \cup {k}
    /\ UNCHANGED <<ssp, used, queued>>

\* VMs start or stop to need the template.
ChangeUse(k) ==
    /\ User
    /\ used' = IF k \in used THEN used \ {k} ELSE used \cup {k}
    /\ UNCHANGED <<ssp, templates, touched, queued>>

Init ==
    /\ ssp \in [spec: Specs, paused: {FALSE}, deleting: {FALSE}, gone: {FALSE}, observed: {0}]
    /\ version \in Versions /\ last = None
    /\ \E S \in SUBSET DOMAIN Legacy :
          templates = [k \in Keys |-> IF k \in S THEN Legacy[k] ELSE None]
    /\ seen = templates /\ news = FALSE
    /\ used \in SUBSET DOMAIN Legacy
    /\ plan = None /\ queued = TRUE
    /\ restored = {} /\ touched = {}
    /\ edits = MaxEdits /\ faults = MaxFaults

Worker == (Start \/ ApplyTemplates \/ ListOld \/ ApplyOld \/ Cleanup) /\ Notify

Users == /\ \/ \E spec \in Specs : EditSsp(spec)
            \/ PauseSsp \/ DeleteSsp
            \/ \E k \in Keys : ChangeTemplate(k)
            \/ \E k \in DOMAIN Legacy : ChangeUse(k)
         /\ Notify

Next == Worker \/ Deliver \/ Users \/ \E v \in Versions : Restart(v)

Spec == Init /\ [][Next]_vars

\* Worker can take a step (ENABLED <<Worker>>_vars).
WorkerReady ==
    \/ plan # None
    \/ /\ queued /\ ~ssp.gone
       /\ IF ssp.deleting THEN seen = templates ELSE ClusterArchs(ssp.spec) # <<>> \/ ssp.paused

\* The operator's worker and the informer keep going.  A step of Worker changes
\* plan or queued, unless a request failed, so this is WF_vars(Worker).
FairSpec == /\ Spec
            /\ []<>~WorkerReady \/ []<><<TRUE>>_<<plan, queued>>
            /\ WF_vars(Deliver)

-----------------------------------------------------------------------------
(* Properties *)

AtRest == ~queued /\ plan = None /\ ~ssp.deleting /\ ~ssp.paused /\ seen = templates /\ ~news

\* At rest, in the namespace of the SSP: the bundle's templates of the cluster's
\* architectures are as in the bundle and not deprecated, whatever happened to
\* them before; what is left of other operator versions is of an architecture
\* of the cluster, and deprecated without the labels by which it would be
\* found, unless it is of a later version.
TemplatesConsistent ==
    AtRest => \A n \in Names :
        LET k == <<ssp.spec.ns, n>> IN
        IF k \in Deployed(ssp.spec, version)
        THEN /\ templates[k] # None
             /\ templates[k] = [Updated(Empty, k, ssp.spec) EXCEPT !.rules = templates[k].rules]
        ELSE (templates[k] # None /\ (templates[k].mine \/ (templates[k].base /\ templates[k].version # version)))
             => /\ templates[k].arch \in Range(ClusterArchs(ssp.spec))
                /\ templates[k].version < version
                       => (templates[k].deprecated /\ ~templates[k].os /\ templates[k].mine)

\* The SSP is released only when none of its templates is left in any namespace.
ReleasedIsClean == ssp.gone => Owned(templates) = {}

\* A template of another architecture that VMs need keeps Reconcile failing.
Blocked == \E k \in OtherArch(ssp.spec) : Forbidden(k)

\* While the SSP is not deleted, everybody comes to rest, unless it is paused, or
\* the validator protects a template that is to be deleted.
EventuallyAtRest ==
    []~ssp.deleting => <>[](AtRest \/ Blocked \/ ssp.paused)

\* A deleted SSP is released in the end, also when VMs use its templates.
CleanupCompletes == ssp.deleting ~> ssp.gone

\* The restored metric counts templates that somebody had changed, not those that
\* the operator updates because the SSP changed.
RestoredWereChanged == restored \subseteq touched

\* Reconcile never creates a template that is not of its bundle.
OnlyBundleCreated ==
    [][\A k \in Keys : (templates[k] = None /\ templates'[k] # None)
          => k[2] \in Bundle[version]]_vars
=============================================================================
