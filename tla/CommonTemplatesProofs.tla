------------------------ MODULE CommonTemplatesProofs ------------------------
(***************************************************************************)
(* The common-templates operand rests only on consistent templates, and    *)
(* releases the SSP only when it left none of its own, for any bundles,    *)
(* architectures, specs and templates from earlier times.                  *)
(*                                                                         *)
(* Reconcile decides from the informer's copies, so the argument is about  *)
(* what those copies may miss.  A template of the SSP that the informer    *)
(* does not show as it is has an event under way (Announced); one that is  *)
(* not the SSP's can only have lost its content or be gone (Foreign).      *)
(* Hence what a Reconcile settles stays settled, or it is called again     *)
(* (Alarm), and CInv says how far each stage has come.                     *)
(***************************************************************************)
EXTENDS CommonTemplates, TLAPS

Mine(o) == o # None /\ o.mine

SameLabels(o, q) == /\ o.version = q.version /\ o.base = q.base /\ o.arch = q.arch
                    /\ o.os = q.os /\ o.deprecated = q.deprecated /\ o.mine = q.mine

\* What users do to a template: its labels and its owner stay, or it is deleted.
Alters(o, q) == q = None \/ (o # None /\ q # None /\ SameLabels(o, q))

\* What anybody does: Reconcile writes templates of the SSP only.
Steps == \A k \in Keys : Alters(templates[k], templates'[k]) \/ Mine(templates'[k])

\* How an old template is left.
Marked(o) == o # None /\ o.mine = TRUE /\ o.deprecated = TRUE /\ o.os = FALSE

AsBundled(o, k, spec, v) ==
    /\ o # None
    /\ o.version = v /\ o.base = TRUE /\ o.arch = ArchOf[k[2]] /\ o.os = TRUE
    /\ o.deprecated = FALSE /\ o.content = Content(spec) /\ o.mine = TRUE

Settled(o, spec, v) ==
    (o # None /\ (o.mine \/ (o.base /\ o.version # v)))
      => /\ o.arch \in Range(ClusterArchs(spec))
         /\ o.version < v => (o.deprecated /\ ~o.os /\ o.mine)

Fine(o, k, spec, v) == IF k \in Deployed(spec, v) THEN AsBundled(o, k, spec, v) ELSE Settled(o, spec, v)

Here(spec) == {spec.ns} \X Names

-----------------------------------------------------------------------------
(* The inductive invariant *)

TypeInv ==
    /\ ssp \in [spec: Specs, paused: BOOLEAN, deleting: BOOLEAN, gone: BOOLEAN, observed: Versions \cup {0}]
    /\ version \in Versions
    /\ templates \in [Keys -> Template \cup {None}]
    /\ seen \in [Keys -> Template \cup {None}]
    /\ news \in BOOLEAN /\ queued \in BOOLEAN
    /\ plan \in Plan \cup {None}

Announced == \A k \in Keys :
    templates[k] # seen[k] /\ (Mine(templates[k]) \/ Mine(seen[k])) => news

Foreign == \A k \in Keys :
    templates[k] # None /\ ~Mine(templates[k]) => seen[k] # None /\ SameLabels(templates[k], seen[k])

\* Reconcile is called again.
Alarm == queued \/ news

\* What ListOld chose: nothing of the bundle, nothing twice, to be kept only what
\* is of an architecture of the cluster.
Listed == (plan # None /\ plan.stage = "old") =>
    /\ plan.delete \cap Deployed(plan.spec, version) = {}
    /\ DOMAIN plan.deprecate \cap (Deployed(plan.spec, version) \cup plan.delete) = {}
    /\ \A k \in DOMAIN plan.deprecate : plan.deprecate[k].arch \in Range(ClusterArchs(plan.spec))

Applied == (plan # None /\ plan.stage # "templates" /\ ~Alarm) =>
    \A k \in Deployed(plan.spec, version) : AsBundled(templates[k], k, plan.spec, version)

Planned == (plan # None /\ plan.stage = "old" /\ ~Alarm) =>
    /\ \A k \in Here(plan.spec) :
          \/ k \in Deployed(plan.spec, version) \cup plan.delete \cup DOMAIN plan.deprecate
          \/ Settled(templates[k], plan.spec, version)
    /\ \A k \in DOMAIN plan.deprecate :
          seen[k] = None \/ seen[k].arch \in Range(ClusterArchs(plan.spec))

Finished == (plan = None /\ ~ssp.paused /\ ~ssp.deleting /\ ~Alarm) =>
    \A k \in Here(ssp.spec) : Fine(templates[k], k, ssp.spec, version)

Gone == ssp.gone => (ssp.deleting /\ plan = None /\ Owned(templates) = {})

CInv == TypeInv /\ Announced /\ Foreign /\ Listed /\ Applied /\ Planned /\ Finished /\ Gone

-----------------------------------------------------------------------------
(* What is written *)

\* The templates of the bundle lie in the namespace of the spec.
LEMMA DeployedKeys ==
  ASSUME NEW spec \in Specs, NEW v \in Versions
  PROVE  Deployed(spec, v) \subseteq Here(spec) /\ Here(spec) \subseteq Keys
  BY SpecsAssumption, BundleAssumption, Zenon DEF Deployed, Here, Keys

\* CreateOrUpdate makes a template of the bundle of whatever it found.
LEMMA UpdatedFields ==
  ASSUME NEW f \in Template, NEW k \in Keys, NEW spec \in Specs, version \in Versions
  PROVE  /\ Updated(f, k, spec) =
              [version |-> version, base |-> TRUE, arch |-> ArchOf[k[2]], os |-> TRUE, deprecated |-> FALSE,
               rules |-> f.rules, content |-> Content(spec), mine |-> TRUE]
         /\ Updated(f, k, spec) \in Template /\ AsBundled(Updated(f, k, spec), k, spec, version)
  <1> DEFINE a == ArchOf[k[2]]
             c == Content(spec)
             o == Updated(f, k, spec)
             g == syncPredefinedAnnotationsAndLabels(f)
  <1>1. a \in Archs
    BY BundleAssumption, Zenon DEF Keys
  <1>2. c \in {"plain", "suffixed", "changed", "empty"}
    BY Zenon DEF Content
  <1>0. g = [f EXCEPT !.deprecated = FALSE]
    BY Zenon DEF syncPredefinedAnnotationsAndLabels
  <1>4. o = [g EXCEPT !.version = version, !.base = TRUE, !.arch = a, !.os = TRUE, !.content = c, !.mine = TRUE]
    BY Zenon DEF Updated
  <1> HIDE DEF a, c, o, g
  <1>3. g = [version |-> f.version, base |-> f.base, arch |-> f.arch, os |-> f.os, deprecated |-> FALSE,
             rules |-> f.rules, content |-> f.content, mine |-> f.mine]
    BY <1>0, Zenon DEF Template
  <1>5. o = [version |-> version, base |-> TRUE, arch |-> a, os |-> TRUE, deprecated |-> FALSE,
             rules |-> f.rules, content |-> c, mine |-> TRUE]
    BY <1>3, <1>4, Zenon
  <1>6. o \in Template
    BY <1>1, <1>2, <1>5, Zenon DEF Template
  <1>7. /\ o # None /\ o.version = version /\ o.base = TRUE /\ o.arch = a /\ o.os = TRUE
        /\ o.deprecated = FALSE /\ o.content = c /\ o.mine = TRUE
    BY <1>5, <1>6, NoneAssumption, Zenon
  <1> QED
    BY <1>5, <1>6, <1>7, Zenon DEF AsBundled, a, c, o

\* A template of the bundle differs from the bundle's at most in the rules that
\* syncPredefinedAnnotationsAndLabels leaves alone.
LEMMA BundledIsUpdated ==
  ASSUME NEW o \in Template, NEW k \in Keys, NEW spec \in Specs, version \in Versions,
         AsBundled(o, k, spec, version)
  PROVE  o = [Updated(Empty, k, spec) EXCEPT !.rules = o.rules]
  <1> DEFINE a == ArchOf[k[2]]
             c == Content(spec)
             u == Updated(Empty, k, spec)
             w == [u EXCEPT !.rules = o.rules]
  <1>1. Empty \in Template
    BY Zenon DEF Empty, Template
  <1>2. u = [version |-> version, base |-> TRUE, arch |-> a, os |-> TRUE, deprecated |-> FALSE,
             rules |-> Empty.rules, content |-> c, mine |-> TRUE]
    BY <1>1, UpdatedFields, Zenon
  <1>3. /\ o.version = version /\ o.base = TRUE /\ o.arch = a /\ o.os = TRUE
        /\ o.deprecated = FALSE /\ o.content = c /\ o.mine = TRUE
    BY Zenon DEF AsBundled
  <1> HIDE DEF a, c, u
  <1>0. w = [u EXCEPT !.rules = o.rules]
    BY Zenon
  <1> HIDE DEF w
  <1>4. w = [version |-> version, base |-> TRUE, arch |-> a, os |-> TRUE, deprecated |-> FALSE,
             rules |-> o.rules, content |-> c, mine |-> TRUE]
    BY <1>0, <1>2, Zenon
  <1>5. o = [version |-> o.version, base |-> o.base, arch |-> o.arch, os |-> o.os,
             deprecated |-> o.deprecated, rules |-> o.rules, content |-> o.content, mine |-> o.mine]
    BY Zenon DEF Template
  <1>6. o = [version |-> version, base |-> TRUE, arch |-> a, os |-> TRUE, deprecated |-> FALSE,
             rules |-> o.rules, content |-> c, mine |-> TRUE]
    BY <1>3, <1>5, Zenon
  <1> QED
    BY <1>4, <1>6, Zenon DEF u, w

\* A deprecated template is the SSP's, without the labels by which it is found.
LEMMA DeprecatedFields ==
  ASSUME NEW f \in Template \cup {None}, NEW l \in Template
  PROVE  /\ Deprecated(f, l) \in Template
         /\ Marked(Deprecated(f, l))
         /\ Deprecated(f, l).arch = IF f = None THEN l.arch ELSE f.arch
  <1> DEFINE o == Deprecated(f, l)
  <1>1. CASE f = None
    <2>1. o = [version |-> l.version, base |-> l.base, arch |-> l.arch, os |-> FALSE,
               deprecated |-> TRUE, rules |-> l.rules, content |-> "empty", mine |-> TRUE]
      BY <1>1, Zenon DEF Deprecated, Template
    <2> HIDE DEF o
    <2> QED
      <3>1. o \in Template /\ o.mine = TRUE /\ o.deprecated = TRUE /\ o.os = FALSE /\ o.arch = l.arch
        BY <1>1, <2>1, Zenon DEF Template
      <3>2. Marked(o)
        BY <3>1, NoneAssumption, Zenon DEF Marked
      <3> QED
        BY <1>1, <3>1, <3>2, Zenon DEF o
  <1>2. CASE f # None
    <2>1. o = [version |-> f.version, base |-> f.base, arch |-> f.arch, os |-> FALSE,
               deprecated |-> TRUE, rules |-> f.rules, content |-> f.content, mine |-> TRUE]
      BY <1>2, Zenon DEF Deprecated, Template
    <2> HIDE DEF o
    <2> QED
      <3>1. o \in Template /\ o.mine = TRUE /\ o.deprecated = TRUE /\ o.os = FALSE /\ o.arch = f.arch
        BY <1>2, <2>1, Zenon DEF Template
      <3>2. Marked(o)
        BY <3>1, NoneAssumption, Zenon DEF Marked
      <3> QED
        BY <1>2, <3>1, <3>2, Zenon DEF o
  <1> QED
    BY <1>1, <1>2, Zenon

\* The fields of a plan are those of its stage.
LEMMA PlanFields ==
  ASSUME NEW p \in Plan
  PROVE  /\ p # None /\ p.spec \in Specs /\ p.stage \in {"templates", "list", "old"}
         /\ p.stage = "old" => /\ p.delete \subseteq Keys
                               /\ DOMAIN p.deprecate \subseteq Keys
                               /\ \A k \in DOMAIN p.deprecate : p.deprecate[k] \in Template
  BY NoneAssumption DEF Plan

-----------------------------------------------------------------------------
(* What the informer misses *)

\* A changed template of the SSP has an event, and events are not forgotten.
LEMMA Notified ==
  ASSUME TypeInv, TypeInv', Notify
  PROVE  /\ news => news'
         /\ \A k \in Keys : templates'[k] # templates[k] /\ (Mine(templates[k]) \/ Mine(templates'[k])) => news'
  <1>1. news' = (news \/ \E k \in Owned(templates) \cup Owned(templates)' : templates'[k] # templates[k])
    BY Zenon DEF Notify
  <1>2. \A k \in Keys : (Mine(templates[k]) \/ Mine(templates'[k])) => k \in Owned(templates) \cup Owned(templates)'
    BY Zenon DEF Owned, Mine
  <1> QED
    BY <1>1, <1>2, Zenon

\* The informer keeps missing only what CInv allows, whatever is written.
LEMMA Streams ==
  ASSUME TypeInv, TypeInv', Announced, Foreign, Steps, Notify, UNCHANGED seen
  PROVE  Announced' /\ Foreign'
  <1>1. Announced'
    BY Notified, Zenon DEF Announced
  <1>2. ASSUME NEW k \in Keys, templates'[k] # None, ~Mine(templates'[k])
        PROVE  seen'[k] # None /\ SameLabels(templates'[k], seen'[k])
    <2>1. templates[k] # None /\ SameLabels(templates[k], templates'[k])
      BY <1>2, Zenon DEF Steps, Alters
    <2>2. ~Mine(templates[k])
      BY <1>2, <2>1, Zenon DEF SameLabels, Mine
    <2>3. seen[k] # None /\ SameLabels(templates[k], seen[k])
      BY <2>1, <2>2, Zenon DEF Foreign
    <2> QED
      BY <2>1, <2>3, Zenon DEF SameLabels
  <1>3. Foreign'
    BY <1>2, Zenon DEF Foreign
  <1> QED
    BY <1>1, <1>3, Zenon

\* What users leave of a settled template is settled, or it has an event.
LEMMA FineStays ==
  ASSUME TypeInv, TypeInv', Notify, NEW k \in Keys, NEW spec \in Specs, NEW v \in Versions,
         Alters(templates[k], templates'[k])
  PROVE  /\ AsBundled(templates[k], k, spec, v) => news' \/ AsBundled(templates'[k], k, spec, v)
         /\ Settled(templates[k], spec, v) => Settled(templates'[k], spec, v)
  <1>1. ASSUME AsBundled(templates[k], k, spec, v) PROVE news' \/ AsBundled(templates'[k], k, spec, v)
    <2>1. Mine(templates[k])
      BY <1>1, Zenon DEF AsBundled, Mine
    <2>2. templates'[k] = templates[k] \/ news'
      BY <2>1, Notified, Zenon
    <2> QED
      BY <1>1, <2>2, Zenon
  <1>2. ASSUME Settled(templates[k], spec, v) PROVE Settled(templates'[k], spec, v)
    BY <1>2, Zenon DEF Settled, Alters, SameLabels
  <1> QED
    BY <1>1, <1>2, Zenon

\* A template that is left alone keeps its labels.
LEMMA Untouched ==
  ASSUME UNCHANGED templates
  PROVE  Steps /\ \A k \in Keys : Alters(templates[k], templates'[k])
  BY Zenon DEF Steps, Alters, SameLabels

\* Once Reconcile is to be called again, nothing is promised.
LEMMA Alarmed ==
  ASSUME Alarm' PROVE Applied' /\ Planned' /\ Finished'
  BY Zenon DEF Applied, Planned, Finished

\* While users act, and at the other operands, what was settled stays so.
LEMMA PromisesStay ==
  ASSUME CInv, TypeInv', Notify, UNCHANGED <<version, plan, seen>>,
         \A k \in Keys : Alters(templates[k], templates'[k]),
         queued => queued', UNCHANGED ssp \/ queued'
  PROVE  Applied' /\ Planned' /\ Finished'
  <1>1. CASE Alarm'
    BY <1>1, Alarmed, Zenon
  <1>2. CASE ~Alarm'
    <2>1. ~Alarm /\ UNCHANGED ssp
      BY <1>2, Notified, Zenon DEF Alarm, CInv
    <2>2. ASSUME NEW k \in Keys, NEW spec \in Specs
          PROVE  /\ AsBundled(templates[k], k, spec, version) => AsBundled(templates'[k], k, spec, version)
                 /\ Settled(templates[k], spec, version) => Settled(templates'[k], spec, version)
      BY <1>2, FineStays, Zenon DEF CInv, TypeInv, Alarm
    <2>3. plan # None => plan.spec \in Specs
      BY PlanFields, Zenon DEF CInv, TypeInv
    <2>4. \A spec \in Specs : Deployed(spec, version) \subseteq Keys /\ Here(spec) \subseteq Keys
      BY DeployedKeys, Zenon DEF CInv, TypeInv
    <2>5. Applied'
      BY <2>1, <2>2, <2>3, <2>4, SMTT(20), ZenonT(40) DEF CInv, Applied
    <2>6. Planned'
      BY <2>1, <2>2, <2>3, <2>4, SMTT(20), ZenonT(40) DEF CInv, Planned
    <2>7. Finished'
      <3>1. ssp.spec \in Specs
        BY Zenon DEF CInv, TypeInv
      <3> QED
        BY <2>1, <2>2, <2>4, <3>1, SMTT(20), ZenonT(40) DEF CInv, Finished, Fine
    <2> QED
      BY <2>5, <2>6, <2>7, Zenon
  <1> QED
    BY <1>1, <1>2, Zenon

-----------------------------------------------------------------------------
(* Users, the informer and restarts *)

\* What users do to the SSP calls Reconcile; what they do to templates is either
\* harmless or has an event.
LEMMA UsersKeep ==
  ASSUME CInv, Users PROVE CInv'
  <1> USE DEF CInv
  <1>0. UNCHANGED <<version, plan, seen>> /\ Notify
    BY Zenon DEF Users, User, EditSsp, PauseSsp, DeleteSsp, ChangeTemplate, ChangeUse
  <1>1. /\ ssp' \in [spec: Specs, paused: BOOLEAN, deleting: BOOLEAN, gone: BOOLEAN, observed: Versions \cup {0}]
        /\ queued' \in BOOLEAN
        /\ ssp'.gone = ssp.gone /\ (ssp.deleting => ssp'.deleting)
        /\ queued => queued'
        /\ UNCHANGED ssp \/ queued'
    <2>1. ASSUME NEW spec \in Specs, EditSsp(spec) PROVE <1>1!:
      BY <2>1, Zenon DEF TypeInv, EditSsp
    <2>2. CASE PauseSsp
      BY <2>2, Zenon DEF TypeInv, PauseSsp
    <2>3. CASE DeleteSsp
      BY <2>3, Zenon DEF TypeInv, DeleteSsp
    <2>4. CASE UNCHANGED <<ssp, queued>>
      BY <2>4, Zenon DEF TypeInv
    <2> QED
      BY <2>1, <2>2, <2>3, <2>4, SMTT(20), ZenonT(40) DEF Users, ChangeTemplate, ChangeUse
  <1>2. /\ templates' \in [Keys -> Template \cup {None}]
        /\ \A k \in Keys : Alters(templates[k], templates'[k])
    <2>1. ASSUME NEW k \in Keys, ChangeTemplate(k) PROVE <1>2!:
      <3>1. templates[k] \in Template
        BY <2>1, Zenon DEF ChangeTemplate, TypeInv
      <3>2. CASE templates' = [templates EXCEPT ![k] = None]
        BY <3>2, Zenon DEF TypeInv, Alters, SameLabels
      <3>3. CASE templates' = [templates EXCEPT ![k].content = "changed"]
        <4> DEFINE t == [templates[k] EXCEPT !.content = "changed"]
        <4>0. templates' = [templates EXCEPT ![k] = t]
          BY <3>3, Zenon
        <4>1. t = [templates[k] EXCEPT !.content = "changed"]
          BY Zenon
        <4> HIDE DEF t
        <4>2. t \in Template /\ SameLabels(templates[k], t)
          BY <3>1, <4>1, Zenon DEF Template, SameLabels
        <4>3. t # None /\ templates[k] # None
          BY <3>1, <4>2, NoneAssumption, Zenon
        <4> QED
          BY <4>0, <4>2, <4>3, Zenon DEF TypeInv, Alters, SameLabels
      <3> QED
        BY <2>1, <3>2, <3>3, Zenon DEF ChangeTemplate
    <2>2. CASE UNCHANGED templates
      BY <2>2, Untouched, Zenon DEF TypeInv
    <2> QED
      BY <2>1, <2>2, Zenon DEF Users, EditSsp, PauseSsp, DeleteSsp, ChangeUse
  <1>3. news' \in BOOLEAN
    BY <1>0, Zenon DEF Notify, TypeInv
  <1>4. TypeInv'
    BY <1>0, <1>1, <1>2, <1>3, Zenon DEF TypeInv
  <1>5. Announced' /\ Foreign'
    BY <1>0, <1>2, <1>4, Streams, SMTT(20), ZenonT(40) DEF Steps
  <1>6. Listed'
    BY <1>0, Zenon DEF Listed
  <1>7. Applied' /\ Planned' /\ Finished'
    BY <1>0, <1>1, <1>2, <1>4, PromisesStay, SMTT(20), ZenonT(40)
  <1>8. Gone'
    <2>1. Owned(templates') \subseteq Owned(templates)
      BY <1>2, Zenon DEF Owned, Alters, SameLabels
    <2> QED
      BY <1>0, <1>1, <2>1, SMTT(20), ZenonT(40) DEF Gone, Owned
  <1> QED
    BY <1>4, <1>5, <1>6, <1>7, <1>8, SMTT(20), ZenonT(40)

\* The informer catches up: an event becomes a call of Reconcile, and without one
\* the copies of the listed templates keep their labels.
LEMMA DeliverKeeps ==
  ASSUME CInv, Deliver PROVE CInv'
  <1> USE DEF CInv
  <1>0. UNCHANGED <<ssp, version, templates, plan>> /\ seen' = templates /\ news' = FALSE
        /\ queued' = (queued \/ news)
    BY Zenon DEF Deliver
  <1>1. TypeInv'
    BY <1>0, Zenon DEF TypeInv
  <1>2. Announced' /\ Foreign'
    BY <1>0, Zenon DEF Announced, Foreign, SameLabels
  <1>3. Listed' /\ Gone'
    BY <1>0, Zenon DEF Listed, Gone, Owned
  <1>4. Alarm' <=> Alarm
    BY <1>0, Zenon DEF Alarm, TypeInv
  <1>5. Applied' /\ Finished'
    BY <1>0, <1>4, Zenon DEF Applied, Finished
  <1>6. ASSUME ~Alarm, NEW k \in Keys, templates[k] # None, seen[k] # templates[k]
        PROVE  seen[k] # None /\ SameLabels(templates[k], seen[k])
    BY <1>6, Zenon DEF Alarm, Announced, Foreign
  <1>7. Planned'
    <2> SUFFICES ASSUME plan # None, plan.stage = "old", ~Alarm, NEW k \in DOMAIN plan.deprecate
                 PROVE  templates[k] = None \/ templates[k].arch \in Range(ClusterArchs(plan.spec))
      BY <1>0, <1>4, Zenon DEF Planned
    <2>1. k \in Keys
      BY PlanFields, Zenon DEF TypeInv
    <2>2. seen[k] = None \/ seen[k].arch \in Range(ClusterArchs(plan.spec))
      BY Zenon DEF Planned
    <2> QED
      BY <1>6, <2>1, <2>2, SMTT(20), ZenonT(40) DEF SameLabels
  <1> QED
    BY <1>1, <1>2, <1>3, <1>5, <1>7, SMTT(20), ZenonT(40)

\* The restarted operator reconciles from the beginning.
LEMMA RestartKeeps ==
  ASSUME CInv, NEW v \in Versions, Restart(v) PROVE CInv'
  <1> USE DEF CInv
  <1>0. UNCHANGED <<ssp, templates>> /\ seen' = templates /\ news' = FALSE /\ version' = v
        /\ plan' = None /\ queued' = TRUE
    BY Zenon DEF Restart, Abort
  <1>1. TypeInv'
    BY <1>0, Zenon DEF TypeInv
  <1>2. Announced' /\ Foreign'
    BY <1>0, Zenon DEF Announced, Foreign, SameLabels
  <1>3. Listed' /\ Gone'
    BY <1>0, Zenon DEF Listed, Gone, Owned
  <1>4. Applied' /\ Planned' /\ Finished'
    BY <1>0, Alarmed, Zenon DEF Alarm
  <1> QED
    BY <1>1, <1>2, <1>3, <1>4, SMTT(20), ZenonT(40)

-----------------------------------------------------------------------------
(* Reconcile *)

\* A Reconcile that begins has nothing to promise, one that is paused neither.
LEMMA StartKeeps ==
  ASSUME CInv, Start, Notify PROVE CInv'
  <1> USE DEF CInv
  <1>0. UNCHANGED <<ssp, version, templates, seen>> /\ plan = None /\ ~ssp.deleting
    BY Zenon DEF Start, outside
  <1>1. \/ ssp.paused /\ plan' = None /\ queued' = FALSE
        \/ plan' = None /\ queued' = TRUE
        \/ /\ plan' = [stage |-> "templates", spec |-> ssp.spec,
                       changed |-> last # ssp.spec \/ ssp.observed # version]
           /\ queued' = FALSE
    BY <1>0, Zenon DEF Start, Abort
  <1>2. plan' \in Plan \cup {None} /\ queued' \in BOOLEAN
        /\ (plan' # None => plan'.stage = "templates")
        /\ (plan' = None => ssp.paused \/ queued')
    <2>1. CASE plan' = [stage |-> "templates", spec |-> ssp.spec,
                        changed |-> last # ssp.spec \/ ssp.observed # version] /\ queued' = FALSE
      <3>1. plan' \in [stage: {"templates"}, spec: Specs, changed: BOOLEAN] /\ plan'.stage = "templates"
        BY <2>1, Zenon DEF TypeInv
      <3>2. plan' \in Plan /\ plan' # None
        BY <3>1, NoneAssumption, Zenon DEF Plan
      <3> QED
        BY <2>1, <3>1, <3>2, ZenonT(40)
    <2> QED
      BY <1>1, <2>1, Zenon
  <1>3. news' \in BOOLEAN
    BY Zenon DEF Notify, TypeInv
  <1>4. TypeInv'
    BY <1>0, <1>2, <1>3, SMTT(20), ZenonT(40) DEF TypeInv
  <1>5. Announced' /\ Foreign'
    BY <1>0, <1>4, Streams, Untouched, SMTT(20), ZenonT(40)
  <1>6. Listed' /\ Gone'
    BY <1>0, <1>2, SMTT(20), ZenonT(40) DEF Listed, Gone
  <1>7. Applied' /\ Planned' /\ Finished'
    BY <1>0, <1>2, Zenon DEF Applied, Planned, Finished, Alarm
  <1> QED
    BY <1>4, <1>5, <1>6, <1>7, SMTT(20), ZenonT(40)

\* Written makes templates of the SSP, deletes, or leaves alone.
LEMMA WrittenSteps ==
  ASSUME TypeInv, NEW S \in SUBSET Keys, NEW D, NEW new,
         \A k \in S : new[k] \in Template /\ Mine(new[k]),
         templates' = Written(S, D, new)
  PROVE  /\ templates' \in [Keys -> Template \cup {None}]
         /\ Steps
         /\ \A k \in Keys : templates'[k] = IF k \in S /\ new[k] # seen[k] THEN new[k]
                                            ELSE IF k \in D THEN None ELSE templates[k]
  <1>1. \A k \in Keys : templates'[k] = IF k \in S /\ new[k] # seen[k] THEN new[k]
                                        ELSE IF k \in D THEN None ELSE templates[k]
    BY Zenon DEF Written
  <1>2. templates' \in [Keys -> Template \cup {None}]
    BY Zenon DEF Written, TypeInv
  <1>3. ASSUME NEW k \in Keys PROVE Alters(templates[k], templates'[k]) \/ Mine(templates'[k])
    <2>1. CASE k \in S /\ new[k] # seen[k]
      BY <1>1, <2>1, NoneAssumption, SMTT(20), ZenonT(40) DEF Mine
    <2>2. CASE ~(k \in S /\ new[k] # seen[k])
      BY <1>1, <2>2, Zenon DEF Alters, SameLabels
    <2> QED
      BY <2>1, <2>2, Zenon
  <1> QED
    BY <1>1, <1>2, <1>3, SMTT(20), ZenonT(40) DEF Steps

\* A copy that is as Reconcile wants it, and the SSP's, is as the template is, or
\* an event is under way.
LEMMA MineIsCurrent ==
  ASSUME TypeInv, TypeInv', Announced, Notify, ~Alarm', queued => queued', NEW k \in Keys, Mine(seen[k])
  PROVE  templates[k] = seen[k]
  BY Notified, Zenon DEF Announced, Alarm

\* After CreateOrUpdate of each template of the bundle they are as in the bundle.
LEMMA ApplyTemplatesKeeps ==
  ASSUME CInv, ApplyTemplates, Notify PROVE CInv'
  <1> USE DEF CInv
  <1> DEFINE all == Deployed(plan.spec, version)
             new == [k \in all |-> Updated(Found(k), k, plan.spec)]
  <1>0. /\ UNCHANGED <<ssp, version, seen>>
        /\ plan # None /\ plan.stage = "templates"
    BY Zenon DEF ApplyTemplates
  <1>1. plan \in Plan /\ plan.spec \in Specs /\ version \in Versions /\ all \subseteq Keys
    BY <1>0, PlanFields, DeployedKeys, SMTT(20), ZenonT(40) DEF TypeInv
  <1>2. ASSUME NEW k \in all
        PROVE  new[k] \in Template /\ AsBundled(new[k], k, plan.spec, version) /\ Mine(new[k])
    <2>1. Found(k) \in Template
      <3>1. Empty \in Template
        BY Zenon DEF Empty, Template
      <3> QED
        BY <1>1, <3>1, SMTT(20), ZenonT(40) DEF Found, TypeInv
    <2>2. new[k] = Updated(Found(k), k, plan.spec)
      BY Zenon
    <2>3. AsBundled(new[k], k, plan.spec, version) /\ new[k] \in Template
      BY <1>1, <2>1, <2>2, UpdatedFields, SMTT(20), ZenonT(40)
    <2> QED
      BY <2>3, Zenon DEF AsBundled, Mine
  <1>3. \/ /\ templates' = Written(all, {}, new)
           /\ plan' = [stage |-> "list", spec |-> plan.spec] /\ queued' = queued
        \/ \E S \in SUBSET all : templates' = Written(S, {}, new) /\ plan' = None /\ queued' = TRUE
    BY Zenon DEF ApplyTemplates, Abort
  <1> HIDE DEF new
  <1>4. PICK S \in SUBSET all :
           /\ templates' = Written(S, {}, new)
           /\ \/ S = all /\ plan' = [stage |-> "list", spec |-> plan.spec] /\ queued' = queued
              \/ plan' = None /\ queued' = TRUE
    BY <1>3, Zenon
  <1>5. /\ templates' \in [Keys -> Template \cup {None}] /\ Steps
        /\ \A k \in Keys : templates'[k] = IF k \in S /\ new[k] # seen[k] THEN new[k] ELSE templates[k]
    <2>1. S \in SUBSET Keys /\ \A k \in S : new[k] \in Template /\ Mine(new[k])
      BY <1>1, <1>2, Zenon
    <2>2. templates' = Written(S, {}, new)
      BY <1>4, Zenon
    <2> HIDE DEF all
    <2>3. /\ templates' \in [Keys -> Template \cup {None}] /\ Steps
          /\ \A k \in Keys : templates'[k] = IF k \in S /\ new[k] # seen[k] THEN new[k]
                                             ELSE IF k \in {} THEN None ELSE templates[k]
      BY <2>1, <2>2, WrittenSteps, SMTT(20), ZenonT(40)
    <2> QED
      BY <2>3, Zenon
  <1>6. news' \in BOOLEAN
    BY Zenon DEF Notify, TypeInv
  <1>7. plan' \in Plan \cup {None} /\ queued' \in BOOLEAN /\ (queued => queued')
        /\ (plan' # None => plan'.stage = "list" /\ plan'.spec = plan.spec /\ S = all)
        /\ (plan' = None => queued')
    <2>1. CASE S = all /\ plan' = [stage |-> "list", spec |-> plan.spec] /\ queued' = queued
      <3>1. plan' \in [stage: {"list"}, spec: Specs] /\ plan'.stage = "list" /\ plan'.spec = plan.spec
        BY <1>1, <2>1, SMTT(20), ZenonT(40)
      <3>2. plan' \in Plan /\ plan' # None
        BY <3>1, NoneAssumption, SMTT(20), ZenonT(40) DEF Plan
      <3> QED
        BY <2>1, <3>1, <3>2, SMTT(20), ZenonT(40) DEF TypeInv
    <2> QED
      BY <1>4, <2>1, Zenon
  <1>8. TypeInv'
    BY <1>0, <1>5, <1>6, <1>7, SMTT(20), ZenonT(40) DEF TypeInv
  <1>9. Announced' /\ Foreign'
    BY <1>0, <1>5, <1>8, Streams, SMTT(20), ZenonT(40)
  <1>10. Listed' /\ Gone'
    BY <1>0, <1>7, SMTT(20), ZenonT(40) DEF Listed, Gone
  <1>11. Planned' /\ Finished'
    BY <1>0, <1>7, SMTT(20), ZenonT(40) DEF Planned, Finished, Alarm
  <1>12. ASSUME plan' # None, ~Alarm', NEW k \in all
         PROVE  AsBundled(templates'[k], k, plan.spec, version)
    <2>1. CASE new[k] # seen[k]
      BY <1>1, <1>2, <1>5, <1>7, <1>12, <2>1, SMTT(20), ZenonT(40)
    <2>2. CASE new[k] = seen[k]
      <3>1. Mine(seen[k])
        BY <1>2, <2>2, ZenonT(40) DEF AsBundled, Mine
      <3>2. templates[k] = seen[k]
        BY <1>1, <1>7, <1>8, <1>12, <3>1, MineIsCurrent, SMTT(20), ZenonT(40)
      <3> QED
        BY <1>1, <1>2, <1>5, <2>2, <3>2, SMTT(20), ZenonT(40)
    <2> QED
      BY <2>1, <2>2, SMTT(20), ZenonT(40)
  <1>13. Applied'
    BY <1>0, <1>7, <1>12, SMTT(20), ZenonT(40) DEF Applied
  <1> QED
    BY <1>8, <1>9, <1>10, <1>11, <1>13, SMTT(20), ZenonT(40)

\* What is not listed is settled already, as far as the informer does not miss it.
LEMMA ListOldKeeps ==
  ASSUME CInv, ListOld, Notify PROVE CInv'
  <1> USE DEF CInv
  <1> DEFINE del == OtherArch(plan.spec)
             dep == [k \in ToDeprecate(plan.spec) |-> seen[k]]
             archs == Range(ClusterArchs(plan.spec))
  <1>0. /\ UNCHANGED <<ssp, version, templates, seen>>
        /\ plan # None /\ plan.stage = "list"
        /\ \/ plan' = [stage |-> "old", spec |-> plan.spec, delete |-> del, deprecate |-> dep] /\ queued' = queued
           \/ plan' = None /\ queued' = TRUE
    BY Zenon DEF ListOld, outside, Abort
  <1>1. plan.spec \in Specs /\ version \in Versions
    BY <1>0, PlanFields, Zenon DEF TypeInv
  <1>2. /\ del \subseteq Keys /\ del \cap Deployed(plan.spec, version) = {}
        /\ DOMAIN dep \subseteq Keys /\ DOMAIN dep \cap (Deployed(plan.spec, version) \cup del) = {}
        /\ \A k \in DOMAIN dep : dep[k] = seen[k] /\ dep[k] \in Template /\ dep[k].arch \in archs
    BY Zenon DEF OtherArch, ToDeprecate, NonDeployed, TypeInv
  <1>3. dep \in UNION {[S -> Template] : S \in SUBSET Keys}
    <2>1. dep \in [DOMAIN dep -> Template]
      BY <1>2, SMTT(20), ZenonT(40)
    <2> HIDE DEF dep
    <2> QED
      BY <1>2, <2>1, SMTT(20), ZenonT(40)
  <1>4. ASSUME ~Alarm, NEW k \in Here(plan.spec), k \notin Deployed(plan.spec, version) \cup del \cup DOMAIN dep
        PROVE  Settled(templates[k], plan.spec, version)
    <2> SUFFICES ASSUME templates[k] # None,
                        templates[k].mine \/ (templates[k].base /\ templates[k].version # version)
                 PROVE  templates[k].arch \in archs /\ ~(templates[k].version < version)
      BY Zenon DEF Settled
    <2>1. k \in Keys /\ k[1] = plan.spec.ns
      BY <1>1, DeployedKeys, SMTT(20), ZenonT(40) DEF Here
    <2>2. seen[k] # None /\ SameLabels(templates[k], seen[k])
      <3>1. CASE seen[k] = templates[k]
        BY <3>1, SMTT(20), ZenonT(40) DEF SameLabels
      <3>2. CASE seen[k] # templates[k]
        BY <1>4, <2>1, <3>2, SMTT(20), ZenonT(40) DEF Announced, Foreign, Alarm
      <3> QED
        BY <3>1, <3>2, SMTT(20), ZenonT(40)
    <2>3. k \in NonDeployed(plan.spec)
      BY <1>4, <2>1, <2>2, SMTT(20), ZenonT(40) DEF NonDeployed, SameLabels
    <2>4. seen[k].arch \in archs
      BY <1>4, <2>3, SMTT(20), ZenonT(40) DEF OtherArch
    <2>5. ~(seen[k].version < version)
      BY <1>4, <2>3, Zenon DEF ToDeprecate
    <2> QED
      BY <2>2, <2>4, <2>5, SMTT(20), ZenonT(40) DEF SameLabels
  <1> HIDE DEF del, dep
  <1>5. plan' \in Plan \cup {None} /\ queued' \in BOOLEAN /\ (queued => queued')
        /\ (plan' = None => queued')
        /\ (plan' # None => /\ plan'.stage = "old" /\ plan'.spec = plan.spec
                            /\ plan'.delete = del /\ plan'.deprecate = dep)
    <2>1. CASE plan' = [stage |-> "old", spec |-> plan.spec, delete |-> del, deprecate |-> dep] /\ queued' = queued
      <3>1. /\ plan' \in [stage: {"old"}, spec: Specs, delete: SUBSET Keys,
                          deprecate: UNION {[S -> Template] : S \in SUBSET Keys}]
            /\ plan'.stage = "old" /\ plan'.spec = plan.spec
            /\ plan'.delete = del /\ plan'.deprecate = dep
        BY <1>1, <1>2, <1>3, <2>1, SMTT(20), ZenonT(40)
      <3>2. plan' \in Plan /\ plan' # None
        BY <3>1, NoneAssumption, SMTT(20), ZenonT(40) DEF Plan
      <3> QED
        BY <2>1, <3>1, <3>2, SMTT(20), ZenonT(40) DEF TypeInv
    <2> QED
      BY <1>0, <2>1, ZenonT(40)
  <1>6. news' \in BOOLEAN
    BY Zenon DEF Notify, TypeInv
  <1>7. TypeInv'
    BY <1>0, <1>5, <1>6, SMTT(20), ZenonT(40) DEF TypeInv
  <1>8. Announced' /\ Foreign'
    BY <1>0, <1>7, Streams, Untouched, SMTT(20), ZenonT(40)
  <1>9. Listed' /\ Gone'
    BY <1>0, <1>2, <1>5, SMTT(20), ZenonT(40) DEF Listed, Gone
  <1>10. ~Alarm' => ~Alarm
    BY <1>5, <1>7, Notified, SMTT(20), ZenonT(40) DEF Alarm
  <1>11. Applied' /\ Finished'
    BY <1>0, <1>5, <1>10, SMTT(20), ZenonT(40) DEF Applied, Finished, Alarm
  <1>12. Planned'
    BY <1>0, <1>2, <1>4, <1>5, <1>10, SMTT(20), ZenonT(40) DEF Planned
  <1> QED
    BY <1>7, <1>8, <1>9, <1>11, <1>12, SMTT(20), ZenonT(40)

\* After the old templates are deprecated and deleted, all is settled.
LEMMA ApplyOldKeeps ==
  ASSUME CInv, ApplyOld, Notify PROVE CInv'
  <1> USE DEF CInv
  <1> DEFINE old == DOMAIN plan.deprecate
             new == [k \in old |-> Deprecated(seen[k], plan.deprecate[k])]
             archs == Range(ClusterArchs(plan.spec))
  <1>0. UNCHANGED <<version, seen>> /\ plan # None /\ plan.stage = "old"
    BY Zenon DEF ApplyOld
  <1>1. /\ plan \in Plan /\ plan.spec \in Specs /\ version \in Versions
        /\ old \subseteq Keys /\ plan.delete \subseteq Keys
        /\ \A k \in old : plan.deprecate[k] \in Template
    BY <1>0, PlanFields, SMTT(20), ZenonT(40) DEF TypeInv
  <1>2. ASSUME NEW k \in old
        PROVE  /\ new[k] \in Template /\ Mine(new[k]) /\ Marked(new[k])
               /\ new[k].arch = IF seen[k] = None THEN plan.deprecate[k].arch ELSE seen[k].arch
    <2>1. seen[k] \in Template \cup {None} /\ plan.deprecate[k] \in Template
      BY <1>1, Zenon DEF TypeInv
    <2>2. new[k] = Deprecated(seen[k], plan.deprecate[k])
      BY Zenon
    <2> HIDE DEF new
    <2>3. /\ new[k] \in Template /\ Marked(new[k])
          /\ new[k].arch = IF seen[k] = None THEN plan.deprecate[k].arch ELSE seen[k].arch
      BY <2>1, <2>2, DeprecatedFields
    <2> QED
      BY <2>3, Zenon DEF Mine, Marked
  <1>3. \/ /\ templates' = Written(old, plan.delete, new)
           /\ \/ /\ ssp.spec = plan.spec /\ ~ssp.paused /\ ~ssp.deleting
                 /\ plan' = None /\ ssp' = [ssp EXCEPT !.observed = version] /\ queued' = queued
              \/ plan' = None /\ queued' = TRUE /\ ssp' = ssp
        \/ \E T : /\ templates' = Written(T \cap old, T \cap plan.delete, new)
                  /\ plan' = None /\ queued' = TRUE /\ ssp' = ssp
    BY Zenon DEF ApplyOld, Abort
  <1> HIDE DEF new
  <1>4. PICK S \in SUBSET old, D \in SUBSET plan.delete :
           /\ templates' = Written(S, D, new)
           /\ \/ /\ S = old /\ D = plan.delete
                 /\ ssp.spec = plan.spec /\ ~ssp.paused /\ ~ssp.deleting
                 /\ plan' = None /\ ssp' = [ssp EXCEPT !.observed = version] /\ queued' = queued
              \/ plan' = None /\ queued' = TRUE /\ ssp' = ssp
    BY <1>3, Zenon
  <1>5. /\ templates' \in [Keys -> Template \cup {None}] /\ Steps
        /\ \A k \in Keys : templates'[k] = IF k \in S /\ new[k] # seen[k] THEN new[k]
                                           ELSE IF k \in D THEN None ELSE templates[k]
    <2>1. S \in SUBSET Keys /\ \A k \in S : new[k] \in Template /\ Mine(new[k])
      BY <1>1, <1>2, Zenon
    <2>2. templates' = Written(S, D, new)
      BY <1>4, Zenon
    <2> HIDE DEF old
    <2> QED
      BY <2>1, <2>2, WrittenSteps, SMTT(20), ZenonT(40)
  <1>6. news' \in BOOLEAN
    BY Zenon DEF Notify, TypeInv
  <1>7. /\ ssp' \in [spec: Specs, paused: BOOLEAN, deleting: BOOLEAN, gone: BOOLEAN, observed: Versions \cup {0}]
        /\ ssp'.spec = ssp.spec /\ ssp'.gone = ssp.gone
        /\ plan' = None /\ queued' \in BOOLEAN /\ (queued => queued')
    BY <1>4, ZenonT(40) DEF TypeInv
  <1>8. TypeInv'
    BY <1>0, <1>5, <1>6, <1>7, SMTT(20), ZenonT(40) DEF TypeInv
  <1>9. Announced' /\ Foreign'
    BY <1>0, <1>5, <1>8, Streams, SMTT(20), ZenonT(40)
  <1>10. Listed' /\ Gone' /\ Applied' /\ Planned'
    BY <1>0, <1>7, ZenonT(40) DEF Listed, Gone, Applied, Planned
  <1>11. ASSUME ~Alarm', NEW k \in Here(plan.spec)
         PROVE  Fine(templates'[k], k, plan.spec, version)
    <2>1. S = old /\ D = plan.delete /\ ~Alarm
      BY <1>4, <1>7, <1>8, <1>11, Notified, SMTT(20), ZenonT(40) DEF Alarm
    <2>2. k \in Keys
      BY <1>1, DeployedKeys, SMTT(20), ZenonT(40)
    <2>3. CASE k \in Deployed(plan.spec, version)
      <3>1. templates'[k] = templates[k]
        BY <1>0, <1>5, <2>1, <2>2, <2>3, SMTT(20), ZenonT(40) DEF Listed
      <3> QED
        BY <1>0, <2>1, <2>3, <3>1, SMTT(20), ZenonT(40) DEF Fine, Applied
    <2>4. CASE k \in old
      <3>1. k \notin Deployed(plan.spec, version) /\ k \notin plan.delete
        BY <1>0, <2>4, SMTT(20), ZenonT(40) DEF Listed
      <3>2. new[k].arch \in archs
        BY <1>0, <1>2, <2>1, <2>4, SMTT(20), ZenonT(40) DEF Planned, Listed
      <3>3. templates'[k] = new[k]
        <4>1. CASE new[k] # seen[k]
          BY <1>5, <2>1, <2>2, <2>4, <4>1, SMTT(20), ZenonT(40)
        <4>2. CASE new[k] = seen[k]
          <5>1. templates[k] = seen[k]
            BY <1>2, <1>7, <1>8, <1>11, <2>2, <2>4, <4>2, MineIsCurrent, SMTT(20), ZenonT(40)
          <5> QED
            BY <1>5, <2>1, <2>2, <3>1, <4>2, <5>1, SMTT(20), ZenonT(40)
        <4> QED
          BY <4>1, <4>2, SMTT(20), ZenonT(40)
      <3>4. Settled(new[k], plan.spec, version)
        BY <1>2, <2>4, <3>2, ZenonT(40) DEF Settled, Marked
      <3> QED
        BY <3>1, <3>3, <3>4, SMTT(20), ZenonT(40) DEF Fine
    <2>5. CASE k \in plan.delete
      <3>1. k \notin Deployed(plan.spec, version) /\ k \notin old
        BY <1>0, <2>5, SMTT(20), ZenonT(40) DEF Listed
      <3>2. templates'[k] = None
        BY <1>5, <2>1, <2>2, <2>5, <3>1, SMTT(20), ZenonT(40)
      <3> QED
        BY <3>1, <3>2, SMTT(20), ZenonT(40) DEF Fine, Settled
    <2>6. CASE k \notin Deployed(plan.spec, version) \cup plan.delete \cup old
      <3>1. templates'[k] = templates[k]
        BY <1>5, <2>1, <2>2, <2>6, SMTT(20), ZenonT(40)
      <3> QED
        BY <1>0, <2>1, <2>6, <3>1, SMTT(20), ZenonT(40) DEF Fine, Planned
    <2> QED
      BY <2>3, <2>4, <2>5, <2>6, SMTT(20), ZenonT(40)
  <1>12. Finished'
    <2>1. ~Alarm' => ssp.spec = plan.spec
      BY <1>4, Zenon DEF Alarm
    <2> QED
      BY <1>0, <1>7, <1>11, <2>1, SMTT(20), ZenonT(40) DEF Finished
  <1> QED
    BY <1>8, <1>9, <1>10, <1>12, SMTT(20), ZenonT(40)

\* Cleanup deletes; the SSP is released when the informer, which is up to date
\* then, shows nothing to delete.
LEMMA CleanupKeeps ==
  ASSUME CInv, Cleanup, Notify PROVE CInv'
  <1> USE DEF CInv
  <1>0. UNCHANGED <<version, seen, plan>> /\ plan = None /\ ssp.deleting /\ seen = templates /\ ~ssp.gone
    BY Zenon DEF Cleanup
  <1>1. \/ /\ templates' = Written({}, Owned(seen), seen)
           /\ ssp' = [ssp EXCEPT !.gone = (Owned(seen) = {})] /\ queued' = FALSE
        \/ (\E S : templates' = Written({}, S, seen)) /\ UNCHANGED <<ssp, queued>>
    BY Zenon DEF Cleanup, OwnedEverywhere
  <1>2. PICK D : /\ templates' = Written({}, D, seen)
                 /\ \/ /\ D = Owned(seen) /\ queued' = FALSE
                       /\ ssp' = [ssp EXCEPT !.gone = (Owned(seen) = {})]
                    \/ UNCHANGED <<ssp, queued>>
    BY <1>1, Zenon
  <1>3. /\ templates' \in [Keys -> Template \cup {None}] /\ Steps
        /\ \A k \in Keys : templates'[k] = IF k \in D THEN None ELSE templates[k]
    <2>1. templates' = [k \in Keys |-> IF k \in D THEN None ELSE templates[k]]
      BY <1>2, Zenon DEF Written
    <2>2. \A k \in Keys : templates'[k] = IF k \in D THEN None ELSE templates[k]
      BY <2>1, Zenon
    <2>3. templates' \in [Keys -> Template \cup {None}]
      BY <2>1, SMTT(20), ZenonT(40) DEF TypeInv
    <2>4. Steps
      BY <2>2, Zenon DEF Steps, Alters, SameLabels
    <2> QED
      BY <2>2, <2>3, <2>4, SMTT(20), ZenonT(40)
  <1>4. /\ ssp' \in [spec: Specs, paused: BOOLEAN, deleting: BOOLEAN, gone: BOOLEAN, observed: Versions \cup {0}]
        /\ ssp'.deleting = ssp.deleting /\ queued' \in BOOLEAN
        /\ ssp'.gone => (D = Owned(seen) /\ Owned(seen) = {})
    BY <1>0, <1>2, ZenonT(40) DEF TypeInv
  <1>5. news' \in BOOLEAN
    BY Zenon DEF Notify, TypeInv
  <1>6. TypeInv'
    BY <1>0, <1>3, <1>4, <1>5, Zenon DEF TypeInv
  <1>7. Announced' /\ Foreign'
    BY <1>0, <1>3, <1>6, Streams, Zenon
  <1>8. Listed' /\ Applied' /\ Planned' /\ Finished'
    BY <1>0, <1>4, ZenonT(40) DEF Listed, Applied, Planned, Finished
  <1>9. Gone'
    <2> SUFFICES ASSUME ssp'.gone PROVE Owned(templates') = {}
      BY <1>0, <1>4, Zenon DEF Gone, Owned
    <2>1. \A k \in Keys : templates'[k] = seen[k]
      BY <1>0, <1>3, <1>4, Zenon
    <2> QED
      BY <1>4, <2>1, Zenon DEF Owned
  <1> QED
    BY <1>6, <1>7, <1>8, <1>9, SMTT(20), ZenonT(40)

-----------------------------------------------------------------------------
(* The results *)

LEMMA CInvInductive == Spec => []CInv
  <1>1. Init => CInv
    <2> SUFFICES ASSUME Init PROVE CInv
      BY Zenon
    <2>1. templates \in [Keys -> Template \cup {None}] /\ seen = templates
      BY LegacyAssumption, Zenon DEF Init
    <2>2. ssp \in [spec: Specs, paused: BOOLEAN, deleting: BOOLEAN, gone: BOOLEAN, observed: Versions \cup {0}]
          /\ ~ssp.gone
      BY Zenon DEF Init
    <2>3. TypeInv
      BY <2>1, <2>2, ZenonT(40) DEF Init, TypeInv
    <2>4. Announced /\ Foreign
      BY <2>1, SMTT(20), ZenonT(40) DEF Announced, Foreign, SameLabels
    <2>5. Listed /\ Applied /\ Planned /\ Finished /\ Gone
      BY <2>2, Zenon DEF Init, Listed, Applied, Planned, Finished, Gone, Alarm
    <2> QED
      BY <2>3, <2>4, <2>5, Zenon DEF CInv
  <1>2. CInv /\ [Next]_vars => CInv'
    <2> SUFFICES ASSUME CInv, [Next]_vars PROVE CInv'
      BY Zenon
    <2>1. CASE Worker
      BY <2>1, StartKeeps, ApplyTemplatesKeeps, ListOldKeeps, ApplyOldKeeps, CleanupKeeps, SMTT(20), ZenonT(40) DEF Worker
    <2>2. CASE Deliver
      BY <2>2, DeliverKeeps, Zenon
    <2>3. CASE Users
      BY <2>3, UsersKeep, Zenon
    <2>4. CASE \E v \in Versions : Restart(v)
      BY <2>4, RestartKeeps, Zenon
    <2>5. CASE UNCHANGED vars
      BY <2>5, Zenon DEF vars, CInv, TypeInv, Announced, Foreign, Listed, Applied, Planned, Finished, Gone, Alarm, Owned
    <2> QED
      BY <2>1, <2>2, <2>3, <2>4, <2>5, SMTT(20), ZenonT(40) DEF Next
  <1> QED
    BY <1>1, <1>2, PTL DEF Spec

\* When Reconcile of the common templates is not called again, the bundle's
\* templates are as in the bundle, and those of other versions and architectures
\* are deprecated or deleted, whatever users, restarts and refused requests did
\* before and however late the informer was.
THEOREM RestsOnConsistentTemplates == Spec => []TemplatesConsistent
  <1>1. CInv => TemplatesConsistent
    <2> SUFFICES ASSUME CInv, AtRest, NEW n \in Names
                 PROVE  LET k == <<ssp.spec.ns, n>> IN
                        IF k \in Deployed(ssp.spec, version)
                        THEN /\ templates[k] # None
                             /\ templates[k] = [Updated(Empty, k, ssp.spec) EXCEPT !.rules = templates[k].rules]
                        ELSE Settled(templates[k], ssp.spec, version)
      BY Zenon DEF TemplatesConsistent, Settled
    <2> DEFINE k == <<ssp.spec.ns, n>>
    <2>1. ssp.spec \in Specs /\ version \in Versions
      BY Zenon DEF CInv, TypeInv
    <2>2. k \in Here(ssp.spec) /\ k \in Keys
      BY <2>1, SpecsAssumption, SMTT(20), ZenonT(40) DEF Here, Keys
    <2>3. Fine(templates[k], k, ssp.spec, version)
      BY <2>2, Zenon DEF CInv, Finished, AtRest, Alarm
    <2> HIDE DEF k
    <2>4. CASE k \in Deployed(ssp.spec, version)
      <3>1. AsBundled(templates[k], k, ssp.spec, version) /\ templates[k] # None
        BY <2>3, <2>4, Zenon DEF Fine, AsBundled
      <3>2. templates[k] \in Template
        BY <2>2, <3>1, Zenon DEF CInv, TypeInv
      <3>3. templates[k] = [Updated(Empty, k, ssp.spec) EXCEPT !.rules = templates[k].rules]
        BY <2>1, <2>2, <3>1, <3>2, BundledIsUpdated, SMTT(20), ZenonT(40)
      <3> QED
        BY <2>4, <3>1, <3>3, ZenonT(40) DEF k
    <2>5. CASE k \notin Deployed(ssp.spec, version)
      BY <2>3, <2>5, Zenon DEF Fine, k
    <2> QED
      BY <2>4, <2>5, SMTT(20), ZenonT(40)
  <1> QED
    BY <1>1, CInvInductive, PTL

\* Cleanup releases the SSP only when no template of the SSP is left in any
\* namespace, and none appears afterwards.
THEOREM ReleasesClean == Spec => []ReleasedIsClean
  <1>1. CInv => ReleasedIsClean
    BY Zenon DEF CInv, Gone, ReleasedIsClean
  <1> QED
    BY <1>1, CInvInductive, PTL
=============================================================================
