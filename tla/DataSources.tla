------------------------------ MODULE DataSources ------------------------------
(***************************************************************************)
(* The data-sources operand (internal/operands/data-sources/reconcile.go):  *)
(* the DataSources of the golden images namespace and the DataImportCrons   *)
(* that keep them up to date, next to users, who bring their own image as a *)
(* PVC or switch auto-update on with a label, and to CDI, which imports     *)
(* images and sets the status of DataSources.                               *)
(*                                                                          *)
(* Reconcile first decides, from the informer's copies and from uncached    *)
(* reads of PVCs, what should exist (Plan), and then makes one API request  *)
(* after the other.  The requests of ApplyDataSources are about different    *)
(* objects, as are those of ApplyCrons, so each is one step that may end     *)
(* early; everybody else runs between the steps.                            *)
(***************************************************************************)
EXTENDS Architecture

CONSTANTS
    Names,      \* base names of DataSources
    CronNames,  \* names of DataImportCron templates
    Sources,    \* sourceCollection: base name |-> architectures of the bundle
    Specs,      \* the SSP specs users choose from
    UserPvcs,   \* the PVCs users may create (names of DataSources)
    Lagging,    \* cleanup may start with informers that lag behind
    MaxEdits,   \* bound: actions of users
    MaxFaults,  \* bound: failed requests and restarts
    None

ASSUME BoundsAssumption == MaxEdits \in Nat /\ MaxFaults \in Nat /\ Lagging \in BOOLEAN

\* A base name with the suffix of an architecture, or with NoArch.
DsNames == Names \X (Archs \cup {NoArch})
CronIds == {"golden", "other"} \X CronNames \X (Archs \cup {NoArch})

\* spec.source: nothing yet, the import of a cron, a PVC, another DataSource
Source == {<<"none">>, <<"import">>} \cup ({"pvc", "ref"} \X DsNames)

\* label: the value of cdi.kubevirt.io/dataImportCron; ready: status of the
\* Ready condition; mine: the owner annotations name the SSP
DataSource == [source: Source, label: CronIds \cup {None},
               ready: {"unset", "true", "false"}, mine: BOOLEAN]
DataImportCron == [managed: DsNames, deleting: BOOLEAN]

\* What Reconcile decides about a DataSource: its source, whether a cron updates
\* it, and which
DataSourceInfo == [source: Source, auto: BOOLEAN, cron: CronIds \cup {None}]
Plans == [stage: {"ds", "crons"},
          infos: UNION {[S -> DataSourceInfo] : S \in SUBSET DsNames},
          crons: SUBSET [id: CronIds, managed: DsNames],
          dropDs: SUBSET DsNames, dropCrons: SUBSET CronIds]

ASSUME NoneAssumption == None \notin CronIds \cup DataSource \cup DataImportCron \cup Plans

ASSUME SourcesAssumption ==
    DOMAIN Sources \subseteq Names /\ \A n \in DOMAIN Sources : Sources[n] \subseteq Archs

ASSUME SpecsAssumption == \A spec \in Specs :
    /\ spec.multi \in BOOLEAN
    /\ \A list \in {spec.cluster.cp, spec.cluster.wl} : list \in Seq(Range(list))
    /\ Len(spec.crons) \in Nat /\ DOMAIN spec.crons = 1..Len(spec.crons)
    /\ \A i \in DOMAIN spec.crons :
          /\ spec.crons[i].ns \in {"golden", "other"} /\ spec.crons[i].name \in CronNames
          /\ spec.crons[i].ds \in Names

VARIABLES
    ssp,        \* the SSP: [spec, deleting, gone]
    ds,         \* DataSources of the golden images namespace
    crons,      \* DataImportCrons of the SSP
    pvcs,       \* PVCs of the golden images namespace that users created
    fixed,      \* the namespace, roles, binding and network policies exist
    seen,       \* the informer's copies of ds
    seenCrons,  \* the informer's copies of crons
    news,       \* the informers that have events of the SSP's objects to deliver
    plan,       \* what the running Reconcile still has to do, or None
    queued,     \* a reconciliation is waiting, or will be retried
    edits,
    faults

vars == <<ssp, ds, crons, pvcs, fixed, seen, seenCrons, news, plan, queued, edits, faults>>

-----------------------------------------------------------------------------
(* What should exist *)

ArchsOfSpecs == {[spec |-> spec, archs |-> GetSSPArchs(spec)] : spec \in Specs}

ClusterArchs(spec) == (CHOOSE r \in ArchsOfSpecs : r.spec = spec).archs

Cron(ns, name, arch, managed) == [id |-> <<ns, name, arch>>, managed |-> managed]

\* parseArchsAnnotation: unknown names are ignored
parseArchsAnnotation(t) == t.archs \cap Archs

\* The architecture whose DataSource the one without suffix refers to.
defaultArch(clusterArchs, n) ==
    IF n \in DOMAIN Sources THEN getDefaultDataSourceArch(clusterArchs, Sources[n]) ELSE NoArch

\* The crons that one template of the SSP stands for.
CronsOfTemplate(spec, clusterArchs, t) ==
    IF ~spec.multi THEN {Cron(t.ns, t.name, NoArch, <<t.ds, NoArch>>)}
    ELSE IF t.archs = {} THEN {Cron(t.ns, t.name, NoArch, <<t.ds, defaultArch(clusterArchs, t.ds)>>)}
    ELSE {Cron(t.ns, t.name, arch, <<t.ds, arch>>) :
             arch \in parseArchsAnnotation(t) \cap Range(clusterArchs)}

\* cronByDataSource: when templates manage the same DataSource, the last one wins.
CronByDataSource(spec, clusterArchs) ==
    UNION {{c \in CronsOfTemplate(spec, clusterArchs, spec.crons[i]) :
              \A j \in (i + 1)..Len(spec.crons) :
                  \A d \in CronsOfTemplate(spec, clusterArchs, spec.crons[j]) :
                      d.managed # c.managed \/ d.id[1] # c.id[1]} : i \in DOMAIN spec.crons}

\* The cron that manages a DataSource of the golden images namespace.
CronsOf(cronByDs, k) == {c \in cronByDs : c.managed = k /\ c.id[1] = "golden"}

dicName(cronByDs, k) == IF CronsOf(cronByDs, k) = {} THEN None
                        ELSE (CHOOSE c \in CronsOf(cronByDs, k) : TRUE).id

\* The two PVC pointers that the code compares are never equal, so a Ready
\* condition does not decide.
dataSourceAutoUpdateEnabled(cronByDs, k) ==
    /\ CronsOf(cronByDs, k) # {}
    /\ \/ seen[k] # None /\ seen[k].label # None
       \/ k \notin pvcs

\* The default architecture's DataSource keeps using the PVC without suffix.
\* The result is the source and whether auto-update is enabled.
handleDefaultDataSource(k, auto) ==
    LET found == seen[k]
        original == <<"pvc", <<k[1], NoArch>>>>
        own == [source |-> <<"pvc", k>>, auto |-> auto]
        kept == [source |-> original, auto |-> FALSE]
    IN  IF found = None THEN IF <<k[1], NoArch>> \in pvcs THEN kept ELSE own
        ELSE IF found.label # None THEN own
        ELSE IF found.ready = "unset" THEN [source |-> found.source, auto |-> FALSE]
        ELSE IF found.ready = "true" /\ found.source = original THEN kept
        ELSE own

Info(source, auto, cron) == [source |-> source, auto |-> auto, cron |-> cron]

OwnInfo(cronByDs, k, isDefault) ==
    LET auto == dataSourceAutoUpdateEnabled(cronByDs, k)
        info == IF isDefault THEN handleDefaultDataSource(k, auto)
                ELSE [source |-> <<"pvc", k>>, auto |-> auto]
    IN  Info(info.source, info.auto, dicName(cronByDs, k))

Reference(n, arch) == Info(<<"ref", <<n, arch>>>>, FALSE, None)

\* getDataSourceInfos
SingleArchInfos(clusterArchs, cronByDs) ==
    [k \in {<<n, NoArch>> : n \in {m \in DOMAIN Sources : clusterArchs[1] \in Sources[m]}} |->
        OwnInfo(cronByDs, k, FALSE)]

\* The names of the bundle that the cluster has an architecture for.
DeployedNames(clusterArchs) == {n \in DOMAIN Sources : defaultArch(clusterArchs, n) # NoArch}

\* The DataSources of the bundle, one for each architecture.
OwnKeys(clusterArchs) ==
    {k \in DeployedNames(clusterArchs) \X Range(clusterArchs) : k[2] \in Sources[k[1]]}

\* addDataSourceReferenceForCrons: the templates that are the first of their
\* DataSource to name an architecture of the cluster.
cronArch(clusterArchs, t) == getDefaultDataSourceArch(clusterArchs, parseArchsAnnotation(t))

CustomCrons(spec, clusterArchs) ==
    {i \in DOMAIN spec.crons :
        /\ spec.crons[i].ds \notin DeployedNames(clusterArchs)
        /\ spec.crons[i].archs # {}
        /\ cronArch(clusterArchs, spec.crons[i]) # NoArch
        /\ \A j \in 1..(i - 1) : spec.crons[j].ds = spec.crons[i].ds =>
               cronArch(clusterArchs, spec.crons[j]) = NoArch}

CustomNames(spec, clusterArchs) == {spec.crons[i].ds : i \in CustomCrons(spec, clusterArchs)}

customArch(spec, clusterArchs, n) ==
    cronArch(clusterArchs, spec.crons[CHOOSE i \in CustomCrons(spec, clusterArchs) : spec.crons[i].ds = n])

\* getDataSourceInfosMultiArch
MultiArchInfos(spec, clusterArchs, cronByDs) ==
    LET deployed == DeployedNames(clusterArchs)
        own == OwnKeys(clusterArchs)
        names == deployed \cup CustomNames(spec, clusterArchs)
    IN  [k \in own \cup (names \X {NoArch}) |->
            IF k \in own THEN OwnInfo(cronByDs, k, k[2] = defaultArch(clusterArchs, k[1]))
            ELSE IF k[1] \in deployed THEN Reference(k[1], defaultArch(clusterArchs, k[1]))
            ELSE Reference(k[1], customArch(spec, clusterArchs, k[1]))]

DataSourceInfos(spec, clusterArchs, cronByDs) ==
    IF spec.multi THEN MultiArchInfos(spec, clusterArchs, cronByDs)
    ELSE SingleArchInfos(clusterArchs, cronByDs)

\* The crons that are deployed: those whose DataSource is auto-updated, and
\* those whose DataSource is none of the operator's.
DataImportCrons(cronByDs, infos) ==
    {c \in cronByDs :
        ~(c.id[1] = "golden" /\ c.managed \in DOMAIN infos /\ ~infos[c.managed].auto)}

-----------------------------------------------------------------------------
(* Reconcile *)

Owned(f) == {k \in DOMAIN f : f[k] # None /\ f[k].mine}
\* The informers have caught up.
Current == seen = ds /\ seenCrons = crons

Existing(f) == {c \in DOMAIN f : f[c] # None}

\* The running Reconcile ends with an error, the request is queued again.
Abort == plan' = None /\ queued' = TRUE

\* The lists and decisions of Reconcile; the namespace and the roles come first
\* of the resources.  An SSP without usable architectures is an error.
Plan ==
    /\ queued /\ plan = None /\ ~ssp.deleting
    /\ \E clusterArchs \in {ClusterArchs(ssp.spec)} :
           IF clusterArchs = <<>>
           THEN Abort /\ UNCHANGED fixed
           ELSE \E cronByDs \in {CronByDataSource(ssp.spec, clusterArchs)} :
                \E infos \in {DataSourceInfos(ssp.spec, clusterArchs, cronByDs)} :
                \E deploy \in {DataImportCrons(cronByDs, infos)} :
                   /\ plan' = [stage |-> "ds", infos |-> infos, crons |-> deploy,
                               dropDs |-> Owned(seen) \ DOMAIN infos,
                               dropCrons |-> Existing(seenCrons) \ {c.id : c \in deploy}]
                   /\ fixed' = TRUE
                   /\ queued' = FALSE
    /\ UNCHANGED <<ssp, ds, crons, pvcs, seen, seenCrons, edits, faults>>

\* Mutant: the spec is set also when CDI updates the DataSource.
UpdatedAlways(found, info) ==
    [found EXCEPT !.mine = TRUE, !.source = info.source, !.label = info.cron]

\* Mutant: the label is not restored.
UpdatedWithoutLabel(found, info) ==
    IF info.auto THEN [found EXCEPT !.mine = TRUE]
    ELSE [found EXCEPT !.mine = TRUE, !.label = None, !.source = info.source]

\* updateFunc of reconcileDataSource, with the owner annotations.
Updated(found, info) ==
    IF info.auto THEN [found EXCEPT !.mine = TRUE, !.label = info.cron]
    ELSE [found EXCEPT !.mine = TRUE, !.label = None, !.source = info.source]

Empty == [source |-> <<"none">>, label |-> None, ready |-> "unset", mine |-> FALSE]

\* What CreateOrUpdate makes of a DataSource, and whether the server refuses it
\* because the copy it starts from is old.
Result(k) == Updated(IF seen[k] = None THEN Empty ELSE seen[k], plan.infos[k])
Refused(k) == Result(k) # seen[k] /\ seen[k] # ds[k]

\* The DataSources after S was applied and D deleted.
Applied(S, D) == [k \in DsNames |-> IF k \in S /\ Result(k) # seen[k] THEN Result(k)
                                    ELSE IF k \in D THEN None ELSE ds[k]]

\* CreateOrUpdate of each DataSource, then the deletion of those that should not
\* exist; a refused or failed request ends the reconciliation after some of them.
ApplyDataSources ==
    LET all == DOMAIN plan.infos
        stopped == \E S \in SUBSET {k \in all : ~Refused(k)} :
                      /\ S # all
                      /\ ds' = Applied(S, {}) /\ Abort
    IN  /\ plan # None /\ plan.stage = "ds"
        /\ \/ /\ \A k \in all : ~Refused(k)
              /\ ds' = Applied(all, plan.dropDs)
              /\ plan' = [plan EXCEPT !.stage = "crons"]
              /\ UNCHANGED <<queued, faults>>
           \/ /\ \E k \in all : Refused(k)
              /\ stopped /\ UNCHANGED faults
           \/ /\ faults > 0 /\ faults' = faults - 1
              /\ stopped \/ (ds' = Applied(all, {}) /\ Abort)
        /\ UNCHANGED <<ssp, crons, pvcs, fixed, seen, seenCrons, edits>>

Deleted(f, S) == [id \in DOMAIN f |-> IF id \in S /\ f[id] # None
                                      THEN [f[id] EXCEPT !.deleting = TRUE] ELSE f[id]]

\* CreateOrUpdate of a DataImportCron: its spec is immutable, so one for another
\* DataSource is deleted, and created by a later reconciliation.
Create(c) == seenCrons[c.id] = None
Wrong(c) == /\ seenCrons[c.id] # None /\ ~seenCrons[c.id].deleting
            /\ seenCrons[c.id].managed # c.managed
CronRefused(c) == \/ Create(c) /\ crons[c.id] # None
                  \/ Wrong(c) /\ crons[c.id] = None

AppliedCrons(C, D) ==
    LET created == {c \in C : Create(c)}
        removed == {c.id : c \in {d \in C : Wrong(d)}} \cup D
    IN  [id \in CronIds |->
            IF \E c \in created : c.id = id
            THEN [managed |-> (CHOOSE c \in created : c.id = id).managed, deleting |-> FALSE]
            ELSE Deleted(crons, removed)[id]]

\* CreateOrUpdate of each cron, then the deletion of those that should not exist.
ApplyCrons ==
    LET stopped == \E C \in SUBSET {c \in plan.crons : ~CronRefused(c)} :
                      /\ C # plan.crons
                      /\ crons' = AppliedCrons(C, {}) /\ Abort
    IN  /\ plan # None /\ plan.stage = "crons"
        /\ \/ /\ \A c \in plan.crons : ~CronRefused(c)
              /\ crons' = AppliedCrons(plan.crons, plan.dropCrons)
              /\ plan' = None
              /\ UNCHANGED <<queued, faults>>
           \/ /\ \E c \in plan.crons : CronRefused(c)
              /\ stopped /\ UNCHANGED faults
           \/ /\ faults > 0 /\ faults' = faults - 1
              /\ stopped \/ (crons' = AppliedCrons(plan.crons, {}) /\ Abort)
        /\ UNCHANGED <<ssp, ds, pvcs, fixed, seen, seenCrons, edits>>

\* The operator restarts, with fresh informers.
Restart ==
    /\ faults > 0 /\ faults' = faults - 1
    /\ Abort
    /\ seen' = ds /\ seenCrons' = crons /\ news' = {}
    /\ UNCHANGED <<ssp, ds, crons, pvcs, fixed, edits>>

-----------------------------------------------------------------------------
(* Cleanup *)

\* Mutant: everything is deleted at once.
CleanupAtOnce ==
    /\ crons' = Deleted(crons, Existing(seenCrons))
    /\ ds' = [k \in DsNames |-> IF k \in Owned(seen) THEN None ELSE ds[k]]
    /\ fixed' = FALSE

\* First the crons; the DataSources, the namespace and the rest only when no
\* cron is left (a CRD that does not exist has no objects).
CleanupInOrder ==
    IF Existing(seenCrons) # {}
    THEN /\ crons' = Deleted(crons, Existing(seenCrons))
         /\ UNCHANGED <<ds, fixed>>
    ELSE /\ ds' = [k \in DsNames |-> IF k \in Owned(seen) THEN None ELSE ds[k]]
         /\ fixed' = FALSE
         /\ UNCHANGED crons

\* Mutant: requested deletions are not waited for.
allDeletionsRequested == TRUE

\* Every resource that Cleanup looks for is gone.
allDeleted == Existing(seenCrons) = {} /\ Owned(seen) = {} /\ ~fixed

\* The SSP is released when Cleanup finds nothing.
Cleanup ==
    /\ queued /\ plan = None /\ ssp.deleting /\ ~ssp.gone
    /\ Lagging \/ Current
    /\ CleanupInOrder
    /\ ssp' = [ssp EXCEPT !.gone = allDeleted]
    /\ queued' = (fixed /\ Existing(seenCrons) = {})
    /\ UNCHANGED <<pvcs, seen, seenCrons, plan, edits, faults>>

-----------------------------------------------------------------------------
(* Informers, CDI and users *)

\* A change of a DataSource (the whole object is watched) or a DataImportCron
\* makes an event; the event of an object that is not the SSP's is dropped.
Notify ==
    news' = news \cup (IF \E k \in Owned(ds) \cup Owned(ds)' : ds'[k] # ds[k] THEN {"ds"} ELSE {})
                 \cup (IF crons' # crons THEN {"crons"} ELSE {})

\* Each informer shows the objects of its kind as they were at some time.
DeliverDataSources ==
    /\ seen # ds \/ "ds" \in news
    /\ seen' = ds
    /\ queued' = (queued \/ "ds" \in news)
    /\ news' = news \ {"ds"}
    /\ UNCHANGED <<ssp, ds, crons, pvcs, fixed, seenCrons, plan, edits, faults>>

\* Mutant: DataImportCrons are not watched.
DeliverCronsUnwatched ==
    /\ "crons" \in news /\ news' = news \ {"crons"}
    /\ seenCrons' = crons
    /\ UNCHANGED <<ssp, ds, crons, pvcs, fixed, seen, plan, queued, edits, faults>>

DeliverCrons ==
    /\ "crons" \in news /\ news' = news \ {"crons"}
    /\ seenCrons' = crons
    /\ queued' = TRUE
    /\ UNCHANGED <<ssp, ds, crons, pvcs, fixed, seen, plan, edits, faults>>

\* What CDI does for a cron: it makes the DataSource, or points the one that
\* carries the cron's label to the imported image.
CdiImport(id) ==
    LET k == crons[id].managed
    IN  /\ crons[id] # None /\ ~crons[id].deleting /\ id[1] = "golden"
        /\ \/ ds[k] = None /\ ds' = [ds EXCEPT ![k] = [Empty EXCEPT !.source = <<"import">>, !.label = id]]
           \/ /\ ds[k] # None /\ ds[k].label = id /\ ds[k].source # <<"import">>
              /\ ds' = [ds EXCEPT ![k].source = <<"import">>]
        /\ UNCHANGED <<ssp, crons, pvcs, fixed, seen, seenCrons, plan, queued, edits, faults>>

Resolves(source) == CASE source[1] = "none" -> FALSE
                      [] source[1] = "import" -> TRUE
                      [] source[1] = "pvc" -> source[2] \in pvcs

\* Nobody reads the status of a reference: it is left out.
ReadyStatus(k) == IF ds[k].source[1] = "ref" THEN "unset"
                  ELSE IF Resolves(ds[k].source) THEN "true" ELSE "false"

CdiStatus ==
    /\ ds' = [k \in DsNames |-> IF ds[k] = None THEN None ELSE [ds[k] EXCEPT !.ready = ReadyStatus(k)]]
    /\ ds' # ds
    /\ UNCHANGED <<ssp, crons, pvcs, fixed, seen, seenCrons, plan, queued, edits, faults>>

\* CDI's finalizer on a deleted cron is removed.
CdiFinalize(id) ==
    /\ crons[id] # None /\ crons[id].deleting
    /\ crons' = [crons EXCEPT ![id] = None]
    /\ UNCHANGED <<ssp, ds, pvcs, fixed, seen, seenCrons, plan, queued, edits, faults>>

User == edits > 0 /\ edits' = edits - 1 /\ UNCHANGED <<seen, seenCrons, plan, faults>>

EditSsp(spec) ==
    /\ User /\ ~ssp.deleting /\ spec # ssp.spec
    /\ ssp' = [ssp EXCEPT !.spec = spec] /\ queued' = TRUE
    /\ UNCHANGED <<ds, crons, pvcs, fixed>>

DeleteSsp ==
    /\ User /\ ~ssp.deleting
    /\ ssp' = [ssp EXCEPT !.deleting = TRUE] /\ queued' = TRUE
    /\ UNCHANGED <<ds, crons, pvcs, fixed>>

ChangePvc(k) ==
    /\ User
    /\ pvcs' = IF k \in pvcs THEN pvcs \ {k} ELSE pvcs \cup {k}
    /\ UNCHANGED <<ssp, ds, crons, fixed, queued>>

\* A user switches auto-update on for a DataSource, or tries to switch it off.
ChangeLabel(k) ==
    /\ User /\ ds[k] # None
    /\ \E cronByDs \in {CronByDataSource(ssp.spec, ClusterArchs(ssp.spec))} :
       \E label \in {None, dicName(cronByDs, k)} \ {ds[k].label} :
          ds' = [ds EXCEPT ![k].label = label]
    /\ UNCHANGED <<ssp, crons, pvcs, fixed, queued>>

RemoveDataSource(k) ==
    /\ User /\ ds[k] # None
    /\ ds' = [ds EXCEPT ![k] = None]
    /\ UNCHANGED <<ssp, crons, pvcs, fixed, queued>>

RemoveCron(id) ==
    /\ User /\ crons[id] # None /\ ~crons[id].deleting
    /\ crons' = Deleted(crons, {id})
    /\ UNCHANGED <<ssp, ds, pvcs, fixed, queued>>

Init ==
    /\ ssp \in [spec: Specs, deleting: {FALSE}, gone: {FALSE}]
    /\ pvcs \in SUBSET UserPvcs
    /\ ds = [k \in DsNames |-> None] /\ crons = [id \in CronIds |-> None]
    /\ seen = ds /\ seenCrons = crons /\ news = {}
    /\ fixed = FALSE /\ plan = None /\ queued = TRUE
    /\ edits = MaxEdits /\ faults = MaxFaults

Worker == (Plan \/ ApplyDataSources \/ ApplyCrons \/ Cleanup) /\ Notify

Informers == DeliverDataSources \/ DeliverCrons

Cdi == /\ \/ CdiStatus
          \/ \E id \in CronIds : CdiImport(id) \/ CdiFinalize(id)
       /\ Notify

Users == /\ \/ \E spec \in Specs : EditSsp(spec)
            \/ DeleteSsp
            \/ \E k \in UserPvcs : ChangePvc(k)
            \/ \E k \in DsNames : ChangeLabel(k) \/ RemoveDataSource(k)
            \/ \E id \in CronIds : RemoveCron(id)
         /\ Notify

Next == Worker \/ Informers \/ Cdi \/ Users \/ Restart

Spec == Init /\ [][Next]_vars

\* Worker can take a step (ENABLED <<Worker>>_vars).
WorkerReady ==
    \/ plan # None
    \/ queued /\ ~ssp.gone /\ IF ssp.deleting THEN Lagging \/ Current
                              ELSE ClusterArchs(ssp.spec) # <<>>

\* The operator's worker, the informers and CDI keep going.  A step of Worker
\* changes plan or fixed or leaves it nothing to do, so the first conjunct is
\* WF_vars(Worker).
FairSpec == /\ Spec
            /\ []<>~WorkerReady \/ []<><<TRUE>>_<<plan, fixed>>
            /\ WF_vars(Informers) /\ WF_vars(Cdi)

-----------------------------------------------------------------------------
(* Properties *)

\* As long as a DataImportCron of the SSP exists, the golden images namespace,
\* its roles and its network policies exist: Cleanup deletes them only after
\* the crons, and Reconcile creates them first.
NamespaceOutlivesCrons == Existing(crons) # {} => fixed

\* The SSP is released only when none of its DataSources and crons is left.
ReleasedIsClean == ssp.gone => (Owned(ds) = {} /\ Existing(crons) = {} /\ ~fixed)

\* Nobody has anything left to do.
AtRest ==
    /\ ~queued /\ plan = None /\ ~ssp.deleting /\ Current /\ news = {}
    /\ \A k \in DsNames : ds[k] # None => ds[k].ready = ReadyStatus(k)
    /\ \A id \in Existing(crons) :
          /\ ~crons[id].deleting
          /\ id[1] = "golden" => LET k == crons[id].managed IN
                 ds[k] # None /\ (ds[k].label = id => ds[k].source = <<"import">>)

Managers(k) == {id \in Existing(crons) : id[1] = "golden" /\ crons[id].managed = k}

\* When nobody has anything left to do: a DataSource of the operator carries the
\* label of the one cron that manages it, or it is not managed and points to its
\* own PVC, to the PVC without suffix or to another DataSource that exists;
\* every DataSource of the bundle that the cluster can use exists, and none for
\* an architecture that the cluster does not have.
GoldenImagesConsistent ==
    AtRest /\ ClusterArchs(ssp.spec) # <<>> =>
        /\ \A k \in Owned(ds) :
              /\ Managers(k) = IF ds[k].label = None THEN {} ELSE {ds[k].label}
              /\ ds[k].label = None =>
                    \/ ds[k].source[1] = "pvc" /\ ds[k].source[2] \in {k, <<k[1], NoArch>>}
                    \/ ds[k].source[1] = "ref" /\ ds[ds[k].source[2]] # None
              /\ k[2] # NoArch => ssp.spec.multi /\ k[2] \in Range(ClusterArchs(ssp.spec))
        /\ \A n \in DOMAIN Sources :
              Sources[n] \cap Range(ClusterArchs(ssp.spec)) # {} => <<n, NoArch>> \in Owned(ds)

\* The operator and CDI do not undo each other's writes for ever: while the SSP
\* is not deleted, everybody comes to rest, provided that from some time on the
\* operator acts on copies that are current.  (It may go on for ever if not: the
\* decision on auto-update and the write read the informer at different times.)
EventuallyAtRest ==
    ([]~ssp.deleting /\ <>[][plan' # plan => Current]_vars)
        => <>[](AtRest \/ ClusterArchs(ssp.spec) = <<>>)

\* A deleted SSP is released in the end.
CleanupCompletes == ssp.deleting ~> ssp.gone
=============================================================================
