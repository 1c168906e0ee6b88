--------------------------- MODULE DataSourcesProofs ---------------------------
(***************************************************************************)
(* DataSources, for any bundle, specs, PVCs and architectures, and any number *)
(* of user actions and faults: first the order of the cleanup, provided that *)
(* Cleanup reads informers that have caught up (Lagging is FALSE); then the  *)
(* invariant behind GoldenImagesConsistent: lemmas about what Reconcile      *)
(* decides and writes, every step keeps it, and a system at rest that        *)
(* satisfies it is consistent.                                               *)
(***************************************************************************)
EXTENDS DataSources, ArchitectureProofs

IsFn(f, D) == f = [x \in D |-> f[x]]

\* What the operator, CDI and users make of a DataSource is one again.
IsDataSource(r) ==
    \E S, L, R : r \in [source: S, label: L, ready: R, mine: BOOLEAN]

AreDataSources(f) == IsFn(f, DsNames) /\ \A k \in DsNames : f[k] # None => IsDataSource(f[k])

Shapes ==
    /\ AreDataSources(ds) /\ AreDataSources(seen)
    /\ IsFn(crons, CronIds)
    /\ ssp \in [spec: Specs, deleting: BOOLEAN, gone: BOOLEAN]
    /\ fixed \in BOOLEAN

\* A running Reconcile has made the namespace and the roles before anything else.
PlanHasNamespace == plan # None => fixed

\* A released SSP is being deleted, and nothing runs for it.
GoneIsOver ==
    ssp.gone => /\ plan = None /\ ssp.deleting
                /\ Owned(ds) = {} /\ Existing(crons) = {} /\ ~fixed

IInv == Shapes /\ PlanHasNamespace /\ NamespaceOutlivesCrons /\ GoneIsOver

-----------------------------------------------------------------------------
\* A changed field leaves the others.
LEMMA ChangedDataSource ==
    ASSUME NEW r, NEW x, IsDataSource(r)
    PROVE  /\ IsDataSource([r EXCEPT !.ready = x]) /\ [r EXCEPT !.ready = x].mine = r.mine
           /\ IsDataSource([r EXCEPT !.source = x]) /\ [r EXCEPT !.source = x].mine = r.mine
           /\ IsDataSource([r EXCEPT !.label = x]) /\ [r EXCEPT !.label = x].mine = r.mine
  <1>1. PICK S, L, R : r \in [source: S, label: L, ready: R, mine: BOOLEAN]
    BY Zenon DEF IsDataSource
  <1>2. /\ [r EXCEPT !.ready = x] \in [source: S, label: L, ready: R \cup {x}, mine: BOOLEAN]
        /\ [r EXCEPT !.ready = x].mine = r.mine
    BY <1>1, Zenon
  <1>3. /\ [r EXCEPT !.source = x] \in [source: S \cup {x}, label: L, ready: R, mine: BOOLEAN]
        /\ [r EXCEPT !.source = x].mine = r.mine
    BY <1>1, Zenon
  <1>4. /\ [r EXCEPT !.label = x] \in [source: S, label: L \cup {x}, ready: R, mine: BOOLEAN]
        /\ [r EXCEPT !.label = x].mine = r.mine
    BY <1>1, Zenon
  <1> QED
    BY <1>2, <1>3, <1>4, ZenonT(40) DEF IsDataSource

\* The same for the writes that change several fields.
LEMMA UpdatedDataSource ==
    ASSUME NEW r, NEW x, NEW y, IsDataSource(r)
    PROVE  /\ IsDataSource([r EXCEPT !.mine = TRUE, !.label = x])
           /\ IsDataSource([r EXCEPT !.mine = TRUE, !.label = x, !.source = y])
           /\ IsDataSource([r EXCEPT !.source = x, !.label = y])
           /\ [r EXCEPT !.source = x, !.label = y].mine = r.mine
  <1>1. PICK S, L, R : r \in [source: S, label: L, ready: R, mine: BOOLEAN]
    BY Zenon DEF IsDataSource
  <1>2. [r EXCEPT !.mine = TRUE, !.label = x] \in [source: S, label: L \cup {x}, ready: R, mine: BOOLEAN]
    BY <1>1, Zenon
  <1>3. [r EXCEPT !.mine = TRUE, !.label = x, !.source = y]
           \in [source: S \cup {y}, label: L \cup {x}, ready: R, mine: BOOLEAN]
    BY <1>1, Zenon
  <1>4. /\ [r EXCEPT !.source = x, !.label = y]
              \in [source: S \cup {x}, label: L \cup {y}, ready: R, mine: BOOLEAN]
        /\ [r EXCEPT !.source = x, !.label = y].mine = r.mine
    BY <1>1, Zenon
  <1> QED
    BY <1>2, <1>3, <1>4, ZenonT(40) DEF IsDataSource

\* Requests for deletion make no DataImportCron.
LEMMA DeletedMakesNone ==
    ASSUME IsFn(crons, CronIds), NEW S
    PROVE  /\ IsFn(Deleted(crons, S), CronIds)
           /\ Existing(Deleted(crons, S)) \subseteq Existing(crons)
  BY Zenon DEF IsFn, Deleted, Existing

\* CreateOrUpdate makes DataSources of DataSources.
LEMMA AppliedShape ==
    ASSUME Shapes, NEW S, NEW D
    PROVE  AreDataSources(Applied(S, D))
  <1>1. ASSUME NEW k \in DsNames PROVE IsDataSource(Result(k))
    <2>1. IsDataSource(Empty)
      BY Zenon DEF Empty, IsDataSource
    <2>2. IsDataSource(IF seen[k] = None THEN Empty ELSE seen[k])
      BY <2>1, Zenon DEF Shapes, AreDataSources
    <2> QED
      BY <2>2, UpdatedDataSource, ZenonT(40) DEF Result, Updated
  <1>2. IsFn(Applied(S, D), DsNames)
    BY Zenon DEF Applied, IsFn
  <1>3. ASSUME NEW k \in DsNames, Applied(S, D)[k] # None PROVE IsDataSource(Applied(S, D)[k])
    BY <1>1, <1>3, Zenon DEF Applied, Shapes, AreDataSources
  <1> QED
    BY <1>2, <1>3, Zenon DEF AreDataSources

\* Nothing exists in the first state.
LEMMA InitLemma == Init => IInv
  <1> SUFFICES ASSUME Init PROVE IInv
    BY Zenon
  <1>1. AreDataSources(ds) /\ AreDataSources(seen) /\ IsFn(crons, CronIds)
    BY Zenon DEF Init, AreDataSources, IsFn
  <1>2. Existing(crons) = {}
    BY Zenon DEF Init, Existing
  <1>3. ssp \in [spec: Specs, deleting: BOOLEAN, gone: BOOLEAN] /\ ~ssp.gone
    BY Zenon DEF Init
  <1> QED
    BY <1>1, <1>2, <1>3, Zenon DEF Init, IInv, Shapes, PlanHasNamespace, NamespaceOutlivesCrons, GoneIsOver

-----------------------------------------------------------------------------
\* Reconcile creates the namespace first.
LEMMA PlanStep == ASSUME IInv, Plan PROVE IInv'
  <1>1. ~ssp.deleting /\ UNCHANGED <<ssp, ds, crons, seen>>
    BY Zenon DEF Plan
  <1>2. ~ssp.gone
    BY <1>1, Zenon DEF IInv, GoneIsOver
  <1>3. (plan' = None /\ fixed' = fixed) \/ fixed' = TRUE
    BY Zenon DEF Plan, Abort
  <1> QED
    BY <1>1, <1>2, <1>3, Zenon DEF IInv, Shapes, PlanHasNamespace, NamespaceOutlivesCrons, GoneIsOver,
                            AreDataSources, IsFn, Owned, Existing

\* A running Reconcile works for an SSP that is not released.
LEMMA ApplyDataSourcesStep == ASSUME IInv, ApplyDataSources PROVE IInv'
  <1>1. /\ plan # None /\ UNCHANGED <<ssp, crons, fixed, seen>>
        /\ \E S, D : ds' = Applied(S, D)
    BY Zenon DEF ApplyDataSources
  <1>2. AreDataSources(ds')
    BY <1>1, AppliedShape, Zenon DEF IInv
  <1>3. ~ssp.gone /\ fixed
    BY <1>1, Zenon DEF IInv, GoneIsOver, PlanHasNamespace
  <1> QED
    BY <1>1, <1>2, <1>3, Zenon DEF IInv, Shapes, PlanHasNamespace, NamespaceOutlivesCrons, GoneIsOver,
                            AreDataSources, IsFn

\* DataImportCrons are created only by a running Reconcile.
LEMMA ApplyCronsStep == ASSUME IInv, ApplyCrons PROVE IInv'
  <1>1. /\ plan # None /\ UNCHANGED <<ssp, ds, fixed, seen>>
        /\ \E C, D : crons' = AppliedCrons(C, D)
    BY Zenon DEF ApplyCrons
  <1>2. IsFn(crons', CronIds)
    BY <1>1, Zenon DEF AppliedCrons, IsFn
  <1>3. ~ssp.gone /\ fixed
    BY <1>1, Zenon DEF IInv, GoneIsOver, PlanHasNamespace
  <1> QED
    BY <1>1, <1>2, <1>3, SMTT(20), ZenonT(40) DEF IInv, Shapes, PlanHasNamespace, NamespaceOutlivesCrons, GoneIsOver,
                            AreDataSources, IsFn

\* Cleanup deletes the namespace when no cron is left, and releases the SSP when
\* it finds nothing.
LEMMA CleanupStep == ASSUME ~Lagging, IInv, Cleanup PROVE IInv'
  <1>1. /\ seen = ds /\ seenCrons = crons /\ plan = None /\ ssp.deleting
        /\ UNCHANGED <<seen, plan>>
    BY Zenon DEF Cleanup, Current
  <1>2. ssp' = [ssp EXCEPT !.gone = allDeleted] /\ allDeleted \in BOOLEAN
    BY Zenon DEF Cleanup, allDeleted
  <1>3. /\ ssp' \in [spec: Specs, deleting: BOOLEAN, gone: BOOLEAN]
        /\ ssp'.deleting /\ ssp'.gone = allDeleted
    BY <1>1, <1>2, SMTT(20), ZenonT(40) DEF IInv, Shapes
  <1>4. CASE Existing(seenCrons) # {}
    <2>1. crons' = Deleted(crons, Existing(seenCrons)) /\ UNCHANGED <<ds, fixed>>
      BY <1>4, Zenon DEF Cleanup, CleanupInOrder
    <2>2. IsFn(crons', CronIds) /\ fixed
      BY <1>1, <1>4, <2>1, DeletedMakesNone, SMTT(20), ZenonT(40) DEF IInv, Shapes, NamespaceOutlivesCrons
    <2>3. ~ssp'.gone
      BY <1>3, <1>4, SMTT(20), ZenonT(40) DEF allDeleted
    <2> QED
      BY <1>1, <1>3, <2>1, <2>2, <2>3, SMTT(20), ZenonT(40)
         DEF IInv, Shapes, PlanHasNamespace, NamespaceOutlivesCrons, GoneIsOver, AreDataSources, IsFn
  <1>5. CASE Existing(seenCrons) = {}
    <2>1. /\ ds' = [k \in DsNames |-> IF k \in Owned(seen) THEN None ELSE ds[k]]
          /\ fixed' = FALSE /\ crons' = crons
      BY <1>5, Zenon DEF Cleanup, CleanupInOrder
    <2>2. AreDataSources(ds')
      BY <2>1, Zenon DEF IInv, Shapes, AreDataSources, IsFn
    <2>3. Owned(ds)' = {}
      BY <1>1, <2>1, Zenon DEF Owned, IInv, Shapes, AreDataSources, IsFn
    <2>4. Existing(crons)' = {}
      BY <1>1, <1>5, <2>1, SMTT(20), ZenonT(40) DEF Existing
    <2> QED
      BY <1>1, <1>3, <2>1, <2>2, <2>3, <2>4, Zenon
         DEF IInv, Shapes, PlanHasNamespace, NamespaceOutlivesCrons, GoneIsOver, AreDataSources, IsFn
  <1> QED
    BY <1>4, <1>5, Zenon

\* The informers copy, and a restart forgets the plan.
LEMMA InformerStep == ASSUME IInv, Informers \/ Restart PROVE IInv'
  <1>1. /\ UNCHANGED <<ssp, ds, crons, fixed>>
        /\ plan' \in {plan, None} /\ seen' \in {seen, ds}
    BY Zenon DEF Informers, DeliverDataSources, DeliverCrons, Restart, Abort
  <1> QED
    BY <1>1, Zenon DEF IInv, Shapes, PlanHasNamespace, NamespaceOutlivesCrons, GoneIsOver,
                AreDataSources, IsFn, Owned, Existing

\* Others make no DataSource of the SSP's and no cron, and leave the rest.
LEMMA OthersStep ==
    ASSUME IInv, UNCHANGED <<seen, plan, fixed>>,
           ssp' \in [spec: Specs, deleting: BOOLEAN, gone: BOOLEAN],
           ssp'.gone = ssp.gone, ssp.deleting => ssp'.deleting,
           AreDataSources(ds'), Owned(ds)' \subseteq Owned(ds),
           IsFn(crons', CronIds), Existing(crons)' \subseteq Existing(crons)
    PROVE  IInv'
  <1>1. Shapes'
    BY Zenon DEF IInv, Shapes, AreDataSources, IsFn
  <1>2. PlanHasNamespace' /\ NamespaceOutlivesCrons'
    BY Zenon DEF IInv, PlanHasNamespace, NamespaceOutlivesCrons
  <1>3. GoneIsOver'
    BY Zenon DEF IInv, GoneIsOver
  <1> QED
    BY <1>1, <1>2, <1>3, Zenon DEF IInv

\* CDI imports only for a cron, and owns what it makes.
LEMMA CdiStep == ASSUME IInv, Cdi PROVE IInv'
  <1> USE DEF IInv
  <1>0. /\ UNCHANGED <<ssp, seen, plan, fixed>> /\ IsFn(ds, DsNames) /\ IsFn(crons, CronIds)
        /\ ssp' \in [spec: Specs, deleting: BOOLEAN, gone: BOOLEAN]
    BY Zenon DEF Cdi, CdiStatus, CdiImport, CdiFinalize, Shapes, AreDataSources
  <1>1. CASE CdiStatus
    <2>1. /\ ds' = [k \in DsNames |-> IF ds[k] = None THEN None
                                      ELSE [ds[k] EXCEPT !.ready = ReadyStatus(k)]]
          /\ crons' = crons
      BY <1>1, Zenon DEF CdiStatus
    <2>2. \A k \in DsNames : ds[k] # None =>
             /\ IsDataSource([ds[k] EXCEPT !.ready = ReadyStatus(k)])
             /\ [ds[k] EXCEPT !.ready = ReadyStatus(k)].mine = ds[k].mine
      BY ChangedDataSource, ZenonT(40) DEF Shapes, AreDataSources
    <2>3. AreDataSources(ds')
      BY <2>1, <2>2, SMTT(20), ZenonT(40) DEF AreDataSources, IsFn
    <2>4. Owned(ds)' \subseteq Owned(ds)
      BY <1>0, <2>1, <2>2, Zenon DEF Owned, IsFn
    <2> QED
      BY <1>0, <2>1, <2>3, <2>4, OthersStep, SMTT(20), ZenonT(40) DEF Existing
  <1>2. ASSUME NEW id \in CronIds, CdiImport(id) PROVE IInv'
    <2> DEFINE k == crons[id].managed
               made == [Empty EXCEPT !.source = <<"import">>, !.label = id]
    <2>1. /\ crons' = crons
          /\ \/ ds' = [ds EXCEPT ![k] = made]
             \/ ds[k] # None /\ ds' = [ds EXCEPT ![k].source = <<"import">>]
      BY <1>2, Zenon DEF CdiImport
    <2>2. IsDataSource(Empty) /\ Empty.mine = FALSE
      <3>1. Empty \in [source: {<<"none">>}, label: {None}, ready: {"unset"}, mine: BOOLEAN]
        BY Zenon DEF Empty
      <3> QED
        BY <3>1, ZenonT(40) DEF IsDataSource, Empty
    <2>3. IsDataSource(made) /\ made.mine = FALSE
      BY <2>2, UpdatedDataSource, Zenon
    <2>4. PICK new : ds' = [ds EXCEPT ![k] = new] /\
             (k \in DsNames => /\ IsDataSource(new)
                               /\ new.mine => ds[k] # None /\ ds[k].mine)
      <3>1. CASE ds' = [ds EXCEPT ![k] = made]
        BY <2>3, <3>1, Zenon
      <3>2. CASE ds[k] # None /\ ds' = [ds EXCEPT ![k].source = <<"import">>]
        <4> DEFINE new == [ds[k] EXCEPT !.source = <<"import">>]
        <4>1. ds' = [ds EXCEPT ![k] = new]
          BY <3>2, Zenon
        <4>2. k \in DsNames => IsDataSource(new) /\ new.mine = ds[k].mine
          BY <3>2, ChangedDataSource, Zenon DEF Shapes, AreDataSources
        <4> HIDE DEF new
        <4> QED
          BY <3>2, <4>1, <4>2, Zenon
      <3> QED
        BY <2>1, <3>1, <3>2, SMTT(20), ZenonT(40)
    <2>5. /\ AreDataSources(ds')
          /\ Owned(ds)' \subseteq Owned(ds)
      BY <1>0, <2>4, Zenon DEF Shapes, AreDataSources, IsFn, Owned
    <2> QED
      BY <1>0, <2>1, <2>5, OthersStep, SMTT(20), ZenonT(40) DEF Existing
  <1>3. ASSUME NEW id \in CronIds, CdiFinalize(id) PROVE IInv'
    <2>1. crons' = [crons EXCEPT ![id] = None] /\ ds' = ds
      BY <1>3, Zenon DEF CdiFinalize
    <2>2. IsFn(crons', CronIds) /\ Existing(crons)' \subseteq Existing(crons)
      BY <1>0, <2>1, SMTT(20), ZenonT(40) DEF IsFn, Existing
    <2> QED
      BY <1>0, <2>1, <2>2, OthersStep, Zenon DEF Shapes, Owned
  <1> QED
    BY <1>1, <1>2, <1>3, SMTT(20), ZenonT(40) DEF Cdi

\* Users make no DataSource of the SSP's and no cron.
LEMMA UsersStep == ASSUME IInv, Users PROVE IInv'
  <1> USE DEF IInv
  <1>0. UNCHANGED <<seen, plan, fixed>> /\ IsFn(ds, DsNames) /\ IsFn(crons, CronIds)
    BY Zenon DEF Users, User, EditSsp, DeleteSsp, ChangePvc, ChangeLabel, RemoveDataSource, RemoveCron,
           Shapes, AreDataSources
  <1>1. CASE (\E spec \in Specs : EditSsp(spec)) \/ DeleteSsp \/ \E k \in UserPvcs : ChangePvc(k)
    <2>1. ds' = ds /\ crons' = crons
      BY <1>1, Zenon DEF EditSsp, DeleteSsp, ChangePvc
    <2>2. /\ ssp' \in [spec: Specs, deleting: BOOLEAN, gone: BOOLEAN]
          /\ ssp'.gone = ssp.gone /\ (ssp.deleting => ssp'.deleting)
      BY <1>1, Zenon DEF EditSsp, DeleteSsp, ChangePvc, Shapes
    <2> QED
      BY <1>0, <2>1, <2>2, OthersStep, Zenon DEF Shapes, Owned, Existing
  <1>2. ASSUME NEW k \in DsNames, ChangeLabel(k) PROVE IInv'
    <2>1. PICK label : ds' = [ds EXCEPT ![k].label = label]
      BY <1>2, Zenon DEF ChangeLabel
    <2>2. ds[k] # None /\ UNCHANGED <<ssp, crons>>
      BY <1>2, Zenon DEF ChangeLabel
    <2>3. PICK new : ds' = [ds EXCEPT ![k] = new] /\ IsDataSource(new) /\ new.mine = ds[k].mine
      BY <2>1, <2>2, ChangedDataSource, ZenonT(40) DEF Shapes, AreDataSources
    <2>4. AreDataSources(ds') /\ Owned(ds)' \subseteq Owned(ds)
      BY <1>0, <2>2, <2>3, SMTT(20), ZenonT(40) DEF Shapes, AreDataSources, IsFn, Owned
    <2> QED
      BY <1>0, <2>2, <2>4, OthersStep, SMTT(20), ZenonT(40) DEF Shapes, Existing
  <1>3. ASSUME NEW k \in DsNames, RemoveDataSource(k) PROVE IInv'
    <2>1. ds' = [ds EXCEPT ![k] = None] /\ UNCHANGED <<ssp, crons>>
      BY <1>3, Zenon DEF RemoveDataSource
    <2>2. AreDataSources(ds') /\ Owned(ds)' \subseteq Owned(ds)
      BY <1>0, <2>1, SMTT(20), ZenonT(40) DEF Shapes, AreDataSources, IsFn, Owned
    <2> QED
      BY <1>0, <2>1, <2>2, OthersStep, Zenon DEF Shapes, Existing
  <1>4. ASSUME NEW id \in CronIds, RemoveCron(id) PROVE IInv'
    <2>1. crons' = Deleted(crons, {id}) /\ UNCHANGED <<ssp, ds>>
      BY <1>4, Zenon DEF RemoveCron
    <2>2. IsFn(crons', CronIds) /\ Existing(crons)' \subseteq Existing(crons)
      <3>1. IsFn(Deleted(crons, {id}), CronIds)
            /\ Existing(Deleted(crons, {id})) \subseteq Existing(crons)
        BY <1>0, DeletedMakesNone, Zenon
      <3> QED
        BY <2>1, <3>1, Zenon DEF Existing
    <2> QED
      BY <1>0, <2>1, <2>2, OthersStep, SMTT(20), ZenonT(40) DEF Shapes, Owned
  <1> QED
    BY <1>1, <1>2, <1>3, <1>4, SMTT(20), ZenonT(40) DEF Users

\* Every step preserves the invariant.
LEMMA StepLemma == ASSUME ~Lagging PROVE IInv /\ [Next]_vars => IInv'
  <1> SUFFICES ASSUME IInv, [Next]_vars PROVE IInv'
    BY Zenon
  <1>1. CASE UNCHANGED vars
    BY <1>1, ZenonT(40) DEF vars, IInv, Shapes, PlanHasNamespace, NamespaceOutlivesCrons, GoneIsOver,
                AreDataSources, IsFn, Owned, Existing
  <1> QED
    BY <1>1, PlanStep, ApplyDataSourcesStep, ApplyCronsStep, CleanupStep, InformerStep, CdiStep,
       UsersStep, SMTT(20), ZenonT(40) DEF Next, Worker

\* Cleanup (data-sources/reconcile.go) never deletes the golden images namespace
\* and its roles while a DataImportCron of the SSP is left.
THEOREM NamespaceOutlivesAllCrons == ASSUME ~Lagging PROVE Spec => []NamespaceOutlivesCrons
  <1>1. IInv => NamespaceOutlivesCrons
    BY SMTT(20), ZenonT(40) DEF IInv
  <1> QED
    BY <1>1, InitLemma, StepLemma, PTL DEF Spec

\* The SSP is released only when none of its DataSources and DataImportCrons, and
\* not the namespace, is left, whatever users and CDI did meanwhile.
THEOREM ReleasedIsAlwaysClean == ASSUME ~Lagging PROVE Spec => []ReleasedIsClean
  <1>1. IInv => ReleasedIsClean
    BY Zenon DEF IInv, GoneIsOver, ReleasedIsClean
  <1> QED
    BY <1>1, InitLemma, StepLemma, PTL DEF Spec

-----------------------------------------------------------------------------
(* GoldenImagesConsistent *)

CronsFor(spec) == CronByDataSource(spec, ClusterArchs(spec))

\* The DataSources that Reconcile makes for a spec.
Keys(spec) ==
    IF spec.multi
    THEN OwnKeys(ClusterArchs(spec))
         \cup ((DeployedNames(ClusterArchs(spec)) \cup CustomNames(spec, ClusterArchs(spec))) \X {NoArch})
    ELSE {<<n, NoArch>> : n \in {m \in DOMAIN Sources : ClusterArchs(spec)[1] \in Sources[m]}}

\* What the DataSource without suffix refers to.
ArchOf(spec, n) ==
    IF n \in DeployedNames(ClusterArchs(spec)) THEN defaultArch(ClusterArchs(spec), n)
    ELSE customArch(spec, ClusterArchs(spec), n)

\* The sources that a DataSource gets that no cron updates.
RightSource(spec, k, source) ==
    \/ source \in {<<"pvc", k>>, <<"pvc", <<k[1], NoArch>>>>}
    \/ /\ spec.multi /\ k[2] = NoArch
       /\ source = <<"ref", <<k[1], ArchOf(spec, k[1])>>>>

Mine(d) == d # None /\ d.mine

IsPlan(p) ==
    /\ p \in [stage: {"ds", "crons"}, infos: {p.infos}, crons: SUBSET [id: CronIds, managed: DsNames],
              dropDs: SUBSET DsNames, dropCrons: SUBSET CronIds]
    /\ DOMAIN p.infos \subseteq DsNames /\ p.infos \in [DOMAIN p.infos -> DataSourceInfo]

GoldenTypes ==
    /\ ssp \in [spec: Specs, deleting: BOOLEAN, gone: BOOLEAN]
    /\ ds \in [DsNames -> DataSource \cup {None}]
    /\ seen \in [DsNames -> DataSource \cup {None}]
    /\ crons \in [CronIds -> DataImportCron \cup {None}]
    /\ seenCrons \in [CronIds -> DataImportCron \cup {None}]
    /\ news \subseteq {"ds", "crons"} /\ queued \in BOOLEAN
    /\ plan # None => IsPlan(plan)

\* Reconcile is called again.
Alarm == queued \/ news # {}

\* What the informers do not show as it is has an event under way, or is not the
\* SSP's.
Announced ==
    /\ "ds" \notin news => \A k \in DsNames :
          ds[k] # seen[k] => ~Mine(ds[k]) /\ ~Mine(seen[k])
    /\ "crons" \notin news => seenCrons = crons

\* Only a DataSource without suffix refers to another one.
IsRef(source) == source[1] = "ref"
NoRefs(f) == \A k \in DsNames : k[2] # NoArch /\ f[k] # None => ~IsRef(f[k].source)
References ==
    /\ NoRefs(ds) /\ NoRefs(seen)
    /\ plan # None => \A k \in DOMAIN plan.infos :
                         k[2] # NoArch => ~IsRef(plan.infos[k].source)

\* A DataSource whose source Reconcile left alone, because CDI has not looked at
\* it yet.
Unseen(k, f) == k[2] # NoArch /\ (Mine(f[k]) => f[k].ready = "unset")

\* What Reconcile decides about one DataSource for the spec.
RightInfo(spec, k, info) ==
    /\ info \in DataSourceInfo
    /\ k[2] # NoArch => ~IsRef(info.source)
    /\ IF info.auto
       THEN CronsOf(CronsFor(spec), k) # {} /\ info.cron = dicName(CronsFor(spec), k)
       ELSE RightSource(spec, k, info.source) \/ Unseen(k, seen)

\* A plan that nothing has overtaken is one for the spec.
Planned ==
    plan # None /\ ~Alarm =>
        /\ DOMAIN plan.infos = Keys(ssp.spec)
        /\ plan.crons = DataImportCrons(CronsFor(ssp.spec), plan.infos)
        /\ \A k \in Keys(ssp.spec) : RightInfo(ssp.spec, k, plan.infos[k])
        /\ Owned(ds) \subseteq Keys(ssp.spec) \cup plan.dropDs
        /\ Existing(crons) \subseteq {c.id : c \in plan.crons} \cup plan.dropCrons

\* The DataSources are what the operator makes of the spec.
RightDataSources(spec) ==
    /\ Owned(ds) = Keys(spec)
    /\ \A k \in Keys(spec) :
          IF ds[k].label = None THEN RightSource(spec, k, ds[k].source) \/ Unseen(k, ds)
          ELSE CronsOf(CronsFor(spec), k) # {} /\ ds[k].label = dicName(CronsFor(spec), k)

\* The crons that are deployed: those whose DataSource carries their label, and
\* those whose DataSource is none of the operator's.
Wanted(spec) ==
    {c \in CronsFor(spec) :
        ~(c.id[1] = "golden" /\ c.managed \in Keys(spec) /\ ds[c.managed].label = None)}

AppliedDs ==
    plan # None /\ plan.stage = "crons" /\ ~Alarm =>
        RightDataSources(ssp.spec) /\ plan.crons = Wanted(ssp.spec)

\* The crons are those, or are about to be deleted.
RightCrons(wanted, f) ==
    /\ \A id \in Existing(f) :
          f[id].deleting \/ \E c \in wanted : c.id = id /\ c.managed = f[id].managed
    /\ \A c \in wanted : f[c.id] # None /\ (f[c.id].deleting \/ f[c.id].managed = c.managed)

Finished ==
    plan = None /\ ~ssp.deleting /\ ~Alarm =>
        /\ RightDataSources(ssp.spec)
        /\ RightCrons(Wanted(ssp.spec), crons)

GoldenInv == GoldenTypes /\ Announced /\ References /\ Planned /\ AppliedDs /\ Finished

-----------------------------------------------------------------------------
(* Lemmas about what should exist *)

\* What the plans are made of.
LEMMA ClusterArchsOfSpec ==
    ASSUME NEW spec \in Specs
    PROVE  ClusterArchs(spec) = GetSSPArchs(spec)
  <1>1. [spec |-> spec, archs |-> GetSSPArchs(spec)] \in ArchsOfSpecs
    BY Zenon DEF ArchsOfSpecs
  <1>2. \A r \in ArchsOfSpecs : r.spec = spec => r.archs = GetSSPArchs(spec)
    BY DEF ArchsOfSpecs
  <1>3. \E r \in ArchsOfSpecs : r.spec = spec
    BY <1>1, Zenon
  <1> QED
    BY <1>2, <1>3, Zenon DEF ClusterArchs

\* An SSP without multi-architecture support has one architecture, or an error.
LEMMA ClusterArchsType ==
    ASSUME NEW spec \in Specs
    PROVE  /\ ClusterArchs(spec) \in Seq(Archs)
           /\ ~spec.multi /\ ClusterArchs(spec) # <<>> =>
                 Range(ClusterArchs(spec)) = {ClusterArchs(spec)[1]}
  <1> DEFINE S == Range(spec.cluster.cp) \cup Range(spec.cluster.wl)
  <1>1. spec.cluster.cp \in Seq(S) /\ spec.cluster.wl \in Seq(S)
    BY SpecsAssumption
  <1> QED
    BY <1>1, ClusterArchsOfSpec, GetSSPArchsType, Zenon

\* The names of the bundle that are deployed, and the DataSources that those
\* without suffix refer to.
LEMMA DeployedNamesExact ==
    ASSUME NEW clusterArchs \in Seq(Archs)
    PROVE  /\ \A n : n \in DeployedNames(clusterArchs) <=>
                       n \in DOMAIN Sources /\ Range(clusterArchs) \cap Sources[n] # {}
           /\ \A n \in DeployedNames(clusterArchs) :
                 <<n, defaultArch(clusterArchs, n)>> \in OwnKeys(clusterArchs)
           /\ \A n : defaultArch(clusterArchs, n) \in Archs \cup {NoArch}
  <1>1. Range(clusterArchs) \subseteq Archs
    BY DEF Range
  <1>2. ASSUME NEW n \in DOMAIN Sources
        PROVE  IF Range(clusterArchs) \cap Sources[n] = {} THEN defaultArch(clusterArchs, n) = NoArch
               ELSE defaultArch(clusterArchs, n) \in Range(clusterArchs) \cap Sources[n]
    BY DefaultArchFound, Zenon DEF defaultArch
  <1>3. \A n : n \notin DOMAIN Sources => defaultArch(clusterArchs, n) = NoArch
    BY Zenon DEF defaultArch
  <1> QED
    BY <1>1, <1>2, <1>3, ArchsAssumption, Zenon DEF DeployedNames, OwnKeys

\* Reconcile makes DataSources for architectures of the cluster only.
LEMMA KeysType ==
    ASSUME NEW spec \in Specs
    PROVE  /\ Keys(spec) \subseteq DsNames
           /\ \A k \in Keys(spec) :
                 k[2] # NoArch => spec.multi /\ k[2] \in Range(ClusterArchs(spec))
  <1>1. Range(ClusterArchs(spec)) \subseteq Archs
    BY ClusterArchsType DEF Range
  <1>2. DeployedNames(ClusterArchs(spec)) \subseteq Names /\ CustomNames(spec, ClusterArchs(spec)) \subseteq Names
    BY SourcesAssumption, SpecsAssumption, Zenon DEF DeployedNames, CustomNames, CustomCrons
  <1> QED
    BY <1>1, <1>2, SourcesAssumption DEF Keys, OwnKeys, DsNames

\* The crons that a template stands for manage different DataSources.
LEMMA CronsOfTemplateType ==
    ASSUME NEW spec \in Specs, NEW i \in DOMAIN spec.crons
    PROVE  /\ CronsOfTemplate(spec, ClusterArchs(spec), spec.crons[i]) \subseteq [id: CronIds, managed: DsNames]
           /\ \A c, d \in CronsOfTemplate(spec, ClusterArchs(spec), spec.crons[i]) :
                 c.managed = d.managed => c = d
  <1> DEFINE t == spec.crons[i]
             ca == ClusterArchs(spec)
  <1>1. t.ns \in {"golden", "other"} /\ t.name \in CronNames /\ t.ds \in Names
    BY SpecsAssumption, Zenon
  <1>2. defaultArch(ca, t.ds) \in Archs \cup {NoArch}
    BY ClusterArchsType, DeployedNamesExact, Zenon
  <1>3. \A arch \in Archs \cup {NoArch} : \A a \in Archs \cup {NoArch} :
           Cron(t.ns, t.name, arch, <<t.ds, a>>) \in [id: CronIds, managed: DsNames]
    BY <1>1, Zenon DEF Cron, CronIds, DsNames
  <1>4. parseArchsAnnotation(t) \subseteq Archs
    BY Zenon DEF parseArchsAnnotation
  <1>5. CronsOfTemplate(spec, ca, t) \subseteq [id: CronIds, managed: DsNames]
    <2>1. \A c \in CronsOfTemplate(spec, ca, t) :
             \/ \E a \in {NoArch, defaultArch(ca, t.ds)} : c = Cron(t.ns, t.name, NoArch, <<t.ds, a>>)
             \/ \E a \in parseArchsAnnotation(t) : c = Cron(t.ns, t.name, a, <<t.ds, a>>)
      BY Zenon DEF CronsOfTemplate
    <2> DEFINE crons0 == [id: CronIds, managed: DsNames]
    <2>2. \A arch, a \in Archs \cup {NoArch} : Cron(t.ns, t.name, arch, <<t.ds, a>>) \in crons0
      BY <1>3, Zenon
    <2> HIDE DEF t, ca, crons0
    <2>3. ASSUME NEW c \in CronsOfTemplate(spec, ca, t) PROVE c \in crons0
      <3>1. ASSUME NEW a \in {NoArch, defaultArch(ca, t.ds)}, c = Cron(t.ns, t.name, NoArch, <<t.ds, a>>)
            PROVE  c \in crons0
        <4>1. a \in Archs \cup {NoArch}
          BY <1>2, <3>1, Zenon
        <4> QED
          BY <2>2, <3>1, <4>1, Zenon
      <3>2. ASSUME NEW a \in parseArchsAnnotation(t), c = Cron(t.ns, t.name, a, <<t.ds, a>>)
            PROVE  c \in crons0
        <4>1. a \in Archs \cup {NoArch}
          BY <1>4, <3>2, Zenon
        <4> QED
          BY <2>2, <3>2, <4>1, Zenon
      <3> QED
        BY <2>1, <3>1, <3>2, Zenon
    <2> QED
      BY <2>3, Zenon DEF t, ca, crons0
  <1>6. \A a, b : Cron(t.ns, t.name, a, <<t.ds, a>>).managed = Cron(t.ns, t.name, b, <<t.ds, b>>).managed => a = b
    BY Zenon DEF Cron
  <1>7. \A c, d \in CronsOfTemplate(spec, ca, t) : c.managed = d.managed => c = d
    BY <1>6, Zenon DEF CronsOfTemplate
  <1> QED
    BY <1>5, <1>7, Zenon

\* The crons of a spec have their types.
LEMMA CronsType ==
    ASSUME NEW spec \in Specs
    PROVE  CronsFor(spec) \subseteq [id: CronIds, managed: DsNames]
  <1>1. \A i \in DOMAIN spec.crons :
           CronsOfTemplate(spec, ClusterArchs(spec), spec.crons[i]) \subseteq [id: CronIds, managed: DsNames]
    BY CronsOfTemplateType, Zenon
  <1> QED
    BY <1>1, Zenon DEF CronsFor, CronByDataSource

\* In cronByDataSource a DataSource has one cron.
LEMMA CronUnique ==
    ASSUME NEW spec \in Specs, NEW k, NEW c \in CronsOf(CronsFor(spec), k), NEW d \in CronsOf(CronsFor(spec), k)
    PROVE  c = d
  <1> DEFINE T(i) == CronsOfTemplate(spec, ClusterArchs(spec), spec.crons[i])
  <1>1. PICK i \in DOMAIN spec.crons :
           /\ c \in T(i)
           /\ \A j \in (i + 1)..Len(spec.crons) : \A e \in T(j) : e.managed # c.managed \/ e.id[1] # c.id[1]
    BY Zenon DEF CronsOf, CronsFor, CronByDataSource
  <1>2. PICK j \in DOMAIN spec.crons :
           /\ d \in T(j)
           /\ \A l \in (j + 1)..Len(spec.crons) : \A e \in T(l) : e.managed # d.managed \/ e.id[1] # d.id[1]
    BY DEF CronsOf, CronsFor, CronByDataSource
  <1>3. c.managed = d.managed /\ c.id[1] = d.id[1]
    BY Zenon DEF CronsOf
  <1> HIDE DEF T
  <1>4. DOMAIN spec.crons = 1..Len(spec.crons) /\ Len(spec.crons) \in Nat
    BY SpecsAssumption, Zenon
  <1>5. i = j
    BY <1>1, <1>2, <1>3, <1>4
  <1> QED
    BY <1>1, <1>2, <1>3, <1>5, CronsOfTemplateType, Zenon DEF T

\* The last template that manages a DataSource wins.
LEMMA CronWins ==
    ASSUME NEW spec \in Specs, NEW i \in DOMAIN spec.crons,
           NEW c \in CronsOfTemplate(spec, ClusterArchs(spec), spec.crons[i]), c.id[1] = "golden"
    PROVE  CronsOf(CronsFor(spec), c.managed) # {}
  <1> DEFINE T(j) == CronsOfTemplate(spec, ClusterArchs(spec), spec.crons[j])
             I == {j \in DOMAIN spec.crons : \E e \in T(j) : e.managed = c.managed /\ e.id[1] = "golden"}
  <1>1. DOMAIN spec.crons = 1..Len(spec.crons) /\ Len(spec.crons) \in Nat
    BY SpecsAssumption, Zenon
  <1>2. I \in SUBSET (1..Len(spec.crons)) /\ I # {}
    BY <1>1, Zenon
  <1>3. PICK j \in I : \A l \in I : l <= j
    BY <1>1, <1>2, GreatestExists, Zenon
  <1>4. PICK e \in T(j) : e.managed = c.managed /\ e.id[1] = "golden"
    BY <1>3, Zenon
  <1>5. \A l \in (j + 1)..Len(spec.crons) : l \in DOMAIN spec.crons /\ l \notin I
    BY <1>1, <1>3
  <1>6. \A l \in (j + 1)..Len(spec.crons) : \A f \in T(l) : f.managed # e.managed \/ f.id[1] # e.id[1]
    BY <1>4, <1>5, Zenon
  <1>7. e \in CronsFor(spec)
    BY <1>3, <1>4, <1>6 DEF CronsFor, CronByDataSource
  <1> QED
    BY <1>4, <1>7, Zenon DEF CronsOf

\* dicName is the name of the cron that manages the DataSource.
LEMMA DicNameType ==
    ASSUME NEW spec \in Specs, NEW k
    PROVE  /\ CronsOf(CronsFor(spec), k) # {} =>
                 \E c \in CronsOf(CronsFor(spec), k) : dicName(CronsFor(spec), k) = c.id
           /\ dicName(CronsFor(spec), k) \in CronIds \cup {None}
           /\ CronsOf(CronsFor(spec), k) # {} => dicName(CronsFor(spec), k) # None
  <1>1. CronsOf(CronsFor(spec), k) # {} =>
           \E c \in CronsOf(CronsFor(spec), k) : dicName(CronsFor(spec), k) = c.id
    BY Zenon DEF dicName
  <1>2. \A c \in CronsOf(CronsFor(spec), k) : c.id \in CronIds
    BY CronsType, Zenon DEF CronsOf
  <1>3. CronsOf(CronsFor(spec), k) = {} => dicName(CronsFor(spec), k) = None
    BY Zenon DEF dicName
  <1> QED
    BY <1>1, <1>2, <1>3, NoneAssumption, Zenon

\* handleDefaultDataSource keeps the PVC without suffix, or a source that CDI has
\* not looked at yet.
LEMMA HandleDefault ==
    ASSUME GoldenTypes, References, NEW k \in DsNames, k[2] # NoArch, NEW auto \in BOOLEAN
    PROVE  LET info == handleDefaultDataSource(k, auto)
           IN  /\ info.auto \in BOOLEAN /\ (info.auto => auto)
               /\ info.source \in Source /\ ~IsRef(info.source)
               /\ info.source \in {<<"pvc", k>>, <<"pvc", <<k[1], NoArch>>>>} \/ Unseen(k, seen)
  <1> DEFINE original == <<"pvc", <<k[1], NoArch>>>>
             own == [source |-> <<"pvc", k>>, auto |-> auto]
             kept == [source |-> original, auto |-> FALSE]
             held == [source |-> seen[k].source, auto |-> FALSE]
             info == handleDefaultDataSource(k, auto)
  <1>1. \/ info \in {own, kept}
        \/ seen[k] # None /\ seen[k].ready = "unset" /\ info = held
    BY Zenon DEF handleDefaultDataSource
  <1>2. <<k[1], NoArch>> \in DsNames
    BY Zenon DEF DsNames
  <1>3. <<"pvc", k>> \in Source /\ original \in Source /\ ~IsRef(<<"pvc", k>>) /\ ~IsRef(original)
    BY <1>2, Zenon DEF Source, IsRef
  <1>4. seen[k] # None => seen[k].source \in Source /\ ~IsRef(seen[k].source)
    <2>1. seen[k] # None => seen[k] \in DataSource
      BY Zenon DEF GoldenTypes
    <2> QED
      BY <2>1, Zenon DEF DataSource, References, NoRefs
  <1>5. /\ own.auto = auto /\ own.source = <<"pvc", k>>
        /\ kept.auto = FALSE /\ kept.source = original
        /\ held.auto = FALSE /\ held.source = seen[k].source
    BY Zenon
  <1> HIDE DEF own, kept, held, info
  <1>6. CASE info \in {own, kept}
    BY <1>3, <1>5, <1>6, Zenon DEF info
  <1>7. CASE seen[k] # None /\ seen[k].ready = "unset" /\ info = held
    <2>1. Unseen(k, seen)
      BY <1>7, Zenon DEF Unseen
    <2> QED
      BY <1>4, <1>5, <1>7, <2>1, Zenon DEF info
  <1> QED
    BY <1>1, <1>6, <1>7, Zenon

\* What Reconcile decides about a DataSource of the bundle.
LEMMA OwnInfoRight ==
    ASSUME GoldenTypes, References, NEW spec \in Specs, NEW k \in DsNames, NEW isDefault \in BOOLEAN,
           isDefault => k[2] # NoArch
    PROVE  RightInfo(spec, k, OwnInfo(CronsFor(spec), k, isDefault))
  <1> DEFINE cbd == CronsFor(spec)
             auto == dataSourceAutoUpdateEnabled(cbd, k)
             info == IF isDefault THEN handleDefaultDataSource(k, auto)
                     ELSE [source |-> <<"pvc", k>>, auto |-> auto]
  <1>1. auto \in BOOLEAN /\ (auto => CronsOf(cbd, k) # {})
    BY Zenon DEF dataSourceAutoUpdateEnabled
  <1>2. /\ info.auto \in BOOLEAN /\ (info.auto => auto)
        /\ info.source \in Source /\ ~IsRef(info.source)
        /\ info.source \in {<<"pvc", k>>, <<"pvc", <<k[1], NoArch>>>>} \/ Unseen(k, seen)
    <2> HIDE DEF auto
    <2>1. CASE isDefault
      BY <1>1, <2>1, HandleDefault, Zenon
    <2>2. CASE ~isDefault
      <3>1. info = [source |-> <<"pvc", k>>, auto |-> auto]
        BY <2>2, Zenon
      <3>2. info.source = <<"pvc", k>> /\ info.auto = auto
        BY <3>1
      <3> HIDE DEF info
      <3> QED
        BY <1>1, <3>2 DEF Source, IsRef
    <2> QED
      BY <2>1, <2>2, Zenon
  <1>3. OwnInfo(cbd, k, isDefault) = [source |-> info.source, auto |-> info.auto, cron |-> dicName(cbd, k)]
    BY Zenon DEF OwnInfo, Info
  <1>4. dicName(cbd, k) \in CronIds \cup {None}
    BY DicNameType, Zenon
  <1> HIDE DEF auto, info, cbd
  <1> DEFINE o == OwnInfo(cbd, k, isDefault)
  <1>5. o.source = info.source /\ o.auto = info.auto /\ o.cron = dicName(cbd, k) /\ o \in DataSourceInfo
    BY <1>2, <1>3, <1>4 DEF DataSourceInfo
  <1> HIDE DEF o
  <1>6. o.auto => CronsOf(cbd, k) # {}
    BY <1>1, <1>2, <1>5, Zenon
  <1>7. ~o.auto => RightSource(spec, k, o.source) \/ Unseen(k, seen)
    BY <1>2, <1>5, Zenon DEF RightSource
  <1>8. ~IsRef(o.source)
    BY <1>2, <1>5, Zenon
  <1> QED
    BY <1>5, <1>6, <1>7, <1>8, Zenon DEF RightInfo, o, cbd

\* A DataSource without suffix refers to one of an architecture of the cluster.
LEMMA ReferenceRight ==
    ASSUME NEW spec \in Specs, spec.multi, NEW k \in DsNames, k[2] = NoArch
    PROVE  RightInfo(spec, k, Reference(k[1], ArchOf(spec, k[1])))
  <1> DEFINE ca == ClusterArchs(spec)
             r == <<k[1], ArchOf(spec, k[1])>>
             o == Reference(k[1], ArchOf(spec, k[1]))
  <1>1. ca \in Seq(Archs)
    BY ClusterArchsType, Zenon
  <1>2. \A t : cronArch(ca, t) \in Archs \cup {NoArch}
    BY <1>1, DefaultArchFound DEF cronArch, Range
  <1>3. ArchOf(spec, k[1]) \in Archs \cup {NoArch}
    BY <1>1, <1>2, DeployedNamesExact, Zenon DEF ArchOf, customArch
  <1>4. r \in DsNames
    BY <1>3, Zenon DEF DsNames
  <1>5. o = [source |-> <<"ref", r>>, auto |-> FALSE, cron |-> None]
    BY Zenon DEF Reference, Info
  <1> HIDE DEF r
  <1>6. <<"ref", r>> \in Source
    BY <1>4, Zenon DEF Source
  <1>7. o \in DataSourceInfo /\ o.source = <<"ref", r>> /\ o.auto = FALSE
    BY <1>5, <1>6 DEF DataSourceInfo
  <1> HIDE DEF o
  <1>8. RightSource(spec, k, o.source)
    BY <1>7, Zenon DEF RightSource, r
  <1> QED
    BY <1>7, <1>8, Zenon DEF RightInfo, o

\* getDataSourceInfos and getDataSourceInfosMultiArch decide about the DataSources
\* of the spec, and about no others.
LEMMA InfosRight ==
    ASSUME GoldenTypes, References, NEW spec \in Specs,
           NEW infos, infos = DataSourceInfos(spec, ClusterArchs(spec), CronsFor(spec))
    PROVE  /\ DOMAIN infos = Keys(spec) /\ infos \in [Keys(spec) -> DataSourceInfo]
           /\ \A k \in Keys(spec) : RightInfo(spec, k, infos[k])
  <1> DEFINE ca == ClusterArchs(spec)
             cbd == CronsFor(spec)
  <1>1. Keys(spec) \subseteq DsNames /\ spec.multi \in BOOLEAN
    BY KeysType, SpecsAssumption, Zenon
  <1>2. CASE ~spec.multi
    <2>1. infos = [k \in Keys(spec) |-> OwnInfo(cbd, k, FALSE)]
      BY <1>2, Zenon DEF DataSourceInfos, SingleArchInfos, Keys
    <2>2. \A k \in Keys(spec) : RightInfo(spec, k, OwnInfo(cbd, k, FALSE))
      BY <1>1, OwnInfoRight, Zenon
    <2> QED
      BY <2>1, <2>2, Zenon DEF RightInfo
  <1>3. CASE spec.multi
    <2> DEFINE own == OwnKeys(ca)
               I(k) == IF k \in own THEN OwnInfo(cbd, k, k[2] = defaultArch(ca, k[1]))
                       ELSE Reference(k[1], ArchOf(spec, k[1]))
    <2>0. Keys(spec) = own \cup ((DeployedNames(ca) \cup CustomNames(spec, ca)) \X {NoArch})
      BY <1>3, Zenon DEF Keys
    <2>1. infos = [k \in Keys(spec) |-> I(k)]
      <3>1. infos = [k \in Keys(spec) |->
                        IF k \in own THEN OwnInfo(cbd, k, k[2] = defaultArch(ca, k[1]))
                        ELSE IF k[1] \in DeployedNames(ca) THEN Reference(k[1], defaultArch(ca, k[1]))
                        ELSE Reference(k[1], customArch(spec, ca, k[1]))]
        BY <1>3, <2>0, Zenon DEF DataSourceInfos, MultiArchInfos
      <3>2. \A k \in Keys(spec) :
               (IF k \in own THEN OwnInfo(cbd, k, k[2] = defaultArch(ca, k[1]))
                ELSE IF k[1] \in DeployedNames(ca) THEN Reference(k[1], defaultArch(ca, k[1]))
                ELSE Reference(k[1], customArch(spec, ca, k[1]))) = I(k)
        BY Zenon DEF ArchOf
      <3> QED
        BY <3>1, <3>2, Zenon
    <2>2. ASSUME NEW k \in Keys(spec) PROVE RightInfo(spec, k, I(k))
      <3>1. CASE k \in own
        <4>1. k[2] # NoArch
          BY <3>1, ClusterArchsType, ArchsAssumption DEF OwnKeys, Range
        <4>2. (k[2] = defaultArch(ca, k[1])) \in BOOLEAN
          BY Zenon
        <4> QED
          BY <1>1, <2>2, <3>1, <4>1, <4>2, OwnInfoRight, ZenonT(40)
      <3>2. CASE k \notin own
        <4>1. k[2] = NoArch
          BY <2>0, <2>2, <3>2, Zenon
        <4> QED
          BY <1>1, <1>3, <2>2, <3>2, <4>1, ReferenceRight, Zenon
      <3> QED
        BY <3>1, <3>2, Zenon
    <2> HIDE DEF I
    <2> QED
      BY <2>1, <2>2, Zenon DEF RightInfo
  <1> QED
    BY <1>1, <1>2, <1>3, Zenon

-----------------------------------------------------------------------------
(* What is written *)

\* What the operator, CDI and users write are DataSources again.
LEMMA WrittenDataSource ==
    ASSUME NEW r \in DataSource
    PROVE  /\ \A x \in {"unset", "true", "false"} :
                 [r EXCEPT !.ready = x] \in DataSource /\ [r EXCEPT !.ready = x].source = r.source
           /\ \A x \in CronIds \cup {None} :
                 [r EXCEPT !.label = x] \in DataSource /\ [r EXCEPT !.label = x].source = r.source
           /\ [r EXCEPT !.source = <<"import">>] \in DataSource
           /\ [r EXCEPT !.source = <<"import">>].source = <<"import">>
  BY Zenon DEF DataSource, Source

\* CreateOrUpdate and CDI start from an empty DataSource.
LEMMA EmptyType ==
    /\ Empty \in DataSource
    /\ \A id \in CronIds : LET made == [Empty EXCEPT !.source = <<"import">>, !.label = id]
                           IN  made \in DataSource /\ made.source = <<"import">>
  BY Zenon DEF Empty, DataSource, Source

\* What updateFunc leaves in a DataSource.
LEMMA UpdatedExact ==
    ASSUME NEW r \in DataSource, NEW info \in DataSourceInfo
    PROVE  /\ Updated(r, info) \in DataSource
           /\ Updated(r, info).mine /\ Updated(r, info).ready = r.ready
           /\ info.auto => Updated(r, info).label = info.cron /\ Updated(r, info).source = r.source
           /\ ~info.auto => Updated(r, info).label = None /\ Updated(r, info).source = info.source
  <1>1. info.auto \in BOOLEAN /\ info.cron \in CronIds \cup {None} /\ info.source \in Source
    BY Zenon DEF DataSourceInfo
  <1>2. CASE info.auto
    <2>1. Updated(r, info) = [r EXCEPT !.mine = TRUE, !.label = info.cron]
      BY <1>2, Zenon DEF Updated
    <2> QED
      BY <1>1, <1>2, <2>1, Zenon DEF DataSource
  <1>3. CASE ~info.auto
    <2>1. Updated(r, info) = [r EXCEPT !.mine = TRUE, !.label = None, !.source = info.source]
      BY <1>3, Zenon DEF Updated
    <2> QED
      BY <1>1, <1>3, <2>1, ZenonT(40) DEF DataSource
  <1> QED
    BY <1>2, <1>3, Zenon

\* What CreateOrUpdate makes of a DataSource of the plan.
LEMMA ResultExact ==
    ASSUME GoldenTypes, References, plan # None, NEW k \in DOMAIN plan.infos
    PROVE  /\ k \in DsNames /\ Result(k) \in DataSource /\ Result(k).mine
           /\ k[2] # NoArch => ~IsRef(Result(k).source)
           /\ plan.infos[k].auto => Result(k).label = plan.infos[k].cron
           /\ ~plan.infos[k].auto => Result(k).label = None /\ Result(k).source = plan.infos[k].source
  <1> DEFINE found == IF seen[k] = None THEN Empty ELSE seen[k]
  <1>1. k \in DsNames /\ plan.infos[k] \in DataSourceInfo
    BY Zenon DEF GoldenTypes, IsPlan
  <1>2. found \in DataSource
    BY <1>1, EmptyType, ZenonT(40) DEF GoldenTypes
  <1>3. k[2] # NoArch => ~IsRef(found.source)
    <2>1. ~IsRef(Empty.source)
      BY Zenon DEF Empty, IsRef
    <2> QED
      BY <1>1, <2>1, Zenon DEF References, NoRefs
  <1>4. Result(k) = Updated(found, plan.infos[k])
    BY Zenon DEF Result
  <1>5. k[2] # NoArch => ~IsRef(plan.infos[k].source)
    BY Zenon DEF References
  <1>6. plan.infos[k].auto \in BOOLEAN
    BY <1>1, Zenon DEF DataSourceInfo
  <1> HIDE DEF found
  <1> QED
    BY <1>1, <1>2, <1>3, <1>4, <1>5, <1>6, UpdatedExact

\* ApplyDataSources leaves DataSources, whenever it stops.
LEMMA AppliedType ==
    ASSUME GoldenTypes, References, plan # None, NEW S \in SUBSET DOMAIN plan.infos, NEW D
    PROVE  /\ Applied(S, D) \in [DsNames -> DataSource \cup {None}]
           /\ NoRefs(Applied(S, D))
  <1>1. ASSUME NEW k \in DsNames
        PROVE  /\ Applied(S, D)[k] \in DataSource \cup {None}
               /\ k[2] # NoArch /\ Applied(S, D)[k] # None => ~IsRef(Applied(S, D)[k].source)
    <2>1. \/ Applied(S, D)[k] \in {None, ds[k]}
          \/ k \in DOMAIN plan.infos /\ Applied(S, D)[k] = Result(k)
      BY Zenon DEF Applied
    <2>2. ds[k] \in DataSource \cup {None}
      BY Zenon DEF GoldenTypes
    <2> QED
      BY <2>1, <2>2, ResultExact, Zenon DEF References, NoRefs
  <1>2. Applied(S, D) = [k \in DsNames |-> Applied(S, D)[k]]
    BY Zenon DEF Applied
  <1> QED
    BY <1>1, <1>2, Zenon DEF NoRefs

\* The same for crons.
LEMMA DeletedType ==
    ASSUME NEW f \in [CronIds -> DataImportCron \cup {None}], NEW S
    PROVE  /\ Deleted(f, S) \in [CronIds -> DataImportCron \cup {None}]
           /\ \A id \in CronIds : id \in S /\ f[id] # None => Deleted(f, S)[id].deleting
  <1>1. \A r \in DataImportCron : [r EXCEPT !.deleting = TRUE] \in DataImportCron /\ [r EXCEPT !.deleting = TRUE].deleting
    BY Zenon DEF DataImportCron
  <1> QED
    BY <1>1, Zenon DEF Deleted

\* ApplyCrons leaves DataImportCrons, whenever it stops; what it creates exists,
\* and what it replaces or drops is being deleted.
LEMMA AppliedCronsType ==
    ASSUME GoldenTypes, plan # None, NEW C \in SUBSET plan.crons, NEW D
    PROVE  /\ AppliedCrons(C, D) \in [CronIds -> DataImportCron \cup {None}]
           /\ \A c \in C : Create(c) => AppliedCrons(C, D)[c.id] # None
           /\ \A id \in CronIds : crons[id] # None
                 /\ (id \in D \/ \E c \in C : c.id = id /\ Wrong(c)) /\ (\A c \in C : c.id = id => ~Create(c))
                 => AppliedCrons(C, D)[id].deleting
  <1> DEFINE created == {c \in C : Create(c)}
             removed == {c.id : c \in {d \in C : Wrong(d)}} \cup D
             made(id) == [managed |-> (CHOOSE c \in created : c.id = id).managed, deleting |-> FALSE]
  <1>1. AppliedCrons(C, D) = [id \in CronIds |-> IF \E c \in created : c.id = id THEN made(id)
                                                 ELSE Deleted(crons, removed)[id]]
    BY Zenon DEF AppliedCrons
  <1>2. C \subseteq [id: CronIds, managed: DsNames]
    BY Zenon DEF GoldenTypes, IsPlan
  <1>3. ASSUME NEW id \in CronIds, \E c \in created : c.id = id PROVE made(id) \in DataImportCron
    <2>1. (CHOOSE c \in created : c.id = id) \in created
      BY <1>3, Zenon
    <2>2. (CHOOSE c \in created : c.id = id).managed \in DsNames
      BY <1>2, <2>1, Zenon
    <2> QED
      BY <2>2, Zenon DEF DataImportCron
  <1>4. /\ Deleted(crons, removed) \in [CronIds -> DataImportCron \cup {None}]
        /\ \A id \in CronIds : id \in removed /\ crons[id] # None => Deleted(crons, removed)[id].deleting
    BY DeletedType, Zenon DEF GoldenTypes
  <1>5. \A r \in DataImportCron : r # None
    BY NoneAssumption, Zenon
  <1> HIDE DEF made
  <1>6. AppliedCrons(C, D) \in [CronIds -> DataImportCron \cup {None}]
    BY <1>1, <1>3, <1>4
  <1>7. \A c \in C : Create(c) => AppliedCrons(C, D)[c.id] # None
    BY <1>1, <1>2, <1>3, <1>5
  <1>8. ASSUME NEW id \in CronIds, crons[id] # None,
               id \in D \/ \E c \in C : c.id = id /\ Wrong(c), \A c \in C : c.id = id => ~Create(c)
        PROVE  AppliedCrons(C, D)[id].deleting
    <2>1. id \in removed /\ ~\E c \in created : c.id = id
      BY <1>8, Zenon
    <2> QED
      BY <1>1, <1>4, <1>8, <2>1, Zenon
  <1> QED
    BY <1>6, <1>7, <1>8, Zenon

-----------------------------------------------------------------------------
(* The steps *)

\* A step that leaves no event behind changes nothing of the SSP.
LEMMA QuietStep ==
    ASSUME GoldenTypes, GoldenTypes', Notify, news' = {}
    PROVE  /\ news = {} /\ crons' = crons
           /\ Owned(ds') = Owned(ds) /\ \A k \in Owned(ds) \cup Owned(ds') : ds'[k] = ds[k]
  <1>1. /\ news = {} /\ crons' = crons
        /\ ~\E k \in Owned(ds) \cup Owned(ds') : ds'[k] # ds[k]
    BY Zenon DEF Notify, Owned
  <1>2. DOMAIN ds = DsNames /\ DOMAIN ds' = DsNames
    BY Zenon DEF GoldenTypes
  <1> QED
    BY <1>1, <1>2, Zenon DEF Owned

\* What changes is announced.
LEMMA NotifyAnnounces ==
    ASSUME GoldenTypes, GoldenTypes', Announced, Notify, seen' = seen, seenCrons' = seenCrons
    PROVE  Announced'
  <1>1. DOMAIN ds = DsNames /\ DOMAIN ds' = DsNames
    BY Zenon DEF GoldenTypes
  <1>2. "crons" \notin news' => "crons" \notin news /\ crons' = crons
    BY Zenon DEF Notify
  <1>3. "ds" \notin news' => "ds" \notin news /\ \A k \in Owned(ds) \cup Owned(ds') : ds'[k] = ds[k]
    BY Zenon DEF Notify, Owned
  <1>4. \A k \in DsNames : /\ k \in Owned(ds) <=> Mine(ds[k])
                           /\ k \in Owned(ds') <=> Mine(ds'[k])
    BY <1>1, Zenon DEF Owned, Mine
  <1>5. ASSUME "ds" \notin news', NEW k \in DsNames, ds'[k] # seen[k]
        PROVE  ~Mine(ds'[k]) /\ ~Mine(seen[k])
    <2>1. CASE ds'[k] = ds[k]
      BY <1>3, <1>5, <2>1, Zenon DEF Announced
    <2>2. CASE ds'[k] # ds[k]
      <3>1. ~Mine(ds[k]) /\ ~Mine(ds'[k])
        BY <1>3, <1>4, <1>5, <2>2, Zenon
      <3>2. ds[k] # seen[k] => ~Mine(seen[k])
        BY <1>3, <1>5, Zenon DEF Announced
      <3> QED
        BY <3>1, <3>2, Zenon
    <2> QED
      BY <2>1, <2>2, Zenon
  <1>6. "crons" \notin news' => seenCrons' = crons'
    BY <1>2, Zenon DEF Announced
  <1> QED
    BY <1>5, <1>6, Zenon DEF Announced, Mine

\* The facts about a finished or applied plan, and about the plan, survive a step
\* that leaves no event.
LEMMA FactsSurvive ==
    ASSUME GoldenTypes, GoldenTypes', ssp' = ssp, seen' = seen, crons' = crons, Owned(ds') = Owned(ds),
           \A k \in Owned(ds) : ds'[k] = ds[k]
    PROVE  /\ RightDataSources(ssp.spec) => RightDataSources(ssp.spec)' /\ Wanted(ssp.spec)' = Wanted(ssp.spec)
           /\ \A k, info : RightInfo(ssp.spec, k, info) => RightInfo(ssp.spec, k, info)'
  <1>1. ASSUME RightDataSources(ssp.spec)
        PROVE  RightDataSources(ssp.spec)' /\ Wanted(ssp.spec)' = Wanted(ssp.spec)
    <2>1. Owned(ds) = Keys(ssp.spec)
      BY <1>1, Zenon DEF RightDataSources
    <2>2. \A k \in Keys(ssp.spec) : ds'[k] = ds[k]
      BY <2>1, Zenon
    <2>3. RightDataSources(ssp.spec)'
      BY <1>1, <2>1, <2>2, Zenon DEF RightDataSources, Unseen, Mine, Owned
    <2>4. Wanted(ssp.spec)' = Wanted(ssp.spec)
      BY <2>2, Zenon DEF Wanted
    <2> QED
      BY <2>3, <2>4, Zenon
  <1>2. ASSUME NEW k, NEW info, RightInfo(ssp.spec, k, info) PROVE RightInfo(ssp.spec, k, info)'
    BY <1>2, Zenon DEF RightInfo, Unseen, Mine
  <1> QED
    BY <1>1, <1>2, Zenon

\* A step of CDI or of a user.
LEMMA OthersKeep ==
    ASSUME GoldenInv, GoldenTypes', References', Notify, UNCHANGED <<seen, seenCrons, plan>>,
           ssp' = ssp \/ queued', queued => queued'
    PROVE  GoldenInv'
  <1> USE DEF GoldenInv
  <1>1. Announced'
    BY NotifyAnnounces, Zenon
  <1>2. CASE Alarm'
    BY <1>1, <1>2, Zenon DEF Planned, AppliedDs, Finished
  <1>3. CASE ~Alarm'
    <2>1. news' = {} /\ ~queued' /\ ~queued /\ ssp' = ssp
      BY <1>3, Zenon DEF Alarm
    <2>2. /\ news = {} /\ crons' = crons
          /\ Owned(ds') = Owned(ds) /\ \A k \in Owned(ds) \cup Owned(ds') : ds'[k] = ds[k]
      BY <2>1, QuietStep, Zenon
    <2>3. ~Alarm
      BY <2>1, <2>2, Zenon DEF Alarm
    <2>4. /\ RightDataSources(ssp.spec) => RightDataSources(ssp.spec)' /\ Wanted(ssp.spec)' = Wanted(ssp.spec)
          /\ \A k, info : RightInfo(ssp.spec, k, info) => RightInfo(ssp.spec, k, info)'
      BY <2>1, <2>2, FactsSurvive, Zenon
    <2>5. Planned'
      <3>1. CASE plan = None
        BY <3>1, Zenon DEF Planned
      <3>2. CASE plan # None
        <4>1. /\ DOMAIN plan.infos = Keys(ssp.spec)
              /\ plan.crons = DataImportCrons(CronsFor(ssp.spec), plan.infos)
              /\ \A k \in Keys(ssp.spec) : RightInfo(ssp.spec, k, plan.infos[k])
              /\ Owned(ds) \subseteq Keys(ssp.spec) \cup plan.dropDs
              /\ Existing(crons) \subseteq {c.id : c \in plan.crons} \cup plan.dropCrons
          BY <2>3, <3>2, Zenon DEF Planned
        <4>2. \A k \in Keys(ssp.spec) : RightInfo(ssp.spec, k, plan.infos[k])'
          BY <2>4, <4>1, Zenon
        <4>3. Owned(ds)' \subseteq Keys(ssp.spec) \cup plan.dropDs
          BY <2>2, <4>1, Zenon DEF Owned
        <4> QED
          BY <2>1, <2>2, <4>1, <4>2, <4>3, Zenon DEF Planned, Existing
      <3> QED
        BY <3>1, <3>2, Zenon
    <2>6. AppliedDs'
      BY <2>1, <2>3, <2>4, Zenon DEF AppliedDs
    <2>7. Finished'
      <3>1. CASE plan # None \/ ssp.deleting
        BY <2>1, <3>1, Zenon DEF Finished
      <3>2. CASE plan = None /\ ~ssp.deleting
        <4>1. RightDataSources(ssp.spec) /\ RightCrons(Wanted(ssp.spec), crons)
          BY <2>3, <3>2, Zenon DEF Finished
        <4>2. RightDataSources(ssp.spec)' /\ RightCrons(Wanted(ssp.spec)', crons')
          BY <2>2, <2>4, <4>1, Zenon
        <4> QED
          BY <4>2, Zenon DEF Finished, RightCrons, Existing
      <3> QED
        BY <3>1, <3>2, Zenon
    <2> QED
      BY <1>1, <2>5, <2>6, <2>7, Zenon
  <1> QED
    BY <1>2, <1>3, Zenon

\* The informers and a restart.
LEMMA InformersKeep == ASSUME GoldenInv, Informers \/ Restart PROVE GoldenInv'
  <1> USE DEF GoldenInv
  <1>0. /\ UNCHANGED <<ssp, ds, crons>> /\ seen' \in {seen, ds} /\ seenCrons' \in {seenCrons, crons}
        /\ plan' \in {plan, None} /\ news' \subseteq news /\ queued' \in BOOLEAN
    BY Zenon DEF Informers, DeliverDataSources, DeliverCrons, Restart, Abort, GoldenTypes
  <1>1. GoldenTypes' /\ References'
    <2>1. GoldenTypes'
      BY <1>0, Zenon DEF GoldenTypes, IsPlan
    <2>2. References'
      BY <1>0, Zenon DEF References, NoRefs
    <2> QED
      BY <2>1, <2>2, Zenon
  <1>2. Announced'
    <2>1. CASE DeliverDataSources
      <3>1. seen' = ds /\ UNCHANGED <<ds, crons, seenCrons>> /\ ("crons" \in news' <=> "crons" \in news)
        BY <2>1, Zenon DEF DeliverDataSources
      <3> QED
        BY <3>1, Zenon DEF Announced
    <2>2. CASE DeliverCrons
      <3>1. seenCrons' = crons /\ UNCHANGED <<ds, crons, seen>> /\ ("ds" \in news' <=> "ds" \in news)
        BY <2>2, Zenon DEF DeliverCrons
      <3> QED
        BY <3>1, Zenon DEF Announced, Mine
    <2>3. CASE Restart
      <3>1. seenCrons' = crons /\ seen' = ds /\ UNCHANGED <<ds, crons>>
        BY <2>3, Zenon DEF Restart
      <3> QED
        BY <3>1, Zenon DEF Announced
    <2> QED
      BY <2>1, <2>2, <2>3, Zenon DEF Informers
  <1>3. CASE Alarm'
    BY <1>1, <1>2, <1>3, Zenon DEF Planned, AppliedDs, Finished
  <1>4. CASE ~Alarm'
    <2>1. /\ seen' = ds /\ ~queued /\ news = {} /\ UNCHANGED <<ssp, ds, crons, plan>>
      BY <1>4, Zenon DEF Alarm, Informers, DeliverDataSources, DeliverCrons, Restart, Abort, GoldenTypes
    <2>2. ~Alarm
      BY <2>1, Zenon DEF Alarm
    <2>3. \A k \in DsNames : Mine(ds[k]) => ds[k] = seen[k]
      BY <2>1, Zenon DEF Announced
    <2>4. \A k \in DsNames : Unseen(k, seen) => Unseen(k, seen)'
      BY <2>1, <2>3, Zenon DEF Unseen, Mine
    <2>5. \A k \in DsNames : \A info : RightInfo(ssp.spec, k, info) => RightInfo(ssp.spec, k, info)'
      BY <2>1, <2>4, Zenon DEF RightInfo
    <2>6. Keys(ssp.spec) \subseteq DsNames
      BY KeysType, Zenon DEF GoldenTypes
    <2>7. Planned'
      <3>1. CASE plan = None
        BY <2>1, <3>1, Zenon DEF Planned
      <3>2. CASE plan # None
        <4>1. /\ DOMAIN plan.infos = Keys(ssp.spec)
              /\ plan.crons = DataImportCrons(CronsFor(ssp.spec), plan.infos)
              /\ \A k \in Keys(ssp.spec) : RightInfo(ssp.spec, k, plan.infos[k])
              /\ Owned(ds) \subseteq Keys(ssp.spec) \cup plan.dropDs
              /\ Existing(crons) \subseteq {c.id : c \in plan.crons} \cup plan.dropCrons
          BY <2>2, <3>2, Zenon DEF Planned
        <4>2. \A k \in Keys(ssp.spec) : RightInfo(ssp.spec, k, plan.infos[k])'
          BY <2>1, <2>5, <2>6, <4>1, Zenon
        <4> QED
          BY <2>1, <4>1, <4>2, Zenon DEF Planned, Existing, Owned
      <3> QED
        BY <3>1, <3>2, Zenon
    <2>8. AppliedDs' /\ Finished'
      BY <2>1, <2>2, ZenonT(40) DEF AppliedDs, Finished, RightDataSources, RightCrons, Wanted, Unseen, Mine, Owned, Existing
    <2> QED
      BY <1>1, <1>2, <2>7, <2>8, Zenon
  <1> QED
    BY <1>3, <1>4, Zenon

\* CDI writes no reference, and everything it changes of the SSP makes an event.
LEMMA CdiKeeps == ASSUME GoldenInv, Cdi PROVE GoldenInv'
  <1> USE DEF GoldenInv
  <1>0. /\ UNCHANGED <<ssp, seen, seenCrons, plan, queued>> /\ Notify
        /\ ds \in [DsNames -> DataSource \cup {None}]
        /\ crons \in [CronIds -> DataImportCron \cup {None}]
        /\ news' \subseteq {"ds", "crons"}
    BY Zenon DEF Cdi, CdiStatus, CdiImport, CdiFinalize, GoldenTypes, Notify
  <1>1. SUFFICES /\ ds' \in [DsNames -> DataSource \cup {None}] /\ NoRefs(ds)'
                 /\ crons' \in [CronIds -> DataImportCron \cup {None}]
    <2>1. GoldenTypes'
      BY <1>0, <1>1, Zenon DEF GoldenTypes, IsPlan
    <2>2. References'
      BY <1>0, <1>1, Zenon DEF References, NoRefs
    <2> QED
      BY <1>0, <2>1, <2>2, OthersKeep, Zenon
  <1>2. CASE CdiStatus
    <2>1. /\ crons' = crons
          /\ ds' = [k \in DsNames |-> IF ds[k] = None THEN None ELSE [ds[k] EXCEPT !.ready = ReadyStatus(k)]]
      BY <1>2, Zenon DEF CdiStatus
    <2>2. \A k \in DsNames : ReadyStatus(k) \in {"unset", "true", "false"}
      BY Zenon DEF ReadyStatus
    <2>3. ASSUME NEW k \in DsNames, ds[k] # None
          PROVE  /\ [ds[k] EXCEPT !.ready = ReadyStatus(k)] \in DataSource
                 /\ [ds[k] EXCEPT !.ready = ReadyStatus(k)].source = ds[k].source
      <3>1. ds[k] \in DataSource
        BY <1>0, <2>3, Zenon
      <3> QED
        BY <2>2, <3>1, WrittenDataSource, Zenon
    <2> QED
      BY <1>0, <2>1, <2>3, Zenon DEF References, NoRefs
  <1>3. ASSUME NEW id \in CronIds, CdiImport(id)
        PROVE  /\ ds' \in [DsNames -> DataSource \cup {None}] /\ NoRefs(ds)'
               /\ crons' \in [CronIds -> DataImportCron \cup {None}]
    <2> DEFINE k == crons[id].managed
    <2>1. k \in DsNames
      BY <1>0, <1>3, Zenon DEF CdiImport, DataImportCron
    <2>2. PICK new : new \in DataSource /\ new.source = <<"import">> /\ ds' = [ds EXCEPT ![k] = new]
      <3>1. CASE ds' = [ds EXCEPT ![k] = [Empty EXCEPT !.source = <<"import">>, !.label = id]]
        BY <3>1, EmptyType, Zenon
      <3>2. CASE ds[k] # None /\ ds' = [ds EXCEPT ![k].source = <<"import">>]
        <4>1. ds[k] \in DataSource
          BY <1>0, <2>1, <3>2, Zenon
        <4>2. ds' = [ds EXCEPT ![k] = [ds[k] EXCEPT !.source = <<"import">>]]
          BY <3>2, Zenon
        <4> QED
          BY <4>1, <4>2, WrittenDataSource, Zenon
      <3> QED
        BY <1>3, <3>1, <3>2, Zenon DEF CdiImport
    <2>3. crons' = crons /\ ~IsRef(<<"import">>)
      BY <1>3, Zenon DEF CdiImport, IsRef
    <2> HIDE DEF k
    <2> QED
      BY <1>0, <2>1, <2>2, <2>3, Zenon DEF References, NoRefs
  <1>4. ASSUME NEW id \in CronIds, CdiFinalize(id)
        PROVE  /\ ds' \in [DsNames -> DataSource \cup {None}] /\ NoRefs(ds)'
               /\ crons' \in [CronIds -> DataImportCron \cup {None}]
    BY <1>0, <1>4, Zenon DEF CdiFinalize, References, NoRefs
  <1> QED
    BY <1>2, <1>3, <1>4, Zenon DEF Cdi

\* The same for users; a change of the SSP queues a request.
LEMMA UsersKeep == ASSUME GoldenInv, Users PROVE GoldenInv'
  <1> USE DEF GoldenInv
  <1>0. /\ UNCHANGED <<seen, seenCrons, plan>> /\ Notify
        /\ ds \in [DsNames -> DataSource \cup {None}]
        /\ crons \in [CronIds -> DataImportCron \cup {None}]
        /\ news' \subseteq {"ds", "crons"}
    BY Zenon DEF Users, User, EditSsp, DeleteSsp, ChangePvc, ChangeLabel, RemoveDataSource, RemoveCron, GoldenTypes, Notify
  <1>a. /\ ssp' \in [spec: Specs, deleting: BOOLEAN, gone: BOOLEAN]
        /\ queued' \in {queued, TRUE} /\ (ssp' = ssp \/ queued')
    BY Zenon DEF Users, User, EditSsp, DeleteSsp, ChangePvc, ChangeLabel, RemoveDataSource, RemoveCron, GoldenTypes
  <1>b. queued' \in BOOLEAN /\ (queued => queued')
    <2>1. queued' = queued \/ queued' = TRUE
      BY <1>a, Zenon
    <2>2. queued \in BOOLEAN
      BY Zenon DEF GoldenTypes
    <2>3. queued' \in BOOLEAN
      BY <2>1, <2>2, Zenon
    <2>4. CASE queued
      <3>1. queued = TRUE
        BY <2>2, <2>4, Zenon
      <3> QED
        BY <2>1, <2>3, <3>1, ZenonT(40)
    <2> QED
      BY <2>3, <2>4, Zenon
  <1>1. SUFFICES /\ ds' \in [DsNames -> DataSource \cup {None}] /\ NoRefs(ds)'
                 /\ crons' \in [CronIds -> DataImportCron \cup {None}]
    <2>1. GoldenTypes'
      BY <1>0, <1>a, <1>b, <1>1, Zenon DEF GoldenTypes, IsPlan
    <2>2. References'
      BY <1>0, <1>1, Zenon DEF References, NoRefs
    <2> QED
      BY <1>0, <1>a, <1>b, <2>1, <2>2, OthersKeep, Zenon
  <1>2. CASE ds' = ds /\ crons' = crons
    BY <1>0, <1>2, Zenon DEF References, NoRefs
  <1>3. ASSUME NEW k \in DsNames, ChangeLabel(k)
        PROVE  ds' \in [DsNames -> DataSource \cup {None}] /\ NoRefs(ds)' /\ crons' = crons
    <2>1. PICK label \in {None, dicName(CronsFor(ssp.spec), k)} : ds' = [ds EXCEPT ![k].label = label]
      BY <1>3, Zenon DEF ChangeLabel, CronsFor
    <2>2. label \in CronIds \cup {None}
      BY <2>1, DicNameType DEF GoldenTypes
    <2>3. ds[k] # None /\ ds[k] \in DataSource /\ crons' = crons
      BY <1>0, <1>3, Zenon DEF ChangeLabel
    <2>4. PICK new \in DataSource : new.source = ds[k].source /\ ds' = [ds EXCEPT ![k] = new]
      BY <2>1, <2>2, <2>3, WrittenDataSource, Zenon
    <2> QED
      BY <1>0, <2>3, <2>4, Zenon DEF References, NoRefs
  <1>4. ASSUME NEW k \in DsNames, RemoveDataSource(k)
        PROVE  ds' \in [DsNames -> DataSource \cup {None}] /\ NoRefs(ds)' /\ crons' = crons
    BY <1>0, <1>4, Zenon DEF RemoveDataSource, References, NoRefs
  <1>5. ASSUME NEW id \in CronIds, RemoveCron(id)
        PROVE  ds' = ds /\ crons' \in [CronIds -> DataImportCron \cup {None}]
    BY <1>0, <1>5, DeletedType, Zenon DEF RemoveCron
  <1>6. CASE (\E spec \in Specs : EditSsp(spec)) \/ DeleteSsp \/ \E k \in UserPvcs : ChangePvc(k)
    BY <1>2, <1>6, Zenon DEF EditSsp, DeleteSsp, ChangePvc
  <1> QED
    BY <1>0, <1>3, <1>4, <1>5, <1>6, Zenon DEF Users, References, NoRefs

\* Cleanup is for an SSP that is being deleted.
LEMMA CleanupKeeps == ASSUME GoldenInv, Cleanup, Notify PROVE GoldenInv'
  <1> USE DEF GoldenInv
  <1>0. /\ UNCHANGED <<seen, seenCrons, plan>> /\ plan = None /\ news' \subseteq {"ds", "crons"}
    BY Zenon DEF Cleanup, GoldenTypes, Notify
  <1>1. ssp' \in [spec: Specs, deleting: BOOLEAN, gone: BOOLEAN] /\ ssp'.deleting
    <2>1. ssp' = [ssp EXCEPT !.gone = allDeleted] /\ allDeleted \in BOOLEAN /\ ssp.deleting
      BY Zenon DEF Cleanup, allDeleted
    <2> QED
      BY <2>1, Zenon DEF GoldenTypes
  <1>2. queued' \in BOOLEAN
    BY Zenon DEF Cleanup
  <1>3. /\ ds' \in [DsNames -> DataSource \cup {None}] /\ NoRefs(ds)'
        /\ crons' \in [CronIds -> DataImportCron \cup {None}]
    <2>1. \/ ds' = ds /\ crons' = Deleted(crons, Existing(seenCrons))
          \/ crons' = crons /\ ds' = [k \in DsNames |-> IF k \in Owned(seen) THEN None ELSE ds[k]]
      BY Zenon DEF Cleanup, CleanupInOrder
    <2>2. CASE ds' = ds /\ crons' = Deleted(crons, Existing(seenCrons))
      BY <2>2, DeletedType, Zenon DEF GoldenTypes, References, NoRefs
    <2>3. CASE crons' = crons /\ ds' = [k \in DsNames |-> IF k \in Owned(seen) THEN None ELSE ds[k]]
      BY <2>3, Zenon DEF GoldenTypes, References, NoRefs
    <2> QED
      BY <2>1, <2>2, <2>3, Zenon
  <1>4. GoldenTypes'
    BY <1>0, <1>1, <1>2, <1>3, Zenon DEF GoldenTypes
  <1>5. References'
    BY <1>0, <1>3, Zenon DEF References, NoRefs
  <1>6. Announced'
    BY <1>0, <1>4, NotifyAnnounces, Zenon
  <1> QED
    BY <1>0, <1>1, <1>4, <1>5, <1>6, Zenon DEF Planned, AppliedDs, Finished

\* Plan decides from copies that show everything of the SSP, or an event comes.
LEMMA PlanKeeps == ASSUME GoldenInv, Plan, Notify PROVE GoldenInv'
  <1> USE DEF GoldenInv
  <1> DEFINE spec == ssp.spec
             ca == ClusterArchs(spec)
             infos == DataSourceInfos(spec, ca, CronsFor(spec))
             deploy == DataImportCrons(CronsFor(spec), infos)
             new == [stage |-> "ds", infos |-> infos, crons |-> deploy,
                     dropDs |-> Owned(seen) \ DOMAIN infos,
                     dropCrons |-> Existing(seenCrons) \ {c.id : c \in deploy}]
  <1>0. /\ UNCHANGED <<ssp, ds, crons, seen, seenCrons>> /\ plan = None
        /\ \/ plan' = None /\ queued' = TRUE
           \/ plan' = new /\ queued' = FALSE
    BY Zenon DEF Plan, Abort, CronsFor
  <1>1. news' = news
    BY <1>0, Zenon DEF Notify
  <1>2. CASE plan' = None /\ queued' = TRUE
    <2>1. GoldenTypes'
      BY <1>0, <1>1, <1>2, Zenon DEF GoldenTypes
    <2>2. References'
      BY <1>0, <1>2, Zenon DEF References, NoRefs
    <2>3. Announced'
      BY <1>0, <1>1, Zenon DEF Announced, Mine
    <2>4. Alarm'
      BY <1>2, Zenon DEF Alarm
    <2> QED
      BY <2>1, <2>2, <2>3, <2>4, Zenon DEF Planned, AppliedDs, Finished
  <1>3. CASE plan' = new /\ queued' = FALSE
    <2>1. spec \in Specs /\ Keys(spec) \subseteq DsNames
      BY KeysType, Zenon DEF GoldenTypes
    <2>2. /\ DOMAIN infos = Keys(spec) /\ infos \in [Keys(spec) -> DataSourceInfo]
          /\ \A k \in Keys(spec) : RightInfo(spec, k, infos[k])
      BY <2>1, InfosRight, Zenon
    <2>3. deploy \subseteq [id: CronIds, managed: DsNames]
      BY <2>1, CronsType, Zenon DEF DataImportCrons
    <2>4. Owned(seen) \subseteq DsNames /\ Existing(seenCrons) \subseteq CronIds
      BY Zenon DEF Owned, Existing, GoldenTypes
    <2> DEFINE dropDs == Owned(seen) \ DOMAIN infos
               dropCrons == Existing(seenCrons) \ {c.id : c \in deploy}
    <2> HIDE DEF infos, deploy
    <2>5. dropDs \subseteq DsNames /\ dropCrons \subseteq CronIds
      BY <2>4, Zenon
    <2> HIDE DEF dropDs, dropCrons
    <2>6. /\ new.stage = "ds" /\ new.infos = infos /\ new.crons = deploy
          /\ new.dropDs = dropDs /\ new.dropCrons = dropCrons
      BY Zenon DEF dropDs, dropCrons
    <2>7. new \in Plans /\ IsPlan(new)
      <3>1. infos \in UNION {[S -> DataSourceInfo] : S \in SUBSET DsNames}
        BY <2>1, <2>2, Zenon
      <3>2. new = [stage |-> "ds", infos |-> infos, crons |-> deploy, dropDs |-> dropDs, dropCrons |-> dropCrons]
        BY Zenon DEF dropDs, dropCrons
      <3> HIDE DEF new
      <3>3. new \in Plans
        BY <2>3, <2>5, <3>1, <3>2, Zenon DEF Plans
      <3>4. new \in [stage: {"ds", "crons"}, infos: {new.infos}, crons: SUBSET [id: CronIds, managed: DsNames],
                     dropDs: SUBSET DsNames, dropCrons: SUBSET CronIds]
        BY <2>3, <2>5, <3>2, Zenon
      <3> QED
        BY <2>1, <2>2, <2>6, <3>3, <3>4, Zenon DEF IsPlan
    <2> HIDE DEF new
    <2>8. plan' # None
      BY <1>3, <2>7, NoneAssumption, Zenon
    <2>9. GoldenTypes'
      <3>1. IsPlan(plan)'
        BY <1>3, <2>7, Zenon DEF IsPlan
      <3>2. queued' \in BOOLEAN
        BY <1>3, Zenon
      <3> QED
        BY <1>0, <1>1, <3>1, <3>2, Zenon DEF GoldenTypes
    <2>10. References'
      <3>1. \A k \in DOMAIN new.infos : k[2] # NoArch => ~IsRef(new.infos[k].source)
        BY <2>2, <2>6, Zenon DEF RightInfo
      <3> QED
        BY <1>0, <1>3, <3>1, Zenon DEF References, NoRefs
    <2>11. Announced'
      BY <1>0, <1>1, Zenon DEF Announced, Mine
    <2>12. Planned'
      <3> SUFFICES ASSUME ~Alarm' PROVE
             /\ DOMAIN plan'.infos = Keys(spec)'
             /\ plan'.crons = DataImportCrons(CronsFor(spec), plan.infos)'
             /\ \A k \in Keys(spec)' : RightInfo(spec, k, plan.infos[k])'
             /\ Owned(ds)' \subseteq Keys(spec)' \cup plan'.dropDs
             /\ Existing(crons)' \subseteq {c.id : c \in plan'.crons} \cup plan'.dropCrons
        BY Zenon DEF Planned
      <3>1. news = {}
        BY <1>1, Zenon DEF Alarm
      <3>2. Owned(ds) = Owned(seen) /\ crons = seenCrons
        <4>1. DOMAIN ds = DsNames /\ DOMAIN seen = DsNames
          BY Zenon DEF GoldenTypes
        <4>2. \A k \in DsNames : ds[k] # seen[k] => ~Mine(ds[k]) /\ ~Mine(seen[k])
          BY <3>1, Zenon DEF Announced
        <4>3. Owned(ds) = {k \in DsNames : Mine(ds[k])} /\ Owned(seen) = {k \in DsNames : Mine(seen[k])}
          BY <4>1, Zenon DEF Owned, Mine
        <4>4. \A k \in DsNames : Mine(ds[k]) <=> Mine(seen[k])
          BY <4>2, Zenon
        <4>5. crons = seenCrons
          BY <3>1, Zenon DEF Announced
        <4> QED
          BY <4>3, <4>4, <4>5, Zenon
      <3>3. Owned(ds)' \subseteq Keys(spec) \cup dropDs
        BY <1>0, <2>2, <3>2, Zenon DEF dropDs, Owned
      <3>4. Existing(crons)' \subseteq {c.id : c \in deploy} \cup dropCrons
        BY <1>0, <3>2, Zenon DEF dropCrons, Existing
      <3>5. plan'.infos = infos /\ plan'.crons = deploy /\ plan'.dropDs = dropDs /\ plan'.dropCrons = dropCrons
        BY <1>3, <2>6, Zenon
      <3>6. Keys(spec)' = Keys(spec) /\ CronsFor(spec)' = CronsFor(spec)
        BY <1>0, Zenon
      <3>7. \A k \in Keys(spec)' : RightInfo(spec, k, plan.infos[k])'
        <4>1. ASSUME NEW k \in Keys(spec) PROVE RightInfo(spec, k, plan.infos[k])'
          <5>1. PICK info : info = infos[k]
            BY Zenon
          <5>2. plan'.infos[k] = info /\ RightInfo(spec, k, info)
            BY <2>2, <3>5, <5>1, Zenon
          <5>3. RightInfo(spec, k, info)'
            BY <1>0, <5>2, Zenon DEF RightInfo, Unseen, Mine
          <5> QED
            BY <5>2, <5>3, Zenon
        <4> QED
          BY <3>6, <4>1, Zenon
      <3>8. plan'.crons = DataImportCrons(CronsFor(spec), plan.infos)'
        BY <1>0, <3>5, Zenon DEF deploy
      <3> QED
        BY <2>2, <3>3, <3>4, <3>5, <3>6, <3>7, <3>8, Zenon
    <2>13. AppliedDs'
      BY <1>3, <2>6, Zenon DEF AppliedDs
    <2>14. Finished'
      BY <2>8, Zenon DEF Finished
    <2> QED
      BY <2>9, <2>10, <2>11, <2>12, <2>13, <2>14, Zenon
  <1> QED
    BY <1>0, <1>2, <1>3, Zenon

\* A Reconcile that ends early is called again.
LEMMA AbortKeeps ==
    ASSUME GoldenInv, Notify, UNCHANGED <<ssp, seen, seenCrons>>, plan' = None, queued' = TRUE,
           ds' \in [DsNames -> DataSource \cup {None}], NoRefs(ds'),
           crons' \in [CronIds -> DataImportCron \cup {None}]
    PROVE  GoldenInv'
  <1> USE DEF GoldenInv
  <1>1. news' \subseteq {"ds", "crons"}
    BY Zenon DEF Notify, GoldenTypes
  <1>2. GoldenTypes'
    BY <1>1, Zenon DEF GoldenTypes
  <1>3. References'
    BY Zenon DEF References, NoRefs
  <1>4. Announced'
    BY <1>2, NotifyAnnounces, Zenon
  <1>5. Alarm'
    BY Zenon DEF Alarm
  <1> QED
    BY <1>2, <1>3, <1>4, <1>5, Zenon DEF Planned, AppliedDs, Finished

\* When the updates and deletions of a current plan change nothing of the SSP's,
\* its DataSources were right.
LEMMA AppliedIsRight ==
    ASSUME GoldenInv, plan # None, ~Alarm, \A k \in DOMAIN plan.infos : ~Refused(k),
           ds' = Applied(DOMAIN plan.infos, plan.dropDs), UNCHANGED <<ssp, seen>>,
           GoldenTypes', Owned(ds') = Owned(ds), \A k \in Owned(ds) \cup Owned(ds') : ds'[k] = ds[k]
    PROVE  RightDataSources(ssp.spec)' /\ plan.crons = Wanted(ssp.spec)'
  <1> USE DEF GoldenInv
  <1> DEFINE spec == ssp.spec
             infos == plan.infos
  <1>0. /\ DOMAIN infos = Keys(spec) /\ plan.crons = DataImportCrons(CronsFor(spec), infos)
        /\ \A k \in Keys(spec) : RightInfo(spec, k, infos[k])
        /\ Owned(ds) \subseteq Keys(spec) \cup plan.dropDs
    BY Zenon DEF Planned
  <1>1. spec \in Specs /\ DOMAIN ds = DsNames /\ DOMAIN ds' = DsNames
    BY Zenon DEF GoldenTypes
  <1>2. \A k \in DsNames : ds[k] # seen[k] => ~Mine(ds[k]) /\ ~Mine(seen[k])
    BY Zenon DEF Announced, Alarm
  <1>3. ASSUME NEW k \in Keys(spec)
        PROVE  /\ k \in DsNames /\ ds[k] = Result(k) /\ seen[k] = Result(k) /\ ds'[k] = Result(k)
               /\ k \in Owned(ds)
    <2>1. k \in DsNames /\ Result(k) \in DataSource /\ Result(k).mine
      BY <1>0, <1>3, ResultExact, Zenon
    <2>2. Result(k) # None /\ Mine(Result(k))
      BY <2>1, NoneAssumption, Zenon DEF Mine
    <2>3. Result(k) = seen[k]
      <3> SUFFICES ASSUME Result(k) # seen[k] PROVE FALSE
        BY Zenon
      <3>1. ds'[k] = Result(k)
        BY <1>0, <1>3, <2>1, Zenon DEF Applied
      <3>2. k \in Owned(ds')
        BY <1>1, <2>1, <2>2, <3>1, Zenon DEF Owned, Mine
      <3>3. ds[k] = Result(k)
        BY <3>1, <3>2, Zenon
      <3> QED
        BY <1>0, <1>3, <3>3, Zenon DEF Refused
    <2>4. ds[k] = seen[k]
      BY <1>2, <2>1, <2>2, <2>3, Zenon
    <2>5. k \in Owned(ds)
      BY <1>1, <2>1, <2>2, <2>3, <2>4, Zenon DEF Owned, Mine
    <2> QED
      BY <2>1, <2>3, <2>4, <2>5, Zenon
  <1>4. Owned(ds) \subseteq Keys(spec)
    <2> SUFFICES ASSUME NEW k \in Owned(ds), k \notin Keys(spec) PROVE FALSE
      BY Zenon
    <2>1. k \in plan.dropDs /\ k \in DsNames /\ ds[k] # None
      BY <1>0, <1>1, ZenonT(40) DEF Owned
    <2>2. ds'[k] = None
      BY <1>0, <2>1, ZenonT(40) DEF Applied
    <2> QED
      BY <2>1, <2>2, Zenon
  <1>5. Owned(ds') = Keys(spec)
    BY <1>3, <1>4, Zenon
  <1>6. ASSUME NEW k \in Keys(spec)
        PROVE  /\ infos[k].auto \in BOOLEAN
               /\ infos[k].auto <=> ds'[k].label # None
               /\ IF ds'[k].label = None THEN RightSource(spec, k, ds'[k].source) \/ Unseen(k, ds')
                  ELSE CronsOf(CronsFor(spec), k) # {} /\ ds'[k].label = dicName(CronsFor(spec), k)
    <2>1. RightInfo(spec, k, infos[k]) /\ infos[k].auto \in BOOLEAN
      BY <1>0, <1>6, ZenonT(40) DEF RightInfo, DataSourceInfo
    <2>2. ds'[k] = Result(k) /\ ds'[k] = seen[k]
      BY <1>3, <1>6, Zenon
    <2>3. CASE infos[k].auto
      <3>1. ds'[k].label = infos[k].cron
        BY <1>0, <1>6, <2>2, <2>3, ResultExact, ZenonT(40)
      <3>2. CronsOf(CronsFor(spec), k) # {} /\ infos[k].cron = dicName(CronsFor(spec), k)
        BY <2>1, <2>3, Zenon DEF RightInfo
      <3>3. infos[k].cron # None
        <4>1. dicName(CronsFor(spec), k) # None
          BY <1>1, <3>2, DicNameType, Zenon
        <4> QED
          BY <3>2, <4>1, Zenon
      <3> QED
        BY <2>1, <2>3, <3>1, <3>2, <3>3, ZenonT(40)
    <2>4. CASE ~infos[k].auto
      <3>1. ds'[k].label = None /\ ds'[k].source = infos[k].source
        BY <1>0, <1>6, <2>2, <2>4, ResultExact, ZenonT(40)
      <3>2. RightSource(spec, k, infos[k].source) \/ Unseen(k, seen)
        BY <2>1, <2>4, Zenon DEF RightInfo
      <3>3. Unseen(k, seen) => Unseen(k, ds')
        BY <2>2, Zenon DEF Unseen
      <3> QED
        BY <2>1, <2>4, <3>1, <3>2, <3>3, Zenon
    <2> QED
      BY <2>1, <2>3, <2>4, Zenon
  <1>7. RightDataSources(spec)'
    BY <1>5, <1>6, Zenon DEF RightDataSources, Unseen, Mine, Owned
  <1>8. plan.crons = Wanted(spec)'
    <2>1. plan.crons = {c \in CronsFor(spec) :
                           ~(c.id[1] = "golden" /\ c.managed \in Keys(spec) /\ ~infos[c.managed].auto)}
      BY <1>0, Zenon DEF DataImportCrons
    <2>2. Wanted(spec)' = {c \in CronsFor(spec) :
                              ~(c.id[1] = "golden" /\ c.managed \in Keys(spec) /\ ds'[c.managed].label = None)}
      BY Zenon DEF Wanted
    <2>3. \A c : c.managed \in Keys(spec) => (~infos[c.managed].auto <=> ds'[c.managed].label = None)
      BY <1>6, Zenon
    <2> HIDE DEF infos, spec
    <2>4. \A c \in CronsFor(spec) :
             ~(c.id[1] = "golden" /\ c.managed \in Keys(spec) /\ ~infos[c.managed].auto)
             <=> ~(c.id[1] = "golden" /\ c.managed \in Keys(spec) /\ ds'[c.managed].label = None)
      BY <2>3, Zenon
    <2> QED
      BY <2>1, <2>2, <2>4, Zenon DEF spec
  <1> QED
    BY <1>7, <1>8, Zenon

\* A plan is not None.
LEMMA PlanIsSome == ASSUME NEW p, IsPlan(p) PROVE p # None
  <1>1. p.infos \in UNION {[S -> DataSourceInfo] : S \in SUBSET DsNames}
    BY Zenon DEF IsPlan
  <1>2. p \in Plans
    BY <1>1, Zenon DEF IsPlan, Plans
  <1> QED
    BY <1>2, NoneAssumption, Zenon

\* ApplyDataSources leaves right DataSources, or events, or is repeated.
LEMMA ApplyDataSourcesKeeps == ASSUME GoldenInv, ApplyDataSources, Notify PROVE GoldenInv'
  <1> USE DEF GoldenInv
  <1> DEFINE all == DOMAIN plan.infos
             new == [plan EXCEPT !.stage = "crons"]
  <1>0. /\ plan # None /\ UNCHANGED <<ssp, crons, seen, seenCrons>>
        /\ \/ /\ \A k \in all : ~Refused(k)
              /\ ds' = Applied(all, plan.dropDs) /\ plan' = new /\ queued' = queued
           \/ \E S \in SUBSET all : ds' = Applied(S, {}) /\ plan' = None /\ queued' = TRUE
    BY Zenon DEF ApplyDataSources, Abort
  <1>1. ASSUME NEW S \in SUBSET all, ds' = Applied(S, {}), plan' = None, queued' = TRUE PROVE GoldenInv'
    <2>1. ds' \in [DsNames -> DataSource \cup {None}] /\ NoRefs(ds')
      BY <1>0, <1>1, AppliedType, Zenon
    <2> QED
      BY <1>0, <1>1, <2>1, AbortKeeps, Zenon DEF GoldenTypes
  <1>2. CASE /\ \A k \in all : ~Refused(k)
             /\ ds' = Applied(all, plan.dropDs) /\ plan' = new /\ queued' = queued
    <2>1. ds' \in [DsNames -> DataSource \cup {None}] /\ NoRefs(ds')
      BY <1>0, <1>2, AppliedType, Zenon
    <2>2. /\ new.stage = "crons" /\ new.infos = plan.infos /\ new.crons = plan.crons
          /\ new.dropDs = plan.dropDs /\ new.dropCrons = plan.dropCrons
      BY <1>0, Zenon DEF GoldenTypes, IsPlan
    <2>3. IsPlan(new)
      <3>1. new \in [stage: {"ds", "crons"}, infos: {new.infos}, crons: SUBSET [id: CronIds, managed: DsNames],
                     dropDs: SUBSET DsNames, dropCrons: SUBSET CronIds]
        BY <1>0, <2>2, Zenon DEF GoldenTypes, IsPlan
      <3> QED
        BY <1>0, <2>2, <3>1, Zenon DEF GoldenTypes, IsPlan
    <2> HIDE DEF new
    <2>4. plan' # None
      BY <1>2, <2>3, PlanIsSome, Zenon
    <2>5. GoldenTypes'
      <3>1. news' \subseteq {"ds", "crons"}
        BY Zenon DEF Notify, GoldenTypes
      <3>2. IsPlan(plan)'
        BY <1>2, <2>3, Zenon DEF IsPlan
      <3> QED
        BY <1>0, <1>2, <2>1, <3>1, <3>2, Zenon DEF GoldenTypes
    <2>6. References'
      <3>1. plan'.infos = plan.infos
        BY <1>2, <2>2, Zenon
      <3> QED
        BY <1>0, <2>1, <3>1, Zenon DEF References, NoRefs
    <2>7. Announced'
      BY <1>0, <2>5, NotifyAnnounces, Zenon
    <2>8. CASE Alarm'
      BY <2>4, <2>5, <2>6, <2>7, <2>8, Zenon DEF Planned, AppliedDs, Finished
    <2>9. CASE ~Alarm'
      <3>1. /\ news = {} /\ Owned(ds') = Owned(ds) /\ \A k \in Owned(ds) \cup Owned(ds') : ds'[k] = ds[k]
        BY <2>5, <2>9, QuietStep, Zenon DEF Alarm
      <3>2. ~Alarm
        BY <1>2, <2>9, <3>1, Zenon DEF Alarm
      <3>3. RightDataSources(ssp.spec)' /\ plan.crons = Wanted(ssp.spec)'
        BY <1>0, <1>2, <2>5, <3>1, <3>2, AppliedIsRight, ZenonT(40)
      <3>4. /\ DOMAIN plan.infos = Keys(ssp.spec)
            /\ plan.crons = DataImportCrons(CronsFor(ssp.spec), plan.infos)
            /\ \A k \in Keys(ssp.spec) : RightInfo(ssp.spec, k, plan.infos[k])
            /\ Owned(ds) \subseteq Keys(ssp.spec) \cup plan.dropDs
            /\ Existing(crons) \subseteq {c.id : c \in plan.crons} \cup plan.dropCrons
        BY <1>0, <3>2, Zenon DEF Planned
      <3>5. /\ plan'.infos = plan.infos /\ plan'.crons = plan.crons
            /\ plan'.dropDs = plan.dropDs /\ plan'.dropCrons = plan.dropCrons
        BY <1>2, <2>2, Zenon
      <3>6. \A k, info : RightInfo(ssp.spec, k, info) => RightInfo(ssp.spec, k, info)'
        BY <1>0, Zenon DEF RightInfo, Unseen, Mine
      <3>7. \A k \in Keys(ssp.spec) : RightInfo(ssp.spec, k, plan.infos[k])'
        BY <3>4, <3>5, <3>6, Zenon
      <3>8. Owned(ds)' \subseteq Keys(ssp.spec) \cup plan.dropDs
        BY <3>1, <3>4, Zenon DEF Owned
      <3>9. Planned'
        BY <1>0, <3>4, <3>5, <3>7, <3>8, Zenon DEF Planned, Existing
      <3>10. AppliedDs'
        BY <3>3, <3>5, Zenon DEF AppliedDs
      <3> QED
        BY <2>4, <2>5, <2>6, <2>7, <3>9, <3>10, Zenon DEF Finished
    <2> QED
      BY <2>8, <2>9, Zenon
  <1> QED
    BY <1>0, <1>1, <1>2, Zenon

\* The same for ApplyCrons, which ends the Reconcile.
LEMMA ApplyCronsKeeps == ASSUME GoldenInv, ApplyCrons, Notify PROVE GoldenInv'
  <1> USE DEF GoldenInv
  <1>0. /\ plan # None /\ plan.stage = "crons" /\ UNCHANGED <<ssp, ds, seen, seenCrons>> /\ plan' = None
        /\ \/ crons' = AppliedCrons(plan.crons, plan.dropCrons) /\ queued' = queued
           \/ \E C \in SUBSET plan.crons : crons' = AppliedCrons(C, {}) /\ queued' = TRUE
    BY Zenon DEF ApplyCrons, Abort
  <1>1. ASSUME NEW C \in SUBSET plan.crons, crons' = AppliedCrons(C, {}), queued' = TRUE PROVE GoldenInv'
    <2>1. crons' \in [CronIds -> DataImportCron \cup {None}]
      BY <1>0, <1>1, AppliedCronsType, Zenon
    <2>2. ds' \in [DsNames -> DataSource \cup {None}] /\ NoRefs(ds')
      BY <1>0, Zenon DEF GoldenTypes, References
    <2> QED
      BY <1>0, <1>1, <2>1, <2>2, AbortKeeps, Zenon
  <1>2. CASE crons' = AppliedCrons(plan.crons, plan.dropCrons) /\ queued' = queued
    <2>1. crons' \in [CronIds -> DataImportCron \cup {None}]
      BY <1>0, <1>2, AppliedCronsType, Zenon
    <2>2. GoldenTypes'
      <3>1. news' \subseteq {"ds", "crons"}
        BY Zenon DEF Notify, GoldenTypes
      <3> QED
        BY <1>0, <1>2, <2>1, <3>1, Zenon DEF GoldenTypes
    <2>3. References'
      BY <1>0, Zenon DEF References, NoRefs
    <2>4. Announced'
      BY <1>0, <2>2, NotifyAnnounces, Zenon
    <2>5. CASE Alarm'
      BY <1>0, <2>2, <2>3, <2>4, <2>5, Zenon DEF Planned, AppliedDs, Finished
    <2>6. CASE ~Alarm'
      <3>1. news = {} /\ crons' = crons
        BY <2>2, <2>6, QuietStep, Zenon DEF Alarm
      <3>2. ~Alarm
        BY <1>2, <2>6, <3>1, Zenon DEF Alarm
      <3>3. RightDataSources(ssp.spec) /\ plan.crons = Wanted(ssp.spec)
        BY <1>0, <3>2, Zenon DEF AppliedDs
      <3>4. RightDataSources(ssp.spec)' /\ Wanted(ssp.spec)' = Wanted(ssp.spec)
        BY <1>0, <3>3, Zenon DEF RightDataSources, Wanted, Unseen, Mine, Owned
      <3>5. seenCrons = crons
        BY <3>1, Zenon DEF Announced
      <3>6. \A c \in plan.crons : c.id \in CronIds
        BY <1>0, Zenon DEF GoldenTypes, IsPlan
      <3>7. /\ \A c \in plan.crons : Create(c) => crons[c.id] # None
            /\ \A id \in CronIds : crons[id] # None
                  /\ (id \in plan.dropCrons \/ \E c \in plan.crons : c.id = id /\ Wrong(c))
                  /\ (\A c \in plan.crons : c.id = id => ~Create(c))
                  => crons[id].deleting
        <4> DEFINE result == AppliedCrons(plan.crons, plan.dropCrons)
        <4>1. plan.crons \in SUBSET plan.crons
          BY Zenon
        <4>2. /\ \A c \in plan.crons : Create(c) => result[c.id] # None
              /\ \A id \in CronIds : crons[id] # None
                    /\ (id \in plan.dropCrons \/ \E c \in plan.crons : c.id = id /\ Wrong(c))
                    /\ (\A c \in plan.crons : c.id = id => ~Create(c))
                    => result[id].deleting
          BY <1>0, <4>1, AppliedCronsType, Zenon
        <4>3. result = crons
          BY <1>2, <3>1, Zenon
        <4> HIDE DEF result
        <4> QED
          BY <4>2, <4>3, Zenon
      <3>8. ASSUME NEW c \in plan.crons PROVE crons[c.id] # None /\ ~Create(c)
        BY <3>5, <3>7, <3>8, Zenon DEF Create
      <3>9. ASSUME NEW c \in plan.crons PROVE crons[c.id].deleting \/ crons[c.id].managed = c.managed
        <4>1. Wrong(c) => crons[c.id].deleting
          BY <3>6, <3>7, <3>8, <3>9, Zenon
        <4> QED
          BY <3>5, <3>8, <3>9, <4>1, Zenon DEF Wrong
      <3>10. ASSUME NEW id \in Existing(crons)
             PROVE  crons[id].deleting \/ \E c \in plan.crons : c.id = id /\ c.managed = crons[id].managed
        <4>1. id \in CronIds /\ crons[id] # None
          BY <3>10, Zenon DEF Existing, GoldenTypes
        <4>2. (\E c \in plan.crons : c.id = id) \/ id \in plan.dropCrons
          BY <1>0, <3>2, <3>10, Zenon DEF Planned
        <4>3. CASE \E c \in plan.crons : c.id = id
          BY <3>9, <4>3, Zenon
        <4>4. CASE id \in plan.dropCrons
          BY <3>7, <3>8, <4>1, <4>4, Zenon
        <4> QED
          BY <4>2, <4>3, <4>4, Zenon
      <3>11. RightCrons(plan.crons, crons)
        BY <3>8, <3>9, <3>10, Zenon DEF RightCrons
      <3>12. RightCrons(Wanted(ssp.spec)', crons')
        BY <3>1, <3>3, <3>4, <3>11, Zenon
      <3>13. Finished'
        BY <3>4, <3>12, Zenon DEF Finished, RightCrons, Existing
      <3> QED
        BY <1>0, <2>2, <2>3, <2>4, <3>13, Zenon DEF Planned, AppliedDs
    <2> QED
      BY <2>5, <2>6, Zenon
  <1> QED
    BY <1>0, <1>1, <1>2, Zenon

\* Nothing exists in the first state, and a reconciliation is queued.
LEMMA InitKept == Init => GoldenInv
  <1> SUFFICES ASSUME Init PROVE GoldenInv
    BY Zenon
  <1>1. GoldenTypes
    BY Zenon DEF Init, GoldenTypes
  <1>2. References
    BY Zenon DEF Init, References, NoRefs
  <1>3. Announced
    BY Zenon DEF Init, Announced
  <1>4. Alarm
    BY Zenon DEF Init, Alarm
  <1> QED
    BY <1>1, <1>2, <1>3, <1>4, Zenon DEF GoldenInv, Planned, AppliedDs, Finished

\* Every step preserves the invariant.
LEMMA StepKept == GoldenInv /\ [Next]_vars => GoldenInv'
  <1> SUFFICES ASSUME GoldenInv, [Next]_vars PROVE GoldenInv'
    BY Zenon
  <1>1. CASE UNCHANGED vars
    <2>1. UNCHANGED <<ssp, ds, crons, seen, seenCrons, news, plan, queued>>
      BY <1>1, Zenon DEF vars
    <2>2. GoldenTypes' /\ Announced' /\ References'
      BY <2>1, Zenon DEF GoldenInv, GoldenTypes, IsPlan, Announced, Mine, References, NoRefs
    <2>3. (Alarm' <=> Alarm) /\ RightDataSources(ssp.spec)' = RightDataSources(ssp.spec)
          /\ Wanted(ssp.spec)' = Wanted(ssp.spec)
      BY <2>1, Zenon DEF Alarm, RightDataSources, Wanted, Unseen, Mine, Owned
    <2>4. Planned'
      BY <2>1, Zenon DEF GoldenInv, Planned, Alarm, RightInfo, Unseen, Mine, Owned, Existing
    <2>5. AppliedDs' /\ Finished'
      BY <2>1, ZenonT(40) DEF GoldenInv, AppliedDs, Finished, Alarm, RightDataSources, RightCrons, Wanted, Unseen, Mine, Owned, Existing
    <2> QED
      BY <2>2, <2>4, <2>5, Zenon DEF GoldenInv
  <1> QED
    BY <1>1, PlanKeeps, ApplyDataSourcesKeeps, ApplyCronsKeeps, CleanupKeeps, InformersKeep, CdiKeeps,
       UsersKeep, Zenon DEF Next, Worker

-----------------------------------------------------------------------------
(* At rest *)

\* The templates of the SSP that name architectures are for the golden images
\* namespace (addDataSourceReferenceForCrons does not look at the namespace).
GoldenTemplates ==
    \A spec \in Specs : spec.multi =>
        \A i \in DOMAIN spec.crons : spec.crons[i].archs # {} => spec.crons[i].ns = "golden"

\* What a DataSource without suffix refers to is another one of the operator, or
\* one that CDI makes for a cron.
LEMMA ReferenceExists ==
    ASSUME NEW spec \in Specs, GoldenTemplates, spec.multi, NEW k \in Keys(spec), k[2] = NoArch
    PROVE  \/ <<k[1], ArchOf(spec, k[1])>> \in Keys(spec)
           \/ /\ <<k[1], ArchOf(spec, k[1])>> \notin Keys(spec)
              /\ CronsOf(CronsFor(spec), <<k[1], ArchOf(spec, k[1])>>) # {}
  <1> DEFINE ca == ClusterArchs(spec)
             n == k[1]
  <1>0. ca \in Seq(Archs) /\ Range(ca) \subseteq Archs /\ NoArch \notin Archs
    BY ClusterArchsType, ArchsAssumption DEF Range
  <1>1. n \in DeployedNames(ca) \/ n \in CustomNames(spec, ca)
    BY <1>0, Zenon DEF Keys, OwnKeys
  <1>2. CASE n \in DeployedNames(ca)
    BY <1>0, <1>2, DeployedNamesExact, Zenon DEF Keys, ArchOf
  <1>3. CASE n \notin DeployedNames(ca)
    <2> DEFINE i == CHOOSE j \in CustomCrons(spec, ca) : spec.crons[j].ds = n
               t == spec.crons[i]
               arch == cronArch(ca, t)
    <2>1. i \in CustomCrons(spec, ca) /\ t.ds = n
      <3>1. \E j \in CustomCrons(spec, ca) : spec.crons[j].ds = n
        BY <1>1, <1>3, Zenon DEF CustomNames
      <3> QED
        BY <3>1, Zenon
    <2>2. ArchOf(spec, n) = arch
      BY <1>3, Zenon DEF ArchOf, customArch
    <2> HIDE DEF i
    <2>3. i \in DOMAIN spec.crons /\ t.archs # {} /\ arch # NoArch
      BY <2>1, Zenon DEF CustomCrons
    <2>4. arch \in parseArchsAnnotation(t) \cap Range(ca)
      BY <1>0, <2>3, DefaultArchFound, Zenon DEF cronArch
    <2> DEFINE c == Cron(t.ns, t.name, arch, <<n, arch>>)
    <2>5. c \in CronsOfTemplate(spec, ca, t)
      BY <2>1, <2>3, <2>4, Zenon DEF CronsOfTemplate
    <2>6. t.ns = "golden"
      BY <2>3, Zenon DEF GoldenTemplates
    <2>7. c.id[1] = "golden" /\ c.managed = <<n, arch>>
      BY <2>6, Zenon DEF Cron
    <2>8. CronsOf(CronsFor(spec), <<n, arch>>) # {}
      <3> HIDE DEF c, t, arch
      <3>1. CronsOf(CronsFor(spec), c.managed) # {}
        BY <2>3, <2>5, <2>7, CronWins, Zenon DEF t
      <3> QED
        BY <2>7, <3>1, Zenon
    <2>9. <<n, arch>> \notin Keys(spec)
      BY <1>3, <2>3, Zenon DEF Keys, OwnKeys
    <2> QED
      BY <2>2, <2>8, <2>9, Zenon
  <1> QED
    BY <1>2, <1>3, Zenon

\* Every name of the bundle that the cluster has an architecture for is deployed.
LEMMA BundleDeployed ==
    ASSUME NEW spec \in Specs, ClusterArchs(spec) # <<>>, NEW n \in DOMAIN Sources,
           Sources[n] \cap Range(ClusterArchs(spec)) # {}
    PROVE  <<n, NoArch>> \in Keys(spec)
  <1>1. CASE spec.multi
    <2>1. n \in DeployedNames(ClusterArchs(spec))
      BY ClusterArchsType, DeployedNamesExact, Zenon
    <2> QED
      BY <1>1, <2>1, Zenon DEF Keys
  <1>2. CASE ~spec.multi
    <2>1. ClusterArchs(spec)[1] \in Sources[n]
      BY <1>2, ClusterArchsType, Zenon
    <2> QED
      BY <1>2, <2>1, Zenon DEF Keys
  <1> QED
    BY <1>1, <1>2, Zenon

\* When everybody rests on what a finished Reconcile made, it is consistent.
LEMMA FinishedIsConsistent ==
    ASSUME GoldenTypes, References, Finished, GoldenTemplates
    PROVE  GoldenImagesConsistent
  <1> SUFFICES ASSUME AtRest, ClusterArchs(ssp.spec) # <<>>
               PROVE  /\ \A k \in Owned(ds) :
                           /\ Managers(k) = IF ds[k].label = None THEN {} ELSE {ds[k].label}
                           /\ ds[k].label = None =>
                                 \/ ds[k].source[1] = "pvc" /\ ds[k].source[2] \in {k, <<k[1], NoArch>>}
                                 \/ ds[k].source[1] = "ref" /\ ds[ds[k].source[2]] # None
                           /\ k[2] # NoArch => ssp.spec.multi /\ k[2] \in Range(ClusterArchs(ssp.spec))
                      /\ \A n \in DOMAIN Sources :
                           Sources[n] \cap Range(ClusterArchs(ssp.spec)) # {} => <<n, NoArch>> \in Owned(ds)
    BY Zenon DEF GoldenImagesConsistent
  <1> DEFINE spec == ssp.spec
             cbd == CronsFor(spec)
  <1>0. spec \in Specs /\ ~ssp.deleting /\ plan = None /\ ~queued /\ news = {}
    BY Zenon DEF GoldenTypes, AtRest
  <1>1. /\ RightDataSources(spec)
        /\ \A id \in Existing(crons) :
              \/ crons[id].deleting
              \/ \E c \in Wanted(spec) : c.id = id /\ c.managed = crons[id].managed
        /\ \A c \in Wanted(spec) :
              crons[c.id] # None /\ (crons[c.id].deleting \/ crons[c.id].managed = c.managed)
    BY <1>0, Zenon DEF Finished, RightCrons, Alarm
  <1>2. \A id \in Existing(crons) : ~crons[id].deleting
    BY Zenon DEF AtRest
  <1>3. \A c \in Wanted(spec) : c.id \in Existing(crons) /\ crons[c.id].managed = c.managed
    <2>1. \A c \in Wanted(spec) : c.id \in DOMAIN crons
      BY <1>0, CronsType, Zenon DEF Wanted, GoldenTypes
    <2> QED
      BY <1>1, <1>2, <2>1, Zenon DEF Existing
  <1>4. Owned(ds) = Keys(spec)
    BY <1>1, Zenon DEF RightDataSources
  <1>5. ASSUME NEW k \in Keys(spec), ds[k].label = None PROVE Managers(k) = {}
    <2> SUFFICES ASSUME NEW id \in Managers(k) PROVE FALSE
      BY Zenon
    <2>1. id \in Existing(crons) /\ id[1] = "golden" /\ crons[id].managed = k
      BY Zenon DEF Managers
    <2>2. PICK c \in Wanted(spec) : c.id = id /\ c.managed = k
      BY <1>1, <1>2, <2>1, Zenon
    <2> QED
      BY <1>5, <2>1, <2>2, Zenon DEF Wanted
  <1>6. ASSUME NEW k \in Keys(spec), ds[k].label # None PROVE Managers(k) = {ds[k].label}
    <2>1. CronsOf(cbd, k) # {} /\ ds[k].label = dicName(cbd, k)
      BY <1>1, <1>6, Zenon DEF RightDataSources
    <2>2. PICK c \in CronsOf(cbd, k) : ds[k].label = c.id
      BY <1>0, <2>1, DicNameType, Zenon
    <2>3. c \in cbd /\ c.managed = k /\ c.id[1] = "golden"
      BY <2>2, Zenon DEF CronsOf
    <2>4. c \in Wanted(spec)
      BY <1>6, <2>3, Zenon DEF Wanted
    <2>5. ds[k].label \in Managers(k)
      BY <1>3, <2>2, <2>3, <2>4, Zenon DEF Managers
    <2>6. ASSUME NEW id \in Managers(k) PROVE id = ds[k].label
      <3>1. id \in Existing(crons) /\ id[1] = "golden" /\ crons[id].managed = k
        BY <2>6, Zenon DEF Managers
      <3>2. PICK d \in Wanted(spec) : d.id = id /\ d.managed = k
        BY <1>1, <1>2, <3>1, Zenon
      <3>3. d \in CronsOf(cbd, k)
        BY <3>1, <3>2, Zenon DEF CronsOf, Wanted
      <3>4. c = d
        BY <1>0, <2>2, <3>3, CronUnique, ZenonT(40)
      <3> QED
        BY <2>2, <3>2, <3>4, Zenon
    <2> QED
      BY <2>5, <2>6, Zenon
  <1>7. ASSUME NEW k \in Keys(spec), ds[k].label = None
        PROVE  \/ ds[k].source[1] = "pvc" /\ ds[k].source[2] \in {k, <<k[1], NoArch>>}
               \/ ds[k].source[1] = "ref" /\ ds[ds[k].source[2]] # None
    <2>1. k \in DsNames /\ ds[k] # None /\ Mine(ds[k])
      BY <1>0, <1>4, <1>7, KeysType, Zenon DEF Owned, Mine
    <2>2. ~Unseen(k, ds)
      <3>1. ds[k].ready = ReadyStatus(k)
        BY <2>1, Zenon DEF AtRest
      <3>2. k[2] # NoArch => ds[k].source[1] # "ref"
        BY <2>1, Zenon DEF References, NoRefs, IsRef
      <3>3. k[2] # NoArch => ReadyStatus(k) \in {"true", "false"}
        BY <3>2, Zenon DEF ReadyStatus
      <3> QED
        BY <2>1, <3>1, <3>3, Zenon DEF Unseen
    <2>3. RightSource(spec, k, ds[k].source)
      BY <1>1, <1>7, <2>2, Zenon DEF RightDataSources
    <2>4. CASE ds[k].source \in {<<"pvc", k>>, <<"pvc", <<k[1], NoArch>>>>}
      BY <2>4
    <2>5. CASE /\ spec.multi /\ k[2] = NoArch
               /\ ds[k].source = <<"ref", <<k[1], ArchOf(spec, k[1])>>>>
      <3> DEFINE r == <<k[1], ArchOf(spec, k[1])>>
      <3>1. CASE r \in Keys(spec)
        <4>1. ds[r] # None
          BY <1>4, <3>1, Zenon DEF Owned
        <4> QED
          BY <2>5, <4>1
      <3>2. CASE r \notin Keys(spec) /\ CronsOf(cbd, r) # {}
        <4>1. PICK c \in cbd : c.managed = r /\ c.id[1] = "golden"
          BY <3>2, Zenon DEF CronsOf
        <4>2. c \in Wanted(spec)
          BY <3>2, <4>1, Zenon DEF Wanted
        <4>3. c.id \in Existing(crons) /\ crons[c.id].managed = r
          BY <1>3, <4>1, <4>2, Zenon
        <4>4. ds[r] # None
          BY <4>1, <4>3, Zenon DEF AtRest
        <4> QED
          BY <2>5, <4>4
      <3> QED
        BY <1>0, <2>5, <3>1, <3>2, ReferenceExists, Zenon
    <2> QED
      BY <2>3, <2>4, <2>5, Zenon DEF RightSource
  <1>8. \A n \in DOMAIN Sources :
           Sources[n] \cap Range(ClusterArchs(spec)) # {} => <<n, NoArch>> \in Owned(ds)
    BY <1>0, <1>4, BundleDeployed, Zenon
  <1>9. \A k \in Keys(spec) : k[2] # NoArch => spec.multi /\ k[2] \in Range(ClusterArchs(spec))
    BY <1>0, KeysType, Zenon
  <1> HIDE DEF spec
  <1> QED
    BY <1>4, <1>5, <1>6, <1>7, <1>8, <1>9, Zenon DEF spec

\* Reconcile leaves golden images that are consistent when nobody has anything
\* left to do.
THEOREM GoldenImagesAreConsistent == ASSUME GoldenTemplates PROVE Spec => []GoldenImagesConsistent
  <1>1. GoldenInv => GoldenImagesConsistent
    BY FinishedIsConsistent, Zenon DEF GoldenInv
  <1> QED
    BY <1>1, InitKept, StepKept, PTL DEF Spec
=============================================================================
