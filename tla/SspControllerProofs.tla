------------------------ MODULE SspControllerProofs ------------------------
(***************************************************************************)
(* SspController, for any number of operands, any specs and any number of  *)
(* user actions, faults and restarts: the type invariant, that the         *)
(* finalizer protects the operands' resources, that ObservedGeneration is  *)
(* exact, and that the controller implements FinalizerProtocol.            *)
(***************************************************************************)
EXTENDS SspController, TLAPS

\* The versions of the SSP that are stored, on their way, or cached.
Known == {ssp, cache} \cup {stream[i] : i \in 1..Len(stream)}

Own(v) == v # NoSsp /\ hasFinalizer(v)
Guarded(v) == Own(v) /\ ~v.deleting
Deleting(v) == v # NoSsp /\ v.deleting

\* An SSP that Reconcile takes for initialized carries a finalizer.
InitializedIsOwn(v) == v # NoSsp /\ ~v.deleting /\ v.phase # "Empty" => hasFinalizer(v)

\* The informer's stream ends in the stored version.
Latest ==
    /\ stream = <<>> => cache = ssp
    /\ stream # <<>> => ssp = stream[Len(stream)]

\* No version that is still to be seen, and that would make Reconcile deploy, is
\* of an SSP that has lost its finalizer.
ServerInv ==
    /\ Latest
    /\ \A v \in Known : InitializedIsOwn(v)
    /\ \A v \in Known : Guarded(v) => Own(ssp)

Active == Calls \ {"idle"}
Deploying == {"setSspResourceDeploying", "pause", "updateStatusMissingCrds",
              "preUpdateStatus", "reconcileOperands", "handleError"}

\* What the worker's copy of the SSP tells about the stored one.
SameMeta(v, w) == v.fin = w.fin /\ v.deleting = w.deleting /\ v.gen = w.gen
UpToDate ==
    /\ ssp # NoSsp
    /\ SameMeta(inst, ssp)
    /\ inst.obs \in {ssp.obs, ssp.gen}

WorkerInv ==
    /\ pc \in Active => inst \in SspObject
    /\ pc \in Deploying => hasFinalizer(inst)
    /\ pc \in {"cleanup", "cleanupOperands"} => hasFinalizer(inst)
    /\ pc \in {"cleanup", "cleanupOperands", "setDeleted"} => inst.deleting
    /\ pc \in Active /\ fresh => UpToDate
    /\ pc \in {"preUpdateStatus", "reconcileOperands"} => Own(ssp)
    /\ pc = "cleanup" => idx = 1

\* A cleanup works on an SSP all of whose known versions are being deleted.
CleanupInv ==
    pc = "cleanupOperands" \/ (pc = "cleanup" /\ fresh) =>
        Own(ssp) /\ \A v \in Known : Deleting(v)

\* The resources of the operands cleaned up so far are gone, if the reads of the
\* cleanup are up to date.
ResourceInv ==
    /\ \A o \in Operands : ev[o] = "none" => seen[o] = res[o]
    /\ ~LaggingRes /\ pc = "cleanupOperands" /\ allDone =>
          \A o \in Operands : o < idx => res[o].st = "absent"
    /\ ~LaggingRes => OperandsProtected

IInv == TypeOK /\ ServerInv /\ WorkerInv /\ CleanupInv /\ ResourceInv

-----------------------------------------------------------------------------
(* Writes to the API server *)

\* The server removes an object only if it is being deleted and has no finalizer.
LEMMA KeptLemma ==
    ASSUME NEW new \in SspObject
    PROVE  /\ Kept(new) \in SspObject \cup {NoSsp}
           /\ hasFinalizer(new) => Kept(new) = new
           /\ Kept(new) # NoSsp => Kept(new) = new
           /\ ~new.deleting => Kept(new) = new
  BY ConstantsAssumption, Zenon DEF Kept, hasFinalizer, OwnFinalizers

\* A write adds at most one version, the one it stores.
LEMMA StoreLemma ==
    ASSUME TypeOK, NEW new \in SspObject, NEW heartbeat \in BOOLEAN,
           Store(new, heartbeat), cache' = cache, Latest
    PROVE  /\ ssp' = Kept(new)
           /\ ssp' \in SspObject \cup {NoSsp}
           /\ stream' \in Seq(SspObject \cup {NoSsp})
           /\ Latest'
           /\ Known' \subseteq Known \cup {ssp'}
           /\ stream' = stream => ssp' = ssp
  <1>1. ssp' = Kept(new) /\ Kept(new) \in SspObject \cup {NoSsp}
    BY KeptLemma, Zenon DEF Store
  <1>2. CASE stream' = Append(stream, Kept(new))
    <2> DEFINE V == SspObject \cup {NoSsp}
    <2> HIDE DEF V
    <2>1. stream \in Seq(V) /\ Kept(new) \in V
      BY <1>1, Zenon DEF TypeOK, V
    <2>2. /\ stream' \in Seq(V) /\ Len(stream') = Len(stream) + 1 /\ Len(stream) \in Nat
          /\ stream' # <<>> /\ stream' # stream
          /\ stream'[Len(stream')] = Kept(new)
          /\ \A i \in 1..Len(stream) : stream'[i] = stream[i]
      BY <1>2, <2>1
    <2>3. \A i \in 1..Len(stream') : i \in 1..Len(stream) \/ i = Len(stream')
      BY <2>2
    <2>4. Known' \subseteq Known \cup {ssp'}
      BY <1>1, <2>2, <2>3, Zenon DEF Known
    <2> QED
      BY <1>1, <2>2, <2>4, Zenon DEF V, Latest
  <1>3. CASE stream' = stream /\ Kept(new) = ssp
    BY <1>1, <1>3, Zenon DEF TypeOK, Latest, Known
  <1> QED
    BY <1>2, <1>3, Zenon DEF Store

\* A write that keeps the finalizer, or that nobody who might deploy can miss,
\* preserves what is known of the versions.
LEMMA StoreInvLemma ==
    ASSUME TypeOK, NEW new \in SspObject, NEW heartbeat \in BOOLEAN,
           Store(new, heartbeat), cache' = cache, ServerInv,
           InitializedIsOwn(new),
           Own(ssp) => hasFinalizer(new) \/ \A v \in Known : ~Guarded(v)
    PROVE  ServerInv'
  <1>1. /\ ssp' = Kept(new) /\ Latest' /\ Known' \subseteq Known \cup {ssp'}
    BY StoreLemma, Zenon DEF ServerInv
  <1>2. ssp' = NoSsp \/ ssp' = new
    BY <1>1, KeptLemma, Zenon
  <1>3. ASSUME NEW v \in Known' PROVE InitializedIsOwn(v)
    BY <1>1, <1>2, <1>3 DEF ServerInv, InitializedIsOwn
  <1>4. ASSUME NEW v \in Known', Guarded(v) PROVE Own(ssp')
    <2>1. CASE v = ssp'
      BY <1>4, <2>1, Zenon DEF Guarded
    <2>2. CASE v \in Known
      <3>1. Own(ssp) /\ hasFinalizer(new)
        BY <1>4, <2>2, Zenon DEF ServerInv
      <3> QED
        BY <1>1, <3>1, KeptLemma, ConstantsAssumption, Zenon DEF Own
    <2> QED
      BY <1>1, <2>1, <2>2, Zenon
  <1> QED
    BY <1>1, <1>3, <1>4, Zenon DEF ServerInv, InitializedIsOwn, Guarded, Own, hasFinalizer

\* The outcomes of a write of the worker: carried out, or not, with the worker's
\* copy up to date afterwards whenever it counts as fresh.
LEMMA WriteLemma ==
    ASSUME TypeOK, ServerInv, pc \in Active /\ fresh => UpToDate, pc \in Active,
           NEW new \in SspObject, NEW heartbeat \in BOOLEAN, NEW ok, NEW fail,
           Write(new, heartbeat, ok, fail),
           InitializedIsOwn(new),
           fresh /\ Own(ssp) => hasFinalizer(new) \/ \A v \in Known : ~Guarded(v),
           new.obs \in {inst.obs, inst.gen}, new.gen = inst.gen
    PROVE  /\ ssp' \in SspObject \cup {NoSsp}
           /\ stream' \in Seq(SspObject \cup {NoSsp})
           /\ cache' = cache /\ inst' = new
           /\ fresh' \in BOOLEAN /\ faults' \in Nat
           /\ pc' \in {ok, fail.conflict, fail.notFound, fail.error}
           /\ ServerInv'
           /\ Known' \subseteq Known \cup {ssp'}
           /\ ssp' = ssp \/ (fresh /\ ssp' = Kept(new))
           /\ pc' \notin {fail.conflict, fail.notFound, fail.error}
                 => fresh /\ ssp' = Kept(new)
           /\ fresh' => fresh
           /\ fresh' /\ (SameMeta(new, inst)
                         \/ pc' \notin {fail.conflict, fail.notFound, fail.error})
                 => UpToDate'
           /\ ssp # NoSsp /\ ssp' # NoSsp /\ ssp'.obs # ssp.obs => ssp'.obs = ssp.gen
  <1> DEFINE V == SspObject \cup {NoSsp}
  <1>0. ssp \in V /\ stream \in Seq(V) /\ fresh \in BOOLEAN /\ faults \in Nat
        /\ cache' = cache /\ inst' = new
    BY Zenon DEF TypeOK, Write
  <1>1. CASE fresh /\ Store(new, heartbeat)
             /\ \/ fresh' = (ssp' # NoSsp) /\ pc' = ok /\ UNCHANGED faults
                \/ /\ faults > 0 /\ faults' = faults - 1 /\ pc' = fail.error
                   /\ fresh' = (stream' = stream)
    <2>1. /\ ssp' = Kept(new) /\ ssp' \in V /\ stream' \in Seq(V)
          /\ Known' \subseteq Known \cup {ssp'} /\ (stream' = stream => ssp' = ssp)
      BY <1>0, <1>1, StoreLemma, Zenon DEF ServerInv
    <2>2. ServerInv'
      BY <1>0, <1>1, StoreInvLemma, Zenon
    <2>3. UpToDate
      BY <1>1, Zenon
    <2>4. fresh' => ssp' # NoSsp
      BY <1>1, <2>1, <2>3, Zenon DEF UpToDate
    <2>5. ssp' # NoSsp => ssp' = new
      BY <2>1, KeptLemma, Zenon
    <2>6. fresh' => UpToDate'
      BY <1>0, <2>4, <2>5, Zenon DEF UpToDate, SameMeta
    <2>7. ssp' # NoSsp /\ ssp'.obs # ssp.obs => ssp'.obs = ssp.gen
      BY <2>3, <2>5, Zenon DEF UpToDate, SameMeta
    <2>8. fresh' \in BOOLEAN
      BY <1>1, Zenon
    <2>9. faults' \in Nat
      BY <1>0, <1>1
    <2> QED
      BY <1>0, <1>1, <2>1, <2>2, <2>6, <2>7, <2>8, <2>9, Zenon
  <1>2. CASE UNCHANGED <<ssp, stream, fresh>> /\ faults' \in Nat
             /\ pc' \in {fail.conflict, fail.notFound, fail.error}
    <2>1. Known' = Known
      BY <1>0, <1>2, Zenon DEF Known
    <2>2. ServerInv'
      BY <1>0, <1>2, <2>1, Zenon DEF ServerInv, Latest
    <2>3. fresh /\ SameMeta(new, inst) => UpToDate'
      BY <1>0, <1>2, Zenon DEF UpToDate, SameMeta
    <2> QED
      BY <1>0, <1>2, <2>1, <2>2, <2>3, Zenon
  <1>3. (faults > 0 => faults - 1 \in Nat) /\ faults \in Nat
    BY <1>0
  <1> QED
    BY <1>1, <1>2, <1>3, Zenon DEF Write

\* The invariant after a write that leaves operands and loop variables alone: only
\* what depends on where Reconcile goes next remains to be shown.
LEMMA WriteStepLemma ==
    ASSUME IInv, pc \in Active,
           NEW new \in SspObject, NEW heartbeat \in BOOLEAN, NEW ok \in Calls \cup Returns,
           NEW fail \in [conflict : Returns \cup {"handleError"},
                         notFound : Returns \cup {"handleError"},
                         error : Returns \cup {"handleError"}],
           Write(new, heartbeat, ok, fail), OnlySsp, succeeded' \in BOOLEAN,
           InitializedIsOwn(new),
           hasFinalizer(new) \/ ~fresh \/ ~Own(ssp)
               \/ /\ \A v \in Known : Deleting(v)
                  /\ ~LaggingRes => \A o \in Operands : res[o].st = "absent",
           new.obs \in {inst.obs, inst.gen}, new.gen = inst.gen
    PROVE  /\ TypeOK' /\ ServerInv'
           /\ \A o \in Operands : (ev[o] = "none" => seen[o] = res[o])'
           /\ ~LaggingRes => OperandsProtected'
           /\ Own(ssp) /\ hasFinalizer(new) => Own(ssp')
           /\ Known' \subseteq Known \cup {ssp'}
           /\ inst' = new /\ idx' = idx
           /\ pc' \in {ok, fail.conflict, fail.notFound, fail.error}
           /\ pc' \notin {fail.conflict, fail.notFound, fail.error}
                 => fresh /\ ssp' = Kept(new)
           /\ fresh' /\ (SameMeta(new, inst)
                         \/ pc' \notin {fail.conflict, fail.notFound, fail.error})
                 => UpToDate'
           /\ ssp # NoSsp /\ ssp' # NoSsp /\ ssp'.obs # ssp.obs => ssp'.obs = ssp.gen
  <1>1. fresh /\ Own(ssp) => hasFinalizer(new) \/ \A v \in Known : ~Guarded(v)
    BY Zenon DEF Deleting, Guarded
  <1>2. TypeOK /\ ServerInv /\ (pc \in Active /\ fresh => UpToDate)
    BY Zenon DEF IInv, WorkerInv
  <1>3. /\ ssp' \in SspObject \cup {NoSsp}
        /\ stream' \in Seq(SspObject \cup {NoSsp})
        /\ cache' = cache /\ inst' = new
        /\ fresh' \in BOOLEAN /\ faults' \in Nat
        /\ pc' \in {ok, fail.conflict, fail.notFound, fail.error}
        /\ ServerInv'
        /\ Known' \subseteq Known \cup {ssp'}
        /\ ssp' = ssp \/ (fresh /\ ssp' = Kept(new))
        /\ pc' \notin {fail.conflict, fail.notFound, fail.error}
              => fresh /\ ssp' = Kept(new)
        /\ fresh' /\ (SameMeta(new, inst)
                      \/ pc' \notin {fail.conflict, fail.notFound, fail.error})
              => UpToDate'
        /\ ssp # NoSsp /\ ssp' # NoSsp /\ ssp'.obs # ssp.obs => ssp'.obs = ssp.gen
    BY <1>1, <1>2, WriteLemma, Zenon
  <1>4. pc' \in Calls \cup Returns
    BY <1>3, Zenon DEF Calls
  <1>5. TypeOK'
    BY <1>2, <1>3, <1>4, Zenon DEF TypeOK, OnlySsp, operandVars, memory
  <1>6. Own(ssp) /\ hasFinalizer(new) => Own(ssp')
    BY <1>3, KeptLemma, ConstantsAssumption, Zenon DEF Own
  <1>7. ASSUME ~LaggingRes PROVE OperandsProtected'
    <2>1. OperandsProtected
      BY <1>7, Zenon DEF IInv, ResourceInv
    <2>2. CASE ssp' = ssp
      BY <2>1, <2>2, Zenon DEF OperandsProtected, OnlySsp, operandVars
    <2>3. CASE hasFinalizer(new)
      BY <1>6, <2>1, <2>3, Zenon DEF OperandsProtected, OnlySsp, operandVars, Own
    <2>4. CASE ~Own(ssp) \/ \A o \in Operands : res[o].st = "absent"
      BY <2>1, <2>4, Zenon DEF Own, OperandsProtected, OnlySsp, operandVars
    <2> QED
      BY <1>3, <1>7, <2>2, <2>3, <2>4, Zenon
  <1>8. \A o \in Operands : (ev[o] = "none" => seen[o] = res[o])'
    BY Zenon DEF IInv, ResourceInv, OnlySsp, operandVars
  <1> QED
    BY <1>3, <1>5, <1>6, <1>7, <1>8, Zenon DEF OnlySsp

-----------------------------------------------------------------------------
(* The writes of Reconcile preserve the invariant *)

\* What remains of the invariant once Reconcile is about to return.
LEMMA ReturnsLemma ==
    ASSUME pc' \in Returns, TypeOK', ServerInv',
           \A o \in Operands : (ev[o] = "none" => seen[o] = res[o])',
           ~LaggingRes => OperandsProtected'
    PROVE  IInv'
  BY Zenon DEF IInv, WorkerInv, CleanupInv, ResourceInv, Returns, Active, Calls, Deploying

\* By default, every failed write makes Reconcile return an error.
LEMMA FailedLemma ==
    /\ Failed \in [conflict : Returns \cup {"handleError"},
                   notFound : Returns \cup {"handleError"},
                   error : Returns \cup {"handleError"}]
    /\ Failed.conflict = "returnErr" /\ Failed.notFound = "returnErr"
    /\ Failed.error = "returnErr"
  BY Zenon DEF Failed, Returns

\* initialize and updateSsp preserve the invariant: they only add a finalizer.
LEMMA UpdateSspResourceLemma == ASSUME IInv, UpdateSspResource PROVE IInv'
  <1> DEFINE kept == IF isInitialized(inst) THEN inst.fin \ {"old"} ELSE inst.fin
             new == [inst EXCEPT !.fin = kept \cup {"new"}]
  <1>1. pc \in Active /\ inst \in SspObject
    BY Zenon DEF UpdateSspResource, IInv, WorkerInv, Active, Calls
  <1>2. /\ new \in SspObject /\ hasFinalizer(new) /\ InitializedIsOwn(new)
        /\ new.obs = inst.obs /\ new.gen = inst.gen
    BY <1>1, Zenon DEF SspObject, hasFinalizer, OwnFinalizers, Finalizers, InitializedIsOwn
  <1>3. OnlySsp /\ succeeded' \in BOOLEAN
    BY Zenon DEF UpdateSspResource, IInv, TypeOK
  <1>4. CASE UNCHANGED <<server, fresh, faults>> /\ pc' = "returnErr" /\ inst' = new
    <2>1. TypeOK'
      BY <1>2, <1>3, <1>4, Zenon DEF IInv, TypeOK, server, OnlySsp, operandVars, memory, Returns
    <2>2. ServerInv'
      BY <1>4, Zenon DEF IInv, ServerInv, Known, Latest, server
    <2>3. ~LaggingRes => OperandsProtected'
      BY <1>3, <1>4, Zenon DEF IInv, ResourceInv, OperandsProtected, OnlySsp, operandVars, server
    <2>4. \A o \in Operands : (ev[o] = "none" => seen[o] = res[o])'
      BY <1>3, Zenon DEF IInv, ResourceInv, OnlySsp, operandVars
    <2> QED
      BY <1>4, <2>1, <2>2, <2>3, <2>4, ReturnsLemma, Zenon DEF Returns
  <1>5. CASE Write(new, FALSE, "setSspResourceDeploying", Failed)
    <2> HIDE DEF new
    <2>0. "setSspResourceDeploying" \in Calls \cup Returns
      BY Zenon DEF Calls
    <2>1. /\ TypeOK' /\ ServerInv'
          /\ \A o \in Operands : (ev[o] = "none" => seen[o] = res[o])'
          /\ ~LaggingRes => OperandsProtected'
          /\ inst' = new
          /\ pc' \in {"setSspResourceDeploying", "returnErr"}
          /\ fresh' /\ pc' # "returnErr" => UpToDate'
      BY <1>1, <1>2, <1>3, <1>5, <2>0, WriteStepLemma, FailedLemma, ZenonT(40)
    <2>2. CASE pc' = "returnErr"
      BY <2>1, <2>2, ReturnsLemma, Zenon DEF Returns
    <2>3. CASE pc' = "setSspResourceDeploying"
      BY <1>2, <2>1, <2>3, Zenon DEF IInv, WorkerInv, CleanupInv, ResourceInv, Active
    <2> QED
      BY <2>1, <2>2, <2>3, Zenon
  <1> QED
    BY <1>4, <1>5, Zenon DEF UpdateSspResource

\* The status updates after which Reconcile returns.
LEMMA FinalStatusLemma ==
    ASSUME IInv, pc \in Deploying \cup {"setDeleted"},
           NEW new \in SspObject, NEW heartbeat \in BOOLEAN, NEW ok \in Returns,
           NEW fail \in [conflict : Returns, notFound : Returns, error : Returns],
           Write(new, heartbeat, ok, fail), OnlySsp, succeeded' \in BOOLEAN,
           SameMeta(new, inst), new.obs \in {inst.obs, inst.gen}
    PROVE  IInv'
  <1>1. pc \in Active /\ inst \in SspObject
    BY Zenon DEF IInv, WorkerInv, Active, Calls, Deploying
  <1>2. pc \in Deploying => hasFinalizer(new)
    BY Zenon DEF IInv, WorkerInv, SameMeta, hasFinalizer
  <1>3. pc = "setDeleted" => new.deleting
    BY Zenon DEF IInv, WorkerInv, SameMeta
  <1>4. InitializedIsOwn(new)
    BY <1>2, <1>3, Zenon DEF InitializedIsOwn
  <1>5. hasFinalizer(new) \/ ~fresh \/ ~Own(ssp)
    BY <1>1, <1>2, Zenon DEF IInv, WorkerInv, UpToDate, SameMeta, Own, hasFinalizer
  <1>6. /\ ok \in Calls \cup Returns
        /\ fail \in [conflict : Returns \cup {"handleError"},
                     notFound : Returns \cup {"handleError"},
                     error : Returns \cup {"handleError"}]
        /\ {ok, fail.conflict, fail.notFound, fail.error} \subseteq Returns
    BY Zenon
  <1>7. new.gen = inst.gen
    BY Zenon DEF SameMeta
  <1>8. /\ TypeOK' /\ ServerInv'
        /\ \A o \in Operands : (ev[o] = "none" => seen[o] = res[o])'
        /\ ~LaggingRes => OperandsProtected'
        /\ pc' \in {ok, fail.conflict, fail.notFound, fail.error}
    BY <1>1, <1>4, <1>5, <1>6, <1>7, WriteStepLemma, Zenon
  <1> QED
    BY <1>6, <1>8, ReturnsLemma, Zenon

\* The status writes after which Reconcile returns, whatever their outcome.
LEMMA FinalStatusActionsLemma ==
    ASSUME IInv,
           \/ SetSspResourceDeploying \/ Pause \/ UpdateStatusMissingCrds
           \/ HandleError \/ UpdateStatus \/ SetDeleted
    PROVE  IInv'
  <1> DEFINE fails == [conflict : Returns, notFound : Returns, error : Returns]
             ignored == [Failed EXCEPT !.conflict = "returnClear", !.notFound = "returnClear"]
  <1>0. /\ Failed \in fails /\ ignored \in fails
        /\ {"return", "returnErr", "returnClear"} \subseteq Returns
    BY Zenon DEF Failed, Returns
  <1>00. allDone \in BOOLEAN
    BY Zenon DEF IInv, TypeOK
  <1> HIDE DEF ignored
  <1>1. CASE SetSspResourceDeploying
    <2> DEFINE new == [inst EXCEPT !.phase = "Deploying", !.obs = inst.gen]
    <2>1. pc \in Deploying \cup {"setDeleted"} /\ inst \in SspObject
      BY <1>1, Zenon DEF SetSspResourceDeploying, Deploying, IInv, WorkerInv, Active, Calls
    <2>2. /\ new \in SspObject /\ SameMeta(new, inst)
          /\ new.obs \in {inst.obs, inst.gen}
      BY <2>1, Zenon DEF SspObject, SameMeta, Phases
    <2>3. Write(new, FALSE, "return", Failed) /\ OnlySsp /\ succeeded' \in BOOLEAN
      BY <1>1, Zenon DEF SetSspResourceDeploying, IInv, TypeOK
    <2> HIDE DEF new
    <2> QED
      BY <1>0, <2>1, <2>2, <2>3, FinalStatusLemma, Zenon
  <1>2. CASE Pause
    <2> DEFINE new == [inst EXCEPT !.paused = TRUE]
    <2>1. pc \in Deploying \cup {"setDeleted"} /\ inst \in SspObject
      BY <1>2, Zenon DEF Pause, Deploying, IInv, WorkerInv, Active, Calls
    <2>2. /\ new \in SspObject /\ SameMeta(new, inst)
          /\ new.obs \in {inst.obs, inst.gen}
      BY <2>1, Zenon DEF SspObject, SameMeta, Phases
    <2>3. Write(new, FALSE, "return", Failed) /\ OnlySsp /\ succeeded' \in BOOLEAN
      BY <1>2, Zenon DEF Pause, IInv, TypeOK
    <2> HIDE DEF new
    <2> QED
      BY <1>0, <2>1, <2>2, <2>3, FinalStatusLemma, Zenon
  <1>3. CASE UpdateStatusMissingCrds
    <2> DEFINE new == [inst EXCEPT !.good = FALSE]
    <2>1. pc \in Deploying \cup {"setDeleted"} /\ inst \in SspObject
      BY <1>3, Zenon DEF UpdateStatusMissingCrds, Deploying, IInv, WorkerInv, Active, Calls
    <2>2. /\ new \in SspObject /\ SameMeta(new, inst)
          /\ new.obs \in {inst.obs, inst.gen}
      BY <2>1, Zenon DEF SspObject, SameMeta, Phases
    <2>3. Write(new, TRUE, "return", Failed) /\ OnlySsp /\ succeeded' \in BOOLEAN
      BY <1>3, Zenon DEF UpdateStatusMissingCrds, IInv, TypeOK
    <2> HIDE DEF new
    <2> QED
      BY <1>0, <2>1, <2>2, <2>3, FinalStatusLemma, Zenon
  <1>4. CASE HandleError
    <2> DEFINE new == [inst EXCEPT !.phase = "Deploying", !.good = FALSE]
    <2>1. pc \in Deploying \cup {"setDeleted"} /\ inst \in SspObject
      BY <1>4, Zenon DEF HandleError, Deploying, IInv, WorkerInv, Active, Calls
    <2>2. /\ new \in SspObject /\ SameMeta(new, inst)
          /\ new.obs \in {inst.obs, inst.gen}
      BY <2>1, Zenon DEF SspObject, SameMeta, Phases
    <2>3. Write(new, TRUE, "returnErr", Failed) /\ OnlySsp /\ succeeded' \in BOOLEAN
      BY <1>4, Zenon DEF HandleError, IInv, TypeOK
    <2> HIDE DEF new
    <2> QED
      BY <1>0, <2>1, <2>2, <2>3, FinalStatusLemma, Zenon
  <1>5. CASE UpdateStatus
    <2> DEFINE new == [inst EXCEPT !.phase = IF allDone THEN "Deployed" ELSE "Deploying",
                               !.obs = inst.gen, !.paused = FALSE, !.good = allDone]
    <2>1. pc \in Deploying \cup {"setDeleted"} /\ inst \in SspObject
      BY <1>5, Zenon DEF UpdateStatus, Deploying, IInv, WorkerInv, Active, Calls
    <2>2. /\ new \in SspObject /\ SameMeta(new, inst)
          /\ new.obs \in {inst.obs, inst.gen}
      BY <2>1, <1>00, Zenon DEF SspObject, SameMeta, Phases
    <2>3. Write(new, TRUE, "return", Failed) /\ OnlySsp /\ succeeded' \in BOOLEAN
      BY <1>5, <1>00, Zenon DEF UpdateStatus, IInv, TypeOK
    <2> HIDE DEF new
    <2> QED
      BY <1>0, <2>1, <2>2, <2>3, FinalStatusLemma, Zenon
  <1>6. CASE SetDeleted
    <2> DEFINE new == [inst EXCEPT !.phase = "Deleted", !.obs = inst.gen]
    <2>1. pc \in Deploying \cup {"setDeleted"} /\ inst \in SspObject
      BY <1>6, Zenon DEF SetDeleted, Deploying, IInv, WorkerInv, Active, Calls
    <2>2. /\ new \in SspObject /\ SameMeta(new, inst)
          /\ new.obs \in {inst.obs, inst.gen}
      BY <2>1, Zenon DEF SspObject, SameMeta, Phases
    <2>3. Write(new, FALSE, "returnClear", ignored) /\ OnlySsp /\ succeeded' \in BOOLEAN
      BY <1>6, Zenon DEF SetDeleted, IInv, TypeOK, ignored
    <2> HIDE DEF new
    <2> QED
      BY <1>0, <2>1, <2>2, <2>3, FinalStatusLemma, Zenon
  <1> QED
    BY <1>1, <1>2, <1>3, <1>4, <1>5, <1>6, Zenon

\* preUpdateStatus: once it has succeeded, the stored SSP carries a finalizer.
LEMMA PreUpdateStatusLemma == ASSUME IInv, PreUpdateStatus PROVE IInv'
  <1> DEFINE new == [inst EXCEPT !.phase = "Deploying", !.obs = inst.gen, !.paused = FALSE,
                                 !.good = FALSE]
             fail == [conflict |-> "requeue", notFound |-> "handleError",
                      error |-> "handleError"]
  <1>1. /\ pc = "preUpdateStatus" /\ pc \in Active /\ inst \in SspObject
        /\ hasFinalizer(inst) /\ Own(ssp)
    BY Zenon DEF PreUpdateStatus, IInv, WorkerInv, Active, Calls, Deploying
  <1>2. /\ new \in SspObject /\ SameMeta(new, inst) /\ new.obs = inst.gen
        /\ new.gen = inst.gen
    BY <1>1, Zenon DEF SspObject, SameMeta, Phases
  <1>3. hasFinalizer(new) /\ InitializedIsOwn(new)
    BY <1>1, <1>2, Zenon DEF SameMeta, hasFinalizer, InitializedIsOwn
  <1>4. /\ "reconcileOperands" \in Calls \cup Returns
        /\ fail \in [conflict : Returns \cup {"handleError"},
                     notFound : Returns \cup {"handleError"},
                     error : Returns \cup {"handleError"}]
        /\ fail.conflict = "requeue" /\ fail.notFound = "handleError"
        /\ fail.error = "handleError"
    BY Zenon DEF Calls, Returns
  <1>5. /\ Write(new, FALSE, "reconcileOperands", fail)
        /\ OnlySsp /\ succeeded' \in BOOLEAN
    BY Zenon DEF PreUpdateStatus, IInv, TypeOK
  <1> HIDE DEF new, fail
  <1>6. /\ TypeOK' /\ ServerInv'
        /\ \A o \in Operands : (ev[o] = "none" => seen[o] = res[o])'
        /\ ~LaggingRes => OperandsProtected'
        /\ Own(ssp') /\ inst' = new
        /\ pc' \in {"reconcileOperands", "requeue", "handleError"}
        /\ fresh' => UpToDate'
    BY <1>1, <1>2, <1>3, <1>4, <1>5, WriteStepLemma, ZenonT(40)
  <1>7. CASE pc' = "requeue"
    BY <1>6, <1>7, ReturnsLemma, Zenon DEF Returns
  <1>8. CASE pc' \in {"reconcileOperands", "handleError"}
    BY <1>2, <1>3, <1>6, <1>8, Zenon DEF IInv, WorkerInv, CleanupInv, ResourceInv, Own, hasFinalizer
  <1> QED
    BY <1>6, <1>7, <1>8, Zenon

\* The first status write of cleanup succeeds only on a stored SSP that is being
\* deleted, so that no version in flight can start a deployment.
LEMMA CleanupStatusLemma == ASSUME IInv, CleanupStatus PROVE IInv'
  <1> DEFINE new == [inst EXCEPT !.phase = "Deleting", !.obs = inst.gen, !.good = FALSE]
  <1>1. /\ pc = "cleanup" /\ pc \in Active /\ inst \in SspObject
        /\ hasFinalizer(inst) /\ inst.deleting /\ idx = 1
    BY Zenon DEF CleanupStatus, IInv, WorkerInv, Active, Calls
  <1>2. /\ new \in SspObject /\ new.deleting /\ new.obs = inst.gen /\ new.gen = inst.gen
        /\ hasFinalizer(new) /\ InitializedIsOwn(new)
    BY <1>1, Zenon DEF SspObject, Phases, hasFinalizer, InitializedIsOwn
  <1>3. "cleanupOperands" \in Calls \cup Returns
    BY Zenon DEF Calls
  <1>4. Write(new, TRUE, "cleanupOperands", Failed) /\ OnlySsp /\ succeeded' \in BOOLEAN
    BY Zenon DEF CleanupStatus, IInv, TypeOK
  <1> HIDE DEF new
  <1>5. /\ TypeOK' /\ ServerInv'
        /\ \A o \in Operands : (ev[o] = "none" => seen[o] = res[o])'
        /\ ~LaggingRes => OperandsProtected'
        /\ Own(ssp) => Own(ssp')
        /\ inst' = new /\ idx' = idx
        /\ Known' \subseteq Known \cup {ssp'}
        /\ pc' \in {"cleanupOperands", "returnErr"}
        /\ pc' # "returnErr" => fresh /\ ssp' = Kept(new)
        /\ fresh' /\ pc' # "returnErr" => UpToDate'
    BY <1>1, <1>2, <1>3, <1>4, WriteStepLemma, FailedLemma, ZenonT(40)
  <1>6. CASE pc' = "returnErr"
    BY <1>5, <1>6, ReturnsLemma, Zenon DEF Returns
  <1>7. CASE pc' = "cleanupOperands"
    <2>1. ssp' = new /\ fresh
      BY <1>2, <1>5, <1>7, KeptLemma, Zenon
    <2>2. Own(ssp) /\ \A v \in Known : Deleting(v)
      BY <1>1, <2>1, Zenon DEF IInv, CleanupInv
    <2>3. CleanupInv'
      BY <1>2, <1>5, <2>1, <2>2, ConstantsAssumption, Zenon DEF CleanupInv, Deleting, Own, hasFinalizer
    <2>4. WorkerInv'
      BY <1>2, <1>5, <1>7, Zenon DEF WorkerInv, Deploying, hasFinalizer
    <2>5. ResourceInv'
      BY <1>1, <1>5 DEF ResourceInv, Operands
    <2> QED
      BY <1>5, <2>3, <2>4, <2>5, Zenon DEF IInv
  <1> QED
    BY <1>5, <1>6, <1>7, Zenon

\* cleanup drops the finalizers only when every resource is gone.
LEMMA CleanupDoneLemma == ASSUME IInv, CleanupDone PROVE IInv'
  <1> DEFINE new == [inst EXCEPT !.fin = inst.fin \ OwnFinalizers]
  <1>1. /\ pc = "cleanupOperands" /\ pc \in Active /\ inst \in SspObject /\ inst.deleting
        /\ idx > N /\ Own(ssp) /\ \A v \in Known : Deleting(v)
    BY Zenon DEF CleanupDone, IInv, WorkerInv, CleanupInv, Active, Calls
  <1>2. CASE allDone
    <2>1. /\ new \in SspObject /\ new.deleting /\ new.obs = inst.obs /\ new.gen = inst.gen
          /\ InitializedIsOwn(new)
      BY <1>1, Zenon DEF SspObject, InitializedIsOwn
    <2>2. ASSUME ~LaggingRes PROVE \A o \in Operands : res[o].st = "absent"
      BY <1>1, <1>2, <2>2, ConstantsAssumption DEF IInv, ResourceInv, Operands, TypeOK
    <2>3. Write(new, FALSE, "setDeleted", Failed) /\ OnlySsp /\ succeeded' \in BOOLEAN
      BY <1>2, Zenon DEF CleanupDone, IInv, TypeOK
    <2>4. "setDeleted" \in Calls \cup Returns
      BY Zenon DEF Calls
    <2> HIDE DEF new
    <2>5. /\ TypeOK' /\ ServerInv'
          /\ \A o \in Operands : (ev[o] = "none" => seen[o] = res[o])'
          /\ ~LaggingRes => OperandsProtected'
          /\ inst' = new
          /\ pc' \in {"setDeleted", "returnErr"}
          /\ fresh' /\ pc' # "returnErr" => UpToDate'
      BY <1>1, <2>1, <2>2, <2>3, <2>4, WriteStepLemma, FailedLemma, ZenonT(40)
    <2>6. CASE pc' = "returnErr"
      BY <2>5, <2>6, ReturnsLemma, Zenon DEF Returns
    <2>7. CASE pc' = "setDeleted"
      BY <2>1, <2>5, <2>7, Zenon DEF IInv, WorkerInv, CleanupInv, ResourceInv, Deploying
    <2> QED
      BY <2>5, <2>6, <2>7, Zenon
  <1>3. CASE ~allDone
    <2>1. /\ pc' = "returnClear"
          /\ UNCHANGED <<server, operandVars, queue, inst, fresh, idx, allDone, memory,
                         succeeded, bounds>>
      BY <1>3, Zenon DEF CleanupDone
    <2>2. TypeOK'
      BY <2>1 DEF IInv, TypeOK, server, operandVars, memory, bounds, Returns
    <2>3. ServerInv'
      BY <2>1, Zenon DEF IInv, ServerInv, Known, Latest, server
    <2>4. \A o \in Operands : (ev[o] = "none" => seen[o] = res[o])'
      BY <2>1, Zenon DEF IInv, ResourceInv, operandVars
    <2>5. ~LaggingRes => OperandsProtected'
      BY <2>1, Zenon DEF IInv, ResourceInv, OperandsProtected, operandVars, server
    <2> QED
      BY <2>1, <2>2, <2>3, <2>4, <2>5, ReturnsLemma, Zenon DEF Returns
  <1> QED
    BY <1>2, <1>3, Zenon DEF IInv, TypeOK

-----------------------------------------------------------------------------
(* The other steps of Reconcile *)

\* Steps that leave the SSP and its informer alone keep what is known of versions.
LEMMA SameServerLemma ==
    ASSUME ServerInv, UNCHANGED server
    PROVE  ServerInv' /\ Known' = Known
  BY Zenon DEF ServerInv, Latest, Known, server

\* Get and the conditions of Reconcile: the call chosen fits the cached version.
LEMMA StartLemma == ASSUME IInv, Start PROVE IInv'
  <1>1. /\ ServerInv' /\ Known' = Known
        /\ UNCHANGED <<server, operandVars, crdsMissing, succeeded, bounds>>
        /\ inst' = cache /\ idx' = 1 /\ fresh' = (stream = <<>> /\ cache # NoSsp)
    BY SameServerLemma, Zenon DEF Start, IInv
  <1>2. pc' \in Calls \cup Returns
    BY Zenon DEF Start, firstCall, Calls, Returns
  <1>3. lastSpec' \in Specs \cup {NoSpec} /\ vc' \in [Operands -> Specs \cup {NoSpec}]
    BY Zenon DEF Start, clearCacheIfNeeded, IInv, TypeOK, SspObject
  <1>4. TypeOK'
    <2>1. fresh' \in BOOLEAN /\ allDone' \in BOOLEAN /\ queue' \in {"none", "waiting", "ready"}
      BY <1>1, Zenon DEF Start
    <2>2. idx' \in 1..(N + 1)
      BY <1>1, ConstantsAssumption
    <2> QED
      BY <1>1, <1>2, <1>3, <2>1, <2>2, Zenon DEF IInv, TypeOK, server, operandVars, bounds
  <1>5. ResourceInv'
    <2>1. \A o \in Operands : (ev[o] = "none" => seen[o] = res[o])'
      BY <1>1, Zenon DEF IInv, ResourceInv, operandVars
    <2>2. \A o \in Operands : ~(o < idx')
      BY <1>1 DEF Operands
    <2>3. ~LaggingRes => OperandsProtected'
      BY <1>1, Zenon DEF IInv, ResourceInv, OperandsProtected, operandVars, server
    <2> QED
      BY <2>1, <2>2, <2>3, Zenon DEF ResourceInv
  <1>6. CASE cache = NoSsp
    BY Zenon, <1>1, <1>4, <1>5, <1>6
       DEF Start, IInv, WorkerInv, CleanupInv, Active, Calls, Deploying
  <1>7. CASE cache # NoSsp
    <2>1. pc' = firstCall(cache) /\ inst' \in SspObject
      BY <1>1, <1>7, Zenon DEF Start, IInv, TypeOK
    <2>2. fresh' => cache = ssp /\ \A v \in Known : v = ssp
      <3>1. stream = <<>> => 1..Len(stream) = {}
        OBVIOUS
      <3> QED
        BY <1>1, <3>1, Zenon DEF IInv, ServerInv, Latest, Known
    <2>3. fresh' => UpToDate'
      BY <1>1, <1>7, <2>2, Zenon DEF UpToDate, SameMeta, server
    <2>4. cache \in Known
      BY Zenon DEF Known
    <2>5. pc' \in Deploying => ~cache.deleting /\ hasFinalizer(cache) /\ Own(ssp)
      <3>1. pc' \in Deploying => ~cache.deleting /\ cache.phase # "Empty"
        BY <2>1, Zenon DEF firstCall, Deploying, isInitialized
      <3> QED
        BY <1>7, <2>4, <3>1, Zenon DEF IInv, ServerInv, InitializedIsOwn, Guarded, Own
    <2>6. /\ pc' \in {"cleanup", "cleanupOperands"} => hasFinalizer(cache)
          /\ pc' \in {"cleanup", "cleanupOperands", "setDeleted"} => cache.deleting
          /\ pc' # "cleanupOperands"
      BY <2>1, Zenon DEF firstCall
    <2>7. WorkerInv'
      BY <1>1, <2>1, <2>3, <2>5, <2>6, Zenon DEF WorkerInv, Own, hasFinalizer, server, Deploying
    <2>8. CleanupInv'
      BY <1>1, <1>7, <2>2, <2>6, Zenon DEF CleanupInv, Own, Deleting, hasFinalizer, server
    <2> QED
      BY <1>1, <1>4, <1>5, <2>7, <2>8, Zenon DEF IInv
  <1> QED
    BY <1>6, <1>7, Zenon

\* The end of a reconciliation, with its requeue and cleared caches.
LEMMA ReturnLemma == ASSUME IInv, Return PROVE IInv'
  <1>1. ServerInv' /\ UNCHANGED <<server, operandVars, crdsMissing, bounds>> /\ pc' = "idle"
        /\ inst' = NoSsp /\ idx' = 1 /\ fresh' = FALSE /\ allDone' = TRUE
    BY SameServerLemma, Zenon DEF Return, IInv
  <1>2. TypeOK'
    <2>1. /\ queue' \in {"none", "waiting", "ready"} /\ pc' \in Calls
          /\ lastSpec' \in Specs \cup {NoSpec} /\ vc' \in [Operands -> Specs \cup {NoSpec}]
          /\ idx' \in 1..(N + 1)
      BY <1>1, ConstantsAssumption DEF Return, clearCache, EnqueueRateLimited, IInv, TypeOK,
                                           Calls
    <2>2. succeeded' \in BOOLEAN /\ fresh' \in BOOLEAN /\ allDone' \in BOOLEAN
      BY <1>1, Zenon DEF Return, IInv, TypeOK
    <2> QED
      BY <1>1, <2>1, <2>2, Zenon DEF IInv, TypeOK, server, operandVars, bounds
  <1>3. ResourceInv'
    BY <1>1, Zenon DEF IInv, ResourceInv, OperandsProtected, operandVars, server
  <1> QED
    BY <1>1, <1>2, <1>3, Zenon DEF IInv, WorkerInv, CleanupInv, Active, Deploying

\* What a step of the operands' loops leaves alone.
LEMMA OperandStepLemma ==
    ASSUME IInv, OperandStep, pc \in {"reconcileOperands", "cleanupOperands"},
           idx \in Operands, idx' \in {idx, idx + 1},
           pc' \in {pc, "handleError"} \cup Returns,
           pc' = "handleError" => pc = "reconcileOperands",
           res' \in [Operands -> Resource], ev' \in [Operands -> {"none", "irrelevant", "relevant"}],
           vc' \in [Operands -> Specs \cup {NoSpec}],
           allDone' \in BOOLEAN, faults' \in Nat,
           \A o \in Operands : ev'[o] = "none" => seen[o] = res'[o],
           ~LaggingRes => OperandsProtected',
           ~LaggingRes /\ pc' = "cleanupOperands" /\ allDone' =>
               \A o \in Operands : o < idx' => res'[o].st = "absent"
    PROVE  IInv'
  <1>1. ServerInv' /\ Known' = Known
    BY SameServerLemma, Zenon DEF OperandStep, IInv
  <1>2. TypeOK'
    <2>1. pc' \in Calls \cup Returns
      BY Zenon DEF Calls
    <2>2. idx' \in 1..(N + 1)
      BY ConstantsAssumption, SMTT(20), ZenonT(40) DEF Operands
    <2> QED
      BY <2>1, <2>2, SMTT(20), ZenonT(40) DEF IInv, TypeOK, OperandStep, server
  <1>3. WorkerInv'
    <2>1. inst' = inst /\ fresh' = fresh /\ ssp' = ssp /\ pc \in Active /\ pc' # "cleanup"
          /\ (pc = "reconcileOperands" => pc' \in {"reconcileOperands", "handleError"} \cup Returns)
          /\ (pc = "cleanupOperands" => pc' \in {"cleanupOperands"} \cup Returns)
      BY SMTT(20), ZenonT(40) DEF OperandStep, server, Active, Calls, Returns
    <2>2. UpToDate => UpToDate'
      BY <2>1, Zenon DEF UpToDate
    <2> QED
      BY <2>1, <2>2, SMTT(20), ZenonT(40) DEF IInv, WorkerInv, Active, Calls, Returns, Deploying, Own, hasFinalizer
  <1>4. CleanupInv'
    BY <1>1, Zenon DEF IInv, CleanupInv, OperandStep, server, Returns
  <1>5. ResourceInv'
    BY Zenon DEF ResourceInv, OperandStep
  <1> QED
    BY <1>1, <1>2, <1>3, <1>4, <1>5, Zenon DEF IInv

\* A write of an operand's resource is news to its informer.
LEMMA TouchLemma ==
    ASSUME TypeOK, ResourceInv, NEW o \in Operands, NEW r \in Resource, Touch(o, r)
    PROVE  /\ res' \in [Operands -> Resource]
           /\ ev' \in [Operands -> {"none", "irrelevant", "relevant"}]
           /\ \A p \in Operands : ev'[p] = "none" => seen[p] = res'[p]
           /\ \A p \in Operands : p # o => res'[p] = res[p]
           /\ res'[o] = r
  BY Zenon DEF TypeOK, ResourceInv, Touch

\* An operand is deployed only while the stored SSP carries a finalizer.
LEMMA ReconcileOperandLemma == ASSUME IInv, ReconcileOperand PROVE IInv'
  <1> DEFINE o == idx
             desired(ready) == [st |-> "live", spec |-> inst.spec, ready |-> ready]
  <1>1. /\ pc = "reconcileOperands" /\ o \in Operands /\ inst \in SspObject /\ Own(ssp)
        /\ OperandStep /\ TypeOK /\ ResourceInv
    <2>1. pc = "reconcileOperands" /\ idx <= N /\ OperandStep
      BY Zenon DEF ReconcileOperand
    <2>2. TypeOK /\ ResourceInv /\ WorkerInv
      BY Zenon DEF IInv
    <2>3. o \in Operands
      BY <2>1, <2>2, ConstantsAssumption DEF TypeOK, Operands
    <2>4. inst \in SspObject /\ Own(ssp)
      BY <2>1, <2>2, Zenon DEF WorkerInv, Active, Calls
    <2> QED
      BY <2>1, <2>2, <2>3, <2>4, Zenon
  <1>2. OperandsProtected'
    BY <1>1, Zenon DEF OperandsProtected, Own, OperandStep, server
  <1>3. \A ready \in BOOLEAN : desired(ready) \in Resource
    BY <1>1, Zenon DEF Resource, SspObject
  <1>4. seen[o] \in Resource /\ seen[o].ready \in BOOLEAN /\ seen[o].spec \in Specs \cup {NoSpec}
    BY <1>1, Zenon DEF TypeOK, Resource
  <1>5. ASSUME NEW ok \in BOOLEAN, NextOperand(ok), NEW spec \in Specs \cup {NoSpec},
               vc' = [vc EXCEPT ![o] = spec], faults' = faults,
               \/ UNCHANGED <<res, ev>>
               \/ \E ready \in BOOLEAN : Touch(o, desired(ready))
        PROVE  IInv'
    <2>1. /\ res' \in [Operands -> Resource]
          /\ ev' \in [Operands -> {"none", "irrelevant", "relevant"}]
          /\ \A p \in Operands : ev'[p] = "none" => seen[p] = res'[p]
      BY <1>1, <1>3, <1>5, TouchLemma, Zenon DEF TypeOK, ResourceInv
    <2>2. /\ vc' \in [Operands -> Specs \cup {NoSpec}] /\ faults' \in Nat
          /\ idx' = idx + 1 /\ pc' = pc
      BY <1>1, <1>5, Zenon DEF TypeOK, NextOperand
    <2>3. allDone' \in BOOLEAN
      BY <1>1, <1>5, Zenon DEF TypeOK, NextOperand
    <2> QED
      BY <1>1, <1>2, <2>1, <2>2, <2>3, OperandStepLemma, SMTT(20), ZenonT(40)
  <1>6. ASSUME NEW how \in {"handleError", "requeue"}, OperandError(how),
               \/ faults' = faults
               \/ faults > 0 /\ faults' = faults - 1
        PROVE  IInv'
    <2>1. faults' \in Nat
      BY <1>1, <1>6 DEF TypeOK
    <2> QED
      BY Zenon, <1>1, <1>2, <1>6, <2>1, OperandStepLemma
         DEF OperandError, TypeOK, ResourceInv, Returns
  <1>7. inst.spec \in Specs \cup {NoSpec}
    BY <1>1, Zenon DEF SspObject
  <1> HIDE DEF desired
  <1> QED
    BY <1>1, <1>4, <1>5, <1>6, <1>7, ZenonT(40) DEF ReconcileOperand, desired

\* An operand that reports no pending deletion has no resource left, if its read
\* is up to date.
LEMMA CleanupOperandLemma == ASSUME IInv, CleanupOperand PROVE IInv'
  <1> DEFINE o == idx
  <1>1. /\ pc = "cleanupOperands" /\ o \in Operands /\ Own(ssp)
        /\ OperandStep /\ TypeOK /\ ResourceInv /\ vc' = vc
        /\ LaggingRes \/ ev[o] = "none"
    <2>1. /\ pc = "cleanupOperands" /\ idx <= N /\ OperandStep /\ vc' = vc
          /\ LaggingRes \/ ev[o] = "none"
      BY Zenon DEF CleanupOperand
    <2>2. TypeOK /\ ResourceInv /\ CleanupInv
      BY Zenon DEF IInv
    <2>3. o \in Operands
      BY <2>1, <2>2, ConstantsAssumption DEF TypeOK, Operands
    <2>4. Own(ssp)
      BY <2>1, <2>2, Zenon DEF CleanupInv
    <2> QED
      BY <2>1, <2>2, <2>3, <2>4, Zenon
  <1>2. OperandsProtected'
    BY <1>1, Zenon DEF OperandsProtected, Own, OperandStep, server
  <1>3. ASSUME NEW gone \in BOOLEAN, NextOperand(gone), faults' = faults,
               \/ UNCHANGED <<res, ev>>
               \/ Touch(o, [res[o] EXCEPT !.st = "deleting"]) /\ ~gone,
               gone => LaggingRes \/ res[o].st = "absent"
        PROVE  IInv'
    <2>1. [res[o] EXCEPT !.st = "deleting"] \in Resource
      BY <1>1 DEF TypeOK, Resource
    <2>2. /\ res' \in [Operands -> Resource]
          /\ ev' \in [Operands -> {"none", "irrelevant", "relevant"}]
          /\ \A p \in Operands : ev'[p] = "none" => seen[p] = res'[p]
      BY <1>1, <1>3, <2>1, TouchLemma, Zenon DEF TypeOK, ResourceInv
    <2>3. vc' \in [Operands -> Specs \cup {NoSpec}] /\ faults' \in Nat
          /\ idx' = idx + 1 /\ pc' = pc
      BY <1>1, <1>3, Zenon DEF TypeOK, NextOperand
    <2>4. allDone' \in BOOLEAN /\ (allDone' => allDone /\ gone)
      BY <1>1, <1>3, Zenon DEF TypeOK, NextOperand
    <2>5. ASSUME ~LaggingRes, allDone', NEW p \in Operands, p < idx'
          PROVE  res'[p].st = "absent"
      <3>1. res' = res /\ res[o].st = "absent"
        BY <1>3, <2>4, <2>5, Zenon
      <3>2. p < idx \/ p = idx
        BY <2>3, <2>5, <1>1 DEF Operands
      <3> QED
        BY <1>1, <2>4, <2>5, <3>1, <3>2, Zenon DEF ResourceInv
    <2> QED
      BY <1>1, <1>2, <2>2, <2>3, <2>4, <2>5, OperandStepLemma, Zenon
  <1>4. ASSUME OperandError("returnErr"), faults > 0, faults' = faults - 1
        PROVE  IInv'
    <2>1. faults' \in Nat
      BY <1>1, <1>4 DEF TypeOK
    <2> QED
      BY Zenon, <1>1, <1>2, <1>4, <2>1, OperandStepLemma
         DEF OperandError, TypeOK, ResourceInv, Returns
  <1>5. ev[o] = "none" => seen[o] = res[o]
    BY <1>1, Zenon DEF ResourceInv
  <1> QED
    BY <1>1, <1>3, <1>4, <1>5, Zenon DEF CleanupOperand

-----------------------------------------------------------------------------
(* The informers, users, the cluster, restarts *)

\* The versions that remain after a delivery were known before.
LEMMA DeliverKnown == ASSUME TypeOK, DeliverSsp PROVE Known' \subseteq Known
  <1> DEFINE V == SspObject \cup {NoSsp}
  <1>1. stream \in Seq(V) /\ stream # <<>>
    BY Zenon DEF DeliverSsp, TypeOK
  <1> HIDE DEF V
  <1>2. /\ Len(stream) \in Nat \ {0} /\ Head(stream) = stream[1]
        /\ Len(Tail(stream)) = Len(stream) - 1
        /\ \A i \in 1..Len(Tail(stream)) : Tail(stream)[i] = stream[i + 1]
    BY <1>1
  <1>3. cache' = Head(stream) /\ stream' = Tail(stream) /\ ssp' = ssp
    BY Zenon DEF DeliverSsp
  <1>4. \A i \in 1..Len(stream') : i + 1 \in 1..Len(stream) /\ stream'[i] = stream[i + 1]
    BY <1>2, <1>3
  <1> QED
    BY <1>2, <1>3, <1>4 DEF Known

\* The informer moves on to a version that was already known.
LEMMA DeliverSspLemma == ASSUME IInv, DeliverSsp PROVE IInv'
  <1> DEFINE V == SspObject \cup {NoSsp}
  <1> HIDE DEF V
  <1>1. /\ stream \in Seq(V) /\ stream # <<>> /\ cache' = Head(stream) /\ stream' = Tail(stream)
        /\ UNCHANGED <<ssp, operandVars, worker, memory, succeeded, bounds>>
    BY Zenon DEF DeliverSsp, IInv, TypeOK, V
  <1>2. /\ cache' \in V /\ stream' \in Seq(V) /\ cache' = stream[1] /\ Len(stream) \in Nat \ {0}
        /\ Len(stream') = Len(stream) - 1
        /\ \A i \in 1..Len(stream') : stream'[i] = stream[i + 1]
    BY <1>1
  <1>2a. stream' = <<>> => Len(stream) = 1
    BY <1>2
  <1>3. Known' \subseteq Known
    BY DeliverKnown, Zenon DEF IInv
  <1>4. ServerInv'
    <2>1. Latest'
      BY <1>1, <1>2, <1>2a, SMTT(20), ZenonT(40) DEF Latest, IInv, ServerInv
    <2> QED
      BY <1>1, <1>3, <2>1, Zenon DEF IInv, ServerInv, InitializedIsOwn, Guarded, Own, hasFinalizer
  <1>5. TypeOK'
    <2>1. queue' \in {"none", "waiting", "ready"}
      BY Zenon DEF DeliverSsp, Enqueue, IInv, TypeOK
    <2> QED
      BY <1>1, <1>2, <2>1, Zenon DEF IInv, TypeOK, V, operandVars, worker, memory, bounds
  <1>6. WorkerInv' /\ CleanupInv' /\ ResourceInv'
    BY <1>1, <1>3, ZenonT(40) DEF IInv, WorkerInv, CleanupInv, ResourceInv, OperandsProtected, UpToDate,
                      Own, hasFinalizer, operandVars, worker
  <1> QED
    BY <1>4, <1>5, <1>6, Zenon DEF IInv

\* Steps that change neither the SSP nor the worker.
LEMMA ResourceStepLemma ==
    ASSUME IInv, UNCHANGED <<server, worker, memory, faults, restarts>>,
           queue' \in {"none", "waiting", "ready"}, succeeded' \in BOOLEAN, edits' \in Nat,
           res' \in [Operands -> Resource], seen' \in [Operands -> Resource],
           ev' \in [Operands -> {"none", "irrelevant", "relevant"}],
           \A o \in Operands : ev'[o] = "none" => seen'[o] = res'[o],
           \A o \in Operands : res[o].st = "absent" => res'[o].st = "absent"
    PROVE  IInv'
  <1>1. ServerInv' /\ Known' = Known
    BY SameServerLemma, Zenon DEF IInv
  <1>2. TypeOK'
    BY SMTT(20), ZenonT(40) DEF IInv, TypeOK, server, worker, memory
  <1>3. WorkerInv'
    BY SMTT(20), ZenonT(40) DEF IInv, WorkerInv, UpToDate, Own, hasFinalizer, server, worker
  <1>4. CleanupInv'
    BY <1>1, Zenon DEF IInv, CleanupInv, server, worker
  <1>5. ResourceInv'
    BY Zenon DEF IInv, ResourceInv, OperandsProtected, server, worker
  <1> QED
    BY <1>1, <1>2, <1>3, <1>4, <1>5, SMTT(20), ZenonT(40) DEF IInv

\* The back-off timer, the informers and what happens to resources outside the
\* operator: none of these makes a resource.
LEMMA ResourceActionsLemma ==
    ASSUME IInv,
           \/ BackoffOver
           \/ \E o \in Operands : \/ DeliverResource(o) \/ UserDeletesResource(o)
                                  \/ BecomeReady(o) \/ Vanish(o)
    PROVE  IInv'
  <1>0. TypeOK /\ ResourceInv
    BY Zenon DEF IInv
  <1>1. CASE BackoffOver
    BY <1>0, <1>1, ResourceStepLemma, SMTT(20), ZenonT(40)
       DEF BackoffOver, Enqueue, TypeOK, ResourceInv, operandVars, bounds
  <1>2. ASSUME NEW o \in Operands, DeliverResource(o) PROVE IInv'
    BY Zenon, <1>0, <1>2, ResourceStepLemma
       DEF DeliverResource, Enqueue, TypeOK, ResourceInv, bounds
  <1>3. ASSUME NEW o \in Operands, NEW r \in Resource, Touch(o, r), r.st # "absent" => res[o].st # "absent",
               Unattended, UNCHANGED <<ssp, stream, fresh, seen>>, edits' \in Nat
        PROVE  IInv'
    <2>1. UNCHANGED <<server, worker, memory, faults, restarts>>
      BY <1>3, Zenon DEF Unattended, server, worker, memory
    <2>2. queue' \in {"none", "waiting", "ready"} /\ succeeded' \in BOOLEAN
          /\ seen' = seen /\ seen \in [Operands -> Resource]
      BY <1>0, <1>3, Zenon DEF Unattended, TypeOK
    <2> QED
      BY <1>0, <1>3, <2>1, <2>2, TouchLemma, ResourceStepLemma, Zenon
  <1>4. ASSUME NEW o \in Operands, UserDeletesResource(o) PROVE IInv'
    <2>0. res[o] \in Resource
      BY <1>0, Zenon DEF TypeOK
    <2>1. [res[o] EXCEPT !.st = "deleting"] \in Resource
      BY <2>0, Zenon DEF Resource
    <2>2. edits' \in Nat
      BY <1>0, <1>4 DEF UserDeletesResource, Edit, TypeOK
    <2> QED
      BY <1>3, <1>4, <2>1, <2>2, Zenon DEF UserDeletesResource
  <1>5. ASSUME NEW o \in Operands, Vanish(o) PROVE IInv'
    <2>1. NoResource \in Resource /\ NoResource.st = "absent"
      BY Zenon DEF Resource, NoResource
    <2>2. edits' \in Nat
      BY <1>0, <1>5, Zenon DEF Vanish, TypeOK
    <2> QED
      BY <1>3, <1>5, <2>1, <2>2, Zenon DEF Vanish
  <1>6. ASSUME NEW o \in Operands, BecomeReady(o) PROVE IInv'
    <2>1. UNCHANGED <<server, worker, memory, faults, restarts>>
      BY <1>6, Zenon DEF BecomeReady, Unattended, server, worker, memory
    <2>2. queue' \in {"none", "waiting", "ready"} /\ succeeded' \in BOOLEAN /\ edits' \in Nat
          /\ seen' \in [Operands -> Resource] /\ seen' = seen
      BY <1>0, <1>6, Zenon DEF BecomeReady, Unattended, TypeOK
    <2>3. /\ res' \in [Operands -> Resource] /\ res'[o].st = "live" /\ res[o].st = "live"
          /\ \A p \in Operands : p # o => res'[p] = res[p]
      BY <1>0, <1>6, ZenonT(40) DEF BecomeReady, TypeOK, Resource
    <2>4. /\ ev' \in [Operands -> {"none", "irrelevant", "relevant"}] /\ ev'[o] # "none"
          /\ \A p \in Operands : p # o => ev'[p] = ev[p]
      BY <1>0, <1>6, Zenon DEF BecomeReady, TypeOK
    <2> QED
      BY <1>0, <2>1, <2>2, <2>3, <2>4, ResourceStepLemma, Zenon DEF ResourceInv
  <1> QED
    BY <1>1, <1>2, <1>4, <1>5, <1>6, Zenon

\* Writes of the SSP by others than the operator: they leave its finalizers alone,
\* and a deletion can not be taken back.
LEMMA OthersWriteLemma ==
    ASSUME IInv, NEW new \in SspObject, Store(new, FALSE), fresh' = FALSE, Unattended,
           UNCHANGED operandVars, edits' \in Nat,
           InitializedIsOwn(new), Own(ssp) => hasFinalizer(new),
           Deleting(ssp) => new.deleting
    PROVE  IInv'
  <1>1. /\ ssp' = Kept(new) /\ ssp' \in SspObject \cup {NoSsp}
        /\ stream' \in Seq(SspObject \cup {NoSsp}) /\ Known' \subseteq Known \cup {ssp'}
    BY StoreLemma, Zenon DEF IInv, ServerInv, Unattended
  <1>2. ServerInv'
    BY StoreInvLemma, Zenon DEF IInv, Unattended
  <1>3. TypeOK'
    BY <1>1, ZenonT(40) DEF IInv, TypeOK, Unattended, operandVars, memory
  <1>4. Own(ssp) => Own(ssp') /\ ssp' = new
    BY <1>1, KeptLemma, ConstantsAssumption, Zenon DEF Own
  <1>5. WorkerInv'
    BY <1>4, Zenon DEF IInv, WorkerInv, Unattended, hasFinalizer
  <1>6. CleanupInv'
    <2> SUFFICES ASSUME pc' = "cleanupOperands"
                 PROVE  Own(ssp') /\ \A v \in Known' : Deleting(v)
      BY Zenon DEF CleanupInv, Own, Deleting, hasFinalizer
    <2>1. Own(ssp) /\ \A v \in Known : Deleting(v)
      BY SMTT(20), ZenonT(40) DEF IInv, CleanupInv, Unattended
    <2>2. Deleting(ssp')
      BY <1>4, <2>1, ConstantsAssumption, Zenon DEF Known, Deleting
    <2> QED
      BY <1>1, <1>4, <2>1, <2>2, Zenon
  <1>7. ResourceInv'
    BY <1>4, Zenon DEF IInv, ResourceInv, OperandsProtected, Own, Unattended, operandVars
  <1> QED
    BY <1>2, <1>3, <1>5, <1>6, <1>7, Zenon DEF IInv

\* Users and the garbage collector: they neither add nor remove the operator's
\* finalizers.
LEMMA OthersActionsLemma ==
    ASSUME IInv, UserCreate \/ UserEditSpec \/ UserPause \/ UserDelete \/ ForegroundDone
    PROVE  IInv'
  <1>0. TypeOK /\ ServerInv /\ InitializedIsOwn(ssp)
    BY Zenon DEF IInv, ServerInv, Known
  <1>1. ASSUME NEW new \in SspObject, UserWrite(new),
               InitializedIsOwn(new), Own(ssp) => hasFinalizer(new),
               Deleting(ssp) => new.deleting
        PROVE  IInv'
    <2>1. edits' \in Nat
      BY <1>0, <1>1 DEF UserWrite, Edit, TypeOK
    <2> QED
      BY <1>1, <2>1, OthersWriteLemma, Zenon DEF UserWrite
  <1>2. CASE UserCreate
    <2>1. PICK spec \in Specs, ann \in BOOLEAN : ssp = NoSsp /\ UserWrite(NewSsp(spec, ann))
      BY <1>2, Zenon DEF UserCreate
    <2>2. NewSsp(spec, ann) \in SspObject /\ InitializedIsOwn(NewSsp(spec, ann))
      BY Zenon DEF NewSsp, SspObject, Finalizers, Phases, InitializedIsOwn
    <2> QED
      BY <1>1, <2>1, <2>2, Zenon DEF Own, Deleting
  <1>3. CASE UserEditSpec
    <2>1. PICK spec \in Specs :
             ssp # NoSsp /\ UserWrite([ssp EXCEPT !.spec = spec, !.gen = ssp.gen + 1])
      BY <1>3, Zenon DEF UserEditSpec
    <2> DEFINE new == [ssp EXCEPT !.spec = spec, !.gen = ssp.gen + 1]
    <2>2a. ssp \in SspObject /\ ssp.gen + 1 \in Nat
      <3>1. ssp \in SspObject
        BY <1>0, <2>1, Zenon DEF TypeOK
      <3> QED
        BY <3>1 DEF SspObject
    <2>2. new \in SspObject /\ new.fin = ssp.fin /\ new.deleting = ssp.deleting
          /\ new.phase = ssp.phase
      BY <2>2a, Zenon DEF SspObject
    <2> HIDE DEF new
    <2>3. InitializedIsOwn(new) /\ (Own(ssp) => hasFinalizer(new))
          /\ (Deleting(ssp) => new.deleting)
      BY <1>0, <2>1, <2>2, Zenon DEF InitializedIsOwn, Own, Deleting, hasFinalizer
    <2> QED
      BY <1>1, <2>1, <2>2, <2>3, Zenon DEF new
  <1>4. CASE UserPause
    <2> DEFINE new == [ssp EXCEPT !.ann = ~ssp.ann]
    <2>1. ssp \in SspObject /\ UserWrite(new) /\ ssp # NoSsp
      BY <1>0, <1>4, Zenon DEF UserPause, TypeOK
    <2>2. new \in SspObject /\ new.fin = ssp.fin /\ new.deleting = ssp.deleting
          /\ new.phase = ssp.phase
      BY <2>1, Zenon DEF SspObject
    <2> HIDE DEF new
    <2>3. InitializedIsOwn(new) /\ (Own(ssp) => hasFinalizer(new))
          /\ (Deleting(ssp) => new.deleting)
      BY <1>0, <2>1, <2>2, Zenon DEF InitializedIsOwn, Own, Deleting, hasFinalizer
    <2> QED
      BY <1>1, <2>1, <2>2, <2>3, Zenon
  <1>5. CASE UserDelete
    <2>1. PICK extra \in {{}, {"foreground"}} :
             UserWrite([ssp EXCEPT !.deleting = TRUE, !.gen = ssp.gen + 1,
                                   !.fin = ssp.fin \cup extra])
      BY <1>5, Zenon DEF UserDelete
    <2> DEFINE new == [ssp EXCEPT !.deleting = TRUE, !.gen = ssp.gen + 1,
                                  !.fin = ssp.fin \cup extra]
    <2>2. ssp \in SspObject /\ ssp # NoSsp
      BY <1>0, <1>5, Zenon DEF UserDelete, TypeOK
    <2>2a. /\ ssp.gen + 1 \in Nat /\ ssp.fin \cup extra \in SUBSET Finalizers
      BY <2>2 DEF SspObject, Finalizers
    <2>3. new \in SspObject /\ new.deleting /\ ssp.fin \subseteq new.fin
      BY <2>2, <2>2a, Zenon DEF SspObject
    <2> HIDE DEF new
    <2>4. InitializedIsOwn(new) /\ (Own(ssp) => hasFinalizer(new))
      BY <2>3, Zenon DEF InitializedIsOwn, Own, hasFinalizer
    <2> QED
      BY <1>1, <2>1, <2>3, <2>4, Zenon DEF new
  <1>6. CASE ForegroundDone
    <2> DEFINE new == [ssp EXCEPT !.fin = ssp.fin \ {"foreground"}]
    <2>1. ssp \in SspObject /\ ssp # NoSsp
      BY <1>0, <1>6, Zenon DEF ForegroundDone, TypeOK
    <2>2. new \in SspObject /\ new.deleting = ssp.deleting /\ new.phase = ssp.phase
          /\ new.fin = ssp.fin \ {"foreground"}
      BY <2>1, Zenon DEF SspObject, Finalizers
    <2>3. Store(new, FALSE) /\ fresh' = FALSE /\ Unattended /\ UNCHANGED operandVars
          /\ edits' \in Nat
      BY <1>0, <1>6, Zenon DEF ForegroundDone, TypeOK
    <2> HIDE DEF new
    <2>4. hasFinalizer(ssp) => hasFinalizer(new)
      BY <2>2, Zenon DEF hasFinalizer, OwnFinalizers
    <2>5. InitializedIsOwn(new) /\ (Own(ssp) => hasFinalizer(new))
          /\ (Deleting(ssp) => new.deleting)
      BY <1>0, <2>1, <2>2, <2>4, Zenon DEF InitializedIsOwn, Own, Deleting
    <2> QED
      BY <2>2, <2>3, <2>5, OthersWriteLemma, Zenon
  <1> QED
    BY <1>2, <1>3, <1>4, <1>5, <1>6, SMTT(20), ZenonT(40)

\* A restart forgets what the worker knew and lists the stored objects.
LEMMA RestartLemma == ASSUME IInv, Restart PROVE IInv'
  <1>0. TypeOK /\ InitializedIsOwn(ssp)
    BY Zenon DEF IInv, ServerInv, Known
  <1>1. ssp' = ssp /\ cache' = ssp /\ stream' = <<>> /\ res' = res /\ seen' = res /\ pc' = "idle"
    BY Zenon DEF Restart
  <1>2. \A v \in Known' : v = ssp
    <2>1. Len(stream') = 0
      BY <1>1, Zenon
    <2> QED
      BY <1>1, <2>1 DEF Known
  <1>3. ServerInv'
    BY <1>0, <1>1, <1>2, SMTT(20), ZenonT(40) DEF ServerInv, Latest, InitializedIsOwn, Guarded, Own, hasFinalizer
  <1>4. TypeOK'
    <2> DEFINE V == SspObject \cup {NoSsp}
    <2>1. <<>> \in Seq(V)
      OBVIOUS
    <2>2. idx' \in 1..(N + 1) /\ restarts' \in Nat /\ pc' \in Calls
          /\ queue' \in {"none", "waiting", "ready"}
      BY <1>0, ConstantsAssumption DEF Restart, TypeOK, Calls
    <2>3. fresh' \in BOOLEAN /\ allDone' \in BOOLEAN /\ crdsMissing' \in BOOLEAN
          /\ succeeded' \in BOOLEAN
      BY ZenonT(40) DEF Restart
    <2>4. /\ ev' \in [Operands -> {"none", "irrelevant", "relevant"}]
          /\ vc' \in [Operands -> Specs \cup {NoSpec}] /\ lastSpec' \in Specs \cup {NoSpec}
      BY Zenon DEF Restart
    <2> QED
      BY <1>0, <1>1, <2>1, <2>2, <2>3, <2>4, Zenon DEF Restart, TypeOK
  <1>5. ResourceInv'
    BY <1>1, Zenon DEF IInv, ResourceInv, OperandsProtected
  <1> QED
    BY <1>1, <1>3, <1>4, <1>5, SMTT(20), ZenonT(40) DEF IInv, WorkerInv, CleanupInv, Active, Deploying

-----------------------------------------------------------------------------
(* The invariant, and what follows from it at once *)

\* A cluster without an SSP, or with one of an older operator, satisfies the
\* invariant.
LEMMA InitLemma == ASSUME Init PROVE IInv
  <1> DEFINE V == SspObject \cup {NoSsp}
  <1>1. /\ ssp \in V /\ res \in [Operands -> Resource]
        /\ InitializedIsOwn(ssp) /\ OperandsProtected
    <2>1. CASE ssp = NoSsp /\ res = [o \in Operands |-> NoResource]
      BY <2>1, Zenon DEF InitializedIsOwn, OperandsProtected, NoResource, Resource
    <2>2. ASSUME NEW spec \in Specs, ssp = LegacySsp(spec),
                 res = [o \in Operands |-> [st |-> "live", spec |-> spec, ready |-> TRUE]]
          PROVE  /\ ssp \in V /\ res \in [Operands -> Resource]
                 /\ InitializedIsOwn(ssp) /\ OperandsProtected
      <3>1. ssp \in SspObject /\ "old" \in ssp.fin
        BY <2>2, Zenon DEF LegacySsp, NewSsp, SspObject, Finalizers, OwnFinalizers, Phases
      <3>2. ssp # NoSsp /\ hasFinalizer(ssp)
        BY <3>1, ConstantsAssumption, Zenon DEF hasFinalizer, OwnFinalizers
      <3> QED
        BY <2>2, <3>1, <3>2, Zenon DEF InitializedIsOwn, OperandsProtected, Resource
    <2> QED
      BY <2>1, <2>2, Zenon DEF Init
  <1>2. cache = ssp /\ stream = <<>> /\ seen = res /\ pc = "idle" /\ stream \in Seq(V)
    BY DEF Init
  <1>3. \A v \in Known : v = ssp
    <2>1. Len(stream) = 0
      BY <1>2, Zenon
    <2> QED
      BY <1>2, <2>1 DEF Known
  <1>4. TypeOK
    <2>1. idx \in 1..(N + 1) /\ pc \in Calls /\ queue \in {"none", "waiting", "ready"}
          /\ edits \in Nat /\ faults \in Nat /\ restarts \in Nat
      BY ConstantsAssumption DEF Init, Calls
    <2>2. fresh \in BOOLEAN /\ allDone \in BOOLEAN /\ crdsMissing \in BOOLEAN
          /\ succeeded \in BOOLEAN
      BY Zenon DEF Init
    <2>3. /\ ev \in [Operands -> {"none", "irrelevant", "relevant"}]
          /\ vc \in [Operands -> Specs \cup {NoSpec}] /\ lastSpec \in Specs \cup {NoSpec}
          /\ inst = NoSsp
      BY Zenon DEF Init
    <2> QED
      BY <1>1, <1>2, <2>1, <2>2, <2>3, Zenon DEF TypeOK
  <1>5. ServerInv
    BY <1>1, <1>2, <1>3, Zenon DEF ServerInv, Latest, Guarded
  <1>6. WorkerInv /\ CleanupInv /\ ResourceInv
    BY <1>1, <1>2, Zenon DEF WorkerInv, CleanupInv, ResourceInv, Active, Deploying
  <1> QED
    BY <1>4, <1>5, <1>6, Zenon DEF IInv

\* A stuttering step preserves the invariant.
LEMMA StutterLemma == ASSUME IInv, UNCHANGED vars PROVE IInv'
  <1>1. ServerInv' /\ Known' = Known
    BY SameServerLemma, SMTT(20), ZenonT(40) DEF IInv, vars
  <1>2. TypeOK'
    BY SMTT(20), ZenonT(40) DEF IInv, TypeOK, vars, server, operandVars, worker, memory, bounds
  <1>3. WorkerInv'
    BY Zenon DEF IInv, WorkerInv, UpToDate, Own, hasFinalizer, vars, server, worker
  <1>4. CleanupInv'
    BY <1>1, Zenon DEF IInv, CleanupInv, vars, server, worker
  <1>5. ResourceInv'
    BY Zenon DEF IInv, ResourceInv, OperandsProtected, vars, server, operandVars, worker
  <1> QED
    BY <1>1, <1>2, <1>3, <1>4, <1>5, Zenon DEF IInv

\* Every step preserves the invariant.
LEMMA StepLemma == IInv /\ [Next]_vars => IInv'
  <1> SUFFICES ASSUME IInv, [Next]_vars PROVE IInv'
    BY Zenon
  <1>1. CASE Reconcile
    BY Zenon, <1>1, StartLemma, UpdateSspResourceLemma, FinalStatusActionsLemma,
       PreUpdateStatusLemma, ReconcileOperandLemma, CleanupStatusLemma,
       CleanupOperandLemma, CleanupDoneLemma, ReturnLemma DEF Reconcile
  <1>2. CASE Watch
    BY <1>2, DeliverSspLemma, ResourceActionsLemma, Zenon DEF Watch
  <1>3. CASE User
    BY <1>3, OthersActionsLemma, ResourceActionsLemma, Zenon DEF User
  <1>4. CASE Cluster
    BY <1>4, OthersActionsLemma, ResourceActionsLemma, Zenon DEF Cluster
  <1>5. CASE Restart
    BY <1>5, RestartLemma, Zenon
  <1>6. CASE UNCHANGED vars
    BY <1>6, StutterLemma, Zenon
  <1> QED
    BY <1>1, <1>2, <1>3, <1>4, <1>5, <1>6, Zenon DEF Next

\* The inductive invariant holds in every state: the worker acts on a version of
\* the SSP whose finalizer still protects what it deploys.
THEOREM Invariance == Spec => []IInv
  <1>1. Init => IInv
    BY InitLemma, Zenon
  <1> QED
    BY <1>1, StepLemma, PTL DEF Spec

\* The variables of the controller, its queue, its caches and the API server keep
\* their types.
THEOREM TypeCorrect == Spec => []TypeOK
  BY Invariance, PTL DEF IInv

\* Whatever users, faults, restarts and stale SSP caches do, the operands' resources
\* exist only under a finalizer of the operator, provided that cleanup reads the
\* resources from caches that are up to date (see OperandsProtected).
THEOREM OperandsAreProtected == Spec => [](~LaggingRes => OperandsProtected)
  BY Invariance, PTL DEF IInv, ResourceInv

-----------------------------------------------------------------------------
(* What a step does to the SSP: ObservedGeneration is exact, and the        *)
(* controller implements FinalizerProtocol.                                 *)

\* A write that only changes the status.
StatusWrite(new) == SameMeta(new, inst)

\* initialize and updateSsp: a finalizer is added, or replaced.
FinalizerWrite(new) ==
    /\ hasFinalizer(new)
    /\ new.deleting = inst.deleting /\ new.gen = inst.gen
    /\ inst.deleting => hasFinalizer(inst)

\* The end of cleanup: the finalizers are removed.
ReleaseWrite(new) ==
    /\ pc = "cleanupOperands" /\ allDone /\ idx > N
    /\ new.deleting /\ ~hasFinalizer(new) /\ new.gen = inst.gen

\* The worker stores new over a version that its copy is up to date with.
WorkerStores(new) ==
    /\ UpToDate
    /\ ssp' = Kept(new)
    /\ new.obs \in {inst.obs, inst.gen}
    /\ StatusWrite(new) \/ FinalizerWrite(new) \/ ReleaseWrite(new)

WriteAction ==
    \/ UpdateSspResource \/ SetSspResourceDeploying \/ Pause \/ UpdateStatusMissingCrds
    \/ PreUpdateStatus \/ UpdateStatus \/ HandleError \/ CleanupStatus \/ CleanupDone
    \/ SetDeleted

-----------------------------------------------------------------------------
\* A write is carried out only if the worker's copy is fresh.
LEMMA WriteOutcome ==
    ASSUME NEW new, NEW heartbeat, NEW ok, NEW fail, Write(new, heartbeat, ok, fail)
    PROVE  ssp' = ssp \/ (fresh /\ ssp' = Kept(new))
  BY Zenon DEF Write, Store

\* Every write of the worker leaves the SSP alone or is one of the three kinds.
LEMMA WritesLemma ==
    ASSUME IInv, WriteAction
    PROVE  /\ res' = res
           /\ ssp' = ssp \/ \E new \in SspObject : WorkerStores(new)
  <1>0. ASSUME NEW new \in SspObject, NEW heartbeat, NEW ok, NEW fail, pc \in Active,
               Write(new, heartbeat, ok, fail), new.obs \in {inst.obs, inst.gen},
               fresh => StatusWrite(new) \/ FinalizerWrite(new) \/ ReleaseWrite(new)
        PROVE  ssp' = ssp \/ \E n \in SspObject : WorkerStores(n)
    BY <1>0, WriteOutcome, Zenon DEF IInv, WorkerInv, WorkerStores
  <1>1. pc \in Active /\ inst \in SspObject
    BY Zenon DEF WriteAction, UpdateSspResource, SetSspResourceDeploying, Pause,
           UpdateStatusMissingCrds, PreUpdateStatus, UpdateStatus, HandleError,
           CleanupStatus, CleanupDone, SetDeleted, IInv, WorkerInv, Active, Calls
  <1>2. res' = res
    BY Zenon DEF WriteAction, UpdateSspResource, SetSspResourceDeploying, Pause,
           UpdateStatusMissingCrds, PreUpdateStatus, UpdateStatus, HandleError,
           CleanupStatus, CleanupDone, SetDeleted, OnlySsp, operandVars
  <1>3. CASE UpdateSspResource
    <2> DEFINE kept == IF isInitialized(inst) THEN inst.fin \ {"old"} ELSE inst.fin
               new == [inst EXCEPT !.fin = kept \cup {"new"}]
    <2>1. /\ new \in SspObject /\ new.obs = inst.obs /\ new.deleting = inst.deleting
          /\ hasFinalizer(new) /\ new.gen = inst.gen
      BY <1>1, Zenon DEF SspObject, hasFinalizer, OwnFinalizers, Finalizers
    <2>2. "new" \in inst.fin => hasFinalizer(inst)
      BY Zenon DEF hasFinalizer, OwnFinalizers
    <2>3. CASE ssp' = ssp
      BY <1>2, <2>3, Zenon
    <2>4. CASE Write(new, FALSE, "setSspResourceDeploying", Failed)
               /\ ~(fresh /\ inst.deleting /\ "new" \notin inst.fin)
      BY <1>0, <1>1, <1>2, <2>1, <2>2, <2>4, Zenon DEF FinalizerWrite
    <2> QED
      BY <1>3, <2>3, <2>4, Zenon DEF UpdateSspResource, server
  <1>4. CASE SetSspResourceDeploying
    <2> DEFINE new == [inst EXCEPT !.phase = "Deploying", !.obs = inst.gen]
    <2>1. new \in SspObject /\ new.obs = inst.gen /\ StatusWrite(new)
      BY <1>1, Zenon DEF SspObject, Phases, StatusWrite, SameMeta
    <2> QED
      BY <1>0, <1>1, <1>2, <1>4, <2>1, Zenon DEF SetSspResourceDeploying
  <1>5. CASE Pause
    <2> DEFINE new == [inst EXCEPT !.paused = TRUE]
    <2>1. new \in SspObject /\ new.obs = inst.obs /\ StatusWrite(new)
      BY <1>1, Zenon DEF SspObject, StatusWrite, SameMeta
    <2> QED
      BY <1>0, <1>1, <1>2, <1>5, <2>1, Zenon DEF Pause
  <1>6. CASE UpdateStatusMissingCrds
    <2> DEFINE new == [inst EXCEPT !.good = FALSE]
    <2>1. new \in SspObject /\ new.obs = inst.obs /\ StatusWrite(new)
      BY <1>1, Zenon DEF SspObject, StatusWrite, SameMeta
    <2> QED
      BY <1>0, <1>1, <1>2, <1>6, <2>1, Zenon DEF UpdateStatusMissingCrds
  <1>7. CASE PreUpdateStatus
    <2> DEFINE new == [inst EXCEPT !.phase = "Deploying", !.obs = inst.gen,
                                   !.paused = FALSE, !.good = FALSE]
    <2>1. new \in SspObject /\ new.obs = inst.gen /\ StatusWrite(new)
      BY <1>1, Zenon DEF SspObject, Phases, StatusWrite, SameMeta
    <2> QED
      BY <1>0, <1>1, <1>2, <1>7, <2>1, Zenon DEF PreUpdateStatus
  <1>8. CASE UpdateStatus
    <2> DEFINE new == [inst EXCEPT !.phase = IF allDone THEN "Deployed" ELSE "Deploying",
                                   !.obs = inst.gen, !.paused = FALSE, !.good = allDone]
    <2>0. allDone \in BOOLEAN
      BY Zenon DEF IInv, TypeOK
    <2>1. new \in SspObject /\ new.obs = inst.gen /\ StatusWrite(new)
      BY <1>1, <2>0, Zenon DEF SspObject, Phases, StatusWrite, SameMeta
    <2> QED
      BY <1>0, <1>1, <1>2, <1>8, <2>1, Zenon DEF UpdateStatus
  <1>9. CASE HandleError
    <2> DEFINE new == [inst EXCEPT !.phase = "Deploying", !.good = FALSE]
    <2>1. new \in SspObject /\ new.obs = inst.obs /\ StatusWrite(new)
      BY <1>1, Zenon DEF SspObject, Phases, StatusWrite, SameMeta
    <2> QED
      BY <1>0, <1>1, <1>2, <1>9, <2>1, Zenon DEF HandleError
  <1>10. CASE CleanupStatus
    <2> DEFINE new == [inst EXCEPT !.phase = "Deleting", !.obs = inst.gen, !.good = FALSE]
    <2>1. new \in SspObject /\ new.obs = inst.gen /\ StatusWrite(new)
      BY <1>1, Zenon DEF SspObject, Phases, StatusWrite, SameMeta
    <2> QED
      BY <1>0, <1>1, <1>2, <1>10, <2>1, Zenon DEF CleanupStatus
  <1>11. CASE CleanupDone
    <2> DEFINE new == [inst EXCEPT !.fin = inst.fin \ OwnFinalizers]
    <2>1. CASE allDone
      <3>1. /\ new \in SspObject /\ new.obs = inst.obs /\ new.deleting = inst.deleting
            /\ new.gen = inst.gen /\ ~hasFinalizer(new)
        BY <1>1, Zenon DEF SspObject, hasFinalizer
      <3>2. ReleaseWrite(new) /\ Write(new, FALSE, "setDeleted", Failed)
        BY <1>11, <2>1, <3>1, Zenon DEF CleanupDone, ReleaseWrite, IInv, WorkerInv
      <3> QED
        BY <1>0, <1>1, <1>2, <3>1, <3>2, Zenon
    <2>2. CASE ~allDone
      BY <1>2, <1>11, <2>2, Zenon DEF CleanupDone, server
    <2> QED
      BY <2>1, <2>2, Zenon
  <1>12. CASE SetDeleted
    <2> DEFINE new == [inst EXCEPT !.phase = "Deleted", !.obs = inst.gen]
    <2>1. new \in SspObject /\ new.obs = inst.gen /\ StatusWrite(new)
      BY <1>1, Zenon DEF SspObject, Phases, StatusWrite, SameMeta
    <2> QED
      BY <1>0, <1>1, <1>2, <1>12, <2>1, Zenon DEF SetDeleted
  <1> QED
    BY <1>3, <1>4, <1>5, <1>6, <1>7, <1>8, <1>9, <1>10, <1>11, <1>12, SMTT(20), ZenonT(40) DEF WriteAction

\* Writes of the SSP by users and by the garbage collector.
OthersWrite ==
    UserCreate \/ UserEditSpec \/ UserPause \/ UserDelete \/ ForegroundDone

\* They keep the finalizers of the operator and the status, and a deletion can not
\* be taken back.
OthersStore(new) ==
    /\ ssp # NoSsp /\ ssp' = Kept(new)
    /\ new.obs = ssp.obs
    /\ hasFinalizer(new) <=> hasFinalizer(ssp)
    /\ ssp.deleting => new.deleting

\* A write of a user or of the garbage collector creates an SSP without
\* finalizers, or is such a store.
LEMMA OthersWritesLemma ==
    ASSUME IInv, OthersWrite
    PROVE  /\ res' = res
           /\ \/ /\ ssp = NoSsp
                 /\ ssp' \in SspObject /\ ~hasFinalizer(ssp')
              \/ \E new \in SspObject : OthersStore(new)
  <1>0. res' = res /\ ssp \in SspObject \cup {NoSsp}
    BY Zenon DEF OthersWrite, UserCreate, UserEditSpec, UserPause, UserDelete, ForegroundDone,
           UserWrite, operandVars, IInv, TypeOK
  <1>1. CASE UserCreate
    <2>1. PICK spec \in Specs, ann \in BOOLEAN : ssp = NoSsp /\ ssp' = Kept(NewSsp(spec, ann))
      BY <1>1, SMTT(20), ZenonT(40) DEF UserCreate, UserWrite, Store
    <2>2. NewSsp(spec, ann) \in SspObject /\ ~hasFinalizer(NewSsp(spec, ann))
          /\ ~NewSsp(spec, ann).deleting
      BY Zenon DEF NewSsp, SspObject, Finalizers, Phases, hasFinalizer
    <2> QED
      BY <1>0, <2>1, <2>2, KeptLemma, Zenon
  <1>2. CASE UserEditSpec
    <2>1. PICK spec \in Specs :
             ssp # NoSsp /\ ssp' = Kept([ssp EXCEPT !.spec = spec, !.gen = ssp.gen + 1])
      BY <1>2, Zenon DEF UserEditSpec, UserWrite, Store
    <2>2. ssp \in SspObject /\ ssp.gen + 1 \in Nat
      <3>1. ssp \in SspObject
        BY <1>0, <2>1, Zenon
      <3> QED
        BY <3>1 DEF SspObject
    <2> DEFINE new == [ssp EXCEPT !.spec = spec, !.gen = ssp.gen + 1]
    <2>3. new \in SspObject /\ new.obs = ssp.obs /\ new.fin = ssp.fin
          /\ new.deleting = ssp.deleting
      BY <2>2, Zenon DEF SspObject
    <2> QED
      BY <1>0, <2>1, <2>3, Zenon DEF OthersStore, hasFinalizer
  <1>3. CASE UserPause
    <2> DEFINE new == [ssp EXCEPT !.ann = ~ssp.ann]
    <2>1. ssp \in SspObject /\ ssp # NoSsp /\ ssp' = Kept(new)
      BY <1>0, <1>3, Zenon DEF UserPause, UserWrite, Store
    <2>2. new \in SspObject /\ new.obs = ssp.obs /\ new.fin = ssp.fin
          /\ new.deleting = ssp.deleting
      BY <2>1, Zenon DEF SspObject
    <2> QED
      BY <1>0, <2>1, <2>2, Zenon DEF OthersStore, hasFinalizer
  <1>4. CASE UserDelete
    <2>1. PICK extra \in {{}, {"foreground"}} :
             ssp' = Kept([ssp EXCEPT !.deleting = TRUE, !.gen = ssp.gen + 1,
                                     !.fin = ssp.fin \cup extra])
      BY <1>4, Zenon DEF UserDelete, UserWrite, Store
    <2> DEFINE new == [ssp EXCEPT !.deleting = TRUE, !.gen = ssp.gen + 1,
                                  !.fin = ssp.fin \cup extra]
    <2>2. ssp \in SspObject /\ ssp # NoSsp
      BY <1>0, <1>4, Zenon DEF UserDelete
    <2>3. ssp.gen + 1 \in Nat /\ ssp.fin \cup extra \in SUBSET Finalizers
      BY <2>2 DEF SspObject, Finalizers
    <2>4. new \in SspObject /\ new.obs = ssp.obs /\ new.fin = ssp.fin \cup extra
          /\ new.deleting
      BY <2>2, <2>3, Zenon DEF SspObject
    <2>5. hasFinalizer(new) <=> hasFinalizer(ssp)
      BY <2>4, Zenon DEF hasFinalizer, OwnFinalizers
    <2> QED
      BY <1>0, <2>1, <2>2, <2>4, <2>5, Zenon DEF OthersStore
  <1>5. CASE ForegroundDone
    <2> DEFINE new == [ssp EXCEPT !.fin = ssp.fin \ {"foreground"}]
    <2>1. ssp \in SspObject /\ ssp # NoSsp /\ ssp' = Kept(new)
      BY <1>0, <1>5, Zenon DEF ForegroundDone, Store
    <2>2. new \in SspObject /\ new.obs = ssp.obs /\ new.fin = ssp.fin \ {"foreground"}
          /\ new.deleting = ssp.deleting
      BY <2>1, Zenon DEF SspObject
    <2>3. hasFinalizer(new) <=> hasFinalizer(ssp)
      BY <2>2, Zenon DEF hasFinalizer, OwnFinalizers
    <2> QED
      BY <1>0, <2>1, <2>2, <2>3, Zenon DEF OthersStore
  <1> QED
    BY <1>1, <1>2, <1>3, <1>4, <1>5, Zenon DEF OthersWrite

\* All other steps leave the SSP alone.
OtherStep ==
    \/ Start \/ ReconcileOperand \/ CleanupOperand \/ Return
    \/ Watch \/ (\E o \in Operands : UserDeletesResource(o) \/ BecomeReady(o) \/ Vanish(o))
    \/ Restart \/ UNCHANGED vars

\* Every step is a write of the worker, a write of others, or leaves the SSP alone.
LEMMA StepKinds == [Next]_vars => WriteAction \/ OthersWrite \/ OtherStep
  BY Zenon DEF Next, Reconcile, User, Cluster, WriteAction, OthersWrite, OtherStep

\* The steps that remain do not write the SSP.
LEMMA OtherStepLemma == OtherStep => ssp' = ssp
  BY Zenon DEF OtherStep, Start, ReconcileOperand, CleanupOperand, Return, Watch, DeliverSsp,
         DeliverResource, BackoffOver, UserDeletesResource, BecomeReady, Vanish, Restart,
         OperandStep, server, vars

-----------------------------------------------------------------------------
\* A status update of the operator sets ObservedGeneration to the generation that
\* the stored object has: the write is refused unless the worker's copy, whose
\* generation it reports, is the stored version.
THEOREM ObservedGenerationIsExact == Spec => ObservedGenerationExact
  <1> DEFINE Exact == ssp # NoSsp /\ ssp' # NoSsp /\ ssp'.obs # ssp.obs => ssp'.obs = ssp.gen
  <1>1. IInv /\ [Next]_vars => Exact
    <2> SUFFICES ASSUME IInv, [Next]_vars PROVE Exact
      BY SMTT(20), ZenonT(40)
    <2>1. ASSUME NEW new \in SspObject, WorkerStores(new) PROVE Exact
      BY <2>1, KeptLemma, SMTT(20), ZenonT(40)
         DEF WorkerStores, StatusWrite, FinalizerWrite, ReleaseWrite, UpToDate, SameMeta
    <2>2. ASSUME NEW new \in SspObject, OthersStore(new) PROVE Exact
      BY <2>2, KeptLemma, Zenon DEF OthersStore
    <2> QED
      BY <2>1, <2>2, StepKinds, WritesLemma, OthersWritesLemma, OtherStepLemma, Zenon
  <1> QED
    BY <1>1, Invariance, PTL DEF Spec, ObservedGenerationExact

-----------------------------------------------------------------------------
(* The controller implements FinalizerProtocol                              *)

existing == {o \in Operands : res[o].st # "absent"}

\* What the steps that leave the SSP alone do to the operands' resources: at most
\* one is made, or is gone.
LEMMA ResourcesStepLemma ==
    ASSUME IInv, OtherStep
    PROVE  \/ existing' = existing
           \/ Own(ssp) /\ \E o \in Operands : existing' = existing \cup {o}
           \/ \E o \in Operands : existing' = existing \ {o}
  <1>0. res \in [Operands -> Resource]
    BY Zenon DEF IInv, TypeOK
  <1>1. ASSUME NEW o \in Operands, NEW r, Touch(o, r), r.st # "absent"
        PROVE  existing' = existing \cup {o}
    BY <1>0, <1>1, Zenon DEF Touch, existing
  <1>2. CASE res' = res
    BY <1>2, Zenon DEF existing
  <1>3. CASE ReconcileOperand
    <2>1. Own(ssp) /\ idx \in Operands
      <3>1. pc = "reconcileOperands" /\ idx <= N
        BY <1>3, Zenon DEF ReconcileOperand
      <3>2. Own(ssp)
        BY <3>1, Zenon DEF IInv, WorkerInv
      <3>3. idx \in Nat \ {0}
        BY DEF IInv, TypeOK
      <3> QED
        BY <3>1, <3>2, <3>3, ConstantsAssumption DEF Operands
    <2>2. \/ res' = res
          \/ \E ready \in BOOLEAN :
               Touch(idx, [st |-> "live", spec |-> inst.spec, ready |-> ready])
      BY <1>3, Zenon DEF ReconcileOperand, OperandError
    <2> QED
      BY <1>1, <1>2, <2>1, <2>2, Zenon
  <1>4. CASE CleanupOperand
    <2>1. idx \in Operands
      BY <1>4 DEF CleanupOperand, IInv, TypeOK, Operands
    <2>2. \/ res' = res
          \/ res[idx].st = "live" /\ Touch(idx, [res[idx] EXCEPT !.st = "deleting"])
      BY <1>4, Zenon DEF CleanupOperand, OperandError
    <2>3. res[idx] \in Resource
      BY <1>0, <2>1, Zenon
    <2>4. [res[idx] EXCEPT !.st = "deleting"].st # "absent"
      BY <2>3, Zenon DEF Resource
    <2>5. res[idx].st = "live" => idx \in existing
      BY <2>1, Zenon DEF existing
    <2> QED
      <3>1. CASE res' = res
        BY <1>2, <3>1, Zenon
      <3>2. CASE res[idx].st = "live" /\ Touch(idx, [res[idx] EXCEPT !.st = "deleting"])
        <4>1. existing' = existing \cup {idx}
          BY <1>1, <2>1, <2>4, <3>2, Zenon
        <4> QED
          BY <2>5, <3>2, <4>1, Zenon
      <3> QED
        BY <2>2, <3>1, <3>2, Zenon
  <1>5. ASSUME NEW o \in Operands, UserDeletesResource(o) PROVE existing' = existing
    <2>1. res[o] \in Resource /\ o \in existing
      BY <1>0, <1>5, Zenon DEF UserDeletesResource, existing
    <2>2. [res[o] EXCEPT !.st = "deleting"].st # "absent"
      BY <2>1, Zenon DEF Resource
    <2> QED
      BY <1>1, <1>5, <2>1, <2>2, Zenon DEF UserDeletesResource
  <1>6. ASSUME NEW o \in Operands, BecomeReady(o) PROVE existing' = existing
    BY <1>0, <1>6, Zenon DEF BecomeReady, existing, Resource
  <1>7. ASSUME NEW o \in Operands, Vanish(o) PROVE existing' = existing \ {o}
    BY <1>0, <1>7, Zenon DEF Vanish, Touch, NoResource, existing
  <1> QED
    BY <1>2, <1>3, <1>4, <1>5, <1>6, <1>7, Zenon
       DEF OtherStep, Start, Return, Watch, DeliverSsp, DeliverResource, BackoffOver,
           Restart, operandVars, vars

\* A write of the worker: a status write changes nothing, a finalizer guards the
\* SSP, and the guard is released when no resource is left.
LEMMA WorkerStoresLemma ==
    ASSUME IInv, ~LaggingRes, NEW new \in SspObject, WorkerStores(new), res' = res
    PROVE  [Finalizing!Next]_<<ownerState, existing>>
  <1>0. /\ ssp # NoSsp /\ existing' = existing /\ ssp' = Kept(new) /\ NoSsp \notin SspObject
        /\ inst.fin = ssp.fin /\ inst.deleting = ssp.deleting
        /\ hasFinalizer(inst) = hasFinalizer(ssp)
    BY Zenon, ConstantsAssumption
       DEF WorkerStores, UpToDate, SameMeta, existing, hasFinalizer
  <1>1. CASE StatusWrite(new)
    <2>1. new.fin = ssp.fin /\ new.deleting = ssp.deleting
      BY <1>0, <1>1, SMTT(20), ZenonT(40) DEF StatusWrite, SameMeta
    <2>2. CASE Kept(new) = new
      BY <1>0, <2>1, <2>2, SMTT(20), ZenonT(40) DEF ownerState, hasFinalizer
    <2>3. CASE Kept(new) = NoSsp /\ ~hasFinalizer(ssp)
      BY <1>0, <2>3, SMTT(20), ZenonT(40) DEF ownerState, Finalizing!Next, Finalizing!Delete, existing
    <2> QED
      BY <2>1, <2>2, <2>3, KeptLemma, Zenon DEF hasFinalizer
  <1>2. CASE FinalizerWrite(new)
    <2>1. /\ ssp' = new /\ hasFinalizer(new) /\ new.deleting = ssp.deleting
          /\ new # NoSsp /\ (ssp.deleting => hasFinalizer(ssp))
      BY <1>0, <1>2, KeptLemma, SMTT(20), ZenonT(40) DEF FinalizerWrite
    <2> QED
      BY <1>0, <2>1, Zenon DEF ownerState, Finalizing!Next, Finalizing!Guard, existing
  <1>3. CASE ReleaseWrite(new)
    <2>1. hasFinalizer(ssp) /\ ssp.deleting
      BY <1>0, <1>3, Zenon DEF ReleaseWrite, IInv, WorkerInv
    <2>2. existing = {}
      <3>1. idx \in Nat /\ N \in Nat /\ idx > N
        BY <1>3, ConstantsAssumption DEF ReleaseWrite, IInv, TypeOK
      <3>2. \A o \in Operands : o < idx
        BY <3>1 DEF Operands
      <3> QED
        BY <1>3, <3>2, Zenon DEF ReleaseWrite, IInv, ResourceInv, existing
    <2>3. ssp' = NoSsp \/ (ssp' # NoSsp /\ ~hasFinalizer(ssp'))
      BY <1>0, <1>3, KeptLemma, Zenon DEF ReleaseWrite
    <2> QED
      BY <1>0, <2>1, <2>2, <2>3, SMTT(20), ZenonT(40) DEF ownerState, Finalizing!Next, Finalizing!Release, existing
  <1> QED
    BY <1>1, <1>2, <1>3, SMTT(20), ZenonT(40) DEF WorkerStores

\* A write of a user or of the garbage collector: the SSP is created bare, or its
\* deletion is requested, or the protocol does not see it.
LEMMA OthersStoreLemma ==
    ASSUME NEW new \in SspObject, OthersStore(new), res' = res
    PROVE  [Finalizing!Next]_<<ownerState, existing>>
  <1>0. /\ ssp # NoSsp /\ existing' = existing /\ ssp' = Kept(new) /\ NoSsp \notin SspObject
        /\ hasFinalizer(new) <=> hasFinalizer(ssp)
    BY ConstantsAssumption, ZenonT(40) DEF OthersStore, existing
  <1>1. CASE hasFinalizer(ssp)
    <2>1. ssp' = new /\ new # NoSsp /\ hasFinalizer(new)
      BY <1>0, <1>1, KeptLemma, Zenon
    <2>2. ownerState = "guarded" \/ (ownerState = "leaving" /\ new.deleting)
      BY <1>0, <1>1, Zenon DEF ownerState, OthersStore
    <2>3. ownerState' = IF new.deleting THEN "leaving" ELSE "guarded"
      BY <2>1, Zenon DEF ownerState
    <2>4. CASE ownerState' = ownerState
      BY <1>0, <2>4, Zenon
    <2>5. CASE ownerState = "guarded" /\ ownerState' = "leaving"
      BY <1>0, <2>5, Zenon DEF Finalizing!Next, Finalizing!Delete, existing
    <2> QED
      BY <2>2, <2>3, <2>4, <2>5, Zenon
  <1>2. CASE ~hasFinalizer(ssp)
    BY <1>0, <1>2, KeptLemma, Zenon DEF ownerState, Finalizing!Next, Finalizing!Delete, existing
  <1> QED
    BY <1>1, <1>2, SMTT(20), ZenonT(40)

\* The controller, with its caches, retries and restarts, implements the finalizer
\* protocol, provided that cleanup reads up-to-date caches of the resources.
THEOREM FinalizerProtocolIsImplemented ==
    ASSUME ~LaggingRes
    PROVE  Spec => ImplementsFinalizerProtocol
  <1>1. Init => Finalizing!Init
    <2> SUFFICES ASSUME Init PROVE Finalizing!Init
      BY Zenon
    <2>1. CASE ssp = NoSsp /\ res = [o \in Operands |-> NoResource]
      BY <2>1, Zenon DEF Finalizing!Init, ownerState, NoResource
    <2>2. CASE \E spec \in Specs :
                  /\ ssp = LegacySsp(spec)
                  /\ res = [o \in Operands |-> [st |-> "live", spec |-> spec, ready |-> TRUE]]
      <3>1. PICK spec \in Specs :
                  /\ ssp = LegacySsp(spec)
                  /\ res = [o \in Operands |-> [st |-> "live", spec |-> spec, ready |-> TRUE]]
        BY <2>2, Zenon
      <3>2. LegacySsp(spec) \in SspObject /\ LegacySsp(spec).fin = {"old"}
            /\ ~LegacySsp(spec).deleting
        BY Zenon DEF LegacySsp, NewSsp, SspObject, Finalizers, OwnFinalizers, Phases
      <3>3. ssp # NoSsp /\ hasFinalizer(ssp) /\ ~ssp.deleting
        BY <3>1, <3>2, ConstantsAssumption, Zenon DEF hasFinalizer, OwnFinalizers
      <3> QED
        BY <3>1, <3>3, Zenon DEF Finalizing!Init, ownerState
    <2> QED
      BY <2>1, <2>2, Zenon DEF Init
  <1>2. IInv /\ [Next]_vars => [Finalizing!Next]_Finalizing!vars
    <2> SUFFICES ASSUME IInv, [Next]_vars PROVE [Finalizing!Next]_<<ownerState, existing>>
      BY Zenon DEF Finalizing!vars, existing
    <2>1. CASE WriteAction
      <3>1. CASE ssp' = ssp
        BY <2>1, <3>1, WritesLemma, Zenon DEF ownerState, existing
      <3> QED
        BY <2>1, <3>1, WritesLemma, WorkerStoresLemma, SMTT(20), ZenonT(40)
    <2>2. CASE OthersWrite
      <3>1. CASE ssp = NoSsp /\ ssp' \in SspObject /\ ~hasFinalizer(ssp')
        BY <2>2, <3>1, OthersWritesLemma, ConstantsAssumption, SMTT(20), ZenonT(40)
           DEF ownerState, existing, Finalizing!Next, Finalizing!Create
      <3> QED
        BY <2>2, <3>1, OthersWritesLemma, OthersStoreLemma, SMTT(20), ZenonT(40)
    <2>3. CASE OtherStep
      <3>1. ownerState' = ownerState
        BY <2>3, OtherStepLemma, Zenon DEF ownerState
      <3>2. Own(ssp) => ownerState \in {"guarded", "leaving"}
        BY Zenon DEF Own, ownerState
      <3> QED
        BY Zenon, <2>3, <3>1, <3>2, ResourcesStepLemma
           DEF Finalizing!Next, Finalizing!Make, Finalizing!Lose, existing
    <2> QED
      BY <2>1, <2>2, <2>3, StepKinds, Zenon
  <1> QED
    BY <1>1, <1>2, Invariance, PTL DEF Spec, ImplementsFinalizerProtocol, Finalizing!Spec

\* The finalizer protocol keeps its promise for any set of things: they are made
\* and kept only under a guarded owner.
LEMMA ProtocolLeavesNothingBehind == Finalizing!Spec => []Finalizing!NothingLeftBehind
  <1> DEFINE P == Finalizing!NothingLeftBehind
  <1>1. Finalizing!Init => P
    BY SMTT(20), ZenonT(40) DEF Finalizing!Init, Finalizing!NothingLeftBehind
  <1>2. P /\ [Finalizing!Next]_Finalizing!vars => P'
    <2> SUFFICES ASSUME P, [Finalizing!Next]_Finalizing!vars PROVE P'
      BY Zenon
    <2> USE DEF Finalizing!NothingLeftBehind
    <2>1. CASE Finalizing!Create \/ Finalizing!Guard \/ Finalizing!Delete \/ Finalizing!Release
      BY <2>1, Zenon DEF Finalizing!Create, Finalizing!Guard, Finalizing!Delete, Finalizing!Release
    <2>2. ASSUME NEW t \in Operands, Finalizing!Make(t) \/ Finalizing!Lose(t) PROVE P'
      BY <2>2, Zenon DEF Finalizing!Make, Finalizing!Lose
    <2>3. CASE UNCHANGED Finalizing!vars
      BY <2>3, Zenon DEF Finalizing!vars
    <2> QED
      BY <2>1, <2>2, <2>3, Zenon DEF Finalizing!Next
  <1> QED
    BY <1>1, <1>2, PTL DEF Finalizing!Spec

\* Hence no resource of an operand is left behind by the controller: while one
\* exists, the SSP exists and keeps a finalizer of the operator.
THEOREM NothingIsLeftBehind ==
    ASSUME ~LaggingRes
    PROVE  Spec => []Finalizing!NothingLeftBehind
  BY FinalizerProtocolIsImplemented, ProtocolLeavesNothingBehind, PTL DEF ImplementsFinalizerProtocol

-----------------------------------------------------------------------------
(***************************************************************************)
(* No wake-up of the SSP controller is lost: when no request is queued and *)
(* no event is on its way, operands, status and metric agree with the spec *)
(* of the SSP (Converged), when the status of every operand's resource is  *)
(* watched and cleanup reads up-to-date copies.                            *)
(***************************************************************************)
\* Of the version c and those that follow in s: the i-th, and that none after it
\* triggers a reconciliation.
Version(c, s, i) == IF i = 0 THEN c ELSE s[i]
QuietFrom(c, s, i) ==
    \A j \in (i + 1)..Len(s) : ~sspPredicate(Version(c, s, j - 1), Version(c, s, j))

\* No version that the informer is going to receive triggers a reconciliation.
Quiet == QuietFrom(cache, stream, 0)

\* Between the versions v and w nothing happened that sspPredicate lets pass; then
\* an SSP that is paused, and marked as paused, still is.
Calm(v, w) ==
    v = w \/ (~sspPredicate(v, w) /\ (v.ann /\ v.paused => w.paused))

CalmFrom(c, s, last) ==
    \A i \in 0..Len(s) : QuietFrom(c, s, i) => Calm(Version(c, s, i), last)

\* A reconciliation is going to start: it is queued, or an event will queue it.
Astir ==
    \/ queue # "none"
    \/ ~Quiet
    \/ \E o \in Operands : ev[o] # "none" \/ res[o].st = "deleting"

AllAbsent == \A o \in Operands : res[o].st = "absent"

Initialized(v) == v # NoSsp /\ v.phase # "Empty"

\* What a cached version tells when no event is on its way that sspPredicate lets
\* pass, and that an SSP with resources has been initialized.
VersionsInv ==
    /\ CalmFrom(cache, stream, ssp)
    /\ \A v \in Known : Guarded(v) /\ Initialized(v) => Initialized(ssp)
    /\ AllAbsent \/ Initialized(ssp)
    /\ pc \in {"preUpdateStatus", "reconcileOperands"} => Initialized(ssp)

\* What the conditions of Reconcile that led to a call say.
CallInv ==
    /\ fresh /\ pc \in Active \ {"handleError"} => inst = ssp
    /\ pc = "updateSspResource" => ~isInitialized(inst) \/ "old" \in inst.fin
    /\ pc = "pause" => inst.ann /\ ~inst.deleting
    /\ pc = "updateStatusMissingCrds" => ~inst.ann /\ ~inst.deleting /\ crdsMissing
    /\ pc \in {"preUpdateStatus", "reconcileOperands"} =>
          ~inst.ann /\ ~inst.deleting /\ ~crdsMissing /\ lastSpec = inst.spec
    /\ pc \in {"preUpdateStatus", "cleanup"} => idx = 1 /\ allDone
    /\ pc = "handleError" => ~inst.ann /\ (fresh => ~sspPredicate(ssp, inst))

\* A version in the cache is one of the spec that Reconcile has last seen.
MemoryInv ==
    /\ \A o \in Operands : vc[o] \in {NoSpec, lastSpec}
    /\ \A o \in Operands : res[o].st # "absent" => res[o].spec # NoSpec
    /\ \A o \in Operands : seen[o].st # "absent" => seen[o].spec # NoSpec
    /\ \A o \in Operands : ev[o] # "irrelevant"

\* Where the worker is done, or done with some operands, they are as they should
\* be unless another reconciliation is going to start.
DoneInv ==
    /\ pc = "reconcileOperands" /\ ~Astir =>
          /\ \A o \in Operands : o < idx => res[o].st = "live" /\ res[o].spec = inst.spec
          /\ allDone <=> \A o \in Operands : o < idx => res[o].ready
    /\ pc = "cleanupOperands" /\ ~allDone => Astir
    /\ pc \in {"setSspResourceDeploying", "setDeleted"} => Astir \/ AllAbsent
    /\ pc \in {"idle", "return", "returnClear"} => Astir \/ AllAbsent \/ InStep(ssp)

WInv == VersionsInv /\ CallInv /\ MemoryInv /\ DoneInv

\* Calm is reflexive and transitive.
LEMMA CalmLemma ==
    /\ \A v : Calm(v, v)
    /\ \A v, w, x : Calm(v, w) /\ Calm(w, x) => Calm(v, x)
  BY DEF Calm, sspPredicate, relevantChangesPredicate, SpecChanged, DeletionTimestampChanged,
         FinalizerChanged

\* One more version triggers a reconciliation, or is calm after the last one.
LEMMA AppendCalm ==
    ASSUME NEW V, NEW c, NEW s \in Seq(V), NEW last, NEW x \in V, CalmFrom(c, s, last),
           s = <<>> => c = last, s # <<>> => last = s[Len(s)],
           sspPredicate(last, x) \/ Calm(last, x)
    PROVE  /\ CalmFrom(c, Append(s, x), x)
           /\ QuietFrom(c, Append(s, x), 0) => QuietFrom(c, s, 0) /\ ~sspPredicate(last, x)
  <1> DEFINE n == Len(s)
             t == Append(s, x)
  <1>1. /\ n \in Nat /\ Len(t) = n + 1 /\ t[n + 1] = x
        /\ \A i \in 1..n : t[i] = s[i]
    OBVIOUS
  <1> HIDE DEF t
  <1>2. Version(c, s, n) = last
    <2>1. n = 0 => s = <<>>
      OBVIOUS
    <2> QED
      BY <1>1, <2>1, Zenon DEF Version
  <1>3. Version(c, t, n + 1) = x /\ \A i \in 0..n : Version(c, t, i) = Version(c, s, i)
    BY <1>1 DEF Version
  <1>4. ASSUME NEW i \in 0..n, QuietFrom(c, t, i)
        PROVE  QuietFrom(c, s, i) /\ ~sspPredicate(last, x)
    <2>1. n + 1 \in (i + 1)..Len(t) /\ (n + 1) - 1 = n
      BY <1>1
    <2>2. ~sspPredicate(Version(c, t, n), Version(c, t, n + 1))
      BY <1>4, <2>1, Zenon DEF QuietFrom
    <2>3. ~sspPredicate(last, x)
      BY <1>1, <1>2, <1>3, <2>2
    <2>4. ASSUME NEW j \in (i + 1)..n
          PROVE  ~sspPredicate(Version(c, s, j - 1), Version(c, s, j))
      <3>1. j \in (i + 1)..Len(t) /\ j \in 0..n /\ j - 1 \in 0..n
        BY <1>1
      <3> QED
        BY <1>3, <1>4, <3>1, Zenon DEF QuietFrom
    <2> QED
      BY <2>3, <2>4, Zenon DEF QuietFrom
  <1>5. ASSUME NEW i \in 0..Len(t), QuietFrom(c, t, i) PROVE Calm(Version(c, t, i), x)
    <2>1. CASE i = n + 1
      BY <1>3, <2>1, CalmLemma, Zenon
    <2>2. CASE i \in 0..n
      <3>1. QuietFrom(c, s, i) /\ ~sspPredicate(last, x)
        BY <1>4, <1>5, <2>2, Zenon
      <3>2. Calm(Version(c, s, i), last) /\ Calm(last, x)
        BY <2>2, <3>1, Zenon DEF CalmFrom
      <3> QED
        BY <1>3, <2>2, <3>2, CalmLemma, Zenon
    <2> QED
      BY <1>1, <2>1, <2>2
  <1>6. 0 \in 0..n
    BY <1>1
  <1> QED
    BY <1>4, <1>5, <1>6, Zenon DEF CalmFrom, t

\* The version that comes next triggers a reconciliation, or one after it does, if
\* there is one that does.
LEMMA TailCalm ==
    ASSUME NEW V, NEW c, NEW s \in Seq(V), NEW last, CalmFrom(c, s, last), s # <<>>
    PROVE  /\ CalmFrom(Head(s), Tail(s), last)
           /\ QuietFrom(Head(s), Tail(s), 0) /\ ~sspPredicate(c, Head(s)) => QuietFrom(c, s, 0)
  <1> DEFINE n == Len(s)
             t == Tail(s)
             d == Head(s)
  <1>1. /\ n \in Nat /\ n > 0 /\ Len(t) = n - 1 /\ d = s[1]
        /\ \A i \in 1..(n - 1) : t[i] = s[i + 1]
    OBVIOUS
  <1> HIDE DEF t, d
  <1>2. \A i \in 0..(n - 1) : Version(d, t, i) = Version(c, s, i + 1)
    BY <1>1 DEF Version
  <1>3. ASSUME NEW i \in 0..(n - 1), QuietFrom(d, t, i) PROVE QuietFrom(c, s, i + 1)
    <2>1. ASSUME NEW k \in ((i + 1) + 1)..n
          PROVE  ~sspPredicate(Version(c, s, k - 1), Version(c, s, k))
      <3>1. /\ k - 1 \in (i + 1)..Len(t) /\ k - 1 \in 0..(n - 1) /\ (k - 1) + 1 = k
            /\ (k - 1) - 1 \in 0..(n - 1) /\ ((k - 1) - 1) + 1 = k - 1
        BY <1>1
      <3>2. ~sspPredicate(Version(d, t, (k - 1) - 1), Version(d, t, k - 1))
        BY <1>3, <3>1, Zenon DEF QuietFrom
      <3>3. Version(d, t, (k - 1) - 1) = Version(c, s, k - 1) /\ Version(d, t, k - 1) = Version(c, s, k)
        BY <1>2, <3>1, SMTT(20), ZenonT(40)
      <3> QED
        BY <3>2, <3>3, Zenon
    <2> QED
      BY <2>1, Zenon DEF QuietFrom
  <1>4. ASSUME NEW i \in 0..Len(t), QuietFrom(d, t, i) PROVE Calm(Version(d, t, i), last)
    <2>1. i \in 0..(n - 1) /\ i + 1 \in 0..n
      BY <1>1
    <2> QED
      BY <1>2, <1>3, <1>4, <2>1, Zenon DEF CalmFrom
  <1>5. ASSUME QuietFrom(d, t, 0), ~sspPredicate(c, d) PROVE QuietFrom(c, s, 0)
    <2>1. QuietFrom(c, s, 1)
      <3>1. 0 \in 0..(n - 1) /\ 0 + 1 = 1
        BY <1>1
      <3> QED
        BY <1>3, <1>5, <3>1, Zenon
    <2>2. \A j \in (0 + 1)..n : j = 1 \/ j \in (1 + 1)..n
      BY <1>1
    <2>3. Version(c, s, 1 - 1) = c /\ Version(c, s, 1) = d
      BY <1>1 DEF Version
    <2> QED
      BY <1>5, <2>1, <2>2, <2>3, Zenon DEF QuietFrom
  <1> QED
    BY <1>4, <1>5, Zenon DEF CalmFrom, d, t

\* What a write, by whomever, does to the versions.
LEMMA StoredCalm ==
    ASSUME IInv, IInv', ~LaggingRes, VersionsInv,
           NEW new \in SspObject, NEW heartbeat \in BOOLEAN,
           Store(new, heartbeat), cache' = cache, res' = res,
           sspPredicate(ssp, Kept(new)) \/ Calm(ssp, Kept(new)),
           Initialized(ssp) => new.phase # "Empty",
           pc' \in {"preUpdateStatus", "reconcileOperands"}
               => pc \in {"preUpdateStatus", "reconcileOperands"}
    PROVE  /\ VersionsInv'
           /\ ~Quiet => ~Quiet'
           /\ Kept(new) # ssp /\ sspPredicate(ssp, Kept(new)) => ~Quiet'
  <1>1. /\ TypeOK /\ Latest /\ CalmFrom(cache, stream, ssp)
        /\ ssp' = Kept(new) /\ Kept(new) \in SspObject \cup {NoSsp}
    BY KeptLemma, Zenon DEF IInv, ServerInv, VersionsInv, Store
  <1>2. /\ CalmFrom(cache', stream', ssp')
        /\ ~Quiet => ~Quiet'
        /\ Kept(new) # ssp /\ sspPredicate(ssp, Kept(new)) => ~Quiet'
    <2>1. CASE stream' = Append(stream, Kept(new))
      <3> DEFINE V == SspObject \cup {NoSsp}
      <3>1. stream \in Seq(V) /\ Kept(new) \in V
        BY <1>1, Zenon DEF TypeOK
      <3> HIDE DEF V
      <3>2. /\ CalmFrom(cache, Append(stream, Kept(new)), Kept(new))
            /\ QuietFrom(cache, Append(stream, Kept(new)), 0)
                  => QuietFrom(cache, stream, 0) /\ ~sspPredicate(ssp, Kept(new))
        BY <1>1, <3>1, AppendCalm, Zenon DEF Latest
      <3> QED
        BY <1>1, <2>1, <3>2, Zenon DEF Quiet
    <2>2. CASE stream' = stream /\ Kept(new) = ssp
      BY <1>1, <2>2, Zenon DEF Quiet
    <2> QED
      BY <2>1, <2>2, Zenon DEF Store
  <1>3. ssp' # NoSsp => ssp' = new
    BY <1>1, KeptLemma, Zenon
  <1>4. Initialized(ssp) /\ ssp' # NoSsp => Initialized(ssp')
    BY <1>3, Zenon DEF Initialized
  <1>5. ASSUME NEW v \in Known', Guarded(v), Initialized(v) PROVE Initialized(ssp')
    <2>1. Known' \subseteq Known \cup {ssp'}
      BY <1>1, StoreLemma, Zenon
    <2>2. ssp' # NoSsp
      BY <1>5, Zenon DEF IInv, ServerInv, Own
    <2> QED
      BY <1>4, <1>5, <2>1, <2>2, Zenon DEF VersionsInv
  <1>6. AllAbsent' \/ Initialized(ssp')
    <2>1. ~AllAbsent' => ssp' # NoSsp
      BY ZenonT(40) DEF IInv, ResourceInv, OperandsProtected, AllAbsent
    <2>2. AllAbsent' <=> AllAbsent
      BY Zenon DEF AllAbsent
    <2> QED
      BY <1>4, <2>1, <2>2, SMTT(20), ZenonT(40) DEF VersionsInv
  <1>7. pc' \in {"preUpdateStatus", "reconcileOperands"} => Initialized(ssp')
    <2>1. pc' \in {"preUpdateStatus", "reconcileOperands"} => ssp' # NoSsp
      BY ZenonT(40) DEF IInv, WorkerInv, Own
    <2> QED
      BY <1>4, <2>1, SMTT(20), ZenonT(40) DEF VersionsInv
  <1>8. VersionsInv'
    BY <1>2, <1>5, <1>6, <1>7, Zenon DEF VersionsInv, Guarded, Own, hasFinalizer, Initialized
  <1> QED
    BY <1>2, <1>8, Zenon

\* Steps that leave the versions and the resources alone.
LEMMA SameCalm ==
    ASSUME VersionsInv, UNCHANGED <<ssp, stream, cache, res>>,
           pc' \in {"preUpdateStatus", "reconcileOperands"}
               => pc \in {"preUpdateStatus", "reconcileOperands"}
    PROVE  VersionsInv' /\ Quiet' = Quiet
  <1>1. Known' = Known /\ AllAbsent' = AllAbsent /\ Quiet' = Quiet
    BY Zenon DEF Known, AllAbsent, Quiet
  <1> QED
    BY <1>1, Zenon DEF VersionsInv

\* A step that changes neither the resources nor their events, and forgets neither
\* a request nor a version, leaves a reconciliation to come.
LEMMA AstirStays ==
    ASSUME UNCHANGED <<res, ev>>, ~Quiet => ~Quiet', queue # "none" => queue' # "none"
    PROVE  /\ Astir => Astir'
           /\ AllAbsent' <=> AllAbsent
  BY SMTT(20), ZenonT(40) DEF Astir, AllAbsent

\* The outcomes of a write of the worker.
LEMMA WriteCalm ==
    ASSUME IInv, IInv', ~LaggingRes, WInv, pc \in Active,
           NEW new \in SspObject, NEW heartbeat \in BOOLEAN, NEW ok, NEW fail,
           Write(new, heartbeat, ok, fail), OnlySsp,
           fresh => sspPredicate(ssp, Kept(new)) \/ Calm(ssp, Kept(new)),
           fresh /\ Initialized(ssp) => new.phase # "Empty",
           pc' \in {"preUpdateStatus", "reconcileOperands"}
               => pc \in {"preUpdateStatus", "reconcileOperands"}
    PROVE  /\ VersionsInv' /\ MemoryInv'
           /\ Astir => Astir'
           /\ AllAbsent' <=> AllAbsent
           /\ inst' = new
           /\ fresh' => fresh /\ ssp' \in {ssp, new}
           /\ pc' \notin {fail.conflict, fail.notFound, fail.error}
                 => /\ pc' = ok /\ fresh /\ ssp' = Kept(new)
                    /\ fresh' => ssp' # NoSsp
                    /\ Kept(new) # ssp /\ sspPredicate(ssp, Kept(new)) => Astir'
  <1>1. /\ UNCHANGED <<res, ev, seen, queue, vc, lastSpec, cache>> /\ inst' = new
    BY SMTT(20), ZenonT(40) DEF OnlySsp, operandVars, memory, Write
  <1>2. MemoryInv'
    BY <1>1, Zenon DEF WInv, MemoryInv
  <1>3. VersionsInv
    BY Zenon DEF WInv
  <1>4. CASE fresh /\ Store(new, heartbeat)
             /\ \/ pc' = ok /\ fresh' = (ssp' # NoSsp)
                \/ pc' = fail.error /\ fresh' = (stream' = stream)
    <2>1. /\ VersionsInv'
          /\ ~Quiet => ~Quiet'
          /\ Kept(new) # ssp /\ sspPredicate(ssp, Kept(new)) => ~Quiet'
      BY <1>1, <1>3, <1>4, StoredCalm, Zenon
    <2>2. (Astir => Astir') /\ (AllAbsent' <=> AllAbsent)
      BY <1>1, <2>1, AstirStays, Zenon
    <2>3. ssp' = Kept(new)
      BY <1>4, Zenon DEF Store
    <2>4. ~Quiet' => Astir'
      BY Zenon DEF Astir
    <2>5. fresh' => ssp' \in {ssp, new}
      <3>1. ssp' # NoSsp => ssp' = new
        BY <2>3, KeptLemma, Zenon
      <3>2. stream' = stream => ssp' = ssp
        BY <1>1, <1>4, StoreLemma, SMTT(20), ZenonT(40) DEF IInv, ServerInv
      <3> QED
        BY <1>4, <3>1, <3>2, Zenon
    <2> QED
      BY <1>1, <1>2, <1>4, <2>1, <2>2, <2>3, <2>4, <2>5, Zenon
  <1>5. CASE UNCHANGED <<ssp, stream, fresh>> /\ pc' \in {fail.conflict, fail.notFound, fail.error}
    <2>1. VersionsInv' /\ Quiet' = Quiet
      BY <1>1, <1>3, <1>5, SameCalm, Zenon
    <2>2. (Astir => Astir') /\ (AllAbsent' <=> AllAbsent)
      BY <1>1, <2>1, AstirStays, SMTT(20), ZenonT(40)
    <2> QED
      BY <1>1, <1>2, <1>5, <2>1, <2>2, SMTT(20), ZenonT(40)
  <1> QED
    BY <1>4, <1>5, Zenon DEF Write

\* An error is followed by another reconciliation.
LEMMA FailureCalm ==
    ASSUME VersionsInv', MemoryInv', pc' \in {"returnErr", "requeue"}
    PROVE  WInv'
  BY Zenon DEF WInv, CallInv, DoneInv, Active, Calls

-----------------------------------------------------------------------------
(* Converged: the writes of the worker *)

\* A write that changes the status only does not pass sspPredicate; a write of
\* anything else does.
LEMMA StatusIsCalm ==
    ASSUME NEW v \in SspObject, NEW w \in SspObject,
           w.spec = v.spec, w.ann = v.ann, w.fin = v.fin, w.deleting = v.deleting
    PROVE  /\ ~sspPredicate(v, w)
           /\ (v.ann => v.paused = w.paused \/ w.paused) => Calm(v, w)
  BY ConstantsAssumption, Zenon DEF sspPredicate, relevantChangesPredicate, SpecChanged,
     DeletionTimestampChanged, FinalizerChanged, Calm

\* The worker's status writes: what is stored is calm after the version before.
LEMMA StatusWriteCalm ==
    ASSUME IInv, WInv, pc \in Active \ {"handleError"}, fresh, NEW new \in SspObject,
           new.spec = inst.spec, new.ann = inst.ann, new.fin = inst.fin,
           new.deleting = inst.deleting, new.phase # "Empty" \/ new.phase = inst.phase,
           inst.ann => new.paused = inst.paused \/ new.paused
    PROVE  /\ sspPredicate(ssp, Kept(new)) \/ Calm(ssp, Kept(new))
           /\ Initialized(ssp) => new.phase # "Empty"
  <1>1. inst = ssp /\ inst \in SspObject
    <2>1. pc \in Active
      BY Zenon
    <2>2. inst \in SspObject
      BY <2>1, Zenon DEF IInv, WorkerInv
    <2>3. inst = ssp
      BY Zenon DEF WInv, CallInv
    <2> QED
      BY <2>2, <2>3, SMTT(20), ZenonT(40)
  <1>2. ssp # NoSsp
    BY <1>1, ConstantsAssumption, Zenon
  <1>3. Calm(ssp, new)
    BY <1>1, StatusIsCalm, Zenon
  <1>4. Kept(new) = NoSsp \/ Kept(new) = new
    BY KeptLemma, SMTT(20), ZenonT(40)
  <1> QED
    BY <1>1, <1>3, <1>4, Zenon DEF sspPredicate, Initialized

\* The end of a reconciliation.
LEMMA ReturnCalm ==
    ASSUME VersionsInv', MemoryInv', pc' \in {"return", "returnClear"},
           Astir' \/ AllAbsent' \/ InStep(ssp)'
    PROVE  WInv'
  BY Zenon DEF WInv, CallInv, DoneInv, Active, Calls

\* The worker's copy while it is about to make a call.
LEMMA CopyLemma ==
    ASSUME IInv, WInv, pc \in Active \ {"handleError"}
    PROVE  inst \in SspObject /\ (fresh => inst = ssp)
  <1>1. pc \in Active
    BY Zenon
  <1>2. inst \in SspObject
    BY <1>1, Zenon DEF IInv, WorkerInv
  <1>3. fresh => inst = ssp
    BY Zenon DEF WInv, CallInv
  <1> QED
    BY <1>2, <1>3, Zenon

\* initialize and updateSsp: the change of the finalizers makes an event; without
\* one the SSP was not initialized and has no resources.
LEMMA UpdateSspResourceCalm ==
    ASSUME IInv, IInv', ~LaggingRes, WInv, UpdateSspResource PROVE WInv'
  <1> DEFINE kept == IF isInitialized(inst) THEN inst.fin \ {"old"} ELSE inst.fin
             new == [inst EXCEPT !.fin = kept \cup {"new"}]
  <1>1. pc = "updateSspResource" /\ pc \in Active /\ pc \in Active \ {"handleError"} /\ OnlySsp
    BY Zenon DEF UpdateSspResource, Active, Calls
  <1>2. inst \in SspObject /\ (fresh => inst = ssp)
    BY <1>1, CopyLemma, Zenon
  <1>3. /\ new \in SspObject /\ hasFinalizer(new) /\ new.phase = inst.phase
        /\ new.fin = kept \cup {"new"}
        /\ new.fin = inst.fin => new = inst
    BY <1>2, Zenon DEF SspObject, hasFinalizer, OwnFinalizers, Finalizers
  <1>4. CASE UNCHANGED <<server, fresh, faults>> /\ pc' = "returnErr" /\ inst' = new
    <2>1. VersionsInv'
      BY <1>1, <1>4, SameCalm, Zenon DEF WInv, OnlySsp, operandVars, server
    <2>2. MemoryInv'
      BY <1>1, Zenon DEF WInv, MemoryInv, OnlySsp, operandVars, memory
    <2> QED
      BY <1>4, <2>1, <2>2, FailureCalm, Zenon
  <1>5. CASE Write(new, FALSE, "setSspResourceDeploying", Failed)
    <2>1. "old" \in inst.fin /\ isInitialized(inst) => new.fin # inst.fin
      BY <1>3
    <2> HIDE DEF new
    <2>2. Kept(new) = new
      BY <1>3, KeptLemma, SMTT(20), ZenonT(40)
    <2>3. fresh => new = ssp \/ sspPredicate(ssp, new)
      BY <1>2, <1>3, Zenon DEF sspPredicate, FinalizerChanged
    <2>4. fresh => sspPredicate(ssp, Kept(new)) \/ Calm(ssp, Kept(new))
      BY <2>2, <2>3, CalmLemma, SMTT(20), ZenonT(40)
    <2>5. fresh /\ Initialized(ssp) => new.phase # "Empty"
      BY <1>2, <1>3, Zenon DEF Initialized
    <2>6. pc' \in {"setSspResourceDeploying", "returnErr"}
      BY <1>5, FailedLemma, Zenon DEF Write
    <2>7. /\ VersionsInv' /\ MemoryInv'
          /\ Astir => Astir'
          /\ AllAbsent' <=> AllAbsent
          /\ inst' = new
          /\ fresh' => fresh /\ ssp' \in {ssp, new}
          /\ pc' # "returnErr" =>
                /\ fresh /\ ssp' = Kept(new)
                /\ Kept(new) # ssp /\ sspPredicate(ssp, Kept(new)) => Astir'
      BY <1>1, <1>3, <1>5, <2>4, <2>5, <2>6, WriteCalm, FailedLemma, ZenonT(40)
    <2>8. CASE pc' = "returnErr"
      BY <2>7, <2>8, FailureCalm, Zenon
    <2>9. CASE pc' = "setSspResourceDeploying"
      <3>1. fresh /\ ssp' = new /\ inst' = ssp'
        BY <2>2, <2>7, <2>9, Zenon
      <3>2. Astir' \/ AllAbsent'
        <4>1. CASE new = ssp
          <5>1. ~isInitialized(inst)
            BY <1>1, <1>2, <2>1, <3>1, <4>1, SMTT(20), ZenonT(40) DEF WInv, CallInv
          <5>2. ~Initialized(ssp)
            BY <1>2, <3>1, <5>1, Zenon DEF isInitialized, Initialized
          <5> QED
            BY <2>7, <5>2, Zenon DEF WInv, VersionsInv
        <4>2. CASE new # ssp
          BY <2>2, <2>3, <2>7, <2>9, <3>1, <4>2, SMTT(20), ZenonT(40)
        <4> QED
          BY <4>1, <4>2, Zenon
      <3>3. CallInv' /\ DoneInv'
        BY <2>9, <3>1, <3>2, SMTT(20), ZenonT(40) DEF CallInv, DoneInv
      <3> QED
        BY <2>7, <3>3, Zenon DEF WInv
    <2> QED
      BY <2>6, <2>8, <2>9, Zenon
  <1> QED
    BY <1>4, <1>5, Zenon DEF UpdateSspResource

\* The writes of the status after which Reconcile returns.
LEMMA FinalStatusCalm ==
    ASSUME IInv, IInv', ~LaggingRes, WInv, pc \in Active \ {"handleError"},
           NEW new \in SspObject, NEW heartbeat \in BOOLEAN, NEW ok, NEW fail,
           Write(new, heartbeat, ok, fail), OnlySsp,
           new.spec = inst.spec, new.ann = inst.ann, new.fin = inst.fin,
           new.deleting = inst.deleting, new.phase # "Empty" \/ new.phase = inst.phase,
           inst.ann => new.paused = inst.paused \/ new.paused,
           pc' \in {"preUpdateStatus", "reconcileOperands"}
               => pc \in {"preUpdateStatus", "reconcileOperands"}
    PROVE  /\ VersionsInv' /\ MemoryInv'
           /\ Astir => Astir'
           /\ AllAbsent' <=> AllAbsent
           /\ inst' = new
           /\ fresh' => ssp' \in {ssp, new} /\ ~sspPredicate(ssp', new)
           /\ pc' \notin {fail.conflict, fail.notFound, fail.error}
                 => /\ pc' = ok /\ ssp' = Kept(new)
                    /\ fresh' => ssp' = new
  <1>1. fresh => /\ sspPredicate(ssp, Kept(new)) \/ Calm(ssp, Kept(new))
                 /\ Initialized(ssp) => new.phase # "Empty"
    BY StatusWriteCalm, Zenon
  <1>2. pc \in Active
    BY SMTT(20), ZenonT(40)
  <1>3. /\ VersionsInv' /\ MemoryInv'
        /\ Astir => Astir'
        /\ AllAbsent' <=> AllAbsent
        /\ inst' = new
        /\ fresh' => fresh /\ ssp' \in {ssp, new}
        /\ pc' \notin {fail.conflict, fail.notFound, fail.error}
              => /\ pc' = ok /\ fresh /\ ssp' = Kept(new)
                 /\ fresh' => ssp' # NoSsp
    BY <1>1, <1>2, WriteCalm, ZenonT(40)
  <1>4. fresh' => ~sspPredicate(ssp', new)
    <2>1. inst \in SspObject /\ (fresh => inst = ssp)
      BY CopyLemma, Zenon
    <2>2. fresh => ~sspPredicate(ssp, new)
      BY <2>1, StatusIsCalm, SMTT(20), ZenonT(40)
    <2>3. ~sspPredicate(new, new)
      BY StatusIsCalm, ZenonT(40)
    <2> QED
      BY <1>3, <2>2, <2>3, Zenon
  <1>5. ssp' = Kept(new) /\ ssp' # NoSsp => ssp' = new
    BY KeptLemma, Zenon
  <1> QED
    BY <1>3, <1>4, <1>5, SMTT(20), ZenonT(40)

LEMMA SetSspResourceDeployingCalm ==
    ASSUME IInv, IInv', ~LaggingRes, WInv, SetSspResourceDeploying PROVE WInv'
  <1> DEFINE new == [inst EXCEPT !.phase = "Deploying", !.obs = inst.gen]
  <1>1. /\ pc = "setSspResourceDeploying" /\ pc \in Active \ {"handleError"} /\ OnlySsp
        /\ Write(new, FALSE, "return", Failed)
    BY Zenon DEF SetSspResourceDeploying, Active, Calls
  <1>2. inst \in SspObject
    BY <1>1, CopyLemma, Zenon
  <1>3. /\ new \in SspObject /\ new.spec = inst.spec /\ new.ann = inst.ann /\ new.fin = inst.fin
        /\ new.deleting = inst.deleting /\ new.phase # "Empty" /\ new.paused = inst.paused
    BY <1>2, Zenon DEF SspObject, Phases
  <1> HIDE DEF new
  <1>4. pc' \in {"return", "returnErr"}
    BY <1>1, FailedLemma, Zenon DEF Write
  <1>5. VersionsInv' /\ MemoryInv' /\ (Astir => Astir') /\ (AllAbsent' <=> AllAbsent)
    BY <1>1, <1>3, <1>4, FinalStatusCalm, Zenon
  <1>6. Astir \/ AllAbsent
    BY <1>1, Zenon DEF WInv, DoneInv
  <1> QED
    BY <1>4, <1>5, <1>6, ReturnCalm, FailureCalm, Zenon

LEMMA SetDeletedCalm ==
    ASSUME IInv, IInv', ~LaggingRes, WInv, SetDeleted PROVE WInv'
  <1> DEFINE new == [inst EXCEPT !.phase = "Deleted", !.obs = inst.gen]
             fail == [Failed EXCEPT !.conflict = "returnClear", !.notFound = "returnClear"]
  <1>1. /\ pc = "setDeleted" /\ pc \in Active \ {"handleError"} /\ OnlySsp
        /\ Write(new, FALSE, "returnClear", fail)
    BY Zenon DEF SetDeleted, Active, Calls
  <1>2. inst \in SspObject
    BY <1>1, CopyLemma, Zenon
  <1>3. /\ new \in SspObject /\ new.spec = inst.spec /\ new.ann = inst.ann /\ new.fin = inst.fin
        /\ new.deleting = inst.deleting /\ new.phase # "Empty" /\ new.paused = inst.paused
    BY <1>2, Zenon DEF SspObject, Phases
  <1>4. fail.conflict = "returnClear" /\ fail.notFound = "returnClear" /\ fail.error = "returnErr"
    BY Zenon DEF Failed
  <1> HIDE DEF new, fail
  <1>5. pc' \in {"returnClear", "returnErr"}
    BY <1>1, <1>4, Zenon DEF Write
  <1>6. VersionsInv' /\ MemoryInv' /\ (Astir => Astir') /\ (AllAbsent' <=> AllAbsent)
    BY <1>1, <1>3, <1>5, FinalStatusCalm, Zenon
  <1>7. Astir \/ AllAbsent
    BY <1>1, Zenon DEF WInv, DoneInv
  <1> QED
    BY <1>5, <1>6, <1>7, ReturnCalm, FailureCalm, Zenon

LEMMA PauseCalm ==
    ASSUME IInv, IInv', ~LaggingRes, WInv, Pause PROVE WInv'
  <1> DEFINE new == [inst EXCEPT !.paused = TRUE]
  <1>1. /\ pc = "pause" /\ pc \in Active \ {"handleError"} /\ OnlySsp
        /\ Write(new, FALSE, "return", Failed)
    BY Zenon DEF Pause, Active, Calls
  <1>2. inst \in SspObject /\ inst.ann /\ ~inst.deleting
    BY <1>1, CopyLemma, Zenon DEF WInv, CallInv
  <1>3. /\ new \in SspObject /\ new.spec = inst.spec /\ new.ann = inst.ann /\ new.fin = inst.fin
        /\ new.deleting = inst.deleting /\ new.phase = inst.phase /\ new.paused = TRUE
    BY <1>2, Zenon DEF SspObject, Phases
  <1> HIDE DEF new
  <1>4. pc' \in {"return", "returnErr"}
    BY <1>1, FailedLemma, Zenon DEF Write
  <1>5. VersionsInv' /\ MemoryInv' /\ (pc' # "returnErr" => ssp' = Kept(new))
    BY <1>1, <1>3, <1>4, FinalStatusCalm, FailedLemma, ZenonT(40)
  <1>6. pc' # "returnErr" => InStep(ssp)'
    BY <1>2, <1>3, <1>5, KeptLemma, Zenon DEF InStep
  <1> QED
    BY <1>4, <1>5, <1>6, ReturnCalm, FailureCalm, Zenon

LEMMA UpdateStatusMissingCrdsCalm ==
    ASSUME IInv, IInv', ~LaggingRes, WInv, UpdateStatusMissingCrds PROVE WInv'
  <1> DEFINE new == [inst EXCEPT !.good = FALSE]
  <1>1. /\ pc = "updateStatusMissingCrds" /\ pc \in Active \ {"handleError"} /\ OnlySsp
        /\ Write(new, TRUE, "return", Failed)
    BY Zenon DEF UpdateStatusMissingCrds, Active, Calls
  <1>2. inst \in SspObject /\ ~inst.ann /\ ~inst.deleting /\ crdsMissing
    BY <1>1, CopyLemma, Zenon DEF WInv, CallInv
  <1>3. /\ new \in SspObject /\ new.spec = inst.spec /\ new.ann = inst.ann /\ new.fin = inst.fin
        /\ new.deleting = inst.deleting /\ new.phase = inst.phase /\ new.paused = inst.paused
        /\ new.good = FALSE
    BY <1>2, Zenon DEF SspObject, Phases
  <1> HIDE DEF new
  <1>4. pc' \in {"return", "returnErr"} /\ crdsMissing' = crdsMissing
    BY <1>1, FailedLemma, Zenon DEF Write, OnlySsp, memory
  <1>5. VersionsInv' /\ MemoryInv' /\ (pc' # "returnErr" => ssp' = Kept(new))
    BY <1>1, <1>3, <1>4, FinalStatusCalm, FailedLemma, ZenonT(40)
  <1>6. pc' # "returnErr" => InStep(ssp)'
    BY <1>2, <1>3, <1>4, <1>5, KeptLemma, Zenon DEF InStep
  <1> QED
    BY <1>4, <1>5, <1>6, ReturnCalm, FailureCalm, Zenon

\* handleError: the copy may differ from the stored version in its status.
LEMMA HandleErrorCalm ==
    ASSUME IInv, IInv', ~LaggingRes, WInv, HandleError PROVE WInv'
  <1> DEFINE new == [inst EXCEPT !.phase = "Deploying", !.good = FALSE]
  <1>1. /\ pc = "handleError" /\ pc \in Active /\ pc \in Deploying /\ OnlySsp
        /\ Write(new, TRUE, "returnErr", Failed)
    BY Zenon DEF HandleError, Active, Calls, Deploying
  <1>2. /\ inst \in SspObject /\ hasFinalizer(inst) /\ ~inst.ann
        /\ fresh => ~sspPredicate(ssp, inst)
    BY <1>1, Zenon DEF IInv, WorkerInv, WInv, CallInv
  <1>3. /\ new \in SspObject /\ new.spec = inst.spec /\ new.ann = inst.ann /\ new.fin = inst.fin
        /\ new.deleting = inst.deleting /\ new.phase # "Empty"
    BY <1>2, Zenon DEF SspObject, Phases
  <1> HIDE DEF new
  <1>4. pc' = "returnErr"
    BY <1>1, FailedLemma, ZenonT(40) DEF Write
  <1>5. Kept(new) = new
    BY <1>2, <1>3, KeptLemma, Zenon DEF hasFinalizer
  <1>6. fresh => Calm(ssp, new)
    BY <1>2, <1>3, ConstantsAssumption, Zenon DEF Calm, sspPredicate, relevantChangesPredicate,
       SpecChanged, DeletionTimestampChanged, FinalizerChanged
  <1>7. VersionsInv' /\ MemoryInv'
    BY <1>1, <1>3, <1>4, <1>5, <1>6, WriteCalm, Zenon
  <1> QED
    BY <1>4, <1>7, FailureCalm, Zenon

LEMMA PreUpdateStatusCalm ==
    ASSUME IInv, IInv', ~LaggingRes, WInv, PreUpdateStatus PROVE WInv'
  <1> DEFINE new == [inst EXCEPT !.phase = "Deploying", !.obs = inst.gen, !.paused = FALSE,
                                 !.good = FALSE]
             fail == [conflict |-> "requeue", notFound |-> "handleError",
                      error |-> "handleError"]
  <1>1. /\ pc = "preUpdateStatus" /\ pc \in Active \ {"handleError"} /\ OnlySsp
        /\ Write(new, FALSE, "reconcileOperands", fail)
    BY Zenon DEF PreUpdateStatus, Active, Calls
  <1>2. /\ inst \in SspObject /\ ~inst.ann /\ ~inst.deleting /\ ~crdsMissing
        /\ lastSpec = inst.spec /\ idx = 1
    BY <1>1, CopyLemma, Zenon DEF WInv, CallInv
  <1>3. allDone
    BY <1>1, Zenon DEF WInv, CallInv
  <1>4. /\ new \in SspObject /\ new.spec = inst.spec /\ new.ann = inst.ann /\ new.fin = inst.fin
        /\ new.deleting = inst.deleting /\ new.phase # "Empty"
    BY <1>2, Zenon DEF SspObject, Phases
  <1>5. fail.conflict = "requeue" /\ fail.notFound = "handleError" /\ fail.error = "handleError"
    BY Zenon
  <1> HIDE DEF new, fail
  <1>6. pc' \in {"reconcileOperands", "requeue", "handleError"}
    BY <1>1, <1>5, Zenon DEF Write
  <1>7. /\ VersionsInv' /\ MemoryInv' /\ inst' = new
        /\ fresh' => ~sspPredicate(ssp', new)
        /\ pc' \notin {"requeue", "handleError"} /\ fresh' => ssp' = new
    BY <1>1, <1>2, <1>4, <1>5, <1>6, FinalStatusCalm, ZenonT(40)
  <1>8. CASE pc' = "requeue"
    BY <1>7, <1>8, FailureCalm, Zenon
  <1>9. CASE pc' = "handleError"
    <2>1. CallInv'
      BY <1>2, <1>4, <1>7, <1>9, SMTT(20), ZenonT(40) DEF CallInv
    <2>2. DoneInv'
      BY <1>9, Zenon DEF DoneInv
    <2> QED
      BY <1>7, <2>1, <2>2, Zenon DEF WInv
  <1>10. CASE pc' = "reconcileOperands"
    <2>1. UNCHANGED <<idx, allDone, crdsMissing, lastSpec>>
      BY <1>1, SMTT(20), ZenonT(40) DEF OnlySsp, memory
    <2>2. CallInv'
      BY <1>2, <1>4, <1>7, <1>10, <2>1, Zenon DEF CallInv
    <2>3. \A o \in Operands : ~(o < idx')
      BY <1>2, <2>1 DEF Operands
    <2>4. DoneInv'
      BY <1>3, <1>10, <2>1, <2>3, Zenon DEF DoneInv
    <2> QED
      BY <1>7, <2>2, <2>4, Zenon DEF WInv
  <1> QED
    BY <1>6, <1>8, <1>9, <1>10, Zenon

\* updateStatus: the status tells what the loop over the operands has found, and
\* that is how they are, or there is news of them.
LEMMA UpdateStatusCalm ==
    ASSUME IInv, IInv', ~LaggingRes, WInv, UpdateStatus PROVE WInv'
  <1> DEFINE new == [inst EXCEPT !.phase = IF allDone THEN "Deployed" ELSE "Deploying",
                                 !.obs = inst.gen, !.paused = FALSE, !.good = allDone]
  <1>1. /\ pc = "reconcileOperands" /\ pc \in Active \ {"handleError"} /\ OnlySsp
        /\ Write(new, TRUE, "return", Failed)
    BY Zenon DEF UpdateStatus, Active, Calls
  <1>2. idx > N /\ succeeded' = IF pc' = "return" THEN allDone ELSE succeeded
    BY Zenon DEF UpdateStatus
  <1>3. /\ inst \in SspObject /\ ~inst.ann /\ ~inst.deleting /\ ~crdsMissing
    BY <1>1, CopyLemma, Zenon DEF WInv, CallInv
  <1>4. allDone \in BOOLEAN
    BY Zenon DEF IInv, TypeOK
  <1>5. /\ new \in SspObject /\ new.spec = inst.spec /\ new.ann = inst.ann /\ new.fin = inst.fin
        /\ new.deleting = inst.deleting /\ new.phase # "Empty"
    BY <1>3, <1>4, Zenon DEF SspObject, Phases
  <1>6. /\ new.gen = inst.gen /\ new.obs = inst.gen
        /\ new.phase = IF allDone THEN "Deployed" ELSE "Deploying"
        /\ new.paused = FALSE /\ new.good = allDone
    BY <1>3, <1>4, Zenon DEF SspObject, Phases
  <1> HIDE DEF new
  <1>7. pc' \in {"return", "returnErr"}
    BY <1>1, FailedLemma, Zenon DEF Write
  <1>8. UNCHANGED <<crdsMissing, res>>
    BY <1>1 DEF OnlySsp, memory, operandVars
  <1>9. /\ VersionsInv' /\ MemoryInv' /\ (Astir => Astir')
        /\ pc' # "returnErr" => ssp' = Kept(new)
    BY <1>1, <1>3, <1>5, <1>7, FinalStatusCalm, FailedLemma, ZenonT(40)
  <1>10. ASSUME pc' = "return", ~Astir' PROVE InStep(ssp)'
    <2>1. ~Astir
      BY <1>9, <1>10, Zenon
    <2>2. \A o \in Operands : o < idx
      BY <1>2, ConstantsAssumption, SMTT(20), ZenonT(40) DEF Operands, IInv, TypeOK
    <2>3. /\ \A o \in Operands : res[o].st = "live" /\ res[o].spec = inst.spec
          /\ allDone <=> \A o \in Operands : res[o].ready
      BY <1>1, <2>1, <2>2, Zenon DEF WInv, DoneInv
    <2>4. ssp' = new
      BY <1>3, <1>5, <1>9, <1>10, KeptLemma
    <2>5. succeeded' = allDone
      BY <1>2, <1>10, Zenon
    <2>6. ~new.deleting /\ ~new.ann /\ ~crdsMissing'
      BY <1>3, <1>5, <1>8, Zenon
    <2>7. new.obs = new.gen /\ ~new.paused
      BY <1>6, Zenon
    <2>8. \A o \in Operands : res'[o].st = "live" /\ res'[o].spec = new.spec
      BY <1>5, <1>8, <2>3, Zenon
    <2>9. new.phase = IF \A o \in Operands : res'[o].ready THEN "Deployed" ELSE "Deploying"
      BY <1>6, <1>8, <2>3, Zenon
    <2>10. new.good = succeeded' /\ new.good = (new.phase = "Deployed")
      BY <1>4, <1>6, <2>5, Zenon
    <2> QED
      BY <2>4, <2>6, <2>7, <2>8, <2>9, <2>10, Zenon DEF InStep
  <1> QED
    BY <1>7, <1>9, <1>10, ReturnCalm, FailureCalm, Zenon

LEMMA CleanupStatusCalm ==
    ASSUME IInv, IInv', ~LaggingRes, WInv, CleanupStatus PROVE WInv'
  <1> DEFINE new == [inst EXCEPT !.phase = "Deleting", !.obs = inst.gen, !.good = FALSE]
  <1>1. /\ pc = "cleanup" /\ pc \in Active \ {"handleError"} /\ OnlySsp
        /\ Write(new, TRUE, "cleanupOperands", Failed)
    BY Zenon DEF CleanupStatus, Active, Calls
  <1>2. inst \in SspObject
    BY <1>1, CopyLemma, Zenon
  <1>3. /\ new \in SspObject /\ new.spec = inst.spec /\ new.ann = inst.ann /\ new.fin = inst.fin
        /\ new.deleting = inst.deleting /\ new.phase # "Empty" /\ new.paused = inst.paused
    BY <1>2, Zenon DEF SspObject, Phases
  <1> HIDE DEF new
  <1>4. pc' \in {"cleanupOperands", "returnErr"}
    BY <1>1, FailedLemma, Zenon DEF Write
  <1>5. /\ VersionsInv' /\ MemoryInv' /\ inst' = new
        /\ pc' # "returnErr" /\ fresh' => ssp' = new
    BY <1>1, <1>3, <1>4, FinalStatusCalm, FailedLemma, ZenonT(40)
  <1>6. allDone'
    BY <1>1, SMTT(20), ZenonT(40) DEF WInv, CallInv, OnlySsp
  <1>7. CASE pc' = "cleanupOperands"
    BY <1>5, <1>6, <1>7, ZenonT(40) DEF WInv, CallInv, DoneInv
  <1> QED
    BY <1>4, <1>5, <1>7, FailureCalm, Zenon

\* The end of cleanup: a deletion is pending, or the finalizers are dropped, which
\* makes an event.
LEMMA CleanupDoneCalm ==
    ASSUME IInv, IInv', ~LaggingRes, WInv, CleanupDone PROVE WInv'
  <1>1. /\ pc = "cleanupOperands" /\ pc \in Active /\ pc \in Active \ {"handleError"} /\ idx > N
    BY Zenon DEF CleanupDone, Active, Calls
  <1>2. CASE ~allDone
    <2>1. /\ pc' = "returnClear"
          /\ UNCHANGED <<server, operandVars, queue, inst, fresh, idx, allDone, memory,
                         succeeded, bounds>>
      BY <1>2, Zenon DEF CleanupDone
    <2>2. VersionsInv' /\ Quiet' = Quiet
      BY <2>1, SameCalm, Zenon DEF WInv, server, operandVars
    <2>3. MemoryInv'
      BY <2>1, Zenon DEF WInv, MemoryInv, operandVars, memory
    <2>4. Astir
      BY <1>1, <1>2, Zenon DEF WInv, DoneInv
    <2>5. Astir'
      BY <2>1, <2>2, <2>4, AstirStays DEF operandVars
    <2> QED
      BY <2>1, <2>2, <2>3, <2>5, ReturnCalm, Zenon
  <1>3. CASE allDone
    <2> DEFINE new == [inst EXCEPT !.fin = inst.fin \ OwnFinalizers]
    <2>1. Write(new, FALSE, "setDeleted", Failed) /\ OnlySsp
      BY <1>3, Zenon DEF CleanupDone
    <2>2. inst \in SspObject /\ hasFinalizer(inst) /\ (fresh => inst = ssp)
      BY <1>1, CopyLemma, Zenon DEF IInv, WorkerInv
    <2>3. new \in SspObject /\ new.phase = inst.phase /\ new.fin # inst.fin
      BY <2>2, Zenon DEF SspObject, hasFinalizer
    <2> HIDE DEF new
    <2>4. pc' \in {"setDeleted", "returnErr"}
      BY <2>1, FailedLemma, ZenonT(40) DEF Write
    <2>5. Kept(new) = NoSsp \/ Kept(new) = new
      BY <2>3, KeptLemma, Zenon
    <2>6. fresh => sspPredicate(ssp, Kept(new))
      BY <2>2, <2>3, <2>5, Zenon DEF sspPredicate, FinalizerChanged
    <2>7. fresh /\ Initialized(ssp) => new.phase # "Empty"
      BY <2>2, <2>3 DEF Initialized
    <2>8. /\ VersionsInv' /\ MemoryInv' /\ inst' = new
          /\ AllAbsent' <=> AllAbsent
          /\ pc' # "returnErr" => ssp' = Kept(new) /\ (fresh' => ssp' # NoSsp)
      BY <1>1, <2>1, <2>3, <2>4, <2>6, <2>7, WriteCalm, FailedLemma, ZenonT(40)
    <2>9. AllAbsent
      <3>1. \A o \in Operands : o < idx
        BY <1>1, ConstantsAssumption, SMTT(20), ZenonT(40) DEF Operands, IInv, TypeOK
      <3> QED
        BY <1>1, <1>3, <3>1, SMTT(20), ZenonT(40) DEF IInv, ResourceInv, AllAbsent
    <2>10. CASE pc' = "setDeleted"
      BY <2>5, <2>8, <2>9, <2>10, Zenon DEF WInv, CallInv, DoneInv
    <2> QED
      BY <2>4, <2>8, <2>10, FailureCalm, Zenon
  <1> QED
    BY <1>2, <1>3, Zenon DEF IInv, TypeOK

-----------------------------------------------------------------------------
(* Converged: start and end of Reconcile, and the operands *)

\* When no event of the SSP is on its way, the cached version tells about the
\* stored one.
LEMMA QuietLemma == ASSUME TypeOK, VersionsInv, Quiet PROVE Calm(cache, ssp)
  <1>1. 0 \in 0..Len(stream)
    BY DEF TypeOK
  <1>2. Version(cache, stream, 0) = cache
    BY Zenon DEF Version
  <1> QED
    BY <1>1, <1>2, Zenon DEF VersionsInv, CalmFrom, Quiet

LEMMA StartCalm ==
    ASSUME IInv, IInv', ~LaggingRes, WInv, Start PROVE WInv'
  <1>1. /\ UNCHANGED <<server, operandVars, crdsMissing, succeeded, bounds>>
        /\ inst' = cache /\ idx' = 1 /\ fresh' = (stream = <<>> /\ cache # NoSsp) /\ allDone'
    BY SMTT(20), ZenonT(40) DEF Start
  <1>2. TypeOK /\ VersionsInv /\ OperandsProtected /\ Latest
    BY Zenon DEF IInv, WInv, ResourceInv, ServerInv
  <1>3. ~Astir' => Quiet
    BY <1>1, SMTT(20), ZenonT(40) DEF Astir, Quiet, server
  <1>4. /\ AllAbsent' <=> AllAbsent
        /\ Known' = Known /\ InStep(ssp)' = InStep(ssp)
        /\ CalmFrom(cache, stream, ssp)' = CalmFrom(cache, stream, ssp)
    BY <1>1, ZenonT(40) DEF server, operandVars, AllAbsent, Known, InStep
  <1>5. MemoryInv'
    BY <1>1, Zenon DEF Start, WInv, MemoryInv, operandVars, clearCacheIfNeeded
  <1>6. CASE cache = NoSsp
    <2>1. pc' = "return"
      BY <1>6 DEF Start
    <2>2. VersionsInv'
      BY <1>1, <1>2, <1>4, <2>1, SMTT(20), ZenonT(40) DEF VersionsInv, server
    <2>3. ~Astir' => AllAbsent'
      <3>1. ~Astir' => ssp = NoSsp
        BY <1>2, <1>3, <1>6, QuietLemma, Zenon DEF Calm, sspPredicate
      <3> QED
        BY <1>2, <1>4, <3>1, Zenon DEF OperandsProtected, AllAbsent
    <2> QED
      BY <1>5, <2>1, <2>2, <2>3, ReturnCalm, Zenon
  <1>7. CASE cache # NoSsp
    <2>1. pc' = firstCall(cache) /\ cache \in SspObject /\ cache \in Known
      BY <1>2, <1>7, Zenon DEF Start, TypeOK, Known
    <2>2. lastSpec' = cache.spec
      BY <1>7, Zenon DEF Start, clearCacheIfNeeded
    <2>3. pc' \in {"preUpdateStatus", "reconcileOperands"} => Initialized(ssp)
      <3>1. ASSUME pc' \in {"preUpdateStatus", "reconcileOperands"}
            PROVE  Guarded(cache) /\ Initialized(cache)
        <4>1. ~cache.deleting /\ cache.phase # "Empty"
          BY <2>1, <3>1, Zenon DEF firstCall, isInitialized
        <4> QED
          BY <1>2, <1>7, <2>1, <4>1
             DEF IInv, ServerInv, InitializedIsOwn, Guarded, Own, Initialized
      <3> QED
        BY <1>2, <2>1, <3>1, Zenon DEF VersionsInv
    <2>4. VersionsInv'
      BY <1>1, <1>2, <1>4, <2>3, Zenon DEF VersionsInv, server
    <2>5. fresh' => inst' = ssp'
      BY <1>1, <1>2, Zenon DEF Latest, server
    <2>6. /\ pc' = "updateSspResource" => ~isInitialized(cache) \/ "old" \in cache.fin
          /\ pc' = "pause" => cache.ann /\ ~cache.deleting
          /\ pc' = "updateStatusMissingCrds" => ~cache.ann /\ ~cache.deleting /\ crdsMissing
          /\ pc' \in {"preUpdateStatus", "reconcileOperands"} =>
                ~cache.ann /\ ~cache.deleting /\ ~crdsMissing
          /\ pc' \notin {"handleError", "cleanupOperands", "setSspResourceDeploying", "idle",
                         "returnClear"}
          /\ pc' = "setDeleted" => ~hasFinalizer(cache)
          /\ pc' = "return" => cache.ann /\ cache.paused /\ ~cache.deleting
      BY <2>1, Zenon DEF firstCall
    <2>7. CallInv'
      BY <1>1, <2>2, <2>5, <2>6, Zenon DEF CallInv
    <2>8. \A o \in Operands : ~(o < idx')
      BY <1>1 DEF Operands
    <2>9. ASSUME ~Astir' PROVE /\ pc' = "setDeleted" => AllAbsent'
                               /\ pc' = "return" => InStep(ssp)'
      <3>1. Calm(cache, ssp)
        BY <1>2, <1>3, <2>9, QuietLemma, Zenon
      <3>2. /\ cache.fin = ssp.fin /\ cache.deleting = ssp.deleting /\ cache.ann = ssp.ann
            /\ cache.ann /\ cache.paused => ssp.paused
        BY <3>1, SMTT(20), ZenonT(40) DEF Calm, sspPredicate, relevantChangesPredicate, SpecChanged,
           DeletionTimestampChanged, FinalizerChanged
      <3>3. pc' = "setDeleted" => AllAbsent'
        BY <1>2, <1>4, <2>6, <3>2, ZenonT(40) DEF OperandsProtected, AllAbsent, hasFinalizer
      <3>4. pc' = "return" => InStep(ssp)'
        BY <1>4, <2>6, <3>2, ZenonT(40) DEF InStep
      <3> QED
        BY <3>3, <3>4, Zenon
    <2>10. DoneInv'
      BY <1>1, <2>6, <2>8, <2>9, Zenon DEF DoneInv
    <2> QED
      BY <1>5, <2>4, <2>7, <2>10 DEF WInv
  <1> QED
    BY <1>6, <1>7, Zenon

\* The end of a reconciliation: after an error there is another one.
LEMMA EndCalm == ASSUME WInv, Return PROVE WInv'
  <1>1. /\ pc \in Returns /\ pc' = "idle" /\ fresh' = FALSE
        /\ UNCHANGED <<server, operandVars, crdsMissing, bounds>>
    BY Zenon DEF Return
  <1>2. VersionsInv' /\ Quiet' = Quiet
    BY <1>1, SameCalm, SMTT(20), ZenonT(40) DEF WInv, server, operandVars
  <1>3. MemoryInv'
    BY <1>1, SMTT(20), ZenonT(40) DEF Return, WInv, MemoryInv, operandVars, clearCache
  <1>4. CallInv'
    BY <1>1, Zenon DEF CallInv, Active
  <1>5. CASE pc \in {"returnErr", "requeue"}
    <2>1. queue' # "none"
      BY <1>5, SMTT(20), ZenonT(40) DEF Return, EnqueueRateLimited
    <2>2. DoneInv'
      BY <2>1, Zenon DEF DoneInv, Astir
    <2> QED
      BY <1>2, <1>3, <1>4, <2>2, Zenon DEF WInv
  <1>6. CASE pc \in {"return", "returnClear"}
    <2>1. queue' = queue /\ succeeded' = succeeded
      BY <1>6, Zenon DEF Return
    <2>2. (Astir => Astir') /\ (AllAbsent' <=> AllAbsent)
      BY <1>1, <1>2, <2>1, AstirStays, Zenon DEF operandVars
    <2>3. InStep(ssp)' = InStep(ssp)
      BY <1>1, <2>1 DEF InStep, server, operandVars
    <2>4. Astir \/ AllAbsent \/ InStep(ssp)
      BY <1>6, SMTT(20), ZenonT(40) DEF WInv, DoneInv
    <2>5. DoneInv'
      BY <1>1, <2>2, <2>3, <2>4, SMTT(20), ZenonT(40) DEF DoneInv
    <2> QED
      BY <1>2, <1>3, <1>4, <2>5, Zenon DEF WInv
  <1> QED
    BY <1>1, <1>5, <1>6, Zenon DEF Returns

\* News of a resource bring a reconciliation about, and then nothing is claimed of
\* the operands.
LEMMA DoneAstir == ASSUME Astir' PROVE DoneInv'
  BY SMTT(20), ZenonT(40) DEF DoneInv

\* A resource that was written: its event is on its way.
LEMMA TouchCalm ==
    ASSUME TypeOK, MemoryInv, NEW o \in Operands, NEW r \in Resource, Touch(o, r),
           seen' = seen, r.st # "absent" => r.spec # NoSpec
    PROVE  /\ Astir'
           /\ \A p \in Operands : (res[p].st # "absent" => res[p].spec # NoSpec)'
           /\ \A p \in Operands : (seen[p].st # "absent" => seen[p].spec # NoSpec)'
           /\ \A p \in Operands : (ev[p] # "irrelevant")'
  <1>1. /\ res \in [Operands -> Resource] /\ ev \in [Operands -> {"none", "irrelevant", "relevant"}]
        /\ res' = [res EXCEPT ![o] = r] /\ ev' = [ev EXCEPT ![o] = "relevant"]
    BY Zenon DEF TypeOK, Touch
  <1>2. ev'[o] = "relevant"
    BY <1>1, Zenon
  <1>3. \A p \in Operands : (res'[p] = res[p] \/ res'[p] = r) /\ (ev'[p] = ev[p] \/ ev'[p] = "relevant")
    BY <1>1, Zenon
  <1> QED
    BY <1>2, <1>3, Zenon DEF Astir, MemoryInv

LEMMA ReconcileOperandCalm ==
    ASSUME IInv, IInv', ~LaggingRes, WInv, ReconcileOperand PROVE WInv'
  <1> DEFINE o == idx
             desired(ready) == [st |-> "live", spec |-> inst.spec, ready |-> ready]
  <1>1. pc = "reconcileOperands" /\ idx <= N /\ OperandStep
    BY Zenon DEF ReconcileOperand
  <1>2. /\ TypeOK /\ ResourceInv /\ VersionsInv /\ CallInv /\ MemoryInv /\ DoneInv
        /\ UNCHANGED <<ssp, stream, cache, seen, queue, inst, fresh, lastSpec, crdsMissing>>
    BY <1>1 DEF IInv, WInv, OperandStep, server
  <1>3. o \in Operands
    BY <1>1, <1>2, ConstantsAssumption DEF TypeOK, Operands
  <1>4. /\ inst \in SspObject /\ inst.spec \in Specs /\ ~inst.ann /\ ~inst.deleting /\ ~crdsMissing
        /\ lastSpec = inst.spec /\ Initialized(ssp)
        /\ fresh => inst = ssp
    <2>1. pc \in Active \ {"handleError"}
      BY <1>1, Zenon DEF Active, Calls
    <2>2. inst \in SspObject /\ (fresh => inst = ssp)
      BY <2>1, CopyLemma, Zenon
    <2> QED
      BY <1>1, <1>2, <2>2, Zenon DEF CallInv, VersionsInv, SspObject
  <1>5. inst.spec # NoSpec
    BY <1>4, ConstantsAssumption, SMTT(20), ZenonT(40)
  <1>6. Quiet' = Quiet /\ CalmFrom(cache, stream, ssp)' = CalmFrom(cache, stream, ssp) /\ Known' = Known
    BY <1>2, Zenon DEF Quiet, Known
  <1>7. VersionsInv'
    BY <1>2, <1>4, <1>6, Zenon DEF VersionsInv
  <1>8. ASSUME NEW how \in {"handleError", "requeue"}, OperandError(how) PROVE WInv'
    <2>1. pc' = how /\ UNCHANGED <<res, ev, vc>>
      BY <1>8, SMTT(20), ZenonT(40) DEF OperandError
    <2>2. MemoryInv'
      BY <1>2, <2>1, Zenon DEF MemoryInv
    <2>3. CASE how = "requeue"
      BY <1>7, <2>1, <2>2, <2>3, FailureCalm
    <2>4. CASE how = "handleError"
      <3>1. fresh => ~sspPredicate(ssp, inst)
        BY <1>4, StatusIsCalm, SMTT(20), ZenonT(40)
      <3>2. CallInv'
        BY <1>2, <1>4, <2>1, <2>4, <3>1, Zenon DEF CallInv
      <3>3. DoneInv'
        BY <2>1, <2>4, SMTT(20), ZenonT(40) DEF DoneInv
      <3> QED
        BY <1>7, <2>2, <3>2, <3>3, Zenon DEF WInv
    <2> QED
      BY <1>8, <2>3, <2>4, Zenon
  <1>9. ASSUME NEW ok, NextOperand(ok) PROVE CallInv'
    <2>1. pc' = pc
      BY <1>9, SMTT(20), ZenonT(40) DEF NextOperand
    <2> QED
      BY <1>1, <1>2, <1>4, <2>1, Zenon DEF CallInv
  <1>10. ASSUME NEW ready \in BOOLEAN, NEW ok, Touch(o, desired(ready)), NextOperand(ok),
                vc' = [vc EXCEPT ![o] = inst.spec]
         PROVE  WInv'
    <2>1. desired(ready) \in Resource /\ desired(ready).spec = inst.spec
      BY <1>4, SMTT(20), ZenonT(40) DEF Resource
    <2> HIDE DEF desired
    <2>2. /\ Astir'
          /\ \A p \in Operands : (res[p].st # "absent" => res[p].spec # NoSpec)'
          /\ \A p \in Operands : (seen[p].st # "absent" => seen[p].spec # NoSpec)'
          /\ \A p \in Operands : (ev[p] # "irrelevant")'
      BY <1>2, <1>3, <1>5, <1>10, <2>1, TouchCalm, ZenonT(40)
    <2>3. \A p \in Operands : vc'[p] \in {NoSpec, lastSpec'}
      BY <1>2, <1>4, <1>10, ZenonT(40) DEF MemoryInv, TypeOK
    <2>4. MemoryInv'
      BY <2>2, <2>3, Zenon DEF MemoryInv
    <2> QED
      BY <1>7, <1>9, <1>10, <2>2, <2>4, DoneAstir, Zenon DEF WInv
  <1>11. ASSUME NEW spec \in {NoSpec, inst.spec}, vc' = [vc EXCEPT ![o] = spec],
                UNCHANGED <<res, ev>>
         PROVE  MemoryInv' /\ (Astir' <=> Astir)
    <2>1. \A p \in Operands : vc'[p] \in {NoSpec, lastSpec'}
      BY <1>2, <1>4, <1>11, ZenonT(40) DEF MemoryInv, TypeOK
    <2>2. MemoryInv'
      BY <1>2, <1>11, <2>1, ZenonT(40) DEF MemoryInv
    <2>3. Astir' <=> Astir
      BY <1>2, <1>6, <1>11, Zenon DEF Astir
    <2> QED
      BY <2>2, <2>3, SMTT(20), ZenonT(40)
  <1>12. ASSUME seen[o].st = "deleting", vc' = [vc EXCEPT ![o] = NoSpec],
                NextOperand(FALSE), UNCHANGED <<res, ev>>
         PROVE  WInv'
    <2>1. Astir
      BY <1>2, <1>3, <1>12, Zenon DEF Astir, ResourceInv
    <2>2. MemoryInv' /\ Astir'
      BY <1>11, <1>12, <2>1
    <2> QED
      BY <1>7, <1>9, <1>12, <2>2, DoneAstir, ZenonT(40) DEF WInv
  <1>13. ASSUME seen[o].st = "live", versionCached(o) \/ seen[o].spec = inst.spec,
                vc' = [vc EXCEPT ![o] = seen[o].spec], NextOperand(seen[o].ready),
                UNCHANGED <<res, ev>>
         PROVE  WInv'
    <2>1. seen[o].spec = inst.spec
      BY <1>2, <1>3, <1>4, <1>13, ZenonT(40) DEF MemoryInv, versionCached
    <2>2. MemoryInv' /\ (Astir' <=> Astir)
      BY <1>11, <1>13, <2>1, SMTT(20), ZenonT(40)
    <2>3. /\ idx' = idx + 1 /\ allDone' = (allDone /\ seen[o].ready) /\ pc' = pc
      BY <1>13, SMTT(20), ZenonT(40) DEF NextOperand
    <2>4. ASSUME ~Astir'
          PROVE  /\ \A p \in Operands : p < idx' => res'[p].st = "live" /\ res'[p].spec = inst'.spec
                 /\ allDone' <=> \A p \in Operands : p < idx' => res'[p].ready
      <3>1. seen[o] = res[o]
        BY <1>2, <1>3, <2>2, <2>4, ZenonT(40) DEF Astir, ResourceInv
      <3>2. /\ \A p \in Operands : p < idx => res[p].st = "live" /\ res[p].spec = inst.spec
            /\ allDone <=> \A p \in Operands : p < idx => res[p].ready
        BY <1>1, <1>2, <2>2, <2>4, Zenon DEF DoneInv
      <3>3. \A p \in Operands : p < idx' <=> p < idx \/ p = o
        BY <1>3, <2>3, SMTT(20), ZenonT(40) DEF Operands
      <3>4. \A p \in Operands : p < idx' => res[p].st = "live" /\ res[p].spec = inst.spec
        BY <1>13, <2>1, <3>1, <3>2, <3>3, Zenon
      <3>5. allDone' <=> \A p \in Operands : p < idx' => res[p].ready
        BY <1>3, <2>3, <3>1, <3>2, <3>3, Zenon
      <3> QED
        BY <1>2, <1>13, <3>4, <3>5, SMTT(20), ZenonT(40)
    <2>5. DoneInv'
      BY <1>1, <2>3, <2>4, Zenon DEF DoneInv
    <2> QED
      BY <1>7, <1>9, <1>13, <2>2, <2>5, SMTT(20), ZenonT(40) DEF WInv
  <1> HIDE DEF desired
  <1> QED
    BY <1>8, <1>10, <1>12, <1>13, ZenonT(40) DEF ReconcileOperand, desired

\* Cleanup of an operand: a deletion that is pending makes an event.
LEMMA CleanupOperandCalm ==
    ASSUME IInv, IInv', ~LaggingRes, WInv, CleanupOperand PROVE WInv'
  <1> DEFINE o == idx
  <1>1. pc = "cleanupOperands" /\ idx <= N /\ OperandStep /\ ev[o] = "none" /\ UNCHANGED vc
    BY Zenon DEF CleanupOperand
  <1>2. /\ TypeOK /\ ResourceInv /\ VersionsInv /\ CallInv /\ MemoryInv /\ DoneInv
        /\ UNCHANGED <<ssp, stream, cache, seen, queue, inst, fresh, lastSpec, crdsMissing>>
    BY <1>1, SMTT(20), ZenonT(40) DEF IInv, WInv, OperandStep, server
  <1>3. o \in Operands
    BY <1>1, <1>2, ConstantsAssumption, SMTT(20), ZenonT(40) DEF TypeOK, Operands
  <1>4. seen[o] = res[o]
    BY <1>1, <1>2, <1>3, SMTT(20), ZenonT(40) DEF ResourceInv
  <1>5. ASSUME UNCHANGED <<res, ev>>
        PROVE  /\ MemoryInv' /\ (Astir' <=> Astir)
               /\ pc' \notin {"preUpdateStatus", "reconcileOperands"} => VersionsInv'
    <2>1. Quiet' = Quiet
      BY <1>2, Zenon DEF Quiet
    <2> QED
      BY <1>1, <1>2, <1>5, <2>1, SameCalm, Zenon DEF MemoryInv, Astir
  <1>6. ASSUME OperandError("returnErr") PROVE WInv'
    <2>1. pc' = "returnErr" /\ UNCHANGED <<res, ev>>
      BY <1>6, SMTT(20), ZenonT(40) DEF OperandError
    <2> QED
      BY <1>5, <2>1, FailureCalm, Zenon
  <1>7. ASSUME NEW ok, NextOperand(ok) PROVE pc' = pc /\ CallInv'
    <2>1. pc' = pc
      BY <1>7 DEF NextOperand
    <2> QED
      BY <1>1, <1>2, <2>1, Zenon DEF CallInv
  <1>8. ASSUME NextOperand(TRUE), UNCHANGED <<res, ev>> PROVE WInv'
    <2>1. allDone' = allDone
      BY <1>2, <1>8, Zenon DEF NextOperand, TypeOK
    <2>2. DoneInv'
      BY <1>1, <1>2, <1>5, <1>7, <1>8, <2>1, Zenon DEF DoneInv
    <2> QED
      BY <1>1, <1>5, <1>7, <1>8, <2>2, ZenonT(40) DEF WInv
  <1>9. ASSUME NextOperand(FALSE), res[o].st = "deleting", UNCHANGED <<res, ev>> PROVE WInv'
    <2>1. Astir
      BY <1>3, <1>9, Zenon DEF Astir
    <2> QED
      BY <1>1, <1>5, <1>7, <1>9, <2>1, DoneAstir, Zenon DEF WInv
  <1>10. ASSUME NextOperand(FALSE), res[o].st = "live", Touch(o, [res[o] EXCEPT !.st = "deleting"])
         PROVE  WInv'
    <2> DEFINE r == [res[o] EXCEPT !.st = "deleting"]
    <2>1. r \in Resource /\ r.spec = res[o].spec /\ r.spec # NoSpec
      BY <1>2, <1>3, <1>10 DEF TypeOK, Resource, MemoryInv
    <2>2. Touch(o, r)
      BY <1>10, Zenon
    <2> HIDE DEF r
    <2>3. /\ Astir'
          /\ \A p \in Operands : (res[p].st # "absent" => res[p].spec # NoSpec)'
          /\ \A p \in Operands : (seen[p].st # "absent" => seen[p].spec # NoSpec)'
          /\ \A p \in Operands : (ev[p] # "irrelevant")'
      BY <1>2, <1>3, <2>1, <2>2, TouchCalm, ZenonT(40)
    <2>4. MemoryInv'
      BY <1>1, <1>2, <2>3 DEF MemoryInv
    <2>5. Initialized(ssp)
      BY <1>2, <1>3, <1>10, SMTT(20), ZenonT(40) DEF VersionsInv, AllAbsent
    <2>6. CalmFrom(cache, stream, ssp)' = CalmFrom(cache, stream, ssp) /\ Known' = Known
      BY <1>2, Zenon DEF Known
    <2>7. VersionsInv'
      BY <1>2, <2>5, <2>6, SMTT(20), ZenonT(40) DEF VersionsInv
    <2> QED
      BY <1>7, <1>10, <2>3, <2>4, <2>7, DoneAstir, ZenonT(40) DEF WInv
  <1> QED
    BY <1>4, <1>6, <1>8, <1>9, <1>10, ZenonT(40) DEF CleanupOperand

-----------------------------------------------------------------------------
(* Converged: the watches, users, the cluster and restarts *)

\* What is known of the worker's call stays true when others act.
LEMMA CallStays ==
    ASSUME CallInv, UNCHANGED <<pc, inst, idx, allDone, crdsMissing, lastSpec>>,
           fresh' => fresh /\ ssp' = ssp
    PROVE  CallInv'
  BY ZenonT(40) DEF CallInv

\* A step of an informer that leaves a reconciliation to come.
LEMMA DoneStays ==
    ASSUME DoneInv, UNCHANGED <<ssp, res, pc, inst, idx, allDone, crdsMissing, succeeded>>,
           Astir => Astir'
    PROVE  DoneInv'
  <1>1. (AllAbsent' <=> AllAbsent) /\ InStep(ssp)' = InStep(ssp)
    BY Zenon DEF AllAbsent, InStep
  <1> QED
    BY <1>1, ZenonT(40) DEF DoneInv

\* An SSP event: it is let pass, or a later one is, or there is nothing new.
LEMMA DeliverSspCalm == ASSUME IInv, WInv, DeliverSsp PROVE WInv'
  <1> DEFINE V == SspObject \cup {NoSsp}
  <1>1. /\ stream \in Seq(V) /\ stream # <<>> /\ cache' = Head(stream) /\ stream' = Tail(stream)
        /\ UNCHANGED <<ssp, operandVars, worker, memory, succeeded, bounds>>
    BY Zenon DEF DeliverSsp, IInv, TypeOK
  <1> HIDE DEF V
  <1>2. CalmFrom(cache, stream, ssp)
    BY Zenon DEF WInv, VersionsInv
  <1>3. /\ CalmFrom(cache', stream', ssp)
        /\ QuietFrom(cache', stream', 0) /\ ~sspPredicate(cache, cache') => Quiet
    BY <1>1, <1>2, TailCalm, Zenon DEF Quiet
  <1>4. Known' \subseteq Known
    BY DeliverKnown, Zenon DEF IInv
  <1>5. VersionsInv'
    BY <1>1, <1>3, <1>4, Zenon DEF WInv, VersionsInv, operandVars, worker, AllAbsent, Guarded, Own,
                          Initialized, hasFinalizer
  <1>6. MemoryInv'
    BY <1>1, Zenon DEF WInv, MemoryInv, operandVars, memory
  <1>7. CallInv'
    BY <1>1, CallStays, Zenon DEF WInv, worker, memory
  <1>8. Astir => Astir'
    <2>1. CASE sspPredicate(cache, cache')
      <3>1. queue' = "ready"
        BY <2>1, Zenon DEF DeliverSsp, Enqueue
      <3> QED
        BY <3>1, Zenon DEF Astir
    <2>2. CASE ~sspPredicate(cache, cache')
      <3>1. queue' = queue /\ (~Quiet => ~Quiet')
        BY <1>3, <2>2, Zenon DEF DeliverSsp, Quiet
      <3> QED
        BY <1>1, <3>1, AstirStays DEF operandVars
    <2> QED
      BY <2>1, <2>2, Zenon
  <1>9. DoneInv'
    BY <1>1, <1>8, DoneStays DEF WInv, operandVars, worker, memory
  <1> QED
    BY <1>5, <1>6, <1>7, <1>9, Zenon DEF WInv

\* The news of a resource and the end of a back-off queue the request.
LEMMA QueuedCalm ==
    ASSUME WInv, BackoffOver \/ \E o \in Operands : DeliverResource(o), TypeOK
    PROVE  WInv'
  <1>1. queue' = "ready" /\ UNCHANGED <<server, res, worker, memory, succeeded, bounds>>
    BY Zenon DEF BackoffOver, DeliverResource, Enqueue, operandVars, WInv, MemoryInv, TypeOK
  <1>2. VersionsInv'
    BY <1>1, SameCalm, SMTT(20), ZenonT(40) DEF WInv, server, worker
  <1>3. \A p \in Operands : (seen'[p] = seen[p] \/ seen'[p] = res[p]) /\ (ev'[p] = ev[p] \/ ev'[p] = "none")
    BY SMTT(20), ZenonT(40) DEF BackoffOver, DeliverResource, operandVars, TypeOK
  <1>4. MemoryInv'
    BY <1>1, <1>3, Zenon DEF WInv, MemoryInv, memory
  <1>5. CallInv'
    BY <1>1, CallStays, SMTT(20), ZenonT(40) DEF WInv, worker, memory, server
  <1>6. DoneInv'
    BY <1>1, DoneAstir, SMTT(20), ZenonT(40) DEF Astir
  <1> QED
    BY <1>2, <1>4, <1>5, <1>6, SMTT(20), ZenonT(40) DEF WInv

\* A user's change of a resource, and what the cluster does to it, make an event
\* that is let pass, when the status of every resource is watched.
LEMMA ResourceCalm ==
    ASSUME IInv, WInv, FullWatch = Operands, NEW o \in Operands,
           UserDeletesResource(o) \/ BecomeReady(o) \/ Vanish(o)
    PROVE  WInv'
  <1>1. /\ UNCHANGED <<ssp, stream, cache, fresh, seen, pc, inst, idx, allDone, lastSpec, vc,
                       crdsMissing>>
        /\ res[o].st \in {"live", "deleting"}
    BY SMTT(20), ZenonT(40) DEF UserDeletesResource, BecomeReady, Vanish, Unattended, memory
  <1>2. TypeOK /\ VersionsInv /\ MemoryInv /\ CallInv /\ res[o] \in Resource
    BY DEF IInv, WInv, TypeOK
  <1>3. PICK r \in Resource : Touch(o, r) /\ (r.st # "absent" => r.spec # NoSpec)
    <2>0. res[o].spec # NoSpec
      BY <1>1, <1>2, ZenonT(40) DEF MemoryInv
    <2>1. CASE UserDeletesResource(o)
      <3> DEFINE r == [res[o] EXCEPT !.st = "deleting"]
      <3>1. r \in Resource /\ r.spec = res[o].spec
        BY <1>2, Zenon DEF Resource
      <3>2. Touch(o, r)
        BY <2>1, Zenon DEF UserDeletesResource
      <3> HIDE DEF r
      <3> QED
        BY <2>0, <3>1, <3>2, Zenon
    <2>2. CASE BecomeReady(o)
      <3> DEFINE r == [res[o] EXCEPT !.ready = TRUE]
      <3>1. r \in Resource /\ r.spec = res[o].spec
        BY <1>2, ZenonT(40) DEF Resource
      <3>2. res' = [res EXCEPT ![o] = r] /\ ev' = [ev EXCEPT ![o] = "relevant"]
        BY <1>2, <2>2, Zenon DEF BecomeReady, statusWatched
      <3> HIDE DEF r
      <3>3. Touch(o, r)
        BY <3>2, Zenon DEF Touch
      <3> QED
        BY <2>0, <3>1, <3>3, Zenon
    <2>3. CASE Vanish(o)
      <3>1. NoResource \in Resource /\ NoResource.st = "absent"
        BY Zenon DEF NoResource, Resource
      <3>2. Touch(o, NoResource)
        BY <2>3, SMTT(20), ZenonT(40) DEF Vanish
      <3> QED
        BY <3>1, <3>2, Zenon
    <2> QED
      BY <2>1, <2>2, <2>3, SMTT(20), ZenonT(40)
  <1>4. /\ Astir'
        /\ \A p \in Operands : (res[p].st # "absent" => res[p].spec # NoSpec)'
        /\ \A p \in Operands : (seen[p].st # "absent" => seen[p].spec # NoSpec)'
        /\ \A p \in Operands : (ev[p] # "irrelevant")'
    BY <1>1, <1>2, <1>3, TouchCalm, ZenonT(40)
  <1>5. MemoryInv'
    BY <1>1, <1>2, <1>4, ZenonT(40) DEF MemoryInv
  <1>6. VersionsInv'
    <2>1. Initialized(ssp)
      BY <1>1, <1>2, ZenonT(40) DEF VersionsInv, AllAbsent
    <2>2. CalmFrom(cache, stream, ssp)' = CalmFrom(cache, stream, ssp) /\ Known' = Known
      BY <1>1, Zenon DEF Known
    <2> QED
      BY <1>1, <1>2, <2>1, <2>2, ZenonT(40) DEF VersionsInv
  <1> QED
    BY <1>1, <1>2, <1>4, <1>5, <1>6, CallStays, DoneAstir, Zenon DEF WInv

\* Whatever others write to the SSP, sspPredicate lets it pass.
LEMMA OthersCalm ==
    ASSUME IInv, IInv', ~LaggingRes, WInv, NEW new \in SspObject, Store(new, FALSE),
           fresh' = FALSE, Unattended, UNCHANGED operandVars,
           Kept(new) # ssp, sspPredicate(ssp, Kept(new)),
           Initialized(ssp) => new.phase # "Empty"
    PROVE  WInv'
  <1>1. UNCHANGED <<cache, res, seen, ev, pc, inst, idx, allDone, lastSpec, vc, crdsMissing>>
    BY SMTT(20), ZenonT(40) DEF Unattended, operandVars, memory
  <1>2. VersionsInv' /\ ~Quiet'
    BY <1>1, StoredCalm, ZenonT(40) DEF WInv
  <1>3. MemoryInv'
    BY <1>1, Zenon DEF WInv, MemoryInv
  <1>4. CallInv'
    BY <1>1, CallStays, SMTT(20), ZenonT(40) DEF WInv
  <1>5. DoneInv'
    BY <1>2, DoneAstir, Zenon DEF Astir
  <1> QED
    BY <1>2, <1>3, <1>4, <1>5, SMTT(20), ZenonT(40) DEF WInv

\* What the server keeps of a change that is not only one of the status.
LEMMA ChangeLemma ==
    ASSUME NEW old \in SspObject, NEW new \in SspObject,
           old.spec # new.spec \/ old.fin # new.fin \/ ~(old.ann <=> new.ann)
              \/ ~(old.deleting <=> new.deleting)
    PROVE  Kept(new) # old /\ sspPredicate(old, Kept(new))
  <1>1. Kept(new) \in {NoSsp, new} /\ old # NoSsp
    BY ConstantsAssumption DEF Kept
  <1> QED
    BY <1>1, Zenon DEF sspPredicate, relevantChangesPredicate, SpecChanged,
       DeletionTimestampChanged, FinalizerChanged

LEMMA OthersActionsCalm ==
    ASSUME IInv, IInv', ~LaggingRes, WInv,
           UserCreate \/ UserEditSpec \/ UserPause \/ UserDelete \/ ForegroundDone
    PROVE  WInv'
  <1>0. ssp \in SspObject \cup {NoSsp}
    BY Zenon DEF IInv, TypeOK
  <1>1. ASSUME NEW new \in SspObject, UserWrite(new),
               Kept(new) # ssp, sspPredicate(ssp, Kept(new)),
               Initialized(ssp) => new.phase # "Empty"
        PROVE  WInv'
    BY <1>1, OthersCalm, Zenon DEF UserWrite
  <1>2. CASE UserCreate
    <2>1. PICK spec \in Specs, ann \in BOOLEAN : ssp = NoSsp /\ UserWrite(NewSsp(spec, ann))
      BY <1>2, Zenon DEF UserCreate
    <2> DEFINE new == NewSsp(spec, ann)
    <2>2. new \in SspObject /\ ~new.deleting
      BY Zenon DEF NewSsp, SspObject, Finalizers, Phases
    <2>3. UserWrite(new)
      BY <2>1, Zenon
    <2> HIDE DEF new
    <2>4. Kept(new) = new /\ new # NoSsp
      BY <2>2, KeptLemma, ConstantsAssumption, SMTT(20), ZenonT(40)
    <2> QED
      BY <1>1, <2>1, <2>2, <2>3, <2>4, Zenon DEF sspPredicate, Initialized
  <1>3. CASE UserEditSpec
    <2>1. PICK spec \in Specs \ {ssp.spec} :
             ssp # NoSsp /\ UserWrite([ssp EXCEPT !.spec = spec, !.gen = ssp.gen + 1])
      BY <1>3, Zenon DEF UserEditSpec
    <2> DEFINE new == [ssp EXCEPT !.spec = spec, !.gen = ssp.gen + 1]
    <2>2. ssp \in SspObject
      BY <1>0, <2>1, Zenon
    <2>3. ssp.gen + 1 \in Nat
      BY <2>2 DEF SspObject
    <2>4. new \in SspObject /\ new.spec = spec /\ new.phase = ssp.phase
      BY <2>2, <2>3, Zenon DEF SspObject
    <2>5. UserWrite(new)
      BY <2>1, Zenon
    <2> HIDE DEF new
    <2>6. Kept(new) # ssp /\ sspPredicate(ssp, Kept(new))
      BY <2>1, <2>2, <2>4, ChangeLemma, Zenon
    <2> QED
      BY <1>1, <2>4, <2>5, <2>6, Zenon DEF Initialized
  <1>4. CASE UserPause
    <2> DEFINE new == [ssp EXCEPT !.ann = ~ssp.ann]
    <2>1. ssp \in SspObject /\ UserWrite(new) /\ ssp # NoSsp
      BY <1>0, <1>4, Zenon DEF UserPause
    <2>2. new \in SspObject /\ new.phase = ssp.phase
      BY <2>1, Zenon DEF SspObject
    <2>3. ~(ssp.ann <=> new.ann)
      BY <2>1, Zenon DEF SspObject
    <2> HIDE DEF new
    <2>4. Kept(new) # ssp /\ sspPredicate(ssp, Kept(new))
      BY <2>1, <2>2, <2>3, ChangeLemma, Zenon
    <2> QED
      BY <1>1, <2>1, <2>2, <2>4, Zenon DEF Initialized
  <1>5. CASE UserDelete
    <2>1. PICK extra \in {{}, {"foreground"}} :
             UserWrite([ssp EXCEPT !.deleting = TRUE, !.gen = ssp.gen + 1,
                                   !.fin = ssp.fin \cup extra])
      BY <1>5, Zenon DEF UserDelete
    <2> DEFINE new == [ssp EXCEPT !.deleting = TRUE, !.gen = ssp.gen + 1,
                                  !.fin = ssp.fin \cup extra]
    <2>2. ssp \in SspObject /\ ~ssp.deleting
      BY <1>0, <1>5, Zenon DEF UserDelete
    <2>3. /\ ssp.gen + 1 \in Nat /\ ssp.fin \cup extra \in SUBSET Finalizers
      BY <2>2 DEF SspObject, Finalizers
    <2>4. new \in SspObject /\ new.deleting /\ new.phase = ssp.phase
      BY <2>2, <2>3, Zenon DEF SspObject
    <2>5. UserWrite(new)
      BY <2>1, Zenon
    <2> HIDE DEF new
    <2>6. Kept(new) # ssp /\ sspPredicate(ssp, Kept(new))
      BY <2>2, <2>4, ChangeLemma, Zenon
    <2> QED
      BY <1>1, <2>4, <2>5, <2>6, Zenon DEF Initialized
  <1>6. CASE ForegroundDone
    <2> DEFINE new == [ssp EXCEPT !.fin = ssp.fin \ {"foreground"}]
    <2>1. ssp \in SspObject /\ "foreground" \in ssp.fin
      BY <1>0, <1>6, Zenon DEF ForegroundDone
    <2>2. new \in SspObject /\ new.phase = ssp.phase /\ new.fin = ssp.fin \ {"foreground"}
      BY <2>1, Zenon DEF SspObject, Finalizers
    <2>3. Store(new, FALSE) /\ fresh' = FALSE /\ Unattended /\ UNCHANGED operandVars
      BY <1>6, Zenon DEF ForegroundDone
    <2> HIDE DEF new
    <2>4. Kept(new) # ssp /\ sspPredicate(ssp, Kept(new))
      BY <2>1, <2>2, ChangeLemma
    <2> QED
      BY <2>2, <2>3, <2>4, OthersCalm, Zenon DEF Initialized
  <1> QED
    BY <1>2, <1>3, <1>4, <1>5, <1>6, SMTT(20), ZenonT(40)

\* A new process queues a request for what it finds.
LEMMA RestartCalm == ASSUME IInv, WInv, Restart PROVE WInv'
  <1>1. /\ ssp' = ssp /\ cache' = ssp /\ stream' = <<>> /\ res' = res /\ seen' = res
        /\ pc' = "idle" /\ ev' = [o \in Operands |-> "none"] /\ vc' = [o \in Operands |-> NoSpec]
        /\ queue' = IF ssp # NoSsp \/ (\E o \in Operands : res[o].st # "absent")
                    THEN "ready" ELSE "none"
    BY Zenon DEF Restart
  <1>2. \A v \in Known' : v = ssp
    <2>1. Len(stream') = 0
      BY <1>1, Zenon
    <2> QED
      BY <1>1, <2>1 DEF Known
  <1>3. CalmFrom(ssp, <<>>, ssp)
    <2>1. \A i \in 0..Len(<<>>) : Version(ssp, <<>>, i) = ssp
      BY SMTT(20), ZenonT(40) DEF Version
    <2> QED
      BY <2>1, CalmLemma, Zenon DEF CalmFrom
  <1>4. VersionsInv'
    BY <1>1, <1>2, <1>3, ZenonT(40) DEF WInv, VersionsInv, AllAbsent, Initialized
  <1>5. MemoryInv'
    BY <1>1, ZenonT(40) DEF WInv, MemoryInv
  <1>6. CallInv'
    BY <1>1, ZenonT(40) DEF CallInv, Active
  <1>7. DoneInv'
    BY <1>1, ZenonT(40) DEF DoneInv, Astir, AllAbsent
  <1> QED
    BY <1>4, <1>5, <1>6, <1>7, Zenon DEF WInv

LEMMA InitCalm == ASSUME Init PROVE WInv
  <1>1. /\ cache = ssp /\ stream = <<>> /\ seen = res /\ pc = "idle"
        /\ ev = [o \in Operands |-> "none"] /\ vc = [o \in Operands |-> NoSpec]
        /\ queue = IF ssp = NoSsp THEN "none" ELSE "ready"
    BY Zenon DEF Init
  <1>2. /\ AllAbsent \/ (Initialized(ssp) /\ queue = "ready")
        /\ \A o \in Operands : res[o].st # "absent" => res[o].spec # NoSpec
    <2>1. CASE res = [o \in Operands |-> NoResource]
      BY <2>1, SMTT(20), ZenonT(40) DEF AllAbsent, NoResource
    <2>2. ASSUME NEW spec \in Specs, ssp = LegacySsp(spec),
                 res = [o \in Operands |-> [st |-> "live", spec |-> spec, ready |-> TRUE]]
          PROVE  /\ Initialized(ssp) /\ queue = "ready"
                 /\ \A o \in Operands : res[o].spec # NoSpec
      <3>1. ssp \in SspObject /\ ssp.phase = "Deployed"
        BY <2>2, Zenon DEF LegacySsp, NewSsp, SspObject, Finalizers, OwnFinalizers, Phases
      <3> QED
        BY <1>1, <2>2, <3>1, ConstantsAssumption, Zenon DEF Initialized
    <2> QED
      BY <2>1, <2>2, Zenon DEF Init
  <1>3. \A v \in Known : v = ssp
    BY <1>1 DEF Known
  <1>4. CalmFrom(cache, stream, ssp)
    <2>1. \A i \in 0..Len(stream) : Version(cache, stream, i) = ssp
      BY <1>1 DEF Version
    <2> QED
      BY <2>1, CalmLemma, Zenon DEF CalmFrom
  <1> QED
    BY <1>1, <1>2, <1>3, <1>4, Zenon DEF WInv, VersionsInv, CallInv, MemoryInv, DoneInv, Astir, Active

LEMMA StutterCalm == ASSUME WInv, UNCHANGED vars PROVE WInv'
  <1>1. /\ UNCHANGED <<ssp, stream, cache, res, seen, ev, queue>>
        /\ UNCHANGED <<pc, inst, fresh, idx, allDone, lastSpec, vc, crdsMissing, succeeded>>
    BY Zenon DEF vars, server, operandVars, worker, memory
  <1>2. VersionsInv' /\ Quiet' = Quiet
    BY <1>1, SameCalm, SMTT(20), ZenonT(40) DEF WInv
  <1>3. MemoryInv'
    BY <1>1, Zenon DEF WInv, MemoryInv
  <1>4. CallInv'
    BY <1>1, CallStays, Zenon DEF WInv
  <1>5. Astir => Astir'
    BY <1>1, <1>2, AstirStays, Zenon
  <1>6. DoneInv'
    BY <1>1, <1>5, DoneStays, Zenon DEF WInv
  <1> QED
    BY <1>2, <1>3, <1>4, <1>6, Zenon DEF WInv

LEMMA StepCalm ==
    ASSUME ~LaggingRes, FullWatch = Operands
    PROVE  IInv /\ IInv' /\ WInv /\ [Next]_vars => WInv'
  <1> SUFFICES ASSUME IInv, IInv', WInv, [Next]_vars PROVE WInv'
    BY Zenon
  <1>0. TypeOK
    BY DEF IInv
  <1>1. CASE Reconcile
    BY <1>1, StartCalm, UpdateSspResourceCalm, SetSspResourceDeployingCalm, PauseCalm,
       UpdateStatusMissingCrdsCalm, PreUpdateStatusCalm, ReconcileOperandCalm,
       UpdateStatusCalm, HandleErrorCalm, CleanupStatusCalm, CleanupOperandCalm,
       CleanupDoneCalm, SetDeletedCalm, EndCalm, Zenon DEF Reconcile
  <1>2. CASE Watch
    BY <1>0, <1>2, DeliverSspCalm, QueuedCalm, Zenon DEF Watch
  <1>3. CASE User
    BY <1>3, OthersActionsCalm, ResourceCalm, Zenon DEF User
  <1>4. CASE Cluster
    BY <1>4, OthersActionsCalm, ResourceCalm, Zenon DEF Cluster
  <1>5. CASE Restart
    BY <1>5, RestartCalm, Zenon
  <1>6. CASE UNCHANGED vars
    BY <1>6, StutterCalm
  <1> QED
    BY <1>1, <1>2, <1>3, <1>4, <1>5, <1>6, Zenon DEF Next

\* No wake-up is lost: whenever nothing is in flight and something is deployed, the
\* operands, the status and the metric are what Reconcile makes of the spec (see
\* Converged).  This needs the status of every operand's resource to be watched, so
\* that watchResources lets its changes pass, and reads of cleanup that are up to
\* date.
THEOREM NoWakeupIsLost ==
    ASSUME ~LaggingRes, FullWatch = Operands
    PROVE  Spec => []Converged
  <1>1. WInv => Converged
    <2> SUFFICES ASSUME WInv, Quiescent, NEW o \in Operands, res[o].st = "live"
                 PROVE  InStep(ssp)
      BY Zenon DEF Converged
    <2>1. /\ stream = <<>> /\ queue = "none" /\ pc = "idle"
          /\ \A p \in Operands : ev[p] = "none" /\ res[p].st # "deleting"
      BY SMTT(20), ZenonT(40) DEF Quiescent
    <2>2. Quiet
      <3>1. Len(stream) = 0
        BY <2>1, Zenon
      <3> QED
        BY <3>1, SMTT(20), ZenonT(40) DEF Quiet, QuietFrom
    <2>3. ~Astir /\ ~AllAbsent
      BY <2>1, <2>2, Zenon DEF Astir, AllAbsent
    <2> QED
      BY <2>1, <2>3, SMTT(20), ZenonT(40) DEF WInv, DoneInv
  <1>2. Init => WInv
    BY InitCalm, Zenon
  <1>3. IInv /\ IInv' /\ WInv /\ [Next]_vars => WInv'
    BY StepCalm, Zenon
  <1> QED
    BY <1>1, <1>2, <1>3, Invariance, PTL DEF Spec
=============================================================================
