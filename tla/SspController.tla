--------------------------- MODULE SspController ---------------------------
(***************************************************************************)
(* The SSP controller (internal/controllers/ssp_controller.go): one worker *)
(* that reconciles one SSP object against the API server.  The controller  *)
(* reads through informer caches that lag behind the server and writes     *)
(* with optimistic concurrency; users, the cluster and crashes interleave  *)
(* with every API call.  One step of the controller is one API call.       *)
(***************************************************************************)
EXTENDS Naturals, Sequences, FiniteSets

CONSTANTS
    N,           \* number of operands; operand i is reconciled before i+1
    Specs,       \* the values SSP.Spec can take
    FullWatch,   \* operands whose resource is watched with WatchFullObject
    Legacy,      \* TRUE: an SSP of an older operator version may pre-exist
    LaggingRes,  \* TRUE: cleanup may read operand caches that lag behind
    MaxEdits,    \* bound on what users do
    MaxFaults,   \* bound on transient API failures
    MaxRestarts, \* bound on operator restarts
    NoSsp,       \* the SSP object does not exist
    NoSpec       \* the zero SSPSpec of an operator that has seen no SSP

Operands == 1..N

\* finalizerName and oldFinalizerName; "foreground" is the API server's own,
\* present while an object is deleted with foreground propagation.
OwnFinalizers == {"new", "old"}
Finalizers == OwnFinalizers \cup {"foreground"}
Phases == {"Empty", "Deploying", "Deployed", "Deleting", "Deleted"}
SspObject ==
    [spec : Specs, gen : Nat, fin : SUBSET Finalizers, deleting : BOOLEAN,
     ann : BOOLEAN,                          \* the paused annotation
     phase : Phases, obs : Nat, paused : BOOLEAN,
     good : BOOLEAN]                         \* Available, not Progressing, not Degraded
Resource == [st : {"absent", "live", "deleting"}, spec : Specs \cup {NoSpec},
             ready : BOOLEAN]
NoResource == [st |-> "absent", spec |-> NoSpec, ready |-> FALSE]

ASSUME ConstantsAssumption ==
    /\ N \in Nat \ {0}
    /\ Specs # {} /\ NoSpec \notin Specs /\ NoSsp \notin SspObject
    /\ FullWatch \subseteq 1..N
    /\ Legacy \in BOOLEAN /\ LaggingRes \in BOOLEAN
    /\ MaxEdits \in Nat /\ MaxFaults \in Nat /\ MaxRestarts \in Nat

VARIABLES
    \* --- API server and informers
    ssp,         \* the SSP object stored by the API server
    stream,      \* SSP versions the informer has not received yet
    cache,       \* the SSP object in the informer cache
    res,         \* res[o]: the resource that operand o manages
    seen,        \* seen[o]: the informer's copy of res[o]
    ev,          \* ev[o]: news about res[o] the informer has not received
    \* --- work queue and controller
    queue,       \* the SSP's request: absent, delayed by back-off, or ready
    pc,          \* the API call the worker is about to make
    inst,        \* request.Instance, the worker's copy of the SSP
    fresh,       \* inst carries the server's current resourceVersion
    idx,         \* the operand being reconciled or cleaned up
    allDone,     \* no operand before idx reported trouble (or pending deletes)
    lastSpec,    \* sspController.lastSspSpec
    vc,          \* VersionCache: the content last stored for each operand
    crdsMissing, \* sspController.areCrdsMissing, fixed when the operator starts
    succeeded,   \* the metric kubevirt_ssp_operator_reconcile_succeeded
    \* --- bounds
    edits, faults, restarts

server == <<ssp, stream, cache>>
operandVars == <<res, seen, ev>>
memory == <<lastSpec, vc, crdsMissing>>
worker == <<pc, inst, fresh, idx, allDone>>
bounds == <<edits, faults, restarts>>
vars == <<server, operandVars, queue, worker, memory, succeeded, bounds>>

\* The API calls of Reconcile, and the ways it ends.
Calls == {"idle", "updateSspResource", "setSspResourceDeploying", "pause",
          "updateStatusMissingCrds", "preUpdateStatus", "reconcileOperands",
          "handleError", "cleanup", "cleanupOperands", "setDeleted"}
Returns == {"return", "returnErr", "requeue", "returnClear"}

isInitialized(s) == s.deleting \/ s.phase # "Empty"
hasFinalizer(s) == s.fin \cap OwnFinalizers # {}

-----------------------------------------------------------------------------
(* The work queue and the watches                                           *)

\* Adding a request that is already queued keeps one request, at the earlier
\* of the two times.
Enqueue == queue' = "ready"
EnqueueRateLimited == queue' = IF queue = "none" THEN "waiting" ELSE queue

\* Mutation of sspPredicate: the status is watched too.
sspPredicateWithStatus(old, new) == TRUE

\* Mutation of sspPredicate: the deletion timestamp is not watched.
sspPredicateWithoutDeletion(old, new) ==
    \/ old = NoSsp \/ new = NoSsp
    \/ old.spec # new.spec \/ old.ann # new.ann \/ old.fin # new.fin

SpecChanged(old, new) == old.spec # new.spec
DeletionTimestampChanged(old, new) == old.deleting # new.deleting
FinalizerChanged(old, new) == old.fin # new.fin

relevantChangesPredicate(old, new) ==
    old.ann # new.ann \/ SpecChanged(old, new) \/ DeletionTimestampChanged(old, new)

\* watchSspResource: what an SSP event must change to trigger reconciliation
sspPredicate(old, new) ==
    \/ old = NoSsp \/ new = NoSsp
    \/ relevantChangesPredicate(old, new) \/ FinalizerChanged(old, new)

\* The SSP informer receives the next version.
DeliverSsp ==
    /\ stream # <<>>
    /\ cache' = Head(stream)
    /\ stream' = Tail(stream)
    /\ IF sspPredicate(cache, cache') THEN Enqueue ELSE UNCHANGED queue
    /\ UNCHANGED <<ssp, operandVars, worker, memory, succeeded, bounds>>

\* watchResources: a change of the status alone passes only for WatchFullObject.
statusWatched(o) == o \in FullWatch

\* The informer of operand o's type catches up; the event is mapped to the owning
\* SSP unless the predicates of watchResources drop it.
DeliverResource(o) ==
    /\ ev[o] # "none"
    /\ seen' = [seen EXCEPT ![o] = res[o]]
    /\ ev' = [ev EXCEPT ![o] = "none"]
    /\ IF ev[o] = "relevant" THEN Enqueue ELSE UNCHANGED queue
    /\ UNCHANGED <<server, res, worker, memory, succeeded, bounds>>

\* The back-off of a rate-limited request is over.
BackoffOver ==
    /\ queue = "waiting"
    /\ Enqueue
    /\ UNCHANGED <<server, operandVars, worker, memory, succeeded, bounds>>

-----------------------------------------------------------------------------
(* Writes to the API server                                                 *)

\* What the server keeps of a write: removing the last finalizer of an object
\* that is being deleted removes the object.
Kept(new) == IF new.deleting /\ new.fin = {} THEN NoSsp ELSE new

\* A write that changes nothing makes no new version.  A heartbeat, the
\* timestamp that SetStatusCondition puts into every condition it touches, makes
\* one even then, unless the second has not passed.
Store(new, heartbeat) ==
    /\ ssp' = Kept(new)
    /\ \/ stream' = Append(stream, Kept(new)) /\ (Kept(new) # ssp \/ heartbeat)
       \/ stream' = stream /\ Kept(new) = ssp

\* How Reconcile goes on after a failed write, unless it says otherwise.
Failed == [conflict |-> "returnErr", notFound |-> "returnErr", error |-> "returnErr"]

\* Client.Update or Status().Update of inst, which the worker has set to new.
\* The call succeeds, is refused because inst is out of date, finds no object,
\* or fails with any other error (which may hide that it was carried out).
Write(new, heartbeat, ok, fail) ==
    /\ inst' = new
    /\ UNCHANGED cache
    /\ \/ /\ fresh
          /\ Store(new, heartbeat)
          /\ fresh' = (ssp' # NoSsp)
          /\ pc' = ok
          /\ UNCHANGED faults
       \/ /\ ~fresh
          /\ pc' = IF ssp = NoSsp THEN fail.notFound ELSE fail.conflict
          /\ UNCHANGED <<ssp, stream, fresh, faults>>
       \/ /\ faults > 0
          /\ faults' = faults - 1
          /\ pc' = fail.error
          /\ \/ UNCHANGED <<ssp, stream, fresh>>
             \/ fresh /\ Store(new, heartbeat) /\ fresh' = (stream' = stream)

\* What a step that only writes the SSP leaves alone.
OnlySsp == UNCHANGED <<operandVars, queue, idx, allDone, memory, edits, restarts>>

-----------------------------------------------------------------------------
(* Reconcile                                                                *)

\* Mutation of clearCacheIfNeeded: the versions survive a change of the spec.
clearCacheNever(spec) == lastSpec' = spec /\ UNCHANGED vc

\* clearCacheIfNeeded
clearCacheIfNeeded(spec) ==
    /\ lastSpec' = spec
    /\ vc' = IF lastSpec = spec THEN vc ELSE [o \in Operands |-> NoSpec]

clearCache == lastSpec' = NoSpec /\ vc' = [o \in Operands |-> NoSpec]

\* The conditions of Reconcile, in their order, and the call each one leads to.
firstCall(s) ==
    IF ~isInitialized(s) \/ "old" \in s.fin THEN "updateSspResource"
    ELSE IF s.deleting /\ hasFinalizer(s) THEN "cleanup"
    ELSE IF s.deleting THEN "setDeleted"
    ELSE IF s.ann /\ s.paused THEN "return"
    ELSE IF s.ann THEN "pause"
    ELSE IF crdsMissing THEN "updateStatusMissingCrds"
    ELSE IF s.obs = 0 \/ s.obs # s.gen THEN "preUpdateStatus"
    ELSE "reconcileOperands"

\* From taking the request off the queue to the first API write: Get from the
\* cache, clearCacheIfNeeded, and the chain of conditions of Reconcile.
Start ==
    /\ pc = "idle"
    /\ queue = "ready"
    /\ queue' = "none"
    /\ inst' = cache
    /\ fresh' = (stream = <<>> /\ cache # NoSsp)
    /\ idx' = 1
    /\ allDone' = TRUE
    /\ UNCHANGED <<server, operandVars, crdsMissing, succeeded, bounds>>
    /\ \/ /\ cache = NoSsp
          /\ pc' = "return"
          /\ UNCHANGED <<lastSpec, vc>>
       \/ /\ cache # NoSsp
          /\ clearCacheIfNeeded(cache.spec)
          /\ pc' = firstCall(cache)

\* Mutation of UpdateSspResource: the old finalizer is removed, the new one is
\* added to a copy that is not written.
UpdateSspResourceRemoveOnly ==
    /\ pc = "updateSspResource"
    /\ Write([inst EXCEPT !.fin = inst.fin \ {"old"}], FALSE, "setSspResourceDeploying", Failed)
    /\ OnlySsp /\ UNCHANGED succeeded

\* initialize and updateSsp: Client.Update with the new finalizer.  The server
\* refuses to add a finalizer to an object that is being deleted.
UpdateSspResource ==
    /\ pc = "updateSspResource"
    /\ LET kept == IF isInitialized(inst) THEN inst.fin \ {"old"} ELSE inst.fin
           new == [inst EXCEPT !.fin = kept \cup {"new"}] IN
       \/ /\ fresh /\ inst.deleting /\ "new" \notin inst.fin
          /\ inst' = new
          /\ pc' = "returnErr"
          /\ UNCHANGED <<server, fresh, faults>>
       \/ /\ ~(fresh /\ inst.deleting /\ "new" \notin inst.fin)
          /\ Write(new, FALSE, "setSspResourceDeploying", Failed)
    /\ OnlySsp /\ UNCHANGED succeeded

SetSspResourceDeploying ==
    /\ pc = "setSspResourceDeploying"
    /\ Write([inst EXCEPT !.phase = "Deploying", !.obs = inst.gen], FALSE,
             "return", Failed)
    /\ OnlySsp /\ UNCHANGED succeeded

Pause ==
    /\ pc = "pause"
    /\ Write([inst EXCEPT !.paused = TRUE], FALSE, "return", Failed)
    /\ OnlySsp /\ UNCHANGED succeeded

UpdateStatusMissingCrds ==
    /\ pc = "updateStatusMissingCrds"
    /\ Write([inst EXCEPT !.good = FALSE], TRUE, "return", Failed)
    /\ OnlySsp /\ UNCHANGED succeeded

\* Mutation of PreUpdateStatus: the observed generation is counted on.
PreUpdateStatusCounts ==
    /\ pc = "preUpdateStatus"
    /\ Write([inst EXCEPT !.phase = "Deploying", !.obs = inst.obs + 1, !.paused = FALSE,
                          !.good = FALSE], FALSE, "reconcileOperands",
             [conflict |-> "requeue", notFound |-> "handleError", error |-> "handleError"])
    /\ OnlySsp /\ UNCHANGED succeeded

PreUpdateStatus ==
    /\ pc = "preUpdateStatus"
    /\ Write([inst EXCEPT !.phase = "Deploying", !.obs = inst.gen, !.paused = FALSE,
                          !.good = FALSE], FALSE, "reconcileOperands",
             [conflict |-> "requeue", notFound |-> "handleError", error |-> "handleError"])
    /\ OnlySsp /\ UNCHANGED succeeded

\* handleError of an error that is not a conflict; its own failure is ignored.
HandleError ==
    /\ pc = "handleError"
    /\ Write([inst EXCEPT !.phase = "Deploying", !.good = FALSE], TRUE, "returnErr", Failed)
    /\ OnlySsp /\ UNCHANGED succeeded

\* updateStatus and the metric set after it
UpdateStatus ==
    /\ pc = "reconcileOperands"
    /\ idx > N
    /\ Write([inst EXCEPT !.phase = IF allDone THEN "Deployed" ELSE "Deploying",
                          !.obs = inst.gen, !.paused = FALSE, !.good = allDone],
             TRUE, "return", Failed)
    /\ succeeded' = IF pc' = "return" THEN allDone ELSE succeeded
    /\ OnlySsp

\* The deferred function of Reconcile and the queue's handling of its result.
Return ==
    /\ pc \in Returns
    /\ pc' = "idle"
    /\ fresh' = FALSE
    /\ inst' = NoSsp
    /\ idx' = 1
    /\ allDone' = TRUE
    /\ IF pc \in {"returnErr", "requeue"} THEN EnqueueRateLimited ELSE UNCHANGED queue
    /\ succeeded' = IF pc = "returnErr" THEN FALSE ELSE succeeded
    /\ IF pc = "returnClear" THEN clearCache ELSE UNCHANGED <<lastSpec, vc>>
    /\ UNCHANGED <<server, operandVars, crdsMissing, bounds>>

-----------------------------------------------------------------------------
(* Operands: each manages one resource through reconcileBuilder.Reconcile and *)
(* common.Cleanup.                                                            *)

OperandStep == UNCHANGED <<server, seen, queue, inst, fresh, lastSpec, crdsMissing,
                           succeeded, edits, restarts>>

\* The operand's resource is written; its informer will hear of it.
Touch(o, r) ==
    /\ res' = [res EXCEPT ![o] = r]
    /\ ev' = [ev EXCEPT ![o] = "relevant"]

\* Mutation of NextOperand: the loop skips an operand.
NextOperandSkip(ok) ==
    /\ idx' = idx + 2
    /\ allDone' = (allDone /\ ok)
    /\ UNCHANGED pc

NextOperand(ok) ==
    /\ idx' = idx + 1
    /\ allDone' = (allDone /\ ok)
    /\ UNCHANGED pc

\* An operand fails: reconcileOperands stops at the first error.
OperandError(how) ==
    /\ pc' = how
    /\ UNCHANGED <<res, ev, vc, idx, allDone>>

\* VersionCache.Contains: the cached generation is the one found
versionCached(o) == vc[o] = seen[o].spec

ReconcileOperand ==
    LET o == idx
        found == seen[o]
        desired(ready) == [st |-> "live", spec |-> inst.spec, ready |-> ready] IN
    /\ pc = "reconcileOperands"
    /\ idx <= N
    /\ OperandStep
    /\ \/ /\ found.st = "absent"                       \* Create
          /\ IF res[o].st = "absent"
             THEN \E ready \in BOOLEAN :
                    /\ Touch(o, desired(ready))
                    /\ vc' = [vc EXCEPT ![o] = inst.spec]
                    /\ NextOperand(ready)
             ELSE OperandError("handleError")          \* AlreadyExists
          /\ UNCHANGED faults
       \/ /\ found.st = "deleting"                     \* ResourceDeletedResult
          /\ vc' = [vc EXCEPT ![o] = NoSpec]
          /\ NextOperand(FALSE)
          /\ UNCHANGED <<res, ev, faults>>
       \/ /\ found.st = "live"                         \* Update
          /\ ~versionCached(o) /\ found.spec # inst.spec
          /\ IF ev[o] # "none"
             THEN OperandError(IF res[o].st = "absent" THEN "handleError" ELSE "requeue")
             ELSE \E ready \in BOOLEAN :
                    /\ Touch(o, desired(ready))
                    /\ vc' = [vc EXCEPT ![o] = inst.spec]
                    /\ NextOperand(found.ready)
          /\ UNCHANGED faults
       \/ /\ found.st = "live"                         \* nothing to do
          /\ versionCached(o) \/ found.spec = inst.spec
          /\ vc' = [vc EXCEPT ![o] = found.spec]
          /\ NextOperand(found.ready)
          /\ UNCHANGED <<res, ev, faults>>
       \/ /\ faults > 0
          /\ faults' = faults - 1
          /\ OperandError("handleError")

\* cleanup before the operands: phase Deleting
CleanupStatus ==
    /\ pc = "cleanup"
    /\ Write([inst EXCEPT !.phase = "Deleting", !.obs = inst.gen, !.good = FALSE], TRUE,
             "cleanupOperands", Failed)
    /\ OnlySsp /\ UNCHANGED succeeded

\* common.Cleanup of operand idx's resource.
CleanupOperand ==
    LET o == idx
        found == seen[o] IN
    /\ pc = "cleanupOperands"
    /\ idx <= N
    /\ LaggingRes \/ ev[o] = "none"
    /\ UNCHANGED vc
    /\ OperandStep
    /\ \/ /\ found.st = "absent" \/ (found.st = "live" /\ res[o].st = "absent")
          /\ NextOperand(TRUE)
          /\ UNCHANGED <<res, ev, faults>>
       \/ /\ found.st = "live" /\ res[o].st # "absent"
          /\ IF res[o].st = "live" THEN Touch(o, [res[o] EXCEPT !.st = "deleting"])
                                   ELSE UNCHANGED <<res, ev>>
          /\ NextOperand(FALSE)
          /\ UNCHANGED faults
       \/ /\ found.st = "deleting"
          /\ NextOperand(FALSE)
          /\ UNCHANGED <<res, ev, faults>>
       \/ /\ faults > 0
          /\ faults' = faults - 1
          /\ OperandError("returnErr")

\* Mutation of CleanupDone: pendingCount is not looked at.
CleanupDoneWithoutWaiting ==
    /\ pc = "cleanupOperands"
    /\ idx > N
    /\ Write([inst EXCEPT !.fin = inst.fin \ OwnFinalizers], FALSE, "setDeleted", Failed)
    /\ OnlySsp /\ UNCHANGED succeeded

\* cleanup after the operands: wait for pending deletions, or drop the finalizers
CleanupDone ==
    /\ pc = "cleanupOperands"
    /\ idx > N
    /\ IF allDone
       THEN /\ Write([inst EXCEPT !.fin = inst.fin \ OwnFinalizers], FALSE,
                     "setDeleted", Failed)
            /\ OnlySsp /\ UNCHANGED succeeded
       ELSE /\ pc' = "returnClear"
            /\ UNCHANGED <<server, operandVars, queue, inst, fresh, idx, allDone, memory,
                           succeeded, bounds>>

SetDeleted ==
    /\ pc = "setDeleted"
    /\ Write([inst EXCEPT !.phase = "Deleted", !.obs = inst.gen], FALSE, "returnClear",
             [Failed EXCEPT !.conflict = "returnClear", !.notFound = "returnClear"])
    /\ OnlySsp /\ UNCHANGED succeeded

Reconcile ==
    \/ Start \/ UpdateSspResource \/ SetSspResourceDeploying \/ Pause
    \/ UpdateStatusMissingCrds \/ PreUpdateStatus \/ ReconcileOperand \/ UpdateStatus
    \/ HandleError \/ CleanupStatus \/ CleanupOperand \/ CleanupDone \/ SetDeleted
    \/ Return

-----------------------------------------------------------------------------
(* Users, the cluster, and restarts of the operator                         *)

Unattended == UNCHANGED <<cache, pc, inst, idx, allDone, memory, queue, succeeded,
                          faults, restarts>>

Edit == edits > 0 /\ edits' = edits - 1

UserWrite(new) ==
    /\ Edit
    /\ Store(new, FALSE)
    /\ fresh' = FALSE
    /\ Unattended /\ UNCHANGED operandVars

NewSsp(spec, ann) ==
    [spec |-> spec, gen |-> 1, fin |-> {}, deleting |-> FALSE, ann |-> ann,
     phase |-> "Empty", obs |-> 0, paused |-> FALSE, good |-> FALSE]

UserCreate ==
    /\ ssp = NoSsp
    /\ \E spec \in Specs, ann \in BOOLEAN : UserWrite(NewSsp(spec, ann))

\* A change of the spec, or the request to delete, increases the generation.
UserEditSpec ==
    /\ ssp # NoSsp
    /\ \E spec \in Specs \ {ssp.spec} :
          UserWrite([ssp EXCEPT !.spec = spec, !.gen = ssp.gen + 1])

UserPause ==
    /\ ssp # NoSsp
    /\ UserWrite([ssp EXCEPT !.ann = ~ssp.ann])

UserDelete ==
    /\ ssp # NoSsp
    /\ ~ssp.deleting
    /\ \E extra \in {{}, {"foreground"}} :
          UserWrite([ssp EXCEPT !.deleting = TRUE, !.gen = ssp.gen + 1,
                                !.fin = ssp.fin \cup extra])

\* The garbage collector has removed what a foreground deletion waits for.
ForegroundDone ==
    /\ ssp # NoSsp
    /\ "foreground" \in ssp.fin
    /\ Store([ssp EXCEPT !.fin = ssp.fin \ {"foreground"}], FALSE)
    /\ fresh' = FALSE
    /\ Unattended /\ UNCHANGED <<operandVars, edits>>

\* Somebody deletes an operand's resource.
UserDeletesResource(o) ==
    /\ Edit
    /\ res[o].st = "live"
    /\ Touch(o, [res[o] EXCEPT !.st = "deleting"])
    /\ Unattended /\ UNCHANGED <<ssp, stream, fresh, seen>>

\* The resource starts to work: only its status changes.
BecomeReady(o) ==
    /\ res[o].st = "live" /\ ~res[o].ready
    /\ res' = [res EXCEPT ![o].ready = TRUE]
    /\ ev' = [ev EXCEPT ![o] = IF statusWatched(o) \/ ev[o] = "relevant"
                               THEN "relevant" ELSE "irrelevant"]
    /\ Unattended /\ UNCHANGED <<ssp, stream, fresh, seen, edits>>

\* The API server finishes the deletion of a resource.
Vanish(o) ==
    /\ res[o].st = "deleting"
    /\ Touch(o, NoResource)
    /\ Unattended /\ UNCHANGED <<ssp, stream, fresh, seen, edits>>

\* The operator process ends at any point and a new one lists everything.
Restart ==
    /\ restarts > 0
    /\ restarts' = restarts - 1
    /\ cache' = ssp /\ stream' = <<>>
    /\ seen' = res /\ ev' = [o \in Operands |-> "none"]
    /\ queue' = IF ssp # NoSsp \/ \E o \in Operands : res[o].st # "absent"
                THEN "ready" ELSE "none"
    /\ pc' = "idle" /\ inst' = NoSsp /\ fresh' = FALSE /\ idx' = 1 /\ allDone' = TRUE
    /\ lastSpec' = NoSpec /\ vc' = [o \in Operands |-> NoSpec]
    /\ crdsMissing' \in BOOLEAN
    /\ succeeded' = FALSE
    /\ UNCHANGED <<ssp, res, edits, faults>>

-----------------------------------------------------------------------------
\* An SSP that an operator with the old finalizer deployed.
LegacySsp(spec) ==
    [NewSsp(spec, FALSE) EXCEPT !.fin = {"old"}, !.phase = "Deployed", !.obs = 1,
                                !.good = TRUE]

Init ==
    /\ \/ /\ ssp = NoSsp
          /\ res = [o \in Operands |-> NoResource]
       \/ /\ Legacy
          /\ \E spec \in Specs :
                /\ ssp = LegacySsp(spec)
                /\ res = [o \in Operands |-> [st |-> "live", spec |-> spec, ready |-> TRUE]]
    /\ cache = ssp /\ stream = <<>>
    /\ seen = res /\ ev = [o \in Operands |-> "none"]
    /\ queue = IF ssp = NoSsp THEN "none" ELSE "ready"
    /\ pc = "idle" /\ inst = NoSsp /\ fresh = FALSE /\ idx = 1 /\ allDone = TRUE
    /\ lastSpec = NoSpec /\ vc = [o \in Operands |-> NoSpec]
    /\ crdsMissing \in BOOLEAN
    /\ succeeded = FALSE
    /\ edits = MaxEdits /\ faults = MaxFaults /\ restarts = MaxRestarts

Watch == DeliverSsp \/ BackoffOver \/ \E o \in Operands : DeliverResource(o)

User ==
    \/ UserCreate \/ UserEditSpec \/ UserPause \/ UserDelete
    \/ \E o \in Operands : UserDeletesResource(o)

Cluster == ForegroundDone \/ \E o \in Operands : BecomeReady(o) \/ Vanish(o)

Next == Reconcile \/ Watch \/ User \/ Cluster \/ Restart

Spec == Init /\ [][Next]_vars

\* ENABLED Reconcile: a request is ready, or one is being worked on and not waiting
\* for the informer of the next operand's resource.
WorkerReady ==
    IF pc = "idle" THEN queue = "ready"
    ELSE pc = "cleanupOperands" /\ idx <= N => LaggingRes \/ ev[idx] = "none"

\* The worker, the informers, the back-off timer and the cluster make progress;
\* users and crashes need not, and a resource may never become ready.  Every step of
\* Reconcile changes pc or idx, and what else does is a restart, so the first
\* conjunct is WF_vars(Reconcile).
Fairness ==
    /\ []<>~WorkerReady \/ []<><<TRUE>>_<<pc, idx>>
    /\ WF_vars(DeliverSsp)
    /\ WF_vars(BackoffOver)
    /\ WF_vars(ForegroundDone)
    /\ \A o \in Operands : WF_vars(DeliverResource(o)) /\ WF_vars(Vanish(o))

FairSpec == Spec /\ Fairness

-----------------------------------------------------------------------------
(* Properties                                                               *)

\* The types of the variables.
TypeOK ==
    /\ ssp \in SspObject \cup {NoSsp}
    /\ stream \in Seq(SspObject \cup {NoSsp})
    /\ cache \in SspObject \cup {NoSsp}
    /\ inst \in SspObject \cup {NoSsp}
    /\ res \in [Operands -> Resource] /\ seen \in [Operands -> Resource]
    /\ ev \in [Operands -> {"none", "irrelevant", "relevant"}]
    /\ queue \in {"none", "waiting", "ready"}
    /\ pc \in Calls \cup Returns
    /\ fresh \in BOOLEAN /\ allDone \in BOOLEAN /\ idx \in 1..(N + 1)
    /\ lastSpec \in Specs \cup {NoSpec} /\ vc \in [Operands -> Specs \cup {NoSpec}]
    /\ crdsMissing \in BOOLEAN /\ succeeded \in BOOLEAN
    /\ edits \in Nat /\ faults \in Nat /\ restarts \in Nat

\* A resource of an operand exists only while an SSP exists that carries one of
\* the operator's finalizers, so that deleting the SSP can not leave it behind:
\* initialize adds the finalizer before reconcileOperands creates anything, and
\* cleanup removes it only after every operand reported its resources deleted.
OperandsProtected ==
    (\E o \in Operands : res[o].st # "absent") => ssp # NoSsp /\ hasFinalizer(ssp)

\* Status.ObservedGeneration is only ever set to the generation the object has
\* at that moment: a status update built from an old read never claims to have
\* observed a spec that has meanwhile been replaced.
ObservedGenerationExact ==
    [][ssp # NoSsp /\ ssp' # NoSsp /\ ssp'.obs # ssp.obs
       => ssp'.obs = ssp.gen]_vars

\* The SSP as the owner of its operands' resources, in the terms of the abstract
\* finalizer protocol.
ownerState ==
    IF ssp = NoSsp THEN "absent"
    ELSE IF ~hasFinalizer(ssp) THEN "bare"
    ELSE IF ssp.deleting THEN "leaving"
    ELSE "guarded"

Finalizing == INSTANCE FinalizerProtocol
    WITH Things <- Operands, owner <- ownerState,
         things <- {o \in Operands : res[o].st # "absent"}

\* The controller, with its stale caches, conflicts, lost answers and restarts,
\* implements the finalizer protocol (initialize, updateSsp, cleanup).
ImplementsFinalizerProtocol == Finalizing!Spec

\* Nothing is in flight: no event, no queued request, no running reconciliation.
Quiescent ==
    /\ stream = <<>> /\ queue = "none" /\ pc = "idle"
    /\ ssp # NoSsp => "foreground" \notin ssp.fin
    /\ \A o \in Operands : ev[o] = "none" /\ res[o].st # "deleting"

\* What the SSP, its status, its operands and the metric say agrees.
InStep(s) ==
    /\ ~s.deleting
    /\ s.ann => s.paused
    /\ ~s.ann /\ crdsMissing => ~s.good
    /\ ~s.ann /\ ~crdsMissing =>
         /\ s.obs = s.gen /\ ~s.paused
         /\ \A o \in Operands : res[o].st = "live" /\ res[o].spec = s.spec
         /\ s.phase = IF \A o \in Operands : res[o].ready THEN "Deployed" ELSE "Deploying"
         /\ s.good = succeeded /\ s.good = (s.phase = "Deployed")

\* No wake-up is lost once something is deployed: when nothing is in flight, the
\* operands, the status and the metric are what Reconcile makes of the spec.  The
\* predicates of watchSspResource and watchResources, the version cache and the
\* requeues of Reconcile must together not miss a change.
Converged ==
    Quiescent /\ ssp # NoSsp /\ (\E o \in Operands : res[o].st = "live") => InStep(ssp)

\* The same for every SSP, from its creation on: the update made by initialize
\* triggers the reconciliation that deploys the operands.
ConvergedFromCreation == Quiescent /\ ssp # NoSsp => InStep(ssp)

\* Once users, faults and restarts stop, everything comes to an end: the writes of
\* the operator do not keep it reconciling for ever, and an SSP whose deletion was
\* requested is gone, since each cleanup that leaves deletions pending is followed
\* by another one.
EventuallySettled == <>[](pc = "idle" /\ queue = "none" /\ (ssp = NoSsp \/ ~ssp.deleting))
=============================================================================
