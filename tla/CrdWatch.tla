------------------------------ MODULE CrdWatch ------------------------------
(***************************************************************************)
(* The watch on CustomResourceDefinitions (internal/crd-watch) and its use *)
(* by setupManager: the operator decides once, when it starts, whether     *)
(* required CRDs are missing, and stops to be restarted when that changes. *)
(* CrdWatch.sync, run by Start, races with the informer's event handler.   *)
(***************************************************************************)
EXTENDS Naturals, Sequences, FiniteSets

CONSTANTS
    Crds,        \* names of CRDs
    Required,    \* the names the controllers' RequiredCrds return
    MaxChanges   \* bound on CRDs being installed or removed

ASSUME CrdsAssumption ==
    IsFiniteSet(Crds) /\ Required \subseteq Crds /\ MaxChanges \in Nat

VARIABLES
    crds,            \* the CRDs installed in the cluster, as the informer sees them
    events,          \* the informer's events the handler has not processed
    existing,        \* CrdWatch.existingCrds
    missing,         \* CrdWatch.missingCrds
    initialized,     \* CrdWatch.initialized
    newCrds,         \* in sync: what its List returned
    areCrdsMissing,  \* sspController.areCrdsMissing
    pc,              \* where setupManager, and then Start, is
    cancelled,       \* the manager's context is cancelled
    changes

crdVars == <<crds, events, existing, missing, initialized, newCrds, areCrdsMissing, pc,
          cancelled, changes>>

Event == [op : {"added", "deleted"}, name : Crds]

-----------------------------------------------------------------------------
(* New, crdAdded, crdDeleted *)

New ==
    /\ existing = {}
    /\ missing = Required
    /\ initialized = FALSE

\* crdAdded calls AllCrdsAddedHandler when it removes the last missing name.
allCrdsAdded(names, miss) == initialized /\ miss # {} /\ miss \ names = {}

\* Mutation of someCrdRemoved: the handler runs when the last CRD is removed.
someCrdRemovedLast(names, miss) ==
    initialized /\ miss # Required /\ miss \cup (names \cap Required) = Required

\* crdDeleted calls SomeCrdRemovedHandler when it adds the first missing name.
someCrdRemoved(names, miss) == initialized /\ miss = {} /\ names \cap Required # {}

\* Mutation of Update: deleted names are not put among the missing ones.
UpdateForgetMissing(added, deleted) ==
    LET rest == missing \ added IN
    /\ existing' = (existing \cup added) \ deleted
    /\ missing' = rest
    /\ cancelled' = (cancelled \/ allCrdsAdded(added, missing) \/ someCrdRemoved(deleted, rest))

\* Mutation of Update: crdDeleted does not look at requiredCrds.
UpdateAllMissing(added, deleted) ==
    LET rest == missing \ added IN
    /\ existing' = (existing \cup added) \ deleted
    /\ missing' = rest \cup deleted
    /\ cancelled' = (cancelled \/ allCrdsAdded(added, missing) \/ someCrdRemoved(deleted, rest))

\* crdAdded for some names, then crdDeleted for others, under the lock.
Update(added, deleted) ==
    LET rest == missing \ added IN
    /\ existing' = (existing \cup added) \ deleted
    /\ missing' = rest \cup (deleted \cap Required)
    /\ cancelled' = (cancelled \/ allCrdsAdded(added, missing) \/ someCrdRemoved(deleted, rest))

-----------------------------------------------------------------------------
(* setupManager and Start *)

\* CrdWatch.Init: sync with the API server, before anything else runs.
InitWatch ==
    /\ pc = "init"
    /\ Update(crds \ existing, existing \ crds)
    /\ initialized' = TRUE
    /\ pc' = "addToManager"
    /\ UNCHANGED <<crds, events, newCrds, areCrdsMissing, changes>>

AddToManager ==
    /\ pc = "addToManager"
    /\ areCrdsMissing' = (missing # {})
    /\ pc' = "addEventHandler"
    /\ UNCHANGED <<crds, events, existing, missing, initialized, newCrds, cancelled, changes>>

\* The handler first hears of every CRD in the informer's store, in any order.
AddEventHandler ==
    /\ pc = "addEventHandler"
    /\ \E order \in [1..Cardinality(crds) -> crds] :
          /\ \A i, j \in DOMAIN order : order[i] = order[j] => i = j
          /\ events' = [i \in DOMAIN order |-> [op |-> "added", name |-> order[i]]]
    /\ pc' = "list"
    /\ UNCHANGED <<crds, existing, missing, initialized, newCrds, areCrdsMissing,
                   cancelled, changes>>

\* sync up to c.lock.Lock()
List ==
    /\ pc = "list"
    /\ newCrds' = crds
    /\ pc' = "sync"
    /\ UNCHANGED <<crds, events, existing, missing, initialized, areCrdsMissing,
                   cancelled, changes>>

\* Mutation of Sync: removals are left to the event handler.
SyncAddedOnly ==
    /\ pc = "sync"
    /\ Update(newCrds \ existing, {})
    /\ pc' = "running"
    /\ UNCHANGED <<crds, events, initialized, newCrds, areCrdsMissing, changes>>

\* sync from c.lock.Lock() on
Sync ==
    /\ pc = "sync"
    /\ Update(newCrds \ existing, existing \ newCrds)
    /\ pc' = "running"
    /\ UNCHANGED <<crds, events, initialized, newCrds, areCrdsMissing, changes>>

\* AddFunc and DeleteFunc
HandleEvent ==
    /\ events # <<>>
    /\ LET e == Head(events) IN
       IF e.op = "added" THEN Update({e.name}, {}) ELSE Update({}, {e.name})
    /\ events' = Tail(events)
    /\ UNCHANGED <<crds, initialized, newCrds, areCrdsMissing, pc, changes>>

-----------------------------------------------------------------------------
(* The cluster *)

Handling == pc \in {"list", "sync", "running"}

Notify(op, c) ==
    events' = IF Handling THEN Append(events, [op |-> op, name |-> c]) ELSE events

ClusterChange ==
    /\ changes > 0
    /\ changes' = changes - 1
    /\ \E c \in Crds :
          \/ c \notin crds /\ crds' = crds \cup {c} /\ Notify("added", c)
          \/ c \in crds /\ crds' = crds \ {c} /\ Notify("deleted", c)
    /\ UNCHANGED <<existing, missing, initialized, newCrds, areCrdsMissing, pc, cancelled>>

\* The manager stops, the process exits and the pod is restarted.
Restart ==
    /\ cancelled
    /\ pc # "init"
    /\ events' = <<>> /\ existing' = {} /\ missing' = Required /\ initialized' = FALSE
    /\ newCrds' = {} /\ areCrdsMissing' = FALSE /\ pc' = "init" /\ cancelled' = FALSE
    /\ UNCHANGED <<crds, changes>>

CrdInit ==
    /\ crds \in SUBSET Crds
    /\ New
    /\ events = <<>> /\ newCrds = {} /\ areCrdsMissing = FALSE /\ pc = "init"
    /\ cancelled = FALSE /\ changes = MaxChanges

CrdNext ==
    \/ InitWatch \/ AddToManager \/ AddEventHandler \/ List \/ Sync \/ HandleEvent
    \/ ClusterChange \/ Restart

CrdSpec == CrdInit /\ [][CrdNext]_crdVars

-----------------------------------------------------------------------------
(* Properties *)

\* The types of the variables.
CrdTypeOK ==
    /\ crds \subseteq Crds /\ existing \subseteq Crds /\ newCrds \subseteq Crds
    /\ missing \subseteq Required
    /\ events \in Seq(Event)
    /\ initialized \in BOOLEAN /\ areCrdsMissing \in BOOLEAN /\ cancelled \in BOOLEAN
    /\ pc \in {"init", "addToManager", "addEventHandler", "list", "sync", "running"}
    /\ changes \in Nat

\* existingCrds and missingCrds, which crdAdded and crdDeleted update separately,
\* never disagree, whatever sync and the event handler do to each other.
MissingExact == missing = Required \ existing

\* An operator that goes on running runs in the mode its CRD watch calls for:
\* when the set of missing CRDs becomes empty, or stops to be, one of the two
\* handlers has cancelled the manager.
ModeCurrent ==
    pc \in {"addEventHandler", "list", "sync", "running"} /\ ~cancelled
        => (areCrdsMissing <=> missing # {})

\* Nothing that concerns CRDs is in flight.
Quiet == pc = "running" /\ events = <<>>

\* An operator that started with all its CRDs notices that one was removed, even
\* when the removal falls between sync's List and its lock.
RemovalNoticed == Quiet /\ ~areCrdsMissing /\ ~(Required \subseteq crds) => cancelled

\* An operator that started without all its CRDs notices that the last one was
\* added: crdAdded then calls AllCrdsAddedHandler.
CompletionNoticed == Quiet /\ areCrdsMissing /\ Required \subseteq crds => cancelled
=============================================================================
