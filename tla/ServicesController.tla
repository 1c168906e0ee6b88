--------------------------- MODULE ServicesController ---------------------------
(***************************************************************************)
(* The Service for the operator's metrics (controllers/services_controller   *)
(* .go): a runnable of the manager creates it, and only then sets up the     *)
(* controller that restores it.                                              *)
(*                                                                          *)
(* The Service is {} or {[spec, labels, owner, deleting, rv]}: whether its    *)
(* spec, its labels and its owner reference are those of ServiceObject.      *)
(***************************************************************************)
EXTENDS Naturals

CONSTANTS
    MaxEdits,  \* bound: changes of the Service by others
    MaxFaults  \* bound: failed requests

VARIABLES
    service,  \* the Service on the API server
    seen,     \* the informer's copy
    pending,  \* the informer has yet to see a change
    queued,   \* a request of the controller
    phase,    \* "start", "deployment", "created", "watching", "failed"
    missed,   \* the Service vanished between its creation and the first list
    clock,    \* the next resource version
    edits,
    faults

vars == <<service, seen, pending, queued, phase, missed, clock, edits, faults>>

ServiceObject(rv) ==
    [spec |-> TRUE, labels |-> TRUE, owner |-> TRUE, deleting |-> FALSE, rv |-> rv]

Fault == faults > 0 /\ faults' = faults - 1

Stored(new) == service' = new /\ pending' = TRUE /\ clock' = clock + 1

Created == Stored({ServiceObject(clock)})

Unstored == UNCHANGED <<service, pending, clock>>

-----------------------------------------------------------------------------
(* AddToManager *)

\* An error of the runnable ends the manager.
getOperatorDeployment ==
    /\ phase = "start"
    /\ \/ phase' = "deployment" /\ UNCHANGED faults
       \/ Fault /\ phase' = "failed"
    /\ UNCHANGED <<service, seen, pending, queued, missed, clock, edits>>

createMetricsService ==
    /\ phase = "deployment"
    /\ \/ /\ phase' = "created" /\ UNCHANGED faults
          /\ IF service = {} THEN Created ELSE Unstored  \* already exists
       \/ Fault /\ phase' = "failed" /\ Unstored
    /\ UNCHANGED <<seen, queued, missed, edits>>

\* The informer's first list makes an event for the Service if it is there.
setupController ==
    /\ phase = "created"
    /\ phase' = "watching"
    /\ seen' = service /\ pending' = FALSE /\ queued' = (service # {})
    /\ UNCHANGED <<service, missed, clock, edits, faults>>

Restart ==
    /\ phase = "failed" \/ Fault
    /\ phase = "failed" => UNCHANGED faults
    /\ phase' = "start" /\ seen' = {} /\ pending' = FALSE /\ queued' = FALSE /\ missed' = FALSE
    /\ UNCHANGED <<service, clock, edits>>

-----------------------------------------------------------------------------
(* Reconcile *)

\* Mutant: the labels are left as they are.
RestoredWithoutLabels(s) ==
    IF s.deleting THEN s ELSE [s EXCEPT !.spec = TRUE, !.owner = TRUE]

\* The mutate function: a Service that is being deleted is left alone.
Restored(s) ==
    IF s.deleting THEN s ELSE [s EXCEPT !.spec = TRUE, !.labels = TRUE, !.owner = TRUE]

Watching == phase = "watching"

\* CreateOrUpdate: a request that fails is tried again.
Reconcile ==
    /\ Watching /\ queued
    /\ \/ /\ seen = {} /\ service = {} /\ Created
          /\ queued' = FALSE /\ UNCHANGED faults
       \/ /\ seen = {} /\ service # {}               \* already exists
          /\ Unstored /\ UNCHANGED <<queued, faults>>
       \/ \E s \in seen :
             IF Restored(s) = s
             THEN queued' = FALSE /\ Unstored /\ UNCHANGED faults
             ELSE IF service = seen
             THEN /\ Stored({[Restored(s) EXCEPT !.rv = clock]})
                  /\ queued' = FALSE /\ UNCHANGED faults
             ELSE Unstored /\ UNCHANGED <<queued, faults>>  \* conflict or not found
       \/ Fault /\ Unstored /\ UNCHANGED queued
    /\ UNCHANGED <<seen, phase, missed, edits>>

Deliver ==
    /\ Watching /\ pending
    /\ seen' = service /\ pending' = FALSE /\ queued' = TRUE
    /\ UNCHANGED <<service, phase, missed, clock, edits, faults>>

-----------------------------------------------------------------------------
(* Others *)

Gone == Stored({}) /\ missed' = (missed \/ phase = "created")

EditService ==
    /\ edits > 0 /\ edits' = edits - 1
    /\ \E s \in service :
          \/ \E f \in {"spec", "labels", "owner"} :
                Stored({[s EXCEPT ![f] = FALSE, !.rv = clock]}) /\ UNCHANGED missed
          \/ /\ ~s.deleting                          \* it has finalizers
             /\ Stored({[s EXCEPT !.deleting = TRUE, !.rv = clock]}) /\ UNCHANGED missed
          \/ ~s.deleting /\ Gone
    /\ UNCHANGED <<seen, queued, phase, faults>>

Vanish ==
    /\ \E s \in service : s.deleting
    /\ Gone
    /\ UNCHANGED <<seen, queued, phase, edits, faults>>

Init ==
    /\ service = {} /\ seen = {} /\ pending = FALSE /\ queued = FALSE
    /\ phase = "start" /\ missed = FALSE
    /\ clock = 1 /\ edits = MaxEdits /\ faults = MaxFaults

Next ==
    \/ getOperatorDeployment \/ createMetricsService \/ setupController \/ Restart
    \/ Reconcile \/ Deliver \/ EditService \/ Vanish

-----------------------------------------------------------------------------
\* The operator's metrics stay reachable: once others leave the Service alone it
\* exists for good, with the spec, labels and owner of ServiceObject.  The one
\* exception is a Service that vanishes after createMetricsService and before
\* the controller's informer lists: no event tells of it until a restart.
ServiceUp ==
    missed \/ \E s \in service : s.spec /\ s.labels /\ s.owner /\ ~s.deleting
=============================================================================
