---------------------------- MODULE ResourceReconcile ----------------------------
(***************************************************************************)
(* How the operator keeps ONE dependent resource equal to what the SSP asks *)
(* for: common.CreateOrUpdate(...).Reconcile, common.Cleanup and the       *)
(* VersionCache (internal/common/resource.go, cache.go).                    *)
(*                                                                          *)
(* Where SspController follows a reconciliation through all operands and    *)
(* treats a resource as right or wrong, this module follows one resource    *)
(* through everything that may happen to it: other writers edit, relabel,   *)
(* delete or replace it; the informer's copy lags; a write conflicts, or    *)
(* succeeds and its answer is lost.  The resource carries the owner         *)
(* annotations (cluster resources, and resources outside the namespace of   *)
(* the SSP, as set by setOwner for isClusterResource).                      *)
(*                                                                          *)
(* A call of Reconcile is one action: it reads the informer's copy and ends *)
(* with at most one write.  Whatever happens between the two is covered by  *)
(* a copy that is already old when it is read.                              *)
(***************************************************************************)
EXTENDS Naturals, Sequences

CONSTANTS
    Specs,      \* contents of the resource
    Labels,     \* values of the labels the operator sets
    Kinds,      \* the kinds of resources: a set of KindOptions
    MaxEdits,   \* bound: changes by users and other controllers
    MaxFaults,  \* bound: requests whose answer is lost
    NoObj,      \* there is no such resource
    NoEntry,    \* the VersionCache has no entry for it
    NoSpec      \* SSP controller has no last seen SSP

\* generation: the API server counts the changes of the spec (a ConfigMap,
\* for example, has generation 0); immutable: ImmutableSpec(getter);
\* always: ReconcileOptions.AlwaysCallUpdateFunc; contested: others may take
\* over the name, or remove the annotations (not an option of the operator).
KindOptions == [generation: BOOLEAN, immutable: BOOLEAN, always: BOOLEAN, contested: BOOLEAN]

ASSUME KindsAssumption == Kinds \subseteq KindOptions
ASSUME NoSpecAssumption == NoSpec \notin Specs
ASSUME BoundsAssumption == /\ MaxEdits \in Nat
                           /\ MaxFaults \in Nat

VARIABLES
    kind,    \* which options the operand chose for this resource
    obj,     \* the resource on the API server
    seen,    \* the informer's copy
    stream,  \* the versions the informer has yet to see
    vc,      \* the VersionCache's entry
    last,    \* sspController.lastSspSpec
    want,    \* what the SSP asks for
    mode,    \* "deploy", "cleanup" (SSP is being deleted), "gone" (finalizer removed)
    queued,  \* a reconciliation is waiting, or will be retried
    clock,   \* the next resource version of the API server
    edits,
    faults

vars == <<kind, obj, seen, stream, vc, last, want, mode, queued, clock, edits, faults>>

\* mine: the owner annotations name the SSP (CheckOwnerAnnotation)
Object == [uid: Nat, rv: Nat, gen: Nat, spec: Specs, lab: Labels,
           mine: BOOLEAN, deleting: BOOLEAN]

cacheValue == [uid: Nat, rv: Nat, gen: Nat]

\* What a change may be about, other than the status
Contents == [spec: Specs, lab: Labels, mine: BOOLEAN, deleting: BOOLEAN]

ASSUME NoObjAssumption == NoObj \notin Object \cup Contents
ASSUME NoEntryAssumption == NoEntry \notin cacheValue

-----------------------------------------------------------------------------
(* VersionCache *)

\* Mutant: the uid is not compared.
ContainsAnyUid(c, o) ==
    /\ c # NoEntry
    /\ IF o.gen = 0 THEN c.rv = o.rv ELSE c.gen = o.gen

Contains(c, o) ==
    /\ c # NoEntry
    /\ c.uid = o.uid
    /\ IF o.gen = 0 THEN c.rv = o.rv ELSE c.gen = o.gen

\* Mutant: the generation is not stored.
EntryWithoutGeneration(o) == [uid |-> o.uid, rv |-> o.rv]

Entry(o) == [uid |-> o.uid, rv |-> o.rv, gen |-> o.gen]

\* The entry that the reconciliation starts with.
clearCacheIfNeeded == IF last = want.spec THEN vc ELSE NoEntry

-----------------------------------------------------------------------------
(* API server *)

\* Another version of the resource, with the given changes.
Version(o, spec, lab, mine) ==
    [o EXCEPT !.spec = spec, !.lab = lab, !.mine = mine, !.rv = clock,
              !.gen = IF kind.generation /\ spec # o.spec THEN o.gen + 1 ELSE o.gen]

Created(spec, lab, mine) ==
    [uid |-> clock, rv |-> clock, gen |-> IF kind.generation THEN 1 ELSE 0,
     spec |-> spec, lab |-> lab, mine |-> mine, deleting |-> FALSE]

\* Delete marks the object, Vanish removes it; a second delete changes nothing.
Deleted(o) ==
    IF o.deleting THEN o
    ELSE [o EXCEPT !.deleting = TRUE, !.rv = clock,
                   !.gen = IF kind.generation THEN o.gen + 1 ELSE o.gen]

\* Every change of the resource takes a resource version and is sent to the watch.
Publish ==
    IF obj' = obj THEN UNCHANGED <<clock, stream>>
    ELSE clock' = clock + 1 /\ stream' = Append(stream, obj')

\* The request is answered, or its answer is lost and the call ends in an error.
Request(result, onError, onSuccess) ==
    \/ obj' = result /\ onSuccess /\ UNCHANGED faults
    \/ faults > 0 /\ faults' = faults - 1 /\ obj' \in {obj, result} /\ onError

-----------------------------------------------------------------------------
(* reconcileBuilder.Reconcile *)

\* Owner, labels and annotations are always set; the rest only by updateFunc.
mutateFn(c, found) ==
    [found EXCEPT !.mine = TRUE, !.lab = want.lab,
                  !.spec = IF kind.always \/ ~Contains(c, found) THEN want.spec ELSE @]

\* An error makes the controller try again.
Failed(c) == vc' = c /\ queued' = TRUE

\* Mutant: success is answered with a requeue.
FinishedRequeue(entry) == vc' = entry /\ queued' = TRUE

Finished(entry) == vc' = entry /\ queued' = FALSE

Refused(c) == Failed(c) /\ UNCHANGED <<obj, faults>>

create(c) ==
    LET new == Created(want.spec, want.lab, TRUE) IN
    IF obj = NoObj THEN Request(new, Failed(c), Finished(Entry(new))) ELSE Refused(c)

\* The delete names the resource, whatever uid or version it has by now.
deleteImmutable(c) ==
    IF obj = NoObj THEN Refused(c) ELSE Request(Deleted(obj), Failed(c), Finished(NoEntry))

update(c, found, new) ==
    LET stored == Version(obj, new.spec, new.lab, new.mine) IN
    IF obj # NoObj /\ obj.rv = found.rv
    THEN Request(stored, Failed(c), Finished(Entry(stored)))
    ELSE Refused(c)

createOrUpdateWithImmutableSpec(c, found) ==
    LET new == mutateFn(c, found) IN
    \/ /\ new = found
       /\ Finished(Entry(found)) /\ UNCHANGED <<obj, faults>>
    \/ /\ kind.immutable /\ new.spec # found.spec
       /\ deleteImmutable(c)
    \/ /\ new # found /\ ~(kind.immutable /\ new.spec # found.spec)
       /\ update(c, found, new)

Reconcile ==
    LET c == clearCacheIfNeeded IN
    /\ mode = "deploy" /\ queued
    /\ \/ seen = NoObj /\ create(c)
       \/ /\ seen # NoObj /\ seen.deleting
          /\ Finished(NoEntry) /\ UNCHANGED <<obj, faults>>
       \/ /\ seen # NoObj /\ ~seen.deleting
          /\ createOrUpdateWithImmutableSpec(c, seen)
    /\ last' = want.spec
    /\ Publish
    /\ UNCHANGED <<kind, seen, want, mode, edits>>

-----------------------------------------------------------------------------
(* Cleanup *)

\* The resource exists, and its annotations name the SSP.
isResourceOwned(found) == found # NoObj /\ found.mine

clearCache == vc' = NoEntry /\ last' = NoSpec

\* The resource counts as deleted: with it, here, the whole SSP is cleaned up.
CleanedUp == mode' = "gone" /\ queued' = FALSE /\ clearCache /\ UNCHANGED <<obj, faults>>

\* Its deletion has started, and the event that it is gone brings Cleanup back.
Pending == mode' = mode /\ queued' = FALSE /\ clearCache

CleanupFailed == Failed(clearCacheIfNeeded) /\ last' = want.spec /\ mode' = mode

Cleanup ==
    /\ mode = "cleanup" /\ queued
    /\ \/ ~isResourceOwned(seen) /\ CleanedUp
       \/ /\ isResourceOwned(seen) /\ seen.deleting
          /\ Pending /\ UNCHANGED <<obj, faults>>
       \/ /\ isResourceOwned(seen) /\ ~seen.deleting
          /\ IF obj = NoObj THEN CleanedUp
             ELSE Request(Deleted(obj), CleanupFailed, Pending)
    /\ Publish
    /\ UNCHANGED <<kind, seen, want, edits>>

-----------------------------------------------------------------------------
(* Watches *)

Mine(o) == o # NoObj /\ o.mine

Content(o) == IF o = NoObj THEN NoObj
              ELSE [spec |-> o.spec, lab |-> o.lab, mine |-> o.mine, deleting |-> o.deleting]

\* Mutant: label changes are not noticed.
relevantSpecOnly(old, new) ==
    \/ old = NoObj \/ new = NoObj
    \/ old.spec # new.spec \/ old.mine # new.mine \/ old.deleting # new.deleting

\* Anything but a change of the status.
relevantChangesPredicate(old, new) == Content(old) # Content(new)

\* The informer sees the next version.  The handler enqueues the SSP that the
\* annotations of the old or of the new object name.
Deliver ==
    /\ stream # <<>>
    /\ seen' = Head(stream) /\ stream' = Tail(stream)
    /\ queued' = (queued \/ /\ Mine(seen) \/ Mine(seen')
                            /\ relevantChangesPredicate(seen, seen'))
    /\ UNCHANGED <<kind, obj, vc, last, want, mode, clock, edits, faults>>

-----------------------------------------------------------------------------
(* Everyone else *)

Edit == edits > 0 /\ edits' = edits - 1

\* The event of the SSP's own change enqueues it.
EditSsp ==
    /\ Edit /\ mode = "deploy"
    /\ queued' = TRUE
    /\ \/ /\ \E w \in [spec: Specs, lab: Labels] : w # want /\ want' = w
          /\ mode' = mode
       \/ mode' = "cleanup" /\ want' = want
    /\ UNCHANGED <<kind, obj, seen, stream, vc, last, clock, faults>>

\* Somebody changes the resource: its spec, its labels, its status, or, when
\* it is contested, its annotations.
Tamper ==
    /\ Edit /\ obj # NoObj
    /\ \E spec \in Specs, lab \in Labels, mine \in {obj.mine, obj.mine /\ ~kind.contested} :
          obj' = Version(obj, spec, lab, mine)
    /\ Publish
    /\ UNCHANGED <<kind, seen, vc, last, want, mode, queued, faults>>

DeleteResource ==
    /\ Edit /\ obj # NoObj /\ ~obj.deleting
    /\ obj' = Deleted(obj)
    /\ Publish
    /\ UNCHANGED <<kind, seen, vc, last, want, mode, queued, faults>>

\* Somebody else creates a resource with the same name.
CreateForeign ==
    /\ Edit /\ kind.contested /\ obj = NoObj
    /\ \E spec \in Specs, lab \in Labels : obj' = Created(spec, lab, FALSE)
    /\ Publish
    /\ UNCHANGED <<kind, seen, vc, last, want, mode, queued, faults>>

\* The API server removes what was marked for deletion.
Vanish ==
    /\ obj # NoObj /\ obj.deleting
    /\ obj' = NoObj
    /\ Publish
    /\ UNCHANGED <<kind, seen, vc, last, want, mode, queued, edits, faults>>

\* The operator starts again: with empty caches, a fresh list, and the create
\* event of the SSP.
Restart ==
    /\ faults > 0 /\ faults' = faults - 1
    /\ mode # "gone"
    /\ clearCache
    /\ seen' = obj /\ stream' = <<>> /\ queued' = TRUE
    /\ UNCHANGED <<kind, obj, want, mode, clock, edits>>

Init ==
    /\ kind \in Kinds
    /\ want \in [spec: Specs, lab: Labels]
    /\ obj = NoObj /\ seen = NoObj /\ stream = <<>>
    /\ vc = NoEntry /\ last = NoSpec
    /\ mode = "deploy" /\ queued = TRUE
    /\ clock = 1 /\ edits = MaxEdits /\ faults = MaxFaults

Next ==
    \/ Reconcile \/ Cleanup \/ Deliver \/ Vanish \/ Restart
    \/ EditSsp \/ Tamper \/ DeleteResource \/ CreateForeign

Spec == Init /\ [][Next]_vars

\* The worker and the informer keep going, and finalizers of resources finish.
Fairness == /\ WF_vars(Reconcile) /\ WF_vars(Cleanup)
            /\ WF_vars(Deliver) /\ WF_vars(Vanish)

FairSpec == Spec /\ Fairness

-----------------------------------------------------------------------------
(* Properties *)

\* The types of the variables.
TypeOK ==
    /\ kind \in Kinds
    /\ obj \in Object \cup {NoObj}
    /\ seen \in Object \cup {NoObj}
    /\ stream \in Seq(Object \cup {NoObj})
    /\ vc \in cacheValue \cup {NoEntry}
    /\ last \in Specs \cup {NoSpec}
    /\ want \in [spec: Specs, lab: Labels]
    /\ mode \in {"deploy", "cleanup", "gone"}
    /\ queued \in BOOLEAN
    /\ clock \in Nat /\ edits \in 0..MaxEdits /\ faults \in 0..MaxFaults

\* A version of the resource that VersionCache.Contains recognises, on the
\* server or in the informer, has the content that the last reconciled SSP spec
\* asks for: skipping updateFunc never skips a correction.  It needs the uid (a
\* resource deleted and made again starts at generation 1), the resource version
\* for kinds without generation, and the clearing when the SSP changes.
CachedIsDesired ==
    \A o \in {obj, seen} : o # NoObj /\ Contains(vc, o) => o.spec = last

\* The resource is what the SSP asks for.
Restored == /\ obj # NoObj /\ ~obj.deleting /\ obj.mine
            /\ obj.spec = want.spec /\ obj.lab = want.lab

\* Nothing is left to do: no event, no retry, no deletion in progress.
AtRest == mode = "deploy" /\ ~queued /\ stream = <<>> /\ (obj # NoObj => ~obj.deleting)

\* When nothing is left to do, an uncontested resource is what the SSP asks for,
\* whatever edits, deletions, lost answers and restarts came before: Reconcile
\* never rests on a wrong resource.
RestingIsRestored == AtRest /\ ~kind.contested => Restored

\* The same of every resource, also when others made it or took its annotations:
\* what the comment in createOrUpdateWithImmutableSpec says of a resource that
\* is deleted there, "It will be recreated in the next iteration".
RestingIsRecreated == AtRest => Restored

\* While the SSP is not deleted, reconciliations end and leave an uncontested
\* resource restored for good: no conflict, no deletion of an immutable resource
\* and no event of the operator's own writes keeps it going forever.
EventuallyRestored ==
    [](mode = "deploy") => <>[](~queued /\ (kind.contested \/ Restored))
=============================================================================
