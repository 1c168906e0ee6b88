-------------------------- MODULE FinalizerProtocol --------------------------
(***************************************************************************)
(* What the finalizer of the SSP promises, without caches, queues, retries *)
(* or crashes: things that only the operator removes are made while their  *)
(* owner is guarded by a finalizer, and the guard is released only when    *)
(* all of them are gone.                                                   *)
(***************************************************************************)
CONSTANT Things

VARIABLES
    owner,   \* absent; bare: no finalizer of ours; guarded; leaving: guarded
             \* and its deletion has been requested
    things   \* the things that exist

vars == <<owner, things>>

Init ==
    \/ owner = "absent" /\ things = {}
    \/ owner = "guarded" /\ things = Things

Create == owner = "absent" /\ owner' = "bare" /\ UNCHANGED things

Guard == owner = "bare" /\ owner' = "guarded" /\ UNCHANGED things

Delete ==
    /\ owner \in {"bare", "guarded"}
    /\ owner' = IF owner = "bare" THEN "absent" ELSE "leaving"
    /\ UNCHANGED things

\* A foreign finalizer may keep the owner for a while.
Release ==
    /\ owner = "leaving"
    /\ things = {}
    /\ owner' \in {"absent", "bare"}
    /\ UNCHANGED things

\* A reconciliation that is under way may still make things for an owner whose
\* deletion has been requested.
Make(t) ==
    /\ owner \in {"guarded", "leaving"}
    /\ things' = things \cup {t}
    /\ UNCHANGED owner

Lose(t) == things' = things \ {t} /\ UNCHANGED owner

Next ==
    \/ Create \/ Guard \/ Delete \/ Release
    \/ \E t \in Things : Make(t) \/ Lose(t)

Spec == Init /\ [][Next]_vars

\* Nothing is left behind: while anything exists, its owner exists and is guarded.
NothingLeftBehind == things # {} => owner \in {"guarded", "leaving"}
=============================================================================
