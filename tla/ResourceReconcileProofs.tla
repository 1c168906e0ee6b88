------------------------ MODULE ResourceReconcileProofs ------------------------
(***************************************************************************)
(* The VersionCache never hides a wrong resource: CachedIsDesired, for any  *)
(* contents, kinds, and number of edits and faults.                         *)
(*                                                                          *)
(* Reconcile stores what it read, which may be old by then, so the property *)
(* has to hold of every version that the informer has or will have:         *)
(* Versions.  Among them, a uid and a generation (a resource version, for   *)
(* kinds without) determine the content, which is Determined below; it      *)
(* holds because the API server's current object has the highest generation *)
(* of its uid (Newest) and new uids and resource versions are new (Old).    *)
(*                                                                          *)
(* From that it follows that the operator rests only on a restored resource: *)
(* RestingIsRestored, in the second half.                                   *)
(***************************************************************************)
EXTENDS ResourceReconcile, TLAPS

Versions == ({obj, seen} \cup {stream[i] : i \in 1..Len(stream)}) \ {NoObj}

\* uids and resource versions below the clock are the only ones in use.
Old == /\ \A o \in Versions : o.uid < clock /\ o.rv < clock
       /\ vc # NoEntry => vc.uid < clock /\ vc.rv < clock

\* generation 0 stands for a kind without generations.
Counted == \A o \in Versions : o.gen = 0 <=> ~kind.generation

Determined ==
    \A o, p \in Versions :
        /\ o.rv = p.rv => o = p
        /\ o.uid = p.uid /\ o.gen = p.gen /\ kind.generation => o.spec = p.spec

Newest ==
    obj # NoObj =>
        /\ \A o \in Versions : o.uid = obj.uid => o.gen <= obj.gen
        /\ vc # NoEntry /\ vc.uid = obj.uid => vc.gen <= obj.gen

CachedVersions == \A o \in Versions : Contains(vc, o) => o.spec = last

IInv == TypeOK /\ Old /\ Counted /\ Determined /\ Newest /\ CachedVersions

\* The versions are resources.
LEMMA VersionsType == TypeOK => Versions \subseteq Object
BY DEF TypeOK, Versions

\* The initial state satisfies the invariant.
LEMMA InitIInv == Init => IInv
<1> SUFFICES ASSUME Init PROVE IInv
  BY Zenon
<1>1. Versions = {}
  BY DEF Init, Versions
<1>2. TypeOK
  BY BoundsAssumption DEF Init, TypeOK
<1> QED
  BY <1>1, <1>2, Zenon DEF Init, IInv, Old, Counted, Determined, Newest, CachedVersions

\* What a step does to the versions: they are some of the old ones, and the
\* new version when it publishes one.
LEMMA PublishVersions ==
    ASSUME TypeOK, Publish, seen' = seen
    PROVE  Versions' \subseteq Versions \cup ({obj'} \ {NoObj})
<1>1. CASE obj' = obj
  BY <1>1, Zenon DEF Publish, Versions
<1>2. CASE obj' # obj
  <2>1. stream' = Append(stream, obj')
    BY <1>2, Zenon DEF Publish
  <2>2. stream \in Seq(Object \cup {NoObj})
    BY Zenon DEF TypeOK
  <2>3. Len(stream') = Len(stream) + 1 /\ Len(stream) \in Nat
    BY <2>1, <2>2
  <2>4. \A i \in 1..Len(stream') : stream'[i] = obj' \/ (i \in 1..Len(stream) /\ stream'[i] = stream[i])
    BY <2>1, <2>2, <2>3
  <2> QED
    BY <2>4, Zenon DEF Versions
<1> QED
  BY <1>1, <1>2, Zenon

\* An informer that takes the next version, or lists anew, sees no others.
LEMMA DeliverVersions ==
    ASSUME TypeOK, stream # <<>>, seen' = Head(stream), stream' = Tail(stream), obj' = obj
    PROVE  Versions' \subseteq Versions
<1>1. stream \in Seq(Object \cup {NoObj})
  BY Zenon DEF TypeOK
<1>2. Len(stream) \in Nat \ {0} /\ Len(stream') = Len(stream) - 1
  BY <1>1
<1>3. seen' = stream[1]
  BY <1>1
<1>4. \A i \in 1..Len(stream') : i + 1 \in 1..Len(stream) /\ stream'[i] = stream[i + 1]
  BY <1>1, <1>2
<1> QED
  BY <1>2, <1>3, <1>4 DEF Versions

\* With no new version, and an entry that is the old one, none, or that of a
\* version with the desired content, the invariant is kept.
LEMMA NothingNew ==
    ASSUME IInv, TypeOK', Versions' \subseteq Versions,
           obj' \in {obj, NoObj}, clock' \in {clock, clock + 1}, kind' = kind,
           \/ vc' = NoEntry
           \/ vc' = vc /\ last' = last
           \/ \E o \in Versions : vc' = Entry(o) /\ o.spec = last'
    PROVE  IInv'
<1> USE DEF IInv
<1>0. Versions \subseteq Object
  BY VersionsType, Zenon
<1>1. clock \in Nat /\ clock' \in Nat
  BY Zenon DEF TypeOK
<1>2. Counted' /\ Determined'
  BY Zenon DEF Counted, Determined
<1>3. Old'
  <2>1. ASSUME NEW o \in Versions PROVE o.uid < clock' /\ o.rv < clock'
    BY <1>0, <1>1 DEF Old, Object
  <2>2. ASSUME vc' # NoEntry PROVE vc'.uid < clock' /\ vc'.rv < clock'
    <3>1. CASE vc' = vc
      <4>1. vc.uid \in Nat /\ vc.rv \in Nat /\ vc.uid < clock /\ vc.rv < clock
        BY <2>2, <3>1, Zenon DEF Old, TypeOK, cacheValue
      <4> QED
        BY <4>1, <3>1, <1>1
    <3>2. CASE \E o \in Versions : vc' = Entry(o) /\ o.spec = last'
      BY <3>2, <2>1 DEF Entry
    <3> QED
      BY <2>2, <3>1, <3>2, Zenon
  <2> QED
    BY <2>1, <2>2, Zenon DEF Old
<1>4. Newest'
  <2> SUFFICES ASSUME obj' # NoObj
               PROVE  /\ \A o \in Versions' : o.uid = obj'.uid => o.gen <= obj'.gen
                      /\ vc' # NoEntry /\ vc'.uid = obj'.uid => vc'.gen <= obj'.gen
    BY Zenon DEF Newest
  <2>1. obj' = obj /\ obj # NoObj
    BY Zenon
  <2>2. \A o \in Versions : o.uid = obj.uid => o.gen <= obj.gen
    BY <2>1, Zenon DEF Newest
  <2>3. vc' # NoEntry /\ vc'.uid = obj'.uid => vc'.gen <= obj'.gen
    <3>1. CASE vc' = vc
      BY <3>1, <2>1, Zenon DEF Newest
    <3>2. CASE \E o \in Versions : vc' = Entry(o) /\ o.spec = last'
      BY <3>2, <2>1, <2>2 DEF Entry
    <3> QED
      BY <3>1, <3>2, Zenon
  <2> QED
    BY <2>1, <2>2, <2>3, Zenon
<1>5. CachedVersions'
  <2> SUFFICES ASSUME NEW p \in Versions', Contains(vc', p) PROVE p.spec = last'
    BY Zenon DEF CachedVersions
  <2>1. CASE vc' = vc /\ last' = last
    BY <2>1, Zenon DEF CachedVersions
  <2>2. CASE \E o \in Versions : vc' = Entry(o) /\ o.spec = last'
    <3>1. PICK o \in Versions : vc' = Entry(o) /\ o.spec = last'
      BY <2>2, Zenon
    <3>2. p \in Versions /\ p.uid = o.uid /\ (IF p.gen = 0 THEN o.rv = p.rv ELSE o.gen = p.gen)
      BY <3>1, Zenon DEF Contains, Entry
    <3> QED
      BY <3>1, <3>2, Zenon DEF Determined, Counted
  <2> QED
    BY <2>1, <2>2, Zenon DEF Contains
<1> QED
  BY <1>2, <1>3, <1>4, <1>5, Zenon

\* A new version of the object on the server: same uid, same or next
\* generation, and the next one if the content is another.
Successor(new) ==
    /\ obj # NoObj /\ new \in Object
    /\ new.uid = obj.uid /\ new.rv = clock
    /\ IF kind.generation THEN new.gen \in {obj.gen, obj.gen + 1} ELSE new.gen = obj.gen
    /\ kind.generation /\ new.spec # obj.spec => new.gen = obj.gen + 1

\* A new object, in place of none.
Fresh(new) ==
    /\ new \in Object
    /\ new.uid = clock /\ new.rv = clock
    /\ new.gen = IF kind.generation THEN 1 ELSE 0

\* A new version keeps the invariant when the entry is the old one, none, or
\* that of the new version with the desired content.
LEMMA SomethingNew ==
    ASSUME IInv, TypeOK', Versions' \subseteq Versions \cup {obj'},
           Successor(obj') \/ Fresh(obj'),
           clock' = clock + 1, kind' = kind,
           \/ vc' = NoEntry
           \/ vc' = vc /\ last' = last
           \/ vc' = Entry(obj') /\ obj'.spec = last'
    PROVE  IInv'
<1> DEFINE new == obj'
<1> USE DEF IInv
<1>0. /\ Versions \subseteq Object
      /\ new \in Object
      /\ new # NoObj
      /\ new.rv = clock
  BY VersionsType, NoObjAssumption, Zenon DEF Successor, Fresh
<1>1. clock \in Nat /\ clock' = clock + 1
  BY Zenon DEF TypeOK
<1>a. obj # NoObj => obj \in Versions
  BY Zenon DEF Versions
<1>b. \A o \in Versions : o.rv # new.rv
  BY <1>0, <1>1 DEF Old, Object
<1>c. ASSUME NEW o \in Versions, o.uid = new.uid PROVE o.gen <= new.gen
  <2>1. Successor(new)
    BY <1>0, <1>1, <1>c DEF Old, Fresh, Object
  <2> QED
    BY <2>1, <1>0, <1>a, <1>c DEF Newest, Successor, Object
<1>d. ASSUME NEW o \in Versions, o.uid = new.uid, o.gen = new.gen, kind.generation
      PROVE  o.spec = new.spec
  <2>1. Successor(new)
    BY <1>0, <1>1, <1>d DEF Old, Fresh, Object
  <2>2. o.gen <= obj.gen /\ o.gen \in Nat /\ obj.gen \in Nat
    BY <2>1, <1>0, <1>a, <1>d, Zenon DEF Newest, Successor, Object
  <2>3. new.gen = obj.gen /\ new.spec = obj.spec
    BY <2>1, <2>2, <1>d DEF Successor
  <2> QED
    BY <2>1, <2>3, <1>a, <1>d DEF Determined, Successor
<1>e. vc # NoEntry => /\ vc.uid \in Nat /\ vc.rv \in Nat /\ vc.gen \in Nat
                      /\ vc.uid < clock /\ vc.rv < clock
  BY Zenon DEF Old, TypeOK, cacheValue
<1>2. Old'
  <2>1. ASSUME NEW o \in Versions' PROVE o.uid < clock' /\ o.rv < clock'
    <3>1. CASE o \in Versions
      BY <3>1, <1>0, <1>1 DEF Old, Object
    <3>2. CASE o = new
      <4>1. new.uid < clock + 1
        BY <1>0, <1>1, <1>a DEF Old, Object, Successor, Fresh
      <4> QED
        BY <4>1, <3>2, <1>0, <1>1
    <3> QED
      BY <2>1, <3>1, <3>2, Zenon
  <2>2. obj' \in Versions'
    BY <1>0, Zenon DEF Versions
  <2>3. vc' # NoEntry => vc'.uid < clock' /\ vc'.rv < clock'
    BY <2>1, <2>2, <1>e, <1>1 DEF Entry
  <2> QED
    BY <2>1, <2>3, Zenon DEF Old
<1>3. Counted'
  <2>1. new.gen = 0 <=> ~kind.generation
    BY <1>0, <1>a DEF Counted, Successor, Fresh, Object
  <2> QED
    BY <2>1, Zenon DEF Counted
<1>4. Determined'
  <2> SUFFICES ASSUME NEW o \in Versions', NEW p \in Versions'
               PROVE  /\ o.rv = p.rv => o = p
                      /\ o.uid = p.uid /\ o.gen = p.gen /\ kind.generation => o.spec = p.spec
    BY Zenon DEF Determined
  <2>1. CASE o \in Versions /\ p \in Versions
    BY <2>1, Zenon DEF Determined
  <2>2. CASE o = new \/ p = new
    BY <2>2, <1>b, <1>d, Zenon
  <2> QED
    BY <2>1, <2>2, Zenon
<1>5. Newest'
  <2>1. vc' # NoEntry /\ vc'.uid = new.uid => vc'.gen <= new.gen
    <3>1. CASE vc' = vc
      <4>1. ASSUME vc # NoEntry, vc.uid = new.uid PROVE vc.gen <= new.gen
        <5>1. Successor(new)
          BY <4>1, <1>1, <1>e DEF Fresh
        <5> QED
          BY <5>1, <4>1, <1>0, <1>a, <1>e DEF Newest, Successor, Object
      <4> QED
        BY <3>1, <4>1, Zenon
    <3>2. CASE vc' = Entry(new)
      BY <3>2, <1>0 DEF Entry, Object
    <3> QED
      BY <3>1, <3>2, Zenon
  <2>2. \A o \in Versions' : o.uid = new.uid => o.gen <= new.gen
    BY <1>c, <1>0 DEF Object
  <2> QED
    BY <2>1, <2>2, Zenon DEF Newest
<1>6. CachedVersions'
  <2> SUFFICES ASSUME NEW o \in Versions', Contains(vc', o) PROVE o.spec = last'
    BY Zenon DEF CachedVersions
  <2>1. CASE vc' = vc /\ last' = last
    <3>1. CASE o \in Versions
      BY <2>1, <3>1, Zenon DEF CachedVersions
    <3>2. CASE o = new
      <4>1. vc # NoEntry /\ vc.uid = new.uid /\ (IF new.gen = 0 THEN vc.rv = new.rv ELSE vc.gen = new.gen)
        BY <2>1, <3>2, Zenon DEF Contains
      <4>2. Successor(new)
        BY <4>1, <1>1, <1>e DEF Fresh
      <4>3. new.gen # 0 /\ vc.gen = new.gen
        BY <4>1, <1>0, <1>1, <1>e
      <4>4. kind.generation /\ obj.gen \in Nat /\ obj.gen # 0
        BY <4>2, <4>3, <1>0, <1>a, Zenon DEF Counted, Successor, Object
      <4>5. vc.gen <= obj.gen
        BY <4>1, <4>2, Zenon DEF Newest, Successor
      <4>6. new.gen = obj.gen /\ new.spec = obj.spec
        BY <4>2, <4>3, <4>4, <4>5, <1>e, <4>1 DEF Successor
      <4>7. Contains(vc, obj)
        BY <4>1, <4>2, <4>3, <4>4, <4>6, Zenon DEF Contains, Successor
      <4> QED
        BY <4>2, <4>6, <4>7, <2>1, <3>2, <1>a, Zenon DEF CachedVersions, Successor
    <3> QED
      BY <3>1, <3>2, Zenon
  <2>2. CASE vc' = Entry(new) /\ new.spec = last'
    <3>1. CASE o \in Versions
      <4>1. o.uid = new.uid /\ (IF o.gen = 0 THEN o.rv = new.rv ELSE o.gen = new.gen)
        BY <2>2, Zenon DEF Contains, Entry
      <4> QED
        BY <4>1, <3>1, <2>2, <1>b, <1>d, Zenon DEF Counted
    <3> QED
      BY <3>1, <2>2, Zenon
  <2> QED
    BY <2>1, <2>2, Zenon DEF Contains
<1> QED
  BY <1>2, <1>3, <1>4, <1>5, <1>6, Zenon

-----------------------------------------------------------------------------
(* What the API server stores *)

\* An edit makes a successor.
LEMMA VersionIsSuccessor ==
    ASSUME TypeOK, obj # NoObj,
           NEW spec \in Specs, NEW lab \in Labels, NEW mine \in BOOLEAN
    PROVE  /\ Successor(Version(obj, spec, lab, mine))
           /\ Version(obj, spec, lab, mine).spec = spec
<1> DEFINE v == Version(obj, spec, lab, mine)
           g == IF kind.generation /\ spec # obj.spec THEN obj.gen + 1 ELSE obj.gen
<1>1. obj \in Object /\ clock \in Nat
  BY Zenon DEF TypeOK
<1>2. obj.gen \in Nat /\ g \in Nat
  BY <1>1 DEF Object
<1>3. v = [obj EXCEPT !.spec = spec, !.lab = lab, !.mine = mine, !.rv = clock, !.gen = g]
  BY Zenon DEF Version
<1> HIDE DEF v, g
<1>4. v \in Object
  BY <1>1, <1>2, <1>3, Zenon DEF Object
<1>5. v.uid = obj.uid /\ v.rv = clock /\ v.gen = g /\ v.spec = spec
  BY <1>1, <1>2, <1>3, Zenon DEF Object
<1> QED
  BY <1>2, <1>4, <1>5, Zenon DEF Successor, g, v

\* A deletion makes a successor, or changes nothing.
LEMMA DeletedIsSuccessor ==
    ASSUME TypeOK, obj # NoObj
    PROVE  Deleted(obj) = obj \/ Successor(Deleted(obj))
<1> DEFINE v == Deleted(obj)
           g == IF kind.generation THEN obj.gen + 1 ELSE obj.gen
<1>1. obj \in Object /\ clock \in Nat
  BY Zenon DEF TypeOK
<1>2. obj.gen \in Nat /\ g \in Nat
  BY <1>1 DEF Object
<1>3. v = obj \/ v = [obj EXCEPT !.deleting = TRUE, !.rv = clock, !.gen = g]
  BY Zenon DEF Deleted
<1> HIDE DEF v, g
<1>4. CASE v # obj
  <2>1. v \in Object
    BY <1>1, <1>2, <1>3, Zenon DEF Object
  <2>2. v.uid = obj.uid /\ v.rv = clock /\ v.gen = g /\ v.spec = obj.spec
    BY <1>1, <1>2, <1>3, <1>4, Zenon DEF Object
  <2> QED
    BY <1>2, <2>1, <2>2, Zenon DEF Successor, g, v
<1> QED
  BY <1>4, Zenon DEF v

\* A creation makes a fresh object.
LEMMA CreatedIsFresh ==
    ASSUME TypeOK, NEW spec \in Specs, NEW lab \in Labels, NEW mine \in BOOLEAN
    PROVE  /\ Fresh(Created(spec, lab, mine))
           /\ Created(spec, lab, mine).spec = spec
<1>1. clock \in Nat
  BY Zenon DEF TypeOK
<1> QED
  BY <1>1, Zenon DEF Fresh, Created, Object

\* What a step that publishes must leave in obj.
Stored == obj' = obj \/ obj' = NoObj \/ Successor(obj') \/ Fresh(obj')

\* ... and in the VersionCache.
Cached ==
    \/ vc' = NoEntry
    \/ vc' = vc /\ last' = last
    \/ obj' = obj /\ \E o \in Versions : vc' = Entry(o) /\ o.spec = last'
    \/ obj' # NoObj /\ vc' = Entry(obj') /\ obj'.spec = last'

\* The types that follow from what a step leaves.
LEMMA StoredType ==
    ASSUME TypeOK, Stored, Publish
    PROVE  /\ obj' \in Object \cup {NoObj}
           /\ stream' \in Seq(Object \cup {NoObj})
           /\ clock' \in Nat
<1>1. obj' \in Object \cup {NoObj}
  BY Zenon DEF TypeOK, Stored, Successor, Fresh
<1>2. stream \in Seq(Object \cup {NoObj}) /\ clock \in Nat
  BY Zenon DEF TypeOK
<1>3. Append(stream, obj') \in Seq(Object \cup {NoObj})
  BY <1>1, <1>2
<1>4. clock + 1 \in Nat
  BY <1>2
<1> QED
  BY <1>1, <1>2, <1>3, <1>4, Zenon DEF Publish

\* The type of the entry.
LEMMA CachedType ==
    ASSUME TypeOK, Stored, Cached
    PROVE  vc' \in cacheValue \cup {NoEntry}
<1>1. \A o \in Object : Entry(o) \in cacheValue
  BY Zenon DEF Entry, Object, cacheValue
<1>2. Versions \subseteq Object
  BY VersionsType, Zenon
<1>3. obj' # NoObj => obj' \in Object
  BY Zenon DEF TypeOK, Stored, Successor, Fresh
<1> QED
  BY <1>1, <1>2, <1>3, Zenon DEF Cached, TypeOK

\* A step that publishes keeps the invariant.
LEMMA PublishStep ==
    ASSUME IInv, TypeOK', Publish, seen' = seen, kind' = kind, Stored, Cached
    PROVE  IInv'
<1>0. TypeOK
  BY Zenon DEF IInv
<1>1. Versions' \subseteq Versions \cup ({obj'} \ {NoObj})
  BY <1>0, PublishVersions, Zenon
<1>2. obj # NoObj => obj \in Versions
  BY Zenon DEF Versions
<1>3. CASE obj' = obj \/ obj' = NoObj
  <2>1. Versions' \subseteq Versions
    BY <1>1, <1>2, <1>3, Zenon
  <2>2. clock' \in {clock, clock + 1}
    BY Zenon DEF Publish
  <2>3. \/ vc' = NoEntry
        \/ vc' = vc /\ last' = last
        \/ \E o \in Versions : vc' = Entry(o) /\ o.spec = last'
    BY <1>2, <1>3, Zenon DEF Cached
  <2>4. obj' \in {obj, NoObj}
    BY <1>3, Zenon
  <2> QED
    BY <2>1, <2>2, <2>3, <2>4, NothingNew, Zenon
<1>4. CASE obj' # obj /\ obj' # NoObj
  <2>1. Versions' \subseteq Versions \cup {obj'}
    BY <1>1, Zenon
  <2>2. clock' = clock + 1
    BY <1>4, Zenon DEF Publish
  <2>3. Successor(obj') \/ Fresh(obj')
    BY <1>4, Zenon DEF Stored
  <2>4. \/ vc' = NoEntry
        \/ vc' = vc /\ last' = last
        \/ vc' = Entry(obj') /\ obj'.spec = last'
    BY <1>4, Zenon DEF Cached
  <2> QED
    BY <2>1, <2>2, <2>3, <2>4, SomethingNew, Zenon
<1> QED
  BY <1>3, <1>4, Zenon

-----------------------------------------------------------------------------
(* Reconcile *)

\* Reconcile stores a new version, deletes, or nothing; and the entry it leaves
\* belongs to a version with the desired content.
LEMMA ReconcileStores ==
    ASSUME IInv, Reconcile
    PROVE  Stored /\ Cached /\ queued' \in BOOLEAN /\ faults' \in 0..MaxFaults
<1> DEFINE c == clearCacheIfNeeded
<1> USE DEF IInv
<1>0. TypeOK /\ last' = want.spec /\ want.spec \in Specs /\ want.lab \in Labels
  BY Zenon DEF Reconcile, TypeOK
<1>1. ASSUME vc' = c PROVE Cached
  BY <1>0, <1>1, Zenon DEF Cached, clearCacheIfNeeded
<1>2. ASSUME Refused(c) PROVE Stored /\ Cached /\ queued' \in BOOLEAN /\ faults' \in 0..MaxFaults
  BY <1>0, <1>1, <1>2, Zenon DEF Refused, Failed, Stored, TypeOK
<1>3. ASSUME NEW new, NEW entry, Request(new, Failed(c), Finished(entry)),
             new = obj \/ Successor(new) \/ Fresh(new),
             entry = NoEntry \/ (new # NoObj /\ entry = Entry(new) /\ new.spec = want.spec)
      PROVE  Stored /\ Cached /\ queued' \in BOOLEAN /\ faults' \in 0..MaxFaults
  <2>1. CASE obj' = new /\ Finished(entry) /\ UNCHANGED faults
    BY <2>1, <1>0, <1>3, Zenon DEF Finished, Stored, Cached, TypeOK
  <2>2. CASE faults > 0 /\ faults' = faults - 1 /\ obj' \in {obj, new} /\ Failed(c)
    <3>1. faults' \in 0..MaxFaults
      BY <2>2, <1>0, BoundsAssumption DEF TypeOK
    <3> QED
      BY <2>2, <3>1, <1>1, <1>3, Zenon DEF Failed, Stored
  <2> QED
    BY <1>3, <2>1, <2>2, Zenon DEF Request
<1>4. CASE seen = NoObj /\ create(c)
  <2> DEFINE new == Created(want.spec, want.lab, TRUE)
  <2>1. Fresh(new) /\ new.spec = want.spec
    BY <1>0, CreatedIsFresh, Zenon
  <2>2. new # NoObj
    BY <2>1, NoObjAssumption, Zenon DEF Fresh
  <2>3. Refused(c) \/ Request(new, Failed(c), Finished(Entry(new)))
    BY <1>4, Zenon DEF create
  <2> HIDE DEF new, c
  <2> QED
    BY <2>1, <2>2, <2>3, <1>2, <1>3, Zenon
<1>5. CASE Finished(NoEntry) /\ UNCHANGED <<obj, faults>>
  BY <1>5, <1>0, Zenon DEF Finished, Stored, Cached, TypeOK
<1>6. CASE seen # NoObj /\ ~seen.deleting /\ createOrUpdateWithImmutableSpec(c, seen)
  <2> DEFINE new == mutateFn(c, seen)
  <2>1. seen \in Versions /\ seen \in Object
    BY <1>6, <1>0, Zenon DEF Versions, TypeOK
  <2>2. /\ new.spec = want.spec
        /\ new.lab = want.lab /\ new.mine = TRUE
    <3>1. new.spec = IF kind.always \/ ~Contains(c, seen) THEN want.spec ELSE seen.spec
      BY <2>1, Zenon DEF mutateFn, Object
    <3>2. Contains(c, seen) => seen.spec = want.spec
      BY <2>1, Zenon DEF CachedVersions, Contains, clearCacheIfNeeded
    <3>3. new.lab = want.lab /\ new.mine = TRUE
      BY <2>1, Zenon DEF mutateFn, Object
    <3> QED
      BY <3>1, <3>2, <3>3, Zenon
  <2>3. CASE new = seen /\ Finished(Entry(seen)) /\ UNCHANGED <<obj, faults>>
    BY <2>1, <2>2, <2>3, <1>0, Zenon DEF Finished, Stored, Cached, TypeOK
  <2>4. CASE deleteImmutable(c)
    <3>1. obj # NoObj => Deleted(obj) = obj \/ Successor(Deleted(obj))
      BY <1>0, DeletedIsSuccessor, Zenon
    <3>2. Refused(c) \/ (obj # NoObj /\ Request(Deleted(obj), Failed(c), Finished(NoEntry)))
      BY <2>4, Zenon DEF deleteImmutable
    <3> HIDE DEF c
    <3> QED
      BY <3>1, <3>2, <1>2, <1>3, Zenon
  <2>5. CASE update(c, seen, new)
    <3> DEFINE stored == Version(obj, new.spec, new.lab, new.mine)
    <3>1. obj # NoObj => Successor(stored) /\ stored.spec = want.spec
      BY <1>0, <2>2, VersionIsSuccessor, Zenon
    <3>2. Refused(c) \/ (obj # NoObj /\ Request(stored, Failed(c), Finished(Entry(stored))))
      BY <2>5, Zenon DEF update
    <3>3. obj # NoObj => stored # NoObj
      BY <3>1, NoObjAssumption, Zenon DEF Successor
    <3> HIDE DEF stored, c
    <3> QED
      BY <3>1, <3>2, <3>3, <1>2, <1>3, Zenon
  <2> QED
    BY <1>6, <2>3, <2>4, <2>5, Zenon DEF createOrUpdateWithImmutableSpec
<1> QED
  BY <1>4, <1>5, <1>6, Zenon DEF Reconcile

\* Cleanup deletes or does nothing, and forgets the entry unless it fails.
LEMMA CleanupStores ==
    ASSUME IInv, Cleanup
    PROVE  /\ Stored /\ Cached
           /\ queued' \in BOOLEAN /\ faults' \in 0..MaxFaults
           /\ last' \in Specs \cup {NoSpec}
           /\ mode' \in {"deploy", "cleanup", "gone"}
<1> USE DEF IInv
<1>0. TypeOK /\ want.spec \in Specs
  BY Zenon DEF TypeOK
<1>1. CASE CleanedUp
  BY <1>0, <1>1, Zenon DEF CleanedUp, clearCache, Stored, Cached, TypeOK
<1>2. CASE Pending /\ UNCHANGED <<obj, faults>>
  BY <1>0, <1>2, Zenon DEF Pending, clearCache, Stored, Cached, TypeOK
<1>3. CASE obj # NoObj /\ Request(Deleted(obj), CleanupFailed, Pending)
  <2>1. Deleted(obj) = obj \/ Successor(Deleted(obj))
    BY <1>0, <1>3, DeletedIsSuccessor, Zenon
  <2>2. Stored
    BY <1>3, <2>1, Zenon DEF Request, Stored
  <2>3. CASE Pending /\ UNCHANGED faults
    BY <1>0, <2>2, <2>3, Zenon DEF Pending, clearCache, Cached, TypeOK
  <2>4. CASE faults > 0 /\ faults' = faults - 1 /\ CleanupFailed
    <3>1. faults' \in 0..MaxFaults
      BY <1>0, <2>4, BoundsAssumption DEF TypeOK
    <3>2. Cached
      BY <2>4, Zenon DEF CleanupFailed, Failed, clearCacheIfNeeded, Cached
    <3>3. queued' \in BOOLEAN /\ last' \in Specs \cup {NoSpec} /\ mode' \in {"deploy", "cleanup", "gone"}
      BY <1>0, <2>4, Zenon DEF CleanupFailed, Failed, TypeOK
    <3> QED
      BY <2>2, <3>1, <3>2, <3>3, Zenon
  <2> QED
    BY <1>3, <2>3, <2>4, Zenon DEF Request
<1> QED
  BY <1>1, <1>2, <1>3, Zenon DEF Cleanup

\* Every step keeps the invariant.
LEMMA StepIInv == IInv /\ [Next]_vars => IInv'
<1> SUFFICES ASSUME IInv, [Next]_vars PROVE IInv'
  BY Zenon
<1>0. TypeOK
  BY Zenon DEF IInv
<1>1. CASE Reconcile
  <2>1. Stored /\ Cached /\ queued' \in BOOLEAN /\ faults' \in 0..MaxFaults
    BY <1>1, ReconcileStores, Zenon
  <2>2. Publish /\ seen' = seen /\ kind' = kind
    BY <1>1, Zenon DEF Reconcile
  <2>3. TypeOK'
    <3>1. /\ obj' \in Object \cup {NoObj} /\ stream' \in Seq(Object \cup {NoObj})
          /\ clock' \in Nat /\ vc' \in cacheValue \cup {NoEntry}
      BY <1>0, <2>1, <2>2, StoredType, CachedType, Zenon
    <3> QED
      BY <1>0, <1>1, <2>1, <3>1, Zenon DEF Reconcile, TypeOK
  <2> QED
    BY <2>1, <2>2, <2>3, PublishStep, Zenon
<1>2. CASE Cleanup
  <2>1. /\ Stored /\ Cached /\ queued' \in BOOLEAN /\ faults' \in 0..MaxFaults
        /\ last' \in Specs \cup {NoSpec} /\ mode' \in {"deploy", "cleanup", "gone"}
    BY <1>2, CleanupStores, Zenon
  <2>2. Publish /\ seen' = seen /\ kind' = kind
    BY <1>2, Zenon DEF Cleanup
  <2>3. TypeOK'
    <3>1. /\ obj' \in Object \cup {NoObj} /\ stream' \in Seq(Object \cup {NoObj})
          /\ clock' \in Nat /\ vc' \in cacheValue \cup {NoEntry}
      BY <1>0, <2>1, <2>2, StoredType, CachedType, Zenon
    <3> QED
      BY <1>0, <1>2, <2>1, <3>1, Zenon DEF Cleanup, TypeOK
  <2> QED
    BY <2>1, <2>2, <2>3, PublishStep, Zenon
<1>3. CASE Deliver
  <2>1. Versions' \subseteq Versions
    BY <1>0, <1>3, DeliverVersions, Zenon DEF Deliver
  <2>2. TypeOK'
    <3>1. stream \in Seq(Object \cup {NoObj}) /\ stream # <<>>
      BY <1>0, <1>3, Zenon DEF Deliver, TypeOK
    <3>2. Head(stream) \in Object \cup {NoObj} /\ Tail(stream) \in Seq(Object \cup {NoObj})
      BY <3>1
    <3>3. queued' \in BOOLEAN
      BY <1>3, Zenon DEF Deliver
    <3> QED
      BY <1>0, <1>3, <3>2, <3>3, Zenon DEF Deliver, TypeOK
  <2> QED
    BY <1>3, <2>1, <2>2, NothingNew, Zenon DEF Deliver
<1>4. ASSUME Publish, Stored, seen' = seen, kind' = kind,
             UNCHANGED <<vc, last, want, mode, queued, faults>>, edits' \in 0..MaxEdits
      PROVE  IInv'
  <2>1. TypeOK'
    <3>1. /\ obj' \in Object \cup {NoObj} /\ stream' \in Seq(Object \cup {NoObj})
          /\ clock' \in Nat
      BY <1>0, <1>4, StoredType, Zenon
    <3> QED
      BY <1>0, <1>4, <3>1, Zenon DEF TypeOK
  <2> QED
    BY <1>4, <2>1, PublishStep, Zenon DEF Cached
<1>5. Edit => edits' \in 0..MaxEdits
  BY <1>0, BoundsAssumption DEF Edit, TypeOK
<1>6. CASE Tamper
  <2>1. PICK spec \in Specs, lab \in Labels, mine \in BOOLEAN :
           obj' = Version(obj, spec, lab, mine)
    BY <1>0, <1>6, BoundsAssumption, Zenon DEF Tamper, TypeOK, Object
  <2>2. Stored
    BY <1>0, <1>6, <2>1, VersionIsSuccessor, Zenon DEF Tamper, Stored
  <2> QED
    BY <1>4, <1>5, <1>6, <2>2, Zenon DEF Tamper
<1>7. CASE DeleteResource
  <2>1. Stored
    BY <1>0, <1>7, DeletedIsSuccessor, Zenon DEF DeleteResource, Stored
  <2> QED
    BY <1>4, <1>5, <1>7, <2>1, Zenon DEF DeleteResource
<1>8. CASE CreateForeign
  <2>1. Stored
    BY <1>0, <1>8, CreatedIsFresh, Zenon DEF CreateForeign, Stored
  <2> QED
    BY <1>4, <1>5, <1>8, <2>1, Zenon DEF CreateForeign
<1>9. CASE Vanish
  BY <1>0, <1>4, <1>9, Zenon DEF Vanish, Stored, TypeOK
<1>10. CASE EditSsp
  <2>1. TypeOK'
    BY <1>0, <1>5, <1>10, Zenon DEF EditSsp, TypeOK
  <2>2. Versions' = Versions
    BY <1>10, Zenon DEF EditSsp, Versions
  <2> QED
    BY <1>10, <2>1, <2>2, NothingNew, Zenon DEF EditSsp
<1>11. CASE Restart
  <2>1. faults' \in 0..MaxFaults
    BY <1>0, <1>11, BoundsAssumption DEF Restart, TypeOK
  <2>2. TypeOK'
    BY <1>0, <1>11, <2>1 DEF Restart, clearCache, TypeOK
  <2>3. Versions' \subseteq Versions
    BY <1>11 DEF Restart, Versions
  <2> QED
    BY <1>11, <2>2, <2>3, NothingNew, Zenon DEF Restart, clearCache
<1>12. CASE UNCHANGED vars
  <2>1. TypeOK'
    BY <1>0, <1>12, Zenon DEF vars, TypeOK
  <2>2. Versions' = Versions
    BY <1>12, Zenon DEF vars, Versions
  <2> QED
    BY <1>12, <2>1, <2>2, NothingNew, Zenon DEF vars
<1> QED
  BY <1>1, <1>2, <1>3, <1>6, <1>7, <1>8, <1>9, <1>10, <1>11, <1>12, Zenon DEF Next

\* The inductive invariant holds in every reachable state.
THEOREM Invariance == Spec => []IInv
BY InitIInv, StepIInv, PTL DEF Spec

\* The variables of ResourceReconcile keep their types.
THEOREM TypeCorrect == Spec => []TypeOK
<1>1. IInv => TypeOK
  BY Zenon DEF IInv
<1> QED
  BY <1>1, Invariance, PTL

\* VersionCache.Contains never recognises a version, on the server or in the
\* informer, whose content is not what the last reconciled SSP asks for:
\* skipping updateFunc never skips a correction.
THEOREM CachedIsAlwaysDesired == Spec => []CachedIsDesired
<1>1. IInv => CachedIsDesired
  BY Zenon DEF IInv, CachedVersions, CachedIsDesired, Versions
<1> QED
  BY <1>1, Invariance, PTL

-----------------------------------------------------------------------------
(* Reconcile never rests on a wrong resource *)

\* The last version that the informer is to see is the resource itself.
Follows == obj = IF stream = <<>> THEN seen ELSE stream[Len(stream)]

\* Nobody takes over an uncontested resource.
Uncontested == ~kind.contested => \A o \in Versions : o.mine

AsWanted(o) ==
    /\ o # NoObj /\ ~o.deleting /\ o.mine
    /\ o.spec = want.spec /\ o.lab = want.lab

Deleting(o) == o # NoObj /\ o.deleting

\* An event that the predicate lets pass is on its way.
EventComes == \E i \in 1..Len(stream) : Content(stream[i]) # Content(seen)

\* When no reconciliation waits, the informer's copy is as wanted or about to go, or
\* an event will bring a reconciliation.
Noticed == mode = "deploy" /\ ~queued /\ ~kind.contested =>
              AsWanted(seen) \/ Deleting(seen) \/ EventComes

RestInv == IInv /\ Follows /\ Uncontested /\ Noticed

\* The contents of two versions are the same when the four fields are.
LEMMA SameContent ==
    ASSUME NEW o \in Object \cup {NoObj}, NEW q \in Object \cup {NoObj}
    PROVE  Content(o) = Content(q) <=>
              \/ o = NoObj /\ q = NoObj
              \/ /\ o # NoObj /\ q # NoObj
                 /\ o.spec = q.spec /\ o.lab = q.lab /\ o.mine = q.mine /\ o.deleting = q.deleting
<1> DEFINE c(x) == [spec |-> x.spec, lab |-> x.lab, mine |-> x.mine, deleting |-> x.deleting]
<1>1. \A x \in Object : c(x) \in Contents /\ c(x) # NoObj
  BY NoObjAssumption DEF Object, Contents
<1>2. \A x \in Object \cup {NoObj} : Content(x) = IF x = NoObj THEN NoObj ELSE c(x)
  BY Zenon DEF Content
<1>3. ASSUME NEW x \in Object, NEW y \in Object
      PROVE  c(x) = c(y) <=> x.spec = y.spec /\ x.lab = y.lab /\ x.mine = y.mine /\ x.deleting = y.deleting
  <2>1. c(x) = c(y) => /\ c(x).spec = c(y).spec /\ c(x).lab = c(y).lab
                       /\ c(x).mine = c(y).mine /\ c(x).deleting = c(y).deleting
    BY Zenon
  <2> QED
    BY <2>1, Zenon
<1> HIDE DEF c
<1> QED
  BY <1>1, <1>2, <1>3

\* What a step that publishes does to the stream.
LEMMA PublishStream ==
    ASSUME TypeOK, Publish, obj' \in Object \cup {NoObj}
    PROVE  /\ Len(stream) \in Nat /\ Len(stream') \in Nat /\ Len(stream) <= Len(stream')
           /\ \A i \in 1..Len(stream) : i \in 1..Len(stream') /\ stream'[i] = stream[i]
           /\ obj' # obj => /\ Len(stream') \in 1..Len(stream') /\ stream' # <<>>
                            /\ stream'[Len(stream')] = obj'
<1>1. stream \in Seq(Object \cup {NoObj})
  BY Zenon DEF TypeOK
<1>2. CASE obj' = obj
  BY <1>1, <1>2 DEF Publish
<1>3. CASE obj' # obj
  <2>1. stream' = Append(stream, obj')
    BY <1>3, Zenon DEF Publish
  <2>2. Len(stream') = Len(stream) + 1 /\ Len(stream) \in Nat
    BY <1>1, <2>1
  <2>3. \A i \in 1..Len(stream) : stream'[i] = stream[i]
    BY <1>1, <2>1
  <2>4. stream'[Len(stream) + 1] = obj'
    BY <1>1, <2>1
  <2>5. stream' # <<>>
    BY <1>1, <2>1, <2>2
  <2> QED
    BY <2>2, <2>3, <2>4, <2>5
<1> QED
  BY <1>2, <1>3, Zenon

\* Follows is kept by a step that publishes.
LEMMA PublishFollows ==
    ASSUME TypeOK, Follows, Publish, seen' = seen, obj' \in Object \cup {NoObj}
    PROVE  Follows'
<1>1. CASE obj' = obj
  BY <1>1, Zenon DEF Publish, Follows
<1>2. CASE obj' # obj
  BY <1>2, PublishStream, Zenon DEF Follows
<1> QED
  BY <1>1, <1>2, Zenon

\* An event stays on its way.
LEMMA PublishEventComes ==
    ASSUME TypeOK, Publish, seen' = seen, obj' \in Object \cup {NoObj}, EventComes
    PROVE  EventComes'
BY PublishStream, Zenon DEF EventComes

\* mutateFn makes a version as wanted of the informer's copy, and changes nothing
\* but the spec, the labels and the owner.
LEMMA MutatedIsWanted ==
    ASSUME IInv, seen # NoObj
    PROVE  LET new == mutateFn(clearCacheIfNeeded, seen) IN
           /\ new.spec = want.spec /\ new.lab = want.lab /\ new.mine = TRUE
           /\ new # seen => seen.spec # new.spec \/ seen.lab # new.lab \/ seen.mine # TRUE
<1> DEFINE c == clearCacheIfNeeded
           new == mutateFn(c, seen)
           spec == IF kind.always \/ ~Contains(c, seen) THEN want.spec ELSE seen.spec
<1>1. seen \in Versions /\ seen \in Object
  BY Zenon DEF IInv, Versions, TypeOK
<1>2. Contains(c, seen) => seen.spec = want.spec
  BY <1>1, Zenon DEF IInv, CachedVersions, Contains, clearCacheIfNeeded
<1>3. new = [seen EXCEPT !.mine = TRUE, !.lab = want.lab, !.spec = spec]
  BY <1>1, Zenon DEF mutateFn, Object
<1>4. spec = want.spec
  BY <1>2, Zenon
<1> HIDE DEF new, spec
<1>5. new.spec = spec /\ new.lab = want.lab /\ new.mine = TRUE
  BY <1>1, <1>3, Zenon DEF Object
<1>6. seen.spec = spec /\ seen.lab = want.lab /\ seen.mine = TRUE => new = seen
  BY <1>1, <1>3, Zenon DEF Object
<1> QED
  BY <1>4, <1>5, <1>6, Zenon DEF new

\* A successful reconciliation leaves the resource noticed.
LEMMA ReconcileNotices ==
    ASSUME RestInv, Reconcile
    PROVE  Noticed'
<1> DEFINE c == clearCacheIfNeeded
<1> SUFFICES ASSUME ~queued', ~kind.contested
             PROVE  AsWanted(seen)' \/ Deleting(seen)' \/ EventComes'
  BY Zenon DEF Noticed, Reconcile
<1>0. /\ IInv /\ TypeOK /\ Follows /\ Publish /\ seen' = seen /\ want' = want
      /\ seen \in Object \cup {NoObj} /\ obj \in Object \cup {NoObj}
      /\ want.spec \in Specs /\ want.lab \in Labels
  BY Zenon DEF RestInv, IInv, TypeOK, Reconcile
<1>1. obj' \in Object \cup {NoObj}
  BY <1>0, ReconcileStores, StoredType, Zenon
<1>2. ASSUME obj' # obj, Content(obj') # Content(seen) PROVE EventComes'
  BY <1>0, <1>1, <1>2, PublishStream, Zenon DEF EventComes
<1>3. ASSUME NEW result, NEW entry, Request(result, Failed(c), Finished(entry))
      PROVE  obj' = result
  BY <1>3, Zenon DEF Request, Failed
<1>4. ~Refused(c)
  BY Zenon DEF Refused, Failed
<1>5. CASE seen = NoObj /\ create(c)
  <2> DEFINE new == Created(want.spec, want.lab, TRUE)
  <2>1. obj = NoObj /\ obj' = new
    BY <1>3, <1>4, <1>5, Zenon DEF create
  <2>2. new \in Object /\ new # NoObj
    BY <1>0, CreatedIsFresh, NoObjAssumption, Zenon DEF Fresh
  <2>3. Content(obj') # Content(seen)
    BY <1>0, <1>5, <2>1, <2>2, SameContent, Zenon
  <2> QED
    BY <1>2, <2>1, <2>2, <2>3, Zenon
<1>6. CASE seen # NoObj /\ seen.deleting
  BY <1>0, <1>6, Zenon DEF Deleting
<1>7. CASE seen # NoObj /\ ~seen.deleting /\ createOrUpdateWithImmutableSpec(c, seen)
  <2> DEFINE new == mutateFn(c, seen)
  <2>1. /\ new.spec = want.spec /\ new.lab = want.lab /\ new.mine = TRUE
        /\ new # seen => seen.spec # new.spec \/ seen.lab # new.lab \/ seen.mine # TRUE
    BY <1>0, <1>7, MutatedIsWanted, Zenon
  <2>2. CASE new = seen
    BY <1>0, <1>7, <2>1, <2>2, Zenon DEF AsWanted
  <2>3. CASE deleteImmutable(c)
    <3>1. obj # NoObj /\ obj' = Deleted(obj)
      BY <1>3, <1>4, <2>3, Zenon DEF deleteImmutable
    <3>2. obj' \in Object /\ obj'.deleting
      <4>1. Deleted(obj).deleting
        BY <1>0, <3>1, Zenon DEF Deleted, Object
      <4>2. Deleted(obj) \in Object
        BY <1>0, <3>1, DeletedIsSuccessor, Zenon DEF Successor
      <4> QED
        BY <3>1, <4>1, <4>2, Zenon
    <3>3. Content(obj') # Content(seen)
      BY <1>0, <1>7, <3>2, SameContent, Zenon
    <3>4. CASE obj' = obj
      <4>1. stream # <<>> /\ stream[Len(stream)] = obj
        BY <1>0, <1>7, <3>2, <3>4, Zenon DEF Follows
      <4>2. Len(stream) \in 1..Len(stream)
        BY <1>0, <4>1 DEF TypeOK
      <4>3. EventComes
        BY <3>3, <3>4, <4>1, <4>2, Zenon DEF EventComes
      <4> QED
        BY <1>0, <1>1, <4>3, PublishEventComes, Zenon
    <3> QED
      BY <1>2, <3>3, <3>4, Zenon
  <2>4. CASE new # seen /\ update(c, seen, new)
    <3> DEFINE stored == Version(obj, new.spec, new.lab, new.mine)
    <3>1. obj # NoObj /\ obj.rv = seen.rv /\ obj' = stored
      BY <1>3, <1>4, <2>4, Zenon DEF update
    <3>2. obj = seen
      BY <1>0, <1>7, <3>1, Zenon DEF IInv, Determined, Versions
    <3>3. obj'.spec = new.spec /\ obj'.lab = new.lab /\ obj'.mine = new.mine /\ obj' \in Object
      <4>1. obj' \in Object
        BY <1>0, <2>1, <3>1, VersionIsSuccessor, Zenon DEF Successor
      <4> HIDE DEF new
      <4> QED
        BY <1>0, <3>1, <4>1, Zenon DEF Version, Object
    <3>4. Content(obj') # Content(seen)
      BY <1>0, <1>7, <2>1, <2>4, <3>3, SameContent, NoObjAssumption, Zenon
    <3> QED
      BY <1>2, <3>2, <3>4, SMTT(20), ZenonT(40)
  <2> QED
    BY <1>7, <2>2, <2>3, <2>4, Zenon DEF createOrUpdateWithImmutableSpec
<1> QED
  BY <1>5, <1>6, <1>7, Zenon DEF Reconcile

\* The informer takes the next version: it has the content of the one before, or the
\* SSP is enqueued.
LEMMA DeliverNotices ==
    ASSUME RestInv, Deliver
    PROVE  Follows' /\ Noticed'
<1>0. /\ TypeOK /\ Follows /\ Noticed /\ Uncontested
      /\ stream \in Seq(Object \cup {NoObj}) /\ stream # <<>> /\ seen \in Object \cup {NoObj}
      /\ seen' = Head(stream) /\ stream' = Tail(stream) /\ UNCHANGED <<kind, obj, want, mode>>
  BY Zenon DEF RestInv, IInv, TypeOK, Deliver
<1>1. /\ Len(stream) \in Nat \ {0} /\ Len(stream') = Len(stream) - 1
      /\ seen' = stream[1] /\ seen' \in Object \cup {NoObj}
      /\ \A i \in 1..Len(stream') : i + 1 \in 1..Len(stream) /\ stream'[i] = stream[i + 1]
      /\ stream' = <<>> <=> Len(stream) = 1
  <2>1. Len(stream) \in Nat \ {0} /\ stream' \in Seq(Object \cup {NoObj})
    BY <1>0
  <2>2. Len(stream') = Len(stream) - 1
    BY <1>0
  <2>3. seen' = stream[1] /\ seen' \in Object \cup {NoObj}
    BY <1>0
  <2>4. \A i \in 1..Len(stream') : i + 1 \in 1..Len(stream) /\ stream'[i] = stream[i + 1]
    BY <1>0, <2>1, <2>2
  <2> QED
    BY <2>1, <2>2, <2>3, <2>4
<1>2. Follows'
  <2>1. CASE Len(stream) = 1
    BY <1>0, <1>1, <2>1, Zenon DEF Follows
  <2>2. CASE Len(stream) # 1
    <3>1. Len(stream') \in 1..Len(stream') /\ Len(stream') + 1 = Len(stream)
      BY <1>1, <2>2
    <3>2. stream'[Len(stream')] = stream[Len(stream)]
      BY <1>1, <3>1, Zenon
    <3> QED
      BY <1>0, <1>1, <2>2, <3>2, Zenon DEF Follows
  <2> QED
    BY <2>1, <2>2, Zenon
<1>3. Noticed'
  <2> SUFFICES ASSUME mode = "deploy", ~queued', ~kind.contested
               PROVE  AsWanted(seen)' \/ Deleting(seen)' \/ EventComes'
    BY <1>0, Zenon DEF Noticed
  <2>1. ~queued /\ ~(/\ Mine(seen) \/ Mine(seen')
                     /\ Content(seen) # Content(seen'))
    BY Zenon DEF Deliver, relevantChangesPredicate
  <2>2. Content(seen) = Content(seen')
    <3>1. seen # NoObj => seen.mine
      BY <1>0, Zenon DEF Uncontested, Versions
    <3>2. 1 \in 1..Len(stream)
      BY <1>1
    <3>3. seen' # NoObj => seen'.mine
      BY <1>0, <1>1, <3>2, Zenon DEF Uncontested, Versions
    <3>4. CASE seen = NoObj /\ seen' = NoObj
      BY <3>4, Zenon
    <3> QED
      BY <2>1, <3>1, <3>3, <3>4, Zenon DEF Mine
  <2>3. CASE AsWanted(seen) \/ Deleting(seen)
    BY <1>0, <1>1, <2>2, <2>3, SameContent, Zenon DEF AsWanted, Deleting
  <2>4. CASE EventComes
    <3>1. PICK i \in 1..Len(stream) : Content(stream[i]) # Content(seen)
      BY <2>4, Zenon DEF EventComes
    <3>2. i # 1
      BY <1>1, <2>2, <3>1, Zenon
    <3>3. i - 1 \in 1..Len(stream') /\ stream'[i - 1] = stream[i]
      BY <1>1, <3>2
    <3> QED
      BY <2>2, <3>1, <3>3, Zenon DEF EventComes
  <2> QED
    BY <1>0, <2>1, <2>3, <2>4, Zenon DEF Noticed
<1> QED
  BY <1>2, <1>3, Zenon

\* What the operator and others store of an uncontested resource stays the SSP's.
LEMMA StoredIsMine ==
    ASSUME RestInv, ~kind.contested, Reconcile \/ Cleanup \/ Tamper \/ DeleteResource \/ Vanish
    PROVE  obj' = NoObj \/ obj' = obj \/ obj'.mine
<1>0. TypeOK /\ obj \in Object \cup {NoObj} /\ (obj # NoObj => obj.mine)
  BY Zenon DEF RestInv, IInv, TypeOK, Uncontested, Versions
<1>1. ASSUME obj # NoObj PROVE Deleted(obj).mine
  BY <1>0, <1>1, Zenon DEF Deleted, Object
<1>2. ASSUME NEW new, NEW E, NEW S, Request(new, E, S), new.mine
      PROVE  obj' = obj \/ obj'.mine
  BY <1>2, Zenon DEF Request
<1>3. CASE Reconcile
  <2> DEFINE c == clearCacheIfNeeded
  <2>1. Refused(c) => obj' = obj
    BY SMTT(20), ZenonT(40) DEF Refused
  <2>2. CASE create(c)
    <3>1. Created(want.spec, want.lab, TRUE).mine
      BY Zenon DEF Created
    <3> QED
      BY <1>2, <2>1, <2>2, <3>1, Zenon DEF create
  <2>3. CASE deleteImmutable(c)
    BY <1>1, <1>2, <2>1, <2>3, Zenon DEF deleteImmutable
  <2>4. CASE seen # NoObj /\ update(c, seen, mutateFn(c, seen))
    <3> DEFINE new == mutateFn(c, seen)
               stored == Version(obj, new.spec, new.lab, new.mine)
    <3>1. new.mine = TRUE
      BY <2>4, MutatedIsWanted, Zenon DEF RestInv
    <3>2. obj # NoObj => stored.mine
      <4> HIDE DEF new
      <4> QED
        BY <1>0, <3>1, Zenon DEF Version, Object
    <3>3. Refused(c) \/ (obj # NoObj /\ Request(stored, Failed(c), Finished(Entry(stored))))
      BY <2>4, Zenon DEF update
    <3> HIDE DEF stored
    <3> QED
      BY <1>2, <2>1, <3>2, <3>3, Zenon
  <2>5. CASE UNCHANGED obj
    BY <2>5, Zenon
  <2> QED
    BY <1>3, <2>2, <2>3, <2>4, <2>5, Zenon DEF Reconcile, createOrUpdateWithImmutableSpec
<1>4. CASE Cleanup
  BY <1>1, <1>2, <1>4, Zenon DEF Cleanup, CleanedUp
<1>5. CASE Tamper
  <2>1. PICK spec \in Specs, lab \in Labels, mine \in {obj.mine, obj.mine /\ ~kind.contested} :
           obj' = Version(obj, spec, lab, mine)
    BY <1>5, Zenon DEF Tamper
  <2>2. obj # NoObj /\ mine
    BY <1>0, <1>5, <2>1, Zenon DEF Tamper
  <2> QED
    BY <1>0, <2>1, <2>2, Zenon DEF Version, Object
<1>6. CASE DeleteResource
  BY <1>1, <1>6, Zenon DEF DeleteResource
<1>7. CASE Vanish
  BY <1>7, Zenon DEF Vanish
<1> QED
  BY <1>3, <1>4, <1>5, <1>6, <1>7, Zenon

\* Every step keeps the invariant.
LEMMA StepRestInv == RestInv /\ [Next]_vars => RestInv'
<1> SUFFICES ASSUME RestInv, [Next]_vars PROVE RestInv'
  BY Zenon
<1>0. IInv /\ IInv' /\ TypeOK /\ Follows /\ Uncontested /\ Noticed /\ obj' \in Object \cup {NoObj}
  <2>1. IInv /\ IInv'
    BY StepIInv, Zenon DEF RestInv
  <2> QED
    BY <2>1, Zenon DEF RestInv, IInv, TypeOK
<1>1. ASSUME Reconcile \/ Cleanup \/ Tamper \/ DeleteResource \/ Vanish
      PROVE  Follows' /\ Uncontested'
  <2>1. Publish /\ seen' = seen /\ kind' = kind
    BY <1>1, Zenon DEF Reconcile, Cleanup, Tamper, DeleteResource, Vanish
  <2>2. Versions' \subseteq Versions \cup ({obj'} \ {NoObj})
    BY <1>0, <2>1, PublishVersions, Zenon
  <2>3. ~kind.contested => obj' = NoObj \/ obj' = obj \/ obj'.mine
    BY <1>1, StoredIsMine, Zenon
  <2>4. Uncontested'
    BY <1>0, <2>1, <2>2, <2>3, Zenon DEF Uncontested, Versions
  <2> QED
    BY <1>0, <2>1, <2>4, PublishFollows, Zenon
<1>2. ASSUME Publish, UNCHANGED <<kind, seen, want, mode, queued>>
      PROVE  Noticed'
  BY <1>0, <1>2, PublishEventComes, Zenon DEF Noticed, AsWanted, Deleting
<1>3. CASE Reconcile
  BY <1>0, <1>1, <1>3, ReconcileNotices, Zenon DEF RestInv
<1>4. CASE Cleanup
  <2>1. mode' # "deploy"
    BY <1>4, Zenon DEF Cleanup, CleanedUp, Pending, CleanupFailed, Request
  <2> QED
    BY <1>0, <1>1, <1>4, <2>1, Zenon DEF RestInv, Noticed
<1>5. CASE Tamper \/ DeleteResource \/ Vanish
  <2>1. Publish /\ UNCHANGED <<kind, seen, want, mode, queued>>
    BY <1>5, Zenon DEF Tamper, DeleteResource, Vanish
  <2> QED
    BY <1>0, <1>1, <1>2, <1>5, <2>1, Zenon DEF RestInv
<1>6. CASE CreateForeign
  <2>1. Publish /\ kind.contested /\ UNCHANGED <<kind, seen, want, mode, queued>>
    BY <1>6, Zenon DEF CreateForeign
  <2> QED
    BY <1>0, <2>1, PublishFollows, Zenon DEF RestInv, Uncontested, Noticed
<1>7. CASE Deliver
  <2>1. Versions' \subseteq Versions /\ kind' = kind
    BY <1>0, <1>7, DeliverVersions, Zenon DEF Deliver
  <2>2. Uncontested'
    BY <1>0, <2>1, Zenon DEF Uncontested
  <2> QED
    BY <1>0, <1>7, <2>2, DeliverNotices, Zenon DEF RestInv
<1>8. CASE EditSsp
  BY <1>0, <1>8, Zenon DEF EditSsp, RestInv, Follows, Uncontested, Versions, Noticed
<1>9. CASE Restart
  <2>1. Versions' \subseteq Versions
    BY <1>9 DEF Restart, Versions
  <2> QED
    BY <1>0, <1>9, <2>1, Zenon DEF Restart, RestInv, Follows, Uncontested, Noticed
<1>10. CASE UNCHANGED vars
  BY <1>0, <1>10, Zenon DEF vars, RestInv, Follows, Uncontested, Versions, Noticed, AsWanted, Deleting, EventComes
<1> QED
  BY <1>3, <1>4, <1>5, <1>6, <1>7, <1>8, <1>9, <1>10, Zenon DEF Next

\* Reconcile never rests on a wrong resource: when no reconciliation, no event and no
\* deletion is left, an uncontested resource is what the SSP asks for, after any
\* edits, conflicts, lost answers and restarts.
THEOREM ReconcileRestsOnRestored == Spec => []RestingIsRestored
<1>1. Init => RestInv
  <2> SUFFICES ASSUME Init PROVE RestInv
    BY Zenon
  <2>1. IInv
    BY InitIInv, Zenon
  <2> QED
    BY <2>1 DEF Init, RestInv, Follows, Uncontested, Versions, Noticed
<1>2. RestInv => RestingIsRestored
  <2> SUFFICES ASSUME RestInv, AtRest, ~kind.contested PROVE Restored
    BY Zenon DEF RestingIsRestored
  <2>1. stream = <<>> /\ obj = seen /\ ~EventComes
    BY DEF RestInv, AtRest, Follows, EventComes
  <2> QED
    BY <2>1, Zenon DEF RestInv, AtRest, Noticed, AsWanted, Deleting, Restored
<1> QED
  BY <1>1, <1>2, StepRestInv, PTL DEF Spec
=============================================================================
