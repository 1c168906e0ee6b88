--------------------------- MODULE ArchitectureProofs ---------------------------
(***************************************************************************)
(* Architecture: what the loops over the architectures of the cluster       *)
(* return, for any lists.  The induction over the passes of a loop is an     *)
(* argument about the first pass that would go wrong.                        *)
(***************************************************************************)
EXTENDS Architecture, WellFoundedInduction, TLAPS

-----------------------------------------------------------------------------
(* Sets of natural numbers *)

\* A set of natural numbers has a least one.
LEMMA LeastExists ==
    ASSUME NEW I \in SUBSET Nat, I # {}
    PROVE  \E i \in I : \A j \in I : i <= j
  <1>1. PICK i \in I : \A j \in I : ~(<<j, i>> \in OpToRel(<, Nat))
    BY WFMin, NatLessThanWellFounded
  <1>2. \A j \in I : ~(j < i)
    BY <1>1, Zenon DEF OpToRel
  <1> QED
    BY <1>2

\* A bounded one has a greatest one.
LEMMA GreatestExists ==
    ASSUME NEW n \in Nat, NEW I \in SUBSET (1..n), I # {}
    PROVE  \E i \in I : \A j \in I : j <= i
  <1> DEFINE J == {n - i : i \in I}
  <1>0. \A i \in I : n - i \in Nat
    OBVIOUS
  <1>1. J \in SUBSET Nat /\ J # {}
    BY <1>0, Zenon
  <1>2. PICK l \in J : \A j \in J : l <= j
    BY <1>1, LeastExists, Zenon
  <1>3. PICK i \in I : l = n - i
    BY <1>2
  <1>4. ASSUME NEW j \in I PROVE j <= i
    <2>1. n - i <= n - j
      BY <1>2, <1>3, Zenon
    <2>2. i \in 1..n /\ j \in 1..n
      OBVIOUS
    <2> QED
      BY <2>1, <2>2
  <1> QED
    BY <1>4

-----------------------------------------------------------------------------
(* concatWithoutRepetitions *)

\* One pass of its loop.
Pass(data, result, n) ==
    IF data[n] \in Range(result) THEN result ELSE Append(result, data[n])

Passes(data, n, result) ==
    result = [m \in 0..n |-> IF m = 0 THEN <<>> ELSE Pass(data, result[m - 1], m)]

\* The recursion is well defined.
LEMMA LoopRuns ==
    ASSUME NEW data, NEW N \in Nat
    PROVE  \E result : Passes(data, N, result)
  <1> DEFINE I == {n \in 0..N : ~ \E result : Passes(data, n, result)}
  <1>1. SUFFICES ASSUME I # {} PROVE FALSE
    <2>1. N \in 0..N
      OBVIOUS
    <2> QED
      BY <1>1, <2>1, Zenon
  <1>2. I \in SUBSET Nat
    OBVIOUS
  <1>3. PICK n \in I : \A j \in I : n <= j
    BY <1>1, <1>2, LeastExists, Zenon
  <1>4. n \in 0..N /\ ~ \E result : Passes(data, n, result)
    BY <1>3, Zenon
  <1>5. CASE n = 0
    <2>1. Passes(data, 0, [m \in 0..0 |-> <<>>])
      BY DEF Passes
    <2> QED
      BY <1>4, <1>5, <2>1, Zenon
  <1>6. CASE n # 0
    <2>1. n - 1 \in 0..N /\ ~(n <= n - 1)
      BY <1>4, <1>6
    <2>2. PICK f : Passes(data, n - 1, f)
      BY <1>3, <2>1, Zenon
    <2> DEFINE g == [m \in 0..n |-> IF m = n THEN Pass(data, f[n - 1], n) ELSE f[m]]
    <2>3. \A m \in 0..(n - 1) : f[m] = IF m = 0 THEN <<>> ELSE Pass(data, f[m - 1], m)
      BY <2>2 DEF Passes
    <2>4. \A m \in 0..n : g[m] = IF m = 0 THEN <<>> ELSE Pass(data, g[m - 1], m)
      BY <1>4, <1>6, <2>3
    <2>5. Passes(data, n, g)
      BY <2>4 DEF Passes
    <2> QED
      BY <1>4, <2>5, Zenon
  <1> QED
    BY <1>5, <1>6

\* The result r has the first n values of data, each once.
Exact(S, data, n, r) ==
    /\ r \in Seq(S)
    /\ Range(r) = {data[i] : i \in 1..n}
    /\ \A i, j \in 1..Len(r) : r[i] = r[j] => i = j

\* It has after n passes.
LEMMA LoopExact ==
    ASSUME NEW S, NEW data \in Seq(S), NEW result, Passes(data, Len(data), result),
           NEW n \in 0..Len(data)
    PROVE  Exact(S, data, n, result[n])
  <1> DEFINE I == {m \in 0..Len(data) : ~Exact(S, data, m, result[m])}
  <1>1. SUFFICES ASSUME I # {} PROVE FALSE
    BY <1>1, Zenon
  <1>2. I \in SUBSET Nat
    OBVIOUS
  <1>3. PICK m \in I : \A j \in I : m <= j
    BY <1>1, <1>2, LeastExists, Zenon
  <1>4. m \in 0..Len(data) /\ ~Exact(S, data, m, result[m])
    BY <1>3, Zenon
  <1>5. result[m] = IF m = 0 THEN <<>> ELSE Pass(data, result[m - 1], m)
    BY <1>4 DEF Passes
  <1>6. CASE m = 0
    BY <1>4, <1>5, <1>6 DEF Exact, Range
  <1>7. CASE m # 0
    <2>1. m - 1 \in 0..Len(data) /\ ~(m <= m - 1) /\ m \in 1..Len(data)
      BY <1>4, <1>7
    <2>2. Exact(S, data, m - 1, result[m - 1])
      BY <1>3, <2>1, Zenon
    <2> DEFINE r == result[m - 1]
               x == data[m]
    <2>3. x \in S /\ {data[i] : i \in 1..m} = {data[i] : i \in 1..(m - 1)} \cup {x}
      BY <2>1
    <2>4. result[m] = IF x \in Range(r) THEN r ELSE Append(r, x)
      BY <1>5, <1>7 DEF Pass
    <2>5. r \in Seq(S) /\ \A i, j \in 1..Len(r) : r[i] = r[j] => i = j
      BY <2>2 DEF Exact
    <2>6. Range(r) = {data[i] : i \in 1..(m - 1)}
      BY <2>2 DEF Exact
    <2> HIDE DEF r, x
    <2>7. CASE x \in Range(r)
      BY <1>4, <2>3, <2>4, <2>5, <2>6, <2>7 DEF Exact
    <2>8. CASE x \notin Range(r)
      <3> DEFINE q == Append(r, x)
      <3>1. q \in Seq(S) /\ Len(q) = Len(r) + 1 /\ q[Len(r) + 1] = x /\ \A i \in 1..Len(r) : q[i] = r[i]
        BY <2>3, <2>5
      <3>2. \A i \in 1..Len(r) : r[i] # x
        BY <2>5, <2>8 DEF Range
      <3>3. Range(q) = Range(r) \cup {x}
        BY <2>5, <3>1 DEF Range
      <3> HIDE DEF q
      <3>4. \A i, j \in 1..Len(q) : q[i] = q[j] => i = j
        <4>1. Len(r) \in Nat /\ \A i \in 1..Len(q) : i \in 1..Len(r) \/ i = Len(r) + 1
          BY <2>5, <3>1
        <4> QED
          BY <2>5, <3>1, <3>2, <4>1
      <3>5. result[m] = q
        BY <2>4, <2>8 DEF q
      <3>6. Range(q) = {data[i] : i \in 1..m}
        BY <2>3, <2>6, <3>3
      <3>7. Exact(S, data, m, q)
        BY <3>1, <3>4, <3>6 DEF Exact
      <3> QED
        BY <1>4, <3>5, <3>7
    <2> QED
      BY <2>7, <2>8
  <1> QED
    BY <1>6, <1>7

\* concatWithoutRepetitions returns the values of the two lists, each once.
THEOREM ConcatExact ==
    ASSUME NEW S, NEW s \in Seq(S), NEW t \in Seq(S)
    PROVE  LET named == concatWithoutRepetitions(s, t)
           IN  /\ named \in Seq(S)
               /\ Range(named) = Range(s) \cup Range(t)
               /\ \A i, j \in 1..Len(named) : named[i] = named[j] => i = j
  <1> DEFINE data == s \o t
             result[n \in 0..Len(data)] ==
                IF n = 0 THEN <<>>
                ELSE IF data[n] \in Range(result[n - 1]) THEN result[n - 1]
                ELSE Append(result[n - 1], data[n])
  <1>1. concatWithoutRepetitions(s, t) = result[Len(data)]
    BY DEF concatWithoutRepetitions
  <1>2. data \in Seq(S) /\ Len(data) \in Nat /\ Len(data) \in 0..Len(data)
    OBVIOUS
  <1>3. \E f : Passes(data, Len(data), f)
    BY <1>2, LoopRuns, Zenon
  <1>4. Passes(data, Len(data), result)
    BY <1>3, Zenon DEF Passes, Pass
  <1>5. /\ Len(s) \in Nat /\ Len(t) \in Nat /\ Len(data) = Len(s) + Len(t)
        /\ \A i \in 1..Len(s) : data[i] = s[i]
        /\ \A i \in 1..Len(t) : data[Len(s) + i] = t[i]
    OBVIOUS
  <1>6. Range(s) = {s[i] : i \in 1..Len(s)} /\ Range(t) = {t[i] : i \in 1..Len(t)}
    BY DEF Range
  <1> HIDE DEF data, result
  <1>7. {data[i] : i \in 1..Len(data)} = Range(s) \cup Range(t)
    <2>1. ASSUME NEW i \in 1..Len(data) PROVE data[i] \in Range(s) \cup Range(t)
      <3>1. CASE i \in 1..Len(s)
        BY <1>5, <1>6, <3>1
      <3>2. CASE i \notin 1..Len(s)
        <4>1. i - Len(s) \in 1..Len(t) /\ i = Len(s) + (i - Len(s))
          BY <1>5, <3>2
        <4> QED
          BY <1>5, <1>6, <4>1
      <3> QED
        BY <3>1, <3>2
    <2>2. \A i \in 1..Len(s) : i \in 1..Len(data)
      BY <1>5
    <2>3. \A i \in 1..Len(t) : Len(s) + i \in 1..Len(data)
      BY <1>5
    <2>4. \A x \in Range(s) : \E i \in 1..Len(data) : x = data[i]
      BY <1>5, <1>6, <2>2
    <2>5. \A x \in Range(t) : \E i \in 1..Len(data) : x = data[i]
      BY <1>5, <1>6, <2>3
    <2> QED
      BY <2>1, <2>4, <2>5
  <1>8. Exact(S, data, Len(data), result[Len(data)])
    BY <1>2, <1>4, LoopExact, Zenon
  <1> QED
    BY <1>1, <1>7, <1>8 DEF Exact

-----------------------------------------------------------------------------
(* getDefaultDataSourceArch and GetSSPArchs *)

\* getDefaultDataSourceArch finds an architecture of the cluster in S if there is one.
LEMMA DefaultArchFound ==
    ASSUME NEW clusterArchs \in Seq(Archs), NEW S
    PROVE  LET arch == getDefaultDataSourceArch(clusterArchs, S)
           IN  IF Range(clusterArchs) \cap S = {} THEN arch = NoArch
               ELSE arch \in Range(clusterArchs) \cap S
  <1> DEFINE Found == {i \in DOMAIN clusterArchs : clusterArchs[i] \in S}
             first == CHOOSE i \in Found : \A j \in Found : i <= j
  <1>1. getDefaultDataSourceArch(clusterArchs, S) = IF Found = {} THEN NoArch ELSE clusterArchs[first]
    BY Zenon DEF getDefaultDataSourceArch
  <1>2. \A x : x \in Range(clusterArchs) \cap S <=> \E i \in Found : x = clusterArchs[i]
    BY DEF Range
  <1>3. Found \in SUBSET Nat
    OBVIOUS
  <1>4. Found # {} => first \in Found
    BY <1>3, LeastExists, Zenon
  <1> HIDE DEF Found, first
  <1> QED
    BY <1>1, <1>2, <1>4

\* GetSSPArchs returns known architectures: one without multi-architecture
\* support, none for an error.
LEMMA GetSSPArchsType ==
    ASSUME NEW spec, NEW S, spec.cluster.cp \in Seq(S), spec.cluster.wl \in Seq(S)
    PROVE  /\ GetSSPArchs(spec) \in Seq(Archs)
           /\ ~spec.multi /\ GetSSPArchs(spec) # <<>> =>
                 Range(GetSSPArchs(spec)) = {GetSSPArchs(spec)[1]}
  <1> DEFINE named == concatWithoutRepetitions(spec.cluster.cp, spec.cluster.wl)
             used == IF spec.multi \/ named = <<>> THEN named ELSE <<named[1]>>
  <1>1. GetSSPArchs(spec) = IF spec.cluster.nil
                            THEN IF spec.multi THEN <<>> ELSE <<DefaultArch>>
                            ELSE IF Range(used) \subseteq Archs THEN used ELSE <<>>
    BY DEF GetSSPArchs
  <1>2. named \in Seq(S)
    BY ConcatExact
  <1> HIDE DEF named
  <1>3. used \in Seq(S) /\ (~spec.multi /\ used # <<>> => used = <<named[1]>>)
    BY <1>2
  <1> HIDE DEF used
  <1>4. Range(used) \subseteq Archs => used \in Seq(Archs)
    BY <1>3 DEF Range
  <1>5. \A x : Range(<<x>>) = {<<x>>[1]}
    BY DEF Range
  <1>6. <<DefaultArch>> \in Seq(Archs) /\ <<>> \in Seq(Archs)
    BY ArchsAssumption
  <1> QED
    BY <1>1, <1>3, <1>4, <1>5, <1>6

\* What validateCluster of the webhook admits, GetSSPArchs resolves: no operand
\* fails on it.
THEOREM ValidatedResolves ==
    ASSUME NEW spec, NEW S, spec.cluster.cp \in Seq(S), spec.cluster.wl \in Seq(S),
           validateCluster(spec)
    PROVE  GetSSPArchs(spec) # <<>>
  <1> DEFINE named == concatWithoutRepetitions(spec.cluster.cp, spec.cluster.wl)
             used == IF spec.multi \/ named = <<>> THEN named ELSE <<named[1]>>
  <1>1. GetSSPArchs(spec) = IF spec.cluster.nil
                            THEN IF spec.multi THEN <<>> ELSE <<DefaultArch>>
                            ELSE IF Range(used) \subseteq Archs THEN used ELSE <<>>
    BY DEF GetSSPArchs
  <1>2. CASE spec.cluster.nil
    BY <1>1, <1>2 DEF validateCluster
  <1>3. CASE ~spec.cluster.nil
    <2>1. named \in Seq(S) /\ Range(named) = Range(spec.cluster.cp) \cup Range(spec.cluster.wl)
      BY ConcatExact
    <2> HIDE DEF named
    <2>2. Range(named) \subseteq Archs
      BY <1>3, <2>1 DEF validateCluster
    <2>3. spec.cluster.wl # <<>> \/ spec.cluster.cp # <<>>
      BY <1>3 DEF validateCluster
    <2>4. \A q \in Seq(S) : q # <<>> => q[1] \in Range(q)
      BY DEF Range
    <2>5. named # <<>>
      <3>1. Range(<<>>) = {}
        BY DEF Range
      <3> QED
        BY <2>1, <2>3, <2>4, <3>1
    <2>6. named[1] \in Range(named)
      BY <2>1, <2>4, <2>5
    <2>7. Range(<<named[1]>>) = {named[1]}
      BY DEF Range
    <2>8. Range(used) \subseteq Archs /\ used # <<>>
      BY <2>2, <2>5, <2>6, <2>7
    <2> HIDE DEF used
    <2> QED
      BY <1>1, <1>3, <2>8
  <1> QED
    BY <1>2, <1>3
=============================================================================
