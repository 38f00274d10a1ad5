--------------------------- MODULE RegistryProofs ---------------------------
(***************************************************************************)
(* Theorems about Registry, for any products, names, teams, searches and   *)
(* size of the pages: its types, that the address names the tab, what      *)
(* pages of one listing and of several have of it, and when a deleted      *)
(* product has left the list.                                              *)
(***************************************************************************)
EXTENDS Registry, FiniteSetTheorems, WellFoundedInduction, SequenceTheorems, TLAPS

-----------------------------------------------------------------------------
(* Numbers and sequences                                                   *)

\* A set of numbers has a least one.
LEMMA LeastNumber ==
    ASSUME NEW T \in SUBSET Nat, T # {}
    PROVE  \E m \in T : \A n \in T : m <= n
  <1> DEFINE R == OpToRel(<, Nat)
  <1>1. IsWellFoundedOn(R, Nat)
    BY NatLessThanWellFounded
  <1>2. PICK m \in T : \A n \in T : <<n, m>> \notin R
    <2> HIDE DEF R
    <2>1. QED
      BY <1>1, WFMin
  <1>3. \A n \in T : ~(n < m)
    BY <1>2 DEF OpToRel
  <1>4. QED
    BY <1>3

\* Induction, over a set of numbers.
LEMMA Reaches ==
    ASSUME NEW G \in SUBSET Nat, 0 \in G, \A n \in Nat : n \in G => n + 1 \in G
    PROVE  Nat \subseteq G
  <1> SUFFICES ASSUME Nat \ G # {} PROVE FALSE
    OBVIOUS
  <1>1. PICK m \in Nat \ G : \A n \in Nat \ G : m <= n
    BY LeastNumber
  <1>2. m - 1 \in Nat /\ m - 1 \notin G
    BY <1>1
  <1>3. QED
    BY <1>1, <1>2

\* f is what FlattenSeq makes of the first n elements of s, one by one.
Flattens(s, n, f) ==
    \A i \in 1 .. n : f[i] = IF i = 1 THEN s[i] ELSE f[i - 1] \o s[i]

\* That recursion has one solution at most.
LEMMA OneFlattening ==
    ASSUME NEW s, NEW n \in Nat, NEW f, NEW g,
           Flattens(s, n, f), Flattens(s, n, g)
    PROVE  \A i \in 1 .. n : f[i] = g[i]
  <1> USE DEF Flattens
  <1> DEFINE G == {i \in Nat : i \in 1 .. n => f[i] = g[i]}
  <1>1. 0 \in G
    OBVIOUS
  <1>2. ASSUME NEW i \in Nat, i \in G
        PROVE  i + 1 \in G
    <2> SUFFICES ASSUME i + 1 \in 1 .. n PROVE f[i + 1] = g[i + 1]
      OBVIOUS
    <2>1. CASE i = 0
      <3>1. f[1] = s[1] /\ g[1] = s[1] /\ i + 1 = 1
        BY <2>1
      <3>2. QED
        BY <3>1
    <2>2. CASE i # 0
      <3>1. i \in 1 .. n /\ f[i] = g[i] /\ i + 1 # 1 /\ (i + 1) - 1 = i
        BY <1>2, <2>2
      <3>2. f[i + 1] = f[i] \o s[i + 1] /\ g[i + 1] = g[i] \o s[i + 1]
        BY <3>1
      <3>3. QED
        BY <3>1, <3>2
    <2>3. QED
      BY <2>1, <2>2
  <1>3. G \in SUBSET Nat /\ \A i \in Nat : i \in G => i + 1 \in G
    BY <1>2
  <1> HIDE DEF G
  <1>4. Nat \subseteq G
    BY <1>1, <1>3, Reaches, Zenon
  <1>5. QED
    BY <1>4 DEF G

\* It has one, and FlattenSeq is its end.
LEMMA Flattening ==
    ASSUME NEW S, NEW ss \in Seq(Seq(S)), ss # <<>>
    PROVE  \E f \in [1 .. Len(ss) -> Seq(S)] :
             Flattens(ss, Len(ss), f) /\ FlattenSeq(ss) = f[Len(ss)]
  <1> DEFINE n == Len(ss)
             G == {m \in Nat : m <= n => \E f \in [1 .. m -> Seq(S)] : Flattens(ss, m, f)}
  <1>1. n \in Nat \ {0} /\ \A i \in 1 .. n : ss[i] \in Seq(S)
    OBVIOUS
  <1>2. 0 \in G
    <2>1. [i \in 1 .. 0 |-> <<>>] \in [1 .. 0 -> Seq(S)]
      OBVIOUS
    <2>2. Flattens(ss, 0, [i \in 1 .. 0 |-> <<>>])
      BY DEF Flattens
    <2>3. QED
      BY <2>1, <2>2
  <1>3. ASSUME NEW m \in Nat, m \in G
        PROVE  m + 1 \in G
    <2> SUFFICES ASSUME m + 1 <= n
                 PROVE  \E f \in [1 .. m + 1 -> Seq(S)] : Flattens(ss, m + 1, f)
      OBVIOUS
    <2>0. m <= n
      BY <1>1
    <2>1. PICK f \in [1 .. m -> Seq(S)] : Flattens(ss, m, f)
      BY <1>3, <2>0, Zenon
    <2> DEFINE last == IF m = 0 THEN ss[1] ELSE f[m] \o ss[m + 1]
               g == [i \in 1 .. m + 1 |-> IF i = m + 1 THEN last ELSE f[i]]
    <2>2. last \in Seq(S)
      <3>1. CASE m = 0
        BY <1>1, <3>1
      <3>2. CASE m # 0
        <4>1. f[m] \in Seq(S) /\ ss[m + 1] \in Seq(S)
          BY <1>1, <3>2
        <4>2. QED
          BY <3>2, <4>1
      <3>3. QED
        BY <3>1, <3>2
    <2>3. last = IF m + 1 = 1 THEN ss[m + 1] ELSE f[m] \o ss[m + 1]
      OBVIOUS
    <2> HIDE DEF last
    <2>4. /\ g \in [1 .. m + 1 -> Seq(S)]
          /\ g[m + 1] = last /\ \A i \in 1 .. m : g[i] = f[i]
      BY <2>2
    <2> HIDE DEF g
    <2>5. ASSUME NEW i \in 1 .. m + 1
          PROVE  g[i] = IF i = 1 THEN ss[i] ELSE g[i - 1] \o ss[i]
      <3>1. CASE i = m + 1
        <4>1. CASE m = 0
          BY <2>3, <2>4, <3>1, <4>1
        <4>2. CASE m # 0
          <5>1. m \in 1 .. m /\ i # 1 /\ i - 1 = m
            BY <3>1, <4>2
          <5>2. QED
            BY <2>3, <2>4, <3>1, <5>1
        <4>3. QED
          BY <4>1, <4>2
      <3>2. CASE i # m + 1
        <4>1. i \in 1 .. m /\ (i # 1 => i - 1 \in 1 .. m)
          BY <3>2
        <4>2. g[i] = f[i] /\ (i # 1 => g[i - 1] = f[i - 1])
          BY <2>4, <4>1
        <4>3. f[i] = IF i = 1 THEN ss[i] ELSE f[i - 1] \o ss[i]
          BY <2>1, <4>1 DEF Flattens
        <4>4. QED
          BY <4>2, <4>3
      <3>3. QED
        BY <3>1, <3>2
    <2>6. QED
      BY <2>4, <2>5 DEF Flattens
  <1>4. G \in SUBSET Nat /\ \A m \in Nat : m \in G => m + 1 \in G
    BY <1>3, Zenon
  <1>5. n \in G
    <2> HIDE DEF G
    <2>1. Nat \subseteq G
      BY <1>2, <1>4, Reaches, Zenon
    <2>2. QED
      BY <1>1, <2>1
  <1>6. PICK f \in [1 .. n -> Seq(S)] : Flattens(ss, n, f)
    <2>1. n <= n
      BY <1>1
    <2>2. QED
      BY <1>5, <2>1, Zenon
  <1> HIDE DEF G
  <1> DEFINE step(h) == [i \in 1 .. Len(ss) |-> IF i = 1 THEN ss[i] ELSE h[i - 1] \o ss[i]]
             flatten == CHOOSE h : h = step(h)
  <1>7. f = step(f)
    BY <1>6 DEF Flattens
  <1>8. flatten = step(flatten)
    <2> HIDE DEF step
    <2>1. QED
      BY <1>7
  <1>9. FlattenSeq(ss) = flatten[n]
    BY <1>1 DEF FlattenSeq
  <1> HIDE DEF flatten
  <1>10. Flattens(ss, n, flatten)
    BY <1>8 DEF Flattens
  <1>11. \A i \in 1 .. n : flatten[i] = f[i]
    <2>1. n \in Nat
      BY <1>1
    <2>2. QED
      BY <1>6, <1>10, <2>1, OneFlattening
  <1>12. n \in 1 .. n
    BY <1>1
  <1>13. FlattenSeq(ss) = f[n]
    BY <1>9, <1>11, <1>12, Zenon
  <1>14. QED
    BY <1>6, <1>13

LEMMA FlattenEmpty == FlattenSeq(<<>>) = <<>>
  BY DEF FlattenSeq

LEMMA FlattenType ==
    ASSUME NEW S, NEW ss \in Seq(Seq(S))
    PROVE  FlattenSeq(ss) \in Seq(S)
  <1>1. CASE ss = <<>>
    <2>1. FlattenSeq(ss) = <<>>
      BY <1>1, FlattenEmpty, Zenon
    <2>2. QED
      BY <2>1
  <1>2. CASE ss # <<>>
    <2>1. PICK f \in [1 .. Len(ss) -> Seq(S)] : FlattenSeq(ss) = f[Len(ss)]
      BY <1>2, Flattening
    <2>2. Len(ss) \in 1 .. Len(ss)
      BY <1>2
    <2>3. QED
      BY <2>1, <2>2
  <1>3. QED
    BY <1>1, <1>2

LEMMA FlattenAppend ==
    ASSUME NEW S, NEW ss \in Seq(Seq(S)), NEW t \in Seq(S)
    PROVE  FlattenSeq(Append(ss, t)) = FlattenSeq(ss) \o t
  <1> DEFINE n == Len(ss)
             tt == Append(ss, t)
  <1>1. /\ n \in Nat /\ tt \in Seq(Seq(S)) /\ tt # <<>> /\ Len(tt) = n + 1
        /\ tt[n + 1] = t /\ \A i \in 1 .. n : tt[i] = ss[i]
    BY AppendProperties
  <1> HIDE DEF tt
  <1>2. PICK g \in [1 .. n + 1 -> Seq(S)] :
          Flattens(tt, n + 1, g) /\ FlattenSeq(tt) = g[n + 1]
    BY <1>1, Flattening
  <1>3. CASE ss = <<>>
    <2>1. n = 0 /\ g[1] = tt[1]
      BY <1>2, <1>3 DEF Flattens
    <2>2. FlattenSeq(tt) = t
      BY <1>1, <1>2, <2>1
    <2>3. <<>> \o t = t
      BY ConcatEmptySeq
    <2>4. QED
      BY <1>3, <2>2, <2>3, FlattenEmpty DEF tt
  <1>4. CASE ss # <<>>
    <2>1. PICK f \in [1 .. n -> Seq(S)] :
            Flattens(ss, n, f) /\ FlattenSeq(ss) = f[n]
      BY <1>4, Flattening
    <2>2. n \in 1 .. n /\ n + 1 \in 1 .. n + 1 /\ n + 1 # 1 /\ (n + 1) - 1 = n
      BY <1>4
    <2>3. Flattens(ss, n, g)
      <3>1. \A i \in 1 .. n : i \in 1 .. n + 1 /\ tt[i] = ss[i]
        BY <1>1
      <3>2. \A i \in 1 .. n : g[i] = IF i = 1 THEN tt[i] ELSE g[i - 1] \o tt[i]
        BY <1>2, <3>1 DEF Flattens
      <3>3. QED
        BY <3>1, <3>2 DEF Flattens
    <2>4. \A i \in 1 .. n : g[i] = f[i]
      <3>1. n \in Nat
        BY <1>1
      <3>2. QED
        BY <2>1, <2>3, <3>1, OneFlattening
    <2>5. g[n + 1] = g[n] \o tt[n + 1]
      BY <1>2, <2>2 DEF Flattens
    <2>6. QED
      BY <1>1, <1>2, <2>1, <2>2, <2>4, <2>5 DEF tt
  <1>5. QED
    BY <1>3, <1>4

\* What is kept of a list are items of it.
LEMMA KeptType ==
    ASSUME NEW T, NEW S, NEW s \in Seq(T)
    PROVE  Kept(s, S) \in Seq({x \in T : x.id \in S})
  <1> DEFINE U == {x \in T : x.id \in S}
             part(x) == IF x.id \in S THEN <<x>> ELSE <<>>
             parts == [i \in DOMAIN s |-> part(s[i])]
  <1>1. ASSUME NEW x \in T PROVE part(x) \in Seq(U)
    <2>1. CASE x.id \in S
      <3>1. x \in U
        BY <2>1
      <3> HIDE DEF U
      <3>2. QED
        BY <2>1, <3>1
    <2>2. CASE x.id \notin S
      BY <2>2
    <2>3. QED
      BY <2>1, <2>2
  <1> HIDE DEF part, U
  <1>2. parts \in Seq(Seq(U))
    <2>1. Len(s) \in Nat /\ DOMAIN s = 1 .. Len(s) /\ \A i \in 1 .. Len(s) : s[i] \in T
      OBVIOUS
    <2>2. parts \in [1 .. Len(s) -> Seq(U)]
      BY <1>1, <2>1
    <2>3. QED
      BY <2>1, <2>2
  <1>3. Kept(s, S) = FlattenSeq(parts)
    BY DEF Kept, part
  <1> HIDE DEF parts
  <1>4. Kept(s, S) \in Seq(U)
    BY <1>2, <1>3, FlattenType
  <1>5. QED
    BY <1>4 DEF U

\* The members of a finite set in order: all of them, and each once.
LEMMA Ordered ==
    ASSUME NEW S \in SUBSET Nat, IsFiniteSet(S)
    PROVE  /\ InOrder(S) \in Seq(S) /\ Len(InOrder(S)) = Cardinality(S)
           /\ \A i, j \in 1 .. Cardinality(S) : i < j => InOrder(S)[i] < InOrder(S)[j]
           /\ \A p \in S : \E i \in 1 .. Cardinality(S) : InOrder(S)[i] = p
  <1> DEFINE n == Cardinality(S)
             below(p) == {q \in S : q < p}
             rank == [p \in S |-> Cardinality(below(p))]
  <1>1. n \in Nat
    BY FS_CardinalityType
  <1>2. ASSUME NEW p \in S
        PROVE  /\ IsFiniteSet(below(p)) /\ Cardinality(below(p)) \in 0 .. n - 1
               /\ IsFiniteSet(below(p) \cup {p})
               /\ Cardinality(below(p) \cup {p}) = Cardinality(below(p)) + 1
    <2>1. below(p) \in SUBSET S /\ p \in S /\ p \notin below(p)
      OBVIOUS
    <2> HIDE DEF below
    <2>2. IsFiniteSet(below(p))
      BY <2>1, FS_Subset
    <2>3. /\ IsFiniteSet(below(p) \cup {p})
          /\ Cardinality(below(p) \cup {p}) = Cardinality(below(p)) + 1
      BY <2>1, <2>2, FS_AddElement
    <2>4. Cardinality(below(p)) \in Nat
      BY <2>2, FS_CardinalityType
    <2>5. below(p) \cup {p} \in SUBSET S
      BY <2>1
    <2>6. Cardinality(below(p) \cup {p}) <= n
      BY <2>5, FS_Subset
    <2>7. QED
      BY <1>1, <2>2, <2>3, <2>4, <2>6
  <1>3. ASSUME NEW p \in S, NEW q \in S, p < q
        PROVE  rank[p] < rank[q]
    <2>1. below(p) \cup {p} \in SUBSET below(q)
      <3> SUFFICES ASSUME NEW r \in S, r = p \/ r < p PROVE r < q
        OBVIOUS
      <3>1. p \in Nat /\ q \in Nat /\ r \in Nat
        OBVIOUS
      <3>2. QED
        BY <1>3, <3>1
    <2>2. rank[p] = Cardinality(below(p)) /\ rank[q] = Cardinality(below(q))
      OBVIOUS
    <2> HIDE DEF below, rank
    <2>3. Cardinality(below(p) \cup {p}) <= Cardinality(below(q))
      BY <1>2, <2>1, FS_Subset
    <2>4. /\ Cardinality(below(p)) \in Int /\ Cardinality(below(q)) \in Int
          /\ Cardinality(below(p) \cup {p}) = Cardinality(below(p)) + 1
      <3>1. /\ Cardinality(below(p)) \in 0 .. n - 1 /\ Cardinality(below(q)) \in 0 .. n - 1
            /\ Cardinality(below(p) \cup {p}) = Cardinality(below(p)) + 1
        BY <1>2, Zenon
      <3>2. QED
        BY <1>1, <3>1
    <2>5. QED
      BY <2>2, <2>3, <2>4
  <1>4. rank \in [S -> 0 .. n - 1]
    BY <1>2
  <1>5. \A p \in S : rank[p] = Cardinality({q \in S : q < p})
    OBVIOUS
  <1> HIDE DEF below, rank
  <1>6. \A p, q \in S : rank[p] = rank[q] => p = q
    <2> SUFFICES ASSUME NEW p \in S, NEW q \in S, p # q PROVE rank[p] # rank[q]
      OBVIOUS
    <2>1. rank[p] \in Int /\ rank[q] \in Int
      BY <1>4
    <2>2. p < q \/ q < p
      OBVIOUS
    <2>3. QED
      BY <1>3, <2>1, <2>2
  <1>7. \A i \in 1 .. n : \E p \in S : rank[p] = i - 1
    <2>1. rank \in Injection(S, 0 .. n - 1)
      BY <1>4, <1>6 DEF Injection, IsInjective
    <2>2. IsFiniteSet(0 .. n - 1) /\ Cardinality(0 .. n - 1) = n
      <3>1. 0 \in Int /\ n - 1 \in Int
        BY <1>1
      <3>2. /\ IsFiniteSet(0 .. n - 1)
            /\ Cardinality(0 .. n - 1) = IF 0 > n - 1 THEN 0 ELSE (n - 1) - 0 + 1
        BY <3>1, FS_Interval
      <3>3. QED
        BY <1>1, <3>2
    <2>3. rank \in Surjection(S, 0 .. n - 1)
      BY <2>1, <2>2, FS_Injection
    <2>4. QED
      BY <1>1, <2>3 DEF Surjection
  <1> DEFINE at(i) == CHOOSE p \in S : Cardinality({q \in S : q < p}) = i - 1
  <1>8. \A i \in 1 .. n : at(i) \in S /\ rank[at(i)] = i - 1
    <2> SUFFICES ASSUME NEW i \in 1 .. n PROVE at(i) \in S /\ rank[at(i)] = i - 1
      OBVIOUS
    <2>1. \E p \in S : Cardinality({q \in S : q < p}) = i - 1
      BY <1>5, <1>7
    <2>2. at(i) \in S /\ Cardinality({q \in S : q < at(i)}) = i - 1
      BY <2>1
    <2> HIDE DEF at
    <2>3. QED
      BY <1>5, <2>2
  <1>9. InOrder(S) = [i \in 1 .. n |-> at(i)]
    BY DEF InOrder
  <1> HIDE DEF at
  <1>10. InOrder(S) \in Seq(S) /\ Len(InOrder(S)) = n /\ \A i \in 1 .. n : InOrder(S)[i] = at(i)
    <2>1. InOrder(S) \in [1 .. n -> S]
      BY <1>8, <1>9
    <2>2. QED
      BY <1>1, <1>9, <2>1
  <1>11. ASSUME NEW i \in 1 .. n, NEW j \in 1 .. n, i < j
         PROVE  at(i) < at(j)
    <2>1. /\ at(i) \in S /\ at(j) \in S /\ rank[at(i)] = i - 1 /\ rank[at(j)] = j - 1
      BY <1>8
    <2>2. ~(rank[at(j)] < rank[at(i)]) /\ at(i) # at(j)
      BY <1>1, <1>11, <2>1
    <2>3. ~(at(j) < at(i))
      BY <1>3, <2>1, <2>2
    <2>4. at(i) \in Nat /\ at(j) \in Nat
      BY <2>1
    <2>5. QED
      BY <2>2, <2>3, <2>4
  <1>12. ASSUME NEW p \in S
         PROVE  \E i \in 1 .. n : at(i) = p
    <2>1. rank[p] + 1 \in 1 .. n /\ (rank[p] + 1) - 1 = rank[p]
      BY <1>1, <1>4
    <2>2. rank[at(rank[p] + 1)] = rank[p] /\ at(rank[p] + 1) \in S
      BY <1>8, <2>1
    <2>3. at(rank[p] + 1) = p
      BY <1>6, <2>2
    <2>4. QED
      BY <2>1, <2>3
  <1>13. QED
    BY <1>10, <1>11, <1>12

-----------------------------------------------------------------------------
(* Pages                                                                   *)

\* What the statements find of a catalog: its items, each once.
LEMMA ListingType ==
    ASSUME NEW c \in Contents, NEW k
    PROVE  /\ Listing(c, k) \in Seq([id : DOMAIN c, name : Names])
           /\ \A i, j \in DOMAIN Listing(c, k) :
                Listing(c, k)[i].id = Listing(c, k)[j].id => i = j
  <1> DEFINE matches == {p \in DOMAIN c : /\ k.search => c[p] \in Found
                                          /\ k.teams # {} => TeamOf[p] \in k.teams}
             S == {c[p] : p \in matches}
             ordered == InOrder(S)
             who(n) == CHOOSE p \in matches : c[p] = n
             L == [i \in DOMAIN ordered |-> [id |-> who(ordered[i]), name |-> ordered[i]]]
  <1>1. matches \subseteq DOMAIN c /\ S \in SUBSET Names
    BY DEF Contents
  <1>2. \A n \in S : who(n) \in matches /\ c[who(n)] = n
    OBVIOUS
  <1>3. Listing(c, k) = L
    BY DEF Listing
  <1> HIDE DEF matches, S, who
  <1>4. S \in SUBSET Nat /\ IsFiniteSet(S)
    <2>1. S \subseteq Names
      BY <1>1
    <2>2. S \in SUBSET Nat
      BY <2>1, RegistryAssumption
    <2>3. IsFiniteSet(Names)
      BY RegistryAssumption
    <2>4. IsFiniteSet(S)
      BY <2>1, <2>3, FS_Subset
    <2>5. QED
      BY <2>2, <2>4
  <1>5. /\ ordered \in Seq(S) /\ Len(ordered) = Cardinality(S)
        /\ \A i, j \in 1 .. Cardinality(S) : i < j => ordered[i] < ordered[j]
    BY <1>4, Ordered, Zenon
  <1> HIDE DEF ordered
  <1> DEFINE n == Len(ordered)
  <1>6. n \in Nat /\ DOMAIN ordered = 1 .. n /\ \A i \in 1 .. n : ordered[i] \in S
    BY <1>5
  <1>7. ASSUME NEW i \in 1 .. n, NEW j \in 1 .. n, i # j
        PROVE  ordered[i] # ordered[j]
    <2>1. i < j \/ j < i
      BY <1>6, <1>7
    <2>2. ordered[i] < ordered[j] \/ ordered[j] < ordered[i]
      BY <1>5, <2>1
    <2>3. ordered[i] \in Nat /\ ordered[j] \in Nat
      BY <1>4, <1>6
    <2>4. QED
      BY <2>2, <2>3
  <1>8. \A i \in 1 .. n : who(ordered[i]) \in DOMAIN c /\ ordered[i] \in Names
    BY <1>1, <1>2, <1>6
  <1>9. L \in [1 .. n -> [id : DOMAIN c, name : Names]]
    BY <1>6, <1>8
  <1>10. ASSUME NEW i \in 1 .. n, NEW j \in 1 .. n, L[i].id = L[j].id
         PROVE  i = j
    <2>1. who(ordered[i]) = who(ordered[j])
      BY <1>6, <1>10
    <2>2. c[who(ordered[i])] = ordered[i] /\ c[who(ordered[j])] = ordered[j]
      BY <1>2, <1>6
    <2>3. QED
      BY <1>7, <2>1, <2>2
  <1> HIDE DEF L
  <1>11. L \in Seq([id : DOMAIN c, name : Names]) /\ DOMAIN L = 1 .. n
    <2> DEFINE T == [id : DOMAIN c, name : Names]
    <2>1. L \in [1 .. n -> T] /\ n \in Nat
      BY <1>6, <1>9
    <2> HIDE DEF T, n
    <2>2. L \in Seq(T) /\ DOMAIN L = 1 .. n
      BY <2>1
    <2>3. QED
      BY <2>2 DEF T
  <1>12. QED
    BY <1>3, <1>10, <1>11

LEMMA PageFields ==
    ASSUME NEW page \in Page
    PROVE  /\ page.skip \in Nat /\ page.total \in Nat /\ page.cached \in BOOLEAN
           /\ page.listing \in Seq(Item)
           /\ \A i, j \in DOMAIN page.listing :
                page.listing[i].id = page.listing[j].id => i = j
  BY DEF Page

\* What a page shows: up to PageSize of its listing after the first skip.
LEMMA CutType ==
    ASSUME NEW T, NEW page \in Page, page.listing \in Seq(T)
    PROVE  /\ Cut(page) \in Seq(T)
           /\ page.skip <= Len(page.listing) =>
                /\ Len(Cut(page)) = Least(page.skip + PageSize, Len(page.listing)) - page.skip
                /\ \A i \in 1 .. Len(Cut(page)) : Cut(page)[i] = page.listing[page.skip + i]
           /\ page.skip > Len(page.listing) => Len(Cut(page)) = 0
  <1> DEFINE s == page.listing
             m == page.skip + 1
             n == Least(page.skip + PageSize, Len(page.listing))
  <1>1. /\ page.skip \in Nat /\ Len(s) \in Nat /\ PageSize \in Nat \ {0}
        /\ m \in Nat \ {0} /\ n \in Nat /\ n <= Len(s)
        /\ page.skip <= Len(s) => m <= n + 1
        /\ page.skip > Len(s) => m > n
    BY RegistryAssumption, PageFields DEF Least
  <1>2. Cut(page) = SubSeq(s, m, n)
    BY DEF Cut
  <1>3. page.skip + 1 = m
    OBVIOUS
  <1> HIDE DEF m, n
  <1>4. \A i \in m .. n : s[i] \in T
    BY <1>1
  <1>5. /\ Cut(page) \in Seq(T)
        /\ Len(Cut(page)) = IF m <= n THEN n - m + 1 ELSE 0
        /\ \A i \in 1 .. n - m + 1 : Cut(page)[i] = s[m + i - 1]
    BY <1>1, <1>2, <1>4, SubSeqProperties
  <1>6. ASSUME page.skip <= Len(s)
        PROVE  /\ Len(Cut(page)) = n - page.skip
               /\ \A i \in 1 .. Len(Cut(page)) : Cut(page)[i] = s[page.skip + i]
    <2>1. Len(Cut(page)) = n - page.skip /\ n - m + 1 = n - page.skip
      BY <1>1, <1>3, <1>5, <1>6
    <2>2. \A i \in 1 .. n - page.skip : m + i - 1 = page.skip + i
      <3>1. m = page.skip + 1 /\ page.skip \in Nat /\ n \in Nat
        BY <1>1, <1>3
      <3> HIDE DEF m, n
      <3>2. QED
        BY <3>1
    <2>3. QED
      BY <1>5, <2>1, <2>2
  <1>7. page.skip > Len(s) => Len(Cut(page)) = 0
    BY <1>1, <1>5
  <1>8. QED
    BY <1>5, <1>6, <1>7 DEF n

\* The rows of one more page come after the rows of the pages before it.
LEMMA RowsAppend ==
    ASSUME NEW pages \in Seq(Page), NEW page \in Page
    PROVE  Rows(pages \o <<page>>) = Rows(pages) \o Cut(page)
  <1> DEFINE n == Len(pages)
             cuts == [i \in DOMAIN pages |-> Cut(pages[i])]
             more == [i \in DOMAIN (pages \o <<page>>) |-> Cut((pages \o <<page>>)[i])]
  <1>1. /\ n \in Nat /\ DOMAIN pages = 1 .. n /\ \A i \in 1 .. n : pages[i] \in Page
        /\ pages \o <<page>> \in Seq(Page) /\ DOMAIN (pages \o <<page>>) = 1 .. n + 1
        /\ (pages \o <<page>>)[n + 1] = page
        /\ \A i \in 1 .. n : (pages \o <<page>>)[i] = pages[i]
    OBVIOUS
  <1>2. \A p \in Page : Cut(p) \in Seq(Item)
    BY CutType, PageFields
  <1>3. cuts \in Seq(Seq(Item)) /\ Len(cuts) = n
    <2>1. cuts \in [1 .. n -> Seq(Item)]
      BY <1>1, <1>2
    <2>2. QED
      BY <1>1, <2>1
  <1>4. more = Append(cuts, Cut(page))
    <2>1. more = [i \in 1 .. n + 1 |-> IF i = n + 1 THEN Cut(page) ELSE Cut(pages[i])]
      BY <1>1
    <2>2. Append(cuts, Cut(page)) = [i \in 1 .. n + 1 |-> IF i = n + 1 THEN Cut(page) ELSE cuts[i]]
      BY <1>1, <1>3
    <2>3. QED
      BY <1>1, <2>1, <2>2
  <1>5. Rows(pages) = FlattenSeq(cuts) /\ Rows(pages \o <<page>>) = FlattenSeq(more)
    BY DEF Rows
  <1> HIDE DEF cuts, more
  <1>6. FlattenSeq(Append(cuts, Cut(page))) = FlattenSeq(cuts) \o Cut(page)
    BY <1>2, <1>3, FlattenAppend
  <1>7. QED
    BY <1>4, <1>5, <1>6

LEMMA RowsType ==
    ASSUME NEW T, NEW pages \in Seq(Page),
           \A i \in DOMAIN pages : pages[i].listing \in Seq(T)
    PROVE  Rows(pages) \in Seq(T)
  <1> DEFINE cuts == [i \in DOMAIN pages |-> Cut(pages[i])]
  <1>1. Len(pages) \in Nat /\ DOMAIN pages = 1 .. Len(pages)
    OBVIOUS
  <1>2. ASSUME NEW i \in 1 .. Len(pages) PROVE Cut(pages[i]) \in Seq(T)
    <2>1. PICK page \in Page : page = pages[i]
      BY <1>1
    <2>2. page.listing \in Seq(T)
      BY <1>1, <2>1
    <2>3. QED
      BY <2>1, <2>2, CutType
  <1>3. cuts \in [1 .. Len(pages) -> Seq(T)]
    BY <1>1, <1>2
  <1>4. cuts \in Seq(Seq(T))
    BY <1>1, <1>3
  <1>5. Rows(pages) = FlattenSeq(cuts)
    BY DEF Rows
  <1> HIDE DEF cuts
  <1>6. QED
    BY <1>4, <1>5, FlattenType

LEMMA RowsEmpty == Rows(<<>>) = <<>>
  <1>1. [i \in DOMAIN <<>> |-> Cut(<<>>[i])] = <<>>
    OBVIOUS
  <1>2. QED
    BY <1>1, FlattenEmpty DEF Rows

LEMMA PagesRows ==
    ASSUME NEW pages \in Seq(Page)
    PROVE  Rows(pages) \in Seq(Item) /\ loaded(pages) \in Nat
  <1>1. \A i \in DOMAIN pages : pages[i].listing \in Seq(Item)
    <2>1. \A i \in DOMAIN pages : pages[i] \in Page
      OBVIOUS
    <2>2. QED
      BY <2>1, PageFields
  <1>2. Rows(pages) \in Seq(Item)
    BY <1>1, RowsType
  <1>3. QED
    BY <1>2 DEF loaded

\* Pages of one listing, and one more read at their end while there was more:
\* together they begin the listing, too.
LEMMA BeginsAppend ==
    ASSUME NEW pages \in Seq(Page), NEW page \in Page,
           BeginsListing(pages), pages # <<>> => hasNextPage(pages),
           page.skip = loaded(pages)
    PROVE  BeginsListing(pages \o <<page>>)
  <1> DEFINE n == Len(pages)
             all == pages \o <<page>>
             L == page.listing
             end == Least(page.skip + PageSize, Len(L))
  <1>1. /\ n \in Nat /\ all \in Seq(Page) /\ all # <<>> /\ Len(all) = n + 1
        /\ DOMAIN all = 1 .. n + 1 /\ DOMAIN pages = 1 .. n
        /\ all[n + 1] = page /\ Last(all) = page
        /\ \A i \in 1 .. n : all[i] = pages[i] /\ pages[i] \in Page
    BY DEF Last
  <1>2. /\ L \in Seq(Item) /\ Len(L) \in Nat /\ Rows(pages) \in Seq(Item)
        /\ page.skip \in Nat /\ page.skip = Len(Rows(pages)) /\ PageSize \in Nat \ {0}
    <2>1. \A i \in DOMAIN pages : pages[i].listing \in Seq(Item)
      BY <1>1, PageFields
    <2>2. Rows(pages) \in Seq(Item)
      BY <2>1, RowsType
    <2>3. QED
      BY <2>2, PageFields, RegistryAssumption DEF loaded
  <1>3. Rows(all) = Rows(pages) \o Cut(page)
    BY RowsAppend
  <1> SUFFICES ASSUME OneListing(all)
               PROVE  /\ IsPrefix(Rows(all), all[1].listing)
                      /\ Cut(Last(all)) # <<>> \/ n = 0
                      /\ ~hasNextPage(all) => Rows(all) = all[1].listing
    BY <1>1 DEF BeginsListing
  <1>4. /\ all[1].listing = L /\ page.total = Len(L)
        /\ \A i \in 1 .. n : pages[i].listing = L /\ pages[i].total = Len(L)
    BY <1>1 DEF OneListing
  \* What there was before is the beginning of the listing, and not all of it.
  <1>5. /\ page.skip <= Len(L) /\ (n # 0 => page.skip < Len(L))
        /\ \A i \in 1 .. page.skip : Rows(pages)[i] = L[i]
    <2>1. CASE n = 0
      <3>1. pages = <<>>
        BY <1>1, <2>1
      <3>2. page.skip = 0
        BY <1>2, <3>1, RowsEmpty
      <3>3. QED
        BY <1>2, <2>1, <3>2
    <2>2. CASE n # 0
      <3>1. pages # <<>> /\ pages[1].listing = L /\ Last(pages).total = Len(L)
        BY <1>1, <1>4, <2>2 DEF Last
      <3>2. OneListing(pages)
        BY <1>1, <1>4, <2>2 DEF OneListing
      <3>3. IsPrefix(Rows(pages), L) /\ page.skip < Len(L)
        BY <1>2, <3>1, <3>2 DEF BeginsListing, hasNextPage, loaded
      <3>4. SubSeq(Rows(pages), 1, page.skip) = SubSeq(L, 1, page.skip)
        BY <1>2, <3>3 DEF IsPrefix
      <3>5. ASSUME NEW i \in 1 .. page.skip
            PROVE  Rows(pages)[i] = L[i]
        <4>1. /\ SubSeq(Rows(pages), 1, page.skip)[i] = Rows(pages)[i]
              /\ SubSeq(L, 1, page.skip)[i] = L[i]
          BY <1>2, <3>3
        <4>2. QED
          BY <3>4, <4>1
      <3>6. QED
        BY <1>2, <3>3, <3>5
    <2>3. QED
      BY <2>1, <2>2
  <1>6. /\ end \in Nat /\ end <= Len(L) /\ page.skip <= end
        /\ page.skip < Len(L) => page.skip < end
        /\ end < Len(L) => end = page.skip + PageSize
    BY <1>2, <1>5 DEF Least
  <1>7. /\ Cut(page) \in Seq(Item) /\ Len(Cut(page)) = end - page.skip
        /\ \A i \in 1 .. end - page.skip : Cut(page)[i] = L[page.skip + i]
    <2>1. /\ Cut(page) \in Seq(Item) /\ Len(Cut(page)) = end - page.skip
          /\ \A i \in 1 .. Len(Cut(page)) : Cut(page)[i] = L[page.skip + i]
      BY <1>2, <1>5, CutType
    <2> HIDE DEF end
    <2>2. QED
      BY <2>1
  <1> HIDE DEF end
  <1>8. /\ Rows(all) \in Seq(Item) /\ Len(Rows(all)) = end
        /\ \A i \in 1 .. end : Rows(all)[i] = L[i]
    <2>1. /\ Rows(all) \in Seq(Item)
          /\ Len(Rows(all)) = Len(Rows(pages)) + Len(Cut(page))
          /\ \A i \in 1 .. Len(Rows(pages)) + Len(Cut(page)) : Rows(all)[i] =
                IF i <= Len(Rows(pages)) THEN Rows(pages)[i] ELSE Cut(page)[i - Len(Rows(pages))]
      <3> DEFINE both == Rows(pages) \o Cut(page)
      <3>1. /\ both \in Seq(Item)
            /\ Len(both) = Len(Rows(pages)) + Len(Cut(page))
            /\ \A i \in 1 .. Len(Rows(pages)) + Len(Cut(page)) : both[i] =
                  IF i <= Len(Rows(pages)) THEN Rows(pages)[i] ELSE Cut(page)[i - Len(Rows(pages))]
        BY <1>2, <1>7, ConcatProperties, Zenon
      <3>2. Rows(all) = both
        BY <1>3
      <3> HIDE DEF both
      <3>3. QED
        BY <3>1, <3>2, Zenon
    <2>2. Len(Rows(pages)) + Len(Cut(page)) = end
      BY <1>2, <1>6, <1>7
    <2>3. ASSUME NEW i \in 1 .. end PROVE Rows(all)[i] = L[i]
      <3>1. CASE i <= page.skip
        <4>1. i \in 1 .. page.skip
          BY <1>2, <3>1
        <4>2. QED
          BY <1>2, <1>5, <2>1, <2>2, <3>1, <4>1
      <3>2. CASE ~(i <= page.skip)
        <4>1. i - page.skip \in 1 .. end - page.skip /\ page.skip + (i - page.skip) = i
          BY <1>2, <1>6, <3>2
        <4>2. Cut(page)[i - page.skip] = L[i]
          BY <1>7, <4>1
        <4>3. QED
          BY <1>2, <2>1, <2>2, <3>2, <4>2
      <3>3. QED
        BY <3>1, <3>2
    <2>4. QED
      BY <2>1, <2>2, <2>3
  <1> HIDE DEF all, L
  <1>9. IsPrefix(Rows(all), L)
    <2>1. SubSeq(Rows(all), 1, end) = SubSeq(L, 1, end)
      BY <1>2, <1>6, <1>8
    <2>2. QED
      BY <1>6, <1>8, <2>1 DEF IsPrefix
  <1>10. n # 0 => Cut(page) # <<>>
    BY <1>2, <1>5, <1>6, <1>7
  <1>11. ASSUME ~hasNextPage(all)
         PROVE  Rows(all) = L
    <2>1. ~(end < Len(L))
      BY <1>1, <1>4, <1>8, <1>11 DEF hasNextPage, loaded, L
    <2>2. end = Len(L)
      BY <1>2, <1>6, <2>1
    <2>3. QED
      BY <1>2, <1>8, <2>2
  <1>12. QED
    BY <1>1, <1>4, <1>9, <1>10, <1>11

\* A product of a listing has one place in it.
LEMMA PlaceOf ==
    ASSUME NEW page \in Page, NEW p \in ids(page.listing)
    PROVE  /\ Place(page, p) \in 1 .. Len(page.listing)
           /\ \A i \in 1 .. Len(page.listing) :
                page.listing[i].id = p <=> i = Place(page, p)
  <1>1. page.listing \in Seq(Item) /\ DOMAIN page.listing = 1 .. Len(page.listing)
    BY PageFields
  <1>2. \E i \in DOMAIN page.listing : page.listing[i].id = p
    BY DEF ids
  <1>3. Place(page, p) \in DOMAIN page.listing /\ page.listing[Place(page, p)].id = p
    BY <1>2 DEF Place
  <1>4. QED
    BY <1>1, <1>3, PageFields

\* Tracks, of one product.
TracksOne(pages, p) ==
  /\ \/ MovesUp(pages, p) \/ p \in ids(Rows(pages))
     \/ Place(Last(pages), p) > loaded(pages)
  /\ \/ MovesDown(pages, p)
     \/ /\ Once(pages, p)
        /\ p \in ids(Rows(pages)) => Place(Last(pages), p) <= loaded(pages)

\* One more page, read at the end of the ones before it.
LEMMA TracksAppend ==
    ASSUME NEW pages \in Seq(Page), NEW page \in Page,
           Tracks(pages), page.skip = loaded(pages)
    PROVE  Tracks(pages \o <<page>>)
  <1> DEFINE n == Len(pages)
             all == pages \o <<page>>
             R == Rows(pages)
             C == Cut(page)
             skip == page.skip
             L == page.listing
  <1>1. /\ n \in Nat /\ all \in Seq(Page) /\ all # <<>> /\ Len(all) = n + 1
        /\ DOMAIN all = 1 .. n + 1 /\ DOMAIN pages = 1 .. n
        /\ all[n + 1] = page /\ Last(all) = page
        /\ \A i \in 1 .. n : all[i] = pages[i] /\ pages[i] \in Page
        /\ (pages # <<>> <=> n # 0) /\ (n # 0 => Last(pages) = pages[n])
    BY DEF Last
  <1>2. R \in Seq(Item) /\ skip = Len(R) /\ skip \in Nat
    BY PagesRows, PageFields DEF loaded
  <1>3. L \in Seq(Item) /\ Len(L) \in Nat
    BY PageFields
  <1>4. /\ C \in Seq(Item) /\ Len(C) \in Nat
        /\ \A i \in 1 .. Len(C) : skip + i \in 1 .. Len(L) /\ C[i] = L[skip + i]
    <2>1. C \in Seq(Item)
      BY <1>3, CutType
    <2>2. CASE skip <= Len(L)
      <3> DEFINE end == Least(page.skip + PageSize, Len(page.listing))
      <3>1. Len(C) = end - skip /\ \A i \in 1 .. Len(C) : C[i] = L[skip + i]
        BY <1>3, <2>2, CutType
      <3>2. end \in Nat /\ end <= Len(L)
        BY <1>2, <1>3, RegistryAssumption DEF Least
      <3> HIDE DEF end
      <3>3. \A i \in 1 .. Len(C) : skip + i \in 1 .. Len(L)
        BY <1>2, <1>3, <3>1, <3>2
      <3>4. QED
        BY <2>1, <3>1, <3>3
    <2>3. CASE ~(skip <= Len(L))
      <3>1. Len(C) = 0
        BY <1>2, <1>3, <2>3, CutType
      <3>2. QED
        BY <2>1, <3>1
    <2>4. QED
      BY <2>2, <2>3
  <1>5. /\ Rows(all) \in Seq(Item) /\ Len(Rows(all)) = skip + Len(C)
        /\ \A i \in 1 .. skip + Len(C) :
             Rows(all)[i] = IF i <= skip THEN R[i] ELSE C[i - skip]
    <2>1. Rows(all) = R \o C
      BY RowsAppend
    <2> HIDE DEF R, C, all
    <2>2. QED
      BY <1>2, <1>4, <2>1, ConcatProperties
  <1>6. loaded(all) = skip + Len(C)
    BY <1>5 DEF loaded
  <1> SUFFICES ASSUME NEW p \in Products, Stays(all, p) PROVE TracksOne(all, p)
    BY DEF Tracks, TracksOne
  <1> DEFINE b == Place(page, p)
             a == Place(Last(pages), p)
  <1>7. p \in ids(L) /\ (\A i \in 1 .. n : p \in ids(pages[i].listing))
    BY <1>1 DEF Stays
  <1>8. b \in 1 .. Len(L) /\ \A i \in 1 .. Len(L) : L[i].id = p <=> i = b
    BY <1>7, PlaceOf
  <1>9. n # 0 => a \in Nat
    <2> SUFFICES ASSUME n # 0 PROVE a \in Nat
      OBVIOUS
    <2>1. Last(pages) \in Page /\ p \in ids(Last(pages).listing)
      BY <1>1, <1>7
    <2>2. a \in 1 .. Len(Last(pages).listing) /\ Last(pages).listing \in Seq(Item)
      BY <2>1, PlaceOf, PageFields
    <2>3. QED
      BY <2>2
  <1>10. n # 0 => TracksOne(pages, p)
    <2>1. Stays(pages, p)
      BY <1>1, <1>7 DEF Stays
    <2>2. QED
      BY <1>1, <2>1 DEF Tracks, TracksOne
  <1>11. n = 0 => skip = 0
    BY <1>1, <1>2, RowsEmpty
  <1>12. /\ MovesUp(pages, p) => MovesUp(all, p)
         /\ n # 0 /\ b < a => MovesUp(all, p)
         /\ MovesDown(pages, p) => MovesDown(all, p)
         /\ n # 0 /\ b > a => MovesDown(all, p)
    <2>1. /\ \A i \in 2 .. n : i \in 2 .. n + 1 /\ all[i] = pages[i] /\ all[i - 1] = pages[i - 1]
          /\ n # 0 => /\ n + 1 \in 2 .. n + 1 /\ all[n + 1] = page
                      /\ all[(n + 1) - 1] = Last(pages)
      BY <1>1
    <2> HIDE DEF all
    <2>2. QED
      BY <1>1, <2>1 DEF MovesUp, MovesDown
  <1>13. p \in ids(R) => p \in ids(Rows(all))
    <2>1. \A i \in DOMAIN R : i \in DOMAIN Rows(all) /\ Rows(all)[i] = R[i]
      BY <1>2, <1>4, <1>5
    <2> HIDE DEF R, all
    <2>2. QED
      BY <2>1 DEF ids
  <1> HIDE DEF all, R, C, a, b, L
  \* A place after those loaded is on the new page, or after it.
  <1>14. MovesUp(all, p) \/ p \in ids(Rows(all)) \/ b > loaded(all)
    <2>1. CASE b <= skip
      <3>1. n # 0
        BY <1>3, <1>8, <1>11, <2>1
      <3>2. MovesUp(pages, p) \/ p \in ids(R) \/ a > skip
        BY <1>10, <3>1 DEF TracksOne, R, a
      <3>3. a > skip => b < a
        BY <1>2, <1>3, <1>8, <1>9, <2>1, <3>1
      <3>4. QED
        BY <1>12, <1>13, <3>1, <3>2, <3>3
    <2>2. CASE skip < b /\ b <= skip + Len(C)
      <3>1. /\ b \in DOMAIN Rows(all) /\ Rows(all)[b] = C[b - skip]
            /\ b - skip \in 1 .. Len(C) /\ skip + (b - skip) = b
        <4>1. b \in Nat \ {0} /\ skip \in Nat /\ Len(C) \in Nat
          BY <1>2, <1>3, <1>4, <1>8
        <4>2. b \in 1 .. skip + Len(C) /\ ~(b <= skip)
          BY <2>2, <4>1
        <4>3. DOMAIN Rows(all) = 1 .. skip + Len(C) /\ Rows(all)[b] = C[b - skip]
          BY <1>5, <4>2
        <4>4. b - skip \in 1 .. Len(C) /\ skip + (b - skip) = b
          BY <2>2, <4>1
        <4>5. QED
          BY <4>2, <4>3, <4>4
      <3>2. Rows(all)[b].id = p
        BY <1>4, <1>8, <3>1
      <3>3. QED
        BY <3>1, <3>2 DEF ids
    <2>3. QED
      BY <1>2, <1>3, <1>4, <1>6, <1>8, <2>1, <2>2
  <1>15. ASSUME ~MovesDown(all, p)
         PROVE  /\ Once(all, p)
                /\ p \in ids(Rows(all)) => b <= loaded(all)
    <2>1. \A i \in 1 .. Len(C) : C[i].id = p => skip + i = b
      BY <1>4, <1>8
    <2>2. ASSUME NEW i \in 1 .. skip, R[i].id = p
          PROVE  b <= skip
      <3>1. n # 0 /\ p \in ids(R)
        BY <1>2, <1>11, <2>2 DEF ids
      <3>2. a <= skip
        BY <1>10, <1>12, <1>15, <3>1 DEF TracksOne, R, a
      <3>3. ~(b > a)
        BY <1>12, <1>15, <3>1
      <3>4. QED
        BY <1>2, <1>3, <1>8, <1>9, <3>1, <3>2, <3>3
    <2>3. ASSUME NEW i \in 1 .. skip, NEW j \in 1 .. skip, R[i].id = p, R[j].id = p
          PROVE  i = j
      <3>1. n # 0
        BY <1>11
      <3>2. Once(pages, p)
        BY <1>10, <1>12, <1>15, <3>1 DEF TracksOne
      <3>3. DOMAIN R = 1 .. skip
        BY <1>2
      <3>4. QED
        BY <2>3, <3>2, <3>3 DEF Once, R
    <2>4. ASSUME NEW i \in DOMAIN Rows(all), Rows(all)[i].id = p
          PROVE  \/ i \in 1 .. skip /\ R[i].id = p /\ b <= skip
                 \/ i = b /\ b > skip
      <3>1. i \in 1 .. skip + Len(C)
        BY <1>5
      <3>2. CASE i <= skip
        <4>1. i \in 1 .. skip /\ Rows(all)[i] = R[i]
          BY <1>2, <1>5, <3>1, <3>2
        <4>2. QED
          BY <2>2, <2>4, <4>1
      <3>3. CASE ~(i <= skip)
        <4>1. i - skip \in 1 .. Len(C) /\ Rows(all)[i] = C[i - skip] /\ skip + (i - skip) = i
          BY <1>2, <1>4, <1>5, <3>1, <3>3
        <4>2. i = b
          BY <2>1, <2>4, <4>1
        <4>3. QED
          BY <1>2, <3>1, <3>3, <4>2
      <3>4. QED
        BY <3>2, <3>3
    <2>5. Once(all, p)
      <3> SUFFICES ASSUME NEW i \in DOMAIN Rows(all), NEW j \in DOMAIN Rows(all),
                          Rows(all)[i].id = p, Rows(all)[j].id = p
                   PROVE  i = j
        BY DEF Once
      <3>1. b \in Int /\ skip \in Int
        BY <1>2, <1>3, <1>8
      <3>2. QED
        BY <2>3, <2>4, <3>1
    <2>6. ASSUME p \in ids(Rows(all)) PROVE b <= loaded(all)
      <3>1. PICK i \in DOMAIN Rows(all) : Rows(all)[i].id = p
        BY <2>6 DEF ids
      <3>2. i \in 1 .. skip + Len(C)
        BY <1>5
      <3>3. QED
        BY <1>2, <1>3, <1>4, <1>6, <1>8, <2>4, <3>1, <3>2
    <2>7. QED
      BY <2>5, <2>6
  <1>16. b = Place(Last(all), p)
    BY <1>1 DEF all, b
  <1>17. QED
    BY <1>14, <1>15, <1>16 DEF TracksOne

\* What is tracked to the end of a complete list is listed.
LEMMA TrackedIsListed ==
    ASSUME NEW pages \in Seq(Page), Tracks(pages)
    PROVE  StayingListed(pages)
  <1> SUFFICES ASSUME NEW p \in Products, pages # <<>>, Stays(pages, p), Complete(pages)
               PROVE  MovesUp(pages, p) \/ p \in ids(Rows(pages))
    BY DEF Tracks, StayingListed
  <1> DEFINE last == Last(pages)
  <1>1. last \in Page /\ p \in ids(last.listing)
    BY DEF Last, Stays
  <1>2. /\ Place(last, p) \in 1 .. Len(last.listing) /\ last.total \in Nat
        /\ Len(last.listing) \in Nat /\ loaded(pages) \in Nat
    BY <1>1, PlaceOf, PageFields, PagesRows
  <1>3. loaded(pages) >= last.total /\ last.total >= Len(last.listing)
    BY <1>2 DEF Complete, hasNextPage
  <1>4. ~(Place(last, p) > loaded(pages))
    BY <1>2, <1>3
  <1>5. QED
    BY <1>4 DEF Tracks

-----------------------------------------------------------------------------
(* The lists                                                               *)

\* What the invariant says of a list, with the deletions as they are.
ListInv(l) == ListOK(l) /\ ReadInOrder(l) /\ DeletionsMarked(l)

LEMMA NothingBegins == BeginsListing(<<>>) /\ Tracks(<<>>) /\ Clean(<<>>)
  BY DEF BeginsListing, Tracks, Clean

LEMMA EmptyList == ListInv(NoList) /\ NoList \in List
  <1>1. NoList \in List
    BY DEF NoList, List
  <1>2. /\ NoList.pages = <<>> /\ NoList.got = <<>> /\ NoList.coming = <<>>
        /\ NoList.fetch = "none" /\ NoList.counted = <<>>
    BY DEF NoList
  <1>3. ListOK(NoList)
    BY <1>1, <1>2 DEF ListOK
  <1>4. QED
    BY <1>1, <1>2, <1>3, NothingBegins DEF ListInv, ReadInOrder, DeletionsMarked

LEMMA ReloadFields ==
    ASSUME NEW l \in List
    PROVE  /\ Reload(l) \in List /\ Reload(l).fetch = "reload"
           /\ Reload(l).pages = l.pages /\ Reload(l).got = <<>> /\ Reload(l).coming = <<>>
           /\ Reload(l).counted = <<>>
           /\ Reload(l).invalid = l.invalid /\ Reload(l).excused = l.excused
  <1>1. /\ Reload(l).fetch = "reload" /\ Reload(l).pages = l.pages
        /\ Reload(l).got = <<>> /\ Reload(l).coming = <<>>
           /\ Reload(l).counted = <<>>
    BY DEF Reload, List
  <1>2. Reload(l) \in List
    <2> DEFINE SeqPage == Seq(Page)
               SeqNat == Seq(Nat)
    <2>1. <<>> \in SeqPage /\ <<>> \in SeqNat
      OBVIOUS
    <2> HIDE DEF SeqPage, SeqNat
    <2>2. List = [pages : SeqPage, error : BOOLEAN, invalid : BOOLEAN,
                  fetch : {"none", "reload", "more"}, got : SeqPage,
                  counted : SeqNat, coming : SeqPage,
                  late : BOOLEAN, excused : BOOLEAN]
      BY DEF List, SeqPage, SeqNat
    <2>3. QED
      BY <2>1, <2>2 DEF Reload
  <1>3. Reload(l).invalid = l.invalid
    BY DEF Reload, List
  <1>4. Reload(l).excused = l.excused
    BY DEF Reload, List
  <1>5. QED
    BY <1>1, <1>2, <1>3, <1>4, Zenon

\* A list that is fetched again from its beginning.
LEMMA Reloaded ==
    ASSUME NEW l, ListInv(l)
    PROVE  ListInv(Reload(l)) /\ Reload(l) \in List /\ Reload(l).fetch = "reload"
  <1>1. l \in List
    BY DEF ListInv, ListOK
  <1>2. /\ Reload(l) \in List /\ Reload(l).fetch = "reload"
        /\ Reload(l).pages = l.pages /\ Reload(l).got = <<>> /\ Reload(l).coming = <<>>
           /\ Reload(l).counted = <<>>
        /\ Reload(l).invalid = l.invalid /\ Reload(l).excused = l.excused
    BY <1>1, ReloadFields
  <1>3. ListOK(Reload(l))
    BY <1>2 DEF ListOK
  <1>4. ReadInOrder(Reload(l))
    BY <1>2, NothingBegins DEF ListInv, ReadInOrder
  <1>5. DeletionsMarked(Reload(l))
    BY <1>2, NothingBegins, Zenon DEF ListInv, DeletionsMarked
  <1>6. QED
    BY <1>2, <1>3, <1>4, <1>5 DEF ListInv

\* A query that comes on display: its list is fetched again if it is marked.
LEMMA ObservedKeeps ==
    ASSUME NEW k \in Keys, lists \in [Keys -> List], \A j \in Keys : ListInv(lists[j]),
           NEW ls \in Observed(k)
    PROVE  /\ ls \in [Keys -> List] /\ \A j \in Keys : ListInv(ls[j])
           /\ ls[k].invalid => ls[k].fetch # "none"
  <1>1. CASE ls = lists /\ (lists[k].fetch # "none" \/ ~lists[k].invalid)
    BY <1>1
  <1>2. CASE ls = [lists EXCEPT ![k] = Reload(lists[k])]
    <2>1. /\ ListInv(Reload(lists[k])) /\ Reload(lists[k]) \in List
          /\ Reload(lists[k]).fetch = "reload"
      BY Reloaded
    <2>2. /\ ls \in [Keys -> List] /\ ls[k] = Reload(lists[k])
          /\ \A j \in Keys \ {k} : ls[j] = lists[j]
      BY <1>2, <2>1
    <2>3. QED
      BY <2>1, <2>2
  <1>3. QED
    BY <1>1, <1>2 DEF Observed

\* An invalidation marks whatever is shown or under way, so that the mark
\* covers any deletion answered with it; what is on display is fetched.
LEMMA InvalidatedKeeps ==
    ASSUME lists \in [Keys -> List], \A k \in Keys : ListInv(lists[k]),
           lists' = Invalidated
    PROVE  /\ lists' \in [Keys -> List]
           /\ \A k \in Keys : ListOK(lists'[k]) /\ ReadInOrder(lists'[k])
           /\ \A k \in Keys : DeletionsMarked(lists[k])'
           /\ key \in Keys /\ Mounted => lists'[key].fetch # "none"
  <1> DEFINE marked(l) == [l EXCEPT !.invalid = l.pages # <<>> \/ l.fetch # "none" \/ l.error]
             on(l) == [marked(l) EXCEPT !.late = TRUE]
  <1>1. ASSUME NEW k \in Keys
        PROVE  /\ lists'[k] \in List /\ ListOK(lists'[k]) /\ ReadInOrder(lists'[k])
               /\ DeletionsMarked(lists[k])'
               /\ k = key /\ Mounted => lists'[k].fetch # "none"
    <2> DEFINE l == lists[k]
               display == Mounted /\ k = key
               goesOn == l.fetch # "none" /\ ~(display /\ l.pages # <<>>)
    <2>1. l \in List /\ ListOK(l) /\ ReadInOrder(l)
      BY DEF ListInv
    <2>2. /\ marked(l) \in List
          /\ marked(l).invalid = (l.pages # <<>> \/ l.fetch # "none" \/ l.error)
          /\ marked(l).pages = l.pages /\ marked(l).got = l.got
          /\ marked(l).coming = l.coming /\ marked(l).fetch = l.fetch
          /\ marked(l).counted = l.counted
      BY <2>1 DEF List
    <2>3. /\ on(l) \in List /\ on(l).late
          /\ on(l).invalid = marked(l).invalid
          /\ on(l).pages = l.pages /\ on(l).got = l.got
          /\ on(l).coming = l.coming /\ on(l).fetch = l.fetch
          /\ on(l).counted = l.counted
      BY <2>1, <2>2 DEF List
    <2>4. lists'[k] = IF goesOn THEN on(l)
                      ELSE IF display THEN Reload(marked(l)) ELSE marked(l)
      BY DEF Invalidated
    <2> HIDE DEF marked, on
    <2>5. CASE goesOn
      <3>1. lists'[k] = on(l)
        BY <2>4, <2>5
      <3>2. ListOK(on(l)) /\ ReadInOrder(on(l))
        BY <2>1, <2>3 DEF ListOK, ReadInOrder
      <3>3. on(l).pages # <<>> => on(l).invalid
        BY <2>2, <2>3
      <3>4. Clean(<<>>)'
        BY DEF Clean
      <3>5. DeletionsMarked(lists[k])'
        <4>1. Clean(lists[k].pages)' \/ lists'[k].invalid
          BY <3>1, <3>3, <3>4 DEF Clean
        <4>2. lists'[k].late
          BY <2>3, <3>1
        <4>3. QED
          BY <4>1, <4>2 DEF DeletionsMarked
      <3>6. QED
        BY <2>3, <2>5, <3>1, <3>2, <3>5
    <2>6. CASE ~goesOn
      <3> DEFINE m == marked(l)
      <3>1. lists'[k] = m \/ (display /\ lists'[k] = Reload(m))
        BY <2>4, <2>6
      <3>2. CASE l.fetch = "none" /\ lists'[k] = m /\ ~display
        <4>1. l.got = <<>> /\ l.coming = <<>> /\ l.counted = <<>>
          BY <2>1, <3>2 DEF ListOK
        <4>2. ListOK(m) /\ ReadInOrder(m)
          BY <2>1, <2>2 DEF ListOK, ReadInOrder
        <4>3. DeletionsMarked(lists[k])'
          <5>1. Clean(lists[k].pages)' \/ lists'[k].invalid
            <6>1. m.invalid = (l.pages # <<>> \/ l.fetch # "none" \/ l.error)
              BY <2>2, Zenon
            <6>2. lists'[k].pages = l.pages /\ lists'[k].invalid = m.invalid
              BY <2>2, <3>2, Zenon
            <6>3. CASE l.pages = <<>>
              BY <6>2, <6>3 DEF Clean
            <6>4. CASE l.pages # <<>>
              BY <6>1, <6>2, <6>4, Zenon
            <6>5. QED
              BY <6>3, <6>4
          <5>2. Clean(lists[k].got)' /\ Clean(lists[k].coming)'
            BY <2>2, <3>2, <4>1 DEF Clean
          <5>3. QED
            BY <5>1, <5>2 DEF DeletionsMarked
        <4>4. QED
          BY <2>2, <3>2, <4>2, <4>3
      <3>3. CASE display /\ lists'[k] = Reload(m)
        <4> DEFINE q == Reload(m)
        <4>1. /\ q \in List /\ q.fetch = "reload" /\ q.pages = l.pages
              /\ q.got = <<>> /\ q.coming = <<>> /\ q.counted = <<>>
              /\ q.invalid = m.invalid
          BY <2>2, ReloadFields
        <4> HIDE DEF q
        <4>2. ListOK(q) /\ ReadInOrder(q)
          BY <2>1, <4>1, NothingBegins DEF ListOK, ReadInOrder
        <4>3. lists'[k] = q
          BY <3>3 DEF q
        <4>4. DeletionsMarked(lists[k])'
          <5>1. Clean(lists[k].pages)' \/ lists'[k].invalid
            <6>1. m.invalid = (l.pages # <<>> \/ l.fetch # "none" \/ l.error)
              BY <2>2, Zenon
            <6>2. lists'[k].pages = l.pages /\ lists'[k].invalid = m.invalid
              BY <4>1, <4>3, Zenon
            <6>3. CASE l.pages = <<>>
              BY <6>2, <6>3 DEF Clean
            <6>4. CASE l.pages # <<>>
              BY <6>1, <6>2, <6>4, Zenon
            <6>5. QED
              BY <6>3, <6>4
          <5>2. Clean(lists[k].got)' /\ Clean(lists[k].coming)'
            BY <4>1, <4>3 DEF Clean
          <5>3. QED
            BY <5>1, <5>2 DEF DeletionsMarked
        <4>5. QED
          BY <4>1, <4>2, <4>3, <4>4
      <3>4. QED
        BY <2>4, <2>6, <3>2, <3>3
    <2>7. QED
      BY <2>5, <2>6
  <1>2. lists' \in [Keys -> List]
    <2> DEFINE it(k) ==
                 LET l == lists[k]
                     display == Mounted /\ k = key
                     goesOn == l.fetch # "none" /\ ~(display /\ l.pages # <<>>)
                 IN IF goesOn THEN on(l) ELSE IF display THEN Reload(marked(l)) ELSE marked(l)
    <2>1. lists' = [k \in Keys |-> it(k)]
      BY DEF Invalidated
    <2> HIDE DEF it
    <2>2. QED
      BY <1>1, <2>1
  <1>3. QED
    BY <1>1, <1>2

LEMMA ShownClean ==
    ASSUME NEW l, DeletionsMarked(l)
    PROVE  LetThrough(l) \/ (Clean(l.got) /\ Clean(l.coming))
  BY Zenon DEF DeletionsMarked, LetThrough

LEMMA OnePage ==
    ASSUME NEW c \in Seq(Page), Len(c) < 2, c # <<>>
    PROVE  \E page \in Page : c = <<page>>
  <1>1. Len(c) = 1 /\ c[1] \in Page
    OBVIOUS
  <1>2. c = <<c[1]>>
    BY <1>1
  <1>3. QED
    BY <1>1, <1>2

LEMMA CleanAppend ==
    ASSUME NEW pages \in Seq(Page), NEW page \in Page, Clean(pages), Clean(<<page>>)
    PROVE  Clean(pages \o <<page>>)
  <1> DEFINE all == pages \o <<page>>
  <1>1. /\ DOMAIN all = 1 .. Len(pages) + 1 /\ all[Len(pages) + 1] = page
        /\ \A i \in 1 .. Len(pages) : all[i] = pages[i]
        /\ DOMAIN pages = 1 .. Len(pages) /\ Len(pages) \in Nat
        /\ <<page>>[1] = page /\ DOMAIN <<page>> = {1}
    OBVIOUS
  <1> DEFINE T == Seq([id : Products \ deleted, name : Names])
  <1>2. /\ \A i \in DOMAIN pages : pages[i].cached \/ pages[i].listing \in T
        /\ page.cached \/ page.listing \in T
    BY <1>1 DEF Clean
  <1> HIDE DEF all, T
  <1>3. \A i \in DOMAIN all : all[i].cached \/ all[i].listing \in T
    <2> SUFFICES ASSUME NEW i \in DOMAIN all
                 PROVE  all[i].cached \/ all[i].listing \in T
      OBVIOUS
    <2>1. i = Len(pages) + 1 \/ i \in 1 .. Len(pages)
      BY <1>1
    <2>2. QED
      BY <1>1, <1>2, <2>1
  <1>4. QED
    BY <1>3 DEF Clean, all, T

\* The total is counted for the next page.
LEMMA CountKeeps ==
    ASSUME NEW l, ListInv(l), l.fetch # "none", l.coming = <<>>, NEW n \in Nat,
           NEW m, m = [l EXCEPT !.counted = <<n>>]
    PROVE  ListInv(m) /\ m \in List /\ m.fetch = l.fetch
  <1>1. l \in List /\ ListOK(l) /\ ReadInOrder(l) /\ DeletionsMarked(l)
    BY DEF ListInv, ListOK
  <1>2. m \in List /\ m.counted = <<n>> /\ Len(<<n>>) < 2
    <2> DEFINE SeqPage == Seq(Page)
               SeqNat == Seq(Nat)
    <2>1. List = [pages : SeqPage, error : BOOLEAN, invalid : BOOLEAN,
                  fetch : {"none", "reload", "more"}, got : SeqPage,
                  counted : SeqNat, coming : SeqPage, late : BOOLEAN,
                  excused : BOOLEAN]
      BY DEF List
    <2>2. <<n>> \in SeqNat /\ Len(<<n>>) < 2
      OBVIOUS
    <2> HIDE DEF SeqPage, SeqNat
    <2>3. QED
      BY <1>1, <2>1, <2>2
  <1>3. /\ m.pages = l.pages /\ m.got = l.got /\ m.fetch = l.fetch
        /\ m.coming = l.coming
    BY <1>1 DEF List
  <1>4. m.invalid = l.invalid
    BY <1>1 DEF List
  <1>5. m.late = l.late
    BY <1>1 DEF List
  <1>6. m.excused = l.excused
    BY <1>1 DEF List
  <1>7. ListOK(m) /\ ReadInOrder(m)
    BY <1>1, <1>2, <1>3 DEF ListOK, ReadInOrder
  <1>8. DeletionsMarked(m)
    BY <1>1, <1>3, <1>4, <1>5, <1>6, Zenon DEF DeletionsMarked
  <1>9. QED
    BY <1>2, <1>3, <1>7, <1>8 DEF ListInv

\* A page comes with nothing deleted, or from a cache.
LEMMA AnsweredKeeps ==
    ASSUME NEW l, ListInv(l), l.fetch # "none", l.coming = <<>>,
           NEW page \in Page, page.skip = loaded(l.got), Clean(<<page>>),
           NEW m, m = [l EXCEPT !.counted = <<>>, !.coming = <<page>>]
    PROVE  ListInv(m) /\ m \in List /\ m.fetch = l.fetch
  <1>1. l \in List /\ ListOK(l) /\ ReadInOrder(l) /\ DeletionsMarked(l)
    BY DEF ListInv, ListOK
  <1>2. /\ <<page>> \in Seq(Page) /\ Len(<<page>>) < 2 /\ <<page>>[1] = page
        /\ <<page>> # <<>>
    OBVIOUS
  <1>3. m \in List
    <2> DEFINE SeqPage == Seq(Page)
               SeqNat == Seq(Nat)
    <2>1. <<page>> \in SeqPage /\ <<>> \in SeqNat
      BY <1>2
    <2> HIDE DEF SeqPage, SeqNat
    <2>2. List = [pages : SeqPage, error : BOOLEAN, invalid : BOOLEAN,
                  fetch : {"none", "reload", "more"}, got : SeqPage,
                  counted : SeqNat, coming : SeqPage, late : BOOLEAN,
                  excused : BOOLEAN]
      BY DEF List, SeqPage, SeqNat
    <2>3. QED
      BY <1>1, <2>1, <2>2
  <1>4. /\ m.pages = l.pages /\ m.got = l.got /\ m.fetch = l.fetch
        /\ m.coming = <<page>> /\ m.counted = <<>>
    BY <1>1 DEF List
  <1>5. m.invalid = l.invalid
    BY <1>1 DEF List
  <1>6. m.late = l.late
    BY <1>1 DEF List
  <1>7. m.excused = l.excused
    BY <1>1 DEF List
  <1>8. ListOK(m)
    BY <1>1, <1>2, <1>3, <1>4 DEF ListOK
  <1>9. ReadInOrder(m)
    BY <1>1, <1>2, <1>4 DEF ReadInOrder
  <1>10. DeletionsMarked(m)
    BY <1>1, <1>4, <1>5, <1>6, <1>7, Zenon DEF DeletionsMarked
  <1>11. QED
    BY <1>3, <1>4, <1>8, <1>9, <1>10 DEF ListInv

\* An answer: another page is asked for, or what was fetched is shown.
LEMMA ArrivesKeeps ==
    ASSUME NEW l, ListInv(l), l.coming # <<>>, NEW got, got = l.got \o l.coming, NEW m,
           \/ /\ Len(got) < Wanted(l) /\ hasNextPage(got)
              /\ m = [l EXCEPT !.got = got, !.coming = <<>>]
           \/ m = [l EXCEPT !.pages = got, !.error = FALSE, !.invalid = FALSE,
                            !.fetch = "none", !.got = <<>>, !.coming = <<>>,
                            !.late = FALSE, !.excused = LetThrough(l)]
    PROVE  ListInv(m) /\ m \in List /\ (m.fetch = l.fetch \/ ~m.invalid)
  <1>1. l \in List /\ ListOK(l) /\ ReadInOrder(l) /\ DeletionsMarked(l)
    BY DEF ListInv, ListOK
  <1>2. PICK page \in Page : l.coming = <<page>>
    <2>1. PICK c \in Seq(Page) : c = l.coming /\ Len(c) < 2
      BY <1>1 DEF List, ListOK
    <2>2. QED
      BY <2>1, OnePage
  <1>3. /\ l.got \in Seq(Page) /\ l.pages \in Seq(Page)
        /\ BeginsListing(l.got) /\ (l.got # <<>> => hasNextPage(l.got))
        /\ Tracks(l.got) /\ page.skip = loaded(l.got) /\ l.counted = <<>>
    <2>1. l.got \in Seq(Page) /\ l.pages \in Seq(Page)
      BY <1>1 DEF List
    <2>2. l.coming[1] = page /\ l.coming # <<>>
      BY <1>2
    <2>3. QED
      BY <1>1, <2>1, <2>2 DEF ReadInOrder, ListOK
  <1>4. BeginsListing(got) /\ Tracks(got)
    BY <1>2, <1>3, BeginsAppend, TracksAppend
  <1>5. got \in Seq(Page) /\ got # <<>> /\ Len(got) = Len(l.got) + 1
    BY <1>2, <1>3
  <1>6. Clean(l.got) /\ Clean(l.coming) => Clean(got)
    BY <1>2, <1>3, CleanAppend
  <1>7. l.fetch # "none"
    BY <1>1 DEF ListOK
  <1>8. Clean(<<>>) /\ BeginsListing(<<>>) /\ Tracks(<<>>)
    BY NothingBegins
  <1>9. <<>> \in Seq(Page)
    OBVIOUS
  <1> DEFINE SeqPage == Seq(Page)
             SeqNat == Seq(Nat)
  <1>10. /\ List = [pages : SeqPage, error : BOOLEAN, invalid : BOOLEAN,
                    fetch : {"none", "reload", "more"}, got : SeqPage,
                    counted : SeqNat, coming : SeqPage, late : BOOLEAN,
                    excused : BOOLEAN]
         /\ <<>> \in SeqPage /\ got \in SeqPage
    BY <1>5, <1>9 DEF List
  <1> HIDE DEF SeqPage, SeqNat
  <1>11. CASE /\ Len(got) < Wanted(l) /\ hasNextPage(got)
              /\ m = [l EXCEPT !.got = got, !.coming = <<>>]
    <2>1. m \in List
      BY <1>1, <1>10, <1>11
    <2>2. /\ m.pages = l.pages /\ m.got = got /\ m.fetch = l.fetch /\ m.coming = <<>>
          /\ m.counted = <<>>
      BY <1>1, <1>3, <1>11 DEF List
    <2>3. m.invalid = l.invalid
      BY <1>1, <1>11 DEF List
    <2>4. m.late = l.late
      BY <1>1, <1>11 DEF List
    <2>5. m.excused = l.excused
      BY <1>1, <1>11 DEF List
    <2>6. l.fetch # "more"
      BY <1>1, <1>3, <1>5, <1>11 DEF ListOK, Wanted
    <2>7. ListOK(m)
      <3>1. /\ m.fetch # "more" /\ m.fetch # "none"
            /\ Len(m.coming) < 2 /\ Len(m.counted) < 2
        BY <1>7, <2>2, <2>6
      <3>2. QED
        BY <2>1, <2>2, <3>1 DEF ListOK
    <2>8. ReadInOrder(m)
      BY <1>1, <1>4, <1>11, <2>2 DEF ReadInOrder
    <2>9. DeletionsMarked(m)
      BY <1>1, <1>6, <1>8, <2>2, <2>3, <2>4, <2>5, Zenon DEF DeletionsMarked
    <2>10. QED
      BY <2>1, <2>2, <2>7, <2>8, <2>9 DEF ListInv
  <1>12. CASE m = [l EXCEPT !.pages = got, !.error = FALSE, !.invalid = FALSE,
                            !.fetch = "none", !.got = <<>>, !.coming = <<>>,
                            !.late = FALSE, !.excused = LetThrough(l)]
    <2>1. LetThrough(l) \in BOOLEAN
      BY DEF LetThrough
    <2>3. LetThrough(l) \/ (Clean(l.got) /\ Clean(l.coming))
      BY <1>1, ShownClean, Zenon
    <2>4. m \in List
      BY <1>1, <1>10, <1>12, <2>1
    <2>5. /\ m.pages = got /\ m.got = <<>> /\ m.fetch = "none" /\ m.coming = <<>>
          /\ m.counted = <<>>
      BY <1>1, <1>3, <1>12 DEF List
    <2>6. m.invalid = FALSE
      BY <1>1, <1>12 DEF List
    <2>7. m.excused = LetThrough(l)
      BY <1>1, <1>12, <2>1 DEF List
    <2>8. ListOK(m)
      BY <2>4, <2>5 DEF ListOK
    <2>9. ReadInOrder(m)
      BY <1>4, <1>8, <2>5 DEF ReadInOrder
    <2>10. DeletionsMarked(m)
      BY <1>6, <1>8, <2>3, <2>5, <2>7, Zenon DEF DeletionsMarked
    <2>11. QED
      BY <2>4, <2>6, <2>8, <2>9, <2>10 DEF ListInv
  <1>13. QED
    BY <1>11, <1>12

LEMMA FailsKeeps ==
    ASSUME NEW l, ListInv(l), NEW m,
           m = [l EXCEPT !.error = TRUE, !.fetch = "none", !.got = <<>>,
                         !.counted = <<>>, !.coming = <<>>, !.late = FALSE]
    PROVE  ListInv(m) /\ m \in List /\ m.error
  <1>1. l \in List /\ ListOK(l) /\ ReadInOrder(l) /\ DeletionsMarked(l)
    BY DEF ListInv, ListOK
  <1>2. m \in List
    <2> DEFINE SeqPage == Seq(Page)
               SeqNat == Seq(Nat)
    <2>1. <<>> \in SeqPage /\ <<>> \in SeqNat
      OBVIOUS
    <2> HIDE DEF SeqPage, SeqNat
    <2>2. List = [pages : SeqPage, error : BOOLEAN, invalid : BOOLEAN,
                  fetch : {"none", "reload", "more"}, got : SeqPage,
                  counted : SeqNat, coming : SeqPage,
                  late : BOOLEAN, excused : BOOLEAN]
      BY DEF List, SeqPage, SeqNat
    <2>3. QED
      BY <1>1, <2>1, <2>2
  <1>3. /\ m.pages = l.pages /\ m.got = <<>> /\ m.fetch = "none" /\ m.coming = <<>>
        /\ m.counted = <<>>
    BY <1>1 DEF List
  <1>4. m.invalid = l.invalid
    BY <1>1 DEF List
  <1>5. m.excused = l.excused
    BY <1>1 DEF List
  <1>6. m.error
    BY <1>1 DEF List
  <1>7. ListOK(m) /\ ReadInOrder(m)
    BY <1>1, <1>2, <1>3, NothingBegins DEF ListOK, ReadInOrder
  <1>8. DeletionsMarked(m)
    BY <1>1, <1>3, <1>4, <1>5, NothingBegins, Zenon DEF DeletionsMarked
  <1>9. QED
    BY <1>2, <1>6, <1>7, <1>8 DEF ListInv

\* "Load more" starts from the pages shown, marked or not.
LEMMA MoreKeeps ==
    ASSUME NEW l, ListInv(l), hasNextPage(l.pages), NEW m,
           m = [l EXCEPT !.fetch = "more", !.got = l.pages, !.counted = <<>>,
                         !.coming = <<>>, !.late = FALSE]
    PROVE  ListInv(m) /\ m \in List /\ m.fetch = "more"
  <1>1. l \in List /\ ListOK(l) /\ ReadInOrder(l) /\ DeletionsMarked(l)
    BY DEF ListInv, ListOK
  <1>2. m \in List
    <2> DEFINE SeqPage == Seq(Page)
               SeqNat == Seq(Nat)
    <2>1. <<>> \in SeqPage /\ <<>> \in SeqNat
      OBVIOUS
    <2> HIDE DEF SeqPage, SeqNat
    <2>2. List = [pages : SeqPage, error : BOOLEAN, invalid : BOOLEAN,
                  fetch : {"none", "reload", "more"}, got : SeqPage,
                  counted : SeqNat, coming : SeqPage,
                  late : BOOLEAN, excused : BOOLEAN]
      BY DEF List, SeqPage, SeqNat
    <2>3. QED
      BY <1>1, <2>1, <2>2
  <1>3. /\ m.pages = l.pages /\ m.got = l.pages /\ m.fetch = "more" /\ m.coming = <<>>
        /\ m.counted = <<>>
    BY <1>1 DEF List
  <1>4. m.invalid = l.invalid
    BY <1>1 DEF List
  <1>5. m.excused = l.excused
    BY <1>1 DEF List
  <1>6. ListOK(m)
    BY <1>2, <1>3 DEF ListOK, hasNextPage
  <1>7. ReadInOrder(m)
    BY <1>1, <1>3 DEF ReadInOrder
  <1>8. DeletionsMarked(m)
    BY <1>1, <1>3, <1>4, <1>5, NothingBegins, Zenon DEF DeletionsMarked
  <1>9. QED
    BY <1>2, <1>3, <1>6, <1>7, <1>8 DEF ListInv

-----------------------------------------------------------------------------
(* What is on display                                                      *)

LEMMA FilteredType ==
    ASSUME lists \in [Keys -> List], key \in Keys
    PROVE  products \in Seq(Item) /\ filteredProducts \in Seq(Item)
  <1>1. lists[key].pages \in Seq(Page)
    BY DEF List
  <1>2. products \in Seq(Item)
    BY <1>1, PagesRows DEF products
  <1> DEFINE S == {p \in Products : teamFilters # {} => TeamOf[p] \in teamFilters}
  <1>3. filteredProducts = Kept(products, S)
    BY DEF filteredProducts
  <1> HIDE DEF S
  <1>4. Kept(products, S) \in Seq({x \in Item : x.id \in S})
    BY <1>2, KeptType
  <1>5. QED
    BY <1>2, <1>3, <1>4

LEMMA IdsType ==
    ASSUME NEW T, NEW s \in Seq([id : T, name : Names])
    PROVE  ids(s) \subseteq T /\ (s # <<>> => s[1].id \in T)
  <1> DEFINE I == [id : T, name : Names]
  <1>1. \A i \in DOMAIN s : s[i] \in I
    <2>1. s \in Seq(I)
      OBVIOUS
    <2> HIDE DEF I
    <2>2. QED
      BY <2>1
  <1>2. s # <<>> => 1 \in DOMAIN s
    OBVIOUS
  <1>3. \A i \in DOMAIN s : s[i].id \in T
    BY <1>1
  <1>4. QED
    BY <1>2, <1>3 DEF ids

\* Of the items of a list one is the first by team, name and position.
LEMMA FirstExists ==
    ASSUME NEW s \in Seq(Item), s # <<>>
    PROVE  \E i \in DOMAIN s : \A j \in DOMAIN s : Before(s, i, j)
  <1> DEFINE team(i) == TeamOf[s[i].id]
             name(i) == s[i].name
             teams == {team(i) : i \in DOMAIN s}
  <1>1. /\ DOMAIN s \in SUBSET Nat /\ 1 \in DOMAIN s
        /\ \A i \in DOMAIN s : team(i) \in Nat /\ name(i) \in Nat
    <2>1. DOMAIN s \in SUBSET Nat /\ 1 \in DOMAIN s /\ \A i \in DOMAIN s : s[i] \in Item
      OBVIOUS
    <2>2. \A i \in DOMAIN s : s[i].id \in Products /\ s[i].name \in Names
      BY <2>1 DEF Item
    <2>3. \A i \in DOMAIN s : team(i) \in Nat /\ name(i) \in Nat
      BY <2>2, RegistryAssumption
    <2>4. QED
      BY <2>1, <2>3
  <1>2. teams \in SUBSET Nat /\ teams # {}
    BY <1>1
  <1>3. PICK t \in teams : \A u \in teams : t <= u
    <2> HIDE DEF teams
    <2>1. QED
      BY <1>2, LeastNumber
  <1> DEFINE ofTeam == {i \in DOMAIN s : team(i) = t}
             named == {name(i) : i \in ofTeam}
  <1>4. ofTeam # {} /\ named \in SUBSET Nat /\ named # {}
    BY <1>1, <1>3
  <1>5. PICK m \in named : \A u \in named : m <= u
    <2> HIDE DEF named
    <2>1. QED
      BY <1>4, LeastNumber
  <1> DEFINE firsts == {i \in ofTeam : name(i) = m}
  <1>6. firsts \in SUBSET Nat /\ firsts # {}
    BY <1>1, <1>5
  <1>7. PICK i \in firsts : \A j \in firsts : i <= j
    <2> HIDE DEF firsts
    <2>1. QED
      BY <1>6, LeastNumber
  <1>8. i \in DOMAIN s /\ team(i) = t /\ name(i) = m
    BY <1>7
  <1>9. ASSUME NEW j \in DOMAIN s
        PROVE  Before(s, i, j)
    <2>1. t <= team(j) /\ team(j) \in Nat /\ name(j) \in Nat /\ t \in Nat /\ m \in Nat
      BY <1>1, <1>2, <1>3, <1>4, <1>5
    <2>2. CASE team(j) # t
      <3>1. team(i) < team(j)
        BY <1>8, <2>1, <2>2
      <3>2. QED
        BY <3>1 DEF Before
    <2>3. CASE team(j) = t /\ name(j) # m
      <3>1. m <= name(j)
        BY <1>5, <2>3
      <3>2. team(i) = team(j) /\ name(i) < name(j)
        BY <1>8, <2>1, <2>3, <3>1
      <3>3. QED
        BY <3>2 DEF Before
    <2>4. CASE team(j) = t /\ name(j) = m
      <3>1. team(i) = team(j) /\ name(i) = name(j) /\ i <= j
        BY <1>7, <1>8, <2>4
      <3>2. QED
        BY <3>1 DEF Before
    <2>5. QED
      BY <2>2, <2>3, <2>4
  <1>10. QED
    BY <1>8, <1>9

LEMMA FirstGrouped ==
    ASSUME lists \in [Keys -> List], key \in Keys, favorites \subseteq Products,
           filteredProducts # <<>>
    PROVE  firstGrouped \in Products
  <1> DEFINE shown == filteredProducts
             starred == Kept(shown, favorites)
             first == CHOOSE i \in DOMAIN shown : \A j \in DOMAIN shown : Before(shown, i, j)
  <1>1. shown \in Seq(Item) /\ shown # <<>>
    BY FilteredType
  <1>2. firstGrouped = IF starred # <<>> THEN starred[1].id ELSE shown[first].id
    BY DEF firstGrouped
  <1> HIDE DEF shown
  <1>3. starred \in Seq({x \in Item : x.id \in favorites})
    BY <1>1, KeptType
  <1>4. first \in DOMAIN shown
    BY <1>1, FirstExists
  <1> HIDE DEF starred, first
  <1>5. starred # <<>> => starred[1].id \in Products
    <2>1. starred # <<>> => starred[1] \in Item
      BY <1>3
    <2>2. QED
      BY <2>1 DEF Item
  <1>6. shown[first].id \in Products
    <2>1. shown[first] \in Item
      BY <1>1, <1>4
    <2>2. QED
      BY <2>1 DEF Item
  <1>7. QED
    BY <1>2, <1>5, <1>6

-----------------------------------------------------------------------------
(* The address                                                             *)

NavInv == NavTypeOK /\ AddressNamesTab

LEMMA InitNav == NavInit => NavInv
  BY TabsAssumption DEF NavInit, NavInv, NavTypeOK, AddressNamesTab, Addresses, parseHash

\* Whatever changes the address or the tab: the two agree, or the listener
\* will look again.
LEMMA NavKeeps ==
    ASSUME NavInv,
           \/ \E tab \in Tabs : setActiveTab(tab)
           \/ ShowHome \/ Browse \/ HashChange \/ UNCHANGED navVars
    PROVE  NavInv'
  <1> USE TabsAssumption DEF NavInv, NavTypeOK, AddressNamesTab, Addresses, SetAddress
  <1>1. ASSUME NEW tab \in Tabs, setActiveTab(tab) PROVE NavInv'
    BY <1>1 DEF setActiveTab, parseHash
  <1>2. CASE ShowHome
    BY <1>2 DEF ShowHome
  <1>3. CASE Browse
    BY <1>3 DEF Browse
  <1>4. CASE HashChange
    <2> DEFINE tab == parseHash(address)
    <2>1. tab \in Tabs /\ parseHash(tab) = tab
      BY DEF parseHash
    <2>2. \/ tab = activeTab /\ announced' = FALSE /\ UNCHANGED <<activeTab, address>>
          \/ activeTab' = tab /\ address' = tab /\ announced' = (address # tab)
      BY <1>4 DEF HashChange
    <2>3. CASE tab = activeTab /\ announced' = FALSE /\ UNCHANGED <<activeTab, address>>
      BY <2>3 DEF parseHash
    <2>4. CASE activeTab' = tab /\ address' = tab /\ announced' = (address # tab)
      <3> HIDE DEF tab
      <3>1. announced' \in BOOLEAN
        BY <2>4
      <3>2. parseHash(address)' = tab
        BY <2>1, <2>4 DEF parseHash
      <3>3. QED
        BY <2>1, <2>4, <3>1, <3>2
    <2>5. QED
      BY <2>2, <2>3, <2>4
  <1>5. CASE UNCHANGED navVars
    BY <1>5 DEF navVars
  <1>6. QED
    BY <1>1, <1>2, <1>3, <1>4, <1>5

-----------------------------------------------------------------------------
(* The steps                                                               *)

\* The invariant but for the lists.
RestOK ==
  /\ catalogs \in Seq(Contents) \ {<<>>}
  /\ gone \subseteq Products \ DOMAIN catalog /\ deleted \subseteq gone
  /\ others \in 0 .. MaxOthers /\ moves \in 0 .. MaxMoves
  /\ typed \in BOOLEAN /\ searchQuery \in BOOLEAN
  /\ key \in Keys
  /\ favorites \subseteq Products
  /\ selected \in Products \cup {None}
  /\ write \in Writes \cup {NoWrite}
  /\ DeletedIsGone

AllLists == lists \in [Keys -> List] /\ \A k \in Keys : ListInv(lists[k])

LEMMA InParts == IInv <=> NavInv /\ RestOK /\ AllLists /\ DisplayIsFetched
  BY DEF IInv, TypeOK, NavInv, RestOK, AllLists, ListInv

LEMMA InPartsNext == (NavInv /\ RestOK /\ AllLists /\ DisplayIsFetched)' => IInv'
  BY DEF IInv, TypeOK, NavInv, RestOK, AllLists, ListInv

LEMMA SameLists ==
    ASSUME AllLists, UNCHANGED <<lists, deleted>>
    PROVE  AllLists'
  BY DEF AllLists, ListInv, DeletionsMarked, Clean

\* One list changes.
LEMMA OneList ==
    ASSUME AllLists, DisplayIsFetched, key \in Keys,
           NEW k \in Keys, NEW m \in List, ListInv(m),
           m.fetch # "none" \/ m.error \/ ~m.invalid,
           lists' = [lists EXCEPT ![k] = m],
           UNCHANGED <<activeTab, searchQuery, teamFilters, deleted>>
    PROVE  AllLists' /\ DisplayIsFetched'
  <1>1. /\ lists' \in [Keys -> List] /\ lists'[k] = m
        /\ \A j \in Keys \ {k} : lists'[j] = lists[j]
    BY DEF AllLists
  <1>2. ASSUME NEW j \in Keys PROVE ListInv(lists[j])'
    <2>1. ListInv(lists'[j])
      BY <1>1 DEF AllLists
    <2>2. QED
      BY <2>1 DEF ListInv, DeletionsMarked, Clean
  <1>3. DisplayIsFetched'
    <2>1. key' = key /\ (Mounted <=> Mounted')
      BY DEF key, Mounted
    <2>2. CASE key = k
      BY <1>1, <2>1, <2>2 DEF DisplayIsFetched
    <2>3. CASE key # k
      <3>1. lists'[key] = lists[key]
        BY <1>1, <2>3
      <3>2. QED
        BY <2>1, <3>1 DEF DisplayIsFetched
    <2>4. QED
      BY <2>2, <2>3
  <1>4. QED
    BY <1>1, <1>2, <1>3 DEF AllLists

LEMMA SameRest ==
    ASSUME NavInv, RestOK, moves' \in 0 .. MaxMoves,
           UNCHANGED <<navVars, rowVars, choiceVars, favorites, selected, write, deleted>>
    PROVE  NavInv' /\ RestOK'
  <1>1. NavInv'
    <2>1. UNCHANGED navVars
      OBVIOUS
    <2>2. QED
      BY <2>1, NavKeeps, Zenon
  <1>2. RestOK'
    <2>1. catalog' = catalog /\ key' = key
      BY DEF catalog, key, rowVars, choiceVars
    <2>2. QED
      BY <2>1 DEF RestOK, rowVars, choiceVars, DeletedIsGone
  <1>3. QED
    BY <1>1, <1>2

LEMMA Moved ==
    ASSUME RestOK, Move
    PROVE  moves' \in 0 .. MaxMoves
  BY RegistryAssumption DEF RestOK, Move

LEMMA ItemsWiden ==
    ASSUME NEW A, NEW B, A \subseteq B, NEW s \in Seq([id : A, name : Names])
    PROVE  s \in Seq([id : B, name : Names])
  <1> DEFINE I == [id : A, name : Names]
             J == [id : B, name : Names]
  <1>1. s \in Seq(I) /\ \A x \in I : x \in J
    OBVIOUS
  <1> HIDE DEF I, J
  <1>2. s \in Seq(J)
    BY <1>1
  <1>3. QED
    BY <1>2 DEF J

LEMMA CatalogType ==
    ASSUME catalogs \in Seq(Contents) \ {<<>>}
    PROVE  catalog \in Contents /\ DOMAIN catalog \subseteq Products
  <1>1. catalog \in Contents
    BY DEF catalog, Last
  <1>2. QED
    BY <1>1 DEF Contents

\* A page of what is found of some catalog; of the last, nothing deleted.
LEMMA PageFound ==
    ASSUME NEW c \in Contents, NEW k, NEW skip \in Nat, NEW total \in Nat,
           NEW cached \in BOOLEAN, cached \/ DOMAIN c \subseteq Products \ deleted,
           NEW page, page = [skip |-> skip, total |-> total,
                             listing |-> Listing(c, k), cached |-> cached]
    PROVE  page \in Page /\ page.skip = skip /\ Clean(<<page>>)
  <1> DEFINE L == Listing(c, k)
  <1>1. /\ L \in Seq([id : DOMAIN c, name : Names])
        /\ \A i, j \in DOMAIN L : L[i].id = L[j].id => i = j
    BY ListingType
  <1>2. DOMAIN c \subseteq Products
    BY DEF Contents
  <1> HIDE DEF L
  <1>3. L \in Seq(Item)
    BY <1>1, <1>2, ItemsWiden DEF Item
  <1>4. cached \/ L \in Seq([id : Products \ deleted, name : Names])
    <2> SUFFICES ASSUME ~cached
                 PROVE  L \in Seq([id : Products \ deleted, name : Names])
      OBVIOUS
    <2>1. DOMAIN c \subseteq Products \ deleted
      OBVIOUS
    <2>2. QED
      BY <1>1, <2>1, ItemsWiden
  <1>5. page = [skip |-> skip, total |-> total, listing |-> L, cached |-> cached]
    BY DEF L
  <1>6. page \in Page /\ page.skip = skip /\ page.cached = cached /\ page.listing = L
    BY <1>1, <1>3, <1>5 DEF Page
  <1>7. Clean(<<page>>)
    BY <1>4, <1>6 DEF Clean
  <1>8. QED
    BY <1>6, <1>7

\* A list is read page by page, from a catalog without what was deleted, or
\* from a cache.
LEMMA ListSteps ==
    ASSUME IInv, NEW k \in Keys,
           \/ PageCount(k) \/ PageRead(k) \/ PageCached(k)
           \/ PageArrives(k) \/ PageFails(k)
           \/ k = key /\ (LoadMore \/ Retry)
    PROVE  IInv'
  <1> DEFINE l == lists[k]
             Fits(m) == /\ m \in List /\ ListInv(m)
                        /\ m.fetch # "none" \/ m.error \/ ~m.invalid
                        /\ lists' = [lists EXCEPT ![k] = m]
             Rest == /\ moves' \in 0 .. MaxMoves
                     /\ UNCHANGED <<navVars, rowVars, choiceVars, favorites, selected,
                                    write, deleted>>
  <1>1. NavInv /\ RestOK /\ AllLists /\ DisplayIsFetched
    BY InParts
  <1>2. ListInv(l) /\ l \in List /\ lists \in [Keys -> List]
    BY <1>1 DEF AllLists
  <1>3. moves \in 0 .. MaxMoves
    BY <1>1 DEF RestOK
  <1>31. catalog \in Contents /\ DOMAIN catalog \subseteq Products \ deleted
    BY <1>1, CatalogType DEF RestOK
  <1>32. l.got \in Seq(Page) /\ loaded(l.got) \in Nat
    BY <1>2, PagesRows DEF List
  <1>33. ASSUME PageCount(k) PROVE (\E m : Fits(m)) /\ Rest
    <2> DEFINE n == Len(Listing(catalog, k))
               m == [l EXCEPT !.counted = <<n>>]
    <2>1. l.fetch # "none" /\ l.coming = <<>> /\ lists' = [lists EXCEPT ![k] = m]
      BY <1>2, <1>33 DEF PageCount
    <2>2. n \in Nat
      BY <1>31, ListingType
    <2> HIDE DEF n
    <2>3. ListInv(m) /\ m \in List /\ m.fetch = l.fetch
      BY <1>2, <2>1, <2>2, CountKeeps
    <2> HIDE DEF m
    <2>4. Fits(m)
      BY <2>1, <2>3
    <2>5. Rest
      BY <1>3, <1>33 DEF PageCount, dataVars
    <2>6. QED
      BY <2>4, <2>5, Zenon
  <1>34. ASSUME NEW c \in Contents, NEW total \in Nat, NEW cached \in BOOLEAN,
                cached \/ DOMAIN c \subseteq Products \ deleted,
                l.fetch # "none", l.coming = <<>>, Answered(k, total, Listing(c, k), cached)
         PROVE  \E m : Fits(m)
    <2> DEFINE page == [skip |-> loaded(l.got), total |-> total,
                        listing |-> Listing(c, k), cached |-> cached]
               m == [l EXCEPT !.counted = <<>>, !.coming = <<page>>]
    <2>1. lists' = [lists EXCEPT ![k] = m]
      BY <1>2, <1>34 DEF Answered
    <2>2. page \in Page /\ page.skip = loaded(l.got) /\ Clean(<<page>>)
      BY <1>32, <1>34, PageFound
    <2> HIDE DEF page
    <2>3. ListInv(m) /\ m \in List /\ m.fetch = l.fetch
      BY <1>2, <1>34, <2>2, AnsweredKeeps
    <2> HIDE DEF m
    <2>4. Fits(m)
      BY <1>34, <2>1, <2>3
    <2>5. QED
      BY <2>4, Zenon
  <1>4. ASSUME PageRead(k) PROVE (\E m : Fits(m)) /\ Rest
    <2>1. l.counted # <<>> /\ Answered(k, l.counted[1], Listing(catalog, k), FALSE)
      BY <1>4 DEF PageRead
    <2>2. /\ l.fetch # "none" /\ l.coming = <<>>
          /\ l.counted \in Seq(Nat)
      BY <1>2, <2>1 DEF ListInv, ListOK, List
    <2>3. l.counted[1] \in Nat
      BY <2>1, <2>2
    <2>4. \E m : Fits(m)
      <3> HIDE DEF Fits, l
      <3>1. QED
        BY <1>31, <1>34, <2>1, <2>2, <2>3
    <2>5. Rest
      BY <1>3, <1>4 DEF PageRead, dataVars
    <2>6. QED
      BY <2>4, <2>5, Zenon
  <1>35. ASSUME PageCached(k) PROVE (\E m : Fits(m)) /\ Rest
    <2>1. PICK v \in DOMAIN catalogs, w \in DOMAIN catalogs :
            Answered(k, Len(Listing(catalogs[v], k)), Listing(catalogs[w], k), TRUE)
      BY <1>35 DEF PageCached
    <2>2. l.fetch # "none" /\ l.coming = <<>>
      BY <1>35 DEF PageCached
    <2>3. catalogs[v] \in Contents /\ catalogs[w] \in Contents
      BY <1>1 DEF RestOK
    <2>4. Len(Listing(catalogs[v], k)) \in Nat
      BY <2>3, ListingType
    <2>5. \E m : Fits(m)
      <3> HIDE DEF Fits, l
      <3>1. QED
        BY <1>34, <2>1, <2>2, <2>3, <2>4
    <2>6. Rest
      BY <1>3, <1>35 DEF PageCached, dataVars
    <2>7. QED
      BY <2>5, <2>6, Zenon
  <1>5. ASSUME PageArrives(k) PROVE (\E m : Fits(m)) /\ Rest
    <2> DEFINE got == l.got \o l.coming
               more == [l EXCEPT !.got = got, !.coming = <<>>]
               shown == [l EXCEPT !.pages = got, !.error = FALSE, !.invalid = FALSE,
                                  !.fetch = "none", !.got = <<>>, !.coming = <<>>,
                                  !.late = FALSE, !.excused = LetThrough(l)]
               m == IF Len(got) < Wanted(l) /\ hasNextPage(got) THEN more ELSE shown
    <2>1. l.coming # <<>> /\ lists' = [lists EXCEPT ![k] = m]
      BY <1>5 DEF PageArrives
    <2>2. (Len(got) < Wanted(l) /\ hasNextPage(got) /\ m = more) \/ m = shown
      OBVIOUS
    <2>3. l.fetch # "none"
      BY <1>2, <2>1 DEF ListInv, ListOK
    <2>4. ListInv(m) /\ m \in List /\ (m.fetch = l.fetch \/ ~m.invalid)
      <3> HIDE DEF m
      <3>1. QED
        BY <1>2, <2>1, <2>2, ArrivesKeeps
    <2> HIDE DEF m
    <2>5. Fits(m)
      BY <2>1, <2>3, <2>4
    <2>6. Rest
      BY <1>3, <1>5 DEF PageArrives, dataVars
    <2>7. QED
      BY <2>5, <2>6, Zenon
  <1>6. ASSUME PageFails(k) PROVE (\E m : Fits(m)) /\ Rest
    <2> DEFINE m == [l EXCEPT !.error = TRUE, !.fetch = "none", !.got = <<>>,
                              !.counted = <<>>, !.coming = <<>>, !.late = FALSE]
    <2>1. lists' = [lists EXCEPT ![k] = m]
      BY <1>6 DEF PageFails
    <2>2. ListInv(m) /\ m \in List /\ m.error
      BY <1>2, FailsKeeps
    <2> HIDE DEF m
    <2>3. Fits(m)
      BY <2>1, <2>2
    <2>4. Rest
      BY <1>1, <1>6, Moved DEF PageFails
    <2>5. QED
      BY <2>3, <2>4, Zenon
  <1>7. ASSUME k = key, LoadMore PROVE (\E m : Fits(m)) /\ Rest
    <2> DEFINE m == [l EXCEPT !.fetch = "more", !.got = l.pages, !.counted = <<>>,
                              !.coming = <<>>, !.late = FALSE]
    <2>1. hasNextPage(l.pages) /\ lists' = [lists EXCEPT ![k] = m]
      BY <1>7 DEF LoadMore
    <2>2. ListInv(m) /\ m \in List /\ m.fetch = "more"
      BY <1>2, <2>1, MoreKeeps
    <2> HIDE DEF m
    <2>3. Fits(m)
      BY <2>1, <2>2
    <2>4. Rest
      BY <1>1, <1>7, Moved DEF LoadMore
    <2>5. QED
      BY <2>3, <2>4, Zenon
  <1>8. ASSUME k = key, Retry PROVE (\E m : Fits(m)) /\ Rest
    <2> DEFINE m == Reload(l)
    <2>1. lists' = [lists EXCEPT ![k] = m]
      BY <1>8 DEF Retry
    <2>2. ListInv(m) /\ m \in List /\ m.fetch = "reload"
      BY <1>2, Reloaded
    <2> HIDE DEF m
    <2>3. Fits(m)
      BY <2>1, <2>2
    <2>4. Rest
      BY <1>1, <1>8, Moved DEF Retry
    <2>5. QED
      BY <2>3, <2>4, Zenon
  <1>9. (\E m : Fits(m)) /\ Rest
    BY <1>33, <1>4, <1>35, <1>5, <1>6, <1>7, <1>8, Zenon
  <1> HIDE DEF l
  <1>10. AllLists' /\ DisplayIsFetched'
    <2>1. PICK m : Fits(m)
      BY <1>9, Zenon
    <2>2. UNCHANGED <<activeTab, searchQuery, teamFilters, deleted>> /\ key \in Keys
      BY <1>1, <1>9 DEF navVars, choiceVars, RestOK
    <2>3. QED
      BY <1>1, <2>1, <2>2, OneList
  <1>11. NavInv' /\ RestOK'
    BY <1>1, <1>9, SameRest
  <1>12. QED
    BY <1>10, <1>11, InPartsNext

LEMMA FilterTeams ==
    ASSUME lists \in [Keys -> List], key \in Keys
    PROVE  teamFilters \subseteq Teams /\ availableTeams \subseteq Teams
  <1>1. teamFilters \subseteq Teams
    BY DEF key, Keys
  <1>2. products \in Seq(Item)
    BY FilteredType
  <1>3. ids(products) \subseteq Products
    BY <1>2, IdsType DEF Item
  <1>4. availableTeams \subseteq Teams
    BY <1>3 DEF availableTeams, Teams
  <1>5. QED
    BY <1>1, <1>4

\* The query of the search and the filters comes on display, marked or not.
LEMMA ChoiceSteps ==
    ASSUME IInv, Debounced \/ clearAllFilters \/ \E t \in Teams : toggleFilter(t)
    PROVE  IInv'
  <1>1. NavInv /\ RestOK /\ AllLists /\ DisplayIsFetched
    BY InParts
  <1>2. /\ searchQuery \in BOOLEAN /\ typed \in BOOLEAN /\ key \in Keys
        /\ moves \in 0 .. MaxMoves
    BY <1>1 DEF RestOK
  <1>3. teamFilters \subseteq Teams /\ availableTeams \subseteq Teams
    BY <1>1, <1>2, FilterTeams DEF AllLists
  <1> DEFINE Chosen(search, teams) ==
               /\ search \in BOOLEAN /\ teams \subseteq Teams /\ (search => teams = {})
               /\ Narrow(search, teams)
             Rest == /\ moves' \in 0 .. MaxMoves
                     /\ UNCHANGED <<navVars, rowVars, typed, favorites, selected,
                                    write, deleted>>
  <1>4. ASSUME Debounced PROVE (\E search, teams : Chosen(search, teams)) /\ Rest
    <2>1. Chosen(typed, {})
      BY <1>2, <1>4 DEF Debounced
    <2>2. Rest
      BY <1>2, <1>4 DEF Debounced, dataVars
    <2>3. QED
      BY <2>1, <2>2, Zenon
  <1>5. ASSUME clearAllFilters PROVE (\E search, teams : Chosen(search, teams)) /\ Rest
    <2>1. Chosen(searchQuery, {})
      BY <1>2, <1>5 DEF clearAllFilters
    <2>2. Rest
      BY <1>1, <1>5, Moved DEF clearAllFilters
    <2>3. QED
      BY <2>1, <2>2, Zenon
  <1>6. ASSUME NEW t \in Teams, toggleFilter(t)
        PROVE  (\E search, teams : Chosen(search, teams)) /\ Rest
    <2> DEFINE teams == IF t \in teamFilters THEN teamFilters \ {t} ELSE teamFilters \cup {t}
    <2>1. teams \subseteq Teams
      BY <1>3
    <2>2. ~searchQuery /\ Narrow(searchQuery, teams)
      BY <1>6 DEF toggleFilter
    <2> HIDE DEF teams
    <2>3. Chosen(searchQuery, teams)
      BY <1>2, <2>1, <2>2
    <2>4. Rest
      BY <1>1, <1>6, Moved DEF toggleFilter
    <2>5. QED
      BY <2>3, <2>4, Zenon
  <1>7. (\E search, teams : Chosen(search, teams)) /\ Rest
    BY <1>4, <1>5, <1>6, Zenon
  <1>8. PICK search, teams : Chosen(search, teams)
    BY <1>7, Zenon
  <1> DEFINE k == [search |-> search, teams |-> teams]
  <1>9. k \in Keys /\ key' = k
    BY <1>8 DEF Keys, key, Narrow
  <1>10. lists' \in Observed(k)
    BY <1>8 DEF Narrow
  <1> HIDE DEF k
  <1>11. /\ lists' \in [Keys -> List] /\ \A j \in Keys : ListInv(lists'[j])
         /\ lists'[k].invalid => lists'[k].fetch # "none"
    BY <1>1, <1>9, <1>10, ObservedKeeps DEF AllLists
  <1>12. AllLists'
    <2>1. deleted' = deleted
      BY <1>7
    <2>2. QED
      BY <1>11, <2>1 DEF AllLists, ListInv, DeletionsMarked, Clean
  <1>13. DisplayIsFetched'
    BY <1>9, <1>11 DEF DisplayIsFetched
  <1>14. NavInv'
    <2>1. UNCHANGED navVars
      BY <1>7
    <2>2. QED
      BY <1>1, <2>1, NavKeeps, Zenon
  <1>15. RestOK'
    <2>1. searchQuery' \in BOOLEAN /\ key' \in Keys
      BY <1>8, <1>9 DEF Narrow
    <2>2. catalog' = catalog
      BY <1>7 DEF catalog, rowVars
    <2>3. QED
      BY <1>1, <1>7, <2>1, <2>2 DEF RestOK, rowVars, DeletedIsGone
  <1>16. QED
    BY <1>12, <1>13, <1>14, <1>15, InPartsNext, Zenon

\* Steps of the tab: a registry that comes into the tree looks at its query.
LEMMA Tabbing ==
    ASSUME IInv, activeTab' \in Tabs, NavInv', Mounting,
           UNCHANGED <<searchQuery, teamFilters, deleted>>
    PROVE  AllLists' /\ DisplayIsFetched' /\ typed' \in BOOLEAN
  <1>1. RestOK /\ AllLists /\ DisplayIsFetched
    BY InParts
  <1>2. key' = key /\ key \in Keys
    BY <1>1 DEF key, RestOK
  <1>3. typed' \in BOOLEAN
    BY <1>1 DEF Mounting, RestOK
  <1>4. CASE activeTab' = Home /\ activeTab # Home
    <2>1. lists' \in Observed(key)
      BY <1>4 DEF Mounting
    <2>2. /\ lists' \in [Keys -> List] /\ \A j \in Keys : ListInv(lists'[j])
          /\ lists'[key].invalid => lists'[key].fetch # "none"
      BY <1>1, <1>2, <2>1, ObservedKeeps DEF AllLists
    <2>3. AllLists'
      BY <2>2 DEF AllLists, ListInv, DeletionsMarked, Clean
    <2>4. DisplayIsFetched'
      BY <1>2, <2>2 DEF DisplayIsFetched
    <2>5. QED
      BY <1>3, <2>3, <2>4
  <1>5. CASE ~(activeTab' = Home /\ activeTab # Home)
    <2>1. UNCHANGED <<lists, deleted>>
      BY <1>5 DEF Mounting
    <2>2. AllLists'
      BY <1>1, <2>1, SameLists
    <2>3. DisplayIsFetched'
      BY <1>1, <1>2, <1>5, <2>1 DEF DisplayIsFetched, Mounted
    <2>4. QED
      BY <1>3, <2>2, <2>3
  <1>6. QED
    BY <1>4, <1>5

\* The other acts of the registry and its effects: the lists are left alone,
\* what is selected is in the list on display.
LEMMA HomeSteps ==
    ASSUME IInv,
           \/ Type \/ Ask \/ History \/ Fails \/ SelectFirst \/ FollowList
           \/ \E p \in Products : toggleFavorite(p) \/ handleSelectProduct(p)
    PROVE  IInv'
  <1>1. NavInv /\ RestOK /\ AllLists /\ DisplayIsFetched
    BY InParts
  <1>2. lists \in [Keys -> List] /\ key \in Keys /\ moves \in 0 .. MaxMoves
        /\ favorites \subseteq Products
    BY <1>1 DEF AllLists, RestOK
  <1> DEFINE Keep == /\ moves' \in 0 .. MaxMoves
                     /\ UNCHANGED <<rowVars, searchQuery, teamFilters, lists, deleted>>
             Nav == ShowHome \/ Browse \/ UNCHANGED navVars
             Rest == /\ typed' \in BOOLEAN /\ favorites' \subseteq Products
                     /\ selected' \in Products \cup {None}
                     /\ write' \in Writes \cup {NoWrite}
                     /\ write'.op = "delete" /\ write'.committed => write' = write
  <1>3. /\ typed \in BOOLEAN /\ favorites \subseteq Products
        /\ selected \in Products \cup {None} /\ DOMAIN catalog \subseteq Products
        /\ \A p \in DOMAIN catalog : catalog[p] \in Names
        /\ write \in Writes \cup {NoWrite}
    BY <1>1, CatalogType DEF RestOK, Contents
  <1>4. ASSUME Type PROVE Keep /\ Nav /\ Rest
    BY <1>1, <1>3, <1>4, Moved DEF Type
  <1>5. ASSUME Ask PROVE Keep /\ Nav /\ Rest
    <2>1. Keep /\ Nav /\ UNCHANGED <<typed, favorites, selected>>
      BY <1>1, <1>5, Moved DEF Ask, choiceVars
    <2>2. PICK op \in {"create", "edit", "delete"}, p \in Products, n \in Names :
            write' = [op |-> op, product |-> p, name |-> n, committed |-> FALSE]
      BY <1>3, <1>5 DEF Ask
    <2>3. write' \in Writes /\ ~write'.committed
      BY <2>2 DEF Writes
    <2>4. QED
      BY <1>3, <2>1, <2>3
  <1>6. ASSUME History PROVE Keep /\ Nav /\ Rest
    BY <1>1, <1>3, <1>6, Moved DEF History, choiceVars
  <1>7. ASSUME Fails PROVE Keep /\ Nav /\ Rest
    <2>1. Keep /\ Nav /\ UNCHANGED <<typed, favorites, selected>> /\ write' = NoWrite
      BY <1>1, <1>7, Moved DEF Fails, choiceVars
    <2>2. QED
      BY <1>3, <2>1 DEF NoWrite
  <1>8. ASSUME SelectFirst PROVE Keep /\ Nav /\ Rest
    <2>1. filteredProducts # <<>> /\ selected' = firstGrouped /\ ShowHome
      BY <1>8 DEF SelectFirst, setSelectedProductId
    <2>2. firstGrouped \in Products
      BY <1>2, <2>1, FirstGrouped
    <2>3. Keep /\ UNCHANGED <<typed, favorites, write>>
      BY <1>2, <1>8 DEF SelectFirst, dataVars, choiceVars
    <2>4. QED
      BY <1>3, <2>1, <2>2, <2>3
  <1>9. ASSUME FollowList PROVE Keep /\ Nav /\ Rest
    <2>1. filteredProducts # <<>> /\ selected' = filteredProducts[1].id /\ ShowHome
      BY <1>9 DEF FollowList, setSelectedProductId
    <2>2. filteredProducts \in Seq(Item)
      BY <1>2, FilteredType
    <2>3. filteredProducts[1].id \in Products
      BY <2>1, <2>2, IdsType DEF Item
    <2>4. Keep /\ UNCHANGED <<typed, favorites, write>>
      BY <1>2, <1>9 DEF FollowList, dataVars, choiceVars
    <2>5. QED
      BY <1>3, <2>1, <2>3, <2>4
  <1>10. ASSUME NEW p \in Products, toggleFavorite(p) PROVE Keep /\ Nav /\ Rest
    <2>1. Keep /\ Nav /\ UNCHANGED <<typed, selected, write>>
      BY <1>1, <1>10, Moved DEF toggleFavorite, choiceVars
    <2>2. favorites' \subseteq Products
      BY <1>3, <1>10 DEF toggleFavorite
    <2>3. QED
      BY <1>3, <2>1, <2>2
  <1>11. ASSUME NEW p \in Products, handleSelectProduct(p) PROVE Keep /\ Nav /\ Rest
    <2>1. Keep /\ Nav /\ selected' = p /\ UNCHANGED <<typed, favorites, write>>
      BY <1>1, <1>11, Moved DEF handleSelectProduct, setSelectedProductId, choiceVars
    <2>2. QED
      BY <1>3, <2>1
  <1>12. Keep /\ Nav /\ Rest
    BY <1>4, <1>5, <1>6, <1>7, <1>8, <1>9, <1>10, <1>11, Zenon
  <1>13. NavInv'
    BY <1>1, <1>12, NavKeeps, Zenon
  <1>14. activeTab' = activeTab
    BY <1>12 DEF ShowHome, Browse, navVars
  <1>15. AllLists'
    BY <1>1, <1>12, SameLists
  <1>16. DisplayIsFetched'
    BY <1>1, <1>12, <1>14 DEF DisplayIsFetched, Mounted, key
  <1>17. RestOK'
    <2>1. key' = key /\ UNCHANGED rowVars /\ catalog' = catalog
      BY <1>12 DEF key, catalog, rowVars
    <2>2. DeletedIsGone'
      BY <1>1, <1>12 DEF RestOK, DeletedIsGone, rowVars
    <2>3. QED
      BY <1>1, <1>12, <2>1, <2>2 DEF RestOK, rowVars
  <1>18. QED
    BY <1>13, <1>15, <1>16, <1>17, InPartsNext, Zenon

LEMMA TabSteps ==
    ASSUME IInv,
           \/ Listen \/ \E tab \in Tabs : Navigate(tab)
           \/ \E p \in Products : PaletteSelects(p)
    PROVE  IInv'
  <1>1. NavInv /\ RestOK /\ AllLists /\ DisplayIsFetched
    BY InParts
  <1> DEFINE Keep == /\ moves' \in 0 .. MaxMoves /\ Mounting
                     /\ selected' \in Products \cup {None}
                     /\ UNCHANGED <<rowVars, searchQuery, teamFilters, favorites,
                                    write, deleted>>
             Nav == HashChange \/ \E tab \in Tabs : setActiveTab(tab)
  <1>2. moves \in 0 .. MaxMoves /\ selected \in Products \cup {None} /\ Home \in Tabs
    BY <1>1, TabsAssumption DEF RestOK
  <1>3. ASSUME Listen PROVE Keep /\ Nav
    BY <1>2, <1>3 DEF Listen, dataVars
  <1>4. ASSUME NEW tab \in Tabs, Navigate(tab) PROVE Keep /\ Nav
    BY <1>1, <1>2, <1>4, Moved DEF Navigate
  <1>5. ASSUME NEW p \in Products, PaletteSelects(p) PROVE Keep /\ Nav
    BY <1>1, <1>2, <1>5, Moved DEF PaletteSelects
  <1>6. Keep /\ Nav
    BY <1>3, <1>4, <1>5, Zenon
  <1>7. NavInv'
    BY <1>1, <1>6, NavKeeps, Zenon
  <1>8. activeTab' \in Tabs
    BY <1>7 DEF NavInv, NavTypeOK
  <1>9. AllLists' /\ DisplayIsFetched' /\ typed' \in BOOLEAN
    BY <1>6, <1>7, <1>8, Tabbing
  <1>10. RestOK'
    <2>1. key' = key /\ catalog' = catalog
      BY <1>6 DEF key, catalog, rowVars
    <2>2. QED
      BY <1>1, <1>6, <1>9, <2>1 DEF RestOK, rowVars, DeletedIsGone
  <1>11. QED
    BY <1>7, <1>9, <1>10, InPartsNext

\* The backend's commits, this user's and the others'.
LEMMA CatalogSteps ==
    ASSUME IInv, Commits \/ OthersWrite
    PROVE  IInv'
  <1>1. NavInv /\ RestOK /\ AllLists /\ DisplayIsFetched
    BY InParts
  <1>2. UNCHANGED <<navVars, moves, choiceVars, favorites, selected, lists, deleted>>
    BY DEF Commits, OthersWrite
  <1>3. NavInv'
    BY <1>1, <1>2, NavKeeps, Zenon
  <1>4. AllLists'
    BY <1>1, <1>2, SameLists
  <1>5. DisplayIsFetched'
    BY <1>1, <1>2 DEF DisplayIsFetched, Mounted, key, navVars, choiceVars
  <1>6. UNCHANGED <<moves, typed, searchQuery, teamFilters, favorites, selected, deleted>>
        /\ key' = key
    BY <1>2 DEF choiceVars, key
  <1> DEFINE c == catalog
  <1>61. c \in Contents /\ DOMAIN c \subseteq Products /\ \A p \in DOMAIN c : c[p] \in Names
    BY <1>1, CatalogType DEF RestOK, Contents
  \* A catalog after another.
  <1>62. ASSUME NEW d, catalogs' = Append(catalogs, d), NEW S \in SUBSET Products,
                d \in [S -> Names]
         PROVE  /\ catalogs' \in Seq(Contents) \ {<<>>} /\ DOMAIN (catalog') = S
    <2>1. d \in Contents
      BY <1>62 DEF Contents
    <2>2. catalogs \in Seq(Contents)
      BY <1>1 DEF RestOK
    <2>3. /\ Append(catalogs, d) \in Seq(Contents) /\ Append(catalogs, d) # <<>>
          /\ Last(Append(catalogs, d)) = d
      BY <2>1, <2>2 DEF Last
    <2>4. catalog' = d
      BY <1>62, <2>3 DEF catalog
    <2>5. QED
      BY <1>62, <2>3, <2>4
  <1> DEFINE Fit == /\ catalogs' \in Seq(Contents) \ {<<>>}
                    /\ gone' \subseteq Products \ DOMAIN (catalog') /\ gone \subseteq gone'
  <1>63. ASSUME NEW p \in Products, NEW n \in Names, AddRow(p, n) PROVE Fit
    <2> DEFINE d == [q \in DOMAIN c \cup {p} |-> IF q = p THEN n ELSE c[q]]
               S == DOMAIN c \cup {p}
    <2>1. d \in [S -> Names] /\ S \in SUBSET Products
      BY <1>61
    <2>2. catalogs' = Append(catalogs, d) /\ gone' = gone /\ p \notin gone
      BY <1>63 DEF AddRow
    <2> HIDE DEF d
    <2>3. catalogs' \in Seq(Contents) \ {<<>>} /\ DOMAIN (catalog') = S
      BY <1>62, <2>1, <2>2
    <2>4. QED
      BY <1>1, <2>2, <2>3 DEF RestOK
  <1>64. ASSUME NEW p \in Products, NEW n \in Names, Rename(p, n) PROVE Fit
    <2> DEFINE d == [c EXCEPT ![p] = n]
    <2>1. d \in [DOMAIN c -> Names]
      BY <1>61 DEF Contents
    <2>2. catalogs' = Append(catalogs, d) /\ gone' = gone
      BY <1>64 DEF Rename
    <2> HIDE DEF d
    <2>3. catalogs' \in Seq(Contents) \ {<<>>} /\ DOMAIN (catalog') = DOMAIN c
      BY <1>61, <1>62, <2>1, <2>2
    <2>4. QED
      BY <1>1, <2>2, <2>3 DEF RestOK
  <1>65. ASSUME NEW p \in Products, NEW n, KeepName(p, n) PROVE Fit
    <2>1. catalogs' = catalogs /\ gone' = gone
      BY <1>65 DEF KeepName
    <2>2. catalog' = catalog
      BY <2>1 DEF catalog
    <2>3. QED
      BY <1>1, <2>1, <2>2 DEF RestOK
  <1>66. ASSUME NEW p \in Products, DropRow(p) PROVE Fit /\ p \in gone'
    <2> DEFINE d == [q \in DOMAIN c \ {p} |-> c[q]]
               S == DOMAIN c \ {p}
    <2>1. d \in [S -> Names] /\ S \in SUBSET Products
      BY <1>61
    <2>2. catalogs' = Append(catalogs, d) /\ gone' = gone \cup {p}
      BY <1>66 DEF DropRow
    <2> HIDE DEF d
    <2>3. catalogs' \in Seq(Contents) \ {<<>>} /\ DOMAIN (catalog') = S
      BY <1>62, <2>1, <2>2
    <2>4. QED
      BY <1>1, <2>2, <2>3 DEF RestOK
  <1> HIDE DEF c, Fit
  <1>7. CASE Commits
    <2>1. write \in Writes
      BY <1>1, <1>7 DEF RestOK, Commits, NoWrite
    <2>2. /\ others' = others /\ write' \in Writes
          /\ write'.op = write.op /\ write'.product = write.product
      BY <1>7, <2>1 DEF Commits, Writes
    <2>3. write.product \in Products /\ write.name \in Names
      BY <2>1 DEF Writes
    <2>4. Fit /\ (write.op = "delete" => write.product \in gone')
      BY <1>7, <1>63, <1>64, <1>65, <1>66, <2>3 DEF Commits
    <2>5. DeletedIsGone'
      BY <2>2, <2>4 DEF DeletedIsGone
    <2>6. deleted' \subseteq gone'
      BY <1>1, <1>6, <2>4 DEF RestOK, Fit
    <2>7. RestOK'
      <3>1. write' \in Writes \cup {NoWrite}
        BY <2>2
      <3>2. QED
        BY <1>1, <1>6, <2>2, <2>4, <2>5, <2>6, <3>1, Zenon DEF RestOK, Fit
    <2>8. QED
      BY <1>3, <1>4, <1>5, <2>7, InPartsNext, Zenon
  <1>8. CASE OthersWrite
    <2>1. Fit
      BY <1>8, <1>63, <1>64, <1>66 DEF OthersWrite
    <2>2. others' \in 0 .. MaxOthers /\ write' = write
      BY <1>1, <1>8, RegistryAssumption DEF RestOK, OthersWrite
    <2>3. DeletedIsGone' /\ deleted' \subseteq gone'
      BY <1>1, <1>6, <2>1, <2>2 DEF RestOK, DeletedIsGone, Fit
    <2>4. RestOK'
      BY <1>1, <1>6, <2>1, <2>2, <2>3, Zenon DEF RestOK, Fit
    <2>5. QED
      BY <1>3, <1>4, <1>5, <2>4, InPartsNext, Zenon
  <1>9. QED
    BY <1>7, <1>8

\* The answers: every list that may show what was deleted is marked.
LEMMA AnswerSteps ==
    ASSUME IInv, Created \/ Saved \/ Deleted
    PROVE  IInv'
  <1>1. NavInv /\ RestOK /\ AllLists /\ DisplayIsFetched
    BY InParts
  <1>2. /\ write' = NoWrite /\ lists' = Invalidated /\ (ShowHome \/ UNCHANGED navVars)
        /\ UNCHANGED <<dataVars, choiceVars, favorites>>
    BY DEF Created, Saved, Deleted, setSelectedProductId
  <1>3. write \in Writes /\ write.product \in Products
    BY <1>1 DEF RestOK, Created, Saved, Deleted, NoWrite, Writes
  <1>4. selected' \in Products \cup {None}
    BY <1>1, <1>3 DEF Created, Saved, Deleted, setSelectedProductId, RestOK
  <1>5. deleted' \subseteq gone
    BY <1>1 DEF Created, Saved, Deleted, RestOK, DeletedIsGone
  <1>6. NavInv'
    BY <1>1, <1>2, NavKeeps, Zenon
  <1>7. key' = key /\ key \in Keys /\ activeTab' = activeTab
    BY <1>1, <1>2 DEF choiceVars, key, RestOK, ShowHome, navVars
  <1>8. /\ lists' \in [Keys -> List]
        /\ \A k \in Keys : ListOK(lists'[k]) /\ ReadInOrder(lists'[k])
        /\ \A k \in Keys : DeletionsMarked(lists[k])'
        /\ key \in Keys /\ Mounted => lists'[key].fetch # "none"
    BY <1>1, <1>2, InvalidatedKeeps DEF AllLists
  <1>9. AllLists'
    BY <1>8 DEF AllLists, ListInv
  <1>10. DisplayIsFetched'
    BY <1>7, <1>8 DEF DisplayIsFetched, Mounted
  <1>11. RestOK'
    <2>1. UNCHANGED <<catalogs, gone, others, moves, typed, searchQuery, favorites>>
      BY <1>2 DEF dataVars, rowVars, choiceVars
    <2>2. DeletedIsGone'
      BY <1>2 DEF DeletedIsGone, NoWrite
    <2>3. catalog' = catalog
      BY <2>1 DEF catalog
    <2>4. QED
      BY <1>1, <1>2, <1>4, <1>5, <1>7, <2>1, <2>2, <2>3 DEF RestOK
  <1>12. QED
    BY <1>6, <1>9, <1>10, <1>11, InPartsNext, Zenon

LEMMA InitIInv == Init => IInv
  <1> SUFFICES ASSUME Init PROVE IInv
    OBVIOUS
  <1>1. NavInv
    BY InitNav DEF Init
  <1>2. key \in Keys
    BY DEF Init, key, Keys
  <1>3. RestOK
    <2>1. /\ catalogs \in Seq(Contents) \ {<<>>} /\ favorites \subseteq Products
          /\ gone \subseteq Products \ DOMAIN catalog
      BY RegistryAssumption DEF Init
    <2>2. 0 \in 0 .. MaxOthers /\ 0 \in 0 .. MaxMoves
      BY RegistryAssumption
    <2>3. DeletedIsGone
      BY DEF Init, DeletedIsGone, NoWrite
    <2>4. QED
      BY <1>2, <2>1, <2>2, <2>3 DEF Init, RestOK
  <1>4. /\ ListInv(NoList) /\ NoList \in List /\ NoList.invalid = FALSE
        /\ ListInv(Reload(NoList)) /\ Reload(NoList) \in List
        /\ Reload(NoList).invalid = NoList.invalid
    BY EmptyList, Reloaded, ReloadFields DEF NoList
  <1>5. \A k \in Keys : lists[k] \in {NoList, Reload(NoList)}
    BY DEF Init
  <1>6. lists \in [Keys -> List]
    BY <1>4 DEF Init
  <1>7. AllLists
    BY <1>4, <1>5, <1>6 DEF AllLists
  <1>8. DisplayIsFetched
    <2>1. lists[key].invalid = FALSE
      BY <1>2, <1>4, <1>5
    <2>2. QED
      BY <2>1 DEF DisplayIsFetched
  <1>9. QED
    BY <1>1, <1>3, <1>7, <1>8, InParts, Zenon

LEMMA NextIInv ==
    ASSUME IInv, [Next]_vars
    PROVE  IInv'
  <1>1. NavInv /\ RestOK /\ AllLists /\ DisplayIsFetched
    BY InParts
  <1>2. key \in Keys
    BY <1>1 DEF RestOK
  <1>3. CASE UNCHANGED vars
    <2>1. /\ moves' = moves /\ lists' = lists
          /\ UNCHANGED <<navVars, rowVars, choiceVars, favorites, selected, write, deleted>>
      BY <1>3 DEF vars, dataVars
    <2>2. moves' \in 0 .. MaxMoves
      BY <1>1, <2>1 DEF RestOK
    <2>3. NavInv' /\ RestOK'
      BY <1>1, <2>1, <2>2, SameRest
    <2>4. AllLists'
      BY <1>1, <2>1, SameLists
    <2>5. DisplayIsFetched'
      BY <1>1, <2>1 DEF DisplayIsFetched, Mounted, key, navVars, choiceVars
    <2>6. QED
      BY <2>3, <2>4, <2>5, InPartsNext, Zenon
  <1>4. CASE Query
    BY <1>4, ListSteps DEF Query
  <1>5. CASE Failures
    BY <1>5, ListSteps, HomeSteps DEF Failures
  <1>6. CASE Effects
    BY <1>6, HomeSteps DEF Effects
  <1>7. CASE Debounced
    BY <1>7, ChoiceSteps
  <1>8. CASE Listen
    BY <1>8, TabSteps
  <1>9. CASE Answers
    BY <1>9, CatalogSteps, AnswerSteps DEF Answers
  <1>10. CASE OthersWrite
    BY <1>10, CatalogSteps
  <1>11. CASE User
    <2>1. CASE LoadMore \/ Retry
      BY <1>2, <2>1, ListSteps
    <2>2. CASE clearAllFilters \/ \E t \in Teams : toggleFilter(t)
      BY <2>2, ChoiceSteps
    <2>3. CASE Type \/ Ask \/ History
      BY <2>3, HomeSteps
    <2>4. CASE \E p \in Products : toggleFavorite(p) \/ handleSelectProduct(p)
      BY <2>4, HomeSteps
    <2>5. CASE (\E tab \in Tabs : Navigate(tab)) \/ \E p \in Products : PaletteSelects(p)
      BY <2>5, TabSteps
    <2>6. QED
      BY <1>11, <2>1, <2>2, <2>3, <2>4, <2>5, Zenon DEF User
  <1>12. QED
    BY <1>3, <1>4, <1>5, <1>6, <1>7, <1>8, <1>9, <1>10, <1>11, Zenon DEF Next

-----------------------------------------------------------------------------
(* The results                                                             *)

\* The invariant of the registry, whatever is asked, answered and invalidated,
\* in whatever order.
THEOREM Invariance == Spec => []IInv
  BY InitIInv, NextIInv, PTL DEF Spec

\* Every list is of pages, fetched one at a time.
THEOREM TypeCorrect == Spec => []TypeOK
  <1>1. IInv => TypeOK
    BY DEF IInv
  <1>2. QED
    BY <1>1, Invariance, PTL

\* The tab on display is the one that the page's address names, or a
\* hashchange is on its way to the listener of App.
THEOREM AddressNames == Spec => []AddressNamesTab
  <1>1. IInv => AddressNamesTab
    BY DEF IInv
  <1>2. QED
    BY <1>1, Invariance, PTL

\* The pages of one listing are its beginning: offsets and getNextPageParam
\* repeat nothing, leave nothing out and end with the last of it.
THEOREM PagesBegin == Spec => []PagesAreAPrefix
  <1>1. IInv => PagesAreAPrefix
    BY DEF IInv, ReadInOrder, PagesAreAPrefix
  <1>2. QED
    BY <1>1, Invariance, PTL

\* Whatever is created, renamed and deleted between two pages, and however old
\* the pages of a cache are: a product that stays is missing from a complete
\* list only if it moved up, and there twice only if it moved down.
THEOREM StayingAreListed == Spec => []ListedOnce
  <1>1. IInv => ListedOnce
    <2> SUFFICES ASSUME IInv, NEW k \in Keys PROVE StayingListed(lists[k].pages)
      BY DEF ListedOnce
    <2>1. lists[k] \in List /\ Tracks(lists[k].pages)
      BY DEF IInv, TypeOK, ReadInOrder
    <2>2. lists[k].pages \in Seq(Page)
      BY <2>1 DEF List
    <2>3. QED
      BY <2>1, <2>2, TrackedIsListed
  <1>2. QED
    BY <1>1, Invariance, PTL

\* What this user deleted has left the list on display when it rests, but for
\* pages of a cache and the two ways in which the invalidation lets a list
\* through.
THEOREM DeletedLeave == Spec => []DeletedLeaves
  <1>1. IInv => DeletedLeaves
    <2> DEFINE l == lists[key]
    <2> SUFFICES ASSUME IInv, Mounted, l.fetch = "none", ~l.error, ~l.excused,
                        NEW i \in DOMAIN l.pages, ~l.pages[i].cached
                 PROVE  ids(Cut(l.pages[i])) \cap deleted = {}
      BY DEF DeletedLeaves
    <2>1. AllLists /\ RestOK /\ DisplayIsFetched
      BY InParts
    <2>2. key \in Keys /\ l \in List
      BY <2>1 DEF AllLists, RestOK
    <2>3. ~l.invalid
      BY <2>1 DEF DisplayIsFetched
    <2>4. Clean(l.pages)
      BY <2>1, <2>2, <2>3 DEF AllLists, ListInv, DeletionsMarked
    <2>5. l.pages[i] \in Page
      BY <2>2 DEF List
    <2>6. l.pages[i].listing \in Seq([id : Products \ deleted, name : Names])
      BY <2>4 DEF Clean
    <2>7. Cut(l.pages[i]) \in Seq([id : Products \ deleted, name : Names])
      BY <2>5, <2>6, CutType
    <2>8. ids(Cut(l.pages[i])) \subseteq Products \ deleted
      BY <2>7, IdsType
    <2>9. QED
      BY <2>8
  <1>2. QED
    BY <1>1, Invariance, PTL
=============================================================================
