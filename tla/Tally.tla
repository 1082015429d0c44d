-------------------------------- MODULE Tally ---------------------------------
(***************************************************************************)
(* Counting by tokens.  Upper counts the frames that all holders have of a *)
(* tree as the number of pairs <<holder, k>> with k up to the holder's     *)
(* amount.  If holders change their amounts, the number of pairs changes   *)
(* by as much, however many holders there are.                             *)
(***************************************************************************)
EXTENDS Integers, FiniteSets, FiniteSetTheorems, WellFoundedInduction, TLAPS

\* One pair for each unit of each holder's amount, which is at most N.
Pairs(H, N, a) == {d \in H \X (1 .. N) : d[2] <= a[d[1]]}

\* The pairs of one holder.
Units(h, k) == {h} \X (1 .. k)

LEMMA UnitsCount ==
    ASSUME NEW h, NEW k \in Nat
    PROVE  IsFiniteSet(Units(h, k)) /\ Cardinality(Units(h, k)) = k
<1>1. IsFiniteSet(1 .. k) /\ Cardinality(1 .. k) = k
  BY FS_Interval
<1>2. IsFiniteSet({h}) /\ Cardinality({h}) = 1
  BY FS_Singleton
<1>3. /\ IsFiniteSet({h} \X (1 .. k))
      /\ Cardinality({h} \X (1 .. k)) = Cardinality({h}) * Cardinality(1 .. k)
  <2> DEFINE A == {h}
             B == 1 .. k
  <2>1. IsFiniteSet(A) /\ IsFiniteSet(B)
    BY <1>1, <1>2
  <2> HIDE DEF A, B
  <2>2. IsFiniteSet(A \X B) /\ Cardinality(A \X B) = Cardinality(A) * Cardinality(B)
    BY <2>1, FS_Product
  <2> QED BY <2>2 DEF A, B
<1> QED BY <1>1, <1>2, <1>3 DEF Units

\* The pairs of one holder and those of the others.
LEMMA OneHolder ==
    ASSUME NEW H, NEW N \in Nat, NEW a \in [H -> 0 .. N], NEW h \in H
    PROVE  LET rest == {d \in Pairs(H, N, a) : d[1] # h}
           IN  /\ Pairs(H, N, a) = rest \cup Units(h, a[h])
               /\ rest \cap Units(h, a[h]) = {}
<1> DEFINE rest == {d \in Pairs(H, N, a) : d[1] # h}
<1>1. ASSUME NEW d \in Pairs(H, N, a), d[1] = h
      PROVE  d \in Units(h, a[h])
  <2>1. PICK k \in 1 .. N : d = <<h, k>> /\ k <= a[h]
    BY <1>1 DEF Pairs
  <2> QED BY <2>1 DEF Units
<1>2. ASSUME NEW d \in Units(h, a[h])
      PROVE  d \in Pairs(H, N, a) /\ d[1] = h
  <2>1. PICK k \in 1 .. a[h] : d = <<h, k>>
    BY <1>2 DEF Units
  <2>2. k \in 1 .. N /\ k <= a[h]
    OBVIOUS
  <2> QED BY <2>1, <2>2 DEF Pairs
<1> QED BY <1>1, <1>2

\* The holders in D, and no others, change their amounts from a to b.
Update(H, N, a, b, D) ==
    /\ N \in Nat /\ D \subseteq H
    /\ a \in [H -> 0 .. N] /\ b \in [H -> 0 .. N] /\ IsFiniteSet(Pairs(H, N, a))
    /\ \A x \in H \ D : b[x] = a[x]

\* A holder changes its amount.
LEMMA OneAmount ==
    ASSUME NEW H, NEW N, NEW a, NEW b, NEW h, Update(H, N, a, b, {h})
    PROVE  /\ IsFiniteSet(Pairs(H, N, b))
           /\ Cardinality(Pairs(H, N, b)) = Cardinality(Pairs(H, N, a)) - a[h] + b[h]
           /\ Cardinality(Pairs(H, N, a)) \in Nat /\ Cardinality(Pairs(H, N, b)) \in Nat
<1> DEFINE P == Pairs(H, N, a)
           Q == Pairs(H, N, b)
           rest == {d \in P : d[1] # h}
           rest2 == {d \in Q : d[1] # h}
<1>1. /\ N \in Nat /\ h \in H /\ a \in [H -> 0 .. N] /\ b \in [H -> 0 .. N]
      /\ IsFiniteSet(P) /\ \A x \in H \ {h} : b[x] = a[x]
  BY DEF Update
<1>2. rest = rest2
  BY <1>1 DEF Pairs
<1>3. P = rest \cup Units(h, a[h]) /\ rest \cap Units(h, a[h]) = {}
  BY <1>1, OneHolder
<1>4. Q = rest2 \cup Units(h, b[h]) /\ rest2 \cap Units(h, b[h]) = {}
  BY <1>1, OneHolder
<1>5. IsFiniteSet(rest) /\ Cardinality(rest) \in Nat
  <2>1. rest \in SUBSET P
    OBVIOUS
  <2> QED BY <1>1, <2>1, FS_Subset, FS_CardinalityType
<1>6. /\ IsFiniteSet(Units(h, a[h])) /\ Cardinality(Units(h, a[h])) = a[h]
      /\ IsFiniteSet(Units(h, b[h])) /\ Cardinality(Units(h, b[h])) = b[h]
      /\ a[h] \in Nat /\ b[h] \in Nat
  <2>1. a[h] \in Nat /\ b[h] \in Nat
    BY <1>1
  <2> QED BY <2>1, UnitsCount
<1>7. Cardinality({}) = 0
  BY FS_EmptySet
<1> HIDE DEF rest, rest2, P, Q
<1>8. Cardinality(P) = Cardinality(rest) + a[h]
  <2>1. Cardinality(rest \cup Units(h, a[h]))
           = Cardinality(rest) + Cardinality(Units(h, a[h])) - Cardinality(rest \cap Units(h, a[h]))
    BY <1>5, <1>6, FS_Union
  <2>2. Cardinality(P) = Cardinality(rest) + Cardinality(Units(h, a[h])) - 0
    BY <2>1, <1>3, <1>7
  <2> QED BY <2>2, <1>5, <1>6
<1>9. IsFiniteSet(Q) /\ Cardinality(Q) = Cardinality(rest) + b[h]
  <2>1. /\ IsFiniteSet(rest2 \cup Units(h, b[h]))
        /\ Cardinality(rest2 \cup Units(h, b[h]))
           = Cardinality(rest2) + Cardinality(Units(h, b[h]))
                - Cardinality(rest2 \cap Units(h, b[h]))
    BY <1>2, <1>5, <1>6, FS_Union
  <2>2. Cardinality(Q) = Cardinality(rest) + Cardinality(Units(h, b[h])) - 0
    BY <2>1, <1>2, <1>4, <1>7
  <2> QED BY <2>1, <2>2, <1>4, <1>5, <1>6
<1>10. /\ Cardinality(Q) = Cardinality(P) - a[h] + b[h]
       /\ Cardinality(P) \in Nat /\ Cardinality(Q) \in Nat
  BY <1>5, <1>6, <1>8, <1>9
<1> QED BY <1>9, <1>10 DEF Q, P

\* Two holders change their amounts.
LEMMA TwoAmounts ==
    ASSUME NEW H, NEW N, NEW a, NEW b, NEW g, NEW h, g # h, Update(H, N, a, b, {g, h})
    PROVE  /\ IsFiniteSet(Pairs(H, N, b))
           /\ Cardinality(Pairs(H, N, a)) \in Nat /\ Cardinality(Pairs(H, N, b)) \in Nat
           /\ Cardinality(Pairs(H, N, b))
                = Cardinality(Pairs(H, N, a)) - a[g] - a[h] + b[g] + b[h]
<1> DEFINE c == [a EXCEPT ![g] = b[g]]
<1>1. Update(H, N, a, c, {g})
  BY DEF Update
<1>2. \A x \in H : c[x] = IF x = g THEN b[g] ELSE a[x]
  BY DEF Update
<1>3. /\ c[g] = b[g] /\ c[h] = a[h]
      /\ a[g] \in Nat /\ a[h] \in Nat /\ b[g] \in Nat /\ b[h] \in Nat
  BY DEF Update
<1> HIDE DEF c
<1>4. /\ IsFiniteSet(Pairs(H, N, c))
      /\ Cardinality(Pairs(H, N, c)) = Cardinality(Pairs(H, N, a)) - a[g] + c[g]
      /\ Cardinality(Pairs(H, N, a)) \in Nat /\ Cardinality(Pairs(H, N, c)) \in Nat
  BY <1>1, OneAmount
<1>5. Update(H, N, c, b, {h})
  BY <1>1, <1>2, <1>4 DEF Update
<1>6. /\ IsFiniteSet(Pairs(H, N, b))
      /\ Cardinality(Pairs(H, N, b)) = Cardinality(Pairs(H, N, c)) - c[h] + b[h]
      /\ Cardinality(Pairs(H, N, b)) \in Nat
  BY <1>5, OneAmount
<1> QED BY <1>3, <1>4, <1>6

\* Three holders change their amounts.
LEMMA ThreeAmounts ==
    ASSUME NEW H, NEW N, NEW a, NEW b, NEW g, NEW h, NEW k, g # h, h # k, g # k,
           Update(H, N, a, b, {g, h, k})
    PROVE  /\ IsFiniteSet(Pairs(H, N, b))
           /\ Cardinality(Pairs(H, N, a)) \in Nat /\ Cardinality(Pairs(H, N, b)) \in Nat
           /\ Cardinality(Pairs(H, N, b))
                = Cardinality(Pairs(H, N, a)) - a[g] - a[h] - a[k] + b[g] + b[h] + b[k]
<1> DEFINE c == [a EXCEPT ![k] = b[k]]
<1>1. Update(H, N, a, c, {k})
  BY DEF Update
<1>2. \A x \in H : c[x] = IF x = k THEN b[k] ELSE a[x]
  BY DEF Update
<1>3. /\ c[g] = a[g] /\ c[h] = a[h] /\ c[k] = b[k]
      /\ a[g] \in Nat /\ a[h] \in Nat /\ a[k] \in Nat
      /\ b[g] \in Nat /\ b[h] \in Nat /\ b[k] \in Nat
  BY DEF Update
<1> HIDE DEF c
<1>4. /\ IsFiniteSet(Pairs(H, N, c))
      /\ Cardinality(Pairs(H, N, c)) = Cardinality(Pairs(H, N, a)) - a[k] + c[k]
      /\ Cardinality(Pairs(H, N, a)) \in Nat /\ Cardinality(Pairs(H, N, c)) \in Nat
  BY <1>1, OneAmount
<1>5. Update(H, N, c, b, {g, h})
  <2>1. {g, h} \subseteq H /\ \A x \in H \ {g, h, k} : b[x] = a[x]
    BY DEF Update
  <2>2. \A x \in H \ {g, h} : b[x] = c[x]
    BY <1>2, <2>1
  <2>3. N \in Nat /\ b \in [H -> 0 .. N] /\ c \in [H -> 0 .. N]
    BY <1>1 DEF Update
  <2> QED BY <1>4, <2>1, <2>2, <2>3 DEF Update
<1>6. /\ IsFiniteSet(Pairs(H, N, b))
      /\ Cardinality(Pairs(H, N, c)) \in Nat /\ Cardinality(Pairs(H, N, b)) \in Nat
      /\ Cardinality(Pairs(H, N, b))
           = Cardinality(Pairs(H, N, c)) - c[g] - c[h] + b[g] + b[h]
  <2>1. Update(H, N, c, b, {g, h}) /\ g # h
    BY <1>5
  <2> QED BY <2>1, TwoAmounts
<1> QED BY <1>3, <1>4, <1>6

\* One, two or three holders together have at most as much as there are pairs.
LEMMA OneBounded ==
    ASSUME NEW H, NEW N, NEW a, NEW h, h \in H, Update(H, N, a, a, {h})
    PROVE  a[h] <= Cardinality(Pairs(H, N, a))
<1> DEFINE b == [x \in H |-> IF x = h THEN 0 ELSE a[x]]
<1>1. b[h] = 0 /\ a[h] \in Nat
  BY DEF Update
<1>2. Update(H, N, a, b, {h})
  BY DEF Update
<1> HIDE DEF b
<1>3. /\ Cardinality(Pairs(H, N, a)) \in Nat /\ Cardinality(Pairs(H, N, b)) \in Nat
      /\ Cardinality(Pairs(H, N, b)) = Cardinality(Pairs(H, N, a)) - a[h] + b[h]
  BY <1>2, OneAmount
<1> QED BY <1>1, <1>3

LEMMA TwoBounded ==
    ASSUME NEW H, NEW N, NEW a, NEW g, NEW h, g # h, Update(H, N, a, a, {g, h})
    PROVE  a[g] + a[h] <= Cardinality(Pairs(H, N, a))
<1> DEFINE b == [x \in H |-> IF x \in {g, h} THEN 0 ELSE a[x]]
<1>1. b[g] = 0 /\ b[h] = 0 /\ a[g] \in Nat /\ a[h] \in Nat
  BY DEF Update
<1>2. Update(H, N, a, b, {g, h})
  BY DEF Update
<1> HIDE DEF b
<1>3. /\ Cardinality(Pairs(H, N, a)) \in Nat /\ Cardinality(Pairs(H, N, b)) \in Nat
      /\ Cardinality(Pairs(H, N, b))
           = Cardinality(Pairs(H, N, a)) - a[g] - a[h] + b[g] + b[h]
  BY <1>2, TwoAmounts
<1> QED BY <1>1, <1>3

LEMMA ThreeBounded ==
    ASSUME NEW H, NEW N, NEW a, NEW g, NEW h, NEW k, g # h, h # k, g # k,
           Update(H, N, a, a, {g, h, k})
    PROVE  a[g] + a[h] + a[k] <= Cardinality(Pairs(H, N, a))
<1> DEFINE b == [x \in H |-> IF x \in {g, h, k} THEN 0 ELSE a[x]]
<1>1. b[g] = 0 /\ b[h] = 0 /\ b[k] = 0 /\ a[g] \in Nat /\ a[h] \in Nat /\ a[k] \in Nat
  BY DEF Update
<1>2. Update(H, N, a, b, {g, h, k})
  BY DEF Update
<1> HIDE DEF b
<1>3. /\ Cardinality(Pairs(H, N, a)) \in Nat /\ Cardinality(Pairs(H, N, b)) \in Nat
      /\ Cardinality(Pairs(H, N, b))
           = Cardinality(Pairs(H, N, a)) - a[g] - a[h] - a[k] + b[g] + b[h] + b[k]
  BY <1>2, ThreeAmounts
<1> QED BY <1>1, <1>3

-----------------------------------------------------------------------------
(* Sums over the elements of a finite set, as MapThenSumSet forms them. *)

LessNat == {p \in Nat \X Nat : p[1] < p[2]}

LEMMA LeastNat ==
    ASSUME NEW N \in SUBSET Nat, N # {}
    PROVE  \E x \in N : \A y \in N : x <= y
<1>1. IsWellFoundedOn(LessNat, Nat)
  BY NatLessThanWellFounded DEF OpToRel, LessNat
<1>2. \E x \in N : \A y \in N : <<y, x>> \notin LessNat
  BY <1>1, WFMin
<1>3. PICK x \in N : \A y \in N : <<y, x>> \notin LessNat
  BY <1>2
<1>4. \A y \in N : ~(y < x)
  BY <1>3 DEF LessNat
<1> QED BY <1>4

\* The element that MapThenSumSet takes out of a set.
First(s) == CHOOSE x \in s : TRUE

\* The function that MapThenSumSet applies to K.
Sums(K, v, f) == f = [s \in SUBSET K |-> IF s = {} THEN 0 ELSE v[First(s)] + f[s \ {First(s)}]]

\* The sum of the sizes of disjoint parts is the size of their union.
LEMMA PartsSum ==
    ASSUME NEW K, IsFiniteSet(K), NEW F, IsFiniteSet(F), NEW part \in [K -> SUBSET F],
           \A j, k \in K : j # k => part[j] \cap part[k] = {},
           NEW v, \A k \in K : v[k] = Cardinality(part[k])
    PROVE  /\ \E f : Sums(K, v, f)
           /\ \A f : Sums(K, v, f) => f[K] = Cardinality(UNION {part[k] : k \in K})
<1> DEFINE All(s) == UNION {part[k] : k \in s}
           g == [s \in SUBSET K |-> Cardinality(All(s))]
<1>1. ASSUME NEW s \in SUBSET K
      PROVE  g[s] = IF s = {} THEN 0 ELSE v[First(s)] + g[s \ {First(s)}]
  <2> DEFINE x == First(s)
             r == s \ {x}
  <2>1. CASE s = {}
    <3>1. All(s) = {}
      BY <2>1
    <3> QED BY <2>1, <3>1, FS_EmptySet
  <2>2. CASE s # {}
    <3>1. x \in s /\ r \in SUBSET K
      BY <2>2 DEF First
    <3> HIDE DEF x
    <3>2. All(s) = part[x] \cup All(r) /\ part[x] \cap All(r) = {}
      BY <3>1
    <3>3. IsFiniteSet(part[x]) /\ IsFiniteSet(All(r))
      <4>1. part[x] \in SUBSET F /\ All(r) \in SUBSET F
        BY <3>1
      <4> QED BY <4>1, FS_Subset
    <3>4. Cardinality(All(s)) = Cardinality(part[x]) + Cardinality(All(r))
      <4> HIDE DEF All, r
      <4>1. Cardinality(part[x] \cup All(r)) =
               Cardinality(part[x]) + Cardinality(All(r)) - Cardinality(part[x] \cap All(r))
        BY ONLY <3>3, FS_Union
      <4>2. Cardinality(part[x] \cap All(r)) = 0
        BY <3>2, FS_EmptySet
      <4>3. Cardinality(part[x]) \in Nat /\ Cardinality(All(r)) \in Nat
        BY <3>3, FS_CardinalityType
      <4>4. Cardinality(All(s)) = Cardinality(part[x] \cup All(r))
        BY <3>2
      <4> QED BY ONLY <4>1, <4>2, <4>3, <4>4
    <3>5. g[s] = Cardinality(All(s)) /\ g[r] = Cardinality(All(r)) /\ v[x] = Cardinality(part[x])
      BY <3>1
    <3> HIDE DEF g, All, r
    <3>6. g[s] = v[x] + g[r]
      BY <3>4, <3>5
    <3> QED BY <2>2, <3>6 DEF x, r
  <2> QED BY <2>1, <2>2
<1>2. Sums(K, v, g)
  <2>1. g = [s \in SUBSET K |-> g[s]]
    OBVIOUS
  <2> HIDE DEF g
  <2> QED BY <1>1, <2>1 DEF Sums
<1>3. ASSUME NEW f, Sums(K, v, f) PROVE f[K] = g[K]
  <2> HIDE DEF g
  <2> DEFINE Bad == {s \in SUBSET K : f[s] # g[s]}
             N   == {Cardinality(s) : s \in Bad}
  <2>1. \A s \in SUBSET K : /\ f[s] = IF s = {} THEN 0 ELSE v[First(s)] + f[s \ {First(s)}]
                            /\ g[s] = IF s = {} THEN 0 ELSE v[First(s)] + g[s \ {First(s)}]
    BY <1>1, <1>3 DEF Sums
  <2>2. \A s \in SUBSET K : IsFiniteSet(s) /\ Cardinality(s) \in Nat
    BY FS_Subset, FS_CardinalityType
  <2>3. SUFFICES ASSUME Bad # {} PROVE FALSE
    OBVIOUS
  <2>4. N \in SUBSET Nat /\ N # {}
    BY <2>2, <2>3
  <2>5. PICK s \in Bad : \A r \in Bad : Cardinality(s) <= Cardinality(r)
    <3>1. \E n \in N : \A m \in N : n <= m
      <4> HIDE DEF N
      <4> QED BY <2>4, LeastNat
    <3> QED BY <3>1
  <2>6. s \in SUBSET K /\ s # {} /\ First(s) \in s /\ s \ {First(s)} \in SUBSET K
    BY <2>1, <2>5 DEF First
  <2>7. f[s \ {First(s)}] # g[s \ {First(s)}]
    BY <2>1, <2>5, <2>6
  <2>8. Cardinality(s) <= Cardinality(s \ {First(s)})
    BY <2>5, <2>6, <2>7
  <2>9. Cardinality(s \ {First(s)}) = Cardinality(s) - 1 /\ Cardinality(s) \in Nat
    BY <2>2, <2>6, FS_RemoveElement
  <2> QED BY <2>8, <2>9
<1>4. g[K] = Cardinality(All(K))
  OBVIOUS
<1> QED BY <1>2, <1>3, <1>4
=============================================================================
