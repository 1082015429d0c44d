---------------------------- MODULE PoolProofs -----------------------------
(***************************************************************************)
(* FramePool never gives away more frames than a tree has: what is free,   *)
(* what the clients have and what they are about to get from calls in      *)
(* progress never exceeds the tree, for every number of trees and threads  *)
(* and across crashes.                                                     *)
(***************************************************************************)
EXTENDS FramePool, Tally

\* The capacities and requests that make sense.
Sound ==
    /\ Capacity \in [DOMAIN Capacity -> Nat]
    /\ \A r \in Calls : r.op \in {"get", "get_at", "put"} => r.n \in Nat
    /\ \A r \in Calls : r.op = "put" => r.tree \in Trees

States == {"idle", "called", "rejected", "served"}

PoolType ==
    /\ free \in [Trees -> Nat] /\ held \in [Trees -> Nat]
    /\ state \in [Threads -> States]
    /\ DOMAIN call = Threads /\ call = [t \in Threads |-> call[t]]
    /\ DOMAIN from = Threads /\ from = [t \in Threads |-> from[t]]
    /\ \A t \in Threads : state[t] # "idle" => call[t] \in Calls

\* What the clients get of tree i from the calls in progress, as pairs.
Dues(i) == [t \in Threads |-> Given(t, i)]

Due(i) == Pairs(Threads, Capacity[i], Dues(i))

\* No frame is given away that the tree does not have.
Balanced ==
    \A i \in Trees :
        /\ Dues(i) \in [Threads -> 0 .. Capacity[i]] /\ IsFiniteSet(Due(i))
        /\ free[i] + held[i] + Cardinality(Due(i)) <= Capacity[i]

PInv == PoolType /\ Balanced

-----------------------------------------------------------------------------

\* A call that is not in progress gives nothing.
LEMMA IdleGives ==
    ASSUME NEW i \in Trees, \A t \in Threads : Given(t, i) = 0, Sound
    PROVE  /\ Dues(i) \in [Threads -> 0 .. Capacity[i]] /\ IsFiniteSet(Due(i))
           /\ Cardinality(Due(i)) = 0
<1>1. Capacity[i] \in Nat
  BY DEF Sound, Trees
<1>2. Due(i) = {}
  <2>1. ASSUME NEW d \in Due(i) PROVE FALSE
    <3>1. d[1] \in Threads /\ d[2] \in 1 .. Capacity[i] /\ d[2] <= Dues(i)[d[1]]
      BY DEF Due, Pairs
    <3> QED BY <1>1, <3>1 DEF Dues
  <2> QED BY <2>1
<1> QED BY <1>1, <1>2, FS_EmptySet DEF Dues

\* A step of one call keeps the balance if what the clients are about to get from it,
\* what they have and what is free of each tree stay the same together.
LEMMA CallBalances ==
    ASSUME Sound, PInv, PoolType', NEW t \in Threads,
           \A u \in Threads : u # t => \A i \in Trees : Given(u, i)' = Given(u, i),
           \A i \in Trees : /\ Given(t, i)' \in Nat
                            /\ free'[i] + held'[i] + Given(t, i)'
                                 = free[i] + held[i] + Given(t, i)
    PROVE  Balanced'
<1> SUFFICES ASSUME NEW i \in Trees
             PROVE  /\ Dues(i)' \in [Threads -> 0 .. Capacity[i]] /\ IsFiniteSet(Due(i)')
                    /\ free'[i] + held'[i] + Cardinality(Due(i)') <= Capacity[i]
  BY DEF Balanced, Trees
<1> DEFINE N == Capacity[i]
           a == Dues(i)
           b == Dues(i)'
<1>1. /\ N \in Nat /\ a \in [Threads -> 0 .. N] /\ IsFiniteSet(Pairs(Threads, N, a))
      /\ free[i] + held[i] + Cardinality(Pairs(Threads, N, a)) <= N
  BY DEF Sound, PInv, Balanced, Due, Trees
<1>2. /\ free[i] \in Nat /\ held[i] \in Nat /\ free'[i] \in Nat /\ held'[i] \in Nat
  BY DEF PInv, PoolType, Trees
<1>3. a[t] = Given(t, i) /\ b[t] = Given(t, i)' /\ \A x \in Threads \ {t} : b[x] = a[x]
  BY DEF Dues
<1>4. a = [x \in Threads |-> a[x]] /\ b = [x \in Threads |-> b[x]]
  BY DEF Dues
<1>5. /\ b[t] \in Nat /\ a[t] \in Nat
      /\ free'[i] + held'[i] + b[t] = free[i] + held[i] + a[t]
  BY <1>1, <1>3
<1> HIDE DEF N, a, b
<1>6. Cardinality(Pairs(Threads, N, a)) \in Nat /\ a[t] <= Cardinality(Pairs(Threads, N, a))
  <2>1. Update(Threads, N, a, a, {t})
    BY <1>1 DEF Update
  <2> QED BY <1>1, <2>1, OneBounded, FS_CardinalityType
<1>7. b[t] <= N
  BY <1>1, <1>2, <1>5, <1>6
<1>8. b \in [Threads -> 0 .. N]
  BY <1>1, <1>3, <1>4, <1>5, <1>7
<1>9. Update(Threads, N, a, b, {t})
  BY <1>1, <1>3, <1>8 DEF Update
<1>10. /\ IsFiniteSet(Pairs(Threads, N, b)) /\ Cardinality(Pairs(Threads, N, b)) \in Nat
       /\ Cardinality(Pairs(Threads, N, b)) = Cardinality(Pairs(Threads, N, a)) - a[t] + b[t]
  BY <1>9, OneAmount
<1>11. free'[i] + held'[i] + Cardinality(Pairs(Threads, N, b)) <= N
  BY <1>1, <1>2, <1>5, <1>6, <1>10
<1>12. Due(i)' = Pairs(Threads, N, b)
  BY DEF Due, N, b
<1> QED BY <1>8, <1>10, <1>11, <1>12 DEF N, b

\* What the other calls give stays the same.
LEMMA OthersGive ==
    ASSUME NEW t \in Threads,
           \A u \in Threads : u # t => state'[u] = state[u] /\ call'[u] = call[u]
                                         /\ from'[u] = from[u]
    PROVE  \A u \in Threads : u # t => \A i \in Trees : Given(u, i)' = Given(u, i)
BY DEF Given, IsGet

-----------------------------------------------------------------------------
(* The steps. *)

LEMMA BeginBalances ==
    ASSUME Sound, PInv, NEW t \in Threads, NEW r \in Calls, Begin(t, r) \/ Reject(t, r)
    PROVE  PInv'
<1>1. /\ state[t] = "idle" /\ call'[t] = r /\ UNCHANGED <<free, from>>
      /\ \A u \in Threads : u # t => state'[u] = state[u] /\ call'[u] = call[u]
                                       /\ from'[u] = from[u]
      /\ state' \in [Threads -> States]
      /\ DOMAIN call' = Threads /\ call' = [u \in Threads |-> call'[u]]
  BY DEF Begin, Reject, PInv, PoolType, States
<1>2. \/ r.op = "put" /\ state'[t] = "called" /\ held[r.tree] >= r.n
           /\ held' = [held EXCEPT ![r.tree] = @ - r.n]
      \/ r.op # "put" /\ state'[t] = "called" /\ held' = held
      \/ r.op = "put" /\ state'[t] = "rejected" /\ held' = held
  BY DEF Begin, Reject, PInv, PoolType
<1>3. r.op = "put" => r.n \in Nat /\ r.tree \in Trees
  BY DEF Sound
<1>4. PoolType'
  <2>1. held' \in [Trees -> Nat]
    BY <1>2, <1>3 DEF PInv, PoolType
  <2>2. \A u \in Threads : state'[u] # "idle" => call'[u] \in Calls
    BY <1>1 DEF PInv, PoolType
  <2> QED BY <1>1, <2>1, <2>2 DEF PInv, PoolType, Trees
<1>5. ASSUME NEW i \in Trees
      PROVE  /\ Given(t, i)' \in Nat
             /\ free'[i] + held'[i] + Given(t, i)' = free[i] + held[i] + Given(t, i)
  <2>1. Given(t, i) = 0 /\ free[i] \in Nat /\ held[i] \in Nat
    BY <1>1 DEF Given, PInv, PoolType
  <2>2. Given(t, i)' = IF r.op = "put" /\ state'[t] = "called" /\ i = r.tree
                       THEN r.n ELSE 0
    BY <1>1, <1>2 DEF Given, IsGet
  <2> QED BY <1>1, <1>2, <1>3, <2>1, <2>2 DEF PInv, PoolType
<1> QED BY <1>1, <1>4, <1>5, OthersGive, CallBalances DEF PInv

LEMMA ServeBalances ==
    ASSUME Sound, PInv, NEW t \in Threads, NEW i \in Trees, Serve(t, i)
    PROVE  PInv'
<1>1. /\ state[t] = "called" /\ state'[t] = "served" /\ from'[t] = i
      /\ UNCHANGED <<held, call>>
      /\ \A u \in Threads : u # t => state'[u] = state[u] /\ call'[u] = call[u]
                                       /\ from'[u] = from[u]
      /\ state' \in [Threads -> States]
      /\ DOMAIN from' = Threads /\ from' = [u \in Threads |-> from'[u]]
  BY DEF Serve, PInv, PoolType, States
<1>2. call[t] \in Calls
  BY <1>1 DEF PInv, PoolType
<1>3. CASE /\ IsGet(t) /\ free[i] >= call[t].n
           /\ free' = [free EXCEPT ![i] = @ - call[t].n]
  <2>1. call[t].n \in Nat /\ call[t].op \in {"get", "get_at"}
    BY <1>2, <1>3 DEF Sound, IsGet
  <2>2. PoolType'
    <3>1. free' \in [Trees -> Nat]
      BY <1>3, <2>1 DEF PInv, PoolType
    <3> QED BY <1>1, <3>1 DEF PInv, PoolType, Trees
  <2>3. ASSUME NEW j \in Trees
        PROVE  /\ Given(t, j)' \in Nat
               /\ free'[j] + held'[j] + Given(t, j)' = free[j] + held[j] + Given(t, j)
    <3>1. Given(t, j) = 0 /\ Given(t, j)' = IF j = i THEN call[t].n ELSE 0
      BY <1>1, <2>1 DEF Given, IsGet
    <3>2. free[j] \in Nat /\ held[j] \in Nat
      BY DEF PInv, PoolType
    <3> QED BY <1>1, <1>3, <2>1, <3>1, <3>2 DEF PInv, PoolType
  <2> QED BY <1>1, <2>2, <2>3, OthersGive, CallBalances DEF PInv
<1>4. CASE /\ call[t].op = "put" /\ i = call[t].tree
           /\ free' = [free EXCEPT ![i] = @ + call[t].n]
  <2>1. call[t].n \in Nat
    BY <1>2, <1>4 DEF Sound
  <2>2. PoolType'
    <3>1. free' \in [Trees -> Nat]
      BY <1>4, <2>1 DEF PInv, PoolType
    <3> QED BY <1>1, <3>1 DEF PInv, PoolType, Trees
  <2>3. ASSUME NEW j \in Trees
        PROVE  /\ Given(t, j)' \in Nat
               /\ free'[j] + held'[j] + Given(t, j)' = free[j] + held[j] + Given(t, j)
    <3>1. Given(t, j)' = 0 /\ Given(t, j) = IF j = i THEN call[t].n ELSE 0
      BY <1>1, <1>4 DEF Given, IsGet
    <3>2. free[j] \in Nat /\ held[j] \in Nat
      BY DEF PInv, PoolType
    <3> QED BY <1>1, <1>4, <2>1, <3>1, <3>2 DEF PInv, PoolType
  <2> QED BY <1>1, <2>2, <2>3, OthersGive, CallBalances DEF PInv
<1> QED BY <1>3, <1>4 DEF Serve

LEMMA ChangeBalances ==
    ASSUME Sound, PInv, NEW t \in Threads, Change(t)
    PROVE  PInv'
<1>1. /\ call[t].op = "change" /\ UNCHANGED <<free, held, call, from>>
      /\ \A u \in Threads : u # t => state'[u] = state[u]
      /\ state[t] = "called" /\ state' \in [Threads -> States]
  BY DEF Change, PInv, PoolType, States
<1>2. PoolType'
  BY <1>1 DEF PInv, PoolType, Trees
<1>3. ASSUME NEW i \in Trees
      PROVE  /\ Given(t, i)' \in Nat
             /\ free'[i] + held'[i] + Given(t, i)' = free[i] + held[i] + Given(t, i)
  <2>1. Given(t, i) = 0 /\ Given(t, i)' = 0
    BY <1>1 DEF Given, IsGet
  <2> QED BY <1>1, <2>1
<1> QED BY <1>1, <1>2, <1>3, OthersGive, CallBalances DEF PInv

LEMMA ReturnBalances ==
    ASSUME Sound, PInv, NEW t \in Threads, Return(t)
    PROVE  PInv'
<1>1. /\ held' = [i \in Trees |-> held[i] + Given(t, i)] /\ free' = free
      /\ state'[t] = "idle" /\ state' \in [Threads -> States]
      /\ DOMAIN call' = Threads /\ call' = [u \in Threads |-> call'[u]]
      /\ DOMAIN from' = Threads /\ from' = [u \in Threads |-> from'[u]]
      /\ \A u \in Threads : u # t => state'[u] = state[u] /\ call'[u] = call[u]
                                       /\ from'[u] = from[u]
  BY DEF Return, PInv, PoolType, States
<1>2. \A i \in Trees : /\ Given(t, i) \in Nat /\ Given(t, i)' = 0
                       /\ free[i] \in Nat /\ held[i] \in Nat
                       /\ held'[i] = held[i] + Given(t, i)
  <2> TAKE i \in Trees
  <2>1. Given(t, i) \in Nat
    <3>1. Dues(i) \in [Threads -> 0 .. Capacity[i]] /\ Dues(i)[t] = Given(t, i)
      BY DEF PInv, Balanced, Dues
    <3>2. Capacity[i] \in Nat
      BY DEF Sound, Trees
    <3> QED BY <3>1, <3>2
  <2>2. Given(t, i)' = 0
    BY <1>1 DEF Given
  <2> QED BY <1>1, <2>1, <2>2 DEF PInv, PoolType
<1>3. PoolType'
  <2>1. held' \in [Trees -> Nat]
    BY <1>1, <1>2
  <2>2. \A u \in Threads : state'[u] # "idle" => call'[u] \in Calls
    BY <1>1 DEF PInv, PoolType
  <2> QED BY <1>1, <2>1, <2>2 DEF PInv, PoolType, Trees
<1>4. \A i \in Trees : /\ Given(t, i)' \in Nat
                       /\ free'[i] + held'[i] + Given(t, i)' = free[i] + held[i] + Given(t, i)
  BY <1>1, <1>2
<1> QED BY <1>1, <1>3, <1>4, OthersGive, CallBalances DEF PInv

\* A state in which no call is in progress.
LEMMA QuietBalances ==
    ASSUME Sound, Quiet, free \in [Trees -> Nat], held \in [Trees -> Nat],
           \A i \in Trees : free[i] + held[i] <= Capacity[i]
    PROVE  PInv
<1>1. PoolType
  BY DEF Quiet, PoolType, States
<1>2. ASSUME NEW i \in Trees
      PROVE  /\ Dues(i) \in [Threads -> 0 .. Capacity[i]] /\ IsFiniteSet(Due(i))
             /\ free[i] + held[i] + Cardinality(Due(i)) <= Capacity[i]
  <2>1. \A t \in Threads : Given(t, i) = 0
    BY DEF Quiet, Given
  <2> QED BY <2>1, IdleGives
<1> QED BY <1>1, <1>2 DEF PInv, Balanced

LEMMA InitBalances == Sound /\ Init => PInv
<1> SUFFICES ASSUME Sound, Init PROVE PInv
  OBVIOUS
<1>1. /\ free \in [Trees -> Nat] /\ held \in [Trees -> Nat]
      /\ \A i \in Trees : free[i] + held[i] <= Capacity[i]
  BY DEF Init, Sound, Trees
<1> QED BY <1>1, QuietBalances DEF Init

LEMMA CrashBalances ==
    ASSUME Sound, PInv, Crash
    PROVE  PInv'
<1>1. /\ Quiet' /\ free' \in [Trees -> Nat] /\ held' \in [Trees -> Nat]
      /\ \A i \in Trees : free'[i] + held'[i] <= Capacity[i]
  BY DEF Crash, PInv, PoolType
<1>2. PoolType'
  BY <1>1 DEF Quiet, PoolType, States, Trees
<1>3. ASSUME NEW i \in Trees
      PROVE  /\ Dues(i)' \in [Threads -> 0 .. Capacity[i]] /\ IsFiniteSet(Due(i)')
             /\ Cardinality(Due(i)') = 0
  <2>1. Dues(i)' = [t \in Threads |-> 0]
    BY <1>1 DEF Quiet, Given, Dues
  <2>2. Capacity[i] \in Nat
    BY DEF Sound, Trees
  <2>3. Due(i)' = {}
    <3>1. ASSUME NEW d \in Due(i)' PROVE FALSE
      <4>1. d[1] \in Threads /\ d[2] \in 1 .. Capacity[i] /\ d[2] <= Dues(i)'[d[1]]
        BY DEF Due, Pairs
      <4> QED BY <2>1, <2>2, <4>1
    <3> QED BY <3>1
  <2> QED BY <2>1, <2>2, <2>3, FS_EmptySet
<1>4. Balanced'
  <2>1. \A i \in Trees : free'[i] \in Nat /\ held'[i] \in Nat
    BY <1>1
  <2> QED BY <1>1, <1>3, <2>1 DEF Balanced, Trees
<1> QED BY <1>2, <1>4 DEF PInv

LEMMA NextBalances == Sound /\ PInv /\ [Next]_vars => PInv'
<1> SUFFICES ASSUME Sound, PInv, [Next]_vars PROVE PInv'
  OBVIOUS
<1>1. CASE UNCHANGED vars
  BY <1>1 DEF vars, PInv, PoolType, Balanced, Due, Dues, Given, IsGet, Trees
<1> QED BY <1>1, BeginBalances, ServeBalances, ChangeBalances, ReturnBalances, CrashBalances
        DEF Next

-----------------------------------------------------------------------------

\* Whatever the calls are doing, also after a crash, the free frames of a tree, those
\* that the clients have and those that they are about to get are not more than the
\* tree has.
THEOREM PoolBalanced ==
    ASSUME Sound
    PROVE  Spec => []Balanced
<1>1. PInv /\ [Next]_vars => PInv'
  BY NextBalances
<1>2. Init => PInv
  BY InitBalances
<1>3. PInv => Balanced
  BY DEF PInv
<1> QED BY <1>1, <1>2, <1>3, PTL DEF Spec
=============================================================================
