---------------------------- MODULE LLFreeCounted ----------------------------
(***************************************************************************)
(* The counters of both levels, for every geometry, mix of classes, slots  *)
(* and policies and any number of threads and crashes: Lower, step by      *)
(* step, is the lower allocator that Upper assumes, and the children count *)
(* what the entries and the slots say.                                     *)
(***************************************************************************)
EXTENDS LLFreeSteps

-----------------------------------------------------------------------------
(* A crash. *)

\* What a call owns is a block of no more frames than it asks for.
LEMMA OwnsBlock ==
    ASSUME LC!Modest, LowerOK, NEW t \in Threads
    PROVE  \E x \in Int, k \in 0 .. lcall[t].n : own[t] = Block(x, k)
<1> DEFINE n == lcall[t].n
<1>1. LC!XInv /\ LC!TypeInv /\ LC!OneHuge /\ LC!OwnAt(t) /\ n \in Nat \ {0} /\ lpc[t] # "abort"
  BY LowerNow, LowerParts, LC!Now DEF LowerOK, LC!YInv, LC!XInv, LC!Modest
<1>2. lpc[t] \in LC!Labels
  BY <1>1 DEF LC!TypeInv, LC!TypeOK
<1>3. CASE lpc[t] \in LC!InPart
  BY <1>1, <1>3, LowerParts, LC!OwnBlock, SameGeometry
<1>4. CASE lpc[t] \notin LC!InPart
  <2>1. lpc[t] \in {"idle", "dec", "huge", "ok", "memory", "argument"}
    BY <1>1, <1>2, <1>4 DEF LC!Labels, LC!Done, LC!InPart, LC!InChild, LC!Splitting, LC!OwnAt
  <2>2. own[t] = {} \/ \E x \in Int : own[t] = LC!Block(x, n)
    BY <1>1, <2>1 DEF LC!OwnAt, LC!Frames, LC!TypeInv, LC!TypeOK, LC!CallType
  <2>3. 0 \in 0 .. n /\ n \in 0 .. n /\ 0 \in Int
    BY <1>1
  <2>4. Block(0, 0) = {} /\ \A x : LC!Block(x, n) = Block(x, n)
    BY SameGeometry DEF Block
  <2> SUFFICES \E x \in Int, k \in 0 .. n : own[t] = Block(x, k)
    OBVIOUS
  <2> HIDE DEF n
  <2>5. CASE own[t] = {}
    BY <2>3, <2>4, <2>5
  <2>6. CASE \E x \in Int : own[t] = LC!Block(x, n)
    BY <2>3, <2>4, <2>6
  <2> QED BY <2>2, <2>5, <2>6
<1> QED BY <1>3, <1>4

\* The frames of tree i that calls in Lower have marked, or have yet to clear.
Cut(i) == {f \in TreeFrames(i) : \E u \in Threads : pc[u] \in {"lower", "put"} /\ f \in own[u]}

\* The calls that a crash cuts off in Lower own no more frames than they ask for.
LEMMA CutBounded ==
    ASSUME LC!Modest, LowerOK, UInv, NEW i \in Trees
    PROVE  /\ IsFiniteSet(UC!Pending(i, "lower"))
           /\ Cardinality(Cut(i)) <= Cardinality(UC!Pending(i, "lower")) + Cardinality(Freeing(i))
<1> DEFINE P == UC!Pending(i, "lower")
           Q == P \cup Freeing(i)
<1>1. /\ UC!CInv /\ UC!TypeInv /\ UC!PhaseOK /\ IsFiniteSet(Freeing(i)) /\ i \in UC!Trees
      /\ UC!DoingOK /\ \A u \in Threads : Linked(u)
  BY TreesAre DEF UInv, UC!QInv, UC!CInv, UC!IInv
<1>2. IsFiniteSet(P)
  <2> DEFINE m == [d \in P |-> <<<<"hand", d[1]>>, d[2]>>]
  <2>1. IsFiniteSet(UC!Tokens(i))
    BY <1>1, SameCardinality DEF UC!CInv, UC!CountOK
  <2>2. ASSUME NEW d \in P PROVE m[d] \in UC!Tokens(i)
    <3>1. /\ d \in Threads \X (1 .. TREE_SIZE) /\ d[1] \in Threads /\ d[2] \in 1 .. TREE_SIZE
          /\ pc[d[1]] = "lower" /\ d[2] <= call[d[1]].n /\ hand[d[1]].tree = i
      BY DEF UC!Pending
    <3>2. /\ call[d[1]].n <= hand[d[1]].free /\ call[d[1]].n \in Nat /\ hand[d[1]].free \in Nat
      BY <3>1, AtLower
    <3>3. d[2] <= hand[d[1]].free
      BY <3>1, <3>2, SizesNat
    <3>4. UC!HeldBy(<<"hand", d[1]>>) = hand[d[1]] /\ <<"hand", d[1]>> \in UC!Holders
      BY <3>1, UpperParts, UC!HolderKinds
    <3> QED BY <3>1, <3>3, <3>4 DEF UC!Tokens
  <2>3. m \in Injection(P, UC!Tokens(i))
    <3>1. \A d, e \in P : m[d] = m[e] => d = e
      BY DEF UC!Pending
    <3> QED BY <2>2, <3>1 DEF Injection, IsInjective
  <2> HIDE DEF m, P
  <2> QED BY <2>1, <2>3, FS_Injection
<1>3. /\ IsFiniteSet(Q) /\ Cardinality(Q) <= Cardinality(P) + Cardinality(Freeing(i))
      /\ Cardinality(P) \in Nat /\ Cardinality(Freeing(i)) \in Nat
  <2> DEFINE R == Freeing(i)
  <2>1. P \cap R = {}
    BY DEF UC!Pending, Freeing
  <2>2. IsFiniteSet(P) /\ IsFiniteSet(R)
    BY <1>1, <1>2
  <2> HIDE DEF P, R
  <2>3. /\ IsFiniteSet(P \cup R) /\ Cardinality(P) \in Nat /\ Cardinality(R) \in Nat
        /\ Cardinality(P \cup R) = Cardinality(P) + Cardinality(R) - Cardinality(P \cap R)
    BY ONLY <2>2, FS_Union, FS_CardinalityType
  <2>4. Cardinality(P \cap R) = 0
    BY <2>1, FS_EmptySet
  <2>5. Cardinality(P \cup R) <= Cardinality(P) + Cardinality(R)
    BY ONLY <2>3, <2>4
  <2> QED BY <2>3, <2>5 DEF R
<1>4. /\ Cardinality(Cut(i)) <= Cardinality(Q)
      /\ Cardinality(Cut(i)) \in Nat /\ Cardinality(Q) \in Nat
  <2> DEFINE By(f) == CHOOSE u \in Threads : pc[u] \in {"lower", "put"} /\ f \in own[u]
             X(u)  == CHOOSE x \in Int : \E k \in 0 .. lcall[u].n : own[u] = Block(x, k)
             m == [f \in Cut(i) |-> <<By(f), f - X(By(f)) + 1>>]
  <2>1. \A f \in Cut(i) : /\ By(f) \in Threads /\ pc[By(f)] \in {"lower", "put"}
                          /\ f \in own[By(f)] /\ f \in TreeFrames(i) /\ f \in Int
    BY DEF Cut, TreeFrames, Frames
  <2>2. \A u \in Threads : /\ X(u) \in Int
                           /\ \E k \in 0 .. lcall[u].n : own[u] = Block(X(u), k)
    BY OwnsBlock
  <2> HIDE DEF By, X
  <2>3. ASSUME NEW f \in Cut(i) PROVE m[f] \in Q
    <3> DEFINE u == By(f)
               d == f - X(u) + 1
    <3>1. u \in Threads /\ pc[u] \in {"lower", "put"} /\ f \in own[u] /\ TreeOf(f) = i /\ f \in Int
      BY <2>1 DEF TreeFrames
    <3>2. d \in Nat \ {0} /\ d <= lcall[u].n /\ lcall[u].n \in Nat
      <4>1. X(u) \in Int /\ \E k \in 0 .. lcall[u].n : own[u] = Block(X(u), k)
        BY <2>2, <3>1
      <4>2. lcall[u].n \in Nat
        BY <3>1, LowerNow
      <4> QED BY <3>1, <4>1, <4>2 DEF Block
    <3>3. lpc[u] # "idle"
      BY <3>1, LowerNow
    <3>4. Linked(u)
      BY <1>1, <3>1
    <3>5. lcall[u].n = call[u].n /\ TreeOf(lcall[u].frame) = IF call[u].op = "put" THEN call[u].tree ELSE hand[u].tree
      BY <3>3, <3>4 DEF Linked
    <3>6. TreeOf(f) = TreeOf(lcall[u].frame)
      BY <3>1, <3>3, OwnTree DEF TreeFrames
    <3>7. pc[u] = "lower" => call[u].op # "put"
      BY <3>1, AtLower
    <3>8. pc[u] = "put" => call[u].op = "put"
      BY <1>1, <3>1, UpperParts, UC!DoingFields DEF UC!Doing
    <3>9. call[u].op \in UC!Allocs
      <4>1. pc[u] = "lower" => call[u].op \in UC!Gets
        BY <3>1, AtLower
      <4> QED BY <3>1, <3>8, <4>1 DEF UC!Gets, UC!Allocs
    <3>10. call[u].n \in 1 .. TREE_SIZE
      BY <1>1, <3>1, <3>9, Requested DEF LC!Modest
    <3>11. d \in 1 .. TREE_SIZE /\ d <= call[u].n
      <4> HIDE DEF d, u
      <4> QED BY <3>2, <3>5, <3>10, SizesNat
    <3>12. m[f] = <<u, d>>
      OBVIOUS
    <3> HIDE DEF m, d, u
    <3>13. CASE pc[u] = "lower"
      BY <3>1, <3>5, <3>6, <3>7, <3>11, <3>12, <3>13 DEF UC!Pending
    <3>14. CASE pc[u] = "put"
      BY <3>1, <3>5, <3>6, <3>8, <3>11, <3>12, <3>14 DEF Freeing
    <3> QED BY <3>1, <3>13, <3>14
  <2>4. m \in Injection(Cut(i), Q)
    <3>1. ASSUME NEW f \in Cut(i), NEW g \in Cut(i), m[f] = m[g] PROVE f = g
      <4>1. By(f) = By(g) /\ f - X(By(f)) + 1 = g - X(By(g)) + 1
        BY <3>1
      <4>2. f \in Int /\ g \in Int /\ X(By(f)) \in Int
        BY <2>1, <2>2
      <4> QED BY <4>1, <4>2
    <3> HIDE DEF m, Q
    <3>2. m \in [Cut(i) -> Q]
      BY <2>3 DEF m
    <3> QED BY <3>1, <3>2 DEF Injection, IsInjective
  <2> HIDE DEF m, Q
  <2> QED BY <1>3, <2>4, FS_Injection, FS_CardinalityType
<1> HIDE DEF P, Q
<1> QED BY <1>2, <1>3, <1>4 DEF P

\* The entries that trees_init will write.
LEMMA PromisedDown ==
    /\ down => Promised = [i \in UC!Trees |-> UC!InitEntry(i, Room[i])]
    /\ down' => Promised' = [i \in UC!Trees |-> UC!InitEntry(i, Room'[i])]
<1>1. \A i, n : U!InitEntry(i, n) = UC!InitEntry(i, n)
  BY DEF U!InitEntry, UC!InitEntry, U!Entry, UC!Entry
<1>2. UC!Trees = Trees
  BY TreesAre
<1>3. down => Promised = [i \in Trees |-> U!InitEntry(i, Room[i])]
  BY DEF Promised
<1>4. down' => Promised' = [i \in Trees |-> U!InitEntry(i, Room'[i])]
  BY DEF Promised
<1> QED BY ONLY <1>1, <1>2, <1>3, <1>4

\* What is free after a crash: everything but what clients hold and what was lost.
LEMMA CrashRoom ==
    ASSUME LC!Modest, LowerOK, UInv, pc' = [t \in Threads |-> "idle"], own' = [t \in Threads |-> {}],
           lheld' = lheld, lost' = lost \cup UNION {own[t] : t \in Threads}
    PROVE  /\ \A i \in Trees : Freeing(i)' = {}
           /\ Room' \in [UC!Trees -> 0 .. TREE_SIZE]
           /\ \A i \in UC!Trees : Room'[i] \in UC!Recovered(i)
<1>1. ASSUME NEW i \in Trees PROVE Freeing(i)' = {} /\ Cardinality(Freeing(i)') = 0
  <2>1. \A u \in Threads : pc'[u] # "put"
    OBVIOUS
  <2>2. Freeing(i)' = {}
    BY <2>1 DEF Freeing
  <2> QED BY <2>2, FS_EmptySet
<1>2. ASSUME NEW i \in Trees
      PROVE  Room'[i] = Room[i] + Cardinality(Freeing(i)) - Cardinality(Cut(i))
             /\ Cardinality(Freeing(i)) \in Nat /\ Cardinality(Cut(i)) \in Nat
             /\ Room[i] \in Int /\ Room'[i] \in Nat /\ Room'[i] <= UC!FramesOf(i)
  <2> DEFINE B == Taken \cup Cut(i)
  <2>1. Cut(i) \subseteq TreeFrames(i) /\ Cut(i) \cap Taken = {}
    <3>1. ASSUME NEW f \in Cut(i), f \in Taken PROVE FALSE
      <4>1. PICK u \in Threads : pc[u] \in {"lower", "put"} /\ f \in own[u]
        BY DEF Cut
      <4>2. f \notin lheld \cup lost /\ \A v \in Threads : v # u => f \notin own[v]
        BY <4>1, LowerNow
      <4> QED BY <3>1, <4>1, <4>2, TakenIs
    <3> QED BY <3>1 DEF Cut
  <2>2. Draws(i, Taken, B, Cut(i))
    <3> HIDE DEF B
    <3>1. B = Taken \cup Cut(i)
      BY DEF B
    <3> QED BY ONLY <2>1, <3>1, i \in Trees, TreeDrawn
  <2>3. TreeFrames(i) \ Taken' = TreeFrames(i) \ B
    <3>1. \A f \in TreeFrames(i) : f \in Taken' <=> f \in B
      BY TakenIs DEF Cut
    <3> QED BY <3>1
  <2> HIDE DEF B
  <2>4. /\ Cardinality(TreeFrames(i) \ Taken) \in Nat /\ Cardinality(TreeFrames(i) \ Taken) <= UC!FramesOf(i)
        /\ Cardinality(TreeFrames(i) \ B) \in Nat /\ Cardinality(Cut(i)) \in Nat
        /\ Cardinality(TreeFrames(i) \ B) = Cardinality(TreeFrames(i) \ Taken) - Cardinality(Cut(i))
    BY ONLY <2>2, i \in Trees DEF Draws
  <2>5. /\ Room[i] = Cardinality(TreeFrames(i) \ Taken) - Cardinality(Freeing(i))
        /\ Room'[i] = Cardinality(TreeFrames(i) \ B) - Cardinality(Freeing(i)')
    BY <2>3, RoomIs
  <2>6. Cardinality(Freeing(i)) \in Nat /\ UC!FramesOf(i) \in Nat
    BY FS_CardinalityType, TreeSized DEF UInv
  <2> QED BY ONLY <1>1, <2>4, <2>5, <2>6
<1>3. ASSUME NEW i \in Trees
      PROVE  Room'[i] \in UC!Recovered(i) /\ Room'[i] \in 0 .. TREE_SIZE
  <2>1. UC!Pending(i, "put") = Freeing(i)
    BY DEF UC!Pending, Freeing
  <2>2. /\ Cardinality(Cut(i)) <= Cardinality(UC!Pending(i, "lower")) + Cardinality(Freeing(i))
        /\ Cardinality(UC!Pending(i, "lower")) \in Nat
    BY CutBounded, FS_CardinalityType
  <2>3. UC!FramesOf(i) \in Nat /\ UC!FramesOf(i) <= TREE_SIZE /\ TREE_SIZE \in Nat
    BY TreeSized, TreesAre, UpperParts, UC!TreesExist, SizesNat
  <2>4. /\ Room'[i] >= Room[i] - Cardinality(UC!Pending(i, "lower"))
        /\ Room'[i] <= Room[i] + Cardinality(Freeing(i))
        /\ Room'[i] \in 0 .. UC!FramesOf(i) /\ Room'[i] \in 0 .. TREE_SIZE
    BY ONLY <1>2, <2>2, <2>3
  <2>5. UC!Cardinality(UC!Pending(i, "lower")) = Cardinality(UC!Pending(i, "lower"))
        /\ UC!Cardinality(UC!Pending(i, "put")) = Cardinality(Freeing(i))
    BY <2>1, SameCardinality
  <2> QED BY <2>4, <2>5 DEF UC!Recovered
<1>4. Room' = [i \in Trees |-> Room'[i]]
  BY DEF Room
<1> QED BY <1>1, <1>3, <1>4, TreesAre

\* A crash is Upper's restart: what it cuts off is lost or back below, and every counter will
\* be built from that.
LEMMA CrashKeeps ==
    ASSUME LC!Modest, LowerOK, UInv, Crash
    PROVE  UInv' /\ [UC!Next]_UC!vars
<1>1. /\ ~U!Aborted
      /\ down' = TRUE /\ slots' = [s \in U!Slots |-> U!Nothing]
      /\ pc' = [t \in Threads |-> "idle"] /\ call' = [t \in Threads |-> U!NoCall]
      /\ loc' = [t \in Threads |-> U!NoLoc] /\ hand' = [t \in Threads |-> U!Nothing]
      /\ spare' = [t \in Threads |-> U!Nothing]
  BY DEF Crash
<1>2. /\ LC!Recovering \/ crashes < MaxCrashes
      /\ crashes' = IF LC!Recovering THEN crashes ELSE crashes + 1
      /\ lost' = lost \cup UNION {own[t] : t \in Threads}
      /\ lpc' = [t \in Threads |-> "idle"] /\ own' = [t \in Threads |-> {}] /\ lheld' = lheld
  BY SameCrash DEF Crash, LC!Crash
<1>3. /\ \A i \in Trees : Freeing(i)' = {}
      /\ Room' \in [UC!Trees -> 0 .. TREE_SIZE]
      /\ \A i \in UC!Trees : Room'[i] \in UC!Recovered(i)
  BY <1>1, <1>2, CrashRoom
<1>4. Held' = Held
  BY <1>2 DEF Held
<1>5. LC!Recovering <=> L!Recovering
  BY SameRecovering
<1>6. /\ U!NoCall = UC!NoCall /\ U!NoLoc = UC!NoLoc /\ U!Nothing = UC!Nothing
      /\ U!Slots = UC!Slots
  BY DEF U!NoCall, UC!NoCall, U!NoLoc, UC!NoLoc, U!Nothing, UC!Nothing, U!NoLocal, UC!NoLocal,
         U!Reservation, UC!Reservation, U!Entry, UC!Entry, U!Slots, UC!Slots
<1>7. [UC!Next]_UC!vars
  <2>1. CASE ~LC!Recovering
    <3>1. Promised' = [i \in UC!Trees |-> UC!InitEntry(i, Room'[i])]
      BY <1>1, PromisedDown
    <3>2. UC!Restart
      BY <1>1, <1>2, <1>3, <1>4, <1>6, <2>1, <3>1 DEF UC!Restart
    <3> QED BY <3>2 DEF UC!Next
  <2>2. CASE LC!Recovering
    <3>1. /\ down /\ slots' = slots /\ pc' = pc /\ call' = call /\ loc' = loc /\ hand' = hand
          /\ spare' = spare /\ lpc' = lpc
      BY <1>1, <1>2, <1>5, <2>2 DEF UInv, DownOK
    <3>2. \A t \in Threads : own[t] = {}
      BY <1>2, <3>1, LowerNow
    <3>3. Room' = Room
      <4>1. Taken' = Taken
        BY <1>1, <1>2, <3>1, <3>2 DEF Taken
      <4>2. \A i \in Trees : Freeing(i)' = Freeing(i)
        BY <3>1 DEF Freeing
      <4> QED BY <4>1, <4>2, RoomStays
    <3>4. Promised' = Promised
      BY <1>1, <3>1, <3>3 DEF Promised
    <3> QED BY <1>2, <1>4, <2>2, <3>1, <3>3, <3>4 DEF UC!vars, UC!counters, UC!thread
  <2> QED BY <2>1, <2>2
<1>8. UC!QInv'
  BY <1>7, UpperParts, NoChanges, UC!NextPool DEF UInv
<1>9. ASSUME NEW t \in Threads PROVE Linked(t)'
  <2>1. pc'[t] = "idle" /\ lpc'[t] = "idle" /\ call'[t].op = "drain"
    BY <1>1, <1>2 DEF U!NoCall
  <2>2. UC!State(t)' = "idle"
    BY <2>1, UpperParts, UC!Seen, UC!StateCases
  <2>3. ~Got(t)'
    BY <2>2 DEF Got
  <2> QED BY <2>1, <2>2, <2>3 DEF Linked
<1>10. \A i \in Trees : IsFiniteSet(Freeing(i)')
  BY <1>3, FS_EmptySet
<1>11. DownOK'
  BY <1>1, <1>2 DEF DownOK
<1> QED BY <1>7, <1>8, <1>9, <1>10, <1>11 DEF UInv

\* lower_recover: nobody sees which child it has reached.
LEMMA RecoverKeeps ==
    ASSUME LC!Modest, LowerOK, UInv, Recover
    PROVE  UInv' /\ [UC!Next]_UC!vars
<1>1. /\ L!Recovering /\ UNCHANGED upper
      /\ UNCHANGED <<lpc, lcall, lloc, own, lheld, lost, crashes>>
  BY SameRecoverChild DEF Recover, L!RecoverChild, LC!RecoverChild, LC!clients
<1>2. /\ down /\ UNCHANGED <<trees, slots, pc, call, loc, hand, spare, target, down>>
  BY <1>1 DEF UInv, DownOK, upper
<1>3. Taken' = Taken
  BY <1>1, <1>2 DEF Taken
<1>4. \A i \in Trees : Freeing(i)' = Freeing(i)
  BY <1>2 DEF Freeing
<1>5. Room' = Room /\ Held' = Held
  BY <1>1, <1>3, <1>4, RoomStays DEF Held
<1>6. UNCHANGED UC!vars
  BY <1>1, <1>2, <1>5 DEF UC!vars, UC!counters, UC!thread, Promised
<1>7. UC!QInv'
  BY <1>6, UpperParts, NoChanges, UC!NextPool DEF UInv
<1>8. ASSUME NEW t \in Threads PROVE Linked(t)'
  <2>1. UC!State(t)' = UC!State(t)
    BY <1>2, UpperParts, UC!Seen
  <2>2. Got(t)' <=> Got(t)
    BY <1>2, <2>1 DEF Got
  <2>3. Linked(t)
    BY DEF UInv
  <2> QED BY <1>1, <1>2, <2>1, <2>2, <2>3 DEF Linked
<1>9. \A i \in Trees : IsFiniteSet(Freeing(i)')
  BY <1>4 DEF UInv
<1>10. DownOK'
  BY <1>1, <1>2 DEF UInv, DownOK
<1> QED BY <1>6, <1>7, <1>8, <1>9, <1>10 DEF UInv

-----------------------------------------------------------------------------
(* No call is in progress: llfree_init, llfree_validate. *)

\* The entries of a tree's children.
LEMMA TreeChildren ==
    ASSUME NEW i \in Trees, NEW k \in 0 .. TREE_CHILDREN - 1
    PROVE  i * TREE_CHILDREN + k \in LC!Children
<1> DEFINE m == TREE_CHILDREN
           d == (LC!ChildCount + m - 1) \div m
<1>1. m \in Nat \ {0} /\ i \in Nat
  BY GeometryAssumption, TreesAre
<1>2. PICK f \in Frames : TreeOf(f) = i
  BY DEF Trees
<1>3. LC!ChildOf(f) \in 0 .. LC!ChildCount - 1 /\ LC!ChildCount \in Nat
  <2>1. f \in LC!Frames /\ 0 \in Nat
    BY SameGeometry
  <2> QED BY <2>1, LowerParts, LC!VisitChildren, LC!ChildCountNat
<1>4. i = ChildOf(f) \div m /\ ChildOf(f) \in Int /\ ChildOf(f) < LC!ChildCount
  <2>1. f \in Int
    BY DEF Frames
  <2> QED BY <1>2, <1>3, <2>1, TreeOfChild, SameGeometry
<1>5. LC!ChildSlots = d * m
  BY DEF LC!ChildSlots, LC!DivCeil
<1> HIDE DEF m
<1>6. d \in Int /\ m * d <= LC!ChildCount + m - 1 /\ LC!ChildCount + m - 1 < m * d + m
  BY <1>1, <1>3, Divided
<1> HIDE DEF d
<1>7. m * i <= ChildOf(f)
  BY <1>1, <1>4, Divided
<1>8. i < d
  <2> SUFFICES ASSUME d <= i PROVE FALSE
    BY <1>1, <1>6
  <2>1. m * d <= m * i /\ m * d \in Int /\ m * i \in Int
    BY <1>1, <1>6
  <2> QED BY <1>1, <1>3, <1>4, <1>6, <1>7, <2>1
<1>9. i * m + m <= d * m /\ i * m \in Nat /\ d * m \in Int
  <2>1. (i + 1) * m <= d * m /\ (i + 1) * m = i * m + m
    BY <1>1, <1>6, <1>8
  <2> QED BY <1>1, <1>6, <2>1
<1>10. k \in Nat /\ k < m
  BY <1>1 DEF m
<1>11. i * m + k \in Nat /\ i * m + k < d * m
  BY <1>1, <1>9, <1>10
<1> QED BY <1>5, <1>9, <1>11 DEF LC!Children, m

\* While no call is in progress, what init_tree_cb and lower_stats_at sum up is what nobody
\* owns of the tree.
LEMMA QuietSum ==
    ASSUME LowerOK, ~L!Recovering, \A t \in Threads : lpc[t] = "idle", NEW i \in Trees
    PROVE  FreeOf(i) = Cardinality(TreeFrames(i) \ (lheld \cup lost))
<1> DEFINE K == 0 .. TREE_CHILDREN - 1
           base == i * TREE_CHILDREN
           v == [k \in K |-> children[base + k].free]
           S == lheld \cup lost
           part == [k \in K |-> {f \in Frames : ChildOf(f) = base + k /\ f \notin S}]
<1>1. TREE_CHILDREN \in Nat \ {0} /\ i \in Int /\ base \in Int /\ base = TREE_CHILDREN * i /\ K \subseteq Int
  BY GeometryAssumption, TreesAre
<1>2. IsFiniteSet(K) /\ IsFiniteSet(TreeFrames(i))
  BY <1>1, FS_Interval, TreeSized
<1>3. ASSUME NEW f \in Frames
      PROVE  TreeOf(f) = i <=> \E k \in K : ChildOf(f) = base + k
  <2> DEFINE m == TREE_CHILDREN
             c == ChildOf(f)
  <2>1. f \in Int
    BY DEF Frames
  <2>2. TreeOf(f) = c \div m /\ c \in Int
    BY <2>1, TreeOfChild
  <2>3. (c \div m = i) <=> (m * i <= c /\ c < m * i + m)
    BY <1>1, <2>2, Quotients
  <2>4. (m * i <= c /\ c < m * i + m) <=> \E k \in K : c = base + k
    <3> HIDE DEF base, c
    <3>1. ASSUME m * i <= c, c < m * i + m PROVE c - base \in K /\ c = base + (c - base)
      BY <1>1, <2>2, <3>1
    <3>2. ASSUME NEW k \in K, c = base + k PROVE m * i <= c /\ c < m * i + m
      BY <1>1, <2>2, <3>2
    <3> QED BY <3>1, <3>2
  <2> QED BY <2>2, <2>3, <2>4
<1> HIDE DEF base
<1>4. part \in [K -> SUBSET TreeFrames(i)]
  BY <1>3 DEF TreeFrames
<1>5. \A j, k \in K : j # k => part[j] \cap part[k] = {}
  BY <1>1
<1>6. ASSUME NEW k \in K PROVE v[k] = Cardinality(part[k]) /\ base + k \in LC!Children
  <2>1. base + k \in LC!Children
    BY TreeChildren DEF base
  <2>2. ~LC!Recovering /\ LC!YInv
    BY SameRecovering DEF LowerOK
  <2> HIDE DEF K
  <2> QED BY <2>1, <2>2, LowerParts, LC!QuietCounts, LowerCardinality, SameGeometry
<1>7. UNION {part[k] : k \in K} = TreeFrames(i) \ S
  <2>1. ASSUME NEW f \in TreeFrames(i), f \notin S PROVE \E k \in K : f \in part[k]
    BY <1>3, <2>1 DEF TreeFrames
  <2>2. ASSUME NEW k \in K, NEW f \in part[k] PROVE f \in TreeFrames(i) \ S
    BY <1>3 DEF TreeFrames
  <2> HIDE DEF part
  <2> QED BY <2>1, <2>2
<1> DEFINE R(f) == f = [s \in SUBSET K |->
               IF s = {} THEN 0
               ELSE children[base + (CHOOSE x \in s : TRUE)].free + f[s \ {CHOOSE x \in s : TRUE}]]
<1>8. FreeOf(i) = (CHOOSE f : R(f))[K]
  BY DEF FreeOf, MapThenSumSet, MapThenFoldSet, base
<1>9. ASSUME NEW f PROVE R(f) <=> Sums(K, v, f)
  <2>1. \A s \in SUBSET K : s # {} => First(s) \in K /\ First(s) = (CHOOSE x \in s : TRUE)
    BY DEF First
  <2>2. \A s \in SUBSET K : s # {} => v[First(s)] = children[base + (CHOOSE x \in s : TRUE)].free
    BY <2>1
  <2> HIDE DEF v, K
  <2> QED BY <2>1, <2>2 DEF Sums
<1> HIDE DEF v, part, K, R, S
<1>10. /\ \E f : Sums(K, v, f)
       /\ \A f : Sums(K, v, f) => f[K] = Cardinality(UNION {part[k] : k \in K})
  BY <1>2, <1>4, <1>5, <1>6, PartsSum
<1>11. (CHOOSE f : R(f))[K] = Cardinality(UNION {part[k] : k \in K})
  <2>1. R(CHOOSE f : R(f))
    BY <1>9, <1>10
  <2> QED BY <1>9, <1>10, <2>1
<1> QED BY <1>7, <1>8, <1>11 DEF S

\* While no call is in progress, the room of a tree is what trees_init finds there.
LEMMA QuietRoom ==
    ASSUME LC!Modest, LowerOK, ~L!Recovering, \A t \in Threads : pc[t] = "idle" /\ lpc[t] = "idle",
           NEW i \in Trees
    PROVE  FreeOf(i) = Room[i]
<1>1. Taken = lheld \cup lost
  <2>1. \A u \in Threads : own[u] = {}
    BY LowerNow
  <2> QED BY <2>1 DEF Taken
<1>2. Freeing(i) = {}
  BY DEF Freeing
<1>3. Cardinality(Freeing(i)) = 0
  BY <1>2, FS_EmptySet
<1>4. Cardinality(TreeFrames(i) \ Taken) \in Nat
  <2>1. IsFiniteSet(TreeFrames(i)) /\ TreeFrames(i) \ Taken \in SUBSET TreeFrames(i)
    BY TreeSized
  <2> QED BY <2>1, FS_Subset, FS_CardinalityType
<1>5. Room[i] = Cardinality(TreeFrames(i) \ Taken) - Cardinality(Freeing(i))
  BY RoomIs
<1>6. FreeOf(i) = Cardinality(TreeFrames(i) \ Taken)
  BY <1>1, QuietSum
<1> QED BY ONLY <1>3, <1>4, <1>5, <1>6

\* llfree_init writes the entries that were promised when the crash happened.
LEMMA BootKeeps ==
    ASSUME LC!Modest, LowerOK, UInv, Boot
    PROVE  UInv' /\ [UC!Next]_UC!vars
<1>1. /\ down /\ ~L!Recovering /\ down' = FALSE
      /\ trees' = [i \in Trees |-> U!InitEntry(i, FreeOf(i))]
      /\ UNCHANGED <<slots, pc, call, loc, hand, spare, target>>
      /\ UNCHANGED <<lpc, lcall, own, lheld, lost, boot, crashes>>
  BY DEF Boot, Recovered, lower
<1>2. \A t \in Threads : pc[t] = "idle" /\ lpc[t] = "idle"
  BY <1>1 DEF UInv, DownOK
<1>3. Taken' = Taken
  BY <1>1 DEF Taken
<1>4. \A i \in Trees : Freeing(i)' = Freeing(i)
  BY <1>1 DEF Freeing
<1>5. Room' = Room /\ Held' = Held
  BY <1>1, <1>3, <1>4, RoomStays DEF Held
<1>6. Promised' = Promised
  <2>1. \A i \in Trees : FreeOf(i) = Room[i]
    BY <1>1, <1>2, QuietRoom
  <2>2. Promised = [i \in Trees |-> U!InitEntry(i, Room[i])] /\ Promised' = trees'
    BY <1>1 DEF Promised
  <2> QED BY <1>1, <2>1, <2>2
<1>7. UNCHANGED UC!vars
  BY <1>1, <1>5, <1>6 DEF UC!vars, UC!counters, UC!thread
<1>8. UC!QInv'
  BY <1>7, UpperParts, NoChanges, UC!NextPool DEF UInv
<1>9. ASSUME NEW t \in Threads PROVE Linked(t)'
  <2>1. UC!State(t)' = UC!State(t)
    BY <1>1, UpperParts, UC!Seen
  <2>2. Got(t)' <=> Got(t)
    BY <1>1, <2>1 DEF Got
  <2>3. Linked(t)
    BY DEF UInv
  <2> QED BY <1>1, <2>1, <2>2, <2>3 DEF Linked
<1>10. \A i \in Trees : IsFiniteSet(Freeing(i)')
  BY <1>4 DEF UInv
<1>11. DownOK'
  BY <1>1 DEF DownOK, L!Recovering
<1> QED BY <1>7, <1>8, <1>9, <1>10, <1>11 DEF UInv

\* Steps that change nothing.
LEMMA StutterKeeps ==
    ASSUME UInv, UNCHANGED vars
    PROVE  UInv' /\ [UC!Next]_UC!vars
<1>1. /\ UNCHANGED <<trees, slots, pc, call, loc, hand, spare, target, down>>
      /\ UNCHANGED <<lpc, lcall, own, lheld, lost, boot, crashes>>
  BY DEF vars, upper, lower
<1>2. Taken' = Taken
  BY <1>1 DEF Taken
<1>3. \A i \in Trees : Freeing(i)' = Freeing(i)
  BY <1>1 DEF Freeing
<1>4. Room' = Room /\ Held' = Held
  BY <1>1, <1>2, <1>3, RoomStays DEF Held
<1>5. UNCHANGED UC!vars
  BY <1>1, <1>4 DEF UC!vars, UC!counters, UC!thread, Promised
<1>6. UC!QInv'
  BY <1>5, UpperParts, NoChanges, UC!NextPool DEF UInv
<1>7. ASSUME NEW t \in Threads PROVE Linked(t)'
  <2>1. UC!State(t)' = UC!State(t)
    BY <1>1, UpperParts, UC!Seen
  <2>2. Got(t)' <=> Got(t)
    BY <1>1, <2>1 DEF Got
  <2>3. Linked(t)
    BY DEF UInv
  <2> QED BY <1>1, <2>1, <2>2, <2>3 DEF Linked
<1>8. \A i \in Trees : IsFiniteSet(Freeing(i)')
  BY <1>3 DEF UInv
<1>9. DownOK'
  BY <1>1 DEF UInv, DownOK, L!Recovering
<1> QED BY <1>5, <1>6, <1>7, <1>8, <1>9 DEF UInv

\* llfree_init without recovery.
LEMMA InitKeeps ==
    ASSUME LC!Modest, LowerOK, Init
    PROVE  UInv /\ UC!Init
<1>1. /\ trees = [i \in Trees |-> U!InitEntry(i, FreeOf(i))] /\ slots = [s \in U!Slots |-> U!Nothing]
      /\ pc = [t \in Threads |-> "idle"] /\ call = [t \in Threads |-> U!NoCall]
      /\ loc = [t \in Threads |-> U!NoLoc] /\ hand = [t \in Threads |-> U!Nothing]
      /\ spare = [t \in Threads |-> U!Nothing] /\ down = FALSE
  BY DEF Init
<1>2. PICK full \in FreeAll :
         /\ lheld = IF full THEN {} ELSE Frames
         /\ lpc = [t \in Threads |-> "idle"] /\ own = [t \in Threads |-> {}]
         /\ lost = {} /\ ~L!Recovering /\ crashes = 0
  <2>1. LC!Init
    BY SameInit DEF Init
  <2>2. PICK full \in FreeAll :
           /\ lheld = IF full THEN {} ELSE LC!Frames
           /\ lpc = [t \in Threads |-> "idle"] /\ own = [t \in Threads |-> {}]
           /\ lost = {} /\ boot = LC!ChildCount /\ crashes = 0
    BY <2>1 DEF LC!Init
  <2>3. ~LC!Recovering
    <3>1. LC!ChildCount \in Nat
      BY LowerParts, LC!ChildCountNat
    <3> QED BY <2>2, <3>1 DEF LC!Recovering
  <2> QED BY <2>2, <2>3, SameGeometry, SameRecovering
<1>3. full \in BOOLEAN
  BY LLFreeAssumption
<1>4. \A t \in Threads : pc[t] = "idle" /\ lpc[t] = "idle"
  BY <1>1, <1>2
<1>5. \A i \in Trees : FreeOf(i) = Room[i]
  BY <1>2, <1>4, QuietRoom
<1>6. ASSUME NEW i \in Trees
      PROVE  /\ Freeing(i) = {} /\ Room[i] = IF full THEN UC!FramesOf(i) ELSE 0
             /\ Held[i] = IF full THEN 0 ELSE UC!FramesOf(i)
  <2>1. Freeing(i) = {}
    BY <1>4 DEF Freeing
  <2>2. Cardinality(Freeing(i)) = 0 /\ Cardinality({}) = 0
    BY <2>1, FS_EmptySet
  <2>3. Cardinality(TreeFrames(i)) = UC!FramesOf(i) /\ UC!FramesOf(i) \in Nat /\ TreeFrames(i) \subseteq Frames
    BY TreeSized DEF TreeFrames
  <2>4. Taken = lheld
    BY <1>2 DEF Taken
  <2>5. Room[i] = Cardinality(TreeFrames(i) \ lheld) /\ Held[i] = Cardinality(TreeFrames(i) \cap lheld)
    <3>1. Room[i] = Cardinality(TreeFrames(i) \ lheld) - 0
      BY <2>2, <2>4 DEF Room
    <3>2. Cardinality(TreeFrames(i) \ lheld) \in Nat
      <4>1. IsFiniteSet(TreeFrames(i)) /\ TreeFrames(i) \ lheld \in SUBSET TreeFrames(i)
        BY TreeSized
      <4> QED BY <4>1, FS_Subset, FS_CardinalityType
    <3> QED BY <3>1, <3>2 DEF Held
  <2>6. CASE full
    <3>1. TreeFrames(i) \ lheld = TreeFrames(i) /\ TreeFrames(i) \cap lheld = {}
      BY <1>2, <2>6
    <3> QED BY <2>1, <2>2, <2>3, <2>5, <2>6, <3>1
  <2>7. CASE ~full
    <3>1. TreeFrames(i) \ lheld = {} /\ TreeFrames(i) \cap lheld = TreeFrames(i)
      BY <1>2, <2>3, <2>7
    <3> QED BY <2>1, <2>2, <2>3, <2>5, <2>7, <3>1
  <2> QED BY <1>3, <2>6, <2>7
<1>7. UC!Init
  <2>1. Room = [i \in UC!Trees |-> IF full THEN UC!FramesOf(i) ELSE 0]
        /\ Held = [i \in UC!Trees |-> IF full THEN 0 ELSE UC!FramesOf(i)]
    BY <1>6, TreesAre DEF Room, Held
  <2>2. Promised = [i \in UC!Trees |-> UC!InitEntry(i, Room[i])]
    <3>1. \A i, n : U!InitEntry(i, n) = UC!InitEntry(i, n)
      BY DEF U!InitEntry, UC!InitEntry, U!Entry, UC!Entry
    <3>2. Promised = trees
      BY <1>1 DEF Promised
    <3> QED BY <1>1, <1>5, <3>1, <3>2, TreesAre
  <2>3. /\ U!NoCall = UC!NoCall /\ U!NoLoc = UC!NoLoc /\ U!Nothing = UC!Nothing
        /\ U!Slots = UC!Slots
    BY DEF U!NoCall, UC!NoCall, U!NoLoc, UC!NoLoc, U!Nothing, UC!Nothing, U!NoLocal, UC!NoLocal,
           U!Reservation, UC!Reservation, U!Entry, UC!Entry, U!Slots, UC!Slots
  <2> QED BY <1>1, <1>2, <2>1, <2>2, <2>3 DEF UC!Init
<1>8. UC!QInv
  BY <1>7, UpperParts, UC!InitPool
<1>9. ASSUME NEW t \in Threads PROVE Linked(t)
  <2>1. pc[t] = "idle" /\ lpc[t] = "idle" /\ call[t].op = "drain"
    BY <1>1, <1>4 DEF U!NoCall
  <2>2. UC!State(t) = "idle"
    BY <2>1, UpperParts, UC!Seen, UC!StateCases
  <2> QED BY <2>1, <2>2 DEF Linked, Got
<1>10. \A i \in Trees : IsFiniteSet(Freeing(i))
  BY <1>6, FS_EmptySet
<1>11. DownOK
  BY <1>1, <1>2 DEF DownOK
<1> QED BY <1>7, <1>8, <1>9, <1>10, <1>11 DEF UInv

-----------------------------------------------------------------------------
(* The theorems. *)

\* What the proofs about Lower say of every state of its own holds in every state here.
LEMMA LowerAlways ==
    ASSUME LC!Modest
    PROVE  Spec => []LowerOK
<1>1. Spec => []Asked
  <2>1. Init => Asked
    BY DEF Init, Asked
  <2>2. Asked /\ [Next]_vars => Asked'
    BY LowerAsked
  <2> QED BY <2>1, <2>2, PTL DEF Spec
<1>2. LC!Spec => []LC!YInv
  BY LowerParts, LC!Counted
<1>3. LC!Spec => []LC!Accounted
  BY LowerParts, LC!FramesAccounted
<1>4. LC!Spec => []LC!InTree
  BY LowerParts, LC!CallsStayInTree DEF LC!Modest
<1>5. CASE LC!Alone
  <2>1. LC!Spec => []LC!GetComplete
    BY <1>5, LowerParts, LC!SearchesComplete
  <2>2. Asked /\ LC!YInv /\ LC!Accounted /\ LC!InTree /\ LC!GetComplete => LowerOK
    BY DEF LowerOK
  <2> QED BY UsesLower, <1>1, <1>2, <1>3, <1>4, <2>1, <2>2, PTL
<1>6. CASE ~LC!Alone
  <2>1. Asked /\ LC!YInv /\ LC!Accounted /\ LC!InTree => LowerOK
    BY <1>6 DEF LowerOK
  <2> QED BY UsesLower, <1>1, <1>2, <1>3, <1>4, <2>1, PTL
<1> QED BY <1>5, <1>6

\* Every step of the whole allocator is one of Upper, or none.
LEMMA StepKeeps ==
    ASSUME LC!Modest, LowerOK, LowerOK', UInv, [Next]_vars
    PROVE  UInv' /\ [UC!Next]_UC!vars
<1>1. ASSUME NEW t \in Threads, Follows(t) PROVE UInv' /\ [UC!Next]_UC!vars
  BY <1>1, FollowsKeeps DEF LC!Modest
<1>2. ASSUME NEW t \in Threads, NEW r \in Calls, Start(t, r) \/ Put(t, r)
      PROVE  Follows(t)
  BY <1>2, StartFollows, PutFollows
<1>3. ASSUME NEW t \in Threads, UpperStep(t) \/ LowerGet(t) \/ LowerStep(t) \/ Return(t)
      PROVE  Follows(t)
  BY <1>3, UpperStepFollows, LowerGetFollows, LowerStepFollows, ReturnFollows
<1>4. ASSUME NEW t \in Threads,
             GetSucceeds(t) \/ GetRefused(t) \/ PutSucceeds(t) \/ PutRefused(t)
      PROVE  Follows(t)
  BY <1>4, GetSucceedsFollows, GetRefusedFollows, PutSucceedsFollows, PutNotRefused
<1>5. CASE Crash \/ Recover \/ Boot
  BY <1>5, CrashKeeps, RecoverKeeps, BootKeeps
<1>6. CASE UNCHANGED vars
  BY <1>6, StutterKeeps
<1> QED BY <1>1, <1>2, <1>3, <1>4, <1>5, <1>6 DEF Next

\* The abstract lower allocator that Upper is checked and proved with is right: every step of
\* every call in rows, children and entries, a crash and a recovery is a step of Upper or none
\* at all, and trees_init finds the counters of exactly the frames that nobody owns.
THEOREM UpperIsImplemented ==
    ASSUME LC!Modest
    PROVE  Spec => ImplementsUpper
<1>1. Init /\ LowerOK => UInv /\ UC!Init
  BY InitKeeps
<1>2. LowerOK /\ LowerOK' /\ UInv /\ [Next]_vars => UInv' /\ [UC!Next]_UC!vars
  BY StepKeeps
<1>3. UC!Init => Promise!Init
  BY PromisedInit
<1>4. [UC!Next]_UC!vars => [Promise!Next]_Promise!vars
  BY PromisedVars, PromisedNext
<1>5. Spec => []LowerOK
  BY LowerAlways
<1> QED BY <1>1, <1>2, <1>3, <1>4, <1>5, PTL DEF Spec, ImplementsUpper, Promise!Spec

\* The slots that have reserved a tree.
Present == {s \in U!Slots : slots[s].present}

EntriesTotal == MapThenSumSet(LAMBDA i : trees[i].free, Trees)
SlotsTotal   == MapThenSumSet(LAMBDA s : slots[s].free, Present)

\* The total of the children's counters, as the size of a set.
LEMMA ChildrenSum ==
    ASSUME IsFiniteSet(Trees), NEW F, IsFiniteSet(F), NEW part \in [Trees -> SUBSET F],
           \A j, k \in Trees : j # k => part[j] \cap part[k] = {},
           \A k \in Trees : Cardinality(part[k]) = FreeOf(k)
    PROVE  MapThenSumSet(FreeOf, Trees) = Cardinality(UNION {part[k] : k \in Trees})
<1> DEFINE R(f) == f = [s \in SUBSET Trees |->
               IF s = {} THEN 0 ELSE FreeOf(First(s)) + f[s \ {First(s)}]]
           v == [k \in Trees |-> FreeOf(k)]
<1>1. MapThenSumSet(FreeOf, Trees) = (CHOOSE f : R(f))[Trees]
  BY DEF MapThenSumSet, MapThenFoldSet, First
<1>2. ASSUME NEW f PROVE R(f) <=> Sums(Trees, v, f)
  <2>1. \A s \in SUBSET Trees : s # {} => First(s) \in Trees
    BY DEF First
  <2>2. \A s \in SUBSET Trees : s # {} => v[First(s)] = FreeOf(First(s))
    BY <2>1
  <2> HIDE DEF v
  <2> QED BY <2>2 DEF Sums
<1>3. \A k \in Trees : v[k] = Cardinality(part[k])
  OBVIOUS
<1> HIDE DEF R, v
<1>4. /\ \E f : Sums(Trees, v, f)
      /\ \A f : Sums(Trees, v, f) => f[Trees] = Cardinality(UNION {part[k] : k \in Trees})
  BY <1>3, PartsSum
<1>5. R(CHOOSE f : R(f))
  BY <1>2, <1>4
<1> QED BY <1>1, <1>2, <1>4, <1>5

\* The total of the entries.
LEMMA EntriesSum ==
    ASSUME IsFiniteSet(Trees), NEW F, IsFiniteSet(F), NEW part \in [Trees -> SUBSET F],
           \A j, k \in Trees : j # k => part[j] \cap part[k] = {},
           \A k \in Trees : Cardinality(part[k]) = trees[k].free
    PROVE  EntriesTotal = Cardinality(UNION {part[k] : k \in Trees})
<1> DEFINE R(f) == f = [s \in SUBSET Trees |->
               IF s = {} THEN 0 ELSE trees[First(s)].free + f[s \ {First(s)}]]
           v == [k \in Trees |-> trees[k].free]
<1>1. EntriesTotal = (CHOOSE f : R(f))[Trees]
  BY DEF EntriesTotal, MapThenSumSet, MapThenFoldSet, First
<1>2. ASSUME NEW f PROVE R(f) <=> Sums(Trees, v, f)
  <2>1. \A s \in SUBSET Trees : s # {} => First(s) \in Trees
    BY DEF First
  <2>2. \A s \in SUBSET Trees : s # {} => v[First(s)] = trees[First(s)].free
    BY <2>1
  <2> HIDE DEF v
  <2> QED BY <2>2 DEF Sums
<1>3. \A k \in Trees : v[k] = Cardinality(part[k])
  OBVIOUS
<1> HIDE DEF R, v
<1>4. /\ \E f : Sums(Trees, v, f)
      /\ \A f : Sums(Trees, v, f) => f[Trees] = Cardinality(UNION {part[k] : k \in Trees})
  BY <1>3, PartsSum
<1>5. R(CHOOSE f : R(f))
  BY <1>2, <1>4
<1> QED BY <1>1, <1>2, <1>4, <1>5

\* The total of the reservations.
LEMMA SlotsSum ==
    ASSUME IsFiniteSet(Present), NEW F, IsFiniteSet(F), NEW part \in [Present -> SUBSET F],
           \A j, k \in Present : j # k => part[j] \cap part[k] = {},
           \A k \in Present : Cardinality(part[k]) = slots[k].free
    PROVE  SlotsTotal = Cardinality(UNION {part[k] : k \in Present})
<1> DEFINE R(f) == f = [s \in SUBSET Present |->
               IF s = {} THEN 0 ELSE slots[First(s)].free + f[s \ {First(s)}]]
           v == [k \in Present |-> slots[k].free]
<1>1. SlotsTotal = (CHOOSE f : R(f))[Present]
  BY DEF SlotsTotal, MapThenSumSet, MapThenFoldSet, First
<1>2. ASSUME NEW f PROVE R(f) <=> Sums(Present, v, f)
  <2>1. \A s \in SUBSET Present : s # {} => First(s) \in Present
    BY DEF First
  <2>2. \A s \in SUBSET Present : s # {} => v[First(s)] = slots[First(s)].free
    BY <2>1
  <2> HIDE DEF v
  <2> QED BY <2>2 DEF Sums
<1>3. \A k \in Present : v[k] = Cardinality(part[k])
  OBVIOUS
<1> HIDE DEF R, v
<1>4. /\ \E f : Sums(Present, v, f)
      /\ \A f : Sums(Present, v, f) => f[Present] = Cardinality(UNION {part[k] : k \in Present})
  BY <1>3, PartsSum
<1>5. R(CHOOSE f : R(f))
  BY <1>2, <1>4
<1> QED BY <1>1, <1>2, <1>4, <1>5

\* The counters of both levels agree tree by tree while no call is in progress.
LEMMA QuietTrees ==
    ASSUME LC!Modest, LowerOK, UInv, ~down, \A t \in Threads : pc[t] = "idle", NEW i \in Trees
    PROVE  /\ trees[i].free \in 0 .. TREE_SIZE
           /\ \A s \in Present : slots[s].tree = i =>
                 /\ trees[i].reserved /\ trees[i].free + slots[s].free = FreeOf(i)
                 /\ \A q \in Present : q # s => slots[q].tree # i
           /\ (\A s \in Present : slots[s].tree # i) =>
                 ~trees[i].reserved /\ trees[i].free = FreeOf(i)
<1>1. ~L!Recovering /\ Promised = trees
  BY DEF UInv, DownOK, Promised
<1>2. \A t \in Threads : pc[t] = "idle" /\ lpc[t] = "idle"
  BY OwnNone DEF UInv
<1>3. FreeOf(i) = Room[i]
  BY <1>1, <1>2, QuietRoom
<1>4. UC!CInv /\ UC!TypeInv
  BY DEF UInv, UC!QInv, UC!CInv, UC!IInv
<1>5. i \in UC!Trees \ {} /\ UC!Slots = U!Slots
  BY TreesAre DEF UC!Slots, U!Slots
<1>6. /\ \A s \in UC!Slots : slots[s].present /\ slots[s].tree = i =>
            /\ trees[i].reserved /\ trees[i].free + slots[s].free = Room[i]
            /\ \A q \in UC!Slots : q # s => ~(slots[q].present /\ slots[q].tree = i)
      /\ (\A s \in UC!Slots : ~(slots[s].present /\ slots[s].tree = i)) =>
            ~trees[i].reserved /\ trees[i].free = Room[i]
  BY <1>1, <1>2, <1>4, <1>5, UpperParts, UC!QuietEntries
<1>7. trees[i].free \in 0 .. TREE_SIZE
  BY <1>1, <1>4, <1>5, UpperParts DEF UC!TypeInv, UC!TypeOK, UC!Entries
<1> QED BY <1>3, <1>5, <1>6, <1>7 DEF Present

\* What a slot has reserved.
LEMMA QuietSlots ==
    ASSUME UInv, NEW s \in Present
    PROVE  slots[s].tree \in Trees /\ slots[s].free \in 0 .. TREE_SIZE
<1>1. UC!TypeInv /\ UC!Slots = U!Slots
  BY DEF UInv, UC!QInv, UC!CInv, UC!IInv, UC!Slots, U!Slots
<1> QED BY <1>1, TreesAre DEF UC!TypeInv, UC!TypeOK, UC!Reservations, Present

\* The total of the entries and the slots is that of the children.
LEMMA QuietTotals ==
    ASSUME LC!Modest, LowerOK, UInv, ~down, \A t \in Threads : pc[t] = "idle"
    PROVE  MapThenSumSet(FreeOf, Trees) =
              MapThenSumSet(LAMBDA i : trees[i].free, Trees)
                + MapThenSumSet(LAMBDA s : slots[s].free, {s \in U!Slots : slots[s].present})
<1> DEFINE N == 1 .. TREE_SIZE
           F == (({"tree"} \X Trees) \cup ({"slot"} \X Present)) \X N
           a == [i \in Trees |-> Units(<<"tree", i>>, trees[i].free)]
           b == [s \in Present |-> Units(<<"slot", s>>, slots[s].free)]
           Of(i) == {q \in Present : slots[q].tree = i}
           c == [i \in Trees |-> a[i] \cup UNION {b[s] : s \in Of(i)}]
           A == UNION {a[i] : i \in Trees}
           B == UNION {b[s] : s \in Present}
           C == UNION {c[i] : i \in Trees}
<1>1. \A s \in Present : slots[s].tree \in Trees /\ slots[s].free \in 0 .. TREE_SIZE
  BY QuietSlots
<1>2. \A i \in Trees : trees[i].free \in 0 .. TREE_SIZE
  BY QuietTrees
<1>3. IsFiniteSet(Trees)
  <2>1. UC!TreeCount \in Int
    BY SizesNat, GeometryAssumption, Divided DEF UC!TreeCount
  <2> QED BY <2>1, TreesAre, FS_Interval DEF UC!Trees
<1>4. IsFiniteSet(Present)
  <2> DEFINE g == [s \in Present |-> slots[s].tree]
  <2>1. g \in [Present -> Trees]
    BY <1>1
  <2>2. ASSUME NEW s \in Present, NEW q \in Present, g[s] = g[q] PROVE s = q
    BY <1>1, <2>2, QuietTrees
  <2> HIDE DEF g
  <2>3. g \in Injection(Present, Trees)
    BY <2>1, <2>2 DEF Injection, IsInjective
  <2> QED BY <1>3, <2>3, FS_Injection
<1>5. IsFiniteSet(F)
  <2>1. IsFiniteSet({"tree"}) /\ IsFiniteSet({"slot"})
    BY FS_Singleton
  <2>2. IsFiniteSet({"tree"} \X Trees) /\ IsFiniteSet({"slot"} \X Present)
    BY <1>3, <1>4, <2>1, FS_Product
  <2>3. IsFiniteSet(({"tree"} \X Trees) \cup ({"slot"} \X Present))
    BY <2>2, FS_Union
  <2>4. IsFiniteSet(N)
    BY SizesNat, FS_Interval
  <2> QED BY <2>3, <2>4, FS_Product
<1>6. /\ \A i \in Trees : Cardinality(a[i]) = trees[i].free /\ IsFiniteSet(a[i])
      /\ \A s \in Present : Cardinality(b[s]) = slots[s].free /\ IsFiniteSet(b[s])
  BY <1>1, <1>2, UnitsCount
<1>7. a \in [Trees -> SUBSET F] /\ b \in [Present -> SUBSET F]
  <2>1. ASSUME NEW i \in Trees PROVE a[i] \subseteq F
    BY <1>2, SizesNat DEF Units
  <2>2. ASSUME NEW s \in Present PROVE b[s] \subseteq F
    BY <1>1, SizesNat DEF Units
  <2> HIDE DEF F
  <2> QED BY <2>1, <2>2
<1>8. /\ \A i \in Trees : \A x \in a[i] : x[1] = <<"tree", i>>
      /\ \A s \in Present : \A x \in b[s] : x[1] = <<"slot", s>>
  BY DEF Units
<1> HIDE DEF a, b, F, N
<1>9. /\ \A i, j \in Trees : i # j => a[i] \cap a[j] = {}
      /\ \A s, q \in Present : s # q => b[s] \cap b[q] = {}
      /\ \A i \in Trees, s \in Present : a[i] \cap b[s] = {}
  BY <1>8
<1>10. ASSUME NEW i \in Trees PROVE Cardinality(c[i]) = FreeOf(i)
  <2>1. CASE \E s \in Present : slots[s].tree = i
    <3>1. PICK s \in Present : slots[s].tree = i
      BY <2>1
    <3>2. Of(i) = {s} /\ trees[i].free + slots[s].free = FreeOf(i)
      BY <3>1, QuietTrees
    <3>3. c[i] = a[i] \cup b[s]
      BY <3>2
    <3>4. Cardinality(a[i] \cup b[s]) = Cardinality(a[i]) + Cardinality(b[s]) - Cardinality(a[i] \cap b[s])
      BY <1>6, FS_Union
    <3>5. Cardinality(a[i] \cap b[s]) = 0
      BY <1>9, FS_EmptySet
    <3>6. Cardinality(c[i]) = Cardinality(a[i] \cup b[s])
      BY <3>3
    <3>7. Cardinality(a[i]) = trees[i].free /\ Cardinality(b[s]) = slots[s].free
      BY <1>6
    <3>8. trees[i].free \in Nat /\ slots[s].free \in Nat
      BY <1>1, <1>2
    <3> HIDE DEF c, Of
    <3> QED BY ONLY <3>2, <3>4, <3>5, <3>6, <3>7, <3>8
  <2>2. CASE ~ \E s \in Present : slots[s].tree = i
    <3>1. Of(i) = {}
      BY <2>2
    <3>2. c[i] = a[i]
      BY <3>1
    <3>3. trees[i].free = FreeOf(i)
      BY <2>2, QuietTrees
    <3> QED BY <1>6, <3>2, <3>3
  <2> QED BY <2>1, <2>2
<1>11. c \in [Trees -> SUBSET F] /\ \A i, j \in Trees : i # j => c[i] \cap c[j] = {}
  <2>1. ASSUME NEW i \in Trees PROVE c[i] \subseteq F
    BY <1>7
  <2>2. ASSUME NEW i \in Trees, NEW j \in Trees, i # j, NEW x \in c[i], x \in c[j] PROVE FALSE
    BY <1>9, <2>2
  <2> QED BY <2>1, <2>2
<1>12. C = A \cup B /\ A \cap B = {}
  BY <1>1, <1>9
<1> HIDE DEF c
<1>13. IsFiniteSet(A) /\ IsFiniteSet(B)
  <2>1. A \in SUBSET F /\ B \in SUBSET F
    BY <1>7
  <2> QED BY <1>5, <2>1, FS_Subset
<1>14. MapThenSumSet(FreeOf, Trees) = Cardinality(C)
  BY ONLY <1>3, <1>5, <1>10, <1>11, ChildrenSum
<1>15. EntriesTotal = Cardinality(A)
  BY <1>3, <1>5, <1>6, <1>7, <1>9, EntriesSum
<1>16. SlotsTotal = Cardinality(B)
  BY <1>4, <1>5, <1>6, <1>7, <1>9, SlotsSum
<1> HIDE DEF A, B, C
<1>17. Cardinality(A \cup B) = Cardinality(A) + Cardinality(B) - Cardinality(A \cap B)
  BY ONLY <1>13, FS_Union
<1>18. Cardinality(A \cap B) = 0 /\ Cardinality(A) \in Nat /\ Cardinality(B) \in Nat
  BY <1>12, <1>13, FS_EmptySet, FS_CardinalityType
<1>19. Cardinality(C) = Cardinality(A) + Cardinality(B)
  BY ONLY <1>12, <1>17, <1>18
<1> QED BY <1>14, <1>15, <1>16, <1>19 DEF Present, EntriesTotal, SlotsTotal

\* Both levels are in order in every state.
LEMMA UpperAlways ==
    ASSUME LC!Modest
    PROVE  Spec => [](LowerOK /\ UInv)
<1>1. Init /\ LowerOK => UInv
  BY InitKeeps
<1>2. LowerOK /\ LowerOK' /\ UInv /\ [Next]_vars => UInv'
  BY StepKeeps
<1>3. Spec => []LowerOK
  BY LowerAlways
<1> QED BY <1>1, <1>2, <1>3, PTL DEF Spec

\* llfree_validate succeeds whenever no call is in progress, whatever calls, refusals, crashes
\* and recoveries came before: what lower_stats counts in the children is what the entries and
\* the slots of the upper level say, tree by tree and in total.
THEOREM CountersAgree ==
    ASSUME LC!Modest
    PROVE  Spec => []ValidWhenQuiet
<1>1. LowerOK /\ UInv => ValidWhenQuiet
  <2> SUFFICES ASSUME LowerOK, UInv, ~down, \A t \in Threads : pc[t] = "idle" PROVE Validates
    BY DEF ValidWhenQuiet
  <2>1. \A i \in Trees : trees[i].reserved \/ trees[i].free = FreeOf(i)
    BY QuietTrees
  <2>2. \A s \in Present : ValidReservation(slots[s].tree, slots[s].free)
    BY QuietSlots, QuietTrees DEF ValidReservation
  <2>3. \A s \in U!Slots : slots[s].present => ValidReservation(slots[s].tree, slots[s].free)
    BY <2>2 DEF Present
  <2> QED BY <2>1, <2>3, QuietTotals DEF Validates
<1>2. Spec => [](LowerOK /\ UInv)
  BY UpperAlways
<1> QED BY <1>1, <1>2, PTL
=============================================================================
