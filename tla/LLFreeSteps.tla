----------------------------- MODULE LLFreeSteps -----------------------------
(***************************************************************************)
(* The invariant that links the calls of both levels, and the steps of     *)
(* calls: in entries and slots, in Lower, into Lower and back.  Each keeps *)
(* the invariant and is a step that Upper allows over its own picture of   *)
(* the lower allocator.                                                    *)
(***************************************************************************)
EXTENDS LLFreeProofs

-----------------------------------------------------------------------------
(* The two levels, side by side. *)

\* The operators of Geometry are the same in all instances.
LEMMA SameGeometry ==
    /\ LC!Frames = Frames /\ LC!CHILD_SIZE = CHILD_SIZE
    /\ \A f : LC!ChildOf(f) = ChildOf(f)
    /\ \A f, n : LC!Block(f, n) = Block(f, n) /\ L!Block(f, n) = Block(f, n)
    /\ \A f, n : LC!InRange(f, n) = InRange(f, n) /\ L!InRange(f, n) = InRange(f, n)
    /\ \A n : LC!IsSize(n) = IsSize(n)
    /\ \A c : LC!ChildFrames(c) = ChildFrames(c)
BY DEF LC!Frames, Frames, LC!CHILD_SIZE, CHILD_SIZE, LC!ChildOf, ChildOf, LC!Block, L!Block, Block,
       LC!InRange, L!InRange, InRange, LC!IsSize, IsSize, LC!ChildFrames, ChildFrames, LC!ChildBase,
       ChildBase

LEMMA SameRecovering == LC!Recovering <=> L!Recovering
BY DEF LC!Recovering, L!Recovering, LC!ChildCount, L!ChildCount, LC!DivCeil, L!DivCeil,
       LC!CHILD_SIZE, L!CHILD_SIZE

\* What Upper asks of Lower, and what the proofs about Lower say of its half of the state.
LowerOK == Asked /\ LC!YInv /\ LC!Accounted /\ LC!InTree /\ (LC!Alone => LC!GetComplete)

\* Whether the call of t has frames that its client does not have yet.
Got(t) == call[t].op \in UC!Gets /\ UC!State(t) = "served"

\* A call of lower_get or lower_put is in progress, or has found its frames, exactly while
\* the call of t waits for it or brings them to its client; it is about the tree whose
\* counter has been reduced, or about the frame that the client has named.
Linked(t) ==
    /\ pc[t] = "put" => lpc[t] # "idle"
    /\ pc[t] \notin {"lower", "put"} => lpc[t] = IF Got(t) THEN "ok" ELSE "idle"
    /\ lpc[t] # "idle" =>
          /\ lpc[t] # "argument"
          /\ lcall[t].op = call[t].op /\ lcall[t].n = call[t].n
          /\ TreeOf(lcall[t].frame) = IF call[t].op = "put" THEN call[t].tree ELSE hand[t].tree
          /\ call[t].op # "get" => lcall[t].frame = target[t] /\ InRange(target[t], call[t].n)
    /\ call[t].op = "get_at" => /\ target[t] \in Frames /\ InRange(target[t], call[t].n)
                                /\ TreeOf(target[t]) = call[t].tree
    /\ call[t].op = "put" => pc[t] = "put" \/ UC!State(t) \in {"served", "rejected"}

\* After a crash there is nothing but what trees_init and ll_local_init will write.
DownOK ==
    /\ L!Recovering => down
    /\ down =>
          /\ slots = [s \in U!Slots |-> U!Nothing]
          /\ pc    = [t \in Threads |-> "idle"] /\ lpc = [t \in Threads |-> "idle"]
          /\ call  = [t \in Threads |-> U!NoCall]
          /\ loc   = [t \in Threads |-> U!NoLoc]
          /\ hand  = [t \in Threads |-> U!Nothing]
          /\ spare = [t \in Threads |-> U!Nothing]

\* What holds in every state of the whole allocator.
UInv ==
    /\ UC!QInv
    /\ \A t \in Threads : Linked(t)
    /\ \A i \in Trees : IsFiniteSet(Freeing(i))
    /\ DownOK

\* A request has the size of a block within a huge page.
LEMMA Requested ==
    ASSUME LC!OneHuge, UC!TypeInv, NEW t \in Threads, call[t].op \in UC!Allocs
    PROVE  /\ call[t] \in Calls /\ call[t].n \in Sizes /\ call[t].n \in Nat \ {0}
           /\ call[t].n <= CHILD_SIZE /\ call[t].n \in 1 .. TREE_SIZE /\ IsSize(call[t].n)
           /\ call[t].tree \in Trees
<1>1. call[t].n \in Nat \ {0} /\ call[t].tree \in UC!Trees
  BY UpperParts, UC!CallFields
<1>2. call[t] \in Calls
  BY DEF UC!TypeInv, UC!TypeOK, UC!NoCall, UC!Allocs
<1>3. call[t].n \in Sizes
  BY <1>2 DEF Sizes
<1>4. call[t].n <= CHILD_SIZE /\ IsSize(call[t].n)
  BY <1>3, SameGeometry, LLFreeAssumption DEF LC!OneHuge
<1> QED BY <1>1, <1>2, <1>3, <1>4, SizesNat, TreesAre

-----------------------------------------------------------------------------
(* Room. *)

\* Frames that are taken out of a finite set.
LEMMA Drawn ==
    ASSUME NEW A, IsFiniteSet(A), NEW X, NEW B, B \subseteq A, B \cap X = {}
    PROVE  /\ Cardinality(A \ (X \cup B)) = Cardinality(A \ X) - Cardinality(B)
           /\ Cardinality(A \ X) \in Nat /\ Cardinality(B) \in Nat
           /\ Cardinality(A \ X) <= Cardinality(A)
           /\ Cardinality(A \ (X \cup B)) \in Nat
<1>1. IsFiniteSet(A \ X) /\ IsFiniteSet(B) /\ IsFiniteSet(A \ (X \cup B))
  <2>1. A \ X \in SUBSET A /\ B \in SUBSET A /\ A \ (X \cup B) \in SUBSET A
    OBVIOUS
  <2> QED BY <2>1, FS_Subset
<1>2. Cardinality(A \ X) <= Cardinality(A)
  <2>1. A \ X \in SUBSET A
    OBVIOUS
  <2> QED BY <2>1, FS_Subset
<1>3. Cardinality((A \ X) \ B) = Cardinality(A \ X) - Cardinality((A \ X) \cap B)
  BY <1>1, FS_Difference
<1>4. (A \ X) \ B = A \ (X \cup B) /\ (A \ X) \cap B = B
  OBVIOUS
<1>5. Cardinality(A \ X) \in Nat /\ Cardinality(B) \in Nat /\ Cardinality(A \ (X \cup B)) \in Nat
  BY <1>1, FS_CardinalityType
<1> QED BY <1>2, <1>3, <1>4, <1>5

\* The set A of taken frames becomes B when frames C of tree i are taken.
Draws(i, A, B, C) == \A j \in Trees :
    /\ Cardinality(TreeFrames(j) \ A) \in Nat /\ Cardinality(TreeFrames(j) \ A) <= UC!FramesOf(j)
    /\ Cardinality(TreeFrames(j) \ B) \in Nat /\ Cardinality(C) \in Nat
    /\ Cardinality(TreeFrames(j) \ B) =
          Cardinality(TreeFrames(j) \ A) - (IF j = i THEN Cardinality(C) ELSE 0)

LEMMA TreeDrawn ==
    ASSUME NEW A, NEW B, NEW C, NEW i \in Trees, C \subseteq TreeFrames(i), C \cap A = {}, B = A \cup C
    PROVE  Draws(i, A, B, C)
<1> SUFFICES ASSUME NEW j \in Trees
             PROVE  /\ Cardinality(TreeFrames(j) \ A) \in Nat
                    /\ Cardinality(TreeFrames(j) \ A) <= UC!FramesOf(j)
                    /\ Cardinality(TreeFrames(j) \ B) \in Nat /\ Cardinality(C) \in Nat
                    /\ Cardinality(TreeFrames(j) \ B) =
                          Cardinality(TreeFrames(j) \ A) - (IF j = i THEN Cardinality(C) ELSE 0)
  BY DEF Draws
<1>1. IsFiniteSet(TreeFrames(i)) /\ IsFiniteSet(TreeFrames(j)) /\ Cardinality(TreeFrames(j)) = UC!FramesOf(j)
  BY TreeSized
<1>2. CASE j = i
  <2> DEFINE F == TreeFrames(j)
  <2>1. IsFiniteSet(F) /\ C \subseteq F /\ Cardinality(F) = UC!FramesOf(j) /\ TreeFrames(j) = F
    BY <1>1, <1>2
  <2> HIDE DEF F
  <2>2. /\ Cardinality(F \ (A \cup C)) = Cardinality(F \ A) - Cardinality(C)
        /\ Cardinality(F \ A) \in Nat /\ Cardinality(C) \in Nat
        /\ Cardinality(F \ A) <= Cardinality(F)
        /\ Cardinality(F \ (A \cup C)) \in Nat
    BY ONLY <2>1, C \cap A = {}, Drawn
  <2> QED BY <1>2, <2>1, <2>2
<1>3. CASE j # i
  <2>1. C \cap TreeFrames(j) = {}
    BY <1>3 DEF TreeFrames
  <2>2. TreeFrames(j) \ B = TreeFrames(j) \ A
    BY <2>1
  <2>3. Cardinality(TreeFrames(j) \ A) \in Nat /\ Cardinality(TreeFrames(j) \ A) <= Cardinality(TreeFrames(j))
    <3>1. {} \subseteq TreeFrames(j) /\ {} \cap A = {}
      OBVIOUS
    <3> QED BY <1>1, <3>1, Drawn
  <2>4. Cardinality(C) \in Nat
    BY <1>1, FS_CardinalityType, FS_Subset
  <2>5. Cardinality(TreeFrames(j) \ A) = Cardinality(TreeFrames(j) \ A) - 0
    BY <2>3
  <2> QED BY <1>1, <1>3, <2>2, <2>3, <2>4, <2>5
<1> QED BY <1>2, <1>3

\* The room of a tree, before and after a step.
LEMMA RoomIs ==
    ASSUME NEW i \in Trees
    PROVE  /\ Room[i] = Cardinality(TreeFrames(i) \ Taken) - Cardinality(Freeing(i))
           /\ Room'[i] = Cardinality(TreeFrames(i) \ Taken') - Cardinality(Freeing(i)')
BY DEF Room

LEMMA RoomStays ==
    ASSUME Taken' = Taken, \A i \in Trees : Freeing(i)' = Freeing(i)
    PROVE  Room' = Room
<1>1. Room = [i \in Trees |-> Cardinality(TreeFrames(i) \ Taken) - Cardinality(Freeing(i))]
  BY DEF Room
<1>2. Room' = [i \in Trees |-> Cardinality(TreeFrames(i) \ Taken') - Cardinality(Freeing(i)')]
  BY DEF Room
<1> QED BY <1>1, <1>2

-----------------------------------------------------------------------------
(* Frames that are being freed. *)

FreeingBy(i) == [t \in Threads |-> IF pc[t] = "put" /\ call[t].tree = i THEN call[t].n ELSE 0]

LEMMA FreeingIsPairs ==
    LC!OneHuge /\ UC!CInv /\ UC!DoingOK => \A i \in Trees :
        /\ FreeingBy(i) \in [Threads -> 0 .. TREE_SIZE]
        /\ Freeing(i) = Pairs(Threads, TREE_SIZE, FreeingBy(i))
<1> SUFFICES ASSUME LC!OneHuge, UC!CInv, UC!DoingOK, NEW i \in Trees
             PROVE  /\ FreeingBy(i) \in [Threads -> 0 .. TREE_SIZE]
                    /\ Freeing(i) = Pairs(Threads, TREE_SIZE, FreeingBy(i))
  OBVIOUS
<1>1. ASSUME NEW t \in Threads, pc[t] = "put"
      PROVE  call[t].n \in 1 .. TREE_SIZE
  <2>1. UC!TypeInv /\ call[t].op = "put"
    BY <1>1, UpperParts, UC!DoingFields DEF UC!Doing
  <2> QED BY <2>1, Requested DEF UC!Allocs
<1>2. \A t \in Threads : FreeingBy(i)[t] = IF pc[t] = "put" /\ call[t].tree = i THEN call[t].n ELSE 0
  BY DEF FreeingBy
<1>3. FreeingBy(i) \in [Threads -> 0 .. TREE_SIZE]
  BY <1>1, SizesNat DEF FreeingBy
<1>4. ASSUME NEW d \in Threads \X (1 .. TREE_SIZE)
      PROVE  (pc[d[1]] = "put" /\ call[d[1]].tree = i /\ d[2] <= call[d[1]].n)
                <=> d[2] <= FreeingBy(i)[d[1]]
  <2>1. d[1] \in Threads /\ d[2] \in 1 .. TREE_SIZE
    OBVIOUS
  <2> QED BY <1>2, <2>1, SizesNat
<1> QED BY <1>3, <1>4 DEF Freeing, Pairs

-----------------------------------------------------------------------------
(* The frames of a call. *)

LEMMA LowerCardinality ==
    ASSUME NEW S PROVE LC!Cardinality(S) = Cardinality(S) /\ LC!IsFiniteSet(S) = IsFiniteSet(S)
BY Zenon DEF LC!Cardinality, Cardinality, LC!IsFiniteSet, IsFiniteSet

LEMMA TakenIs ==
    /\ \A x : x \in Taken <=> \/ x \in lheld \/ x \in lost
                              \/ \E u \in Threads : pc[u] \notin {"lower", "put"} /\ x \in own[u]
    /\ \A x : x \in Taken' <=> \/ x \in lheld' \/ x \in lost'
                               \/ \E u \in Threads : pc'[u] \notin {"lower", "put"} /\ x \in own'[u]
BY DEF Taken

\* What Lower's invariant says of one thread.
LEMMA LowerNow ==
    ASSUME LC!Modest, LowerOK, NEW t \in Threads
    PROVE  /\ own[t] \subseteq Frames /\ own[t] \cap (lheld \cup lost) = {}
           /\ \A u \in Threads : u # t => own[u] \cap own[t] = {}
           /\ lheld \cap lost = {} /\ lheld \subseteq Frames /\ lost \subseteq Frames
           /\ lpc[t] = "idle" => own[t] = {}
           /\ lpc[t] = "ok" /\ lcall[t].op = "put" => own[t] = {}
           /\ lpc[t] = "memory" /\ lcall[t].op # "put" => own[t] = {}
           /\ lpc[t] = "ok" /\ lcall[t].op # "put" => own[t] = Block(lloc[t].f, lcall[t].n) /\ lloc[t].f \in Int
           /\ lcall[t].n \in Nat \ {0} /\ IsSize(lcall[t].n) /\ lcall[t].n <= CHILD_SIZE
           /\ lcall[t].frame \in Frames /\ lcall[t].frame \in Int
           /\ lpc[t] # "abort"
           /\ lcall[t].op = "put" /\ InRange(lcall[t].frame, lcall[t].n)
                => lpc[t] \notin {"memory", "argument"}
<1>1. LC!XInv /\ LC!Plain(t) /\ LC!OneHuge /\ LC!Exclusive /\ LC!InRangeOwned
  BY DEF LowerOK, LC!YInv, LC!PlainOK, LC!Modest, LC!XInv
<1>2. LC!OwnAt(t) /\ own[t] \subseteq LC!Frames
  BY <1>1, LowerParts, LC!Now
<1>3. /\ lcall[t].n \in Nat \ {0} /\ LC!IsSize(lcall[t].n) /\ lcall[t].n <= LC!CHILD_SIZE
      /\ lcall[t].frame \in LC!Frames /\ lcall[t].frame \in Int
  BY <1>1, LowerParts, LC!About
<1>4. /\ lpc[t] = "idle" => own[t] = {}
      /\ lpc[t] = "ok" => IF lcall[t].op = "put" THEN own[t] = {}
                          ELSE lloc[t].f \in LC!Frames /\ own[t] = LC!Block(lloc[t].f, lcall[t].n)
      /\ lpc[t] = "memory" /\ lcall[t].op # "put" => own[t] = {}
  BY <1>2 DEF LC!OwnAt
<1>5. /\ lpc[t] # "abort"
      /\ lcall[t].op = "put" /\ InRange(lcall[t].frame, lcall[t].n)
                => lpc[t] \notin {"memory", "argument"}
  BY <1>1, SameGeometry DEF LC!Plain
<1>6. /\ own[t] \cap (lheld \cup lost) = {} /\ lheld \cap lost = {}
      /\ \A u \in Threads : u # t => own[u] \cap own[t] = {}
  BY <1>1 DEF LC!Exclusive
<1>7. lheld \subseteq Frames /\ lost \subseteq Frames
  BY <1>1, SameGeometry DEF LC!InRangeOwned
<1>8. Frames \subseteq Int
  BY DEF Frames
<1> QED BY <1>2, <1>3, <1>4, <1>5, <1>6, <1>7, <1>8, SameGeometry

\* The frames that a call has marked are frames of its tree.
LEMMA OwnTree ==
    ASSUME LC!Modest, LowerOK, NEW t \in Threads, lpc[t] # "idle"
    PROVE  own[t] \subseteq TreeFrames(TreeOf(lcall[t].frame))
<1>1. own[t] \subseteq Frames /\ lcall[t].frame \in Int /\ lpc[t] # "abort" /\ Frames \subseteq Int
  BY LowerNow DEF Frames
<1>2. ASSUME NEW f \in own[t] PROVE TreeOf(f) = TreeOf(lcall[t].frame)
  <2>1. LC!ChildOf(f) \div TREE_CHILDREN = LC!ChildOf(lcall[t].frame) \div TREE_CHILDREN
    BY <1>1 DEF LowerOK, LC!InTree
  <2> QED BY <1>1, <2>1, SameGeometry, TreeOfChild
<1> QED BY <1>1, <1>2 DEF TreeFrames

\* A call that has got its frames has as many as it asked for, of its tree.
LEMMA OwnSome ==
    ASSUME LC!Modest, LowerOK, NEW t \in Threads, Linked(t), lpc[t] = "ok", call[t].op # "put"
    PROVE  own[t] \subseteq TreeFrames(hand[t].tree) /\ Cardinality(own[t]) = call[t].n
<1>1. lcall[t].op = call[t].op /\ lcall[t].n = call[t].n /\ TreeOf(lcall[t].frame) = hand[t].tree
  BY DEF Linked
<1>2. own[t] = Block(lloc[t].f, call[t].n) /\ lloc[t].f \in Int /\ call[t].n \in Nat
  BY <1>1, LowerNow
<1>3. Cardinality(own[t]) = call[t].n
  <2>1. LC!IsFiniteSet(LC!Block(lloc[t].f, call[t].n)) /\ LC!Cardinality(LC!Block(lloc[t].f, call[t].n)) = call[t].n
    BY <1>2, LowerParts, LC!Blocks
  <2>2. LC!Cardinality(LC!Block(lloc[t].f, call[t].n)) = Cardinality(LC!Block(lloc[t].f, call[t].n))
    BY LowerCardinality
  <2> QED BY <1>2, <2>1, <2>2, SameGeometry
<1> QED BY <1>1, <1>3, OwnTree

\* A call that waits for nothing and has nothing owns nothing.
LEMMA OwnNone ==
    ASSUME LC!Modest, LowerOK, NEW t \in Threads, Linked(t)
    PROVE  /\ pc[t] \notin {"lower", "put"} /\ ~Got(t) => own[t] = {} /\ lpc[t] = "idle"
           /\ pc[t] = "idle" => own[t] = {} /\ lpc[t] = "idle"
<1>1. pc[t] = "idle" => ~Got(t)
  BY DEF Got, UC!State
<1> QED BY <1>1, LowerNow DEF Linked

-----------------------------------------------------------------------------
(* One thread moves. *)

\* Clients do not take trees offline.
LEMMA NoChanges == UC!Clients
<1>1. \A r \in Calls : r.op # "change"
  BY LLFreeAssumption DEF U!Requests, U!NoCall
<1> QED BY <1>1 DEF UC!Clients, UC!OfflineWhole

\* A step of t changes nothing of the other threads.
Apart(t) ==
    /\ LC!Others(t)
    /\ \A u \in Threads \ {t} : /\ pc'[u] = pc[u] /\ call'[u] = call[u] /\ loc'[u] = loc[u]
                                /\ hand'[u] = hand[u] /\ target'[u] = target[u]

\* What LC!Others says, with the names of the whole allocator.
LEMMA LowerOthers ==
    ASSUME NEW t \in Threads
    PROVE  /\ UNCHANGED lower => LC!Others(t)
           /\ LC!Others(t) <=> \A u \in Threads \ {t} :
                 lpc'[u] = lpc[u] /\ lcall'[u] = lcall[u] /\ lloc'[u] = lloc[u] /\ own'[u] = own[u]
BY DEF LC!Others, lower

LEMMA OthersLinked ==
    ASSUME NEW t \in Threads, Apart(t), \A u \in Threads : Linked(u), Linked(t)'
    PROVE  \A u \in Threads : Linked(u)'
<1>1. ASSUME NEW u \in Threads \ {t} PROVE Linked(u)'
  <2>1. /\ pc'[u] = pc[u] /\ call'[u] = call[u] /\ loc'[u] = loc[u]
        /\ hand'[u] = hand[u] /\ target'[u] = target[u]
    BY <1>1 DEF Apart
  <2>2. lpc'[u] = lpc[u] /\ lcall'[u] = lcall[u]
    BY <1>1, LowerOthers DEF Apart
  <2>3. UC!State(u)' = UC!State(u)
    BY <2>1, UpperParts, UC!Seen
  <2>4. Got(u)' <=> Got(u)
    BY <2>1, <2>3 DEF Got
  <2>5. Linked(u)
    OBVIOUS
  <2> QED BY <2>1, <2>2, <2>3, <2>4, <2>5 DEF Linked
<1> QED BY <1>1

\* The frames that are being freed, when t moves.
LEMMA FreeingMoves ==
    ASSUME LC!OneHuge, UC!CInv, UC!DoingOK, NEW t \in Threads, Apart(t),
           pc'[t] = "put" => call'[t].n \in 1 .. TREE_SIZE,
           NEW i \in Trees, IsFiniteSet(Freeing(i))
    PROVE  /\ IsFiniteSet(Freeing(i)') /\ Cardinality(Freeing(i)') \in Nat
           /\ Cardinality(Freeing(i)) \in Nat
           /\ Cardinality(Freeing(i)') = Cardinality(Freeing(i)) - FreeingBy(i)[t] + FreeingBy(i)'[t]
           /\ FreeingBy(i)[t] = IF pc[t] = "put" /\ call[t].tree = i THEN call[t].n ELSE 0
           /\ FreeingBy(i)'[t] = IF pc'[t] = "put" /\ call'[t].tree = i THEN call'[t].n ELSE 0
<1> DEFINE a == FreeingBy(i)
           b == FreeingBy(i)'
<1>1. a \in [Threads -> 0 .. TREE_SIZE] /\ Freeing(i) = Pairs(Threads, TREE_SIZE, a)
  BY FreeingIsPairs
<1>2. /\ \A u \in Threads : a[u] = IF pc[u] = "put" /\ call[u].tree = i THEN call[u].n ELSE 0
      /\ \A u \in Threads : b[u] = IF pc'[u] = "put" /\ call'[u].tree = i THEN call'[u].n ELSE 0
      /\ b = [u \in Threads |-> b[u]]
  BY DEF FreeingBy
<1>3. \A u \in Threads \ {t} : b[u] = a[u]
  BY <1>2 DEF Apart
<1>4. b \in [Threads -> 0 .. TREE_SIZE]
  <2>1. b[t] \in 0 .. TREE_SIZE
    BY <1>2, SizesNat
  <2> QED BY <1>1, <1>2, <1>3, <2>1
<1>5. Freeing(i)' = Pairs(Threads, TREE_SIZE, b)
  <2>1. ASSUME NEW d \in Threads \X (1 .. TREE_SIZE)
        PROVE  (pc'[d[1]] = "put" /\ call'[d[1]].tree = i /\ d[2] <= call'[d[1]].n)
                  <=> d[2] <= b[d[1]]
    <3>1. d[1] \in Threads /\ d[2] \in 1 .. TREE_SIZE
      OBVIOUS
    <3> QED BY <1>2, <3>1, SizesNat
  <2> QED BY <2>1 DEF Freeing, Pairs
<1> HIDE DEF a, b
<1>6. Update(Threads, TREE_SIZE, a, b, {t})
  BY <1>1, <1>3, <1>4, SizesNat DEF Update
<1>7. /\ IsFiniteSet(Pairs(Threads, TREE_SIZE, b))
      /\ Cardinality(Pairs(Threads, TREE_SIZE, b)) = Cardinality(Pairs(Threads, TREE_SIZE, a)) - a[t] + b[t]
      /\ Cardinality(Pairs(Threads, TREE_SIZE, a)) \in Nat
      /\ Cardinality(Pairs(Threads, TREE_SIZE, b)) \in Nat
  BY ONLY <1>6, OneAmount
<1> QED BY <1>1, <1>2, <1>5, <1>7 DEF a, b

\* The facts about a step of t while the process runs.
Runs(t) == Apart(t) /\ ~down /\ ~down' /\ boot' = boot /\ ~L!Recovering

LEMMA RunsUp ==
    ASSUME UInv, NEW t \in Threads, Runs(t)
    PROVE  DownOK' /\ Promised = trees /\ Promised' = trees'
BY DEF Runs, DownOK, Promised, L!Recovering

\* Nobody recovers while the process runs, and no thread has failed.
LEMMA RunningUp ==
    ASSUME UInv, Running
    PROVE  /\ ~down /\ ~L!Recovering /\ ~UC!Aborted /\ ~L!Aborted
           /\ \A t \in Threads : \A label : pc[t] = label => UC!At(t, label)
BY DEF Running, UInv, DownOK, U!Aborted, UC!Aborted, UC!At

\* A thread moves, and the levels stay side by side.
Follows(t) ==
    /\ [UC!Next]_UC!vars /\ Linked(t)' /\ Runs(t)
    /\ pc'[t] = "put" => call'[t].n \in 1 .. TREE_SIZE

LEMMA FollowsKeeps ==
    ASSUME LC!OneHuge, UInv, NEW t \in Threads, Follows(t)
    PROVE  UInv' /\ [UC!Next]_UC!vars
<1>1. UC!QInv' /\ [UC!Next]_UC!vars
  BY UpperParts, NoChanges, UC!NextPool DEF UInv, Follows
<1>2. \A u \in Threads : Linked(u)'
  BY OthersLinked DEF Follows, Runs, UInv
<1>3. \A i \in Trees : IsFiniteSet(Freeing(i)')
  BY FreeingMoves DEF Follows, Runs, UInv, UC!QInv
<1>4. DownOK'
  BY RunsUp DEF Follows
<1> QED BY <1>1, <1>2, <1>3, <1>4 DEF UInv

-----------------------------------------------------------------------------
(* Steps in trees and slots. *)

\* The bridge, for a whole step.
LEMMA SameStep ==
    ASSUME NEW t \in Threads, U!Step(t), pc[t] \notin {"idle", "lower", "put"} \cup U!Done,
           UNCHANGED call, UC!TypeInv, UC!PhaseOK, Promised = trees, Promised' = trees'
    PROVE  UC!Step(t)
<1>1. ~U!Lower(t) /\ ~U!LowerPut(t) /\ ~U!Return(t)
  BY DEF U!Lower, U!LowerPut, U!Return, U!At
<1>2. ~U!ChangeLoad(t) /\ ~U!ChangeFetch(t) /\ ~U!ChangeCas(t)
  <2>1. call[t].op # "change"
    <3>1. call[t] \in Calls \cup {UC!NoCall}
      BY DEF UC!TypeInv, UC!TypeOK
    <3> QED BY <3>1, LLFreeAssumption DEF U!Requests, U!NoCall, UC!NoCall
  <2>2. pc[t] \notin {"change", "fetch", "change_cas"}
    BY <2>1 DEF UC!PhaseOK, UC!Phase, UC!OpAt
  <2> QED BY <2>2 DEF U!ChangeLoad, U!ChangeFetch, U!ChangeCas, U!At
<1>3. CASE U!LocalGet(t) \/ U!SyncSteal(t) \/ U!SyncPut(t) \/ U!GiveBack(t)
  BY <1>3, SameLocalGet, SameSyncSteal, SameSyncPut, SameGiveBack DEF UC!Step
<1>4. CASE U!Scan(t) \/ U!Pick(t) \/ U!Reserve(t) \/ U!StealLoad(t) \/ U!StealCas(t)
  BY <1>4, SameScan, SamePick, SameReserve, SameStealLoad, SameStealCas DEF UC!Step
<1>5. CASE U!Swap(t) \/ U!Unreserve(t) \/ U!DrainSlot(t) \/ U!PutSlot(t)
  BY <1>5, SameSwap, SameUnreserve, SameDrainSlot, SamePutSlot DEF UC!Step
<1>6. CASE U!StealSlot(t) \/ U!TakeSlot(t) \/ U!DemoteSwap(t)
  BY <1>6, SameStealSlot, SameTakeSlot, SameDemoteSwap DEF UC!Step
<1> QED BY <1>1, <1>2, <1>3, <1>4, <1>5, <1>6 DEF U!Step

\* Such a step of t is one of Upper, leaves Lower alone and does not let a get take effect.
LEMMA UpperStepFollows ==
    ASSUME LC!Modest, LowerOK, UInv, NEW t \in Threads, UpperStep(t)
    PROVE  Follows(t)
<1>1. /\ Running /\ pc[t] \notin {"idle", "lower", "put"} \cup U!Done
      /\ UNCHANGED <<lower, call, target, down>> /\ U!Step(t)
  BY DEF UpperStep
<1>2. UC!CInv /\ UC!DoingOK /\ UC!TypeInv /\ UC!PhaseOK /\ Linked(t)
  BY DEF UInv, UC!QInv, UC!CInv, UC!IInv
<1>3. ~down /\ ~down' /\ boot' = boot /\ ~L!Recovering /\ Promised = trees /\ Promised' = trees'
  BY <1>1, RunningUp DEF Promised, lower
<1>4. UC!Step(t)
  BY <1>1, <1>2, <1>3, SameStep
<1>5. [UC!Next]_UC!vars
  BY <1>4 DEF UC!Next
<1>6. UC!QInv'
  BY <1>5, UpperParts, NoChanges, UC!NextPool DEF UInv
<1>7. Apart(t)
  <2>1. UC!Others(t)
    BY <1>2, <1>4, UpperParts, UC!StepOthers
  <2>2. LC!Others(t)
    BY <1>1, LowerOthers
  <2> QED BY <1>1, <2>1, <2>2 DEF Apart, UC!Others
<1>8. UNCHANGED <<Room, call>>
  BY <1>1, <1>4 DEF UC!Step, U!Step, U!LocalGet, U!SyncSteal, U!SyncPut, U!PutInSlot, U!GiveBack, U!Scan, U!Pick, U!Reserve,
     U!StealLoad, U!StealCas, U!Swap, U!Unreserve, U!DrainSlot, U!PutSlot, U!StealSlot, U!TakeSlot,
     U!DemoteSwap, U!ChangeLoad, U!ChangeFetch, U!ChangeCas, U!Lower, U!LowerPut, U!Return, U!At, U!counters, U!Done
<1>9. /\ UC!Doing(pc'[t], call[t], loc'[t], hand'[t])
      /\ UC!State(t) = UC!StateOf(pc[t], call[t], loc[t])
      /\ UC!State(t)' = UC!StateOf(pc'[t], call[t], loc'[t])
      /\ UC!From(t) = UC!FromOf(pc[t], call[t], loc[t], hand[t])
      /\ UC!From(t)' = UC!FromOf(pc'[t], call[t], loc'[t], hand'[t])
  BY <1>1, <1>6, UpperParts, UC!Seen DEF UC!QInv, UC!DoingOK
<1>10. ASSUME call[t].op \in UC!Allocs
       PROVE  /\ UC!State(t) \in {"served", "rejected"} =>
                   UC!State(t)' = UC!State(t) /\ UC!From(t)' = UC!From(t)
              /\ UC!State(t) = "called" /\ call[t].op \in UC!Gets => UC!State(t)' = "called"
  BY <1>5, <1>8, <1>10, UpperParts, NoChanges, UC!EffectStays DEF UInv
<1>11. UC!Gets \subseteq UC!Allocs /\ "put" \in UC!Allocs /\ "put" \notin UC!Gets
  BY DEF UC!Gets, UC!Allocs
<1>12. pc'[t] # "put"
  <2> SUFFICES ASSUME pc'[t] = "put" PROVE FALSE
    OBVIOUS
  <2>1. call[t].op = "put"
    BY <1>9 DEF UC!Doing
  <2>2. UC!State(t) \in {"served", "rejected"}
    BY <1>1, <1>2, <2>1 DEF Linked
  <2>3. UC!State(t)' = "called"
    BY <1>9, UpperParts, UC!StateCases DEF UC!Waiting
  <2> QED BY <1>10, <1>11, <2>1, <2>2, <2>3
<1>13. call[t].op \in UC!Gets => UC!State(t) \in {"served", "called"}
  <2>1. pc[t] # "idle"
    BY <1>1
  <2> QED BY <1>9, <1>11, <2>1 DEF UC!StateOf
<1>14. Got(t)' <=> Got(t)
  BY <1>1, <1>10, <1>11, <1>13 DEF Got
<1>15. Got(t) => hand'[t].tree = hand[t].tree
  BY <1>9, <1>10, <1>11 DEF Got, UC!FromOf, UC!Gets
<1>16. call[t].op = "put" => UC!State(t)' \in {"served", "rejected"}
  BY <1>1, <1>2, <1>10, <1>11 DEF Linked
<1>17. Linked(t)'
  BY <1>1, <1>2, <1>11, <1>12, <1>14, <1>15, <1>16 DEF Linked, lower, Got
<1> QED BY <1>1, <1>3, <1>5, <1>7, <1>12, <1>17 DEF Follows, Runs

-----------------------------------------------------------------------------
(* The start of a call. *)

LEMMA StartFollows ==
    ASSUME LC!Modest, LowerOK, UInv, NEW t \in Threads, NEW r \in Calls, Start(t, r)
    PROVE  Follows(t)
<1>0. DOMAIN target = Threads
  BY DEF LowerOK, Asked
<1>1. /\ Running /\ pc[t] = "idle" /\ UNCHANGED <<lower, down>>
      /\ U!Get(t, r) \/ U!GetAt(t, r) \/ U!Drain(t, r) \/ (~U!Valid(r) /\ U!Put(t, r))
      /\ IF r.op = "get_at" THEN \E f \in TreeFrames(r.tree) : InRange(f, r.n) /\ Aim(t, f)
         ELSE UNCHANGED target
  BY DEF Start, At
<1>2. UC!CInv /\ UC!TypeInv /\ Linked(t)
  BY DEF UInv, UC!QInv, UC!CInv, UC!IInv
<1>3. ~down /\ ~down' /\ boot' = boot /\ ~L!Recovering /\ Promised = trees /\ Promised' = trees'
  BY <1>1, RunningUp DEF Promised, lower
<1>4. UC!Get(t, r) \/ UC!GetAt(t, r) \/ UC!Drain(t, r) \/ (~UC!Valid(r) /\ UC!Put(t, r))
  <2>1. UC!Valid(r) <=> U!Valid(r)
    BY DEF U!Valid, UC!Valid, U!FramesOf, UC!FramesOf, U!NoLocal, UC!NoLocal
  <2> QED BY <1>1, <1>3, <2>1, SameUpperGet, SameUpperGetAt, SameDrain, SameUpperPut
<1>5. UC!Start(t) /\ [UC!Next]_UC!vars
  BY <1>4 DEF UC!Start, UC!Next
<1>6. UC!Others(t) /\ LC!Others(t)
  BY <1>1, <1>2, <1>5, UpperParts, UC!StartOthers, LowerOthers
<1>7. \A u \in Threads \ {t} : target'[u] = target[u]
  <2>1. target' = target \/ \E f : Aim(t, f)
    BY <1>1
  <2> QED BY <1>0, <2>1 DEF Aim
<1>8. Runs(t)
  BY <1>1, <1>3, <1>6, <1>7 DEF Runs, Apart, UC!Others
<1>9. call'[t] = r /\ hand' = hand
  BY <1>2, <1>4 DEF UC!Get, UC!GetAt, UC!Drain, UC!Put, UC!Begin, UC!TypeInv, UC!TypeOK
<1>10. /\ pc'[t] \in {"argument", "local", "scan", "load", "drain"}
       /\ r.op = "put" => pc'[t] = "argument"
       /\ pc'[t] = "drain" => r.op = "drain"
  BY <1>2, <1>4 DEF UC!Get, UC!GetAt, UC!Drain, UC!Put, UC!Goto, UC!UseLocal, UC!SearchFrom,
     UC!TypeInv, UC!TypeOK
<1>11. UC!State(t)' = IF r.op = "put" THEN "rejected" ELSE "called"
  BY <1>9, <1>10, UpperParts, UC!Seen, UC!StateCases DEF UC!Waiting
<1>12. lpc[t] = "idle" /\ lpc' = lpc
  <2>1. UC!State(t) = "idle"
    BY <1>1, UpperParts, UC!Seen, UC!StateCases
  <2> QED BY <1>1, <1>2, <2>1 DEF Linked, Got, lower
<1>13. ~Got(t)'
  BY <1>11 DEF Got
<1>14. r.op = "get_at" => target'[t] \in Frames /\ InRange(target'[t], r.n) /\ TreeOf(target'[t]) = r.tree
  <2> SUFFICES ASSUME r.op = "get_at"
               PROVE  target'[t] \in Frames /\ InRange(target'[t], r.n) /\ TreeOf(target'[t]) = r.tree
    OBVIOUS
  <2>1. PICK f \in TreeFrames(r.tree) : InRange(f, r.n) /\ Aim(t, f)
    BY <1>1
  <2> QED BY <1>0, <2>1 DEF Aim, TreeFrames
<1>15. Linked(t)'
  BY <1>9, <1>10, <1>11, <1>12, <1>13, <1>14 DEF Linked
<1> QED BY <1>5, <1>8, <1>10, <1>15 DEF Follows

\* An aligned block is in one tree.
LEMMA BlockInTree ==
    ASSUME NEW f \in Frames, NEW n \in Nat \ {0}, IsSize(n), n <= CHILD_SIZE, InRange(f, n)
    PROVE  /\ Block(f, n) \subseteq TreeFrames(TreeOf(f))
           /\ IsFiniteSet(Block(f, n)) /\ Cardinality(Block(f, n)) = n
<1>1. f \in Int /\ f % n = 0 /\ f + n <= FRAMES /\ f \in Nat
  BY GeometryAssumption DEF Frames, InRange
<1>2. Block(f, n) \subseteq ChildFrames(ChildOf(f))
  BY <1>1, LowerParts, SameGeometry, LC!BlockInChild
<1>3. ASSUME NEW x \in Block(f, n) PROVE x \in Frames /\ TreeOf(x) = TreeOf(f)
  <2>1. x \in Int /\ x \in Frames
    BY <1>1, GeometryAssumption DEF Block, Frames
  <2>2. ChildOf(f) \in Int
    BY <1>1, TreeOfChild
  <2>3. ChildOf(x) = ChildOf(f)
    BY <1>2, <2>1, <2>2, LowerParts, SameGeometry, LC!FramesOfChild
  <2> QED BY <1>1, <2>1, <2>3, TreeOfChild
<1>4. IsFiniteSet(Block(f, n)) /\ Cardinality(Block(f, n)) = n
  <2>1. LC!IsFiniteSet(LC!Block(f, n)) /\ LC!Cardinality(LC!Block(f, n)) = n
    BY <1>1, LowerParts, LC!Blocks
  <2>2. LC!Cardinality(LC!Block(f, n)) = Cardinality(LC!Block(f, n))
        /\ LC!IsFiniteSet(LC!Block(f, n)) = IsFiniteSet(LC!Block(f, n))
    BY LowerCardinality
  <2> QED BY <2>1, <2>2, SameGeometry
<1> QED BY <1>3, <1>4 DEF TreeFrames

\* What lower_put takes over from the client, in the state of Lower.
LEMMA LowerPutTakes ==
    ASSUME LC!Modest, LowerOK, NEW t \in Threads, NEW f, NEW n, L!Put(t, f, n)
    PROVE  /\ lpc[t] = "idle" /\ lpc'[t] \in {"huge", "load"} /\ InRange(f, n)
           /\ lcall'[t] = [op |-> "put", frame |-> f, n |-> n]
           /\ Block(f, n) \subseteq lheld /\ lheld' = lheld \ Block(f, n)
           /\ lost' = lost /\ boot' = boot /\ crashes' = crashes
           /\ LC!Others(t) /\ ~L!Recovering
<1>1. LC!TypeOK
  BY DEF LowerOK, LC!YInv, LC!XInv, LC!TypeInv
<1>2. LC!Put(t, f, n)
  BY SamePut
<1>3. /\ lpc[t] = "idle" /\ LC!InRange(f, n) /\ LC!Block(f, n) \subseteq lheld
      /\ lcall' = [lcall EXCEPT ![t] = [op |-> "put", frame |-> f, n |-> n]]
      /\ own' = [own EXCEPT ![t] = LC!Block(f, n)] /\ lheld' = lheld \ LC!Block(f, n)
      /\ lpc' = [lpc EXCEPT ![t] = IF n >= LC!CHILD_SIZE THEN "huge" ELSE "load"]
      /\ UNCHANGED <<lloc, lost, boot, crashes>> /\ ~LC!Recovering
  BY <1>2 DEF LC!Put, LC!At, LC!MayFree, LC!Goto, LC!system
<1>4. ~L!Recovering
  BY <1>3 DEF LC!Recovering, L!Recovering, LC!ChildCount, L!ChildCount, LC!DivCeil, L!DivCeil,
     LC!CHILD_SIZE, L!CHILD_SIZE
<1>5. lpc'[t] \in {"huge", "load"}
  BY <1>1, <1>3 DEF LC!TypeOK
<1> QED BY <1>1, <1>3, <1>4, <1>5, SameGeometry DEF LC!TypeOK, LC!Others

\* llfree_put gives frames up to lower_put at once, and the counters do not see it yet.
LEMMA PutFollows ==
    ASSUME LC!Modest, LowerOK, UInv, NEW t \in Threads, NEW r \in Calls, Put(t, r)
    PROVE  Follows(t)
<1>1. /\ Running /\ pc[t] = "idle" /\ r.op = "put" /\ U!Valid(r)
      /\ call' = [call EXCEPT ![t] = r]
      /\ loc' = [loc EXCEPT ![t] = [U!NoLoc EXCEPT !.from = "put"]]
      /\ pc' = [pc EXCEPT ![t] = "put"]
      /\ UNCHANGED <<trees, slots, hand, spare, down>>
  BY DEF Put, At, U!SetLoc, U!Goto
<1>2. PICK f \in TreeFrames(r.tree) : L!Put(t, f, r.n) /\ Aim(t, f)
  BY DEF Put
<1> DEFINE B == Block(f, r.n)
           i == r.tree
<1>3. /\ lpc[t] = "idle" /\ lpc'[t] \in {"huge", "load"} /\ InRange(f, r.n)
      /\ lcall'[t] = [op |-> "put", frame |-> f, n |-> r.n]
      /\ B \subseteq lheld /\ lheld' = lheld \ B
      /\ lost' = lost /\ boot' = boot /\ crashes' = crashes
      /\ LC!Others(t) /\ ~L!Recovering
  BY <1>2, LowerPutTakes
<1>4. UC!CInv /\ UC!DoingOK /\ UC!TypeInv /\ UC!TypeOK /\ Linked(t)
  BY DEF UInv, UC!QInv, UC!CInv, UC!IInv, UC!TypeInv
<1>5. ~down /\ ~down' /\ Promised = trees /\ Promised' = trees' /\ UC!At(t, "idle")
  BY <1>1, RunningUp DEF Promised
<1>6. /\ f \in Frames /\ TreeOf(f) = i /\ i \in Trees
      /\ r.n \in Nat \ {0} /\ r.n <= CHILD_SIZE /\ IsSize(r.n) /\ r.n \in 1 .. TREE_SIZE
  <2>1. f \in Frames /\ TreeOf(f) = i
    BY DEF TreeFrames
  <2>2. r.n \in Sizes
    BY DEF Sizes
  <2>3. r.n \in Nat \ {0}
    BY <1>1, LLFreeAssumption DEF U!Requests, U!NoCall
  <2>4. r.n <= CHILD_SIZE /\ IsSize(r.n)
    BY <2>2, SameGeometry, LLFreeAssumption DEF LC!Modest, LC!OneHuge
  <2> QED BY <2>1, <2>3, <2>4, SizesNat DEF Trees
<1>7. B \subseteq TreeFrames(i) /\ IsFiniteSet(B) /\ Cardinality(B) = r.n
  BY <1>3, <1>6, BlockInTree
<1>8. Apart(t)
  <2>1. DOMAIN target = Threads
    BY DEF LowerOK, Asked
  <2> QED BY <1>1, <1>2, <1>3, <1>4, <2>1 DEF Apart, Aim, UC!TypeOK, UC!TypeInv
<1>9. pc'[t] = "put" /\ call'[t] = r
  BY <1>1, <1>4 DEF UC!TypeOK
<1>10. B \cap Taken' = {} /\ Taken = Taken' \cup B
  <2>1. own[t] = {}
    BY <1>3, LowerNow
  <2>2. ASSUME NEW u \in Threads, u # t
        PROVE  pc'[u] = pc[u] /\ own'[u] = own[u] /\ own[u] \cap lheld = {}
    BY <1>8, <2>2, LowerOthers, LowerNow DEF Apart
  <2>3. \A x : x \in Taken' <=> \/ x \in lheld' \/ x \in lost
                                \/ \E u \in Threads \ {t} : pc[u] \notin {"lower", "put"} /\ x \in own[u]
    BY <1>3, <1>9, <2>2, TakenIs
  <2>4. \A x : x \in Taken <=> \/ x \in lheld \/ x \in lost
                               \/ \E u \in Threads \ {t} : pc[u] \notin {"lower", "put"} /\ x \in own[u]
    BY <2>1, TakenIs
  <2>5. lheld \cap lost = {}
    BY LowerNow
  <2> QED BY <1>3, <2>2, <2>3, <2>4, <2>5
<1>11. Room' = Room
  <2> HIDE DEF B, i
  <2>0. Draws(i, Taken', Taken, B)
    BY ONLY <1>6, <1>7, <1>10, TreeDrawn
  <2>1. ASSUME NEW j \in Trees PROVE Room'[j] = Room[j]
    <3>1. /\ Cardinality(TreeFrames(j) \ Taken) = Cardinality(TreeFrames(j) \ Taken')
                - (IF j = i THEN Cardinality(B) ELSE 0)
          /\ Cardinality(TreeFrames(j) \ Taken') \in Nat
      BY ONLY <2>0, j \in Trees DEF Draws
    <3>2. /\ Cardinality(Freeing(j)') = Cardinality(Freeing(j)) - FreeingBy(j)[t] + FreeingBy(j)'[t]
          /\ Cardinality(Freeing(j)) \in Nat
          /\ FreeingBy(j)[t] = 0
          /\ FreeingBy(j)'[t] = IF j = i THEN r.n ELSE 0
      BY <1>1, <1>4, <1>6, <1>8, <1>9, FreeingMoves DEF UInv, LC!Modest, i
    <3>5. /\ Room[j] = Cardinality(TreeFrames(j) \ Taken) - Cardinality(Freeing(j))
          /\ Room'[j] = Cardinality(TreeFrames(j) \ Taken') - Cardinality(Freeing(j)')
      BY RoomIs
    <3> QED BY ONLY <1>6, <1>7, <3>1, <3>2, <3>5
  <2> QED BY <2>1 DEF Room
<1>12. Held' = [Held EXCEPT ![i] = @ - r.n] /\ Held[i] >= r.n
  <2> DEFINE X == Frames \ lheld
             Y == Frames \ lheld'
  <2>6. Draws(i, X, Y, B)
    <3>1. B \cap X = {} /\ Y = X \cup B
      BY <1>3, <1>7 DEF TreeFrames
    <3> HIDE DEF X, Y, B, i
    <3> QED BY ONLY <1>6, <1>7, <3>1, TreeDrawn
  <2>1. ASSUME NEW j \in Trees
        PROVE  /\ Cardinality(TreeFrames(j) \cap lheld')
                    = Cardinality(TreeFrames(j) \cap lheld) - (IF j = i THEN r.n ELSE 0)
               /\ Cardinality(TreeFrames(j) \cap lheld') \in Nat
               /\ Cardinality(TreeFrames(j) \cap lheld) \in Nat
    <3>1. TreeFrames(j) \ X = TreeFrames(j) \cap lheld /\ TreeFrames(j) \ Y = TreeFrames(j) \cap lheld'
      BY DEF TreeFrames
    <3> HIDE DEF X, Y, B, i
    <3> QED BY ONLY <1>6, <1>7, <2>6, <3>1, j \in Trees DEF Draws
  <2>2. Held = [j \in Trees |-> Cardinality(TreeFrames(j) \cap lheld)]
        /\ Held' = [j \in Trees |-> Cardinality(TreeFrames(j) \cap lheld')]
    BY DEF Held
  <2> HIDE DEF B, i
  <2>3. \A j \in Trees : Held'[j] = IF j = i THEN Held[i] - r.n ELSE Held[j]
    BY ONLY <1>6, <2>1, <2>2
  <2>4. Held[i] >= r.n
    <3>1. /\ Cardinality(TreeFrames(i) \cap lheld') = Cardinality(TreeFrames(i) \cap lheld) - r.n
          /\ Cardinality(TreeFrames(i) \cap lheld') \in Nat
          /\ Cardinality(TreeFrames(i) \cap lheld) \in Nat
      BY ONLY <1>6, <2>1
    <3>2. Held[i] = Cardinality(TreeFrames(i) \cap lheld)
      BY ONLY <1>6, <2>2
    <3> QED BY ONLY <1>6, <3>1, <3>2
  <2>5. Held' = [Held EXCEPT ![i] = @ - r.n]
    BY ONLY <1>6, <2>2, <2>3
  <2> QED BY <2>4, <2>5 DEF i
<1>13. UC!Put(t, r)
  <2>1. UC!Valid(r)
    BY <1>1 DEF U!Valid, UC!Valid, U!FramesOf, UC!FramesOf, U!NoLocal, UC!NoLocal
  <2>2. U!NoLoc = UC!NoLoc
    BY DEF U!NoLoc, UC!NoLoc, U!Entry, UC!Entry
  <2> QED BY <1>1, <1>3, <1>5, <1>11, <1>12, <2>1, <2>2
          DEF UC!Put, UC!Begin, UC!Goto, UC!SetLoc, UC!counters
<1>14. [UC!Next]_UC!vars
  BY <1>13 DEF UC!Next, UC!Start
<1>15. Linked(t)'
  <2>1. target'[t] = f
    BY <1>2 DEF LowerOK, Asked, Aim
  <2>2. UC!State(t)' = "called"
    BY <1>9, UpperParts, UC!Seen, UC!StateCases DEF UC!Waiting
  <2> QED BY <1>1, <1>3, <1>6, <1>9, <2>1, <2>2 DEF Linked, Got
<1> QED BY <1>3, <1>5, <1>6, <1>8, <1>9, <1>14, <1>15 DEF Follows, Runs

-----------------------------------------------------------------------------
(* The lower allocator works. *)

\* Of what a call owns before it returns, Upper sees nothing.
LEMMA WorkUnseen ==
    ASSUME UInv, Running, NEW t \in Threads, UNCHANGED upper, LC!Others(t),
           UNCHANGED <<lheld, lost, boot, crashes>>, pc[t] \notin {"lower", "put"} => own'[t] = own[t]
    PROVE  Runs(t) /\ UNCHANGED UC!vars
<1>1. /\ ~down /\ ~down' /\ ~L!Recovering /\ Promised = trees /\ Promised' = trees'
      /\ UNCHANGED <<trees, slots, pc, call, loc, hand, spare, target>>
  BY RunningUp DEF upper, Promised
<1>2. Runs(t)
  BY <1>1 DEF Runs, Apart
<1>3. Taken' = Taken
  <2>1. \A u \in Threads : pc[u] \notin {"lower", "put"} => own'[u] = own[u]
    BY LowerOthers
  <2> QED BY <1>1, <2>1 DEF Taken
<1>4. Room' = Room
  <2>1. \A i \in Trees : Freeing(i)' = Freeing(i)
    BY <1>1 DEF Freeing
  <2> QED BY <1>3, <2>1, RoomStays
<1>5. Held' = Held
  BY DEF Held
<1> QED BY <1>1, <1>2, <1>4, <1>5 DEF UC!vars, UC!counters, UC!thread

\* lower_get and lower_get_at start with frames that have been counted for the call.
LEMMA LowerGetFollows ==
    ASSUME LC!Modest, LowerOK, UInv, NEW t \in Threads, LowerGet(t)
    PROVE  Follows(t)
<1>1. /\ Running /\ pc[t] = "lower" /\ lpc[t] = "idle" /\ UNCHANGED upper
      /\ IF call[t].op = "get_at" THEN L!GetAt(t, target[t], call[t].n)
         ELSE \E start \in Starts \cap TreeFrames(hand[t].tree) : L!Get(t, start, call[t].n)
  BY DEF LowerGet, At
<1>2. LC!TypeOK
  BY DEF LowerOK, LC!YInv, LC!XInv, LC!TypeInv
<1>3. /\ UC!DoingOK /\ Linked(t)
      /\ call[t].op \in UC!Gets /\ call[t].op # "put"
      /\ call[t].op = "get_at" => hand[t].tree = call[t].tree
  BY <1>1, UpperParts, UC!DoingFields DEF UInv, UC!QInv, UC!Doing, UC!Getting, UC!Gets
<1>4. UNCHANGED <<pc, call, hand, target>>
  BY <1>1 DEF upper
<1>5. /\ LC!Others(t) /\ UNCHANGED <<lheld, lost, boot, crashes>>
      /\ lpc'[t] \notin {"idle", "argument"}
      /\ lcall'[t].op = call[t].op /\ lcall'[t].n = call[t].n
      /\ TreeOf(lcall'[t].frame) = hand[t].tree
      /\ call[t].op # "get" => lcall'[t].frame = target[t] /\ InRange(target[t], call[t].n)
  <2>1. CASE call[t].op = "get_at"
    <3>1. LC!GetAt(t, target[t], call[t].n)
      BY <1>1, <2>1, SameGetAt
    <3>2. InRange(target[t], call[t].n) /\ TreeOf(target[t]) = hand[t].tree
      BY <1>3, <2>1 DEF Linked
    <3>3. /\ lcall' = [lcall EXCEPT ![t] = [op |-> "get_at", frame |-> target[t], n |-> call[t].n]]
          /\ lpc' = [lpc EXCEPT ![t] = IF call[t].n >= LC!CHILD_SIZE THEN "huge" ELSE "dec"]
          /\ UNCHANGED <<lloc, own, lheld, lost, boot, crashes>>
      BY <3>1, <3>2, SameGeometry DEF LC!GetAt, LC!Goto, LC!clients, LC!system
    <3> QED BY <1>2, <2>1, <3>2, <3>3 DEF LC!TypeOK, LC!Others
  <2>2. CASE call[t].op # "get_at"
    <3>1. PICK start \in Starts \cap TreeFrames(hand[t].tree) : L!Get(t, start, call[t].n)
      BY <1>1, <2>2
    <3>2. LC!Get(t, start, call[t].n) /\ TreeOf(start) = hand[t].tree /\ call[t].op = "get"
      BY <1>3, <2>2, <3>1, SameGet DEF TreeFrames, UC!Gets
    <3>3. /\ lcall' = [lcall EXCEPT ![t] = [op |-> "get", frame |-> start, n |-> call[t].n]]
          /\ lpc' = [lpc EXCEPT ![t] = IF call[t].n >= LC!CHILD_SIZE THEN "huge" ELSE "dec"]
          /\ UNCHANGED <<lloc, own, lheld, lost, boot, crashes>>
      BY <3>2 DEF LC!Get, LC!Goto, LC!clients, LC!system
    <3> QED BY <1>2, <3>2, <3>3 DEF LC!TypeOK, LC!Others
  <2> QED BY <2>1, <2>2
<1>6. Runs(t) /\ UNCHANGED UC!vars
  BY <1>1, <1>5, WorkUnseen
<1>7. Linked(t)'
  BY <1>1, <1>3, <1>4, <1>5 DEF Linked
<1> QED BY <1>1, <1>4, <1>6, <1>7 DEF Follows

\* Rows, children and the frames a call owns change, and Upper sees nothing of it.
LEMMA LowerStepFollows ==
    ASSUME LC!Modest, LowerOK, LowerOK', UInv, NEW t \in Threads, LowerStep(t)
    PROVE  Follows(t)
<1>1. /\ Running /\ lpc[t] \notin L!Done /\ L!Step(t) /\ UNCHANGED upper
  BY DEF LowerStep
<1>2. LC!XInv /\ LC!Step(t) /\ ~LC!Return(t)
  <2>1. LC!Step(t)
    BY <1>1, LowerSteps
  <2>2. ~LC!Return(t)
    BY <1>1 DEF LC!Return, LC!At, LC!Done, L!Done
  <2> QED BY <2>1, <2>2 DEF LowerOK, LC!YInv
<1>3. LC!Moves(t)
  BY <1>2, LowerParts, LC!StepMoves
<1>4. /\ LC!Others(t) /\ UNCHANGED <<lcall, lheld, lost, boot, crashes>>
      /\ lpc[t] # "idle" /\ lpc'[t] # "idle"
  BY <1>3 DEF LC!Moves, LC!Inside, LC!clients, LC!system
<1>5. UNCHANGED <<pc, call, loc, hand, target>> /\ Linked(t)
  BY <1>1 DEF upper, UInv
<1>6. pc[t] \in {"lower", "put"}
  BY <1>1, <1>4, <1>5 DEF Linked, L!Done
<1>7. lpc'[t] # "argument"
  <2>1. CASE lcall[t].op = "put"
    <3>1. InRange(lcall'[t].frame, lcall'[t].n) /\ lcall'[t].op = "put"
      <4>1. call[t].op = "put" /\ lcall[t].frame = target[t] /\ lcall[t].n = call[t].n
            /\ InRange(target[t], call[t].n)
        BY <1>4, <1>5, <2>1 DEF Linked
      <4> QED BY <1>4, <2>1, <4>1
    <3>2. LC!Plain(t)'
      BY DEF LowerOK, LC!YInv, LC!PlainOK
    <3>3. LC!InRange(lcall'[t].frame, lcall'[t].n)
      BY <3>1, SameGeometry
    <3> QED BY <3>1, <3>2, <3>3 DEF LC!Plain
  <2>2. CASE lcall[t].op # "put"
    BY <1>2, <2>2, LowerParts, LC!NotRefused
  <2> QED BY <2>1, <2>2
<1>8. Runs(t) /\ UNCHANGED UC!vars
  BY <1>1, <1>4, <1>6, WorkUnseen
<1>9. Linked(t)'
  <2>1. call[t].op = "put" => pc[t] = "put"
    BY <1>6, UpperParts, UC!DoingFields DEF UInv, UC!QInv, UC!Getting
  <2> QED BY <1>4, <1>5, <1>6, <1>7, <2>1 DEF Linked
<1>10. pc'[t] = "put" => call'[t].n \in 1 .. TREE_SIZE
  <2> SUFFICES ASSUME pc[t] = "put" PROVE call[t].n \in 1 .. TREE_SIZE
    BY <1>5
  <2>1. UC!TypeInv /\ call[t].op = "put"
    BY UpperParts, UC!DoingFields DEF UInv, UC!QInv, UC!CInv, UC!IInv, UC!Doing
  <2> QED BY <2>1, Requested DEF UC!Allocs, LC!Modest
<1> QED BY <1>8, <1>9, <1>10 DEF Follows

-----------------------------------------------------------------------------
(* The lower allocator returns. *)

\* A call that waits for the lower allocator has frames of its tree in hand, and that
\* many are free there.
LEMMA AtLower ==
    ASSUME UInv, NEW t \in Threads, pc[t] = "lower"
    PROVE  /\ hand[t].tree \in Trees /\ hand[t] \in UC!Reservations
           /\ call[t].n \in Nat \ {0} /\ hand[t].free \in Nat /\ call[t].n <= hand[t].free
           /\ \A j \in Trees : Room[j] \in Nat /\ Room[j] <= UC!FramesOf(j)
           /\ hand[t].free <= Room[hand[t].tree]
           /\ call[t].op \in UC!Gets /\ call[t].op # "put" /\ call[t].op # "drain"
           /\ call[t].op = "get_at" => hand[t].tree = call[t].tree
           /\ hand[t].present => loc[t].from = "search"
<1> DEFINE i == hand[t].tree
<1>1. UC!CInv /\ UC!DoingOK /\ UC!TypeInv
  BY DEF UInv, UC!QInv, UC!CInv, UC!IInv
<1>2. /\ call[t].op \in UC!Gets /\ call[t].op # "put" /\ call[t].op # "drain"
      /\ call[t].op = "get_at" => i = call[t].tree
      /\ hand[t] \in UC!Reservations /\ hand[t].free >= call[t].n
      /\ hand[t].present => loc[t].from = "search"
      /\ i \in UC!Trees /\ call[t].n \in Nat \ {0}
  <2>1. /\ UC!Doing(pc[t], call[t], loc[t], hand[t]) /\ pc[t] \in UC!Getting
        /\ UC!Phase(pc[t], call[t], loc[t], hand[t], spare[t])
        /\ call[t].op \in UC!Gets /\ call[t].op # "put"
    BY <1>1, UpperParts, UC!DoingFields DEF UC!Getting
  <2>2. hand[t] \in UC!Reservations
    BY <1>1 DEF UC!TypeInv, UC!TypeOK
  <2>3. call[t].n \in Nat \ {0} /\ call[t].op # "drain"
    BY <1>1, <2>1, UpperParts, UC!CallFields DEF UC!Gets, UC!Allocs
  <2> QED BY <2>1, <2>2, <2>3 DEF UC!Phase, UC!InHand, UC!Doing, UC!Reservations
<1>3. i \in Trees
  BY <1>2, TreesAre
<1>4. hand[t].free \in Nat
  BY <1>2, SizesNat DEF UC!Reservations
<1>5. \A j \in Trees : Room[j] \in Nat /\ Room[j] <= UC!FramesOf(j)
  BY <1>1, UpperParts, UC!EntryFields, TreesAre
<1>6. hand[t].free <= Room[i]
  <2>1. /\ UC!Of(hand[t], i) = hand[t].free /\ UC!Of(spare[t], i) \in Nat
    <3>1. spare[t] \in UC!Reservations
      BY <1>1 DEF UC!TypeInv, UC!TypeOK
    <3> QED BY <3>1, SizesNat DEF UC!Of, UC!Reservations
  <2>2. /\ UC!Cardinality(UC!Tokens(i)) \in Nat
        /\ UC!Of(hand[t], i) + UC!Of(spare[t], i) <= UC!Cardinality(UC!Tokens(i))
    BY <1>1, <1>2, UpperParts, UC!PartCounted
  <2>3. Promised[i].free \in Nat
    BY <1>1, <1>2, UpperParts, UC!Bounded
  <2>4. Promised[i].free + UC!Cardinality(UC!Tokens(i)) = Room[i]
    BY <1>1, <1>2 DEF UC!CInv, UC!CountOK, UC!Count
  <2> HIDE DEF i
  <2> QED BY <1>3, <1>4, <1>5, <2>1, <2>2, <2>3, <2>4
<1> QED BY <1>2, <1>3, <1>4, <1>5, <1>6

\* A step at which nothing is being freed by t leaves the frames that are freed alone.
LEMMA FreeingStays ==
    ASSUME LC!OneHuge, UInv, NEW t \in Threads, Apart(t), pc[t] # "put", pc'[t] # "put",
           NEW i \in Trees
    PROVE  Cardinality(Freeing(i)') = Cardinality(Freeing(i)) /\ Cardinality(Freeing(i)) \in Nat
<1>1. UC!CInv /\ UC!DoingOK /\ IsFiniteSet(Freeing(i))
  BY DEF UInv, UC!QInv
<1>2. /\ Cardinality(Freeing(i)') = Cardinality(Freeing(i)) - FreeingBy(i)[t] + FreeingBy(i)'[t]
      /\ Cardinality(Freeing(i)) \in Nat
      /\ FreeingBy(i)[t] = 0 /\ FreeingBy(i)'[t] = 0
  BY <1>1, FreeingMoves
<1> QED BY <1>2

\* Upper's lower allocator takes the frames that a call has marked when lower_get returns.
LEMMA GetSucceedsFollows ==
    ASSUME LC!Modest, LowerOK, UInv, NEW t \in Threads, GetSucceeds(t)
    PROVE  Follows(t)
<1> DEFINE i == hand[t].tree
           n == call[t].n
<1>1. /\ Running /\ pc[t] = "lower" /\ lpc[t] = "ok"
      /\ hand' = [hand EXCEPT ![t] = [hand[t] EXCEPT !.free = @ - n]]
      /\ pc' = [pc EXCEPT ![t] = IF hand[t].present THEN "swap" ELSE "ok"]
      /\ UNCHANGED <<trees, slots, call, loc, spare, target, down>> /\ UNCHANGED lower
  BY DEF GetSucceeds, At, U!Hold, U!Goto, Left
<1>2. UC!TypeOK /\ Linked(t)
  BY DEF UInv, UC!QInv, UC!CInv, UC!IInv, UC!TypeInv
<1>3. /\ ~down /\ ~down' /\ ~L!Recovering /\ Promised = trees /\ Promised' = trees'
      /\ UC!At(t, "lower") /\ UNCHANGED <<lpc, lcall, own, lheld, lost, boot, crashes>>
  BY <1>1, RunningUp DEF Promised, lower
<1>4. /\ i \in Trees /\ hand[t] \in UC!Reservations /\ n \in Nat \ {0}
      /\ \A j \in Trees : Room[j] \in Nat
      /\ Room[i] >= n /\ call[t].op \in UC!Gets /\ call[t].op # "put"
      /\ hand[t].present => loc[t].from = "search"
  <2>1. /\ i \in Trees /\ hand[t].free \in Nat /\ n <= hand[t].free /\ hand[t].free <= Room[i]
        /\ n \in Nat /\ \A j \in Trees : Room[j] \in Nat
    BY <1>1, AtLower
  <2>2. Room[i] >= n
    <3> HIDE DEF i, n
    <3> QED BY <2>1
  <2> QED BY <1>1, <2>1, <2>2, AtLower
<1>5. /\ pc'[t] = IF hand[t].present THEN "swap" ELSE "ok"
      /\ hand'[t] = [hand[t] EXCEPT !.free = @ - n] /\ hand'[t].tree = i
  BY <1>1, <1>2, <1>4 DEF UC!TypeOK, UC!Reservations
<1>6. Runs(t)
  BY <1>1, <1>2, <1>3, LowerOthers DEF Runs, Apart, UC!TypeOK
<1>7. own[t] \subseteq TreeFrames(i) /\ Cardinality(own[t]) = n
  BY <1>1, <1>2, <1>4, OwnSome
<1>8. own[t] \cap Taken = {} /\ Taken' = Taken \cup own[t]
  <2>1. /\ own[t] \cap (lheld \cup lost) = {}
        /\ \A u \in Threads : u # t => own[u] \cap own[t] = {}
    BY LowerNow
  <2>2. \A u \in Threads : u # t => pc'[u] = pc[u]
    BY <1>6 DEF Runs, Apart
  <2>3. pc'[t] \notin {"lower", "put"}
    BY <1>5
  <2> QED BY <1>1, <1>3, <2>1, <2>2, <2>3, TakenIs
<1>9. Room' = [Room EXCEPT ![i] = @ - n]
  <2>1. Draws(i, Taken, Taken', own[t])
    <3> HIDE DEF i, n
    <3> QED BY ONLY <1>4, <1>7, <1>8, TreeDrawn
  <2>2. ASSUME NEW j \in Trees
        PROVE  Room'[j] = IF j = i THEN Room[i] - n ELSE Room[j]
    <3>1. /\ Cardinality(TreeFrames(j) \ Taken') = Cardinality(TreeFrames(j) \ Taken)
                - (IF j = i THEN Cardinality(own[t]) ELSE 0)
          /\ Cardinality(TreeFrames(j) \ Taken) \in Nat
      BY ONLY <2>1, j \in Trees DEF Draws
    <3>2. Cardinality(Freeing(j)') = Cardinality(Freeing(j)) /\ Cardinality(Freeing(j)) \in Nat
      BY <1>1, <1>5, <1>6, FreeingStays DEF Runs, LC!Modest
    <3>3. /\ Room[j] = Cardinality(TreeFrames(j) \ Taken) - Cardinality(Freeing(j))
          /\ Room'[j] = Cardinality(TreeFrames(j) \ Taken') - Cardinality(Freeing(j)')
      BY RoomIs
    <3> HIDE DEF i, n
    <3> QED BY ONLY <1>4, <1>7, <3>1, <3>2, <3>3
  <2> HIDE DEF i, n
  <2>3. DOMAIN Room = Trees /\ DOMAIN Room' = Trees /\ Room = [j \in Trees |-> Room[j]]
        /\ Room' = [j \in Trees |-> Room'[j]]
    BY DEF Room
  <2> QED BY ONLY <1>4, <2>2, <2>3
<1>10. Held' = Held
  BY <1>3 DEF Held
<1>11. UC!Lower(t)
  BY <1>1, <1>3, <1>4, <1>9, <1>10 DEF UC!Lower, UC!Hold, UC!Goto
<1>12. [UC!Next]_UC!vars
  BY <1>11 DEF UC!Next, UC!Step
<1>13. Linked(t)'
  <2>1. UC!State(t)' = "served"
    BY <1>1, <1>4, <1>5, UpperParts, UC!Seen, UC!StateCases DEF UC!Gets
  <2> QED BY <1>1, <1>2, <1>3, <1>4, <1>5, <2>1 DEF Linked, Got
<1> QED BY <1>5, <1>6, <1>12, <1>13 DEF Follows

\* A set without one of its elements is smaller.
LEMMA Shrunk ==
    ASSUME NEW A, IsFiniteSet(A), NEW X, A \cap X # {}
    PROVE  Cardinality(A \ X) < Cardinality(A) /\ Cardinality(A) \in Nat /\ Cardinality(A \ X) \in Nat
<1>1. PICK f \in A : f \in X
  OBVIOUS
<1>2. /\ IsFiniteSet(A \ {f}) /\ Cardinality(A \ {f}) = Cardinality(A) - 1
      /\ Cardinality(A) \in Nat
  BY FS_RemoveElement, FS_CardinalityType
<1>3. A \ X \in SUBSET (A \ {f})
  BY <1>1
<1>4. IsFiniteSet(A \ X) /\ Cardinality(A \ X) <= Cardinality(A \ {f})
  BY <1>2, <1>3, FS_Subset
<1>5. Cardinality(A \ X) \in Nat
  BY <1>4, FS_CardinalityType
<1> QED BY <1>2, <1>4, <1>5

\* A tree with enough frames starts with a block of any size up to a huge page.
LEMMA FirstBlock ==
    ASSUME NEW i \in Trees, NEW n \in Nat \ {0}, IsSize(n), n <= CHILD_SIZE, n <= UC!FramesOf(i)
    PROVE  \E f \in Frames : InRange(f, n) /\ TreeOf(f) = i
<1> DEFINE f == TREE_SIZE * i
           m == TREE_SIZE
<1>1. m \in Nat \ {0} /\ i \in Nat /\ FRAMES \in Nat
  BY SizesNat, TreesAre, GeometryAssumption
<1>2. f \in Nat /\ f + n <= FRAMES
  <2>1. f \in Nat /\ i * TREE_SIZE = f
    BY <1>1
  <2>2. UC!FramesOf(i) <= FRAMES - f
    <3> HIDE DEF f
    <3> QED BY <1>1, <2>1 DEF UC!FramesOf
  <2>3. UC!FramesOf(i) \in Nat
    BY TreeSized
  <2> HIDE DEF f
  <2> QED BY <1>1, <2>1, <2>2, <2>3
<1>3. f % n = 0
  <2>1. PICK q \in Nat \ {0} : CHILD_SIZE = q * n
    BY LowerParts, SameGeometry, LC!Sized
  <2>2. f = n * (q * TREE_CHILDREN * i) /\ q * TREE_CHILDREN * i \in Int
    BY <1>1, <2>1, GeometryAssumption DEF TREE_SIZE
  <2>3. \A a \in Int : (n * a) % n = 0
    OBVIOUS
  <2> HIDE DEF f
  <2> QED BY <2>2, <2>3
<1>4. TreeOf(f) = i
  <2> HIDE DEF m
  <2>1. m * i \in Int /\ m * i <= m * i /\ m * i < m * i + m
    BY <1>1
  <2>2. (m * i) \div m = i
    BY <1>1, <2>1, Quotients
  <2> QED BY <2>2 DEF TreeOf, m
<1>5. f \in Frames
  <2> HIDE DEF f
  <2> QED BY <1>1, <1>2 DEF Frames
<1> QED BY <1>2, <1>3, <1>4, <1>5 DEF InRange

\* A thread that is alone gets nothing from the lower allocator only if there is nothing
\* left, or no block of the size, or not the one it asks for.
LEMMA RefusedRightly ==
    ASSUME LC!Modest, LowerOK, UInv, NEW t \in Threads, pc[t] = "lower", lpc[t] = "memory",
           Threads = {t}
    PROVE  \/ Room[hand[t].tree] < call[t].n
           \/ /\ Room[hand[t].tree] < UC!FramesOf(hand[t].tree)
              /\ call[t].n > 1 \/ call[t].op = "get_at"
<1> DEFINE i == hand[t].tree
           n == call[t].n
<1>1. /\ i \in Trees /\ n \in Nat \ {0} /\ Room[i] \in Nat /\ Room[i] <= UC!FramesOf(i)
      /\ call[t].op \in UC!Gets /\ call[t].op # "put"
  BY AtLower
<1>2. Linked(t) /\ lpc[t] # "idle"
  BY DEF UInv
<1>3. /\ lcall[t].op = call[t].op /\ lcall[t].n = n /\ TreeOf(lcall[t].frame) = i
      /\ call[t].op # "get" => lcall[t].frame = target[t] /\ InRange(target[t], n)
  BY <1>1, <1>2 DEF Linked
<1>4. /\ own[t] = {} /\ IsSize(n) /\ n <= CHILD_SIZE /\ lcall[t].frame \in Frames
      /\ lcall[t].frame \in Int
  BY <1>1, <1>3, LowerNow
<1>5. LC!Allocated = Taken
  <2>1. LC!Allocated = lheld \cup lost \cup UNION {own[u] : u \in Threads}
    BY DEF LowerOK, LC!Accounted
  <2>2. UNION {own[u] : u \in Threads} = {}
    BY <1>4
  <2>3. {u \in Threads : pc[u] \notin {"lower", "put"}} = {}
    OBVIOUS
  <2> QED BY <2>1, <2>2, <2>3 DEF Taken
<1>6. Freeing(i) = {} /\ Cardinality(Freeing(i)) = 0
  <2>1. Freeing(i) = {}
    BY DEF Freeing
  <2> QED BY <2>1, FS_EmptySet
<1>7. Room[i] = Cardinality(TreeFrames(i) \ Taken)
  <2>1. IsFiniteSet(TreeFrames(i)) /\ TreeFrames(i) \ Taken \in SUBSET TreeFrames(i)
    BY <1>1, TreeSized
  <2>2. Cardinality(TreeFrames(i) \ Taken) \in Nat
    BY <2>1, FS_Subset, FS_CardinalityType
  <2>3. Room[i] = Cardinality(TreeFrames(i) \ Taken) - Cardinality(Freeing(i))
    BY <1>1, RoomIs
  <2> QED BY ONLY <1>6, <2>2, <2>3
<1>8. LC!GetComplete
  BY DEF LowerOK, LC!Alone
<1>9. \A f \in LC!Candidates(t) : Block(f, n) \cap Taken # {}
  BY <1>1, <1>3, <1>5, <1>8, SameGeometry DEF LC!GetComplete
<1>10. ASSUME NEW f \in Frames, InRange(f, n), TreeOf(f) = i, call[t].op = "get" \/ f = target[t]
       PROVE  Block(f, n) \subseteq TreeFrames(i) /\ Block(f, n) \cap Taken # {}
  <2>1. Block(f, n) \subseteq TreeFrames(i)
    BY <1>1, <1>4, <1>10, BlockInTree
  <2>2. f \in LC!Candidates(t)
    <3>1. CASE call[t].op = "get_at"
      BY <1>3, <1>10, <3>1 DEF LC!Candidates
    <3>2. CASE call[t].op = "get"
      <4>1. f \in Int
        BY DEF Frames
      <4>2. LC!ChildOf(f) \div TREE_CHILDREN = LC!ChildOf(lcall[t].frame) \div TREE_CHILDREN
        BY <1>3, <1>4, <1>10, <4>1, TreeOfChild, SameGeometry
      <4> QED BY <1>3, <1>10, <3>2, <4>2, SameGeometry DEF LC!Candidates
    <3> QED BY <1>1, <3>1, <3>2 DEF UC!Gets
  <2> QED BY <1>9, <2>1, <2>2
<1>11. ASSUME NEW f \in Frames, InRange(f, n), TreeOf(f) = i, call[t].op = "get" \/ f = target[t]
       PROVE  Room[i] < UC!FramesOf(i)
  <2>1. TreeFrames(i) \cap Taken # {}
    BY <1>10, <1>11
  <2>2. IsFiniteSet(TreeFrames(i)) /\ Cardinality(TreeFrames(i)) = UC!FramesOf(i)
    BY <1>1, TreeSized
  <2> HIDE DEF i
  <2> QED BY <1>7, <2>1, <2>2, Shrunk
<1>12. CASE call[t].op = "get_at"
  BY <1>3, <1>4, <1>11, <1>12
<1>13. CASE call[t].op = "get" /\ n > 1
  <2> SUFFICES ASSUME n <= Room[i] PROVE Room[i] < UC!FramesOf(i)
    <3> HIDE DEF i, n
    <3> QED BY <1>1, <1>13 DEF i, n
  <2>1. n <= UC!FramesOf(i)
    <3>1. UC!FramesOf(i) \in Nat
      BY <1>1, TreeSized
    <3> HIDE DEF i, n
    <3> QED BY <1>1, <3>1
  <2>2. PICK f \in Frames : InRange(f, n) /\ TreeOf(f) = i
    <3> HIDE DEF i, n
    <3> QED BY <1>1, <1>4, <2>1, FirstBlock
  <2> QED BY <1>11, <1>13, <2>2
<1>14. CASE call[t].op = "get" /\ n = 1
  <2>1. ASSUME NEW f \in TreeFrames(i) PROVE f \in Taken
    <3>1. f \in Frames /\ TreeOf(f) = i /\ f \in Int
      BY DEF TreeFrames, Frames
    <3>2. InRange(f, 1) /\ Block(f, 1) = {f}
      BY <3>1, GeometryAssumption DEF InRange, Block, Frames
    <3> QED BY <1>10, <1>14, <3>1, <3>2
  <2>2. TreeFrames(i) \ Taken = {}
    BY <2>1
  <2>3. Room[i] = 0
    BY <1>7, <2>2, FS_EmptySet
  <2> QED BY <1>14, <2>3
<1> QED BY <1>1, <1>12, <1>13, <1>14 DEF UC!Gets

\* The return of a call of Lower, in its own state.
LEMMA LowerReturns ==
    ASSUME LC!Modest, LowerOK, NEW t \in Threads, L!Return(t)
    PROVE  /\ lpc[t] \in {"ok", "memory", "argument"} /\ lpc'[t] = "idle" /\ own'[t] = {}
           /\ lheld' = lheld \cup own[t] /\ lost' = lost /\ boot' = boot /\ crashes' = crashes
           /\ LC!Others(t)
<1>1. LC!TypeOK /\ LC!XInv /\ LC!Return(t)
  BY SameReturn DEF LowerOK, LC!YInv, LC!XInv, LC!TypeInv
<1>2. lpc[t] \in LC!Done
  BY <1>1 DEF LC!Return, LC!At
<1>3. LC!Returned(t) = own[t]
  BY <1>1, <1>2, LowerParts, LC!ReturnsOwn
<1> QED BY <1>1, <1>2, <1>3 DEF LC!Return, LC!Done, LC!Goto, LC!SetLoc, LC!system, LC!TypeOK, LC!Others

\* A refused call of lower_get leaves everything below as it was.
LEMMA GetRefusedFollows ==
    ASSUME LC!Modest, LowerOK, UInv, NEW t \in Threads, GetRefused(t)
    PROVE  Follows(t)
<1>1. /\ Running /\ pc[t] = "lower" /\ lpc[t] \in {"memory", "argument"} /\ L!Return(t)
      /\ pc' = [pc EXCEPT ![t] = "give_back"]
      /\ UNCHANGED <<trees, slots, call, loc, hand, spare, target, down>>
  BY DEF GetRefused, At, U!Goto, L!Done
<1>2. UC!TypeOK /\ Linked(t)
  BY DEF UInv, UC!QInv, UC!CInv, UC!IInv, UC!TypeInv
<1>3. /\ lpc'[t] = "idle" /\ own'[t] = {} /\ lheld' = lheld \cup own[t] /\ LC!Others(t)
      /\ lost' = lost /\ boot' = boot /\ crashes' = crashes
  BY <1>1, LowerReturns
<1>4. /\ ~down /\ ~down' /\ ~L!Recovering /\ Promised = trees /\ Promised' = trees'
      /\ UC!At(t, "lower")
  BY <1>1, RunningUp DEF Promised
<1>5. call[t].op \in UC!Gets /\ call[t].op # "put"
  BY <1>1, AtLower
<1>6. lpc[t] = "memory" /\ own[t] = {} /\ lheld' = lheld
  <2>1. lpc[t] = "memory" /\ lcall[t].op # "put"
    BY <1>1, <1>2, <1>5 DEF Linked
  <2>2. own[t] = {}
    BY <2>1, LowerNow
  <2> QED BY <1>3, <2>1, <2>2
<1>7. pc'[t] = "give_back" /\ Runs(t)
  BY <1>1, <1>2, <1>3, <1>4 DEF Runs, Apart, UC!TypeOK
<1>8. Room' = Room
  <2>1. Taken' = Taken
    <3>1. \A u \in Threads : u # t => pc'[u] = pc[u] /\ own'[u] = own[u]
      BY <1>3, <1>7, LowerOthers DEF Runs, Apart
    <3> QED BY <1>3, <1>6, <3>1, TakenIs
  <2>2. \A u \in Threads : pc'[u] = "put" <=> pc[u] = "put"
    BY <1>1, <1>7 DEF Runs, Apart
  <2>3. \A i \in Trees : Freeing(i)' = Freeing(i)
    BY <1>1, <2>2 DEF Freeing
  <2> QED BY <2>1, <2>3, RoomStays
<1>9. Held' = Held
  BY <1>6 DEF Held
<1>10. UC!MayRefuse(t, hand[t].tree)
  BY <1>1, <1>6, RefusedRightly DEF UC!MayRefuse
<1>11. UC!Lower(t)
  BY <1>1, <1>3, <1>4, <1>8, <1>9, <1>10 DEF UC!Lower, UC!Goto
<1>12. [UC!Next]_UC!vars
  BY <1>11 DEF UC!Next, UC!Step
<1>13. Linked(t)'
  <2>1. UC!State(t)' = "called"
    BY <1>1, <1>5, <1>7, UpperParts, UC!Seen, UC!StateCases
  <2> QED BY <1>1, <1>2, <1>3, <1>5, <1>7, <2>1 DEF Linked, Got
<1> QED BY <1>7, <1>12, <1>13 DEF Follows

\* The frames of a free are counted when lower_put returns.
LEMMA PutSucceedsFollows ==
    ASSUME LC!Modest, LowerOK, UInv, NEW t \in Threads, PutSucceeds(t)
    PROVE  Follows(t)
<1> DEFINE i == call[t].tree
           n == call[t].n
<1>1. /\ Running /\ pc[t] = "put" /\ lpc[t] = "ok" /\ L!Return(t)
      /\ hand' = [hand EXCEPT ![t] = U!Reservation(FALSE, TreeOf(target[t]), n)]
      /\ pc' = [pc EXCEPT ![t] = IF call[t].local # U!NoLocal THEN "put_slot" ELSE "give_back"]
      /\ UNCHANGED <<trees, slots, call, loc, spare, target, down>>
  BY DEF PutSucceeds, At, U!Hold, U!Goto
<1>2. UC!CInv /\ UC!DoingOK /\ UC!TypeInv /\ UC!TypeOK /\ Linked(t)
  BY DEF UInv, UC!QInv, UC!CInv, UC!IInv, UC!TypeInv
<1>3. /\ lpc'[t] = "idle" /\ own'[t] = {} /\ lheld' = lheld \cup own[t] /\ LC!Others(t)
      /\ lost' = lost /\ boot' = boot /\ crashes' = crashes
  BY <1>1, LowerReturns
<1>4. /\ ~down /\ ~down' /\ ~L!Recovering /\ Promised = trees /\ Promised' = trees'
      /\ UC!At(t, "put")
  BY <1>1, RunningUp DEF Promised
<1>5. call[t].op = "put" /\ i \in Trees /\ n \in Nat \ {0}
  <2>1. call[t].op = "put"
    BY <1>1, <1>2, UpperParts, UC!DoingFields DEF UC!Doing
  <2> QED BY <1>2, <2>1, Requested DEF UC!Allocs, LC!Modest
<1>6. TreeOf(target[t]) = i /\ own[t] = {} /\ lheld' = lheld
  <2>1. TreeOf(target[t]) = i /\ lcall[t].op = "put"
    BY <1>1, <1>2, <1>5 DEF Linked
  <2>2. own[t] = {}
    BY <1>1, <2>1, LowerNow
  <2> QED BY <1>3, <2>1, <2>2
<1>7. /\ pc'[t] = IF call[t].local # U!NoLocal THEN "put_slot" ELSE "give_back"
      /\ pc'[t] \in {"put_slot", "give_back"} /\ Runs(t)
  <2>1. pc'[t] = IF call[t].local # U!NoLocal THEN "put_slot" ELSE "give_back"
    BY <1>1, <1>2 DEF UC!TypeOK
  <2> QED BY <1>1, <1>2, <1>3, <1>4, <2>1 DEF Runs, Apart, UC!TypeOK
<1>8. Taken' = Taken
  <2>1. \A u \in Threads : u # t => pc'[u] = pc[u] /\ own'[u] = own[u]
    BY <1>3, <1>7, LowerOthers DEF Runs, Apart
  <2> QED BY <1>3, <1>6, <2>1, TakenIs
<1>9. ASSUME NEW j \in Trees
      PROVE  /\ Room'[j] = IF j = i THEN Room[i] + n ELSE Room[j]
             /\ Room'[j] <= UC!FramesOf(j) /\ Room[j] \in Int
  <2>1. /\ Cardinality(Freeing(j)') = Cardinality(Freeing(j)) - FreeingBy(j)[t] + FreeingBy(j)'[t]
        /\ Cardinality(Freeing(j)) \in Nat /\ Cardinality(Freeing(j)') \in Nat
        /\ FreeingBy(j)[t] = (IF j = i THEN n ELSE 0)
        /\ FreeingBy(j)'[t] = 0
    BY <1>1, <1>2, <1>7, FreeingMoves DEF UInv, LC!Modest, Runs
  <2>2. Draws(j, Taken, Taken, {})
    BY TreeDrawn
  <2>3. /\ Cardinality(TreeFrames(j) \ Taken) \in Nat
        /\ Cardinality(TreeFrames(j) \ Taken) <= UC!FramesOf(j)
    BY ONLY <2>2, j \in Trees DEF Draws
  <2>4. /\ Room[j] = Cardinality(TreeFrames(j) \ Taken) - Cardinality(Freeing(j))
        /\ Room'[j] = Cardinality(TreeFrames(j) \ Taken) - Cardinality(Freeing(j)')
    BY <1>8, RoomIs
  <2>5. UC!FramesOf(j) \in Nat
    BY TreeSized
  <2> HIDE DEF i, n
  <2> QED BY ONLY <1>5, <2>1, <2>3, <2>4, <2>5
<1>10. Room' = [Room EXCEPT ![i] = @ + n] /\ Room[i] + n <= UC!FramesOf(i)
  <2> HIDE DEF i, n
  <2>1. Room = [j \in Trees |-> Room[j]] /\ Room' = [j \in Trees |-> Room'[j]]
    BY DEF Room
  <2>2. Room' = [Room EXCEPT ![i] = @ + n]
    BY ONLY <1>5, <1>9, <2>1
  <2>3. Room[i] + n <= UC!FramesOf(i)
    BY ONLY <1>5, <1>9
  <2> QED BY <2>2, <2>3
<1>11. Held' = Held
  BY <1>6 DEF Held
<1>12. UC!LowerPut(t)
  <2>1. U!Reservation(FALSE, i, n) = UC!Reservation(FALSE, i, n) /\ U!NoLocal = UC!NoLocal
    BY DEF U!Reservation, UC!Reservation, U!NoLocal, UC!NoLocal
  <2> QED BY <1>1, <1>3, <1>4, <1>6, <1>10, <1>11, <2>1 DEF UC!LowerPut, UC!Hold, UC!Goto
<1>13. [UC!Next]_UC!vars
  BY <1>12 DEF UC!Next, UC!Step
<1>14. Linked(t)'
  <2>1. UC!State(t)' = "served"
    <3>1. call'[t].op = "put" /\ pc'[t] \in {"put_slot", "give_back"}
      BY <1>1, <1>5, <1>7
    <3>2. CASE pc'[t] = "put_slot"
      BY ONLY <3>1, <3>2, UpperParts, UC!Seen DEF UC!StateOf, UC!Waiting
    <3>3. CASE pc'[t] = "give_back"
      BY ONLY <3>1, <3>3, UpperParts, UC!Seen DEF UC!StateOf, UC!Waiting
    <3> QED BY ONLY <3>1, <3>2, <3>3
  <2> QED BY <1>1, <1>2, <1>3, <1>5, <1>7, <2>1 DEF Linked, Got, UC!Gets
<1> QED BY <1>7, <1>13, <1>14 DEF Follows

\* lower_put refuses nothing that a client may free.
LEMMA PutNotRefused ==
    ASSUME LC!Modest, LowerOK, UInv, NEW t \in Threads, PutRefused(t)
    PROVE  FALSE
<1>1. pc[t] = "put" /\ lpc[t] \in {"memory", "argument"} /\ Linked(t)
  BY DEF PutRefused, At, L!Done, UInv
<1>2. call[t].op = "put"
  BY <1>1, UpperParts, UC!DoingFields DEF UInv, UC!QInv, UC!Doing
<1>3. lcall[t].op = "put" /\ InRange(lcall[t].frame, lcall[t].n)
  BY <1>1, <1>2 DEF Linked
<1> QED BY <1>1, <1>3, LowerNow

\* A client that gets frames holds as many more of their tree.
LEMMA HeldDrawn ==
    ASSUME NEW i \in Trees, NEW C, C \subseteq TreeFrames(i), C \cap lheld = {}, lheld \subseteq Frames,
           lheld' = lheld \cup C
    PROVE  \A j \in Trees : /\ Held[j] \in Nat
                            /\ Held'[j] = Held[j] + (IF j = i THEN Cardinality(C) ELSE 0)
<1> DEFINE A == Frames \ lheld'
           B == Frames \ lheld
<1>1. B = A \cup C /\ C \cap A = {}
  BY DEF TreeFrames
<1>2. Draws(i, A, B, C)
  <2> HIDE DEF A, B
  <2> QED BY ONLY <1>1, i \in Trees, C \subseteq TreeFrames(i), TreeDrawn
<1>3. \A j \in Trees : TreeFrames(j) \ A = TreeFrames(j) \cap lheld' /\ TreeFrames(j) \ B = TreeFrames(j) \cap lheld
  BY DEF TreeFrames
<1>4. \A j \in Trees : Held[j] = Cardinality(TreeFrames(j) \ B) /\ Held'[j] = Cardinality(TreeFrames(j) \ A)
  BY <1>3 DEF Held
<1> HIDE DEF A, B
<1>5. ASSUME NEW j \in Trees
      PROVE  /\ Held[j] \in Nat
             /\ Held'[j] = Held[j] + (IF j = i THEN Cardinality(C) ELSE 0)
  <2>1. /\ Cardinality(TreeFrames(j) \ A) \in Nat /\ Cardinality(TreeFrames(j) \ B) \in Nat
        /\ Cardinality(C) \in Nat
        /\ Cardinality(TreeFrames(j) \ B) =
              Cardinality(TreeFrames(j) \ A) - (IF j = i THEN Cardinality(C) ELSE 0)
    BY ONLY <1>2, j \in Trees DEF Draws
  <2>2. Held[j] = Cardinality(TreeFrames(j) \ B) /\ Held'[j] = Cardinality(TreeFrames(j) \ A)
    BY <1>4
  <2> QED BY ONLY <2>1, <2>2
<1> QED BY <1>5

\* What a client gets when its call returns is what the call has marked.
LEMMA GivenIs ==
    ASSUME UInv, NEW t \in Threads, pc[t] \in U!Done
    PROVE  /\ lpc[t] = IF Got(t) THEN "ok" ELSE "idle"
           /\ Got(t) => pc[t] = "ok" /\ call[t].op # "put"
           /\ \A j : UC!Given(t, j) = IF Got(t) /\ j = hand[t].tree THEN call[t].n ELSE 0
<1>1. pc[t] \in {"ok", "memory", "argument"} /\ Linked(t)
  BY DEF U!Done, UInv
<1>2. /\ pc[t] = "ok" => UC!State(t) = IF call[t].op = "drain" THEN "called" ELSE "served"
      /\ pc[t] = "memory" => UC!State(t) = "called"
      /\ pc[t] = "argument" => UC!State(t) # "served"
  BY <1>1, UpperParts, UC!Seen DEF UC!StateOf, UC!Waiting
<1>3. ~(pc[t] = "memory" /\ call[t].op = "put")
  BY <1>1, <1>2 DEF Linked
<1>4. Got(t) <=> pc[t] = "ok" /\ call[t].op \in {"get", "get_at"}
  BY <1>1, <1>2 DEF Got, UC!Gets
<1> QED BY <1>1, <1>3, <1>4 DEF Linked, UC!Given

\* The client gets exactly the frames that Upper says it gets, or none.
LEMMA ReturnFollows ==
    ASSUME LC!Modest, LowerOK, UInv, NEW t \in Threads, Return(t)
    PROVE  Follows(t)
<1> DEFINE i == hand[t].tree
<1>1. /\ Running /\ pc[t] \in {"ok", "memory", "argument"} /\ pc[t] \in U!Done
      /\ IF lpc[t] = "idle" THEN UNCHANGED lower ELSE L!Return(t)
      /\ call' = [call EXCEPT ![t] = U!NoCall] /\ loc' = [loc EXCEPT ![t] = U!NoLoc]
      /\ hand' = [hand EXCEPT ![t] = U!Nothing] /\ pc' = [pc EXCEPT ![t] = "idle"]
      /\ target' = [target EXCEPT ![t] = 0]
      /\ UNCHANGED <<trees, slots, spare, down>>
  BY DEF Return, U!Done, U!SetLoc, U!Hold, Aim, U!Goto
<1>2. UC!TypeOK /\ UC!TypeInv /\ Linked(t)
  BY DEF UInv, UC!QInv, UC!CInv, UC!IInv, UC!TypeInv
<1>3. /\ lpc[t] = IF Got(t) THEN "ok" ELSE "idle"
      /\ Got(t) => pc[t] = "ok" /\ call[t].op # "put"
      /\ \A j : UC!Given(t, j) = IF Got(t) /\ j = hand[t].tree THEN call[t].n ELSE 0
  BY <1>1, GivenIs
<1>4. /\ ~down /\ ~down' /\ ~L!Recovering /\ Promised = trees /\ Promised' = trees'
      /\ \A label : pc[t] = label => UC!At(t, label)
  BY <1>1, RunningUp DEF Promised
<1>5. /\ lpc'[t] = "idle" /\ own'[t] = {} /\ LC!Others(t) /\ lheld' = lheld \cup own[t]
      /\ lost' = lost /\ boot' = boot /\ crashes' = crashes
      /\ ~Got(t) => own[t] = {}
  <2>1. CASE Got(t)
    <3>1. lpc[t] # "idle" /\ L!Return(t)
      BY <1>1, <1>3, <2>1
    <3> QED BY <2>1, <3>1, LowerReturns
  <2>2. CASE ~Got(t)
    <3>1. lpc[t] = "idle" /\ UNCHANGED lower
      BY <1>1, <1>3, <2>2
    <3>2. own[t] = {}
      BY <3>1, LowerNow
    <3>3. UNCHANGED <<lpc, own, lheld, lost, boot, crashes>>
      BY <3>1 DEF lower
    <3> QED BY <3>1, <3>2, <3>3, LowerOthers
  <2> QED BY <2>1, <2>2
<1>6. call'[t] = U!NoCall /\ pc'[t] = "idle" /\ call'[t].op = "drain"
  BY <1>1, <1>2 DEF UC!TypeOK, U!NoCall
<1>7. Runs(t)
  <2>1. \A u \in Threads \ {t} : target'[u] = target[u]
    <3>1. DOMAIN target = Threads
      BY DEF LowerOK, Asked
    <3> QED BY <1>1, <3>1
  <2> QED BY <1>1, <1>2, <1>4, <1>5, <2>1 DEF Runs, Apart, UC!TypeOK
<1>8. Room' = Room
  <2>1. Taken' = Taken
    <3>1. \A u \in Threads : u # t => pc'[u] = pc[u] /\ own'[u] = own[u]
      BY <1>7, LowerOthers DEF Runs, Apart
    <3>2. pc[t] \notin {"lower", "put"}
      BY <1>1
    <3> QED BY <1>5, <3>1, <3>2, TakenIs
  <2>2. ASSUME NEW j \in Trees PROVE Freeing(j)' = Freeing(j)
    <3>1. \A u \in Threads : /\ pc'[u] = "put" <=> pc[u] = "put"
                             /\ pc[u] = "put" => call'[u] = call[u]
      BY <1>1, <1>6, <1>7 DEF Runs, Apart
    <3> QED BY <3>1 DEF Freeing
  <2> QED BY <2>1, <2>2, RoomStays
<1>9. Held' = [j \in Trees |-> Held[j] + UC!Given(t, j)]
  <2>1. CASE Got(t)
    <3>1. lpc[t] = "ok" /\ call[t].op # "put" /\ lpc[t] # "idle"
      BY <1>3, <2>1
    <3>2. own[t] \subseteq TreeFrames(i) /\ Cardinality(own[t]) = call[t].n
      BY <1>2, <3>1, OwnSome
    <3>3. i \in Trees
      BY <1>2, UpperParts, UC!ThreadFields, TreesAre
    <3>4. own[t] \cap lheld = {} /\ lheld \subseteq Frames
      BY LowerNow
    <3>5. \A j \in Trees : /\ Held[j] \in Nat
                           /\ Held'[j] = Held[j] + (IF j = i THEN Cardinality(own[t]) ELSE 0)
      <4> HIDE DEF i
      <4> QED BY ONLY <1>5, <3>2, <3>3, <3>4, HeldDrawn
    <3>6. Held' = [j \in Trees |-> Held'[j]]
      BY DEF Held
    <3> QED BY <1>3, <2>1, <3>2, <3>5, <3>6
  <2>2. CASE ~Got(t)
    <3>1. lheld' = lheld
      BY <1>5, <2>2
    <3>2. Held' = Held /\ Held = [j \in Trees |-> Held[j]]
      BY <3>1 DEF Held
    <3>3. \A j \in Trees : Held[j] \in Nat
      BY <1>2, TreesAre DEF UC!TypeOK
    <3> QED BY <1>3, <2>2, <3>2, <3>3
  <2> QED BY <2>1, <2>2
<1>10. UC!Return(t)
  <2>1. \E r \in UC!Done : UC!At(t, r)
    BY <1>1, <1>4 DEF UC!Done
  <2>2. U!NoCall = UC!NoCall /\ U!NoLoc = UC!NoLoc /\ U!Nothing = UC!Nothing
    BY DEF U!NoCall, UC!NoCall, U!NoLoc, UC!NoLoc, U!Nothing, UC!Nothing, U!NoLocal, UC!NoLocal,
           U!Reservation, UC!Reservation, U!Entry, UC!Entry
  <2>3. UC!Trees = Trees
    BY TreesAre
  <2> QED BY <1>1, <1>4, <1>5, <1>8, <1>9, <2>1, <2>2, <2>3
        DEF UC!Return, UC!SetLoc, UC!Hold, UC!Goto, UC!counters
<1>11. [UC!Next]_UC!vars
  BY <1>10 DEF UC!Next, UC!Step
<1>12. Linked(t)'
  <2>1. UC!State(t)' = "idle"
    BY <1>6, UpperParts, UC!Seen, UC!StateCases
  <2>2. ~Got(t)'
    BY <2>1 DEF Got
  <2> QED BY <1>5, <1>6, <2>1, <2>2 DEF Linked
<1> QED BY <1>6, <1>7, <1>11, <1>12 DEF Follows
=============================================================================
