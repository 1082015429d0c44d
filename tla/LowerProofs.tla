---------------------------- MODULE LowerProofs -----------------------------
(***************************************************************************)
(* Lower, for every geometry, number of threads and sizes up to one huge   *)
(* page, with splits of huge pages, searches over several rows, and        *)
(* crashes at any point: no counter leaves its range, no frame is ever     *)
(* given to two owners, and owners change only as FrameOwnership allows.   *)
(***************************************************************************)
EXTENDS Lower, Tally

USE GeometryAssumption, LowerAssumption

-----------------------------------------------------------------------------
(* Geometry. *)

\* A child has at least one frame.
LEMMA ChildSizePositive == CHILD_SIZE \in Nat \ {0}
BY DEF CHILD_SIZE

\* Every managed frame lies in one of the children counted by child_count, and
\* the last of these has at least one managed frame.
LEMMA ChildCountNat == 
    /\ ChildCount \in Nat 
    /\ \A c \in 0 .. ChildCount - 1 : FRAMES - ChildBase(c) \in Nat \ {0}
<1>1. CHILD_SIZE \in Nat \ {0}
  BY ChildSizePositive
<1>2. ASSUME NEW s \in Nat \ {0}
      PROVE  /\ (FRAMES + s - 1) \div s \in Nat
             /\ s * ((FRAMES + s - 1) \div s) <= FRAMES + s - 1
  OBVIOUS
<1>3. ASSUME NEW s \in Nat \ {0}, NEW q \in Nat, s * q <= FRAMES + s - 1, 
             NEW c \in 0 .. q - 1
      PROVE  FRAMES - c * s \in Nat \ {0}
  <2>1. s * (c + 1) <= s * q
    OBVIOUS
  <2>2. s * (c + 1) = c * s + s
    OBVIOUS
  <2>3. c * s \in Int
    OBVIOUS
  <2> QED BY <2>1, <2>2, <2>3, <1>3
<1> QED BY <1>1, <1>2, <1>3 DEF ChildCount, DivCeil, ChildBase

\* A child's frames are an interval of CHILD_SIZE numbers, so at most that many
\* of its bits are set.
LEMMA ChildBits ==
    ASSUME NEW c \in Int, NEW B
    PROVE  CHILD_SIZE - Cardinality(B \cap ChildFrames(c)) \in 0 .. CHILD_SIZE
<1>1. CHILD_SIZE \in Nat \ {0}
  BY ChildSizePositive
<1>2. ChildBase(c) \in Int
  BY <1>1 DEF ChildBase
<1>3. IsFiniteSet(ChildFrames(c)) /\ Cardinality(ChildFrames(c)) = CHILD_SIZE
  BY <1>1, <1>2, FS_Interval DEF ChildFrames, Block
<1>4. /\ IsFiniteSet(B \cap ChildFrames(c))
      /\ Cardinality(B \cap ChildFrames(c)) <= Cardinality(ChildFrames(c))
  BY <1>3, FS_Subset
<1> QED BY <1>1, <1>3, <1>4, FS_CardinalityType

-----------------------------------------------------------------------------
(* Type correctness. *)

\* What the steps of a call do to its label and its loop counters.
LEMMA GotoType ==
    ASSUME pc \in [Threads -> Labels], NEW t, NEW label \in Labels, Goto(t, label)
    PROVE  pc' \in [Threads -> Labels]
BY DEF Goto

\* A step that moves to new loop counters of the right type.
LEMMA SetLocType ==
    ASSUME loc \in [Threads -> LocType], NEW t, NEW l \in LocType, SetLoc(t, l)
    PROVE  loc' \in [Threads -> LocType]
BY DEF SetLoc

\* The values that calls reset their loop counters to.
LEMMA NoLocType ==
    /\ NoLoc \in LocType
    /\ \A k \in Nat : LoopAt(k, 0) \in LocType
    /\ \A f \in Int : [NoLoc EXCEPT !.f = f] \in LocType
BY DEF NoLoc, LoopAt, LocType

\* What an idle thread's call is set to.
LEMMA NoCallType == NoCall \in CallType
<1>1. 0 \in Frames
  BY DEF Frames
<1> QED BY <1>1 DEF NoCall, CallType, Ops

\* Updates of one loop counter.
LEMMA LocUpdate ==
    ASSUME NEW l \in LocType
    PROVE  /\ [l EXCEPT !.g = @ + 1] \in LocType
           /\ LoopAt(l.k, l.g + 1) \in LocType
           /\ [l EXCEPT !.i = @ + 1] \in LocType
           /\ [l EXCEPT !.j = @ + 1] \in LocType
           /\ l.k + 1 \in Nat
<1>1. [l EXCEPT !.g = @ + 1] \in LocType /\ l.k + 1 \in Nat
  BY DEF LocType
<1>2. LoopAt(l.k, l.g + 1) \in LocType
  BY DEF LocType, LoopAt
<1>3. [l EXCEPT !.i = @ + 1] \in LocType
  BY DEF LocType
<1>4. [l EXCEPT !.j = @ + 1] \in LocType
  BY DEF LocType
<1> QED BY <1>1, <1>2, <1>3, <1>4

\* lower_clear leaves every child with a counter in 0 .. CHILD_SIZE, for both
\* initial states and also if the last child is partial.
LEMMA TypeInit == Init => TypeOK
<1> SUFFICES ASSUME Init PROVE TypeOK
  OBVIOUS
<1>1. PICK free_all \in BOOLEAN :
        /\ bits = InitBits(free_all)
        /\ children = [c \in Children |-> InitChild(c, free_all)]
        /\ held = IF free_all THEN {} ELSE Frames
  BY DEF Init
<1>2. bits \in SUBSET Int
  BY <1>1, ChildSizePositive, ChildCountNat DEF InitBits, AllFrames
<1>3. ASSUME NEW c \in Children
      PROVE  InitChild(c, free_all) \in ChildType
  <2>1. c \in Nat
    BY <1>3 DEF Children
  <2>2. CASE c >= ChildCount \/ ~free_all
    BY <2>2, ChildSizePositive DEF InitChild, Child, ChildType
  <2>3. CASE c < ChildCount /\ free_all
    <3>1. FRAMES - ChildBase(c) \in Nat \ {0}
      BY <2>1, <2>3, ChildCountNat
    <3> QED BY <2>1, <2>3, <3>1, ChildSizePositive, ChildCountNat DEF InitChild, Child, ChildType
  <2> QED BY <2>1, <2>2, <2>3, ChildCountNat
<1>4. children \in [Children -> ChildType]
  BY <1>1, <1>3
<1>5. held \in SUBSET Int /\ 0 \in Frames
  BY <1>1 DEF Frames
<1> QED BY <1>2, <1>4, <1>5, NoCallType, NoLocType, ChildCountNat
        DEF Init, TypeOK, Labels

\* Every update of a child's entry keeps the counter between 0 and CHILD_SIZE.
LEMMA ChildUpdate ==
    ASSUME children \in [Children -> ChildType], NEW c, NEW n \in Nat
    PROVE  /\ CanDec(c, n) => AddFree(c, -n) \in [Children -> ChildType]
           /\ CanInc(c, n) => AddFree(c, n) \in [Children -> ChildType]
           /\ \A d \in ChildType :
                 [children EXCEPT ![c] = d] \in [Children -> ChildType]
           /\ {HugeChild, FreeChild, SplitChild} \subseteq ChildType
<1>1. ASSUME NEW d \in ChildType
      PROVE  [children EXCEPT ![c] = d] \in [Children -> ChildType]
  OBVIOUS
<1>2. ASSUME NEW m \in Int, c \in Children, children[c].free + m \in 0 .. CHILD_SIZE
      PROVE  AddFree(c, m) \in [Children -> ChildType]
  BY <1>2 DEF AddFree, ChildType
<1>3. ASSUME NEW m \in Int, c \notin Children
      PROVE  AddFree(c, m) \in [Children -> ChildType]
  BY <1>3 DEF AddFree
<1>4. c \in Children => children[c].free \in 0 .. CHILD_SIZE
  BY DEF ChildType
<1>5. CanDec(c, n) => AddFree(c, -n) \in [Children -> ChildType]
  BY <1>2, <1>3, <1>4, ChildSizePositive DEF CanDec
<1>6. CanInc(c, n) => AddFree(c, n) \in [Children -> ChildType]
  BY <1>2, <1>3, <1>4, ChildSizePositive DEF CanInc
<1>7. {HugeChild, FreeChild, SplitChild} \subseteq ChildType
  BY ChildSizePositive DEF ChildType, HugeChild, FreeChild, SplitChild, Child
<1> QED BY <1>1, <1>5, <1>6, <1>7

-----------------------------------------------------------------------------
(* Which call, of which size, is at which label. *)

PhaseAt(c, label) ==
    /\ label = "search" => c.op = "get" /\ c.n <= ATOMIC_SIZE
    /\ label \in {"set", "unset"} => c.op = "get" /\ c.n > ATOMIC_SIZE
    /\ label \in {"mark", "unmark"} => c.op = "get_at"
    /\ label \in {"dec", "undec"} => c.op # "put"
    /\ label \in {"load", "split", "unsplit", "split_cas", "wait", "clear",
                  "unclear", "inc"} => c.op = "put"
    /\ label \in {"huge", "unhuge"} => c.n >= CHILD_SIZE
    /\ label \notin {"idle", "abort", "huge", "unhuge"} \cup Done => c.n < CHILD_SIZE

PhaseOK == \A t \in Threads : PhaseAt(call[t], pc[t])

\* The strengthening that makes TypeOK inductive: the loops' bounds are positive
\* only for the sizes that reach them.
TypeInv == TypeOK /\ PhaseOK

-----------------------------------------------------------------------------
(* The positions a call visits are numbers. *)

\* for_offsetted visits integers.
LEMMA VisitInt ==
    ASSUME NEW start \in Int, NEW len \in Nat \ {0}, NEW k \in Nat
    PROVE  Visit(start, len, k) \in Int
<1>1. start % len \in Int /\ (k + (start % len)) % len \in Int
  OBVIOUS
<1> QED BY <1>1 DEF Visit

\* Rows and children of a managed frame are numbered from zero.
LEMMA FramePositions ==
    ASSUME NEW f \in Frames
    PROVE  ChildOf(f) \in Nat /\ RowOf(f) \in Nat /\ f \in Nat
BY ChildSizePositive DEF ChildOf, RowOf, Frames

\* A block larger than a row consists of a positive number of rows, and the
\* field has at least one group of that size.
LEMMA PartsPositive ==
    ASSUME NEW n, IsSize(n), n > ATOMIC_SIZE, n < CHILD_SIZE
    PROVE  /\ n \in Nat
           /\ Parts(n) \in 1 .. FIELD_N
           /\ FIELD_N \div Parts(n) \in Nat \ {0}
<1>1. PICK e \in 1 .. FIELD_N : n = e * ATOMIC_SIZE
  <2>1. ASSUME NEW h \in 1 .. TREE_CHILDREN, n = h * CHILD_SIZE PROVE FALSE
    <3>1. h * CHILD_SIZE >= CHILD_SIZE
      BY ChildSizePositive
    <3> QED BY <2>1, <3>1, ChildSizePositive
  <2>2. n \notin 1 .. ATOMIC_SIZE
    OBVIOUS
  <2>3. ~ \E h \in 1 .. TREE_CHILDREN : TREE_CHILDREN % h = 0 /\ n = h * CHILD_SIZE
    BY <2>1
  <2>4. \E e \in 1 .. FIELD_N : FIELD_N % e = 0 /\ n = e * ATOMIC_SIZE
    BY <2>2, <2>3, Zenon DEF IsSize
  <2> QED BY <2>4
<1>2. (e * ATOMIC_SIZE) \div ATOMIC_SIZE = e
  OBVIOUS
<1>3. FIELD_N \div e \in Nat \ {0}
  OBVIOUS
<1> QED BY <1>1, <1>2, <1>3 DEF Parts

\* A block of at least a child consists of a positive number of children, and
\* a tree has at least one group of that size.
LEMMA HNumPositive ==
    ASSUME NEW n, IsSize(n), n >= CHILD_SIZE
    PROVE  /\ HNum(n) \in 1 .. TREE_CHILDREN
           /\ TREE_CHILDREN \div HNum(n) \in Nat \ {0}
           /\ n = HNum(n) * CHILD_SIZE
<1> USE ChildSizePositive
<1>1. PICK h \in 1 .. TREE_CHILDREN : n = h * CHILD_SIZE
  <2>1. ASSUME NEW e \in 1 .. FIELD_N, n = e * ATOMIC_SIZE PROVE n = 1 * CHILD_SIZE
    <3>1. e * ATOMIC_SIZE <= FIELD_N * ATOMIC_SIZE
      OBVIOUS
    <3> QED BY <2>1, <3>1 DEF CHILD_SIZE
  <2>2. ASSUME n \in 1 .. ATOMIC_SIZE PROVE n = 1 * CHILD_SIZE
    <3>1. ATOMIC_SIZE * 1 <= ATOMIC_SIZE * FIELD_N
      OBVIOUS
    <3> QED BY <2>2, <3>1 DEF CHILD_SIZE
  <2>3. CASE n \in 1 .. ATOMIC_SIZE \/ \E e \in 1 .. FIELD_N : n = e * ATOMIC_SIZE
    <3>1. n = 1 * CHILD_SIZE
      BY <2>1, <2>2, <2>3
    <3>2. 1 \in 1 .. TREE_CHILDREN
      OBVIOUS
    <3> QED BY <3>1, <3>2, Zenon
  <2>4. CASE \E h \in 1 .. TREE_CHILDREN : n = h * CHILD_SIZE
    BY <2>4
  <2> QED BY <2>3, <2>4, Zenon DEF IsSize
<1>2. (h * CHILD_SIZE) \div CHILD_SIZE = h
  OBVIOUS
<1>3. TREE_CHILDREN \div h \in Nat \ {0}
  OBVIOUS
<1> QED BY <1>1, <1>2, <1>3 DEF HNum

\* What the type invariant says about one thread's call and loop counters.
LEMMA CallSize ==
    ASSUME TypeOK, NEW t \in Threads
    PROVE  /\ call[t].n \in Nat \ {0} /\ IsSize(call[t].n)
           /\ call[t].frame \in Frames /\ call[t].op \in Ops
           /\ loc[t] \in LocType /\ loc[t].k \in Nat /\ loc[t].g \in Nat
           /\ loc[t].i \in Nat /\ loc[t].j \in Nat /\ loc[t].f \in Int
<1>1. IsSize(1)
  BY DEF IsSize
<1>2. call[t] \in CallType /\ loc[t] \in LocType
  BY DEF TypeOK
<1>3. call[t].n \in Sizes \cup AtSizes \cup {1}
  BY <1>2 DEF CallType
<1>4. ASSUME NEW n \in Sizes \cup AtSizes \cup {1}
      PROVE  n \in Nat \ {0} /\ IsSize(n)
  <2>1. CASE n = 1
    BY <1>1, <2>1
  <2>2. CASE n \in Sizes \cup AtSizes
    BY <2>2
  <2> QED BY <2>1, <2>2
<1> QED BY <1>2, <1>3, <1>4 DEF CallType, LocType

\* The child that a call looks at has an integer number and base.
LEMMA CurInt ==
    ASSUME TypeOK, NEW t \in Threads
    PROVE  Cur(t) \in Int /\ ChildBase(Cur(t)) \in Int
<1>1. Cur(t) \in Int
  BY CallSize, FramePositions, VisitInt DEF Cur
<1> QED BY <1>1, ChildSizePositive DEF ChildBase

\* The group of rows that field_set_next looks at.
LEMMA GroupBaseInt ==
    ASSUME TypeInv, NEW t \in Threads, pc[t] \in {"set", "unset"}
    PROVE  GroupBase(t) \in Int /\ Parts(call[t].n) \in 1 .. FIELD_N
<1>1. call[t].n > ATOMIC_SIZE /\ call[t].n < CHILD_SIZE
  BY DEF TypeInv, PhaseOK, PhaseAt, Done
<1>2. /\ call[t].n \in Nat
      /\ Parts(call[t].n) \in 1 .. FIELD_N
      /\ FIELD_N \div Parts(call[t].n) \in Nat \ {0}
  BY <1>1, CallSize, PartsPositive DEF TypeInv
<1>3. (RowOf(call[t].frame) % FIELD_N) \div Parts(call[t].n) \in Int
  BY <1>2, CallSize, FramePositions DEF TypeInv
<1>4. Visit((RowOf(call[t].frame) % FIELD_N) \div Parts(call[t].n),
            FIELD_N \div Parts(call[t].n), loc[t].g) \in Int
  BY <1>2, <1>3, CallSize, VisitInt DEF TypeInv
<1> QED BY <1>2, <1>4, CurInt DEF GroupBase, TypeInv

\* The frames of a part of a block.
LEMMA PartInt ==
    ASSUME NEW f \in Int, NEW n \in Nat, NEW i \in Int
    PROVE  Part(f, n, i) \subseteq Int
<1>1. RowOf(f) \in Int
  BY DEF RowOf
<1>2. (RowOf(f) + i) * ATOMIC_SIZE \in Int
  BY <1>1
<1> QED BY <1>2 DEF Part, Row, Block

\* The group of children that lower_get or lower_put looks at.
LEMMA HBaseInt ==
    ASSUME TypeInv, NEW t \in Threads, pc[t] \in {"huge", "unhuge"}
    PROVE  /\ HBase(t) \in Int /\ ChildBase(HBase(t)) \in Int
           /\ HNum(call[t].n) \in 1 .. TREE_CHILDREN
<1>1. /\ HNum(call[t].n) \in 1 .. TREE_CHILDREN
      /\ TREE_CHILDREN \div HNum(call[t].n) \in Nat \ {0}
  BY CallSize, HNumPositive DEF TypeInv, PhaseOK, PhaseAt
<1>2. ChildOf(call[t].frame) \in Nat
  BY CallSize, FramePositions DEF TypeInv
<1>3. ChildOf(call[t].frame) \div HNum(call[t].n) \in Int
  BY <1>1, <1>2
<1>4. Visit(ChildOf(call[t].frame) \div HNum(call[t].n),
            TREE_CHILDREN \div HNum(call[t].n), loc[t].k) \in Int
  BY <1>1, <1>3, CallSize, VisitInt DEF TypeInv
<1>5. HBase(t) \in Int
  BY <1>1, <1>2, <1>4 DEF HBase
<1> QED BY <1>1, <1>5, ChildSizePositive DEF ChildBase

-----------------------------------------------------------------------------
(* Each action preserves TypeInv. *)

\* A step that moves to a label at which the call may be.
LEMMA PhaseGoto ==
    ASSUME TypeInv, NEW t \in Threads, NEW label, Goto(t, label),
           PhaseAt(call[t], label), UNCHANGED call
    PROVE  PhaseOK'
BY DEF TypeInv, TypeOK, PhaseOK, Goto

\* A step that moves no thread.
LEMMA PhaseStay ==
    ASSUME TypeInv, UNCHANGED <<pc, call>>
    PROVE  PhaseOK'
BY DEF TypeInv, PhaseOK

\* A thread is only at labels at which its call may be.
LEMMA PhaseNow ==
    ASSUME TypeInv, NEW t \in Threads
    PROVE  PhaseAt(call[t], pc[t])
BY DEF TypeInv, PhaseOK

\* Calls and returns.
LEMMA TypeCalls ==
    ASSUME TypeInv, NEW t \in Threads, Begin(t) \/ Return(t)
    PROVE  TypeInv'
<1> USE DEF TypeInv
<1>1. \A op \in Ops, f \in Frames, n \in Sizes \cup AtSizes :
        [op |-> op, frame |-> f, n |-> n] \in CallType
  BY DEF CallType
<1>2. ASSUME NEW c \in CallType, NEW label \in Labels, Goto(t, label),
             call' = [call EXCEPT ![t] = c], PhaseAt(c, label)
      PROVE  /\ call' \in [Threads -> CallType] /\ pc' \in [Threads -> Labels]
             /\ PhaseOK'
  BY <1>2 DEF TypeOK, Goto, PhaseOK
<1>3. CASE \E start \in Starts, n \in Sizes : Get(t, start, n)
  <2>1. PICK start \in Starts, n \in Sizes : Get(t, start, n)
    BY <1>3
  <2> DEFINE c == [op |-> "get", frame |-> start, n |-> n]
             label == IF n >= CHILD_SIZE THEN "huge" ELSE "dec"
  <2>2. c \in CallType
    BY <1>1 DEF Ops
  <2>3. label \in Labels /\ PhaseAt(c, label)
    BY ChildSizePositive DEF Labels, PhaseAt, Done
  <2>4. call' = [call EXCEPT ![t] = c] /\ Goto(t, label)
    BY <2>1 DEF Get
  <2> HIDE DEF c, label
  <2>5. call' \in [Threads -> CallType] /\ pc' \in [Threads -> Labels] /\ PhaseOK'
    BY <1>2, <2>2, <2>3, <2>4
  <2> QED BY <2>1, <2>5 DEF Get, TypeOK, memory, clients, system
<1>4. CASE \E f \in Frames, n \in AtSizes : GetAt(t, f, n)
  <2>1. PICK f \in Frames, n \in AtSizes : GetAt(t, f, n)
    BY <1>4
  <2> DEFINE c == [op |-> "get_at", frame |-> f, n |-> n]
             label == IF ~InRange(f, n) THEN "argument"
                      ELSE IF n >= CHILD_SIZE THEN "huge" ELSE "dec"
  <2>2. c \in CallType
    BY <1>1 DEF Ops
  <2>3. label \in Labels /\ PhaseAt(c, label)
    BY ChildSizePositive DEF Labels, PhaseAt, Done
  <2>4. call' = [call EXCEPT ![t] = c] /\ Goto(t, label)
    BY <2>1 DEF GetAt
  <2> HIDE DEF c, label
  <2>5. call' \in [Threads -> CallType] /\ pc' \in [Threads -> Labels] /\ PhaseOK'
    BY <1>2, <2>2, <2>3, <2>4
  <2> QED BY <2>1, <2>5 DEF GetAt, TypeOK, memory, clients, system
<1>5. CASE \E f \in Frames, n \in Sizes : Put(t, f, n)
  <2>1. PICK f \in Frames, n \in Sizes : Put(t, f, n)
    BY <1>5
  <2> DEFINE c == [op |-> "put", frame |-> f, n |-> n]
             label == IF n >= CHILD_SIZE THEN "huge" ELSE "load"
  <2>2. f \in Int /\ n \in Nat \ {0}
    BY DEF Frames
  <2>3. c \in CallType
    BY <1>1, <2>2 DEF Ops
  <2>4. label \in Labels /\ PhaseAt(c, label)
    BY ChildSizePositive DEF Labels, PhaseAt, Done
  <2>5. call' = [call EXCEPT ![t] = c] /\ Goto(t, label)
    BY <2>1 DEF Put
  <2> HIDE DEF c, label
  <2>6. call' \in [Threads -> CallType] /\ pc' \in [Threads -> Labels] /\ PhaseOK'
    BY <1>2, <2>3, <2>4, <2>5
  <2>7. Block(f, n) \in SUBSET Int
    BY <2>2 DEF Block
  <2> QED BY <2>1, <2>6, <2>7 DEF Put, TypeOK, memory, clients, system
<1>6. CASE \E f \in Frames, n \in Sizes : PutInvalid(t, f, n)
  <2>1. PICK f \in Frames, n \in Sizes : PutInvalid(t, f, n)
    BY <1>6
  <2> DEFINE c == [op |-> "put", frame |-> f, n |-> n]
  <2>2. c \in CallType
    BY <1>1 DEF Ops
  <2>3. "argument" \in Labels /\ PhaseAt(c, "argument")
    BY DEF Labels, PhaseAt, Done
  <2>4. call' = [call EXCEPT ![t] = c] /\ Goto(t, "argument")
    BY <2>1 DEF PutInvalid
  <2> HIDE DEF c
  <2>5. call' \in [Threads -> CallType] /\ pc' \in [Threads -> Labels] /\ PhaseOK'
    BY <1>2, <2>2, <2>3, <2>4
  <2> QED BY <2>1, <2>5 DEF PutInvalid, TypeOK, memory, clients, system
<1>7. CASE Return(t)
  <2>1. call' \in [Threads -> CallType] /\ pc' \in [Threads -> Labels] /\ PhaseOK'
    <3>1. "idle" \in Labels /\ PhaseAt(NoCall, "idle")
      BY DEF Labels, PhaseAt, Done
    <3> QED BY <1>2, <1>7, <3>1, NoCallType DEF Return
  <2>2. Returned(t) \in SUBSET Int
    <3>1. call[t].n \in Int /\ call[t].frame \in Int /\ loc[t].f \in Int
      BY CallSize DEF Frames
    <3>2. Block(loc[t].f, call[t].n) \subseteq Int /\ Block(call[t].frame, call[t].n) \subseteq Int
      BY <3>1 DEF Block
    <3> QED BY <3>2 DEF Returned
  <2>3. held' \in SUBSET Int /\ own' \in [Threads -> SUBSET Int]
    BY <1>7, <2>2 DEF Return, TypeOK
  <2>4. loc' \in [Threads -> LocType]
    BY <1>7, NoLocType, SetLocType DEF Return, TypeOK
  <2> QED BY <1>7, <2>1, <2>3, <2>4 DEF Return, TypeOK, memory, system
<1> QED BY <1>3, <1>4, <1>5, <1>6, <1>7 DEF Begin

\* What remains to be shown of a step that changes only pc and loc of its call.
Moved == pc' \in [Threads -> Labels] /\ loc' \in [Threads -> LocType] /\ PhaseOK'

\* A step of a call to another label.
LEMMA MovedTo ==
    ASSUME TypeInv, NEW t \in Threads, NEW label \in Labels, Goto(t, label),
           PhaseAt(call[t], label), UNCHANGED call,
           loc' \in [Threads -> LocType]
    PROVE  Moved
BY PhaseGoto, GotoType DEF Moved, TypeInv, TypeOK

\* A step of a call that stays where it is.
LEMMA MovedWithin ==
    ASSUME TypeInv, NEW t \in Threads, UNCHANGED <<pc, call>>,
           loc' \in [Threads -> LocType]
    PROVE  Moved
BY PhaseStay DEF Moved, TypeInv, TypeOK

\* All loop counters that the steps of a call assign.
LEMMA LocTypes ==
    ASSUME TypeInv, NEW t \in Threads
    PROVE  /\ loc \in [Threads -> LocType]
           /\ UNCHANGED loc => loc' \in [Threads -> LocType]
           /\ SetLoc(t, NoLoc) => loc' \in [Threads -> LocType]
           /\ SetLoc(t, LoopAt(loc[t].k + 1, 0)) => loc' \in [Threads -> LocType]
           /\ SetLoc(t, LoopAt(loc[t].k, loc[t].g + 1)) => loc' \in [Threads -> LocType]
           /\ \A f \in Int : SetLoc(t, [NoLoc EXCEPT !.f = f]) =>
                 loc' \in [Threads -> LocType]
           /\ SetLoc(t, [loc[t] EXCEPT !.g = @ + 1]) => loc' \in [Threads -> LocType]
           /\ SetLoc(t, [loc[t] EXCEPT !.i = @ + 1]) => loc' \in [Threads -> LocType]
           /\ SetLoc(t, [loc[t] EXCEPT !.j = @ + 1]) => loc' \in [Threads -> LocType]
<1>1. loc \in [Threads -> LocType] /\ loc[t] \in LocType
  BY DEF TypeInv, TypeOK
<1>2. \A l \in LocType : SetLoc(t, l) => loc' \in [Threads -> LocType]
  BY <1>1, SetLocType
<1>3. /\ [loc[t] EXCEPT !.g = @ + 1] \in LocType
      /\ [loc[t] EXCEPT !.i = @ + 1] \in LocType
      /\ [loc[t] EXCEPT !.j = @ + 1] \in LocType
  BY <1>1, LocUpdate
<1>4. /\ LoopAt(loc[t].k + 1, 0) \in LocType
      /\ LoopAt(loc[t].k, loc[t].g + 1) \in LocType
  BY <1>1 DEF LoopAt, LocType
<1> QED BY <1>1, <1>2, <1>3, <1>4, NoLocType

\* Going on to the next child of the tree (lower_get).
LEMMA NextChildMoves ==
    ASSUME TypeInv, NEW t \in Threads, call[t].op # "put", call[t].n < CHILD_SIZE,
           NextChild(t), UNCHANGED call
    PROVE  Moved
<1>1. loc' \in [Threads -> LocType]
  BY LocTypes DEF NextChild
<1>2. \E label \in {"dec", "memory"} : Goto(t, label)
  BY DEF NextChild
<1>3. \A label \in {"dec", "memory"} : label \in Labels /\ PhaseAt(call[t], label)
  BY DEF Labels, Done, PhaseAt
<1> QED BY <1>1, <1>2, <1>3, MovedTo

\* Going on to the next group of rows (field_set_next).
LEMMA NextGroupMoves ==
    ASSUME TypeInv, NEW t \in Threads, pc[t] \in {"set", "unset"},
           NextGroup(t), UNCHANGED call
    PROVE  Moved
<1>1. loc' \in [Threads -> LocType]
  BY LocTypes DEF NextGroup
<1>2. \E label \in {"set", "undec"} : Goto(t, label)
  BY DEF NextGroup
<1>3. \A label \in {"set", "undec"} : label \in Labels /\ PhaseAt(call[t], label)
  BY PhaseNow DEF Labels, Done, PhaseAt
<1> QED BY <1>1, <1>2, <1>3, MovedTo

\* Going on to the next group of children (lower_get).
LEMMA NextHugeMoves ==
    ASSUME TypeInv, NEW t \in Threads, pc[t] \in {"huge", "unhuge"},
           NextHuge(t), UNCHANGED call
    PROVE  Moved
<1>1. loc' \in [Threads -> LocType]
  BY LocTypes DEF NextHuge
<1>2. \E label \in {"huge", "argument", "memory"} : Goto(t, label)
  BY DEF NextHuge
<1>3. \A label \in {"huge", "argument", "memory"} :
        label \in Labels /\ PhaseAt(call[t], label)
  BY PhaseNow DEF Labels, Done, PhaseAt
<1> QED BY <1>1, <1>2, <1>3, MovedTo

\* lower_get and lower_get_at below the size of a huge page.
LEMMA TypeSmall ==
    ASSUME TypeInv, NEW t \in Threads,
           ChildDec(t) \/ UndoDec(t) \/ SearchRow(t) \/ SetRow(t) \/ UndoSetRow(t)
    PROVE  TypeInv'
<1> USE DEF TypeInv
<1>n. call[t].n \in Nat /\ call[t].op \in Ops
  BY CallSize
<1>1. CASE ChildDec(t)
  <2>1. children' \in [Children -> ChildType]
    BY <1>1, <1>n, ChildUpdate DEF ChildDec, TypeOK
  <2>2. pc[t] = "dec" /\ call[t].op # "put" /\ call[t].n < CHILD_SIZE
    BY <1>1, PhaseNow DEF ChildDec, At, PhaseAt, Done
  <2>3. CASE NextChild(t)
    BY <1>1, <2>1, <2>2, <2>3, NextChildMoves
       DEF ChildDec, TypeOK, Moved, clients, system
  <2>4. CASE ~NextChild(t)
    <3>1. \E label \in {"mark", "set", "search"} :
             Goto(t, label) /\ PhaseAt(call[t], label)
      <4>1. Goto(t, IF call[t].op = "get_at" THEN "mark"
                    ELSE IF call[t].n > ATOMIC_SIZE THEN "set" ELSE "search")
        BY <1>1, <2>4 DEF ChildDec
      <4>2. call[t].op = "get_at" \/ call[t].op = "get"
        BY <1>n, <2>2 DEF Ops
      <4> QED BY <1>n, <2>2, <4>1, <4>2 DEF PhaseAt, Done
    <3>2. {"mark", "set", "search"} \subseteq Labels
      BY DEF Labels
    <3>3. UNCHANGED <<loc, call>>
      BY <1>1, <2>4 DEF ChildDec
    <3>4. Moved
      BY <3>1, <3>2, <3>3, MovedTo, LocTypes
    <3> QED BY <1>1, <2>1, <3>4 DEF ChildDec, TypeOK, Moved, clients, system
  <2> QED BY <2>3, <2>4
<1>2. CASE UndoDec(t)
  <2>1. children' \in [Children -> ChildType]
    BY <1>2, <1>n, ChildUpdate DEF UndoDec, TypeOK
  <2>2. pc[t] = "undec" /\ call[t].op # "put" /\ call[t].n < CHILD_SIZE
    BY <1>2, PhaseNow DEF UndoDec, At, PhaseAt, Done
  <2>3. CASE NextChild(t)
    BY <1>2, <2>1, <2>2, <2>3, NextChildMoves
       DEF UndoDec, TypeOK, Moved, clients, system
  <2>4. CASE ~NextChild(t)
    <3>1. Goto(t, "abort") /\ UNCHANGED <<loc, call>>
      BY <1>2, <2>4 DEF UndoDec
    <3>2. "abort" \in Labels /\ PhaseAt(call[t], "abort")
      BY DEF Labels, PhaseAt, Done
    <3>3. Moved
      BY <3>1, <3>2, MovedTo, LocTypes
    <3> QED BY <1>2, <2>1, <3>3 DEF UndoDec, TypeOK, Moved, clients, system
  <2> QED BY <2>3, <2>4
<1>3. CASE SearchRow(t)
  <2> DEFINE r == FIELD_N * Cur(t)
                    + Visit(RowOf(call[t].frame) % FIELD_N, FIELD_N, loc[t].g)
  <2>1. r \in Int
    <3>1. RowOf(call[t].frame) % FIELD_N \in Int
      BY CallSize, FramePositions
    <3>2. Visit(RowOf(call[t].frame) % FIELD_N, FIELD_N, loc[t].g) \in Int
      BY <3>1, CallSize, VisitInt
    <3>3. FIELD_N * Cur(t) \in Int
      BY CurInt
    <3> QED BY <3>2, <3>3
  <2>2. \A f \in FreeInRow(r, call[t].n) : f \in Int /\ Block(f, call[t].n) \subseteq Int
    BY <2>1, <1>n DEF FreeInRow, Row, Block
  <2>3. pc[t] = "search" /\ call[t].op = "get" /\ call[t].n < CHILD_SIZE
    BY <1>3, PhaseNow DEF SearchRow, At, PhaseAt, Done
  <2>4. CASE \E f \in FreeInRow(r, call[t].n) :
               /\ bits' = bits \cup Block(f, call[t].n)
               /\ own'  = [own EXCEPT ![t] = Block(f, call[t].n)]
               /\ SetLoc(t, [NoLoc EXCEPT !.f = f])
               /\ Goto(t, "ok")
    <3>1. bits' \in SUBSET Int /\ own' \in [Threads -> SUBSET Int]
      BY <2>2, <2>4 DEF TypeOK
    <3>2. loc' \in [Threads -> LocType]
      BY <2>2, <2>4, LocTypes
    <3>3. "ok" \in Labels /\ PhaseAt(call[t], "ok")
      BY DEF Labels, PhaseAt, Done
    <3>4. Goto(t, "ok") /\ UNCHANGED call
      BY <1>3, <2>4 DEF SearchRow
    <3>5. Moved
      BY <3>2, <3>3, <3>4, MovedTo
    <3> QED BY <1>3, <3>1, <3>5 DEF SearchRow, TypeOK, Moved, clients, system
  <2>5. CASE UNCHANGED <<bits, own, pc>> /\ SetLoc(t, [loc[t] EXCEPT !.g = @ + 1])
    <3>1. Moved
      BY <1>3, <2>5, LocTypes, MovedWithin DEF SearchRow
    <3> QED BY <1>3, <2>5, <3>1 DEF SearchRow, TypeOK, Moved, clients, system
  <2>6. CASE UNCHANGED <<bits, own, loc>> /\ Goto(t, "undec")
    <3>1. "undec" \in Labels /\ PhaseAt(call[t], "undec")
      BY <2>3 DEF Labels, PhaseAt, Done
    <3>2. Moved
      BY <1>3, <2>6, <3>1, LocTypes, MovedTo DEF SearchRow
    <3> QED BY <1>3, <2>6, <3>2 DEF SearchRow, TypeOK, Moved, clients, system
  <2> HIDE DEF r
  <2> QED BY <1>3, <2>4, <2>5, <2>6 DEF SearchRow, r
<1>4. CASE SetRow(t)
  <2>1. pc[t] = "set" /\ GroupBase(t) \in Int
    BY <1>4, GroupBaseInt DEF SetRow, At
  <2> DEFINE P == Part(GroupBase(t), call[t].n, loc[t].i)
  <2>2. CASE /\ bits' = bits \cup P
             /\ own' = [own EXCEPT ![t] = @ \cup P]
             /\ Moved
    <3>1. P \subseteq Int
      BY <2>1, <1>n, PartInt, CallSize
    <3>2. bits' \in SUBSET Int /\ own' \in [Threads -> SUBSET Int]
      BY <2>2, <3>1 DEF TypeOK
    <3> QED BY <1>4, <2>2, <3>2 DEF SetRow, TypeOK, Moved, clients, system
  <2>3. CASE UNCHANGED <<bits, own>> /\ Moved
    BY <1>4, <2>3 DEF SetRow, TypeOK, Moved, clients, system
  <2>4. Moved
    <3>1. CASE NextGroup(t)
      BY <1>4, <2>1, <3>1, NextGroupMoves DEF SetRow
    <3>2. CASE Goto(t, "ok") /\ SetLoc(t, [NoLoc EXCEPT !.f = GroupBase(t)])
      <4>1. "ok" \in Labels /\ PhaseAt(call[t], "ok")
        BY DEF Labels, PhaseAt, Done
      <4> QED BY <1>4, <2>1, <3>2, <4>1, LocTypes, MovedTo DEF SetRow
    <3>3. CASE SetLoc(t, [loc[t] EXCEPT !.i = @ + 1]) /\ UNCHANGED pc
      BY <1>4, <3>3, LocTypes, MovedWithin DEF SetRow
    <3>4. CASE Goto(t, "unset") /\ UNCHANGED loc
      <4>1. "unset" \in Labels /\ PhaseAt(call[t], "unset")
        BY <2>1, PhaseNow DEF Labels, PhaseAt, Done
      <4> QED BY <1>4, <3>4, <4>1, LocTypes, MovedTo DEF SetRow
    <3> QED BY <1>4, <3>1, <3>2, <3>3, <3>4 DEF SetRow
  <2> QED BY <1>4, <2>2, <2>3, <2>4 DEF SetRow, Toggled
<1>5. CASE UndoSetRow(t)
  <2>1. pc[t] = "unset"
    BY <1>5 DEF UndoSetRow, At
  <2> DEFINE P == Part(GroupBase(t), call[t].n, UndoRow(t))
  <2>2. bits' \in SUBSET Int /\ own' \in [Threads -> SUBSET Int]
    BY <1>5 DEF UndoSetRow, Toggled, TypeOK
  <2>3. Moved
    <3>1. CASE NextGroup(t)
      BY <1>5, <2>1, <3>1, NextGroupMoves DEF UndoSetRow
    <3>2. CASE SetLoc(t, [loc[t] EXCEPT !.j = @ + 1]) /\ UNCHANGED pc
      BY <1>5, <3>2, LocTypes, MovedWithin DEF UndoSetRow
    <3>3. CASE Goto(t, "abort") /\ UNCHANGED loc
      <4>1. "abort" \in Labels /\ PhaseAt(call[t], "abort")
        BY DEF Labels, PhaseAt, Done
      <4> QED BY <1>5, <3>3, <4>1, LocTypes, MovedTo DEF UndoSetRow
    <3> QED BY <1>5, <3>1, <3>2, <3>3 DEF UndoSetRow
  <2> QED BY <1>5, <2>2, <2>3 DEF UndoSetRow, TypeOK, Moved, clients, system
<1> QED BY <1>1, <1>2, <1>3, <1>4, <1>5

\* field_toggle and its undo.
LEMMA TypeToggle ==
    ASSUME TypeInv, NEW t \in Threads, NEW label \in Toggles,
           Toggle(t, label) \/ UndoToggle(t, label)
    PROVE  TypeInv'
<1> USE DEF TypeInv
<1> DEFINE b == Target(t, label)
<1>1. b.f \in Int /\ b.n \in Nat
  BY CallSize, CurInt, ChildSizePositive DEF Target, Frames
<1> HIDE DEF b
<1>2. ASSUME NEW i \in Int, NEW P, P = Part(b.f, b.n, i)
      PROVE  /\ Toggled(P, Expected(label)) \in SUBSET Int
             /\ OwnAfter(t, P, label, Expected(label)) \in [Threads -> SUBSET Int]
  <2>1. P \subseteq Int
    BY <1>1, <1>2, PartInt
  <2>2. Toggled(P, Expected(label)) \in SUBSET Int
    BY <2>1 DEF Toggled, TypeOK
  <2>3. OwnAfter(t, P, label, Expected(label)) \in [Threads -> SUBSET Int]
    BY <2>1 DEF OwnAfter, TypeOK
  <2> QED BY <2>2, <2>3
<1>3. ASSUME pc[t] \in {label, UndoOf(label)},
             NEW next \in {AfterToggle(label), AfterFailure(label), UndoOf(label), "abort"}
      PROVE  next \in Labels /\ PhaseAt(call[t], next)
  <2>1. CASE label = "mark"
    BY <1>3, <2>1, PhaseNow
       DEF AfterToggle, AfterFailure, UndoOf, Labels, Done, PhaseAt
  <2>2. CASE label = "clear"
    BY <1>3, <2>2, PhaseNow
       DEF AfterToggle, AfterFailure, UndoOf, Labels, Done, PhaseAt
  <2>3. CASE label = "split"
    BY <1>3, <2>3, PhaseNow
       DEF AfterToggle, AfterFailure, UndoOf, Labels, Done, PhaseAt
  <2> QED BY <2>1, <2>2, <2>3 DEF Toggles
<1>4. CASE Toggle(t, label)
  <2>1. pc[t] = label
    BY <1>4 DEF Toggle, At
  <2>2. bits' \in SUBSET Int /\ own' \in [Threads -> SUBSET Int]
    BY <1>2, <1>4, CallSize DEF Toggle, b, TypeOK
  <2>3. Moved
    <3>1. CASE Goto(t, AfterToggle(label)) /\ SetLoc(t, [NoLoc EXCEPT !.f = b.f])
      BY <1>1, <1>3, <1>4, <2>1, <3>1, LocTypes, MovedTo DEF Toggle
    <3>2. CASE SetLoc(t, [loc[t] EXCEPT !.i = @ + 1]) /\ UNCHANGED pc
      BY <1>4, <3>2, LocTypes, MovedWithin DEF Toggle
    <3>3. CASE (Goto(t, AfterFailure(label)) \/ Goto(t, UndoOf(label))) /\ UNCHANGED loc
      BY <1>3, <1>4, <2>1, <3>3, LocTypes, MovedTo DEF Toggle
    <3> QED BY <1>4, <3>1, <3>2, <3>3 DEF Toggle, b
  <2> QED BY <1>4, <2>2, <2>3 DEF Toggle, TypeOK, Moved, clients, system
<1>5. CASE UndoToggle(t, label)
  <2>1. pc[t] = UndoOf(label)
    BY <1>5 DEF UndoToggle, At
  <2>2. bits' \in SUBSET Int /\ own' \in [Threads -> SUBSET Int]
    <3>1. loc[t].i - loc[t].j - 1 \in Int
      BY CallSize
    <3> QED BY <1>2, <1>5, <3>1 DEF UndoToggle, b, TypeOK
  <2>3. Moved
    <3>1. CASE Goto(t, AfterFailure(label)) /\ SetLoc(t, NoLoc)
      BY <1>3, <1>5, <2>1, <3>1, LocTypes, MovedTo DEF UndoToggle
    <3>2. CASE SetLoc(t, [loc[t] EXCEPT !.j = @ + 1]) /\ UNCHANGED pc
      BY <1>5, <3>2, LocTypes, MovedWithin DEF UndoToggle
    <3>3. CASE Goto(t, "abort") /\ UNCHANGED loc
      BY <1>3, <1>5, <2>1, <3>3, LocTypes, MovedTo DEF UndoToggle
    <3> QED BY <1>5, <3>1, <3>2, <3>3 DEF UndoToggle
  <2> QED BY <1>5, <2>2, <2>3 DEF UndoToggle, TypeOK, Moved, clients, system
<1> QED BY <1>4, <1>5

\* lower_put below the size of a huge page.
LEMMA TypePut ==
    ASSUME TypeInv, NEW t \in Threads,
           Load(t) \/ SplitCas(t) \/ SplitWait(t) \/ ChildInc(t)
    PROVE  TypeInv'
<1> USE DEF TypeInv
<1>1. ASSUME pc[t] \in {"load", "split_cas", "wait", "inc"},
             NEW next \in {"split", "clear", "memory", "ok", "abort"}
      PROVE  next \in Labels /\ PhaseAt(call[t], next)
  BY <1>1, PhaseNow DEF Labels, Done, PhaseAt
<1>2. CASE Load(t)
  <2>1. \E next \in {"split", "clear"} : Goto(t, next)
    BY <1>2 DEF Load
  <2>2. Moved
    BY <1>1, <1>2, <2>1, LocTypes, MovedTo DEF Load, At
  <2> QED BY <1>2, <2>2 DEF Load, TypeOK, Moved, memory, clients, system
<1>3. CASE SplitCas(t)
  <2>1. children' \in [Children -> ChildType]
    BY <1>3, ChildUpdate DEF SplitCas, TypeOK
  <2>2. \E next \in {"clear", "abort"} : Goto(t, next)
    BY <1>3 DEF SplitCas
  <2>3. Moved
    BY <1>1, <1>3, <2>2, LocTypes, MovedTo DEF SplitCas, At
  <2> QED BY <1>3, <2>1, <2>3 DEF SplitCas, TypeOK, Moved, clients, system
<1>4. CASE SplitWait(t)
  <2>1. Moved
    <3>1. CASE (\E next \in {"clear", "memory"} : Goto(t, next)) /\ SetLoc(t, NoLoc)
      BY <1>1, <1>4, <3>1, LocTypes, MovedTo DEF SplitWait, At
    <3>2. CASE SetLoc(t, [loc[t] EXCEPT !.j = @ + 1]) /\ UNCHANGED pc
      BY <1>4, <3>2, LocTypes, MovedWithin DEF SplitWait
    <3> QED BY <1>4, <3>1, <3>2 DEF SplitWait
  <2> QED BY <1>4, <2>1 DEF SplitWait, TypeOK, Moved, memory, clients, system
<1>5. CASE ChildInc(t)
  <2>1. children' \in [Children -> ChildType]
    BY <1>5, ChildUpdate, CallSize DEF ChildInc, TypeOK
  <2>2. \E next \in {"ok", "abort"} : Goto(t, next)
    BY <1>5 DEF ChildInc
  <2>3. Moved
    BY <1>1, <1>5, <2>2, LocTypes, MovedTo DEF ChildInc, At
  <2> QED BY <1>5, <2>1, <2>3 DEF ChildInc, TypeOK, Moved, clients, system
<1> QED BY <1>2, <1>3, <1>4, <1>5

\* try_update_huge_n and its undo.
LEMMA TypeHuge ==
    ASSUME TypeInv, NEW t \in Threads, HugeCas(t) \/ UndoHuge(t)
    PROVE  TypeInv'
<1> USE DEF TypeInv
<1>1. pc[t] \in {"huge", "unhuge"}
  BY DEF HugeCas, UndoHuge, At
<1>2. HBase(t) \in Int /\ ChildBase(HBase(t)) \in Int
  BY <1>1, HBaseInt
<1>3. /\ HBase(t) + loc[t].i \in Int
      /\ HBase(t) + UndoChild(t) \in Int
  BY <1>2, CallSize DEF UndoChild
<1>4. \A c \in Int : ChildFrames(c) \subseteq Int
  BY ChildSizePositive DEF ChildFrames, ChildBase, Block
<1>5. Before(t) \in ChildType /\ After(t) \in ChildType
  BY ChildUpdate DEF Before, After, TypeOK
<1>6. ASSUME NEW next \in {"ok", "unhuge", "abort"}
      PROVE  next \in Labels /\ PhaseAt(call[t], next)
  BY <1>1, PhaseNow DEF Labels, Done, PhaseAt
<1>7. CASE HugeCas(t)
  <2>1. children' \in [Children -> ChildType]
    BY <1>5, <1>7, ChildUpdate DEF HugeCas, TypeOK
  <2>2. own' \in [Threads -> SUBSET Int]
    BY <1>3, <1>4, <1>7 DEF HugeCas, TypeOK
  <2>3. Moved
    <3>1. CASE NextHuge(t)
      BY <1>1, <1>7, <3>1, NextHugeMoves DEF HugeCas
    <3>2. CASE Goto(t, "ok") /\ SetLoc(t, [NoLoc EXCEPT !.f = ChildBase(HBase(t))])
      BY <1>2, <1>6, <1>7, <3>2, LocTypes, MovedTo DEF HugeCas
    <3>3. CASE SetLoc(t, [loc[t] EXCEPT !.i = @ + 1]) /\ UNCHANGED pc
      BY <1>7, <3>3, LocTypes, MovedWithin DEF HugeCas
    <3>4. CASE Goto(t, "unhuge") /\ UNCHANGED loc
      BY <1>6, <1>7, <3>4, LocTypes, MovedTo DEF HugeCas
    <3> QED BY <1>7, <3>1, <3>2, <3>3, <3>4 DEF HugeCas
  <2> QED BY <1>7, <2>1, <2>2, <2>3 DEF HugeCas, TypeOK, Moved, clients, system
<1>8. CASE UndoHuge(t)
  <2>1. children' \in [Children -> ChildType]
    BY <1>5, <1>8, ChildUpdate DEF UndoHuge, TypeOK
  <2>2. own' \in [Threads -> SUBSET Int]
    BY <1>3, <1>4, <1>8 DEF UndoHuge, TypeOK
  <2>3. Moved
    <3>1. CASE NextHuge(t)
      BY <1>1, <1>8, <3>1, NextHugeMoves DEF UndoHuge
    <3>2. CASE SetLoc(t, [loc[t] EXCEPT !.j = @ + 1]) /\ UNCHANGED pc
      BY <1>8, <3>2, LocTypes, MovedWithin DEF UndoHuge
    <3>3. CASE Goto(t, "abort") /\ UNCHANGED loc
      BY <1>6, <1>8, <3>3, LocTypes, MovedTo DEF UndoHuge
    <3> QED BY <1>8, <3>1, <3>2, <3>3 DEF UndoHuge
  <2> QED BY <1>8, <2>1, <2>2, <2>3 DEF UndoHuge, TypeOK, Moved, clients, system
<1> QED BY <1>7, <1>8

\* A crash and the steps of lower_recover.
LEMMA TypeSystem ==
    ASSUME TypeInv, Crash \/ RecoverChild
    PROVE  TypeInv'
<1> USE DEF TypeInv
<1>1. CASE Crash
  <2>1. crashes' \in 0 .. MaxCrashes
    BY <1>1 DEF Crash, TypeOK
  <2>2. lost' \in SUBSET Int /\ own' \in [Threads -> SUBSET Int]
    <3>1. lost \subseteq Int /\ \A t \in Threads : own[t] \subseteq Int
      BY DEF TypeOK
    <3>2. UNION {own[t] : t \in Threads} \subseteq Int
      BY <3>1
    <3>3. lost' = lost \cup UNION {own[t] : t \in Threads} /\ own' = [t \in Threads |-> {}]
      BY <1>1 DEF Crash
    <3> HIDE DEF TypeInv
    <3> QED BY <3>1, <3>2, <3>3
  <2>3. /\ pc' \in [Threads -> Labels] /\ call' \in [Threads -> CallType]
        /\ loc' \in [Threads -> LocType]
    BY <1>1, NoLocType, NoCallType DEF Crash, Labels
  <2>4. PhaseOK'
    BY <1>1 DEF Crash, PhaseOK, PhaseAt
  <2>5. boot' \in 0 .. ChildCount
    BY <1>1, ChildCountNat DEF Crash
  <2> QED BY <1>1, <2>1, <2>2, <2>3, <2>4, <2>5 DEF Crash, TypeOK, memory
<1>2. CASE RecoverChild
  <2>1. boot \in Nat /\ boot' \in 0 .. ChildCount
    BY <1>2, ChildCountNat DEF RecoverChild, Recovering, TypeOK
  <2>2. Child(CHILD_SIZE - Cardinality(bits \cap ChildFrames(boot)), FALSE) \in ChildType
    <3>0. boot \in Int
      BY <2>1
    <3>1. CHILD_SIZE - Cardinality(bits \cap ChildFrames(boot)) \in 0 .. CHILD_SIZE
      BY <3>0, ChildBits, Zenon
    <3>2. \A n \in 0 .. CHILD_SIZE : Child(n, FALSE) \in ChildType
      BY DEF Child, ChildType
    <3> QED BY <3>1, <3>2
  <2>3. children' \in [Children -> ChildType]
    BY <1>2, <2>2, ChildUpdate DEF RecoverChild, TypeOK
  <2>4. bits' \in SUBSET Int
    BY <1>2 DEF RecoverChild, TypeOK
  <2>5. PhaseOK'
    BY <1>2, PhaseStay DEF RecoverChild
  <2> QED BY <1>2, <2>1, <2>3, <2>4, <2>5 DEF RecoverChild, TypeOK, clients
<1> QED BY <1>1, <1>2

\* lower_clear starts with types and labels that agree.
LEMMA TypeInvInit == Init => TypeInv
<1> SUFFICES ASSUME Init PROVE TypeInv
  OBVIOUS
<1>1. TypeOK
  BY TypeInit
<1>2. PhaseOK
  BY DEF Init, PhaseOK, PhaseAt
<1> QED BY <1>1, <1>2 DEF TypeInv

\* Every step preserves TypeInv.
LEMMA TypeInvNext == TypeInv /\ [Next]_vars => TypeInv'
<1> SUFFICES ASSUME TypeInv, [Next]_vars PROVE TypeInv'
  OBVIOUS
<1>1. ASSUME NEW t \in Threads, Begin(t) \/ Step(t) PROVE TypeInv'
  BY <1>1, TypeCalls, TypeSmall, TypeToggle, TypePut, TypeHuge DEF Step
<1>2. CASE Crash \/ RecoverChild
  BY <1>2, TypeSystem
<1>3. CASE UNCHANGED vars
  BY <1>3 DEF vars, memory, clients, system, TypeInv, TypeOK, PhaseOK
<1> QED BY <1>1, <1>2, <1>3 DEF Next

\* The variables of Lower keep their types, and no child's free counter ever
\* leaves 0 .. CHILD_SIZE, whatever the threads do, with crashes at any step,
\* for any geometry and any legal sizes (lower.c, bitfield.c, child.c).
THEOREM TypeCorrect == Spec => []TypeOK
<1>1. TypeInv => TypeOK
  BY DEF TypeInv
<1> QED BY <1>1, TypeInvInit, TypeInvNext, PTL DEF Spec

-----------------------------------------------------------------------------
(* The clients. *)

\* No call is about more than one huge page.  The undo of try_update_huge_n, which
\* only larger calls reach, frees a huge page that somebody holds.
OneHuge == \A n \in Sizes \cup AtSizes : n <= CHILD_SIZE

-----------------------------------------------------------------------------
(* The invariant. *)

\* The frames of a part of a block: a row, or a block within a row.
Unit(n) == IF n > ATOMIC_SIZE THEN ATOMIC_SIZE ELSE n

\* Everything that somebody owns, and the frames beyond the end.
Owned == held \cup lost \cup (UNION {own[t] : t \in Threads}) \cup (AllFrames \ Frames)

InRangeOwned == held \subseteq Frames /\ lost \subseteq Frames
                    /\ \A t \in Threads : own[t] \subseteq Frames

Splitting == {"split", "unsplit", "split_cas", "wait"}

\* Which frames a call owns, label by label.
OwnAt(t) ==
    LET p == pc[t]
        c == call[t]
        l == loc[t]
        u == Unit(call[t].n)
    IN
    /\ p \in {"idle", "dec", "undec", "search", "inc"} => own[t] = {}
    /\ p = "set" =>
          /\ l.i \in 0 .. Parts(c.n) - 1 /\ l.j = 0
          /\ own[t] = Block(GroupBase(t), l.i * u)
    /\ p = "unset" =>
          /\ l.i \in 1 .. Parts(c.n) - 1 /\ l.j \in 0 .. l.i - 1
          /\ own[t] = Block(GroupBase(t) + l.j * u, (l.i - l.j) * u)
    /\ p = "mark" => l.i \in 0 .. Parts(c.n) - 1 /\ l.j = 0 /\ own[t] = Block(c.frame, l.i * u)
    /\ p = "unmark" => l.i \in 1 .. Parts(c.n) - 1 /\ l.j = 0 /\ own[t] = Block(c.frame, l.i * u)
    /\ p = "clear" =>
          l.i \in 0 .. Parts(c.n) - 1 /\ own[t] = Block(c.frame + l.i * u, c.n - l.i * u)
    /\ p \in {"load"} \cup Splitting => own[t] = Block(c.frame, c.n)
    /\ p = "huge" =>
          c.n = CHILD_SIZE /\ own[t] = IF c.op = "put" THEN Block(c.frame, c.n) ELSE {}
    /\ p = "ok" =>
          IF c.op = "put" THEN own[t] = {}
          ELSE l.f \in Frames /\ l.f % c.n = 0 /\ own[t] = Block(l.f, c.n)
    /\ p \in {"memory", "argument"} =>
          own[t] = IF c.op = "put" /\ InRange(c.frame, c.n) THEN Block(c.frame, c.n) ELSE {}
    /\ p \in {"idle", "dec", "load", "huge"} => l.i = 0 /\ l.j = 0
    /\ p = "split" => l.i \in 0 .. Parts(CHILD_SIZE) - 1
    /\ p \notin {"unclear", "unhuge"}
    /\ c.op # "get" /\ p \notin {"idle", "argument"} => InRange(c.frame, c.n)

OwnOK == \A t \in Threads : OwnAt(t)

InPart == InChild \cup {"load"} \cup Splitting

\* A call that works on a child works on frames of it, and as long as it moves
\* frames between the counter and the bits the child does not become a huge page.
AtChild(t) ==
    /\ pc[t] \in InPart => Cur(t) \in 0 .. ChildCount - 1 /\ own[t] \subseteq ChildFrames(Cur(t))
    /\ pc[t] \in InChild => ~children[Cur(t)].huge

\* A call that splits a huge page has marked the rows that it has passed.
SplitAt(t) ==
    /\ pc[t] = "split" /\ children[Cur(t)].huge =>
          Block(ChildBase(Cur(t)), loc[t].i * Unit(CHILD_SIZE)) \subseteq bits
    /\ pc[t] = "split_cas" /\ children[Cur(t)].huge => ChildFrames(Cur(t)) \subseteq bits

ChildOK == \A t \in Threads : AtChild(t) /\ SplitAt(t)

\* Every frame that is owned is marked.
Mark(f) == children[ChildOf(f)].huge \/ f \in bits

Marked == \A f \in Owned : Mark(f)

\* The frames of child c that are free, owned or being moved.
Sum(c) == children[c].free + Cardinality(Owned \cap ChildFrames(c)) + Cardinality(Owing(c))

CountOK ==
    \A c \in 0 .. boot - 1 : ~children[c].huge =>
        IsFiniteSet(Owing(c)) /\ Sum(c) <= CHILD_SIZE

BeyondOK == \A c \in ChildCount .. ChildSlots - 1 : children[c] = HugeChild

RestOK == Recovering => \A t \in Threads : pc[t] = "idle"

XInv == /\ TypeInv /\ Exclusive /\ InRangeOwned /\ OwnOK /\ ChildOK /\ Marked
        /\ CountOK /\ BeyondOK /\ RestOK

-----------------------------------------------------------------------------
(* Geometry: where blocks lie. *)

\* Division rounds down.
LEMMA Division ==
    ASSUME NEW m \in Nat \ {0}, NEW f \in Int
    PROVE  f \div m \in Int /\ m * (f \div m) <= f /\ f < m * (f \div m) + m
OBVIOUS

\* A number that is a multiple of n lies, with the n - 1 that follow it, between two
\* multiples of any multiple of n.
LEMMA Aligned ==
    ASSUME NEW n \in Nat \ {0}, NEW q \in Nat \ {0}, NEW m \in Nat \ {0}, m = q * n,
           NEW f \in Int, f % n = 0
    PROVE  /\ m * (f \div m) <= f /\ f + n <= m * (f \div m) + m
           /\ f \div m \in Int
<1> DEFINE b == f \div m
           a == f \div n
<1>1. b \in Int /\ m * b <= f /\ f < m * b + m
  BY Division
<1>2. a \in Int /\ f = n * a
  OBVIOUS
<1> HIDE DEF a, b
<1>3. m * b = n * (q * b)
  BY <1>1
<1>4. q * b \in Int
  BY <1>1
<1>5. n * a < n * (q * b + q)
  BY <1>1, <1>2, <1>3, <1>4
<1>6. a < q * b + q
  BY <1>2, <1>4, <1>5
<1>7. a + 1 <= q * b + q
  BY <1>2, <1>4, <1>6
<1>8. n * (a + 1) <= n * (q * b + q)
  BY <1>2, <1>4, <1>7
<1>9. f + n <= m * b + m
  BY <1>2, <1>3, <1>4, <1>8
<1> QED BY <1>1, <1>9 DEF b

\* What division makes of a number between two multiples.
LEMMA Quotient ==
    ASSUME NEW m \in Nat \ {0}, NEW f \in Int, NEW c \in Int
    PROVE  (f \div m = c) <=> (m * c <= f /\ f < m * c + m)
<1>1. f \div m \in Int /\ m * (f \div m) <= f /\ f < m * (f \div m) + m
  BY Division
<1>2. ASSUME NEW b \in Int, NEW d \in Int, b < d PROVE m * b + m <= m * d
  <2>1. m * (b + 1) <= m * d
    BY <1>2
  <2> QED BY <1>2, <2>1
<1> QED BY <1>1, <1>2

\* Blocks as intervals.
LEMMA Blocks ==
    ASSUME NEW a \in Int, NEW k \in Nat, NEW m \in Nat
    PROVE  /\ Block(a, k) \cup Block(a + k, m) = Block(a, k + m)
           /\ Block(a, k) \cap Block(a + k, m) = {}
           /\ Block(a, 0) = {}
           /\ IsFiniteSet(Block(a, k)) /\ Cardinality(Block(a, k)) = k
           /\ Block(a, k) \subseteq Int
<1>1. IsFiniteSet(Block(a, k)) /\ Cardinality(Block(a, k)) = k
  BY FS_Interval DEF Block
<1> QED BY <1>1 DEF Block

\* The frames of child c are those that get_child finds in c.
LEMMA FramesOfChild ==
    ASSUME NEW f \in Int, NEW c \in Int
    PROVE  f \in ChildFrames(c) <=> ChildOf(f) = c
<1>1. (f \div CHILD_SIZE = c) <=> (CHILD_SIZE * c <= f /\ f < CHILD_SIZE * c + CHILD_SIZE)
  BY ChildSizePositive, Quotient
<1>2. c * CHILD_SIZE = CHILD_SIZE * c /\ c * CHILD_SIZE \in Int
  BY ChildSizePositive
<1> QED BY <1>1, <1>2, ChildSizePositive DEF ChildFrames, ChildBase, Block, ChildOf

\* A size up to a huge page is a whole number of units, and divides a huge page.
LEMMA Sized ==
    ASSUME NEW n \in Nat \ {0}, IsSize(n), n <= CHILD_SIZE
    PROVE  /\ Unit(n) \in Nat \ {0} /\ Parts(n) \in Nat \ {0} /\ Parts(n) * Unit(n) = n
           /\ \E q \in Nat \ {0} : CHILD_SIZE = q * n
           /\ n > ATOMIC_SIZE => \E e \in 1 .. FIELD_N :
                 FIELD_N % e = 0 /\ n = e * ATOMIC_SIZE /\ Parts(n) = e
           /\ n <= ATOMIC_SIZE => Parts(n) = 1 /\ \E q \in Nat \ {0} : ATOMIC_SIZE = q * n
<1> USE ChildSizePositive
<1>1. (\E e \in 1 .. FIELD_N : FIELD_N % e = 0 /\ n = e * ATOMIC_SIZE)
        \/ (n \in 1 .. ATOMIC_SIZE /\ ATOMIC_SIZE % n = 0)
  <2>1. ASSUME NEW h \in 1 .. TREE_CHILDREN, n = h * CHILD_SIZE
        PROVE  FIELD_N % FIELD_N = 0 /\ n = FIELD_N * ATOMIC_SIZE
    <3>1. CASE h = 1
      BY <2>1, <3>1 DEF CHILD_SIZE
    <3>2. CASE h >= 2
      <4>1. h * CHILD_SIZE >= 2 * CHILD_SIZE
        BY <3>2
      <4> QED BY <2>1, <4>1
    <3> QED BY <3>1, <3>2
  <2>2. FIELD_N \in 1 .. FIELD_N
    OBVIOUS
  <2> QED BY <2>1, <2>2, Zenon DEF IsSize
<1>2. CASE n > ATOMIC_SIZE
  <2>1. PICK e \in 1 .. FIELD_N : FIELD_N % e = 0 /\ n = e * ATOMIC_SIZE
    BY <1>1, <1>2
  <2>2. (e * ATOMIC_SIZE) \div ATOMIC_SIZE = e
    OBVIOUS
  <2>3. FIELD_N \div e \in Nat \ {0} /\ FIELD_N = e * (FIELD_N \div e)
    BY <2>1
  <2>4. CHILD_SIZE = (FIELD_N \div e) * n
    <3> DEFINE d == FIELD_N \div e
    <3>1. d \in Nat \ {0} /\ FIELD_N = e * d
      BY <2>3
    <3> HIDE DEF d
    <3>2. ATOMIC_SIZE * (e * d) = d * (e * ATOMIC_SIZE)
      BY <3>1
    <3> QED BY <2>1, <3>1, <3>2 DEF CHILD_SIZE, d
  <2>5. Unit(n) = ATOMIC_SIZE /\ Parts(n) = e
    BY <1>2, <2>1, <2>2 DEF Unit, Parts
  <2> QED BY <1>2, <2>1, <2>3, <2>4, <2>5
<1>3. CASE n <= ATOMIC_SIZE
  <2>1. ATOMIC_SIZE % n = 0
    <3>1. ASSUME NEW e \in 1 .. FIELD_N, n = e * ATOMIC_SIZE PROVE n = ATOMIC_SIZE
      <4>1. CASE e = 1
        BY <3>1, <4>1
      <4>2. CASE e >= 2
        <5>1. e * ATOMIC_SIZE >= 2 * ATOMIC_SIZE
          BY <4>2
        <5> QED BY <1>3, <3>1, <5>1
      <4> QED BY <4>1, <4>2
    <3>2. ATOMIC_SIZE % ATOMIC_SIZE = 0
      OBVIOUS
    <3> QED BY <1>1, <3>1, <3>2
  <2>2. ATOMIC_SIZE \div n \in Nat \ {0} /\ ATOMIC_SIZE = (ATOMIC_SIZE \div n) * n
    BY <1>3, <2>1
  <2>3. CHILD_SIZE = (FIELD_N * (ATOMIC_SIZE \div n)) * n
                       /\ FIELD_N * (ATOMIC_SIZE \div n) \in Nat \ {0}
    <3> DEFINE d == ATOMIC_SIZE \div n
    <3>1. d \in Nat \ {0} /\ ATOMIC_SIZE = d * n
      BY <2>2
    <3> HIDE DEF d
    <3>2. (d * n) * FIELD_N = (FIELD_N * d) * n /\ FIELD_N * d \in Nat \ {0}
      BY <3>1
    <3> QED BY <3>1, <3>2 DEF CHILD_SIZE, d
  <2>4. Unit(n) = n /\ Parts(n) = 1
    BY <1>3 DEF Unit, Parts
  <2> QED BY <1>3, <2>2, <2>3, <2>4
<1> QED BY <1>2, <1>3

\* An aligned block of up to a huge page lies in one child.
LEMMA BlockInChild ==
    ASSUME NEW n \in Nat \ {0}, IsSize(n), n <= CHILD_SIZE, NEW f \in Int, f % n = 0
    PROVE  Block(f, n) \subseteq ChildFrames(ChildOf(f))
<1>1. PICK q \in Nat \ {0} : CHILD_SIZE = q * n
  BY Sized
<1>2. /\ CHILD_SIZE * (f \div CHILD_SIZE) <= f
      /\ f + n <= CHILD_SIZE * (f \div CHILD_SIZE) + CHILD_SIZE
      /\ f \div CHILD_SIZE \in Int
  BY <1>1, Aligned, ChildSizePositive
<1>3. CHILD_SIZE * (f \div CHILD_SIZE) = (f \div CHILD_SIZE) * CHILD_SIZE
         /\ CHILD_SIZE * (f \div CHILD_SIZE) \in Int
  BY <1>2, ChildSizePositive
<1> QED BY <1>2, <1>3, ChildSizePositive DEF Block, ChildFrames, ChildBase, ChildOf

\* The i-th part of an aligned block consists of its i-th unit of frames.
LEMMA PartIs ==
    ASSUME NEW n \in Nat \ {0}, IsSize(n), n <= CHILD_SIZE, NEW f \in Int, f % n = 0,
           NEW i \in 0 .. Parts(n) - 1
    PROVE  /\ Part(f, n, i) = Block(f + i * Unit(n), Unit(n))
           /\ i * Unit(n) \in Nat /\ (i + 1) * Unit(n) = i * Unit(n) + Unit(n)
           /\ n - (i + 1) * Unit(n) \in Nat
<1>1. /\ Unit(n) \in Nat \ {0} /\ Parts(n) \in Nat \ {0} /\ Parts(n) * Unit(n) = n
  BY Sized
<1>2. i * Unit(n) \in Nat /\ (i + 1) * Unit(n) = i * Unit(n) + Unit(n)
  BY <1>1
<1>3. n - (i + 1) * Unit(n) \in Nat
  <2>1. (i + 1) * Unit(n) <= Parts(n) * Unit(n)
    BY <1>1
  <2> QED BY <1>1, <1>2, <2>1
<1>4. CASE n > ATOMIC_SIZE
  <2>1. PICK e \in 1 .. FIELD_N : n = e * ATOMIC_SIZE
    BY <1>4, Sized
  <2>2. Unit(n) = ATOMIC_SIZE
    BY <1>4 DEF Unit
  <2>3. f = (f \div n) * n /\ f \div n \in Int
    OBVIOUS
  <2> DEFINE r == (f \div n) * e
  <2>4. f = r * ATOMIC_SIZE /\ r \in Int
    <3> DEFINE a == f \div n
    <3>1. a \in Int /\ f = a * n
      BY <2>3
    <3> HIDE DEF a
    <3>2. a * (e * ATOMIC_SIZE) = (a * e) * ATOMIC_SIZE
      BY <3>1
    <3> QED BY <2>1, <3>1, <3>2 DEF a
  <2> HIDE DEF r
  <2>5. RowOf(f) = r
    BY <2>4 DEF RowOf
  <2>6. (r + i) * ATOMIC_SIZE = f + i * ATOMIC_SIZE
    BY <2>4
  <2>7. Part(f, n, i) = Block(f + i * Unit(n), Unit(n))
    BY <1>4, <2>2, <2>5, <2>6 DEF Part, Row
  <2> QED BY <1>2, <1>3, <2>7
<1>5. CASE n <= ATOMIC_SIZE
  <2>1. i = 0 /\ Unit(n) = n
    BY <1>5, Sized DEF Unit
  <2> QED BY <1>2, <1>3, <1>5, <2>1 DEF Part
<1> QED BY <1>4, <1>5

\* for_offsetted stays in the aligned group of len that its start is in.
LEMMA VisitRange ==
    ASSUME NEW start \in Nat, NEW len \in Nat \ {0}, NEW k \in Nat
    PROVE  Visit(start, len, k) - len * (start \div len) \in 0 .. len - 1
<1>1. /\ start % len \in 0 .. len - 1 /\ start - (start % len) = len * (start \div len)
      /\ (k + (start % len)) % len \in 0 .. len - 1
  OBVIOUS
<1> QED BY <1>1 DEF Visit

\* The same for a start in the first group.
LEMMA VisitFirst ==
    ASSUME NEW len \in Nat \ {0}, NEW start \in 0 .. len - 1, NEW k \in Nat
    PROVE  Visit(start, len, k) \in 0 .. len - 1
<1>1. start \div len = 0
  OBVIOUS
<1>2. Visit(start, len, k) - len * 0 \in 0 .. len - 1
  BY <1>1, VisitRange
<1>3. Visit(start, len, k) \in Int
  BY VisitInt
<1> QED BY <1>2, <1>3

\* The children of a tree that a search visits have entries.
LEMMA VisitChildren ==
    ASSUME NEW f \in Frames, NEW k \in Nat
    PROVE  /\ ChildOf(f) \in 0 .. ChildCount - 1
           /\ Visit(ChildOf(f), TREE_CHILDREN, k) \in Children
<1> USE ChildSizePositive, ChildCountNat
<1>1. ChildOf(f) \in 0 .. ChildCount - 1
  <2> DEFINE c == ChildOf(f)
             top == FRAMES + CHILD_SIZE - 1
             d == top \div CHILD_SIZE
  <2>1. c \in Nat /\ CHILD_SIZE * c <= f
    BY FramePositions, Division DEF ChildOf
  <2>2. d \in Int /\ top < CHILD_SIZE * d + CHILD_SIZE
    BY Division
  <2>3. ChildCount = d
    BY DEF ChildCount, DivCeil
  <2>4. f <= FRAMES - 1 /\ f \in Int
    BY DEF Frames
  <2> HIDE DEF c, d
  <2>5. CHILD_SIZE * c < CHILD_SIZE * d
    BY <2>1, <2>2, <2>4
  <2>6. c < d
    BY <2>1, <2>2, <2>5
  <2> QED BY <2>1, <2>2, <2>3, <2>6 DEF c
<1>2. Visit(ChildOf(f), TREE_CHILDREN, k) \in Children
  <2> DEFINE c == ChildOf(f)
             v == Visit(c, TREE_CHILDREN, k)
             a == c \div TREE_CHILDREN
             d == (ChildCount + TREE_CHILDREN - 1) \div TREE_CHILDREN
  <2>1. c \in 0 .. ChildCount - 1
    BY <1>1
  <2> HIDE DEF c
  <2>2. a \in Nat /\ TREE_CHILDREN * a <= c
    BY <2>1
  <2>3. v - TREE_CHILDREN * a \in 0 .. TREE_CHILDREN - 1 /\ v \in Int
    <3>1. c \in Nat /\ c \in Int
      BY <2>1
    <3> QED BY <3>1, VisitRange, VisitInt
  <2>4. d \in Int /\ ChildCount + TREE_CHILDREN - 1 < TREE_CHILDREN * d + TREE_CHILDREN
    BY Division
  <2>5. ChildSlots = d * TREE_CHILDREN
    BY DEF ChildSlots, DivCeil
  <2> HIDE DEF a, v, d
  <2>6. TREE_CHILDREN * a < TREE_CHILDREN * d
    BY <2>1, <2>2, <2>4
  <2>7. a + 1 <= d
    BY <2>2, <2>4, <2>6
  <2>8. TREE_CHILDREN * (a + 1) <= TREE_CHILDREN * d
    BY <2>2, <2>4, <2>7
  <2>9. v < d * TREE_CHILDREN /\ 0 <= v
    BY <2>2, <2>3, <2>4, <2>8
  <2>10. v \in Children
    BY <2>3, <2>5, <2>9 DEF Children
  <2> QED BY <2>10 DEF v, c
<1> QED BY <1>1, <1>2

\* A block that first_zeros_aligned finds in a row of child c.
LEMMA BlockInRow ==
    ASSUME NEW c \in Nat, NEW v \in 0 .. FIELD_N - 1,
           NEW n \in Nat \ {0}, IsSize(n), n <= ATOMIC_SIZE,
           NEW f \in Row(FIELD_N * c + v), f % n = 0
    PROVE  f \in Int /\ ChildOf(f) = c
<1> USE ChildSizePositive
<1>1. (FIELD_N * c + v) * ATOMIC_SIZE \in Int
  OBVIOUS
<1>2. /\ f \in Int /\ (FIELD_N * c + v) * ATOMIC_SIZE <= f
      /\ f < (FIELD_N * c + v) * ATOMIC_SIZE + ATOMIC_SIZE
  BY <1>1 DEF Row, Block
<1>3. (FIELD_N * c + v) * ATOMIC_SIZE = CHILD_SIZE * c + v * ATOMIC_SIZE
  <2>1. (FIELD_N * c + v) * ATOMIC_SIZE = (FIELD_N * c) * ATOMIC_SIZE + v * ATOMIC_SIZE
    OBVIOUS
  <2>2. (FIELD_N * c) * ATOMIC_SIZE = (ATOMIC_SIZE * FIELD_N) * c
    OBVIOUS
  <2> QED BY <2>1, <2>2 DEF CHILD_SIZE
<1>4. 0 <= v * ATOMIC_SIZE /\ v * ATOMIC_SIZE + ATOMIC_SIZE <= CHILD_SIZE
  <2>1. (v + 1) * ATOMIC_SIZE <= FIELD_N * ATOMIC_SIZE
    OBVIOUS
  <2>2. (v + 1) * ATOMIC_SIZE = v * ATOMIC_SIZE + ATOMIC_SIZE
    OBVIOUS
  <2> QED BY <2>1, <2>2 DEF CHILD_SIZE
<1>5. CHILD_SIZE * c <= f /\ f < CHILD_SIZE * c + CHILD_SIZE
  BY <1>2, <1>3, <1>4
<1> QED BY <1>2, <1>5, Quotient DEF ChildOf

-----------------------------------------------------------------------------
(* What a call owns, and what it owes to a counter. *)

\* No call is larger than a huge page.
LEMMA CallSmall ==
    ASSUME OneHuge, TypeOK, NEW t \in Threads
    PROVE  call[t].n <= CHILD_SIZE
<1>1. call[t].n \in Sizes \cup AtSizes \cup {1}
  BY DEF TypeOK, CallType
<1>2. 1 <= CHILD_SIZE
  BY ChildSizePositive
<1> QED BY <1>1, <1>2 DEF OneHuge

\* The group of rows that field_set_next looks at is an aligned block of the child.
LEMMA GroupAt ==
    ASSUME OneHuge, TypeInv, NEW t \in Threads, pc[t] \in {"set", "unset"},
           Cur(t) \in 0 .. ChildCount - 1
    PROVE  /\ GroupBase(t) \in Int /\ GroupBase(t) % call[t].n = 0
           /\ ChildOf(GroupBase(t)) = Cur(t)
<1> DEFINE n == call[t].n
           e == Parts(n)
           len == FIELD_N \div e
           v == Visit((RowOf(call[t].frame) % FIELD_N) \div e, len, loc[t].g)
           c == Cur(t)
<1> USE ChildSizePositive, ChildCountNat
<1>1. n > ATOMIC_SIZE /\ n < CHILD_SIZE
  BY DEF TypeInv, PhaseOK, PhaseAt, Done
<1>2. n \in Nat \ {0} /\ IsSize(n) /\ call[t].frame \in Frames /\ loc[t].g \in Nat
  BY CallSize DEF TypeInv
<1>3. e \in 1 .. FIELD_N /\ FIELD_N % e = 0 /\ n = e * ATOMIC_SIZE
  BY <1>1, <1>2, Sized
<1>4. RowOf(call[t].frame) % FIELD_N \in 0 .. FIELD_N - 1
  BY <1>2, FramePositions
<1>5. GroupBase(t) = ChildBase(c) + n * v
  BY DEF GroupBase
<1> HIDE DEF e, n
<1>6. len \in Nat \ {0} /\ FIELD_N = e * len
  BY <1>3
<1> HIDE DEF len
<1>7. (RowOf(call[t].frame) % FIELD_N) \div e \in 0 .. len - 1
  <2> DEFINE x == RowOf(call[t].frame) % FIELD_N
             y == x \div e
  <2>1. x \in 0 .. FIELD_N - 1
    BY <1>4
  <2> HIDE DEF x
  <2>2. y \in Int /\ e * y <= x /\ 0 <= y
    BY <2>1, <1>3
  <2> HIDE DEF y
  <2>3. e * y < e * len
    BY <2>1, <2>2, <1>3, <1>6
  <2>4. y < len
    BY <2>2, <2>3, <1>3, <1>6
  <2> QED BY <2>2, <2>4, <1>6 DEF x, y
<1>8. v \in 0 .. len - 1
  BY <1>2, <1>6, <1>7, VisitFirst
<1> HIDE DEF v
<1>9. n * len = CHILD_SIZE
  <2>1. (e * ATOMIC_SIZE) * len = ATOMIC_SIZE * (e * len)
    BY <1>3, <1>6
  <2> QED BY <2>1, <1>3, <1>6 DEF CHILD_SIZE
<1>10. c \in Nat
  OBVIOUS
<1> HIDE DEF c
<1>11. GroupBase(t) = n * (len * c + v)
  <2>1. ChildBase(c) = (n * len) * c
    BY <1>2, <1>6, <1>9, <1>10 DEF ChildBase, n
  <2>2. (n * len) * c + n * v = n * (len * c + v)
    BY <1>2, <1>6, <1>8, <1>10 DEF n
  <2> QED BY <1>5, <2>1, <2>2
<1>12. GroupBase(t) \in Int /\ GroupBase(t) % n = 0
  <2>1. len * c + v \in Int
    BY <1>6, <1>8, <1>10
  <2>2. n \in Nat \ {0}
    BY <1>2 DEF n
  <2>3. \A a \in Int : n * a \in Int /\ (n * a) % n = 0
    BY <2>2
  <2> QED BY <1>11, <2>1, <2>3
<1>13. ChildOf(GroupBase(t)) = c
  <2>1. 0 <= n * v /\ n * v < n * len /\ n * v \in Int
    BY <1>2, <1>6, <1>8 DEF n
  <2>2. CHILD_SIZE * c <= GroupBase(t) /\ GroupBase(t) < CHILD_SIZE * c + CHILD_SIZE
    BY <2>1, <1>5, <1>9, <1>10 DEF ChildBase
  <2> QED BY <2>2, <1>10, <1>12, Quotient DEF ChildOf
<1> QED BY <1>12, <1>13 DEF n, c

\* Multiples of the unit.
LEMMA UnitMultiples ==
    ASSUME NEW n \in Nat \ {0}, IsSize(n), n <= CHILD_SIZE, NEW i \in 0 .. Parts(n)
    PROVE  i * Unit(n) \in 0 .. n
<1>1. /\ Unit(n) \in Nat \ {0} /\ Parts(n) \in Nat \ {0} /\ Parts(n) * Unit(n) = n
  BY Sized
<1>2. 0 <= i * Unit(n) /\ i * Unit(n) <= Parts(n) * Unit(n) /\ i * Unit(n) \in Int
  BY <1>1
<1> QED BY <1>1, <1>2

\* A call owns a block of at most the size it is about.
LEMMA OwnBlock ==
    ASSUME OneHuge, TypeInv, NEW t \in Threads, OwnAt(t), pc[t] \in InPart
    PROVE  /\ \E x \in Int, k \in 0 .. call[t].n : own[t] = Block(x, k)
           /\ IsFiniteSet(own[t]) /\ Cardinality(own[t]) \in 0 .. call[t].n
<1> DEFINE n == call[t].n
           f == call[t].frame
           i == loc[t].i
           j == loc[t].j
           u == Unit(n)
<1>1. /\ n \in Nat \ {0} /\ IsSize(n) /\ n <= CHILD_SIZE /\ f \in Int
      /\ i \in Nat /\ j \in Nat
  BY CallSize, CallSmall DEF TypeInv, Frames
<1>2. \A k \in 0 .. Parts(n) : k * u \in 0 .. n
  BY <1>1, UnitMultiples
<1>3. Parts(n) \in Nat \ {0}
  BY <1>1, Sized
<1>4. pc[t] \in {"search", "set", "unset", "undec", "mark", "unmark", "clear", "inc",
                 "load"} \cup Splitting
  BY DEF OwnAt, InPart, InChild
<1>5. \E x \in Int, k \in 0 .. n : own[t] = Block(x, k)
  <2>1. CASE pc[t] \in {"search", "undec", "inc"}
    <3>1. own[t] = {}
      BY <2>1 DEF OwnAt
    <3>2. Block(0, 0) = {} /\ 0 \in 0 .. n
      BY <1>1, Blocks
    <3> QED BY <3>1, <3>2
  <2>2. CASE pc[t] = "set"
    <3>1. i \in 0 .. Parts(n) /\ own[t] = Block(GroupBase(t), i * u)
      BY <2>2, <1>3 DEF OwnAt
    <3> QED BY <2>2, <3>1, <1>2, GroupBaseInt
  <2>3. CASE pc[t] = "unset"
    <3>1. /\ i - j \in 0 .. Parts(n) /\ j \in 0 .. Parts(n)
          /\ own[t] = Block(GroupBase(t) + j * u, (i - j) * u)
      BY <2>3, <1>3 DEF OwnAt
    <3>2. GroupBase(t) + j * u \in Int
      BY <2>3, <3>1, <1>2, GroupBaseInt
    <3> QED BY <3>1, <3>2, <1>2
  <2>4. CASE pc[t] \in {"mark", "unmark"}
    <3>1. i \in 0 .. Parts(n) /\ own[t] = Block(f, i * u)
      BY <2>4, <1>3 DEF OwnAt
    <3> QED BY <3>1, <1>1, <1>2
  <2>5. CASE pc[t] = "clear"
    <3>1. i \in 0 .. Parts(n) /\ own[t] = Block(f + i * u, n - i * u)
      BY <2>5, <1>3 DEF OwnAt
    <3>2. i * u \in 0 .. n
      BY <3>1, <1>2
    <3>3. f + i * u \in Int /\ n - i * u \in 0 .. n
      BY <3>2, <1>1
    <3> QED BY <3>1, <3>3
  <2>6. CASE pc[t] \in {"load"} \cup Splitting
    <3>1. own[t] = Block(f, n)
      BY <2>6 DEF OwnAt
    <3> QED BY <3>1, <1>1
  <2> QED BY <1>4, <2>1, <2>2, <2>3, <2>4, <2>5, <2>6
<1>6. PICK x \in Int, k \in 0 .. n : own[t] = Block(x, k)
  BY <1>5
<1>7. IsFiniteSet(own[t]) /\ Cardinality(own[t]) = k
  BY <1>1, <1>6, Blocks
<1> QED BY <1>5, <1>7

\* What the calls owe to the counter of child c.
DueAt(c) ==
    [t \in Threads |-> IF pc[t] \in InChild /\ Cur(t) = c
                       THEN call[t].n - Cardinality(own[t]) ELSE 0]

LEMMA OwingIsPairs ==
    ASSUME OneHuge
    PROVE  TypeInv /\ OwnOK => \A c \in Int :
              /\ DueAt(c) \in [Threads -> 0 .. CHILD_SIZE]
              /\ Owing(c) = Pairs(Threads, CHILD_SIZE, DueAt(c))
<1> SUFFICES ASSUME TypeInv, OwnOK, NEW c \in Int
             PROVE  /\ DueAt(c) \in [Threads -> 0 .. CHILD_SIZE]
                    /\ Owing(c) = Pairs(Threads, CHILD_SIZE, DueAt(c))
  OBVIOUS
<1>1. ASSUME NEW t \in Threads
      PROVE  DueAt(c)[t] \in 0 .. CHILD_SIZE
  <2>1. CASE pc[t] \in InChild
    <3>1. Cardinality(own[t]) \in 0 .. call[t].n
      BY <2>1, OwnBlock DEF OwnOK, InPart
    <3>2. call[t].n \in 0 .. CHILD_SIZE
      BY CallSize, CallSmall, ChildSizePositive DEF TypeInv
    <3> QED BY <3>1, <3>2, ChildSizePositive DEF DueAt
  <2>2. CASE pc[t] \notin InChild
    BY <2>2, ChildSizePositive DEF DueAt
  <2> QED BY <2>1, <2>2
<1>2. DueAt(c) \in [Threads -> 0 .. CHILD_SIZE]
  BY <1>1 DEF DueAt
<1>3. ASSUME NEW d \in Threads \X (1 .. CHILD_SIZE)
      PROVE  (/\ pc[d[1]] \in InChild /\ Cur(d[1]) = c
              /\ d[2] <= call[d[1]].n - Cardinality(own[d[1]])) <=> d[2] <= DueAt(c)[d[1]]
  <2>1. d[1] \in Threads /\ d[2] \in 1 .. CHILD_SIZE
    OBVIOUS
  <2> QED BY <2>1 DEF DueAt
<1> QED BY <1>2, <1>3 DEF Owing, Pairs

\* The same, after a step.
LEMMA OwingIsPairsNext ==
    OneHuge /\ TypeInv' /\ OwnOK' => \A c \in Int :
        /\ DueAt(c)' \in [Threads -> 0 .. CHILD_SIZE]
        /\ Owing(c)' = Pairs(Threads, CHILD_SIZE, DueAt(c)')
<1>1. OneHuge /\ TypeInv /\ OwnOK => \A c \in Int :
        /\ DueAt(c) \in [Threads -> 0 .. CHILD_SIZE]
        /\ Owing(c) = Pairs(Threads, CHILD_SIZE, DueAt(c))
  BY OwingIsPairs
<1>2. (\A c \in Int : /\ DueAt(c) \in [Threads -> 0 .. CHILD_SIZE]
                      /\ Owing(c) = Pairs(Threads, CHILD_SIZE, DueAt(c)))'
        => \A c \in Int : /\ DueAt(c)' \in [Threads -> 0 .. CHILD_SIZE]
                          /\ Owing(c)' = Pairs(Threads, CHILD_SIZE, DueAt(c)')
  OBVIOUS
<1>3. OneHuge => OneHuge'
  BY DEF OneHuge
<1> QED BY <1>1, <1>2, <1>3, PTL

\* The frames of child c that a call owns or owes.
Weight(t, c) == Cardinality(own[t] \cap ChildFrames(c)) + DueAt(c)[t]

\* The frames of a child are finitely many.
LEMMA ChildFinite ==
    ASSUME NEW c \in Int, NEW B
    PROVE  /\ IsFiniteSet(ChildFrames(c)) /\ Cardinality(ChildFrames(c)) = CHILD_SIZE
           /\ IsFiniteSet(B \cap ChildFrames(c)) /\ Cardinality(B \cap ChildFrames(c)) \in Nat
           /\ Cardinality(B \cap ChildFrames(c)) <= CHILD_SIZE
<1>1. CHILD_SIZE \in Nat \ {0}
  BY ChildSizePositive
<1>2. ChildBase(c) \in Int
  BY <1>1 DEF ChildBase
<1>3. IsFiniteSet(ChildFrames(c)) /\ Cardinality(ChildFrames(c)) = CHILD_SIZE
  BY <1>1, <1>2, Blocks DEF ChildFrames
<1>4. B \cap ChildFrames(c) \in SUBSET ChildFrames(c)
  OBVIOUS
<1>5. /\ IsFiniteSet(B \cap ChildFrames(c))
      /\ Cardinality(B \cap ChildFrames(c)) <= Cardinality(ChildFrames(c))
  BY <1>3, <1>4, FS_Subset
<1> QED BY <1>3, <1>5, FS_CardinalityType

\* Two children have no frame in common.
LEMMA ChildrenApart ==
    ASSUME NEW c \in Int, NEW d \in Int, c # d
    PROVE  ChildFrames(c) \cap ChildFrames(d) = {}
<1>1. ChildFrames(c) \subseteq Int
  BY ChildSizePositive DEF ChildFrames, ChildBase, Block
<1> QED BY <1>1, FramesOfChild

\* Frames of child d count for d and for no other child.
LEMMA CountedOnce ==
    ASSUME NEW c \in Int, NEW d \in Int, NEW B, B \subseteq ChildFrames(d)
    PROVE  Cardinality(B \cap ChildFrames(c)) = IF c = d THEN Cardinality(B) ELSE 0
<1>1. CASE c = d
  <2>1. B \cap ChildFrames(c) = B
    BY <1>1
  <2> QED BY <1>1, <2>1
<1>2. CASE c # d
  <2>1. B \cap ChildFrames(c) = {}
    BY <1>2, ChildrenApart
  <2> QED BY <1>2, <2>1, FS_EmptySet
<1> QED BY <1>1, <1>2

\* A call that works on a child has, owned and owed together, what it is about.
LEMMA PartWeight ==
    OneHuge /\ TypeInv => \A t \in Threads : \A c \in Int :
        OwnAt(t) /\ AtChild(t) /\ pc[t] \in InPart =>
            Weight(t, c) = IF c = Cur(t) THEN call[t].n ELSE 0
<1> SUFFICES ASSUME OneHuge, TypeInv, NEW t \in Threads, NEW c \in Int,
                    OwnAt(t), AtChild(t), pc[t] \in InPart
             PROVE  Weight(t, c) = IF c = Cur(t) THEN call[t].n ELSE 0
  OBVIOUS
<1>1. /\ IsFiniteSet(own[t]) /\ Cardinality(own[t]) \in 0 .. call[t].n
      /\ call[t].n \in Nat /\ call[t].frame \in Int
  BY OwnBlock, CallSize DEF TypeInv, Frames
<1>2. Cur(t) \in Int /\ own[t] \subseteq ChildFrames(Cur(t))
  BY ChildCountNat DEF AtChild
<1>3. Cardinality(own[t] \cap ChildFrames(c)) = IF c = Cur(t) THEN Cardinality(own[t]) ELSE 0
  BY <1>2, CountedOnce
<1>4. CASE pc[t] \in InChild
  <2>1. DueAt(c)[t] = IF c = Cur(t) THEN call[t].n - Cardinality(own[t]) ELSE 0
    BY <1>4 DEF DueAt
  <2> QED BY <1>1, <1>3, <2>1 DEF Weight
<1>5. CASE pc[t] \in {"load"} \cup Splitting
  <2>1. own[t] = Block(call[t].frame, call[t].n)
    BY <1>5 DEF OwnAt
  <2>2. Cardinality(own[t]) = call[t].n
    BY <1>1, <2>1, Blocks
  <2>3. DueAt(c)[t] = 0
    BY <1>5 DEF DueAt, InChild, Splitting
  <2> QED BY <1>1, <1>3, <2>2, <2>3 DEF Weight
<1> QED BY <1>4, <1>5 DEF InPart

LEMMA PartWeightNext ==
    OneHuge /\ TypeInv' => \A t \in Threads : \A c \in Int :
        OwnAt(t)' /\ AtChild(t)' /\ pc'[t] \in InPart =>
            Weight(t, c)' = IF c = Cur(t)' THEN call'[t].n ELSE 0
<1>1. (\A t \in Threads : \A c \in Int :
        OwnAt(t) /\ AtChild(t) /\ pc[t] \in InPart =>
            Weight(t, c) = IF c = Cur(t) THEN call[t].n ELSE 0)'
      => \A t \in Threads : \A c \in Int :
        OwnAt(t)' /\ AtChild(t)' /\ pc'[t] \in InPart =>
            Weight(t, c)' = IF c = Cur(t)' THEN call'[t].n ELSE 0
  OBVIOUS
<1>2. OneHuge => OneHuge'
  BY DEF OneHuge
<1> QED BY <1>1, <1>2, PartWeight, PTL

\* Elsewhere a call owes nothing.
LEMMA OtherWeight ==
    ASSUME NEW t \in Threads, NEW c
    PROVE  /\ pc[t] \notin InChild => Weight(t, c) = Cardinality(own[t] \cap ChildFrames(c)) + 0
           /\ pc'[t] \notin InChild =>
                 Weight(t, c)' = Cardinality(own'[t] \cap ChildFrames(c)) + 0
BY DEF Weight, DueAt

-----------------------------------------------------------------------------
(* Steps inside a call. *)

Others(t) ==
    \A u \in Threads \ {t} :
        pc'[u] = pc[u] /\ call'[u] = call[u] /\ loc'[u] = loc[u] /\ own'[u] = own[u]

Inside(t) == Others(t) /\ UNCHANGED <<call, clients, system>>

\* What others than t own.
Rest(t) == held \cup lost \cup (UNION {own[u] : u \in Threads \ {t}}) \cup (AllFrames \ Frames)

\* A thread that does not move owns what its label says, and works where it did.
LEMMA OthersStay ==
    ASSUME NEW u \in Threads, pc'[u] = pc[u], call'[u] = call[u], loc'[u] = loc[u],
           own'[u] = own[u]
    PROVE  OwnAt(u) => OwnAt(u)' /\ Cur(u)' = Cur(u)
<1>1. Cur(u)' = Cur(u)
  BY DEF Cur
<1>2. GroupBase(u)' = GroupBase(u)
  BY <1>1 DEF GroupBase
<1> QED BY <1>1, <1>2, SMTT(30) DEF OwnAt

\* Its own frames and the others'.
LEMMA OwnedSplit ==
    ASSUME Exclusive, InRangeOwned, NEW t \in Threads
    PROVE  Owned = Rest(t) \cup own[t] /\ Rest(t) \cap own[t] = {}
<1>1. Owned = Rest(t) \cup own[t]
  BY DEF Owned, Rest
<1>2. ASSUME NEW f \in own[t], f \in Rest(t) PROVE FALSE
  <2>1. f \notin held /\ f \notin lost
    BY DEF Exclusive
  <2>2. f \in Frames
    BY DEF InRangeOwned
  <2>3. f \in UNION {own[u] : u \in Threads \ {t}}
    BY <1>2, <2>1, <2>2 DEF Rest
  <2>4. PICK u \in Threads \ {t} : f \in own[u]
    BY <2>3
  <2>5. own[t] \cap own[u] = {}
    BY DEF Exclusive
  <2> QED BY <2>4, <2>5
<1> QED BY <1>1, <1>2

LEMMA OwnedAfter ==
    ASSUME NEW t \in Threads, Inside(t)
    PROVE  Owned' = Rest(t) \cup own'[t]
<1>1. \A u \in Threads \ {t} : own'[u] = own[u]
  BY DEF Inside, Others
<1>2. held' = held /\ lost' = lost
  BY DEF Inside, clients
<1> QED BY <1>1, <1>2 DEF Owned, Rest

\* Exclusive is about t and the others.
LEMMA ExclusiveStep ==
    ASSUME Exclusive, InRangeOwned, NEW t \in Threads, Inside(t),
           own'[t] \subseteq Frames, own'[t] \cap Rest(t) = {}
    PROVE  Exclusive' /\ InRangeOwned'
<1>1. \A u \in Threads \ {t} : own'[u] = own[u]
  BY DEF Inside, Others
<1>2. held' = held /\ lost' = lost
  BY DEF Inside, clients
<1>3. InRangeOwned'
  BY <1>1, <1>2 DEF InRangeOwned
<1>4. \A u \in Threads \ {t} : own[u] \subseteq Rest(t)
  BY DEF Rest
<1>5. held \cup lost \subseteq Rest(t)
  BY DEF Rest
<1>6. \A u, v \in Threads : u # v => own'[u] \cap own'[v] = {}
  BY <1>1, <1>4 DEF Exclusive
<1>7. \A u \in Threads : own'[u] \cap (held' \cup lost') = {}
  BY <1>1, <1>2, <1>5 DEF Exclusive
<1> QED BY <1>2, <1>3, <1>6, <1>7 DEF Exclusive

\* Two disjoint sets in a child.
LEMMA CountBoth ==
    ASSUME NEW c \in Int, NEW A, NEW B, A \cap B = {}
    PROVE  Cardinality((A \cup B) \cap ChildFrames(c))
             = Cardinality(A \cap ChildFrames(c)) + Cardinality(B \cap ChildFrames(c))
<1> DEFINE X == A \cap ChildFrames(c)
           Y == B \cap ChildFrames(c)
<1>1. IsFiniteSet(X) /\ IsFiniteSet(Y) /\ Cardinality(X) \in Nat /\ Cardinality(Y) \in Nat
  BY ChildFinite
<1>2. X \cap Y = {} /\ X \cup Y = (A \cup B) \cap ChildFrames(c)
  OBVIOUS
<1> HIDE DEF X, Y
<1>3. Cardinality(X \cup Y) = Cardinality(X) + Cardinality(Y) - Cardinality(X \cap Y)
  BY <1>1, FS_Union
<1>4. Cardinality(X \cap Y) = 0
  BY <1>2, FS_EmptySet
<1>5. Cardinality(X \cup Y) = Cardinality(X) + Cardinality(Y)
  BY <1>1, <1>3, <1>4
<1> QED BY <1>2, <1>5 DEF X, Y

\* A step changes what a child's counter, owners and debts add up to by what it
\* changes in the counter and in its own weight.
LEMMA SumStep ==
    ASSUME OneHuge, TypeInv, OwnOK, Exclusive, InRangeOwned, TypeInv', OwnOK',
           NEW t \in Threads, Inside(t), own'[t] \cap Rest(t) = {},
           NEW c \in Children, IsFiniteSet(Owing(c))
    PROVE  /\ IsFiniteSet(Owing(c)')
           /\ Sum(c) \in Nat /\ Sum(c)' \in Nat
           /\ Weight(t, c) \in Nat /\ Weight(t, c)' \in Nat
           /\ Sum(c)' = Sum(c) - children[c].free - Weight(t, c)
                          + children'[c].free + Weight(t, c)'
<1> DEFINE a == DueAt(c)
           b == DueAt(c)'
           C == ChildFrames(c)
<1>1. c \in Int
  BY DEF Children
<1>2. /\ a \in [Threads -> 0 .. CHILD_SIZE] /\ Owing(c) = Pairs(Threads, CHILD_SIZE, a)
      /\ b \in [Threads -> 0 .. CHILD_SIZE] /\ Owing(c)' = Pairs(Threads, CHILD_SIZE, b)
  BY <1>1, OwingIsPairs, OwingIsPairsNext
<1>3. \A u \in Threads \ {t} : b[u] = a[u]
  <2> SUFFICES ASSUME NEW u \in Threads \ {t} PROVE b[u] = a[u]
    OBVIOUS
  <2>1. /\ pc'[u] = pc[u] /\ call'[u] = call[u] /\ loc'[u] = loc[u] /\ own'[u] = own[u]
    BY DEF Inside, Others
  <2>2. Cur(u)' = Cur(u)
    BY <2>1 DEF Cur
  <2> QED BY <2>1, <2>2 DEF DueAt
<1> HIDE DEF a, b
<1>4. Update(Threads, CHILD_SIZE, a, b, {t})
  BY <1>2, <1>3, ChildSizePositive DEF Update
<1>5. /\ IsFiniteSet(Owing(c)') /\ Cardinality(Owing(c)) \in Nat
      /\ Cardinality(Owing(c)') \in Nat
      /\ Cardinality(Owing(c)') = Cardinality(Owing(c)) - a[t] + b[t]
  BY <1>2, <1>4, OneAmount
<1>6. Owned = Rest(t) \cup own[t] /\ Rest(t) \cap own[t] = {} /\ Owned' = Rest(t) \cup own'[t]
  BY OwnedSplit, OwnedAfter
<1>7. Cardinality(Owned \cap C) = Cardinality(Rest(t) \cap C) + Cardinality(own[t] \cap C)
  BY <1>1, <1>6, CountBoth
<1>8. Cardinality(Owned' \cap C) = Cardinality(Rest(t) \cap C) + Cardinality(own'[t] \cap C)
  BY <1>1, <1>6, CountBoth
<1>9. /\ Cardinality(Owned \cap C) \in Nat /\ Cardinality(own[t] \cap C) \in Nat
      /\ Cardinality(Owned' \cap C) \in Nat /\ Cardinality(own'[t] \cap C) \in Nat
      /\ Cardinality(Rest(t) \cap C) \in Nat
  BY <1>1, ChildFinite
<1>10. /\ Weight(t, c) = Cardinality(own[t] \cap C) + a[t]
       /\ Weight(t, c)' = Cardinality(own'[t] \cap C) + b[t]
  BY DEF Weight, a, b
<1>11. /\ Sum(c) = children[c].free + Cardinality(Owned \cap C) + Cardinality(Owing(c))
       /\ Sum(c)' = children'[c].free + Cardinality(Owned' \cap C) + Cardinality(Owing(c)')
  BY DEF Sum
<1>12. children[c].free \in Nat /\ children'[c].free \in Nat
  BY ChildSizePositive DEF TypeInv, TypeOK, ChildType
<1>13. a[t] \in Nat /\ b[t] \in Nat
  BY <1>2, ChildSizePositive
<1> HIDE DEF C
<1> QED BY <1>5, <1>7, <1>8, <1>9, <1>10, <1>11, <1>12, <1>13

\* What a step of t that makes no child a huge page and splits none has to show.
Calm(t) ==
    /\ Inside(t)
    /\ own'[t] \subseteq Frames /\ own'[t] \cap Rest(t) = {}
    /\ \A f \in Rest(t) : Mark(f) => Mark(f)'
    /\ \A f \in own'[t] : Mark(f)'
    /\ \A c \in Children :
          IF children[c].huge
          THEN children'[c] = children[c] /\ bits \cap ChildFrames(c) \subseteq bits'
          ELSE ~children'[c].huge
    /\ OwnAt(t)' /\ AtChild(t)' /\ SplitAt(t)'
    /\ \A c \in Children :
          children'[c].free + Weight(t, c)' <= children[c].free + Weight(t, c)

\* The bounds of the ranges of children.
LEMMA ChildRanges ==
    /\ ChildCount \in Nat /\ ChildSlots \in Nat /\ ChildCount <= ChildSlots
    /\ 0 .. ChildCount - 1 \subseteq Children
    /\ ChildCount .. ChildSlots - 1 \subseteq Children
    /\ \A c \in Children : c \in Int
<1> DEFINE d == (ChildCount + TREE_CHILDREN - 1) \div TREE_CHILDREN
<1>1. ChildCount \in Nat
  BY ChildCountNat
<1>2. d \in Int /\ ChildCount + TREE_CHILDREN - 1 < TREE_CHILDREN * d + TREE_CHILDREN
  BY <1>1, Division
<1>3. ChildSlots = d * TREE_CHILDREN
  BY DEF ChildSlots, DivCeil
<1> HIDE DEF d
<1>4. ChildSlots \in Int /\ ChildCount <= ChildSlots
  BY <1>1, <1>2, <1>3
<1> QED BY <1>1, <1>4 DEF Children

\* Such a step preserves the invariant.
LEMMA CalmStep ==
    ASSUME OneHuge, XInv, TypeInv', NEW t \in Threads, ~Recovering, Calm(t)
    PROVE  XInv'
<1>i. /\ TypeInv /\ Exclusive /\ InRangeOwned /\ OwnOK /\ ChildOK /\ Marked
      /\ CountOK /\ BeyondOK
  BY DEF XInv
<1>c. Inside(t) /\ own'[t] \subseteq Frames /\ own'[t] \cap Rest(t) = {}
  BY DEF Calm
<1>o. \A u \in Threads \ {t} :
        pc'[u] = pc[u] /\ call'[u] = call[u] /\ loc'[u] = loc[u] /\ own'[u] = own[u]
  BY <1>c DEF Inside, Others
<1>u. \A u \in Threads \ {t} : OwnAt(u)' /\ Cur(u)' = Cur(u)
  BY <1>i, <1>o, OthersStay DEF OwnOK
<1>s. boot' = boot
  BY <1>c DEF Inside, system
<1>h. \A c \in Children : children'[c].huge = children[c].huge
  <2> SUFFICES ASSUME NEW c \in Children PROVE children'[c].huge = children[c].huge
    OBVIOUS
  <2>1. children[c].huge \in BOOLEAN /\ children'[c].huge \in BOOLEAN
    BY <1>i DEF TypeInv, TypeOK, ChildType
  <2> QED BY <2>1 DEF Calm
<1>1. Exclusive' /\ InRangeOwned'
  BY <1>i, <1>c, ExclusiveStep
<1>2. OwnOK'
  BY <1>u DEF OwnOK, Calm
<1>3. ChildOK'
  <2> SUFFICES ASSUME NEW u \in Threads \ {t} PROVE (AtChild(u) /\ SplitAt(u))'
    BY DEF ChildOK, Calm
  <2>1. AtChild(u) /\ SplitAt(u)
    BY <1>i DEF ChildOK
  <2>2. pc[u] \in InPart => Cur(u) \in Children
    BY <2>1, ChildRanges DEF AtChild
  <2>3. AtChild(u)'
    BY <2>1, <2>2, <1>o, <1>u, <1>h DEF AtChild, InPart
  <2>4. CASE pc[u] \in {"split", "split_cas"} /\ children[Cur(u)].huge
    <3>1. Cur(u) \in Children /\ Cur(u) \in Int
      BY <2>2, <2>4, ChildRanges DEF InPart, Splitting
    <3>2. bits \cap ChildFrames(Cur(u)) \subseteq bits'
      BY <2>4, <3>1 DEF Calm
    <3>3. pc[u] = "split" =>
             Block(ChildBase(Cur(u)), loc[u].i * Unit(CHILD_SIZE)) \subseteq ChildFrames(Cur(u))
      <4> SUFFICES ASSUME pc[u] = "split"
                   PROVE  Block(ChildBase(Cur(u)), loc[u].i * Unit(CHILD_SIZE))
                            \subseteq ChildFrames(Cur(u))
        OBVIOUS
      <4>1. loc[u].i \in 0 .. Parts(CHILD_SIZE) - 1
        BY <1>i DEF OwnOK, OwnAt
      <4>2. IsSize(CHILD_SIZE)
        <5>1. 1 \in 1 .. TREE_CHILDREN /\ TREE_CHILDREN % 1 = 0 /\ CHILD_SIZE = 1 * CHILD_SIZE
          BY ChildSizePositive
        <5> QED BY <5>1, Zenon DEF IsSize
      <4>3. loc[u].i * Unit(CHILD_SIZE) \in 0 .. CHILD_SIZE
        <5>1. Parts(CHILD_SIZE) \in Nat
          BY <4>2, Sized, ChildSizePositive
        <5>2. loc[u].i \in 0 .. Parts(CHILD_SIZE)
          BY <4>1, <5>1
        <5> QED BY <5>2, <4>2, UnitMultiples, ChildSizePositive
      <4>4. ChildBase(Cur(u)) \in Int
        BY <3>1, ChildSizePositive DEF ChildBase
      <4> QED BY <4>3, <4>4, ChildSizePositive DEF Block, ChildFrames
    <3>4. SplitAt(u)'
      BY <2>1, <2>4, <3>2, <3>3, <1>o, <1>u DEF SplitAt
    <3> QED BY <2>3, <3>4
  <2>5. CASE ~(pc[u] \in {"split", "split_cas"} /\ children[Cur(u)].huge)
    <3>1. ~(pc[u] \in {"split", "split_cas"} /\ children'[Cur(u)].huge)
      BY <2>2, <2>5, <1>h DEF InPart, Splitting
    <3>2. SplitAt(u)'
      BY <3>1, <1>o, <1>u DEF SplitAt
    <3> QED BY <2>3, <3>2
  <2> QED BY <2>4, <2>5
<1>4. Marked'
  <2>1. Owned = Rest(t) \cup own[t] /\ Owned' = Rest(t) \cup own'[t]
    BY <1>i, <1>c, OwnedSplit, OwnedAfter
  <2>2. \A f \in Rest(t) : Mark(f)
    BY <1>i, <2>1 DEF Marked
  <2>3. \A f \in Rest(t) \cup own'[t] : Mark(f)'
    BY <2>2 DEF Calm
  <2> QED BY <2>1, <2>3 DEF Marked
<1>5. CountOK'
  <2> SUFFICES ASSUME NEW c \in 0 .. boot' - 1, ~children'[c].huge
               PROVE  IsFiniteSet(Owing(c)') /\ Sum(c)' <= CHILD_SIZE
    BY DEF CountOK
  <2>1. c \in 0 .. boot - 1 /\ c \in Children
    BY <1>i, <1>s, ChildRanges DEF TypeInv, TypeOK
  <2>2. ~children[c].huge
    BY <2>1, <1>h
  <2>3. IsFiniteSet(Owing(c)) /\ Sum(c) <= CHILD_SIZE
    BY <1>i, <2>1, <2>2 DEF CountOK
  <2>4. children'[c].free + Weight(t, c)' <= children[c].free + Weight(t, c)
    BY <2>1 DEF Calm
  <2>5. /\ IsFiniteSet(Owing(c)') /\ Sum(c) \in Nat /\ Sum(c)' \in Nat
        /\ Weight(t, c) \in Nat /\ Weight(t, c)' \in Nat
        /\ Sum(c)' = Sum(c) - children[c].free - Weight(t, c)
                       + children'[c].free + Weight(t, c)'
    BY <1>i, <1>c, <1>2, <2>1, <2>3, SumStep
  <2>6. children[c].free \in Nat /\ children'[c].free \in Nat
    BY <1>i, <2>1, ChildSizePositive DEF TypeInv, TypeOK, ChildType
  <2> QED BY <2>3, <2>4, <2>5, <2>6, ChildSizePositive
<1>6. BeyondOK'
  <2> SUFFICES ASSUME NEW c \in ChildCount .. ChildSlots - 1 PROVE children'[c] = HugeChild
    BY DEF BeyondOK
  <2>1. c \in Children /\ children[c] = HugeChild
    BY <1>i, ChildRanges DEF BeyondOK
  <2>2. children[c].huge
    BY <2>1 DEF HugeChild, Child
  <2> QED BY <2>1, <2>2 DEF Calm
<1>7. RestOK'
  BY <1>s DEF RestOK, Recovering
<1> QED BY <1>1, <1>2, <1>3, <1>4, <1>5, <1>6, <1>7 DEF XInv

-----------------------------------------------------------------------------
(* Kinds of steps. *)

\* The counters of the children and the weight of t balance.
Even(t) ==
    \A c \in Children :
        children'[c].free + Weight(t, c)' = children[c].free + Weight(t, c)

\* What the invariant says about one thread.
LEMMA Now ==
    ASSUME XInv, NEW t \in Threads
    PROVE  /\ TypeInv /\ TypeOK /\ OwnAt(t) /\ AtChild(t) /\ SplitAt(t) /\ own[t] \subseteq Frames
           /\ own[t] \cap Rest(t) = {} /\ Owned = Rest(t) \cup own[t]
           /\ \A f \in Rest(t) : Mark(f)
           /\ \A f \in own[t] : Mark(f)
<1>1. /\ TypeInv /\ Exclusive /\ InRangeOwned /\ OwnOK /\ ChildOK /\ Marked
  BY DEF XInv
<1>2. Owned = Rest(t) \cup own[t] /\ Rest(t) \cap own[t] = {}
  BY <1>1, OwnedSplit
<1>3. \A f \in Rest(t) \cup own[t] : Mark(f)
  BY <1>1, <1>2 DEF Marked
<1> QED BY <1>1, <1>2, <1>3 DEF TypeInv, OwnOK, ChildOK, InRangeOwned

\* Weights are numbers, and so are counters.
LEMMA WeightNat ==
    ASSUME OneHuge, XInv, TypeInv', NEW t \in Threads, OwnAt(t)', Inside(t), NEW c \in Children
    PROVE  /\ Weight(t, c) \in Nat /\ Weight(t, c)' \in Nat
           /\ children[c].free \in Nat /\ children'[c].free \in Nat
<1>1. TypeInv /\ OwnOK
  BY DEF XInv
<1>2. OwnOK'
  <2>1. \A u \in Threads \ {t} : OwnAt(u)'
    BY <1>1, OthersStay DEF Inside, Others, OwnOK
  <2> QED BY <2>1 DEF OwnOK
<1>3. c \in Int
  BY ChildRanges
<1>4. DueAt(c)[t] \in Nat /\ DueAt(c)'[t] \in Nat
  <2>1. DueAt(c) \in [Threads -> 0 .. CHILD_SIZE] /\ DueAt(c)' \in [Threads -> 0 .. CHILD_SIZE]
    BY <1>1, <1>2, <1>3, OwingIsPairs, OwingIsPairsNext
  <2> QED BY <2>1, ChildSizePositive
<1>5. /\ Cardinality(own[t] \cap ChildFrames(c)) \in Nat
      /\ Cardinality(own'[t] \cap ChildFrames(c)) \in Nat
  BY <1>3, ChildFinite
<1>6. children[c].free \in Nat /\ children'[c].free \in Nat
  BY <1>1, ChildSizePositive DEF TypeInv, TypeOK, ChildType
<1> QED BY <1>4, <1>5, <1>6 DEF Weight

\* A call that goes on working on its child keeps its weight.
LEMMA SameWeight ==
    ASSUME OneHuge, XInv, TypeInv', NEW t \in Threads, OwnAt(t)', AtChild(t)',
           pc[t] \in InPart, pc'[t] \in InPart, Cur(t)' = Cur(t), call' = call
    PROVE  \A c \in Children : Weight(t, c)' = Weight(t, c)
BY Now, PartWeight, PartWeightNext, ChildRanges

\* So does one that is done and has a whole block of the child.
LEMMA EndWeight ==
    ASSUME OneHuge, XInv, NEW t \in Threads, pc[t] \in InPart, pc'[t] \notin InChild,
           own'[t] \subseteq ChildFrames(Cur(t)), Cardinality(own'[t]) = call[t].n
    PROVE  \A c \in Children : Weight(t, c)' = Weight(t, c)
<1> SUFFICES ASSUME NEW c \in Children PROVE Weight(t, c)' = Weight(t, c)
  OBVIOUS
<1>1. c \in Int /\ Cur(t) \in Int /\ call[t].n \in Nat
  BY Now, ChildRanges, CallSize DEF AtChild
<1>2. Weight(t, c) = IF c = Cur(t) THEN call[t].n ELSE 0
  BY <1>1, Now, PartWeight
<1>3. Weight(t, c)' = Cardinality(own'[t] \cap ChildFrames(c)) + 0
  BY OtherWeight
<1>4. Cardinality(own'[t] \cap ChildFrames(c)) = IF c = Cur(t) THEN call[t].n ELSE 0
  BY <1>1, CountedOnce
<1> QED BY <1>1, <1>2, <1>3, <1>4

\* A call that owns nothing and is not at a child has no weight.
LEMMA NoWeight ==
    ASSUME NEW t \in Threads, NEW c \in Children
    PROVE  /\ pc[t] \notin InChild /\ own[t] = {} => Weight(t, c) = 0
           /\ pc'[t] \notin InChild /\ own'[t] = {} => Weight(t, c)' = 0
<1>1. \A B : B = {} => Cardinality(B \cap ChildFrames(c)) + 0 = 0
  <2>1. \A B : B = {} => B \cap ChildFrames(c) = {}
    OBVIOUS
  <2>2. Cardinality({}) + 0 = 0
    BY FS_EmptySet
  <2> QED BY <2>1, <2>2
<1>2. /\ pc[t] \notin InChild => Weight(t, c) = Cardinality(own[t] \cap ChildFrames(c)) + 0
      /\ pc'[t] \notin InChild => Weight(t, c)' = Cardinality(own'[t] \cap ChildFrames(c)) + 0
  BY OtherWeight
<1>3. ASSUME pc[t] \notin InChild, own[t] = {} PROVE Weight(t, c) = 0
  BY <1>1, <1>2, <1>3
<1>4. ASSUME pc'[t] \notin InChild, own'[t] = {} PROVE Weight(t, c)' = 0
  BY <1>1, <1>2, <1>4
<1> QED BY <1>3, <1>4

\* A step that changes no frame and no child.
LEMMA QuietCalm ==
    ASSUME XInv, NEW t \in Threads, Inside(t), UNCHANGED <<bits, children>>, own'[t] = own[t],
           OwnAt(t)', AtChild(t)', SplitAt(t)',
           \A c \in Children : children'[c].free + Weight(t, c)' <= children[c].free + Weight(t, c)
    PROVE  Calm(t)
BY Now DEF Calm, Mark

\* A step inside a child that changes none.
LEMMA QuietPart ==
    ASSUME OneHuge, XInv, TypeInv', NEW t \in Threads, Inside(t), UNCHANGED <<bits, children>>,
           own'[t] = own[t], OwnAt(t)', AtChild(t)', SplitAt(t)',
           pc[t] \in InPart, pc'[t] \in InPart, Cur(t)' = Cur(t)
    PROVE  Calm(t) /\ Even(t)
<1>1. \A c \in Children : Weight(t, c)' = Weight(t, c)
  BY SameWeight DEF Inside
<1>2. Even(t)
  BY <1>1 DEF Even
<1>3. \A c \in Children :
        children'[c].free + Weight(t, c)' <= children[c].free + Weight(t, c)
  BY <1>2, WeightNat DEF Even
<1> QED BY <1>2, <1>3, QuietCalm

\* An assertion fails.
LEMMA AbortCalm ==
    ASSUME OneHuge, XInv, TypeInv', NEW t \in Threads, Inside(t), UNCHANGED <<bits, children>>,
           own'[t] = own[t], pc[t] \in InPart, pc'[t] = "abort"
    PROVE  Calm(t)
<1>1. call' = call
  BY DEF Inside
<1>2. OwnAt(t)'
  <2>1. call[t].op # "get" => InRange(call[t].frame, call[t].n)
    BY Now DEF OwnAt, InPart, InChild, Splitting
  <2> QED BY <1>1, <2>1 DEF OwnAt, Splitting
<1>3. AtChild(t)' /\ SplitAt(t)'
  BY DEF AtChild, SplitAt, InPart, InChild, Splitting
<1>4. ASSUME NEW c \in Children
      PROVE  children'[c].free + Weight(t, c)' <= children[c].free + Weight(t, c)
  <2>1. c \in Int /\ Cur(t) \in Int /\ call[t].n \in Nat /\ own[t] \subseteq ChildFrames(Cur(t))
    BY Now, ChildRanges, CallSize DEF AtChild
  <2>2. Weight(t, c) = IF c = Cur(t) THEN call[t].n ELSE 0
    BY <2>1, Now, PartWeight
  <2>3. Weight(t, c)' = Cardinality(own[t] \cap ChildFrames(c)) + 0
    BY OtherWeight DEF InChild
  <2>4. Cardinality(own[t] \cap ChildFrames(c)) = IF c = Cur(t) THEN Cardinality(own[t]) ELSE 0
    BY <2>1, CountedOnce
  <2>5. Cardinality(own[t]) \in 0 .. call[t].n
    BY Now, OwnBlock
  <2>6. children[c].free \in Nat
    BY <1>2, WeightNat
  <2> QED BY <2>1, <2>2, <2>3, <2>4, <2>5, <2>6
<1> QED BY <1>2, <1>3, <1>4, QuietCalm

\* The frames of a child that is counted have bits.
LEMMA ChildInAll ==
    ASSUME NEW c \in 0 .. ChildCount - 1
    PROVE  ChildFrames(c) \subseteq AllFrames
<1>1. ChildCount \in Nat /\ CHILD_SIZE \in Nat \ {0}
  BY ChildCountNat, ChildSizePositive
<1>2. (c + 1) * CHILD_SIZE <= ChildCount * CHILD_SIZE
  BY <1>1
<1>3. (c + 1) * CHILD_SIZE = c * CHILD_SIZE + CHILD_SIZE /\ c * CHILD_SIZE \in Nat
  BY <1>1
<1>4. ChildCount * CHILD_SIZE \in Int
  BY <1>1
<1> QED BY <1>1, <1>2, <1>3, <1>4 DEF ChildFrames, ChildBase, Block, AllFrames

\* Every frame that has a bit has a child, and so does everything that is owned.
LEMMA OwnedInAll ==
    /\ \A f \in AllFrames : f \in Int /\ ChildOf(f) \in 0 .. ChildCount - 1
    /\ Frames \subseteq AllFrames
    /\ XInv => Owned \subseteq AllFrames
<1>1. ChildCount \in Nat /\ CHILD_SIZE \in Nat \ {0}
  BY ChildCountNat, ChildSizePositive
<1>2. ASSUME NEW f \in AllFrames PROVE f \in Int /\ ChildOf(f) \in 0 .. ChildCount - 1
  <2> DEFINE d == f \div CHILD_SIZE
  <2>1. ChildCount * CHILD_SIZE \in Nat /\ ChildCount * CHILD_SIZE = CHILD_SIZE * ChildCount
    BY <1>1
  <2>2. f \in Nat /\ f < CHILD_SIZE * ChildCount
    BY <2>1 DEF AllFrames
  <2>3. d \in Int /\ CHILD_SIZE * d <= f /\ f < CHILD_SIZE * d + CHILD_SIZE
    BY <1>1, <2>2, Division
  <2> HIDE DEF d
  <2>4. CHILD_SIZE * d < CHILD_SIZE * ChildCount
    BY <1>1, <2>1, <2>2, <2>3
  <2>5. d < ChildCount
    BY <1>1, <2>3, <2>4
  <2>6. CHILD_SIZE * (d + 1) > 0
    BY <1>1, <2>2, <2>3
  <2>7. d + 1 > 0
    BY <1>1, <2>3, <2>6
  <2> QED BY <1>1, <2>2, <2>3, <2>5, <2>7 DEF ChildOf, d
<1>3. ASSUME NEW f \in Frames PROVE f \in AllFrames
  <2>1. ChildOf(f) \in 0 .. ChildCount - 1 /\ f \in Int
    BY VisitChildren DEF Frames
  <2>2. f \in ChildFrames(ChildOf(f))
    BY <1>1, <2>1, FramesOfChild
  <2> QED BY <2>1, <2>2, ChildInAll
<1>4. ASSUME XInv PROVE Owned \subseteq AllFrames
  BY <1>3, <1>4 DEF XInv, InRangeOwned, Owned
<1> QED BY <1>2, <1>3, <1>4

\* Frames of a child that has a counter and whose bits are clear have no owner.
LEMMA Unowned ==
    ASSUME XInv, NEW t \in Threads, pc[t] \in InChild,
           NEW P, P \subseteq ChildFrames(Cur(t)), P \cap bits = {}
    PROVE  P \subseteq Frames /\ P \cap Rest(t) = {}
<1>1. /\ Cur(t) \in 0 .. ChildCount - 1 /\ Cur(t) \in Int /\ ~children[Cur(t)].huge
      /\ \A f \in Rest(t) : Mark(f)
  BY Now DEF AtChild, InPart
<1>2. ASSUME NEW f \in P PROVE f \in Frames /\ f \notin Rest(t)
  <2>1. f \in Int /\ ChildOf(f) = Cur(t) /\ f \in AllFrames
    <3>1. f \in AllFrames /\ f \in ChildFrames(Cur(t))
      BY <1>1, ChildInAll
    <3>2. f \in Int
      BY <3>1 DEF AllFrames
    <3> QED BY <3>1, <3>2, <1>1, FramesOfChild
  <2>2. ~Mark(f)
    BY <2>1, <1>1 DEF Mark
  <2>3. f \notin Rest(t)
    BY <1>1, <2>2
  <2> QED BY <2>1, <2>3 DEF Rest
<1> QED BY <1>2

\* A call sets bits of its child that were clear.
LEMMA TakeCalm ==
    ASSUME OneHuge, XInv, TypeInv', NEW t \in Threads, Inside(t), UNCHANGED children,
           NEW P, P \subseteq ChildFrames(Cur(t)), P \cap bits = {}, bits' = bits \cup P,
           own'[t] = own[t] \cup P, pc[t] \in InChild,
           OwnAt(t)', AtChild(t)', SplitAt(t)',
           \A c \in Children : Weight(t, c)' = Weight(t, c)
    PROVE  Calm(t) /\ Even(t)
<1>1. /\ own[t] \subseteq Frames /\ own[t] \cap Rest(t) = {}
      /\ \A f \in Rest(t) : Mark(f)
      /\ \A f \in own[t] : Mark(f)
  BY Now
<1>2. P \subseteq Frames /\ P \cap Rest(t) = {}
  BY Unowned
<1>3. own'[t] \subseteq Frames /\ own'[t] \cap Rest(t) = {}
  BY <1>1, <1>2
<1>4. \A f : Mark(f) => Mark(f)'
  BY DEF Mark
<1>5. \A f \in own'[t] : Mark(f)'
  <2>1. \A f \in P : Mark(f)'
    BY DEF Mark
  <2> QED BY <1>1, <1>4, <2>1
<1>6. Even(t)
  BY DEF Even
<1>7. ASSUME NEW c \in Children
      PROVE  children'[c].free + Weight(t, c)' <= children[c].free + Weight(t, c)
  BY WeightNat
<1> QED BY <1>3, <1>4, <1>5, <1>6, <1>7 DEF Calm

\* A call clears bits of frames of its own.
LEMMA DropCalm ==
    ASSUME OneHuge, XInv, TypeInv', NEW t \in Threads, Inside(t), UNCHANGED children,
           NEW P, P \subseteq own[t], bits' = bits \ P,
           own'[t] = own[t] \ P, pc[t] \in InChild,
           OwnAt(t)', AtChild(t)', SplitAt(t)',
           \A c \in Children : Weight(t, c)' = Weight(t, c)
    PROVE  Calm(t) /\ Even(t)
<1>1. /\ Cur(t) \in Int /\ ~children[Cur(t)].huge /\ own[t] \subseteq ChildFrames(Cur(t))
      /\ own[t] \subseteq Frames /\ own[t] \cap Rest(t) = {}
      /\ \A f \in Rest(t) : Mark(f)
      /\ \A f \in own[t] : Mark(f)
  BY Now DEF AtChild, InPart
<1>2. own'[t] \subseteq Frames /\ own'[t] \cap Rest(t) = {}
  BY <1>1
<1>3. \A f : f \notin P /\ Mark(f) => Mark(f)'
  BY DEF Mark
<1>4. \A f \in Rest(t) : Mark(f)'
  BY <1>1, <1>3
<1>5. \A f \in own'[t] : Mark(f)'
  BY <1>1, <1>3
<1>6. ASSUME NEW c \in Children, children[c].huge
      PROVE  bits \cap ChildFrames(c) \subseteq bits'
  <2>1. c # Cur(t) /\ c \in Int
    BY <1>1, <1>6, ChildRanges
  <2>2. ChildFrames(c) \cap ChildFrames(Cur(t)) = {}
    BY <1>1, <2>1, ChildrenApart
  <2> QED BY <1>1, <2>2
<1>7. Even(t)
  BY DEF Even
<1>8. ASSUME NEW c \in Children
      PROVE  children'[c].free + Weight(t, c)' <= children[c].free + Weight(t, c)
  BY WeightNat
<1> QED BY <1>2, <1>4, <1>5, <1>6, <1>7, <1>8 DEF Calm

\* A call moves m frames between its debt and the counter of child d.
LEMMA CounterCalm ==
    ASSUME OneHuge, XInv, TypeInv', NEW t \in Threads, Inside(t), UNCHANGED bits,
           NEW d \in Children, ~children[d].huge, NEW m \in Int, children' = AddFree(d, m),
           own'[t] = own[t], OwnAt(t)', AtChild(t)', SplitAt(t)',
           \A c \in Children : Weight(t, c)' = Weight(t, c) - (IF c = d THEN m ELSE 0)
    PROVE  Calm(t) /\ Even(t)
<1>1. /\ own[t] \subseteq Frames /\ own[t] \cap Rest(t) = {}
      /\ \A f \in Rest(t) : Mark(f)
      /\ \A f \in own[t] : Mark(f)
      /\ children \in [Children -> ChildType]
  BY Now DEF TypeOK
<1>2. ASSUME NEW c \in Children
      PROVE  /\ children'[c].huge = children[c].huge
             /\ c # d => children'[c] = children[c]
             /\ children'[c].free = children[c].free + IF c = d THEN m ELSE 0
  BY <1>1 DEF AddFree, ChildType
<1>3. \A f \in Rest(t) \cup own[t] : ChildOf(f) \in Children
  <2>1. Owned = Rest(t) \cup own[t]
    BY Now
  <2> QED BY <2>1, OwnedInAll, ChildRanges
<1>4. \A f \in Rest(t) \cup own[t] : Mark(f) => Mark(f)'
  BY <1>2, <1>3 DEF Mark
<1>5. ASSUME NEW c \in Children
      PROVE  children'[c].free + Weight(t, c)' = children[c].free + Weight(t, c)
  <2>1. children[c].free \in Nat /\ Weight(t, c) \in Nat
    BY WeightNat
  <2> QED BY <2>1, <1>2
<1>6. ASSUME NEW c \in Children
      PROVE  children'[c].free + Weight(t, c)' <= children[c].free + Weight(t, c)
  <2>1. children[c].free \in Nat /\ Weight(t, c) \in Nat
    BY WeightNat
  <2> QED BY <2>1, <1>5
<1>7. \A c \in Children :
          IF children[c].huge
          THEN children'[c] = children[c] /\ bits \cap ChildFrames(c) \subseteq bits'
          ELSE ~children'[c].huge
  BY <1>2
<1>8. Even(t)
  BY <1>5 DEF Even
<1> QED BY <1>1, <1>4, <1>6, <1>7, <1>8 DEF Calm

\* A step that changes neither frames nor children nor what t owns and owes.
LEMMA EvenQuiet ==
    ASSUME OneHuge, XInv, TypeInv', NEW t \in Threads, Inside(t), UNCHANGED <<bits, children>>,
           own'[t] = own[t], OwnAt(t)', AtChild(t)', SplitAt(t)',
           \A c \in Children : Weight(t, c)' = Weight(t, c)
    PROVE  Calm(t) /\ Even(t)
<1>1. Even(t)
  BY DEF Even
<1>2. \A c \in Children :
        children'[c].free + Weight(t, c)' <= children[c].free + Weight(t, c)
  BY <1>1, WeightNat DEF Even
<1> QED BY <1>1, <1>2, QuietCalm

-----------------------------------------------------------------------------
(* What the steps write. *)

\* Only t moves.
LEMMA GoesTo ==
    ASSUME TypeOK, NEW t \in Threads, NEW label, Goto(t, label)
    PROVE  pc'[t] = label /\ \A u \in Threads \ {t} : pc'[u] = pc[u]
BY DEF TypeOK, Goto

LEMMA SetsLoc ==
    ASSUME TypeOK, NEW t \in Threads, NEW l, SetLoc(t, l)
    PROVE  loc'[t] = l /\ \A u \in Threads \ {t} : loc'[u] = loc[u]
BY DEF TypeOK, SetLoc

LEMMA SetsOwn ==
    ASSUME TypeOK, NEW t \in Threads, NEW B, own' = [own EXCEPT ![t] = B]
    PROVE  own'[t] = B /\ \A u \in Threads \ {t} : own'[u] = own[u]
BY DEF TypeOK

LEMMA StepInside ==
    ASSUME TypeOK, NEW t \in Threads, UNCHANGED <<call, clients, system>>,
           UNCHANGED pc \/ \E label : Goto(t, label),
           UNCHANGED loc \/ \E l : SetLoc(t, l),
           UNCHANGED own \/ \E B : own' = [own EXCEPT ![t] = B]
    PROVE  Inside(t)
<1>1. \A u \in Threads \ {t} : pc'[u] = pc[u]
  BY GoesTo
<1>2. \A u \in Threads \ {t} : loc'[u] = loc[u]
  BY SetsLoc
<1>3. \A u \in Threads \ {t} : own'[u] = own[u]
  BY SetsOwn
<1> QED BY <1>1, <1>2, <1>3 DEF Inside, Others

\* The loop counters that the steps assign.
LEMMA Counters ==
    /\ NoLoc.i = 0 /\ NoLoc.j = 0 /\ NoLoc.k = 0 /\ NoLoc.g = 0
    /\ \A k, g : LoopAt(k, g).i = 0 /\ LoopAt(k, g).j = 0 /\ LoopAt(k, g).k = k
    /\ \A f : LET l == [NoLoc EXCEPT !.f = f] IN l.f = f /\ l.i = 0 /\ l.j = 0
    /\ \A l \in LocType :
          /\ LET m == [l EXCEPT !.i = @ + 1]
             IN  m.i = l.i + 1 /\ m.j = l.j /\ m.k = l.k /\ m.g = l.g
          /\ LET m == [l EXCEPT !.j = @ + 1]
             IN  m.i = l.i /\ m.j = l.j + 1 /\ m.k = l.k /\ m.g = l.g
          /\ LET m == [l EXCEPT !.g = @ + 1]
             IN  m.i = l.i /\ m.j = l.j /\ m.k = l.k
<1>1. /\ NoLoc.i = 0 /\ NoLoc.j = 0 /\ NoLoc.k = 0 /\ NoLoc.g = 0
      /\ \A k, g : LoopAt(k, g).i = 0 /\ LoopAt(k, g).j = 0 /\ LoopAt(k, g).k = k
  BY DEF NoLoc, LoopAt
<1>2. \A f : LET l == [NoLoc EXCEPT !.f = f] IN l.f = f /\ l.i = 0 /\ l.j = 0
  BY DEF NoLoc, LoopAt
<1>3. ASSUME NEW l \in LocType
      PROVE LET m == [l EXCEPT !.i = @ + 1]
            IN  m.i = l.i + 1 /\ m.j = l.j /\ m.k = l.k /\ m.g = l.g
  BY DEF LocType
<1>4. ASSUME NEW l \in LocType
      PROVE LET m == [l EXCEPT !.j = @ + 1]
            IN  m.i = l.i /\ m.j = l.j + 1 /\ m.k = l.k /\ m.g = l.g
  BY DEF LocType
<1>5. ASSUME NEW l \in LocType
      PROVE LET m == [l EXCEPT !.g = @ + 1]
            IN  m.i = l.i /\ m.j = l.j /\ m.k = l.k
  BY DEF LocType
<1> QED BY <1>1, <1>2, <1>3, <1>4, <1>5

\* A call whose child does not depend on the loop, or whose loop stays, stays there.
LEMMA CurStays ==
    ASSUME NEW t \in Threads, call'[t] = call[t], call[t].op = "get" => loc'[t].k = loc[t].k
    PROVE  Cur(t)' = Cur(t)
BY DEF Cur

\* What the type invariant says of a call after the step.
LEMMA CallNext ==
    TypeInv' => \A t \in Threads :
        pc'[t] \in {"set", "unset"} => GroupBase(t)' \in Int
<1>1. TypeInv => \A t \in Threads : pc[t] \in {"set", "unset"} => GroupBase(t) \in Int
  BY GroupBaseInt
<1>2. (\A t \in Threads : pc[t] \in {"set", "unset"} => GroupBase(t) \in Int)'
        => \A t \in Threads : pc'[t] \in {"set", "unset"} => GroupBase(t)' \in Int
  OBVIOUS
<1> QED BY <1>1, <1>2, PTL

\* What a call is about.
LEMMA About ==
    ASSUME OneHuge, XInv, NEW t \in Threads
    PROVE  LET n == call[t].n IN
           /\ n \in Nat \ {0} /\ IsSize(n) /\ n <= CHILD_SIZE
           /\ Parts(n) \in Nat \ {0} /\ Unit(n) \in Nat \ {0} /\ Parts(n) * Unit(n) = n
           /\ call[t].frame \in Frames /\ call[t].frame \in Int
           /\ call[t].op \in Ops /\ loc[t] \in LocType
           /\ loc[t].i \in Nat /\ loc[t].j \in Nat
<1>1. TypeOK
  BY Now
<1>2. call[t].frame \in Frames => call[t].frame \in Int
  BY DEF Frames
<1> QED BY <1>1, <1>2, CallSize, CallSmall, Sized

-----------------------------------------------------------------------------
(* lower_get and lower_get_at below a huge page. *)

\* Going on to the next child, with nothing in hand.
LEMMA NextChildOwn ==
    ASSUME OneHuge, XInv, TypeInv', NEW t \in Threads, pc[t] \in {"dec", "undec"}, NextChild(t),
           UNCHANGED <<bits, call, own, clients, system>>
    PROVE  /\ Inside(t) /\ OwnAt(t)' /\ AtChild(t)' /\ SplitAt(t)'
           /\ own[t] = {} /\ own'[t] = {}
           /\ \A c \in Children : Weight(t, c)' = 0
<1>1. /\ TypeOK /\ OwnAt(t) /\ own[t] = {} /\ call[t].op # "put"
  <2>1. TypeInv /\ OwnAt(t)
    BY Now
  <2>2. call[t].op # "put"
    BY <2>1, PhaseNow DEF PhaseAt
  <2> QED BY <2>1, <2>2 DEF OwnAt, TypeInv
<1>2. Inside(t)
  BY <1>1, StepInside DEF NextChild
<1>3. /\ pc'[t] \in {"dec", "memory"} /\ loc'[t].i = 0 /\ loc'[t].j = 0
  BY <1>1, GoesTo, SetsLoc, Counters DEF NextChild
<1>4. call' = call /\ own'[t] = {} /\ (call[t].op # "get" => InRange(call[t].frame, call[t].n))
  BY <1>1 DEF OwnAt
<1>5. OwnAt(t)'
  BY <1>1, <1>3, <1>4 DEF OwnAt, Splitting
<1>6. AtChild(t)' /\ SplitAt(t)'
  BY <1>3 DEF AtChild, SplitAt, InPart, InChild, Splitting
<1>7. \A c \in Children : Weight(t, c)' = 0
  BY <1>3, <1>4, NoWeight DEF InChild
<1> QED BY <1>1, <1>2, <1>4, <1>5, <1>6, <1>7

LEMMA ChildDecCalm ==
    ASSUME OneHuge, XInv, TypeInv', NEW t \in Threads, ChildDec(t)
    PROVE  Calm(t) /\ Even(t)
<1> DEFINE n == call[t].n
           d == Cur(t)
<1>1. /\ TypeInv /\ TypeOK /\ OwnAt(t) /\ pc[t] = "dec" /\ own[t] = {}
      /\ loc[t].i = 0 /\ loc[t].j = 0
      /\ call[t].op # "get" => InRange(call[t].frame, n)
  <2>1. TypeInv /\ TypeOK /\ OwnAt(t) /\ pc[t] = "dec"
    BY Now DEF ChildDec, At
  <2> QED BY <2>1 DEF OwnAt
<1>2. call[t].op # "put"
  BY <1>1, PhaseNow DEF PhaseAt
<1>3. \A c \in Children : Weight(t, c) = 0
  BY <1>1, NoWeight DEF InChild
<1>4. CASE ~CanDec(d, n)
  <2>1. NextChild(t) /\ UNCHANGED <<children, bits, call, own, clients, system>>
    BY <1>4 DEF ChildDec
  <2>2. /\ Inside(t) /\ OwnAt(t)' /\ AtChild(t)' /\ SplitAt(t)' /\ own'[t] = own[t]
        /\ \A c \in Children : Weight(t, c)' = 0
    BY <1>1, <2>1, NextChildOwn
  <2>3. Calm(t) /\ Even(t)
    BY <1>3, <2>1, <2>2, EvenQuiet
  <2> QED BY <2>3
<1>5. CASE CanDec(d, n)
  <2> DEFINE label == IF call[t].op = "get_at" THEN "mark"
                      ELSE IF n > ATOMIC_SIZE THEN "set" ELSE "search"
  <2>1. /\ children' = AddFree(d, -n) /\ Goto(t, label)
        /\ UNCHANGED <<loc, bits, call, own, clients, system>>
    BY <1>5 DEF ChildDec
  <2>2. Inside(t) /\ pc'[t] = label /\ own'[t] = {}
    BY <1>1, <2>1, GoesTo, StepInside
  <2>3. /\ n \in Nat \ {0} /\ Parts(n) \in Nat \ {0} /\ Unit(n) \in Nat \ {0}
        /\ call[t].frame \in Frames /\ call[t].frame \in Int /\ loc[t].k \in Nat
    BY <1>1, About, CallSize
  <2>4. d \in Children /\ ~children[d].huge
    BY <1>5, <2>3, VisitChildren, ChildRanges DEF Cur, CanDec
  <2>5. d \in 0 .. ChildCount - 1
    <3>1. d \in ChildCount .. ChildSlots - 1 => children[d].huge
      BY DEF XInv, BeyondOK, HugeChild, Child
    <3> QED BY <2>4, <3>1, ChildRanges DEF Children
  <2>6. Cur(t)' = d
    BY <2>1 DEF Cur
  <2>7. 0 * Unit(n) = 0 /\ \A x \in Int : Block(x, 0) = {}
    BY <2>3, Blocks
  <2>8. OwnAt(t)'
    <3>1. pc'[t] = "set" => GroupBase(t)' \in Int
      BY CallNext
    <3>2. 0 \in 0 .. Parts(n) - 1
      BY <2>3
    <3>3. call'[t] = call[t] /\ loc'[t] = loc[t]
      BY <2>1
    <3> HIDE DEF n
    <3>4. /\ pc'[t] = "set" => own'[t] = Block(GroupBase(t)', loc'[t].i * Unit(n))
          /\ pc'[t] = "mark" => own'[t] = Block(call'[t].frame, loc'[t].i * Unit(n))
      BY <1>1, <2>2, <2>3, <2>7, <3>1, <3>3
    <3> QED BY <1>1, <2>2, <3>2, <3>3, <3>4 DEF OwnAt, Splitting, n
  <2>9. AtChild(t)'
    <3>1. ~children'[d].huge
      <4>1. children \in [Children -> ChildType]
        BY <1>1 DEF TypeOK
      <4> QED BY <2>1, <2>4, <4>1 DEF AddFree, ChildType
    <3> QED BY <2>2, <2>5, <2>6, <3>1 DEF AtChild
  <2>10. SplitAt(t)'
    BY <2>2 DEF SplitAt
  <2>11. pc'[t] \in InPart
    BY <2>2 DEF InPart, InChild
  <2>12. \A c \in Children : Weight(t, c)' = Weight(t, c) - (IF c = d THEN -n ELSE 0)
    <3> SUFFICES ASSUME NEW c \in Children
                 PROVE  Weight(t, c)' = Weight(t, c) - (IF c = d THEN -n ELSE 0)
      OBVIOUS
    <3>1. Weight(t, c)' = IF c = d THEN n ELSE 0
      BY <2>1, <2>6, <2>8, <2>9, <2>11, PartWeightNext, ChildRanges
    <3> QED BY <1>3, <2>3, <3>1
  <2>13. -n \in Int
    BY <2>3
  <2>14. Calm(t) /\ Even(t)
    BY <1>1, <2>1, <2>2, <2>4, <2>8, <2>9, <2>10, <2>12, <2>13, CounterCalm
  <2> QED BY <2>14
<1> QED BY <1>4, <1>5

LEMMA UndoDecCalm ==
    ASSUME OneHuge, XInv, TypeInv', NEW t \in Threads, UndoDec(t)
    PROVE  Calm(t) /\ (pc'[t] = "abort" \/ Even(t))
<1> DEFINE n == call[t].n
           d == Cur(t)
<1>1. /\ TypeInv /\ TypeOK /\ OwnAt(t) /\ AtChild(t) /\ pc[t] = "undec" /\ own[t] = {}
  <2>1. TypeInv /\ TypeOK /\ OwnAt(t) /\ AtChild(t) /\ pc[t] = "undec"
    BY Now DEF UndoDec, At
  <2> QED BY <2>1 DEF OwnAt
<1>2. pc[t] \in InChild /\ pc[t] \in InPart
  BY <1>1 DEF InChild, InPart
<1>3. CASE ~CanInc(d, n)
  <2>1. Goto(t, "abort") /\ UNCHANGED <<children, loc, bits, call, own, clients, system>>
    BY <1>3 DEF UndoDec
  <2>2. Inside(t) /\ pc'[t] = "abort" /\ own'[t] = own[t]
    BY <1>1, <2>1, GoesTo, StepInside
  <2>3. Calm(t)
    BY <1>2, <2>1, <2>2, AbortCalm
  <2> QED BY <2>2, <2>3
<1>4. CASE CanInc(d, n)
  <2>1. /\ children' = AddFree(d, n) /\ NextChild(t)
        /\ UNCHANGED <<bits, call, own, clients, system>>
    BY <1>4 DEF UndoDec
  <2>2. /\ Inside(t) /\ OwnAt(t)' /\ AtChild(t)' /\ SplitAt(t)' /\ own'[t] = own[t]
        /\ \A c \in Children : Weight(t, c)' = 0
    BY <1>1, <2>1, NextChildOwn
  <2>3. n \in Int /\ d \in Children /\ ~children[d].huge
    BY <1>1, <1>2, About, ChildRanges DEF AtChild
  <2>4. \A c \in Children : Weight(t, c) = IF c = d THEN n ELSE 0
    BY <1>1, <1>2, PartWeight, ChildRanges
  <2>5. \A c \in Children : Weight(t, c)' = Weight(t, c) - (IF c = d THEN n ELSE 0)
    BY <2>2, <2>3, <2>4
  <2>6. Calm(t) /\ Even(t)
    BY <2>1, <2>2, <2>3, <2>5, CounterCalm
  <2> QED BY <2>6
<1> QED BY <1>3, <1>4

LEMMA SearchRowCalm ==
    ASSUME OneHuge, XInv, TypeInv', NEW t \in Threads, SearchRow(t)
    PROVE  Calm(t) /\ Even(t)
<1> DEFINE n == call[t].n
           d == Cur(t)
           v == Visit(RowOf(call[t].frame) % FIELD_N, FIELD_N, loc[t].g)
           r == FIELD_N * d + v
<1>1. /\ TypeInv /\ TypeOK /\ OwnAt(t) /\ AtChild(t) /\ pc[t] = "search" /\ own[t] = {}
      /\ UNCHANGED <<children, call, clients, system>>
  <2>1. TypeInv /\ TypeOK /\ OwnAt(t) /\ AtChild(t) /\ pc[t] = "search"
    BY Now DEF SearchRow, At
  <2> QED BY <2>1 DEF OwnAt, SearchRow
<1>2. /\ pc[t] \in InChild /\ pc[t] \in InPart
      /\ d \in 0 .. ChildCount - 1 /\ d \in Nat /\ d \in Int /\ ~children[d].huge
  BY <1>1, ChildRanges DEF InChild, InPart, AtChild
<1>3. call[t].op = "get" /\ n <= ATOMIC_SIZE
  BY <1>1, PhaseNow DEF PhaseAt
<1>4. n \in Nat \ {0} /\ IsSize(n) /\ n <= CHILD_SIZE /\ call[t].frame \in Frames /\ loc[t] \in LocType
  BY About
<1>5. v \in 0 .. FIELD_N - 1
  <2>1. RowOf(call[t].frame) % FIELD_N \in 0 .. FIELD_N - 1
    BY <1>4, FramePositions
  <2> QED BY <1>1, <2>1, CallSize, VisitFirst
<1> HIDE DEF n, d, v
<1>6. ASSUME NEW f \in FreeInRow(r, n), bits' = bits \cup Block(f, n),
             own' = [own EXCEPT ![t] = Block(f, n)],
             SetLoc(t, [NoLoc EXCEPT !.f = f]), Goto(t, "ok")
      PROVE  Calm(t) /\ Even(t)
  <2>1. f \in Row(r) /\ f % n = 0 /\ Block(f, n) \cap bits = {}
    BY DEF FreeInRow
  <2>2. f \in Int /\ ChildOf(f) = d
    BY <1>2, <1>3, <1>4, <1>5, <2>1, BlockInRow
  <2>3. Block(f, n) \subseteq ChildFrames(d)
    BY <1>4, <2>1, <2>2, BlockInChild
  <2>4. Inside(t)
    BY <1>1, <1>6, StepInside
  <2>5. pc'[t] = "ok" /\ own'[t] = Block(f, n) /\ own'[t] = own[t] \cup Block(f, n)
    <3>1. pc'[t] = "ok"
      BY <1>1, <1>6, GoesTo
    <3>2. own'[t] = Block(f, n)
      BY <1>1, <1>6, SetsOwn
    <3> QED BY <1>1, <3>1, <3>2
  <2>6. loc'[t].f = f
    <3>1. loc'[t] = [NoLoc EXCEPT !.f = f]
      BY <1>1, <1>6, SetsLoc
    <3> QED BY <3>1, Counters
  <2>7. f \in Frames
    <3>1. Block(f, n) \subseteq Frames
      BY <1>2, <2>1, <2>3, Unowned DEF d
    <3>2. f \in Block(f, n)
      BY <1>4, <2>2 DEF Block
    <3> QED BY <3>1, <3>2
  <2>8. OwnAt(t)'
    BY <1>1, <1>3, <2>1, <2>5, <2>6, <2>7 DEF OwnAt, Splitting, n
  <2>9. AtChild(t)' /\ SplitAt(t)'
    BY <2>5 DEF AtChild, SplitAt, InPart, InChild, Splitting
  <2>10. \A c \in Children : Weight(t, c)' = Weight(t, c)
    <3>1. Cardinality(own'[t]) = n
      <4>1. Cardinality(Block(f, n)) = n
        BY <1>4, <2>2, Blocks
      <4> QED BY <2>5, <4>1
    <3>2. own'[t] \subseteq ChildFrames(Cur(t))
      BY <2>3, <2>5 DEF d
    <3>3. pc'[t] \notin InChild
      BY <2>5 DEF InChild
    <3> QED BY <1>2, <3>1, <3>2, <3>3, EndWeight DEF n
  <2>11. UNCHANGED children /\ Block(f, n) \subseteq ChildFrames(Cur(t))
    BY <1>1, <2>3 DEF d
  <2> QED BY <1>2, <1>6, <2>1, <2>4, <2>5, <2>8, <2>9, <2>10, <2>11, TakeCalm
<1>7. ASSUME UNCHANGED <<bits, own>>,
             \/ SetLoc(t, [loc[t] EXCEPT !.g = @ + 1]) /\ UNCHANGED pc
             \/ Goto(t, "undec") /\ UNCHANGED loc
      PROVE  Calm(t) /\ Even(t)
  <2>1. Inside(t) /\ own'[t] = own[t]
    BY <1>1, <1>7, StepInside
  <2>2. pc'[t] \in {"search", "undec"} /\ loc'[t].k = loc[t].k
    <3>1. CASE SetLoc(t, [loc[t] EXCEPT !.g = @ + 1]) /\ UNCHANGED pc
      <4>1. loc'[t] = [loc[t] EXCEPT !.g = @ + 1]
        BY <1>1, <3>1, SetsLoc
      <4>2. loc'[t].k = loc[t].k
        BY <1>4, <4>1, Counters
      <4> QED BY <1>1, <3>1, <4>2
    <3>2. CASE Goto(t, "undec") /\ UNCHANGED loc
      BY <1>1, <3>2, GoesTo
    <3> QED BY <1>7, <3>1, <3>2
  <2>3. Cur(t)' = Cur(t)
    BY <1>1, <2>2, CurStays
  <2>4. OwnAt(t)'
    BY <1>1, <1>3, <2>1, <2>2 DEF OwnAt, Splitting
  <2>5. AtChild(t)'
    BY <1>1, <1>2, <2>1, <2>3 DEF AtChild, d
  <2>6. SplitAt(t)' /\ pc'[t] \in InPart
    BY <2>2 DEF SplitAt, InPart, InChild
  <2> QED BY <1>1, <1>2, <1>7, <2>1, <2>3, <2>4, <2>5, <2>6, QuietPart
<1> QED
  <2>1. \/ \E f \in FreeInRow(r, n) :
            /\ bits' = bits \cup Block(f, n)
            /\ own'  = [own EXCEPT ![t] = Block(f, n)]
            /\ SetLoc(t, [NoLoc EXCEPT !.f = f])
            /\ Goto(t, "ok")
        \/ /\ UNCHANGED <<bits, own>>
           /\ \/ SetLoc(t, [loc[t] EXCEPT !.g = @ + 1]) /\ UNCHANGED pc
              \/ Goto(t, "undec") /\ UNCHANGED loc
    BY DEF SearchRow, n, d, v
  <2> QED BY <1>6, <1>7, <2>1

-----------------------------------------------------------------------------
(* Blocks that grow and shrink by units. *)

\* A block of i units and the next one.
Grown(x, u, i) ==
    /\ Block(x, i * u) \cup Block(x + i * u, u) = Block(x, (i + 1) * u)
    /\ x + i * u \in Int /\ Block(x, 0 * u) = {}

LEMMA Grow ==
    ASSUME NEW x \in Int, NEW u \in Nat, NEW i \in Nat
    PROVE  Grown(x, u, i)
<1>1. i * u \in Nat /\ (i + 1) * u = i * u + u /\ 0 * u = 0
  OBVIOUS
<1> DEFINE w == i * u
<1>w. w \in Nat
  BY <1>1
<1> HIDE DEF w
<1>2. Block(x, w) \cup Block(x + w, u) = Block(x, w + u)
  BY <1>w, Blocks
<1>3. x + w \in Int /\ Block(x, 0) = {}
  BY <1>w, Blocks
<1>4. /\ Block(x, i * u) \cup Block(x + i * u, u) = Block(x, (i + 1) * u)
      /\ x + i * u \in Int /\ Block(x, 0 * u) = {}
  BY <1>1, <1>2, <1>3 DEF w
<1> QED BY <1>4 DEF Grown

\* What is left of a block of units when one of them goes.
Shrinks(x, u, i, j) ==
    /\ Block(x + j * u, u) \subseteq Block(x + j * u, (i - j) * u)
    /\ Block(x + j * u, (i - j) * u) \ Block(x + j * u, u)
         = Block(x + (j + 1) * u, (i - (j + 1)) * u)

LEMMA Shrink ==
    ASSUME NEW x \in Int, NEW u \in Nat, NEW i \in Nat, NEW j \in 0 .. i - 1
    PROVE  Shrinks(x, u, i, j)
<1> DEFINE a == x + j * u
           w == (i - (j + 1)) * u
<1>1. /\ j * u \in Int /\ a \in Int
      /\ x + (j + 1) * u = a + u
  OBVIOUS
<1>2. w \in Nat /\ (i - j) * u = u + w
  <2>1. i - (j + 1) \in Nat
    OBVIOUS
  <2>2. \A k \in Nat : k * u \in Nat /\ (k + 1) * u = u + k * u
    OBVIOUS
  <2>3. (i - (j + 1)) + 1 = i - j
    OBVIOUS
  <2> QED BY <2>1, <2>2, <2>3
<1> HIDE DEF a, w
<1>3. /\ Block(a, u) \cup Block(a + u, w) = Block(a, u + w)
      /\ Block(a, u) \cap Block(a + u, w) = {}
  BY <1>1, <1>2, Blocks
<1>4. /\ Block(a, u) \subseteq Block(a, u + w)
      /\ Block(a, u + w) \ Block(a, u) = Block(a + u, w)
  BY <1>3
<1> QED BY <1>1, <1>2, <1>4 DEF Shrinks, a, w

\* The part of an aligned block that the loops over its rows are at.
LEMMA PartAt ==
    ASSUME NEW n \in Nat \ {0}, IsSize(n), n <= CHILD_SIZE, NEW f \in Int, f % n = 0,
           NEW i \in 0 .. Parts(n) - 1
    PROVE  /\ Part(f, n, i) = Block(f + i * Unit(n), Unit(n))
           /\ Part(f, n, i) \subseteq ChildFrames(ChildOf(f))
           /\ Part(f, n, i) # {}
<1> DEFINE u == Unit(n)
<1>1. /\ Part(f, n, i) = Block(f + i * u, u)
      /\ i * u \in Nat /\ (i + 1) * u = i * u + u /\ n - (i + 1) * u \in Nat
  BY PartIs
<1>2. u \in Nat \ {0}
  BY Sized
<1> HIDE DEF u
<1> DEFINE w == i * u
<1>3. w \in Nat /\ (i + 1) * u = w + u /\ w + u <= n
  BY <1>1, <1>2
<1> HIDE DEF w
<1>4. Block(f + w, u) \subseteq Block(f, n) /\ f + w \in Block(f + w, u)
  BY <1>2, <1>3 DEF Block
<1>5. Block(f, n) \subseteq ChildFrames(ChildOf(f))
  BY BlockInChild
<1> QED BY <1>1, <1>4, <1>5 DEF u, w

\* The last part completes the block.
LEMMA LastPart ==
    ASSUME NEW n \in Nat \ {0}, IsSize(n), n <= CHILD_SIZE, NEW f \in Int
    PROVE  Block(f, Parts(n) * Unit(n)) = Block(f, n)
BY Sized

-----------------------------------------------------------------------------
(* field_set_next over several rows. *)

\* Going on to the next group of rows, with nothing in hand.
LEMMA NextGroupOwn ==
    ASSUME OneHuge, XInv, TypeInv', NEW t \in Threads, pc[t] \in {"set", "unset"}, NextGroup(t),
           own'[t] = {}, UNCHANGED <<children, call, clients, system>>,
           UNCHANGED own \/ \E B : own' = [own EXCEPT ![t] = B],
           pc[t] = "set" => loc[t].i = 0
    PROVE  /\ Inside(t) /\ OwnAt(t)' /\ AtChild(t)' /\ SplitAt(t)'
           /\ \A c \in Children : Weight(t, c)' = Weight(t, c)
<1>1. /\ TypeInv /\ TypeOK /\ AtChild(t) /\ OwnAt(t) /\ call[t].op = "get"
  BY Now, PhaseNow DEF PhaseAt
<1>2. Inside(t)
  BY <1>1, StepInside DEF NextGroup
<1>3. /\ pc'[t] \in {"set", "undec"} /\ loc'[t].k = loc[t].k
      /\ pc'[t] = "set" => loc'[t].i = 0 /\ loc'[t].j = 0
  BY <1>1, GoesTo, SetsLoc, Counters DEF NextGroup
<1>4. Cur(t)' = Cur(t) /\ call'[t] = call[t]
  BY <1>3, CurStays
<1>5. Parts(call[t].n) \in Nat \ {0} /\ Unit(call[t].n) \in Nat
  BY About
<1>6. OwnAt(t)'
  <2>1. pc'[t] = "set" => own'[t] = Block(GroupBase(t)', loc'[t].i * Unit(call'[t].n))
    <3>1. pc'[t] = "set" => GroupBase(t)' \in Int
      BY CallNext
    <3>2. ASSUME NEW x \in Int PROVE Block(x, 0 * Unit(call[t].n)) = {}
      BY <1>5, Grow DEF Grown
    <3> QED BY <1>3, <1>4, <3>1, <3>2
  <2>2. pc'[t] = "set" => loc'[t].i \in 0 .. Parts(call'[t].n) - 1 /\ loc'[t].j = 0
    BY <1>3, <1>4, <1>5
  <2> QED BY <1>1, <1>3, <1>4, <2>1, <2>2 DEF OwnAt, Splitting
<1>7. AtChild(t)'
  BY <1>1, <1>3, <1>4 DEF AtChild, InPart, InChild
<1>8. SplitAt(t)'
  BY <1>3 DEF SplitAt
<1>9. \A c \in Children : Weight(t, c)' = Weight(t, c)
  <2>1. pc[t] \in InPart /\ pc'[t] \in InPart
    BY <1>3 DEF InPart, InChild
  <2> QED BY <1>4, <1>6, <1>7, <2>1, SameWeight
<1> QED BY <1>2, <1>6, <1>7, <1>8, <1>9

LEMMA SetRowCalm ==
    ASSUME OneHuge, XInv, TypeInv', NEW t \in Threads, SetRow(t)
    PROVE  Calm(t) /\ Even(t)
<1> DEFINE n == call[t].n
           d == Cur(t)
           i == loc[t].i
           u == Unit(n)
           b == GroupBase(t)
           P == Part(b, n, i)
<1>1. /\ TypeInv /\ TypeOK /\ OwnAt(t) /\ AtChild(t) /\ pc[t] = "set"
      /\ UNCHANGED <<children, call, clients, system>>
      /\ i \in 0 .. Parts(n) - 1 /\ loc[t].j = 0 /\ own[t] = Block(b, i * u)
  <2>1. TypeInv /\ TypeOK /\ OwnAt(t) /\ AtChild(t) /\ pc[t] = "set"
    BY Now DEF SetRow, At
  <2> QED BY <2>1 DEF OwnAt, SetRow
<1>2. /\ pc[t] \in InChild /\ pc[t] \in InPart
      /\ d \in 0 .. ChildCount - 1 /\ d \in Int /\ ~children[d].huge
      /\ own[t] \subseteq ChildFrames(d)
  BY <1>1, ChildRanges DEF InChild, InPart, AtChild
<1>3. call[t].op = "get"
  BY <1>1, PhaseNow DEF PhaseAt
<1>4. /\ n \in Nat \ {0} /\ IsSize(n) /\ n <= CHILD_SIZE /\ loc[t] \in LocType
      /\ Parts(n) \in Nat \ {0} /\ u \in Nat \ {0} /\ i \in Nat
  BY About
<1>5. b \in Int /\ b % n = 0 /\ ChildOf(b) = d
  BY <1>1, <1>2, GroupAt
<1> HIDE DEF n, d, i, u, b
<1>6. P = Block(b + i * u, u) /\ P \subseteq ChildFrames(d)
  BY <1>1, <1>4, <1>5, PartAt DEF u
<1>7. own[t] \cup P = Block(b, (i + 1) * u)
  <2>1. Grown(b, u, i)
    BY <1>4, <1>5, Grow
  <2> QED BY <1>1, <1>6, <2>1 DEF Grown
<1> HIDE DEF P
<1>8. ASSUME CanToggle(P, FALSE), bits' = Toggled(P, FALSE),
             own' = [own EXCEPT ![t] = @ \cup P]
      PROVE  /\ P \cap bits = {} /\ bits' = bits \cup P /\ own'[t] = own[t] \cup P
             /\ own'[t] = Block(b, (i + 1) * u)
             /\ own'[t] \subseteq Frames /\ own'[t] \subseteq ChildFrames(d)
  <2>1. own'[t] = own[t] \cup P
    BY <1>1, <1>8, SetsOwn
  <2>2. P \cap bits = {} /\ bits' = bits \cup P
    BY <1>8 DEF CanToggle, Toggled
  <2>3. P \subseteq Frames /\ own[t] \subseteq Frames
    BY <1>2, <1>6, <2>2, Unowned, Now DEF d
  <2> QED BY <1>2, <1>6, <1>7, <2>1, <2>2, <2>3
<1>9. ASSUME CanToggle(P, FALSE), bits' = Toggled(P, FALSE),
             own' = [own EXCEPT ![t] = @ \cup P], i + 1 = Parts(n),
             Goto(t, "ok"), SetLoc(t, [NoLoc EXCEPT !.f = b])
      PROVE  Calm(t) /\ Even(t)
  <2>1. Inside(t)
    BY <1>1, <1>9, StepInside
  <2>2. pc'[t] = "ok"
    BY <1>1, <1>9, GoesTo
  <2>3. loc'[t].f = b
    <3>1. loc'[t] = [NoLoc EXCEPT !.f = b]
      BY <1>1, <1>9, SetsLoc
    <3> QED BY <3>1, Counters
  <2>4. own'[t] = Block(b, n)
    BY <1>4, <1>5, <1>8, <1>9, LastPart DEF u
  <2>5. b \in Frames
    <3>1. b \in Block(b, n)
      BY <1>4, <1>5 DEF Block
    <3>2. own'[t] \subseteq Frames
      BY <1>8, <1>9
    <3> QED BY <2>4, <3>1, <3>2
  <2>6. OwnAt(t)'
    BY <1>1, <1>3, <1>5, <2>2, <2>3, <2>4, <2>5 DEF OwnAt, Splitting, n
  <2>7. AtChild(t)' /\ SplitAt(t)'
    BY <2>2 DEF AtChild, SplitAt, InPart, InChild, Splitting
  <2>8. \A c \in Children : Weight(t, c)' = Weight(t, c)
    <3>1. Cardinality(own'[t]) = n
      <4>1. Cardinality(Block(b, n)) = n
        BY <1>4, <1>5, Blocks
      <4> QED BY <2>4, <4>1
    <3>2. own'[t] \subseteq ChildFrames(Cur(t))
      BY <1>8, <1>9 DEF d
    <3>3. pc'[t] \notin InChild
      BY <2>2 DEF InChild
    <3> QED BY <1>2, <3>1, <3>2, <3>3, EndWeight DEF n
  <2>9. UNCHANGED children /\ P \subseteq ChildFrames(Cur(t))
    BY <1>1, <1>6 DEF d
  <2> QED BY <1>2, <1>8, <1>9, <2>1, <2>6, <2>7, <2>8, <2>9, TakeCalm
<1>10. ASSUME CanToggle(P, FALSE), bits' = Toggled(P, FALSE),
              own' = [own EXCEPT ![t] = @ \cup P], i + 1 # Parts(n),
              SetLoc(t, [loc[t] EXCEPT !.i = @ + 1]), UNCHANGED pc
       PROVE  Calm(t) /\ Even(t)
  <2>1. Inside(t) /\ pc'[t] = "set"
    BY <1>1, <1>10, StepInside
  <2>2. loc'[t].i = i + 1 /\ loc'[t].j = 0 /\ loc'[t].k = loc[t].k /\ loc'[t].g = loc[t].g
    <3>1. loc'[t] = [loc[t] EXCEPT !.i = @ + 1]
      BY <1>1, <1>10, SetsLoc
    <3> QED BY <1>1, <1>4, <3>1, Counters DEF i
  <2>3. Cur(t)' = d /\ call'[t] = call[t]
    BY <1>1, <2>2, CurStays DEF d
  <2>4. GroupBase(t)' = b
    BY <2>2, <2>3 DEF GroupBase, b, d
  <2>5. OwnAt(t)'
    <3>1. i + 1 \in 0 .. Parts(n) - 1
      BY <1>1, <1>4, <1>10
    <3> QED BY <1>3, <1>8, <1>10, <2>1, <2>2, <2>3, <2>4, <3>1 DEF OwnAt, Splitting, n, u
  <2>6. AtChild(t)'
    BY <1>1, <1>2, <1>8, <1>10, <2>1, <2>3 DEF AtChild
  <2>7. SplitAt(t)' /\ pc'[t] \in InPart
    BY <2>1 DEF SplitAt, InPart, InChild
  <2>8. \A c \in Children : Weight(t, c)' = Weight(t, c)
    BY <1>1, <1>2, <2>3, <2>5, <2>6, <2>7, SameWeight DEF d
  <2>9. UNCHANGED children /\ P \subseteq ChildFrames(Cur(t))
    BY <1>1, <1>6 DEF d
  <2> QED BY <1>2, <1>8, <1>10, <2>1, <2>5, <2>6, <2>7, <2>8, <2>9, TakeCalm
<1>11. ASSUME UNCHANGED <<bits, own>>, i = 0, NextGroup(t)
       PROVE  Calm(t) /\ Even(t)
  <2>1. own[t] = {} /\ own'[t] = {}
    BY <1>1, <1>4, <1>5, <1>11, Grow DEF Grown
  <2>2. /\ Inside(t) /\ OwnAt(t)' /\ AtChild(t)' /\ SplitAt(t)'
        /\ \A c \in Children : Weight(t, c)' = Weight(t, c)
    BY <1>1, <1>11, <2>1, NextGroupOwn DEF i
  <2> QED BY <1>1, <1>11, <2>1, <2>2, EvenQuiet
<1>12. ASSUME UNCHANGED <<bits, own, loc>>, i # 0, Goto(t, "unset")
       PROVE  Calm(t) /\ Even(t)
  <2>1. Inside(t) /\ pc'[t] = "unset" /\ own'[t] = own[t]
    BY <1>1, <1>12, StepInside, GoesTo
  <2>2. Cur(t)' = d /\ call'[t] = call[t] /\ loc'[t] = loc[t]
    BY <1>1, <1>12, CurStays DEF d
  <2>3. GroupBase(t)' = b
    BY <2>2 DEF GroupBase, b, d
  <2>4. OwnAt(t)'
    <3>1. i \in 1 .. Parts(n) - 1 /\ 0 \in 0 .. i - 1 /\ i - 0 = i /\ b + 0 * u = b
      BY <1>1, <1>4, <1>5, <1>12
    <3>2. own[t] = Block(b + 0 * u, (i - 0) * u)
      BY <1>1, <3>1
    <3> QED BY <1>1, <1>3, <2>1, <2>2, <2>3, <3>1, <3>2 DEF OwnAt, Splitting, n, u, i
  <2>5. AtChild(t)'
    BY <1>1, <1>2, <2>1, <2>2 DEF AtChild
  <2>6. SplitAt(t)' /\ pc'[t] \in InPart
    BY <2>1 DEF SplitAt, InPart, InChild
  <2> QED BY <1>1, <1>2, <1>12, <2>1, <2>2, <2>4, <2>5, <2>6, QuietPart DEF d
<1> QED
  <2>1. \/ /\ CanToggle(P, FALSE) /\ bits' = Toggled(P, FALSE)
           /\ own' = [own EXCEPT ![t] = @ \cup P]
           /\ \/ i + 1 = Parts(n) /\ Goto(t, "ok") /\ SetLoc(t, [NoLoc EXCEPT !.f = b])
              \/ i + 1 # Parts(n) /\ SetLoc(t, [loc[t] EXCEPT !.i = @ + 1]) /\ UNCHANGED pc
        \/ /\ UNCHANGED <<bits, own>>
           /\ \/ i = 0 /\ NextGroup(t)
              \/ i # 0 /\ Goto(t, "unset") /\ UNCHANGED loc
    BY DEF SetRow, P, n, i, b
  <2> QED BY <1>9, <1>10, <1>11, <1>12, <2>1

\* A call's own frames have their bits set while their child has a counter.
LEMMA OwnBits ==
    ASSUME XInv, NEW t \in Threads, pc[t] \in InChild
    PROVE  own[t] \subseteq bits
<1>1. /\ Cur(t) \in Int /\ ~children[Cur(t)].huge /\ own[t] \subseteq ChildFrames(Cur(t))
      /\ own[t] \subseteq Frames /\ \A f \in own[t] : Mark(f)
  BY Now, ChildRanges DEF AtChild, InPart
<1>2. ASSUME NEW f \in own[t] PROVE f \in bits
  <2>1. f \in Int
    BY <1>1 DEF Frames
  <2>2. ChildOf(f) = Cur(t)
    BY <1>1, <2>1, FramesOfChild
  <2>3. Mark(f)
    BY <1>1
  <2> QED BY <1>1, <2>2, <2>3 DEF Mark
<1> QED BY <1>2

\* The undo finds every row that it has set.
LEMMA UndoSetRowCalm ==
    ASSUME OneHuge, XInv, TypeInv', NEW t \in Threads, UndoSetRow(t)
    PROVE  Calm(t) /\ Even(t) /\ pc'[t] # "abort"
<1> DEFINE n == call[t].n
           d == Cur(t)
           i == loc[t].i
           j == loc[t].j
           u == Unit(n)
           b == GroupBase(t)
           P == Part(b, n, j)
<1>1. /\ TypeInv /\ TypeOK /\ OwnAt(t) /\ AtChild(t) /\ pc[t] = "unset"
      /\ UNCHANGED <<children, call, clients, system>>
      /\ i \in 1 .. Parts(n) - 1 /\ j \in 0 .. i - 1
      /\ own[t] = Block(b + j * u, (i - j) * u)
  <2>1. TypeInv /\ TypeOK /\ OwnAt(t) /\ AtChild(t) /\ pc[t] = "unset"
    BY Now DEF UndoSetRow, At
  <2> QED BY <2>1 DEF OwnAt, UndoSetRow
<1>2. /\ pc[t] \in InChild /\ pc[t] \in InPart
      /\ d \in 0 .. ChildCount - 1 /\ d \in Int /\ ~children[d].huge
      /\ own[t] \subseteq ChildFrames(d)
  BY <1>1, ChildRanges DEF InChild, InPart, AtChild
<1>3. call[t].op = "get"
  BY <1>1, PhaseNow DEF PhaseAt
<1>4. /\ n \in Nat \ {0} /\ IsSize(n) /\ n <= CHILD_SIZE /\ loc[t] \in LocType
      /\ Parts(n) \in Nat \ {0} /\ u \in Nat \ {0} /\ i \in Nat /\ j \in Nat
  BY About
<1>5. b \in Int /\ b % n = 0 /\ ChildOf(b) = d
  BY <1>1, <1>2, GroupAt
<1>a. own[t] \subseteq bits
  BY <1>2, OwnBits
<1>b. \/ CanToggle(P, TRUE) /\ bits' = Toggled(P, TRUE) /\ own' = [own EXCEPT ![t] = @ \ P]
         /\ \/ j + 1 = i /\ NextGroup(t)
            \/ j + 1 # i /\ SetLoc(t, [loc[t] EXCEPT !.j = @ + 1]) /\ UNCHANGED pc
      \/ ~CanToggle(P, TRUE)
  BY DEF UndoSetRow, UndoRow, P, n, i, j, b
<1> HIDE DEF n, d, i, j, u, b
<1>6. P = Block(b + j * u, u)
  <2>1. j \in 0 .. Parts(n) - 1
    BY <1>1, <1>4
  <2> QED BY <1>4, <1>5, <2>1, PartAt DEF u
<1> HIDE DEF P
<1>7. /\ P \subseteq own[t]
      /\ own[t] \ P = Block(b + (j + 1) * u, (i - (j + 1)) * u)
  <2>1. b \in Int /\ u \in Nat /\ i \in Nat /\ j \in 0 .. i - 1
    BY <1>1, <1>4, <1>5
  <2>2. Shrinks(b, u, i, j)
    BY <2>1, Shrink
  <2> QED BY <1>1, <1>6, <2>2 DEF Shrinks
<1>8. /\ bits' = bits \ P /\ own'[t] = own[t] \ P /\ own' = [own EXCEPT ![t] = @ \ P]
      /\ \/ j + 1 = i /\ NextGroup(t)
         \/ j + 1 # i /\ SetLoc(t, [loc[t] EXCEPT !.j = @ + 1]) /\ UNCHANGED pc
  <2>1. CanToggle(P, TRUE)
    BY <1>7, <1>a DEF CanToggle
  <2>2. bits' = Toggled(P, TRUE) /\ own' = [own EXCEPT ![t] = @ \ P]
    BY <1>b, <2>1
  <2>3. own'[t] = own[t] \ P
    BY <1>1, <2>2, SetsOwn
  <2> QED BY <1>b, <2>1, <2>2, <2>3 DEF Toggled
<1>c. pc'[t] # "abort"
  <2>1. CASE NextGroup(t)
    <3>1. Goto(t, "set") \/ Goto(t, "undec")
      BY <2>1 DEF NextGroup
    <3> QED BY <1>1, <3>1, GoesTo
  <2>2. CASE UNCHANGED pc
    BY <1>1, <2>2
  <2> QED BY <1>8, <2>1, <2>2
<1>9. CASE j + 1 = i /\ NextGroup(t)
  <2>1. own'[t] = {}
    <3>1. i - (j + 1) = 0 /\ b + (j + 1) * u \in Int
      BY <1>4, <1>5, <1>9
    <3>2. Block(b + (j + 1) * u, 0 * u) = {}
      BY <1>4, <3>1, Grow DEF Grown
    <3> QED BY <1>7, <1>8, <3>1, <3>2
  <2>2. \E B : own' = [own EXCEPT ![t] = B]
    BY <1>8
  <2>3. /\ Inside(t) /\ OwnAt(t)' /\ AtChild(t)' /\ SplitAt(t)'
        /\ \A c \in Children : Weight(t, c)' = Weight(t, c)
    BY <1>1, <1>9, <2>1, <2>2, NextGroupOwn
  <2>4. Calm(t) /\ Even(t)
    BY <1>1, <1>2, <1>7, <1>8, <2>3, DropCalm
  <2> QED BY <1>c, <2>4
<1>10. CASE j + 1 # i /\ SetLoc(t, [loc[t] EXCEPT !.j = @ + 1]) /\ UNCHANGED pc
  <2>1. Inside(t) /\ pc'[t] = "unset"
    BY <1>1, <1>8, <1>10, StepInside
  <2>2. loc'[t].i = i /\ loc'[t].j = j + 1 /\ loc'[t].k = loc[t].k /\ loc'[t].g = loc[t].g
    <3>1. loc'[t] = [loc[t] EXCEPT !.j = @ + 1]
      BY <1>1, <1>10, SetsLoc
    <3> QED BY <1>1, <1>4, <3>1, Counters DEF i, j
  <2>3. Cur(t)' = d /\ call'[t] = call[t]
    BY <1>1, <2>2, CurStays DEF d
  <2>4. GroupBase(t)' = b
    BY <2>2, <2>3 DEF GroupBase, b, d
  <2>5. OwnAt(t)'
    <3>1. j + 1 \in 0 .. i - 1
      BY <1>1, <1>4, <1>10
    <3>2. own'[t] = Block(b + (j + 1) * u, (i - (j + 1)) * u)
      BY <1>7, <1>8
    <3> QED BY <1>1, <1>3, <2>1, <2>2, <2>3, <2>4, <3>1, <3>2 DEF OwnAt, Splitting, n, u
  <2>6. AtChild(t)'
    BY <1>1, <1>2, <1>8, <2>1, <2>3 DEF AtChild
  <2>7. SplitAt(t)' /\ pc'[t] \in InPart
    BY <2>1 DEF SplitAt, InPart, InChild
  <2>8. \A c \in Children : Weight(t, c)' = Weight(t, c)
    BY <1>1, <1>2, <2>3, <2>5, <2>6, <2>7, SameWeight DEF d
  <2>9. Calm(t) /\ Even(t)
    BY <1>1, <1>2, <1>7, <1>8, <2>1, <2>5, <2>6, <2>7, <2>8, DropCalm
  <2> QED BY <1>c, <2>9
<1> QED BY <1>8, <1>9, <1>10

-----------------------------------------------------------------------------
(* field_toggle. *)

\* A step of a split: it only sets bits.
LEMMA MarkCalm ==
    ASSUME OneHuge, XInv, TypeInv', NEW t \in Threads, Inside(t), UNCHANGED children,
           bits \subseteq bits', own'[t] = own[t], OwnAt(t)', AtChild(t)', SplitAt(t)',
           pc[t] \in InPart, pc'[t] \in InPart, Cur(t)' = Cur(t)
    PROVE  Calm(t) /\ Even(t)
<1>1. \A c \in Children : Weight(t, c)' = Weight(t, c)
  BY SameWeight DEF Inside
<1>2. Even(t)
  BY <1>1 DEF Even
<1>3. \A c \in Children :
        children'[c].free + Weight(t, c)' <= children[c].free + Weight(t, c)
  BY <1>2, WeightNat DEF Even
<1>4. \A f : Mark(f) => Mark(f)'
  BY DEF Mark
<1>5. /\ own[t] \subseteq Frames /\ own[t] \cap Rest(t) = {}
      /\ \A f \in own[t] : Mark(f)
  BY Now
<1> QED BY <1>2, <1>3, <1>4, <1>5 DEF Calm

\* lower_get_at marks its block row by row.
LEMMA MarkToggleCalm ==
    ASSUME OneHuge, XInv, TypeInv', NEW t \in Threads, Toggle(t, "mark")
    PROVE  Calm(t) /\ Even(t)
<1> DEFINE n == call[t].n
           d == Cur(t)
           i == loc[t].i
           u == Unit(n)
           f == call[t].frame
           P == Part(f, n, i)
<1>1. /\ TypeInv /\ TypeOK /\ OwnAt(t) /\ AtChild(t) /\ pc[t] = "mark"
      /\ UNCHANGED <<children, call, clients, system>>
      /\ i \in 0 .. Parts(n) - 1 /\ loc[t].j = 0 /\ own[t] = Block(f, i * u)
  <2>1. TypeInv /\ TypeOK /\ OwnAt(t) /\ AtChild(t) /\ pc[t] = "mark"
    BY Now DEF Toggle, At
  <2> QED BY <2>1 DEF OwnAt, Toggle
<1>2. /\ pc[t] \in InChild /\ pc[t] \in InPart
      /\ d \in 0 .. ChildCount - 1 /\ d \in Int /\ ~children[d].huge
      /\ own[t] \subseteq ChildFrames(d)
  BY <1>1, ChildRanges DEF InChild, InPart, AtChild
<1>3. call[t].op = "get_at" /\ InRange(f, n) /\ d = ChildOf(f)
  <2>1. call[t].op = "get_at"
    BY <1>1, PhaseNow DEF PhaseAt
  <2> QED BY <1>1, <2>1 DEF OwnAt, Cur
<1>4. /\ n \in Nat \ {0} /\ IsSize(n) /\ n <= CHILD_SIZE /\ loc[t] \in LocType
      /\ Parts(n) \in Nat \ {0} /\ u \in Nat \ {0} /\ i \in Nat /\ f \in Frames /\ f \in Int
  BY About
<1>5. f % n = 0
  BY <1>3 DEF InRange
<1>b. \/ /\ CanToggle(P, FALSE) /\ bits' = Toggled(P, FALSE)
         /\ own' = [own EXCEPT ![t] = @ \cup P]
         /\ \/ i + 1 = Parts(n) /\ Goto(t, "ok") /\ SetLoc(t, [NoLoc EXCEPT !.f = f])
            \/ i + 1 # Parts(n) /\ SetLoc(t, [loc[t] EXCEPT !.i = @ + 1]) /\ UNCHANGED pc
      \/ /\ UNCHANGED <<bits, own, loc>>
         /\ \/ i = 0 /\ Goto(t, "undec")
            \/ i # 0 /\ Goto(t, "unmark")
  <2>1. Target(t, "mark").f = f /\ Target(t, "mark").n = n
    BY DEF Target
  <2>2. /\ Expected("mark") = FALSE /\ AfterToggle("mark") = "ok"
        /\ AfterFailure("mark") = "undec" /\ UndoOf("mark") = "unmark"
        /\ OwnAfter(t, P, "mark", FALSE) = [own EXCEPT ![t] = @ \cup P]
    BY DEF Expected, AfterToggle, AfterFailure, UndoOf, OwnAfter
  <2> HIDE DEF n, i, f
  <2> QED BY <2>1, <2>2 DEF Toggle, i
<1> HIDE DEF n, d, i, u, f
<1>6. P = Block(f + i * u, u) /\ P \subseteq ChildFrames(d)
  BY <1>1, <1>3, <1>4, <1>5, PartAt DEF u
<1> HIDE DEF P
<1>7. own[t] \cup P = Block(f, (i + 1) * u)
  <2>1. Block(f, i * u) \cup Block(f + i * u, u) = Block(f, (i + 1) * u)
    BY <1>4, Grow DEF Grown
  <2> QED BY <1>1, <1>6, <2>1
<1>8. ASSUME CanToggle(P, FALSE), bits' = Toggled(P, FALSE),
             own' = [own EXCEPT ![t] = @ \cup P]
      PROVE  /\ P \cap bits = {} /\ bits' = bits \cup P /\ own'[t] = own[t] \cup P
             /\ own'[t] = Block(f, (i + 1) * u)
             /\ own'[t] \subseteq ChildFrames(d)
  <2>1. own'[t] = own[t] \cup P
    BY <1>1, <1>8, SetsOwn
  <2>2. P \cap bits = {} /\ bits' = bits \cup P
    BY <1>8 DEF CanToggle, Toggled
  <2> QED BY <1>2, <1>6, <1>7, <2>1, <2>2
<1>9. ASSUME CanToggle(P, FALSE), bits' = Toggled(P, FALSE),
             own' = [own EXCEPT ![t] = @ \cup P], i + 1 = Parts(n),
             Goto(t, "ok"), SetLoc(t, [NoLoc EXCEPT !.f = f])
      PROVE  Calm(t) /\ Even(t)
  <2>1. Inside(t)
    BY <1>1, <1>9, StepInside
  <2>2. pc'[t] = "ok"
    BY <1>1, <1>9, GoesTo
  <2>3. loc'[t].f = f
    <3>1. loc'[t] = [NoLoc EXCEPT !.f = f]
      BY <1>1, <1>9, SetsLoc
    <3> QED BY <3>1, Counters
  <2>4. own'[t] = Block(f, n)
    BY <1>4, <1>5, <1>8, <1>9, LastPart DEF u
  <2>5. OwnAt(t)'
    BY <1>1, <1>3, <1>4, <1>5, <2>2, <2>3, <2>4 DEF OwnAt, Splitting, n, f
  <2>6. AtChild(t)' /\ SplitAt(t)'
    BY <2>2 DEF AtChild, SplitAt, InPart, InChild, Splitting
  <2>7. \A c \in Children : Weight(t, c)' = Weight(t, c)
    <3>1. Cardinality(own'[t]) = n
      <4>1. Cardinality(Block(f, n)) = n
        BY <1>4, <1>5, Blocks
      <4> QED BY <2>4, <4>1
    <3>2. own'[t] \subseteq ChildFrames(Cur(t))
      BY <1>8, <1>9 DEF d
    <3>3. pc'[t] \notin InChild
      BY <2>2 DEF InChild
    <3> QED BY <1>2, <3>1, <3>2, <3>3, EndWeight DEF n
  <2>8. UNCHANGED children /\ P \subseteq ChildFrames(Cur(t))
    BY <1>1, <1>6 DEF d
  <2> QED BY <1>2, <1>8, <1>9, <2>1, <2>5, <2>6, <2>7, <2>8, TakeCalm
<1>10. ASSUME CanToggle(P, FALSE), bits' = Toggled(P, FALSE),
              own' = [own EXCEPT ![t] = @ \cup P], i + 1 # Parts(n),
              SetLoc(t, [loc[t] EXCEPT !.i = @ + 1]), UNCHANGED pc
       PROVE  Calm(t) /\ Even(t)
  <2>1. Inside(t) /\ pc'[t] = "mark"
    BY <1>1, <1>10, StepInside
  <2>2. loc'[t].i = i + 1 /\ loc'[t].j = 0
    <3>1. loc'[t] = [loc[t] EXCEPT !.i = @ + 1]
      BY <1>1, <1>10, SetsLoc
    <3> QED BY <1>1, <1>4, <3>1, Counters DEF i
  <2>3. Cur(t)' = d /\ call'[t] = call[t]
    BY <1>1, <1>3, CurStays DEF d
  <2>4. OwnAt(t)'
    <3>1. i + 1 \in 0 .. Parts(n) - 1
      BY <1>1, <1>4, <1>10
    <3> QED BY <1>3, <1>8, <1>10, <2>1, <2>2, <2>3, <3>1 DEF OwnAt, Splitting, n, u, f
  <2>5. AtChild(t)'
    BY <1>1, <1>2, <1>8, <1>10, <2>1, <2>3 DEF AtChild
  <2>6. SplitAt(t)' /\ pc'[t] \in InPart
    BY <2>1 DEF SplitAt, InPart, InChild
  <2>7. \A c \in Children : Weight(t, c)' = Weight(t, c)
    BY <1>1, <1>2, <2>3, <2>4, <2>5, <2>6, SameWeight DEF d
  <2>8. UNCHANGED children /\ P \subseteq ChildFrames(Cur(t))
    BY <1>1, <1>6 DEF d
  <2> QED BY <1>2, <1>8, <1>10, <2>1, <2>4, <2>5, <2>6, <2>7, <2>8, TakeCalm
<1>11. ASSUME UNCHANGED <<bits, own, loc>>,
              (i = 0 /\ Goto(t, "undec")) \/ (i # 0 /\ Goto(t, "unmark"))
       PROVE  Calm(t) /\ Even(t)
  <2>1. /\ Inside(t) /\ own'[t] = own[t]
        /\ \/ i = 0 /\ pc'[t] = "undec"
           \/ i # 0 /\ pc'[t] = "unmark"
    BY <1>1, <1>11, StepInside, GoesTo
  <2>2. Cur(t)' = d /\ call'[t] = call[t] /\ loc'[t] = loc[t]
    BY <1>1, <1>3, <1>11, CurStays DEF d
  <2>3. i = 0 => own[t] = {}
    BY <1>1, <1>4, Grow DEF Grown
  <2>4. OwnAt(t)'
    <3>1. i # 0 => i \in 1 .. Parts(n) - 1
      BY <1>1, <1>4
    <3> QED BY <1>1, <1>3, <2>1, <2>2, <2>3, <3>1 DEF OwnAt, Splitting, n, u, i, f
  <2>5. AtChild(t)'
    BY <1>1, <1>2, <2>1, <2>2 DEF AtChild
  <2>6. SplitAt(t)' /\ pc'[t] \in InPart
    BY <2>1 DEF SplitAt, InPart, InChild
  <2> QED BY <1>1, <1>2, <1>11, <2>1, <2>2, <2>4, <2>5, <2>6, QuietPart DEF d
<1>12. CASE /\ CanToggle(P, FALSE) /\ bits' = Toggled(P, FALSE)
            /\ own' = [own EXCEPT ![t] = @ \cup P]
            /\ \/ i + 1 = Parts(n) /\ Goto(t, "ok") /\ SetLoc(t, [NoLoc EXCEPT !.f = f])
               \/ i + 1 # Parts(n) /\ SetLoc(t, [loc[t] EXCEPT !.i = @ + 1]) /\ UNCHANGED pc
  BY <1>9, <1>10, <1>12
<1>13. CASE /\ UNCHANGED <<bits, own, loc>>
            /\ \/ i = 0 /\ Goto(t, "undec")
               \/ i # 0 /\ Goto(t, "unmark")
  BY <1>11, <1>13
<1> QED BY <1>b, <1>12, <1>13

\* The undo of the mark finds its own bits set, not clear as it expects: it aborts.
LEMMA UndoMarkAborts ==
    ASSUME OneHuge, XInv, TypeInv', NEW t \in Threads, UndoToggle(t, "mark")
    PROVE  Calm(t) /\ pc'[t] = "abort"
<1> DEFINE n == call[t].n
           i == loc[t].i
           u == Unit(n)
           f == call[t].frame
           P == Part(f, n, i - loc[t].j - 1)
<1>1. /\ TypeInv /\ TypeOK /\ OwnAt(t) /\ AtChild(t) /\ pc[t] = "unmark"
      /\ UNCHANGED <<children, call, clients, system>>
      /\ i \in 1 .. Parts(n) - 1 /\ loc[t].j = 0 /\ own[t] = Block(f, i * u)
  <2>1. TypeInv /\ TypeOK /\ OwnAt(t) /\ AtChild(t) /\ pc[t] = "unmark"
    BY Now DEF UndoToggle, At, UndoOf
  <2> QED BY <2>1 DEF OwnAt, UndoToggle
<1>2. pc[t] \in InChild /\ pc[t] \in InPart
  BY <1>1 DEF InChild, InPart
<1>3. InRange(f, n)
  <2>1. call[t].op = "get_at"
    BY <1>1, PhaseNow DEF PhaseAt
  <2> QED BY <1>1, <2>1 DEF OwnAt
<1>4. /\ n \in Nat \ {0} /\ IsSize(n) /\ n <= CHILD_SIZE
      /\ Parts(n) \in Nat \ {0} /\ u \in Nat \ {0} /\ i \in Nat /\ f \in Int /\ f % n = 0
  BY <1>3, About DEF InRange
<1>5. own[t] \subseteq bits
  BY <1>2, OwnBits
<1>b. CanToggle(P, FALSE) \/ (Goto(t, "abort") /\ UNCHANGED <<bits, own, loc>>)
  <2>1. Target(t, "mark").f = f /\ Target(t, "mark").n = n /\ Expected("mark") = FALSE
    BY DEF Target, Expected
  <2> HIDE DEF n, f
  <2> QED BY <2>1 DEF UndoToggle, i
<1>6. ~CanToggle(P, FALSE)
  <2>1. i - 1 \in 0 .. Parts(n) - 1 /\ i - loc[t].j - 1 = i - 1 /\ i - 1 \in Nat
    BY <1>1, <1>4
  <2>2. P = Block(f + (i - 1) * u, u) /\ P # {}
    BY <1>4, <2>1, PartAt
  <2>3. P \subseteq own[t]
    <3> DEFINE k == i - 1
    <3>1. k \in Nat /\ i = k + 1 /\ u \in Nat
      BY <1>4, <2>1
    <3>2. P = Block(f + k * u, u) /\ own[t] = Block(f, (k + 1) * u)
      BY <1>1, <2>2, <3>1
    <3> HIDE DEF n, i, u, f, P, k
    <3>3. f \in Int
      BY <1>4
    <3>4. Block(f, k * u) \cup Block(f + k * u, u) = Block(f, (k + 1) * u)
      BY <3>1, <3>3, Grow DEF Grown
    <3> QED BY <3>2, <3>4
  <2> HIDE DEF P
  <2> QED BY <1>5, <2>2, <2>3 DEF CanToggle
<1> HIDE DEF P
<1>7. Goto(t, "abort") /\ UNCHANGED <<bits, own, loc>>
  BY <1>b, <1>6
<1>8. Inside(t) /\ pc'[t] = "abort" /\ own'[t] = own[t]
  BY <1>1, <1>7, StepInside, GoesTo
<1> QED BY <1>1, <1>2, <1>7, <1>8, AbortCalm

\* lower_put clears its block row by row.
LEMMA ClearToggleCalm ==
    ASSUME OneHuge, XInv, TypeInv', NEW t \in Threads, Toggle(t, "clear")
    PROVE  Calm(t) /\ Even(t) /\ pc'[t] \in {"clear", "inc"}
<1> DEFINE n == call[t].n
           d == Cur(t)
           i == loc[t].i
           u == Unit(n)
           f == call[t].frame
           P == Part(f, n, i)
<1>1. /\ TypeInv /\ TypeOK /\ OwnAt(t) /\ AtChild(t) /\ pc[t] = "clear"
      /\ UNCHANGED <<children, call, clients, system>>
      /\ i \in 0 .. Parts(n) - 1 /\ own[t] = Block(f + i * u, n - i * u)
  <2>1. TypeInv /\ TypeOK /\ OwnAt(t) /\ AtChild(t) /\ pc[t] = "clear"
    BY Now DEF Toggle, At
  <2> QED BY <2>1 DEF OwnAt, Toggle
<1>2. /\ pc[t] \in InChild /\ pc[t] \in InPart
      /\ d \in 0 .. ChildCount - 1 /\ d \in Int /\ ~children[d].huge
      /\ own[t] \subseteq ChildFrames(d)
  BY <1>1, ChildRanges DEF InChild, InPart, AtChild
<1>3. call[t].op = "put" /\ InRange(f, n) /\ d = ChildOf(f)
  <2>1. call[t].op = "put"
    BY <1>1, PhaseNow DEF PhaseAt
  <2> QED BY <1>1, <2>1 DEF OwnAt, Cur
<1>4. /\ n \in Nat \ {0} /\ IsSize(n) /\ n <= CHILD_SIZE /\ loc[t] \in LocType
      /\ Parts(n) \in Nat \ {0} /\ u \in Nat \ {0} /\ i \in Nat /\ f \in Frames /\ f \in Int
      /\ Parts(n) * u = n
  BY About
<1>5. f % n = 0
  BY <1>3 DEF InRange
<1>a. own[t] \subseteq bits
  BY <1>2, OwnBits
<1>b. \/ /\ CanToggle(P, TRUE) /\ bits' = Toggled(P, TRUE)
         /\ own' = [own EXCEPT ![t] = @ \ P]
         /\ \/ i + 1 = Parts(n) /\ Goto(t, "inc") /\ SetLoc(t, [NoLoc EXCEPT !.f = f])
            \/ i + 1 # Parts(n) /\ SetLoc(t, [loc[t] EXCEPT !.i = @ + 1]) /\ UNCHANGED pc
      \/ ~CanToggle(P, TRUE)
  <2>1. Target(t, "clear").f = f /\ Target(t, "clear").n = n
    BY DEF Target
  <2>2. /\ Expected("clear") = TRUE /\ AfterToggle("clear") = "inc"
        /\ OwnAfter(t, P, "clear", TRUE) = [own EXCEPT ![t] = @ \ P]
    BY DEF Expected, AfterToggle, OwnAfter
  <2> HIDE DEF n, i, f
  <2> QED BY <2>1, <2>2 DEF Toggle, i
<1> HIDE DEF n, d, i, u, f
<1>6. P = Block(f + i * u, u) /\ i * u \in Nat /\ (i + 1) * u = i * u + u /\ n - (i + 1) * u \in Nat
  BY <1>1, <1>3, <1>4, <1>5, PartIs DEF u
<1> HIDE DEF P
<1>7. P \subseteq own[t] /\ own[t] \ P = Block(f + (i + 1) * u, n - (i + 1) * u)
  <2> DEFINE w == i * u
             x == (i + 1) * u
  <2>1. w \in Nat /\ x = w + u /\ n - x \in Nat /\ P = Block(f + w, u)
           /\ own[t] = Block(f + w, n - w)
    BY <1>1, <1>6
  <2> HIDE DEF w, x
  <2>2. Block(f + w, u) \cup Block(f + w + u, n - x) = Block(f + w, u + (n - x))
           /\ Block(f + w, u) \cap Block(f + w + u, n - x) = {}
    <3>1. f + w \in Int /\ u \in Nat
      BY <1>4, <2>1
    <3> QED BY <2>1, <3>1, Blocks
  <2>3. u + (n - x) = n - w /\ f + w + u = f + x
    BY <1>4, <2>1
  <2>4. P \subseteq own[t] /\ own[t] \ P = Block(f + x, n - x)
    BY <2>1, <2>2, <2>3
  <2> QED BY <2>4 DEF x
<1>8. /\ bits' = bits \ P /\ own'[t] = own[t] \ P /\ own' = [own EXCEPT ![t] = @ \ P]
      /\ own'[t] = Block(f + (i + 1) * u, n - (i + 1) * u)
      /\ \/ i + 1 = Parts(n) /\ Goto(t, "inc") /\ SetLoc(t, [NoLoc EXCEPT !.f = f])
         \/ i + 1 # Parts(n) /\ SetLoc(t, [loc[t] EXCEPT !.i = @ + 1]) /\ UNCHANGED pc
  <2>1. CanToggle(P, TRUE)
    BY <1>7, <1>a DEF CanToggle
  <2>2. bits' = Toggled(P, TRUE) /\ own' = [own EXCEPT ![t] = @ \ P]
    BY <1>b, <2>1
  <2>3. own'[t] = own[t] \ P
    BY <1>1, <2>2, SetsOwn
  <2> QED BY <1>7, <1>b, <2>1, <2>2, <2>3 DEF Toggled
<1>9. ASSUME OwnAt(t)', pc'[t] \in {"clear", "inc"}, Inside(t)
      PROVE  Calm(t) /\ Even(t) /\ pc'[t] \in {"clear", "inc"}
  <2>1. Cur(t)' = d /\ call'[t] = call[t]
    BY <1>1, <1>3, CurStays DEF d
  <2>2. AtChild(t)'
    BY <1>1, <1>2, <1>8, <2>1 DEF AtChild
  <2>3. SplitAt(t)' /\ pc'[t] \in InPart
    BY <1>9 DEF SplitAt, InPart, InChild
  <2>4. \A c \in Children : Weight(t, c)' = Weight(t, c)
    BY <1>1, <1>2, <1>9, <2>1, <2>2, <2>3, SameWeight DEF d
  <2> QED BY <1>1, <1>2, <1>7, <1>8, <1>9, <2>2, <2>3, <2>4, DropCalm
<1>10. CASE i + 1 = Parts(n) /\ Goto(t, "inc") /\ SetLoc(t, [NoLoc EXCEPT !.f = f])
  <2>1. Inside(t) /\ pc'[t] = "inc"
    BY <1>1, <1>8, <1>10, StepInside, GoesTo
  <2>2. own'[t] = {}
    <3>1. n - (i + 1) * u = 0 /\ f + (i + 1) * u \in Int
      BY <1>4, <1>10
    <3>2. Block(f + (i + 1) * u, 0) = {}
      BY <3>1, Blocks
    <3> QED BY <1>8, <3>1, <3>2
  <2>3. OwnAt(t)'
    BY <1>1, <1>3, <2>1, <2>2 DEF OwnAt, Splitting, n, f
  <2>4. Calm(t) /\ Even(t) /\ pc'[t] \in {"clear", "inc"}
    BY <1>9, <2>1, <2>3
  <2> QED BY <2>4
<1>11. CASE i + 1 # Parts(n) /\ SetLoc(t, [loc[t] EXCEPT !.i = @ + 1]) /\ UNCHANGED pc
  <2>1. Inside(t) /\ pc'[t] = "clear"
    BY <1>1, <1>8, <1>11, StepInside
  <2>2. loc'[t].i = i + 1
    <3>1. loc'[t] = [loc[t] EXCEPT !.i = @ + 1]
      BY <1>1, <1>11, SetsLoc
    <3> QED BY <1>1, <1>4, <3>1, Counters DEF i
  <2>3. OwnAt(t)'
    <3>1. i + 1 \in 0 .. Parts(n) - 1
      BY <1>1, <1>4, <1>11
    <3> QED BY <1>1, <1>3, <1>8, <2>1, <2>2, <3>1 DEF OwnAt, Splitting, n, f, u
  <2>4. Calm(t) /\ Even(t) /\ pc'[t] \in {"clear", "inc"}
    BY <1>9, <2>1, <2>3
  <2> QED BY <2>4
<1> QED BY <1>8, <1>10, <1>11

\* A huge page is a block that consists of rows.
LEMMA HugeSized ==
    /\ CHILD_SIZE \in Nat \ {0} /\ IsSize(CHILD_SIZE) /\ CHILD_SIZE <= CHILD_SIZE
    /\ Unit(CHILD_SIZE) \in Nat /\ Parts(CHILD_SIZE) \in Nat \ {0}
<1>1. /\ 1 \in 1 .. TREE_CHILDREN /\ TREE_CHILDREN % 1 = 0 /\ CHILD_SIZE = 1 * CHILD_SIZE
      /\ CHILD_SIZE \in Nat \ {0}
  BY ChildSizePositive
<1>2. IsSize(CHILD_SIZE)
  BY <1>1, Zenon DEF IsSize
<1> QED BY <1>1, <1>2, Sized

\* The rows of a huge page, one after the other.
LEMMA SplitRows ==
    ASSUME NEW d \in Int, NEW i \in 0 .. Parts(CHILD_SIZE) - 1
    PROVE  LET u == Unit(CHILD_SIZE)
               b == ChildBase(d)
               P == Part(b, CHILD_SIZE, i)
           IN /\ Block(b, i * u) \cup P = Block(b, (i + 1) * u)
              /\ Block(b, i * u) \cap P = {}
              /\ P \subseteq ChildFrames(d)
              /\ Block(b, Parts(CHILD_SIZE) * u) = ChildFrames(d)
<1> DEFINE u == Unit(CHILD_SIZE)
           b == ChildBase(d)
           P == Part(b, CHILD_SIZE, i)
<1>1. /\ CHILD_SIZE \in Nat \ {0} /\ IsSize(CHILD_SIZE) /\ b \in Int /\ b % CHILD_SIZE = 0
      /\ u \in Nat /\ Parts(CHILD_SIZE) \in Nat \ {0} /\ b = d * CHILD_SIZE /\ i \in Nat
  <2>1. \A e \in Int : \A s \in Nat \ {0} : e * s \in Int /\ (e * s) % s = 0
    OBVIOUS
  <2>2. b = d * CHILD_SIZE
    BY HugeSized DEF ChildBase
  <2>3. b \in Int /\ b % CHILD_SIZE = 0
    BY <2>1, <2>2, HugeSized
  <2> QED BY <2>2, <2>3, HugeSized
<1>2. P = Block(b + i * u, u) /\ P \subseteq ChildFrames(ChildOf(b))
  <2>1. b \in Int /\ b % CHILD_SIZE = 0
    BY <1>1
  <2> HIDE DEF b
  <2>2. /\ Part(b, CHILD_SIZE, i) = Block(b + i * Unit(CHILD_SIZE), Unit(CHILD_SIZE))
        /\ Part(b, CHILD_SIZE, i) \subseteq ChildFrames(ChildOf(b))
    BY <2>1, HugeSized, PartAt
  <2> QED BY <2>2
<1> HIDE DEF u, P, b
<1>3. i * u \in Nat
  BY <1>1
<1>4. Block(b, i * u) \cap P = {}
  BY <1>1, <1>2, <1>3, Blocks
<1>5. Block(b, i * u) \cup P = Block(b, (i + 1) * u)
  BY <1>1, <1>2, Grow DEF Grown
<1>6. Block(b, Parts(CHILD_SIZE) * u) = ChildFrames(d)
  BY <1>1, HugeSized, LastPart DEF u, b, ChildFrames
<1>7. ChildOf(b) = d
  <2>1. b \in ChildFrames(d)
    BY <1>1 DEF ChildFrames, Block, b
  <2> QED BY <1>1, <2>1, FramesOfChild
<1> QED BY <1>2, <1>4, <1>5, <1>6, <1>7 DEF u, b, P

\* A split is at row i of child d: it marks the row, or finds a bit set there.
SplitsRow(t, d, i) ==
    LET P == Part(ChildBase(d), CHILD_SIZE, i) IN
    /\ d = Cur(t) /\ Cur(t)' = d /\ i = loc[t].i
    /\ pc[t] = "split" /\ call[t].op = "put"
    /\ Inside(t) /\ children' = children /\ own' = own
    /\ \/ /\ P \cap bits = {} /\ bits' = bits \cup P
          /\ pc'[t] = IF i + 1 = Parts(CHILD_SIZE) THEN "split_cas" ELSE "split"
          /\ i + 1 # Parts(CHILD_SIZE) => loc'[t].i = i + 1
       \/ P \cap bits # {} /\ bits' = bits /\ pc'[t] \in {"wait", "unsplit"}

LEMMA SplitToggles ==
    ASSUME OneHuge, XInv, NEW t \in Threads, Toggle(t, "split")
    PROVE  \E d \in 0 .. ChildCount - 1, i \in 0 .. Parts(CHILD_SIZE) - 1 : SplitsRow(t, d, i)
<1> DEFINE P == Part(ChildBase(Cur(t)), CHILD_SIZE, loc[t].i)
<1>1. /\ TypeInv /\ TypeOK /\ OwnAt(t) /\ AtChild(t) /\ pc[t] = "split"
      /\ UNCHANGED <<children, call, clients, system>>
  BY Now DEF Toggle, At
<1>2. loc[t].i \in 0 .. Parts(CHILD_SIZE) - 1 /\ Cur(t) \in 0 .. ChildCount - 1
  BY <1>1 DEF OwnAt, AtChild, Splitting, InPart
<1>3. call[t].op = "put" /\ loc[t] \in LocType
  <2>1. call[t].op = "put"
    BY <1>1, PhaseNow DEF PhaseAt
  <2> QED BY <1>1, <2>1 DEF TypeOK
<1>4. \/ /\ P \cap bits = {} /\ bits' = bits \cup P /\ own' = own
         /\ \/ /\ loc[t].i + 1 = Parts(CHILD_SIZE) /\ Goto(t, "split_cas")
               /\ SetLoc(t, [NoLoc EXCEPT !.f = ChildBase(Cur(t))])
            \/ /\ loc[t].i + 1 # Parts(CHILD_SIZE) /\ SetLoc(t, [loc[t] EXCEPT !.i = @ + 1])
               /\ UNCHANGED pc
      \/ /\ P \cap bits # {} /\ UNCHANGED <<bits, own, loc>>
         /\ Goto(t, "wait") \/ Goto(t, "unsplit")
  <2>1. Target(t, "split").f = ChildBase(Cur(t)) /\ Target(t, "split").n = CHILD_SIZE
    BY DEF Target
  <2>2. /\ Expected("split") = FALSE /\ AfterToggle("split") = "split_cas"
        /\ AfterFailure("split") = "wait" /\ UndoOf("split") = "unsplit"
        /\ OwnAfter(t, P, "split", FALSE) = own /\ Toggled(P, FALSE) = bits \cup P
        /\ CanToggle(P, FALSE) <=> P \cap bits = {}
    <3>1. own = [own EXCEPT ![t] = own[t]]
      BY <1>1 DEF TypeOK
    <3> QED BY <3>1 DEF Expected, AfterToggle, AfterFailure, UndoOf, OwnAfter, Toggled,
                        CanToggle
  <2> QED BY <2>1, <2>2 DEF Toggle
<1>5. Cur(t)' = Cur(t)
  BY <1>1, <1>3, CurStays
<1>6. Inside(t) /\ own' = own
  BY <1>1, <1>4, StepInside
<1>7. ASSUME SetLoc(t, [loc[t] EXCEPT !.i = @ + 1]) PROVE loc'[t].i = loc[t].i + 1
  <2>1. loc'[t] = [loc[t] EXCEPT !.i = @ + 1]
    BY <1>1, <1>7, SetsLoc
  <2> QED BY <1>3, <2>1, Counters
<1>8. \/ /\ P \cap bits = {} /\ bits' = bits \cup P
         /\ pc'[t] = IF loc[t].i + 1 = Parts(CHILD_SIZE) THEN "split_cas" ELSE "split"
         /\ loc[t].i + 1 # Parts(CHILD_SIZE) => loc'[t].i = loc[t].i + 1
      \/ P \cap bits # {} /\ bits' = bits /\ pc'[t] \in {"wait", "unsplit"}
  BY <1>1, <1>4, <1>7, GoesTo
<1>9. SplitsRow(t, Cur(t), loc[t].i)
  BY <1>1, <1>3, <1>5, <1>6, <1>8 DEF SplitsRow
<1> QED BY <1>2, <1>9

\* A split marks the rows of its huge page one by one.
LEMMA SplitToggleCalm ==
    ASSUME OneHuge, XInv, TypeInv', NEW t \in Threads, Toggle(t, "split")
    PROVE  Calm(t) /\ Even(t)
<1> DEFINE u == Unit(CHILD_SIZE)
<1>p. PICK d \in 0 .. ChildCount - 1, i \in 0 .. Parts(CHILD_SIZE) - 1 : SplitsRow(t, d, i)
  BY SplitToggles
<1> DEFINE P == Part(ChildBase(d), CHILD_SIZE, i)
<1>1. /\ d = Cur(t) /\ Cur(t)' = d /\ i = loc[t].i
      /\ pc[t] = "split" /\ call[t].op = "put"
      /\ Inside(t) /\ children' = children /\ own' = own
      /\ \/ /\ P \cap bits = {} /\ bits' = bits \cup P
            /\ pc'[t] = IF i + 1 = Parts(CHILD_SIZE) THEN "split_cas" ELSE "split"
            /\ i + 1 # Parts(CHILD_SIZE) => loc'[t].i = i + 1
         \/ P \cap bits # {} /\ bits' = bits /\ pc'[t] \in {"wait", "unsplit"}
  BY <1>p DEF SplitsRow
<1>2. /\ OwnAt(t) /\ AtChild(t) /\ SplitAt(t) /\ d \in Int /\ call' = call
      /\ own[t] = Block(call[t].frame, call[t].n) /\ InRange(call[t].frame, call[t].n)
      /\ pc'[t] \in Splitting /\ pc[t] \in InPart
  <2>1. OwnAt(t) /\ AtChild(t) /\ SplitAt(t)
    BY Now
  <2>2. pc'[t] \in Splitting
    BY <1>1 DEF Splitting
  <2> QED BY <1>1, <2>1, <2>2, ChildRanges DEF OwnAt, Splitting, InPart, Inside
<1>3. /\ Block(ChildBase(d), i * u) \cup P = Block(ChildBase(d), (i + 1) * u)
      /\ Block(ChildBase(d), Parts(CHILD_SIZE) * u) = ChildFrames(d)
  BY <1>1, <1>2, SplitRows
<1>4. children[d].huge => Block(ChildBase(d), i * u) \subseteq bits
  BY <1>1, <1>2 DEF SplitAt
<1> HIDE DEF u, P
<1>5. pc'[t] = "split" => i + 1 \in 0 .. Parts(CHILD_SIZE) - 1 /\ loc'[t].i = i + 1
  <2>1. pc'[t] = "split" => i + 1 # Parts(CHILD_SIZE) /\ loc'[t].i = i + 1
    BY <1>1
  <2> QED BY <2>1, HugeSized
<1>6. SplitAt(t)'
  <2>1. pc'[t] = "split" => bits' = bits \cup P
    BY <1>1
  <2>2. pc'[t] = "split_cas" => bits' = bits \cup P /\ i + 1 = Parts(CHILD_SIZE)
    BY <1>1
  <2>3. children[d].huge /\ pc'[t] = "split" => Block(ChildBase(d), (i + 1) * u) \subseteq bits'
    BY <1>3, <1>4, <2>1
  <2>4. children[d].huge /\ pc'[t] = "split_cas" => ChildFrames(d) \subseteq bits'
    BY <1>3, <1>4, <2>2
  <2> QED BY <1>1, <1>5, <2>3, <2>4 DEF SplitAt, u
<1>7. OwnAt(t)'
  BY <1>1, <1>2, <1>5 DEF OwnAt, Splitting
<1>8. AtChild(t)'
  BY <1>1, <1>2 DEF AtChild, Splitting, InChild
<1>9. pc'[t] \in InPart /\ bits \subseteq bits' /\ own'[t] = own[t]
  BY <1>1, <1>2 DEF InPart
<1> QED BY <1>1, <1>2, <1>6, <1>7, <1>8, <1>9, MarkCalm

\* The undo of a split sets bits again, or aborts.
LEMMA UndoSplitCalm ==
    ASSUME OneHuge, XInv, TypeInv', NEW t \in Threads, UndoToggle(t, "split")
    PROVE  Calm(t) /\ (pc'[t] = "abort" \/ Even(t))
<1> DEFINE P == Part(Target(t, "split").f, Target(t, "split").n, loc[t].i - loc[t].j - 1)
<1>1. /\ TypeInv /\ TypeOK /\ OwnAt(t) /\ AtChild(t) /\ pc[t] = "unsplit"
      /\ UNCHANGED <<children, call, clients, system>>
      /\ own[t] = Block(call[t].frame, call[t].n)
  <2>1. TypeInv /\ TypeOK /\ OwnAt(t) /\ AtChild(t) /\ pc[t] = "unsplit"
    BY Now DEF UndoToggle, At, UndoOf
  <2> QED BY <2>1 DEF OwnAt, Splitting, UndoToggle
<1>2. /\ pc[t] \in InPart /\ Cur(t) \in 0 .. ChildCount - 1
      /\ own[t] \subseteq ChildFrames(Cur(t))
  BY <1>1 DEF Splitting, InPart, AtChild
<1>3. call[t].op = "put" /\ InRange(call[t].frame, call[t].n)
  <2>1. call[t].op = "put"
    BY <1>1, PhaseNow DEF PhaseAt
  <2> QED BY <1>1, <2>1 DEF OwnAt
<1>b. \/ /\ bits' = bits \cup P /\ UNCHANGED own
         /\ \/ Goto(t, "wait") /\ SetLoc(t, NoLoc)
            \/ SetLoc(t, [loc[t] EXCEPT !.j = @ + 1]) /\ UNCHANGED pc
      \/ UNCHANGED <<bits, own, loc>> /\ Goto(t, "abort")
  <2>1. /\ Expected("split") = FALSE /\ AfterFailure("split") = "wait"
        /\ OwnAfter(t, P, "split", FALSE) = own /\ Toggled(P, FALSE) = bits \cup P
    <3>1. own = [own EXCEPT ![t] = own[t]]
      BY <1>1 DEF TypeOK
    <3> QED BY <3>1 DEF Expected, AfterFailure, OwnAfter, Toggled
  <2> QED BY <2>1 DEF UndoToggle
<1> HIDE DEF P
<1>4. Cur(t)' = Cur(t) /\ call'[t] = call[t]
  BY <1>1, <1>3, CurStays
<1>5. CASE /\ bits' = bits \cup P /\ UNCHANGED own
           /\ \/ Goto(t, "wait") /\ SetLoc(t, NoLoc)
              \/ SetLoc(t, [loc[t] EXCEPT !.j = @ + 1]) /\ UNCHANGED pc
  <2>1. Inside(t) /\ pc'[t] \in {"wait", "unsplit"}
    BY <1>1, <1>5, StepInside, GoesTo
  <2>2. OwnAt(t)'
    BY <1>1, <1>3, <1>4, <1>5, <2>1 DEF OwnAt, Splitting
  <2>3. AtChild(t)' /\ SplitAt(t)' /\ pc'[t] \in InPart
    BY <1>2, <1>4, <1>5, <2>1 DEF AtChild, SplitAt, InPart, InChild, Splitting
  <2>4. own'[t] = own[t] /\ bits \subseteq bits'
    BY <1>5
  <2>5. Calm(t) /\ Even(t)
    BY <1>1, <1>2, <1>4, <2>1, <2>2, <2>3, <2>4, MarkCalm
  <2> QED BY <2>5
<1>6. CASE UNCHANGED <<bits, own, loc>> /\ Goto(t, "abort")
  <2>1. Inside(t) /\ pc'[t] = "abort" /\ own'[t] = own[t]
    BY <1>1, <1>6, StepInside, GoesTo
  <2>2. Calm(t)
    BY <1>1, <1>2, <1>6, <2>1, AbortCalm
  <2> QED BY <2>1, <2>2
<1> QED BY <1>b, <1>5, <1>6

-----------------------------------------------------------------------------
(* lower_put below a huge page. *)

LEMMA LoadCalm ==
    ASSUME OneHuge, XInv, TypeInv', NEW t \in Threads, Load(t)
    PROVE  Calm(t) /\ Even(t)
<1> DEFINE n == call[t].n
           f == call[t].frame
<1>1. /\ TypeInv /\ TypeOK /\ OwnAt(t) /\ AtChild(t) /\ pc[t] = "load"
      /\ UNCHANGED <<bits, children, loc, own, call, clients, system>>
      /\ own[t] = Block(f, n) /\ loc[t].i = 0
      /\ Goto(t, IF children[Cur(t)].huge THEN "split" ELSE "clear")
  <2>1. TypeInv /\ TypeOK /\ OwnAt(t) /\ AtChild(t) /\ pc[t] = "load"
    BY Now DEF Load, At
  <2> QED BY <2>1 DEF OwnAt, Load, memory
<1>2. /\ pc[t] \in InPart /\ Cur(t) \in 0 .. ChildCount - 1 /\ Cur(t) \in Int
      /\ own[t] \subseteq ChildFrames(Cur(t))
  BY <1>1, ChildRanges DEF InPart, AtChild
<1>3. call[t].op = "put" /\ InRange(f, n)
  <2>1. call[t].op = "put"
    BY <1>1, PhaseNow DEF PhaseAt
  <2> QED BY <1>1, <2>1 DEF OwnAt
<1>4. /\ n \in Nat \ {0} /\ Parts(n) \in Nat \ {0} /\ Unit(n) \in Nat /\ f \in Int
      /\ CHILD_SIZE \in Nat \ {0} /\ ChildBase(Cur(t)) \in Int
      /\ Unit(CHILD_SIZE) \in Nat /\ Parts(CHILD_SIZE) \in Nat \ {0}
  <2>1. 1 \in 1 .. TREE_CHILDREN /\ TREE_CHILDREN % 1 = 0 /\ CHILD_SIZE = 1 * CHILD_SIZE
    BY ChildSizePositive
  <2>2. IsSize(CHILD_SIZE)
    BY <2>1, Zenon DEF IsSize
  <2>3. Unit(CHILD_SIZE) \in Nat /\ Parts(CHILD_SIZE) \in Nat \ {0}
    BY <2>2, ChildSizePositive, Sized
  <2> QED BY <1>2, <2>3, About, ChildSizePositive DEF ChildBase
<1>5. /\ Inside(t) /\ own'[t] = own[t] /\ Cur(t)' = Cur(t) /\ call'[t] = call[t]
      /\ loc'[t] = loc[t] /\ pc'[t] = IF children[Cur(t)].huge THEN "split" ELSE "clear"
  BY <1>1, StepInside, GoesTo, CurStays
<1> HIDE DEF n, f
<1>6. OwnAt(t)'
  <2>1. /\ 0 \in 0 .. Parts(n) - 1 /\ 0 \in 0 .. Parts(CHILD_SIZE) - 1
        /\ f + 0 * Unit(n) = f /\ n - 0 * Unit(n) = n
    BY <1>4
  <2>2. own'[t] = Block(f + 0 * Unit(n), n - 0 * Unit(n))
    BY <1>1, <1>5, <2>1
  <2> QED BY <1>1, <1>3, <1>5, <2>1, <2>2 DEF OwnAt, Splitting, n, f
<1>7. AtChild(t)'
  BY <1>1, <1>2, <1>5 DEF AtChild, InChild
<1>8. SplitAt(t)'
  <2>1. Block(ChildBase(Cur(t)), 0 * Unit(CHILD_SIZE)) = {}
    BY <1>4, Grow DEF Grown
  <2> QED BY <1>1, <1>5, <2>1 DEF SplitAt
<1>9. pc'[t] \in InPart
  BY <1>5 DEF InPart, InChild, Splitting
<1> QED BY <1>1, <1>2, <1>5, <1>6, <1>7, <1>8, <1>9, QuietPart

LEMMA SplitWaitCalm ==
    ASSUME OneHuge, XInv, TypeInv', NEW t \in Threads, SplitWait(t)
    PROVE  Calm(t) /\ Even(t)
<1> DEFINE n == call[t].n
           f == call[t].frame
<1>1. /\ TypeInv /\ TypeOK /\ OwnAt(t) /\ AtChild(t) /\ pc[t] = "wait"
      /\ UNCHANGED <<bits, children, own, call, clients, system>>
      /\ own[t] = Block(f, n)
  <2>1. TypeInv /\ TypeOK /\ OwnAt(t) /\ AtChild(t) /\ pc[t] = "wait"
    BY Now DEF SplitWait, At
  <2> QED BY <2>1 DEF OwnAt, Splitting, SplitWait, memory
<1>2. /\ pc[t] \in InPart /\ Cur(t) \in 0 .. ChildCount - 1 /\ Cur(t) \in Int
      /\ own[t] \subseteq ChildFrames(Cur(t))
  BY <1>1, ChildRanges DEF InPart, AtChild, Splitting
<1>3. call[t].op = "put" /\ InRange(f, n)
  <2>1. call[t].op = "put"
    BY <1>1, PhaseNow DEF PhaseAt
  <2> QED BY <1>1, <2>1 DEF OwnAt
<1>4. /\ n \in Nat \ {0} /\ Parts(n) \in Nat \ {0} /\ Unit(n) \in Nat /\ f \in Int
  BY About
<1>5. /\ Cur(t)' = Cur(t) /\ call'[t] = call[t] /\ own'[t] = own[t]
  BY <1>1, <1>3, CurStays
<1>6. CASE ~children[Cur(t)].huge
  <2>1. Goto(t, "clear") /\ SetLoc(t, NoLoc)
    BY <1>6 DEF SplitWait
  <2>2. Inside(t)
    BY <1>1, <2>1, StepInside
  <2>3. pc'[t] = "clear" /\ loc'[t] = NoLoc
    BY <1>1, <2>1, GoesTo, SetsLoc
  <2>4. loc'[t].i = 0
    BY <2>3, Counters
  <2> HIDE DEF n, f
  <2>5. OwnAt(t)'
    <3>1. /\ 0 \in 0 .. Parts(n) - 1 /\ f + 0 * Unit(n) = f /\ n - 0 * Unit(n) = n
      BY <1>4
    <3>2. own'[t] = Block(f + 0 * Unit(n), n - 0 * Unit(n))
      BY <1>1, <3>1
    <3> QED BY <1>3, <1>5, <2>3, <2>4, <3>1, <3>2 DEF OwnAt, Splitting, n, f
  <2>6. AtChild(t)' /\ SplitAt(t)' /\ pc'[t] \in InPart
    BY <1>1, <1>2, <1>5, <1>6, <2>3 DEF AtChild, SplitAt, InPart, InChild
  <2>7. Calm(t) /\ Even(t)
    BY <1>1, <1>2, <1>5, <2>2, <2>5, <2>6, QuietPart
  <2> QED BY <2>7
<1>7. CASE Goto(t, "memory") /\ SetLoc(t, NoLoc)
  <2>1. Inside(t) /\ pc'[t] = "memory"
    BY <1>1, <1>7, StepInside, GoesTo
  <2>2. OwnAt(t)'
    BY <1>1, <1>3, <1>5, <2>1 DEF OwnAt, Splitting
  <2>3. AtChild(t)' /\ SplitAt(t)' /\ pc'[t] \notin InChild
    BY <2>1 DEF AtChild, SplitAt, InPart, InChild, Splitting
  <2>4. \A c \in Children : Weight(t, c)' = Weight(t, c)
    <3>1. Cardinality(Block(f, n)) = n
      BY <1>4, Blocks
    <3>2. Cardinality(own'[t]) = call[t].n /\ own'[t] \subseteq ChildFrames(Cur(t))
      BY <1>1, <1>2, <3>1
    <3> QED BY <1>2, <2>3, <3>2, EndWeight
  <2>5. Calm(t) /\ Even(t)
    BY <1>1, <1>5, <2>1, <2>2, <2>3, <2>4, EvenQuiet
  <2> QED BY <2>5
<1>8. CASE SetLoc(t, [loc[t] EXCEPT !.j = @ + 1]) /\ UNCHANGED pc
  <2>1. Inside(t) /\ pc'[t] = "wait"
    BY <1>1, <1>8, StepInside
  <2>2. OwnAt(t)'
    BY <1>1, <1>3, <1>5, <2>1 DEF OwnAt, Splitting
  <2>3. AtChild(t)' /\ SplitAt(t)' /\ pc'[t] \in InPart
    BY <1>1, <1>2, <1>5, <2>1 DEF AtChild, SplitAt, InPart, InChild, Splitting
  <2>4. Calm(t) /\ Even(t)
    BY <1>1, <1>2, <1>5, <2>1, <2>2, <2>3, QuietPart
  <2> QED BY <2>4
<1> QED BY <1>6, <1>7, <1>8 DEF SplitWait

LEMMA ChildIncCalm ==
    ASSUME OneHuge, XInv, TypeInv', NEW t \in Threads, ChildInc(t)
    PROVE  Calm(t) /\ (pc'[t] = "abort" \/ Even(t))
<1> DEFINE n == call[t].n
           d == Cur(t)
<1>1. /\ TypeInv /\ TypeOK /\ OwnAt(t) /\ AtChild(t) /\ pc[t] = "inc" /\ own[t] = {}
      /\ UNCHANGED <<bits, call, loc, own, clients, system>>
  <2>1. TypeInv /\ TypeOK /\ OwnAt(t) /\ AtChild(t) /\ pc[t] = "inc"
    BY Now DEF ChildInc, At
  <2> QED BY <2>1 DEF OwnAt, ChildInc
<1>2. pc[t] \in InChild /\ pc[t] \in InPart
  BY <1>1 DEF InChild, InPart
<1>3. call[t].op = "put" /\ InRange(call[t].frame, call[t].n)
  <2>1. call[t].op = "put"
    BY <1>1, PhaseNow DEF PhaseAt
  <2> QED BY <1>1, <2>1 DEF OwnAt
<1>4. CASE ~CanInc(d, n)
  <2>1. Goto(t, "abort") /\ UNCHANGED children
    BY <1>4 DEF ChildInc
  <2>2. Inside(t) /\ pc'[t] = "abort" /\ own'[t] = own[t]
    BY <1>1, <2>1, GoesTo, StepInside
  <2>3. Calm(t)
    BY <1>1, <1>2, <2>1, <2>2, AbortCalm
  <2> QED BY <2>2, <2>3
<1>5. CASE CanInc(d, n)
  <2>1. children' = AddFree(d, n) /\ Goto(t, "ok")
    BY <1>5 DEF ChildInc
  <2>2. Inside(t) /\ pc'[t] = "ok" /\ own'[t] = own[t] /\ own'[t] = {} /\ call'[t] = call[t]
    BY <1>1, <2>1, GoesTo, StepInside
  <2>3. n \in Int /\ d \in Children /\ ~children[d].huge
    BY <1>1, <1>2, About, ChildRanges DEF AtChild
  <2>4. \A c \in Children : Weight(t, c) = IF c = d THEN n ELSE 0
    BY <1>1, <1>2, PartWeight, ChildRanges
  <2>5. \A c \in Children : Weight(t, c)' = 0
    BY <2>2, NoWeight DEF InChild
  <2>6. \A c \in Children : Weight(t, c)' = Weight(t, c) - (IF c = d THEN n ELSE 0)
    BY <2>3, <2>4, <2>5
  <2>7. OwnAt(t)'
    BY <1>3, <2>2 DEF OwnAt, Splitting
  <2>8. AtChild(t)' /\ SplitAt(t)'
    BY <2>2 DEF AtChild, SplitAt, InPart, InChild, Splitting
  <2>9. Calm(t) /\ Even(t)
    BY <1>1, <2>1, <2>2, <2>3, <2>6, <2>7, <2>8, CounterCalm
  <2> QED BY <2>9
<1> QED BY <1>4, <1>5

\* split_huge's last step when the entry is not that of a huge page.
LEMMA SplitCasFails ==
    ASSUME OneHuge, XInv, TypeInv', NEW t \in Threads, SplitCas(t),
           children[Cur(t)] # HugeChild
    PROVE  Calm(t) /\ pc'[t] = "abort"
<1>1. /\ TypeOK /\ pc[t] = "split_cas" /\ Goto(t, "abort")
      /\ UNCHANGED <<children, loc, bits, call, own, clients, system>>
  BY Now DEF SplitCas, At
<1>2. Inside(t) /\ pc'[t] = "abort" /\ own'[t] = own[t] /\ pc[t] \in InPart
  BY <1>1, GoesTo, StepInside DEF InPart, Splitting
<1> QED BY <1>1, <1>2, AbortCalm

-----------------------------------------------------------------------------
(* Huge pages. *)

\* A call for a huge page is about one child.
LEMMA AtHuge ==
    ASSUME OneHuge, XInv, NEW t \in Threads, pc[t] = "huge"
    PROVE  /\ call[t].n = CHILD_SIZE /\ HNum(call[t].n) = 1 /\ HBase(t) = Cur(t)
           /\ loc[t].i = 0 /\ loc[t].j = 0 /\ Cur(t) \in Children /\ Cur(t) \in Int
           /\ own[t] = IF call[t].op = "put" THEN Block(call[t].frame, call[t].n) ELSE {}
           /\ call[t].op # "get" => InRange(call[t].frame, call[t].n)
<1>1. /\ call[t].n = CHILD_SIZE /\ loc[t].i = 0 /\ loc[t].j = 0
      /\ own[t] = IF call[t].op = "put" THEN Block(call[t].frame, call[t].n) ELSE {}
      /\ call[t].op # "get" => InRange(call[t].frame, call[t].n)
  BY Now DEF OwnAt
<1>2. CHILD_SIZE \div CHILD_SIZE = 1
  BY ChildSizePositive
<1>3. HNum(call[t].n) = 1
  BY <1>1, <1>2 DEF HNum
<1>4. call[t].frame \in Frames /\ loc[t].k \in Nat
  BY Now, CallSize
<1>5. ChildOf(call[t].frame) \div 1 = ChildOf(call[t].frame) /\ TREE_CHILDREN \div 1 = TREE_CHILDREN
  BY <1>4, FramePositions
<1>6. Visit(ChildOf(call[t].frame), TREE_CHILDREN, loc[t].k) \in Children
  BY <1>4, VisitChildren
<1>7. HBase(t) = Cur(t)
  <2>1. \A x \in Int : 1 * x = x
    OBVIOUS
  <2> QED BY <1>3, <1>5, <1>6, <2>1, ChildRanges DEF HBase, Cur
<1>8. Cur(t) \in Children /\ Cur(t) \in Int
  BY <1>4, <1>6, VisitChildren, ChildRanges DEF Cur
<1> QED BY <1>1, <1>3, <1>7, <1>8

LEMMA HugeCasFails ==
    ASSUME OneHuge, XInv, TypeInv', NEW t \in Threads, HugeCas(t), children[Cur(t)] # Before(t)
    PROVE  Calm(t) /\ Even(t)
<1>1. /\ TypeOK /\ pc[t] = "huge" /\ UNCHANGED <<bits, call, clients, system>>
  BY Now DEF HugeCas, At
<1>2. /\ call[t].n = CHILD_SIZE /\ HBase(t) + loc[t].i = Cur(t) /\ loc[t].i = 0
      /\ own[t] = IF call[t].op = "put" THEN Block(call[t].frame, call[t].n) ELSE {}
      /\ call[t].op # "get" => InRange(call[t].frame, call[t].n)
  BY <1>1, AtHuge
<1>3. NextHuge(t) /\ UNCHANGED <<children, own>>
  BY <1>2 DEF HugeCas
<1>4. /\ Inside(t) /\ own'[t] = own[t] /\ call'[t] = call[t]
  BY <1>1, <1>3, StepInside DEF NextHuge
<1>5. /\ pc'[t] = IF call[t].op = "get" /\ loc[t].k + 1 < TREE_CHILDREN \div HNum(call[t].n)
                  THEN "huge" ELSE IF call[t].op = "put" THEN "argument" ELSE "memory"
      /\ loc'[t].i = 0 /\ loc'[t].j = 0
  BY <1>1, <1>3, GoesTo, SetsLoc, Counters DEF NextHuge
<1>6. OwnAt(t)'
  BY <1>2, <1>4, <1>5 DEF OwnAt, Splitting
<1>7. AtChild(t)' /\ SplitAt(t)'
  BY <1>5 DEF AtChild, SplitAt, InPart, InChild, Splitting
<1>8. ASSUME NEW c \in Children PROVE Weight(t, c)' = Weight(t, c)
  <2>1. /\ Weight(t, c) = Cardinality(own[t] \cap ChildFrames(c)) + 0
        /\ Weight(t, c)' = Cardinality(own'[t] \cap ChildFrames(c)) + 0
    BY <1>1, <1>5, OtherWeight DEF InChild
  <2> QED BY <1>4, <2>1
<1> QED BY <1>1, <1>3, <1>4, <1>6, <1>7, <1>8, EvenQuiet

-----------------------------------------------------------------------------
(* A child becomes a huge page, or ceases to be one. *)

\* What such a step of t has to show, when it writes e to child d.
FlagChange(t, d, e) ==
    /\ Inside(t) /\ bits' = bits /\ children' = [children EXCEPT ![d] = e]
    /\ own'[t] \subseteq Frames /\ own'[t] \cap Rest(t) = {}
    /\ \A f \in Rest(t) : ChildOf(f) = d => Mark(f)'
    /\ \A f \in own'[t] : Mark(f)'
    /\ OwnAt(t)' /\ AtChild(t)' /\ SplitAt(t)'
    /\ e.huge => \A u \in Threads \ {t} :
          pc[u] \in InChild \cup {"split", "split_cas"} => Cur(u) # d
    /\ \A c \in Children \ {d} : Weight(t, c)' = Weight(t, c)
    /\ ~e.huge => IsFiniteSet(Owing(d)') /\ Sum(d)' <= CHILD_SIZE

LEMMA FlagStep ==
    ASSUME OneHuge, XInv, TypeInv', ~Recovering, NEW t \in Threads,
           NEW d \in 0 .. ChildCount - 1, NEW e, FlagChange(t, d, e)
    PROVE  XInv'
<1>i. /\ TypeInv /\ Exclusive /\ InRangeOwned /\ OwnOK /\ ChildOK /\ Marked
      /\ CountOK /\ BeyondOK
  BY DEF XInv
<1>c. Inside(t) /\ own'[t] \subseteq Frames /\ own'[t] \cap Rest(t) = {} /\ bits' = bits
  BY DEF FlagChange
<1>o. \A u \in Threads \ {t} :
        pc'[u] = pc[u] /\ call'[u] = call[u] /\ loc'[u] = loc[u] /\ own'[u] = own[u]
  BY <1>c DEF Inside, Others
<1>u. \A u \in Threads \ {t} : OwnAt(u)' /\ Cur(u)' = Cur(u)
  BY <1>i, <1>o, OthersStay DEF OwnOK
<1>s. boot' = boot
  BY <1>c DEF Inside, system
<1>d. d \in Children /\ d \in Int
  BY ChildRanges
<1>h. /\ children'[d] = e
      /\ \A c \in Children \ {d} : children'[c] = children[c]
  <2>1. children \in [Children -> ChildType] /\ children' = [children EXCEPT ![d] = e]
    BY <1>i DEF TypeInv, TypeOK, FlagChange
  <2> QED BY <1>d, <2>1
<1>1. Exclusive' /\ InRangeOwned'
  BY <1>i, <1>c, ExclusiveStep
<1>2. OwnOK'
  BY <1>u DEF OwnOK, FlagChange
<1>3. ChildOK'
  <2> SUFFICES ASSUME NEW u \in Threads \ {t} PROVE (AtChild(u) /\ SplitAt(u))'
    BY DEF ChildOK, FlagChange
  <2>1. AtChild(u) /\ SplitAt(u)
    BY <1>i DEF ChildOK
  <2>2. pc[u] \in InPart => Cur(u) \in Children
    BY <2>1, ChildRanges DEF AtChild
  <2>3. CASE Cur(u) # d
    <3>1. pc[u] \in InPart => children'[Cur(u)] = children[Cur(u)]
      BY <2>2, <2>3, <1>h
    <3>2. AtChild(u)'
      BY <2>1, <3>1, <1>o, <1>u DEF AtChild, InPart
    <3>3. SplitAt(u)'
      BY <2>1, <3>1, <1>o, <1>u, <1>c DEF SplitAt, InPart, Splitting
    <3> QED BY <3>2, <3>3
  <2>4. CASE Cur(u) = d
    <3>1. e.huge => pc[u] \notin InChild \cup {"split", "split_cas"}
      BY <2>4 DEF FlagChange
    <3>2. AtChild(u)'
      BY <2>1, <2>4, <3>1, <1>o, <1>u, <1>h DEF AtChild, InPart
    <3>3. SplitAt(u)'
      BY <2>1, <2>4, <3>1, <1>o, <1>u, <1>h DEF SplitAt
    <3> QED BY <3>2, <3>3
  <2> QED BY <2>3, <2>4
<1>4. Marked'
  <2>1. Owned = Rest(t) \cup own[t] /\ Owned' = Rest(t) \cup own'[t]
    BY <1>i, <1>c, OwnedSplit, OwnedAfter
  <2>2. \A f \in Rest(t) : Mark(f) /\ ChildOf(f) \in Children
    BY <1>i, <2>1, OwnedInAll, ChildRanges DEF Marked
  <2>3. \A f \in Rest(t) : Mark(f)'
    <3> SUFFICES ASSUME NEW f \in Rest(t) PROVE Mark(f)'
      OBVIOUS
    <3>1. CASE ChildOf(f) = d
      BY <3>1 DEF FlagChange
    <3>2. CASE ChildOf(f) # d
      BY <2>2, <3>2, <1>c, <1>h DEF Mark
    <3> QED BY <3>1, <3>2
  <2>4. \A f \in own'[t] : Mark(f)'
    BY DEF FlagChange
  <2> QED BY <2>1, <2>3, <2>4 DEF Marked
<1>5. CountOK'
  <2> SUFFICES ASSUME NEW c \in 0 .. boot' - 1, ~children'[c].huge
               PROVE  IsFiniteSet(Owing(c)') /\ Sum(c)' <= CHILD_SIZE
    BY DEF CountOK
  <2>1. c \in 0 .. boot - 1 /\ c \in Children
    BY <1>i, <1>s, ChildRanges DEF TypeInv, TypeOK
  <2>2. CASE c = d
    BY <1>h, <2>2 DEF FlagChange
  <2>3. CASE c # d
    <3>1. children'[c] = children[c] /\ ~children[c].huge
      BY <2>1, <2>3, <1>h
    <3>2. IsFiniteSet(Owing(c)) /\ Sum(c) <= CHILD_SIZE
      BY <1>i, <2>1, <3>1 DEF CountOK
    <3>3. Weight(t, c)' = Weight(t, c)
      BY <2>1, <2>3 DEF FlagChange
    <3>4. /\ IsFiniteSet(Owing(c)') /\ Sum(c) \in Nat /\ Sum(c)' \in Nat
          /\ Weight(t, c) \in Nat /\ Weight(t, c)' \in Nat
          /\ Sum(c)' = Sum(c) - children[c].free - Weight(t, c)
                         + children'[c].free + Weight(t, c)'
      BY <1>i, <1>c, <1>2, <2>1, <3>2, SumStep
    <3>5. children[c].free \in Nat
      BY <1>i, <2>1, ChildSizePositive DEF TypeInv, TypeOK, ChildType
    <3> QED BY <3>1, <3>2, <3>3, <3>4, <3>5
  <2> QED BY <2>2, <2>3
<1>6. BeyondOK'
  <2> SUFFICES ASSUME NEW c \in ChildCount .. ChildSlots - 1 PROVE children'[c] = HugeChild
    BY DEF BeyondOK
  <2>1. c \in Children /\ children[c] = HugeChild /\ c # d
    BY <1>i, ChildRanges DEF BeyondOK
  <2> QED BY <2>1, <1>h
<1>7. RestOK'
  BY <1>s DEF RestOK, Recovering
<1> QED BY <1>1, <1>2, <1>3, <1>4, <1>5, <1>6, <1>7 DEF XInv

\* A huge page has no call that works on its counter.
LEMMA NobodyOwes ==
    ASSUME XInv, NEW c \in Children, children[c].huge
    PROVE  \A u \in Threads : ~(pc[u] \in InChild /\ Cur(u) = c)
BY Now DEF AtChild

\* A child that is counted, and is free, has neither owners nor calls at work.
LEMMA FreeAlone ==
    ASSUME OneHuge, XInv, ~Recovering, NEW c \in 0 .. ChildCount - 1, children[c] = FreeChild
    PROVE  /\ Owned \cap ChildFrames(c) = {}
           /\ \A u \in Threads : pc[u] \in InPart => Cur(u) # c
<1> DEFINE a == DueAt(c)
<1>1. TypeInv /\ OwnOK /\ CountOK /\ c \in Int /\ CHILD_SIZE \in Nat \ {0}
  BY ChildRanges, ChildSizePositive DEF XInv
<1>2. boot = ChildCount
  BY <1>1, ChildRanges DEF Recovering, TypeInv, TypeOK
<1>3. children[c].free = CHILD_SIZE /\ ~children[c].huge
  BY DEF FreeChild, Child
<1>4. IsFiniteSet(Owing(c)) /\ Sum(c) <= CHILD_SIZE
  BY <1>1, <1>2, <1>3 DEF CountOK
<1>5. /\ Cardinality(Owned \cap ChildFrames(c)) \in Nat /\ IsFiniteSet(Owned \cap ChildFrames(c))
      /\ Cardinality(Owing(c)) \in Nat
  BY <1>1, <1>4, ChildFinite, FS_CardinalityType
<1>6. Cardinality(Owned \cap ChildFrames(c)) = 0 /\ Cardinality(Owing(c)) = 0
  BY <1>1, <1>3, <1>4, <1>5 DEF Sum
<1>7. Owned \cap ChildFrames(c) = {}
  BY <1>5, <1>6, FS_EmptySet
<1>8. ASSUME NEW u \in Threads, pc[u] \in InPart, Cur(u) = c PROVE FALSE
  <2>1. Weight(u, c) = call[u].n /\ call[u].n \in Nat \ {0}
    BY <1>1, <1>8, Now, PartWeight, CallSize
  <2>2. own[u] \cap ChildFrames(c) = {}
    BY <1>7 DEF Owned
  <2>3. Cardinality(own[u] \cap ChildFrames(c)) = 0
    BY <2>2, FS_EmptySet
  <2>4. a \in [Threads -> 0 .. CHILD_SIZE] /\ Owing(c) = Pairs(Threads, CHILD_SIZE, a)
    BY <1>1, OwingIsPairs
  <2>5. a[u] = call[u].n
    <3>1. a[u] \in Nat
      BY <1>1, <2>4
    <3> QED BY <2>1, <2>3, <3>1 DEF Weight
  <2> HIDE DEF a
  <2>6. Update(Threads, CHILD_SIZE, a, a, {u})
    BY <1>1, <1>4, <2>4 DEF Update
  <2>7. a[u] <= Cardinality(Owing(c))
    BY <2>4, <2>6, OneBounded
  <2> QED BY <1>6, <2>1, <2>5, <2>7
<1> QED BY <1>7, <1>8

\* Nobody owes to a child where no other call works and this one owes nothing.
LEMMA NothingOwed ==
    ASSUME NEW t \in Threads, Others(t), NEW d \in Int,
           \A u \in Threads \ {t} : ~(pc[u] \in InChild /\ Cur(u) = d),
           pc'[t] \in InChild => call'[t].n - Cardinality(own'[t]) = 0
    PROVE  Owing(d)' = {}
<1> SUFFICES ASSUME NEW q \in Owing(d)' PROVE FALSE
  OBVIOUS
<1>1. /\ q \in Threads \X (1 .. CHILD_SIZE) /\ pc'[q[1]] \in InChild /\ Cur(q[1])' = d
      /\ q[2] <= call'[q[1]].n - Cardinality(own'[q[1]])
  BY DEF Owing
<1>2. PICK u \in Threads, k \in 1 .. CHILD_SIZE : q = <<u, k>>
  BY <1>1
<1>3. pc'[u] \in InChild /\ Cur(u)' = d /\ k <= call'[u].n - Cardinality(own'[u])
  BY <1>1, <1>2
<1>4. CASE u = t
  BY <1>3, <1>4
<1>5. CASE u # t
  <2>1. pc'[u] = pc[u] /\ call'[u] = call[u] /\ loc'[u] = loc[u]
    BY <1>5 DEF Others
  <2>2. Cur(u)' = Cur(u)
    BY <2>1 DEF Cur
  <2> QED BY <1>3, <1>5, <2>1, <2>2
<1> QED BY <1>4, <1>5

\* lower_get of a huge page takes a child that is free, and so has no owner.
LEMMA HugeCasGets ==
    ASSUME OneHuge, XInv, TypeInv', ~Recovering, NEW t \in Threads, HugeCas(t),
           children[Cur(t)] = Before(t), call[t].op # "put"
    PROVE  /\ XInv'
           /\ \E d \in 0 .. ChildCount - 1 :
                 /\ d = Cur(t) /\ FlagChange(t, d, HugeChild) /\ children[d] = FreeChild
                 /\ pc'[t] = "ok" /\ own[t] = {} /\ own'[t] = ChildFrames(d)
<1>1. /\ TypeOK /\ pc[t] = "huge" /\ UNCHANGED <<bits, call, clients, system>>
  BY Now DEF HugeCas, At
<1>d. PICK d \in Children : d = Cur(t)
  BY <1>1, AtHuge
<1> DEFINE b == ChildBase(d)
<1>2. /\ call[t].n = CHILD_SIZE /\ HNum(call[t].n) = 1 /\ HBase(t) = d /\ HBase(t) + loc[t].i = d
      /\ loc[t].i = 0 /\ own[t] = {} /\ d \in Children /\ d \in Int
      /\ call[t].op # "get" => InRange(call[t].frame, call[t].n)
  BY <1>1, <1>d, AtHuge
<1>3. /\ children[d] = FreeChild /\ children' = [children EXCEPT ![d] = HugeChild]
      /\ own' = [own EXCEPT ![t] = @ \cup ChildFrames(d)]
      /\ Goto(t, "ok") /\ SetLoc(t, [NoLoc EXCEPT !.f = b])
  BY <1>2, <1>d DEF HugeCas, Before, After
<1>4. d \in 0 .. ChildCount - 1
  <2>1. d \in ChildCount .. ChildSlots - 1 => children[d] = HugeChild
    BY DEF XInv, BeyondOK
  <2>2. FreeChild # HugeChild
    <3>1. FreeChild.huge = FALSE /\ HugeChild.huge = TRUE
      BY DEF FreeChild, HugeChild, Child
    <3> QED BY <3>1
  <2> QED BY <1>2, <1>3, <2>1, <2>2, ChildRanges DEF Children
<1>5. Owned \cap ChildFrames(d) = {} /\ \A u \in Threads : pc[u] \in InPart => Cur(u) # d
  BY <1>3, <1>4, FreeAlone
<1>6. Inside(t)
  BY <1>1, <1>3, StepInside
<1>7. /\ pc'[t] = "ok" /\ loc'[t].f = b
  <2>1. loc'[t] = [NoLoc EXCEPT !.f = b]
    BY <1>1, <1>3, SetsLoc
  <2> QED BY <1>1, <1>3, <2>1, GoesTo, Counters
<1>8. own'[t] = ChildFrames(d)
  <2>1. own'[t] = own[t] \cup ChildFrames(d)
    BY <1>1, <1>3, SetsOwn
  <2> QED BY <1>2, <2>1
<1>9. ChildFrames(d) \subseteq Frames /\ ChildFrames(d) \cap Rest(t) = {}
  <2>1. ChildFrames(d) \subseteq AllFrames
    BY <1>4, ChildInAll
  <2>2. Rest(t) \subseteq Owned
    BY Now
  <2>3. AllFrames \ Frames \subseteq Owned
    BY DEF Owned
  <2> QED BY <1>5, <2>1, <2>2, <2>3
<1> USE ChildSizePositive
<1>10. b \in Frames /\ b % CHILD_SIZE = 0 /\ ChildFrames(d) = Block(b, CHILD_SIZE)
  <2>1. \A e \in Int : \A s \in Nat \ {0} : e * s \in Int /\ (e * s) % s = 0
    OBVIOUS
  <2>2. b \in Int /\ b % CHILD_SIZE = 0
    BY <1>2, <2>1 DEF ChildBase
  <2>3. ChildFrames(d) = Block(b, CHILD_SIZE) /\ b \in Block(b, CHILD_SIZE)
    BY <2>2 DEF ChildFrames, Block
  <2> QED BY <1>9, <2>2, <2>3
<1>11. OwnAt(t)'
  BY <1>1, <1>2, <1>7, <1>8, <1>10 DEF OwnAt, Splitting
<1>12. AtChild(t)' /\ SplitAt(t)'
  BY <1>7 DEF AtChild, SplitAt, InPart, InChild, Splitting
<1>13. children'[d].huge
  BY <1>1, <1>2, <1>3 DEF TypeOK, HugeChild, Child
<1>14. \A f \in ChildFrames(d) : Mark(f)'
  <2> SUFFICES ASSUME NEW f \in ChildFrames(d) PROVE Mark(f)'
    OBVIOUS
  <2>1. f \in Int
    BY <1>9 DEF Frames
  <2>2. ChildOf(f) = d
    BY <1>2, <2>1, FramesOfChild
  <2> QED BY <1>13, <2>2 DEF Mark
<1>15. \A f \in Rest(t) : ChildOf(f) = d => Mark(f)'
  BY <1>13 DEF Mark
<1>16. \A c \in Children \ {d} : Weight(t, c)' = Weight(t, c)
  <2> SUFFICES ASSUME NEW c \in Children \ {d} PROVE Weight(t, c)' = Weight(t, c)
    OBVIOUS
  <2>1. Weight(t, c) = 0
    BY <1>1, <1>2, NoWeight DEF InChild
  <2>2. Weight(t, c)' = Cardinality(ChildFrames(d) \cap ChildFrames(c)) + 0
    BY <1>7, <1>8, OtherWeight DEF InChild
  <2>3. Cardinality(ChildFrames(d) \cap ChildFrames(c)) = 0
    BY <1>2, ChildRanges, CountedOnce
  <2> QED BY <2>1, <2>2, <2>3
<1>17. \A u \in Threads \ {t} : pc[u] \in InChild \cup {"split", "split_cas"} => Cur(u) # d
  BY <1>5 DEF InPart, Splitting
<1>18. HugeChild.huge = TRUE
  BY DEF HugeChild, Child
<1>19. FlagChange(t, d, HugeChild)
  BY <1>1, <1>3, <1>6, <1>8, <1>9, <1>11, <1>12, <1>14, <1>15, <1>16, <1>17, <1>18
     DEF FlagChange
<1>20. XInv'
  BY <1>4, <1>19, FlagStep
<1> QED BY <1>1, <1>2, <1>3, <1>4, <1>7, <1>8, <1>19, <1>20, <1>d

\* lower_put of a huge page frees a child of which it owns every frame.
LEMMA HugeCasPuts ==
    ASSUME OneHuge, XInv, TypeInv', ~Recovering, NEW t \in Threads, HugeCas(t),
           children[Cur(t)] = Before(t), call[t].op = "put"
    PROVE  /\ XInv'
           /\ \E d \in 0 .. ChildCount - 1 :
                 /\ d = Cur(t) /\ FlagChange(t, d, FreeChild) /\ children[d] = HugeChild
                 /\ pc'[t] = "ok" /\ own[t] = ChildFrames(d) /\ own'[t] = {}
                 /\ Sum(d)' = CHILD_SIZE
<1> USE ChildSizePositive
<1>1. /\ TypeOK /\ pc[t] = "huge" /\ UNCHANGED <<bits, call, clients, system>>
      /\ own[t] \cap Rest(t) = {} /\ Owned = Rest(t) \cup own[t]
  BY Now DEF HugeCas, At
<1>d. PICK d \in Children : d = Cur(t)
  BY <1>1, AtHuge
<1>2. /\ call[t].n = CHILD_SIZE /\ HNum(call[t].n) = 1 /\ HBase(t) + loc[t].i = d
      /\ loc[t].i = 0 /\ own[t] = Block(call[t].frame, CHILD_SIZE) /\ d \in Int
      /\ InRange(call[t].frame, call[t].n)
  BY <1>1, <1>d, AtHuge
<1>3. /\ children[d] = HugeChild /\ children' = [children EXCEPT ![d] = FreeChild]
      /\ own' = [own EXCEPT ![t] = @ \ ChildFrames(d)]
      /\ Goto(t, "ok") /\ \E l : SetLoc(t, l)
  BY <1>2, <1>d DEF HugeCas, Before, After
<1>4. d = ChildOf(call[t].frame) /\ d \in 0 .. ChildCount - 1 /\ d \in Children
      /\ call[t].frame \in Int
  <2>1. d = ChildOf(call[t].frame)
    BY <1>d DEF Cur
  <2> QED BY <2>1, About, VisitChildren, ChildRanges
<1>5. own[t] = ChildFrames(d)
  <2>1. call[t].frame % CHILD_SIZE = 0
    BY <1>2 DEF InRange
  <2>2. \A f \in Int : \A s \in Nat \ {0} : f % s = 0 => (f \div s) * s = f
    OBVIOUS
  <2>3. ChildBase(d) = call[t].frame
    BY <1>4, <2>1, <2>2 DEF ChildBase, ChildOf
  <2> QED BY <1>2, <2>3 DEF ChildFrames
<1>6. Inside(t) /\ pc'[t] = "ok"
  BY <1>1, <1>3, StepInside, GoesTo
<1>7. own'[t] = {}
  <2>1. own'[t] = own[t] \ ChildFrames(d)
    BY <1>1, <1>3, SetsOwn
  <2> QED BY <1>5, <2>1
<1>8. OwnAt(t)'
  BY <1>1, <1>2, <1>6, <1>7 DEF OwnAt, Splitting
<1>9. AtChild(t)' /\ SplitAt(t)'
  BY <1>6 DEF AtChild, SplitAt, InPart, InChild, Splitting
<1>10. Rest(t) \cap ChildFrames(d) = {}
  BY <1>1, <1>5
<1>11. \A f \in Rest(t) : ChildOf(f) = d => Mark(f)'
  <2> SUFFICES ASSUME NEW f \in Rest(t), ChildOf(f) = d PROVE FALSE
    OBVIOUS
  <2>1. f \in Int
    BY <1>1, OwnedInAll
  <2>2. f \in ChildFrames(d)
    BY <1>2, <2>1, FramesOfChild
  <2> QED BY <1>10, <2>2
<1>12. \A c \in Children \ {d} : Weight(t, c)' = Weight(t, c)
  <2> SUFFICES ASSUME NEW c \in Children \ {d} PROVE Weight(t, c)' = Weight(t, c)
    OBVIOUS
  <2>1. Weight(t, c)' = 0
    BY <1>6, <1>7, NoWeight DEF InChild
  <2>2. Weight(t, c) = Cardinality(ChildFrames(d) \cap ChildFrames(c)) + 0
    BY <1>1, <1>5, OtherWeight DEF InChild
  <2>3. Cardinality(ChildFrames(d) \cap ChildFrames(c)) = 0
    BY <1>2, ChildRanges, CountedOnce
  <2> QED BY <2>1, <2>2, <2>3
<1>13. FreeChild.huge = FALSE /\ FreeChild.free = CHILD_SIZE /\ HugeChild.huge = TRUE
  BY DEF FreeChild, HugeChild, Child
<1>14. IsFiniteSet(Owing(d)') /\ Sum(d)' <= CHILD_SIZE /\ Sum(d)' = CHILD_SIZE
  <2>1. \A u \in Threads \ {t} : ~(pc[u] \in InChild /\ Cur(u) = d)
    BY <1>3, <1>4, <1>13, NobodyOwes
  <2>2. Owing(d)' = {}
    <3>1. Others(t) /\ pc'[t] \notin InChild
      BY <1>6 DEF Inside, InChild
    <3> QED BY <1>2, <2>1, <3>1, NothingOwed
  <2>3. Owned' \cap ChildFrames(d) = {}
    BY <1>6, <1>7, <1>10, OwnedAfter
  <2>4. children'[d].free = CHILD_SIZE
    BY <1>1, <1>3, <1>4, <1>13 DEF TypeOK
  <2>5. Sum(d)' = children'[d].free + Cardinality(Owned' \cap ChildFrames(d)) + Cardinality(Owing(d)')
    BY DEF Sum
  <2>6. IsFiniteSet({}) /\ Cardinality({}) = 0
    BY FS_EmptySet
  <2>7. IsFiniteSet(Owing(d)') /\ Cardinality(Owing(d)') = 0
    BY <2>2, <2>6
  <2>8. Cardinality(Owned' \cap ChildFrames(d)) = 0
    BY <2>3, <2>6
  <2>9. Sum(d)' = CHILD_SIZE + 0 + 0
    BY <2>4, <2>5, <2>7, <2>8
  <2>10. CHILD_SIZE \in Nat
    BY ChildSizePositive
  <2> QED BY <2>7, <2>9, <2>10
<1>15. FlagChange(t, d, FreeChild)
  BY <1>1, <1>3, <1>6, <1>7, <1>8, <1>9, <1>11, <1>12, <1>13, <1>14 DEF FlagChange
<1>16. XInv'
  BY <1>4, <1>15, FlagStep
<1> QED BY <1>1, <1>3, <1>4, <1>5, <1>6, <1>7, <1>14, <1>15, <1>16, <1>d

\* split_huge turns a huge page, all of whose bits are set, into a full child.
LEMMA SplitCasWorks ==
    ASSUME OneHuge, XInv, TypeInv', ~Recovering, NEW t \in Threads, SplitCas(t),
           children[Cur(t)] = HugeChild
    PROVE  /\ XInv'
           /\ \E d \in 0 .. ChildCount - 1 :
                 /\ d = Cur(t) /\ FlagChange(t, d, SplitChild) /\ pc'[t] = "clear"
                 /\ Owing(d)' = {} /\ own' = own /\ Cur(t)' = d
<1> USE ChildSizePositive
<1> DEFINE n == call[t].n
           f == call[t].frame
<1>1. /\ TypeInv /\ TypeOK /\ pc[t] = "split_cas" /\ UNCHANGED <<bits, own, call, clients, system>>
      /\ own[t] \cap Rest(t) = {} /\ Owned = Rest(t) \cup own[t] /\ own[t] \subseteq Frames
      /\ OwnAt(t) /\ AtChild(t) /\ SplitAt(t) /\ own[t] = Block(f, n)
  <2>1. /\ TypeInv /\ TypeOK /\ pc[t] = "split_cas" /\ OwnAt(t) /\ AtChild(t) /\ SplitAt(t)
        /\ own[t] \cap Rest(t) = {} /\ Owned = Rest(t) \cup own[t] /\ own[t] \subseteq Frames
    BY Now DEF SplitCas, At
  <2> QED BY <2>1 DEF OwnAt, Splitting, SplitCas
<1>d. PICK d \in 0 .. ChildCount - 1 : d = Cur(t)
  BY <1>1 DEF AtChild, InPart, Splitting
<1>2. d \in Children /\ d \in Int /\ own[t] \subseteq ChildFrames(d) /\ pc[t] \in InPart
  BY <1>1, <1>d, ChildRanges DEF AtChild, InPart, Splitting
<1>3. call[t].op = "put" /\ InRange(f, n)
  <2>1. call[t].op = "put"
    BY <1>1, PhaseNow DEF PhaseAt
  <2> QED BY <1>1, <2>1 DEF OwnAt
<1>4. /\ n \in Nat \ {0} /\ Parts(n) \in Nat \ {0} /\ Unit(n) \in Nat /\ f \in Int
  BY About
<1>5. /\ children' = [children EXCEPT ![d] = SplitChild] /\ Goto(t, "clear") /\ SetLoc(t, NoLoc)
  BY <1>d DEF SplitCas
<1>6. SplitChild.free = 0 /\ SplitChild.huge = FALSE /\ HugeChild.huge = TRUE
  BY DEF SplitChild, HugeChild, Child
<1>7. children'[d] = SplitChild
  BY <1>1, <1>2, <1>5 DEF TypeOK
<1>8. /\ Inside(t) /\ pc'[t] = "clear" /\ own'[t] = own[t] /\ call'[t] = call[t]
  BY <1>1, <1>5, StepInside, GoesTo
<1>9. loc'[t].i = 0
  <2>1. loc'[t] = NoLoc
    BY <1>1, <1>5, SetsLoc
  <2> QED BY <2>1, Counters
<1>10. Cur(t)' = d
  BY <1>3, <1>8, <1>d, CurStays
<1>11. ChildFrames(d) \subseteq bits
  BY <1>1, <1>6, <1>d DEF SplitAt
<1> HIDE DEF n, f
<1>12. OwnAt(t)'
  <2>1. /\ 0 \in 0 .. Parts(n) - 1 /\ f + 0 * Unit(n) = f /\ n - 0 * Unit(n) = n
    BY <1>4
  <2>2. own'[t] = Block(f + 0 * Unit(n), n - 0 * Unit(n))
    BY <1>1, <1>8, <2>1
  <2> QED BY <1>1, <1>3, <1>8, <1>9, <2>1, <2>2 DEF OwnAt, Splitting, n, f
<1>13. AtChild(t)' /\ SplitAt(t)'
  BY <1>2, <1>6, <1>7, <1>8, <1>10 DEF AtChild, SplitAt
<1>14. \A x \in Rest(t) \cup own[t] : ChildOf(x) = d => Mark(x)'
  <2> SUFFICES ASSUME NEW x \in Rest(t) \cup own[t], ChildOf(x) = d PROVE Mark(x)'
    OBVIOUS
  <2>1. x \in Int
    BY <1>1, OwnedInAll
  <2>2. x \in ChildFrames(d)
    BY <1>2, <2>1, FramesOfChild
  <2> QED BY <1>1, <1>11, <2>2 DEF Mark
<1>15. \A x \in own'[t] : Mark(x)'
  <2> SUFFICES ASSUME NEW x \in own[t] PROVE Mark(x)'
    BY <1>8
  <2>1. x \in Int /\ x \in ChildFrames(d)
    BY <1>1, <1>2 DEF Frames
  <2>2. ChildOf(x) = d
    BY <1>2, <2>1, FramesOfChild
  <2> QED BY <1>14, <2>2
<1>16. \A c \in Children \ {d} : Weight(t, c)' = Weight(t, c)
  <2> SUFFICES ASSUME NEW c \in Children \ {d} PROVE Weight(t, c)' = Weight(t, c)
    OBVIOUS
  <2>1. pc'[t] \in InPart
    BY <1>8 DEF InPart, InChild
  <2>2. Weight(t, c) = 0
    BY <1>1, <1>2, <1>d, PartWeight, ChildRanges
  <2>3. Weight(t, c)' = 0
    BY <1>10, <1>12, <1>13, <2>1, PartWeightNext, ChildRanges
  <2> QED BY <2>2, <2>3
<1>17. IsFiniteSet(Owing(d)') /\ Sum(d)' <= CHILD_SIZE /\ Owing(d)' = {}
  <2>1. \A u \in Threads \ {t} : ~(pc[u] \in InChild /\ Cur(u) = d)
    BY <1>2, <1>6, <1>d, NobodyOwes
  <2>2. Owing(d)' = {}
    <3>1. Cardinality(Block(f, n)) = n
      BY <1>4, Blocks
    <3>2. call'[t].n - Cardinality(own'[t]) = 0
      BY <1>1, <1>4, <1>8, <3>1 DEF n, f
    <3>3. Others(t)
      BY <1>8 DEF Inside
    <3> QED BY <1>2, <2>1, <3>2, <3>3, NothingOwed
  <2>3. Sum(d)' = children'[d].free + Cardinality(Owned' \cap ChildFrames(d)) + Cardinality(Owing(d)')
    BY DEF Sum
  <2>4. /\ Cardinality(Owned' \cap ChildFrames(d)) \in Nat
        /\ Cardinality(Owned' \cap ChildFrames(d)) <= CHILD_SIZE
    BY <1>2, ChildFinite
  <2>5. IsFiniteSet({}) /\ Cardinality({}) = 0
    BY FS_EmptySet
  <2> QED BY <1>6, <1>7, <2>2, <2>3, <2>4, <2>5
<1>18. own'[t] \subseteq Frames /\ own'[t] \cap Rest(t) = {}
  BY <1>1, <1>8
<1>19. FlagChange(t, d, SplitChild)
  BY <1>1, <1>5, <1>6, <1>8, <1>12, <1>13, <1>14, <1>15, <1>16, <1>17, <1>18 DEF FlagChange
<1> QED BY <1>1, <1>8, <1>10, <1>17, <1>19, <1>d, FlagStep

-----------------------------------------------------------------------------
(* Every step preserves the invariant. *)

\* The steps inside a call.
LEMMA MoveKeeps ==
    ASSUME OneHuge, XInv, TypeInv', NEW t \in Threads, Step(t), ~Return(t)
    PROVE  XInv'
<1>n. OwnAt(t)
  BY Now
<1>1. ASSUME Calm(t), ~Recovering PROVE XInv'
  BY <1>1, CalmStep
<1>2. CASE ChildDec(t) \/ UndoDec(t) \/ SearchRow(t) \/ SetRow(t) \/ UndoSetRow(t)
  <2>1. ~Recovering
    BY <1>2 DEF ChildDec, UndoDec, SearchRow, SetRow, UndoSetRow, At
  <2> QED BY <1>1, <1>2, <2>1, ChildDecCalm, UndoDecCalm, SearchRowCalm, SetRowCalm, UndoSetRowCalm
<1>3. CASE Load(t) \/ SplitWait(t) \/ ChildInc(t)
  <2>1. ~Recovering
    BY <1>3 DEF Load, SplitWait, ChildInc, At
  <2> QED BY <1>1, <1>3, <2>1, LoadCalm, SplitWaitCalm, ChildIncCalm
<1>4. ASSUME NEW label \in Toggles, Toggle(t, label) \/ UndoToggle(t, label) PROVE XInv'
  <2>1. ~Recovering
    BY <1>4 DEF Toggle, UndoToggle, At
  <2>2. CASE label = "mark"
    BY <1>1, <1>4, <2>1, <2>2, MarkToggleCalm, UndoMarkAborts
  <2>3. CASE label = "clear"
    <3>1. UndoOf("clear") = "unclear"
      BY DEF UndoOf
    <3>2. ~UndoToggle(t, "clear")
      BY <1>n, <3>1 DEF UndoToggle, At, OwnAt
    <3> QED BY <1>1, <1>4, <2>1, <2>3, <3>2, ClearToggleCalm
  <2>4. CASE label = "split"
    BY <1>1, <1>4, <2>1, <2>4, SplitToggleCalm, UndoSplitCalm
  <2> QED BY <2>2, <2>3, <2>4 DEF Toggles
<1>5. CASE SplitCas(t)
  <2>1. ~Recovering
    BY <1>5 DEF SplitCas, At
  <2>2. CASE children[Cur(t)] = HugeChild
    BY <1>5, <2>1, <2>2, SplitCasWorks
  <2>3. CASE children[Cur(t)] # HugeChild
    BY <1>1, <1>5, <2>1, <2>3, SplitCasFails
  <2> QED BY <2>2, <2>3
<1>6. CASE HugeCas(t)
  <2>1. ~Recovering
    BY <1>6 DEF HugeCas, At
  <2>2. CASE children[Cur(t)] # Before(t)
    BY <1>1, <1>6, <2>1, <2>2, HugeCasFails
  <2>3. CASE children[Cur(t)] = Before(t)
    BY <1>6, <2>1, <2>3, HugeCasGets, HugeCasPuts
  <2> QED BY <2>2, <2>3
<1>7. ~UndoHuge(t)
  BY <1>n DEF UndoHuge, At, OwnAt
<1> QED BY <1>2, <1>3, <1>4, <1>5, <1>6, <1>7 DEF Step

\* A call that begins or returns changes no frame and no child, and owns no more or
\* less than the clients give or take.
Edge(t) == /\ UNCHANGED <<memory, system>> /\ Others(t) /\ ~Recovering
           /\ pc[t] \notin InChild /\ pc'[t] \notin InChild /\ Owned' = Owned

\* It adds nothing to any child and takes nothing from it.
LEMMA EdgeSum ==
    ASSUME OneHuge, XInv, TypeInv', NEW t \in Threads, Edge(t), OwnAt(t)',
           NEW c \in 0 .. boot - 1
    PROVE  Owing(c)' = Owing(c) /\ Sum(c)' = Sum(c)
<1>1. TypeInv /\ OwnOK /\ children' = children
  BY DEF XInv, Edge, memory
<1>2. \A u \in Threads \ {t} :
        pc'[u] = pc[u] /\ call'[u] = call[u] /\ loc'[u] = loc[u] /\ own'[u] = own[u]
  BY DEF Edge, Others
<1>3. \A u \in Threads \ {t} : OwnAt(u)' /\ Cur(u)' = Cur(u)
  BY <1>1, <1>2, OthersStay DEF OwnOK
<1>4. OwnOK'
  BY <1>3 DEF OwnOK
<1>5. c \in Int
  BY <1>1 DEF TypeInv, TypeOK
<1>6. DueAt(c)' = DueAt(c)
  <2>1. \A u \in Threads : DueAt(c)'[u] = DueAt(c)[u]
    BY <1>2, <1>3 DEF DueAt, Edge
  <2> QED BY <2>1 DEF DueAt
<1>7. Owing(c) = Pairs(Threads, CHILD_SIZE, DueAt(c))
  BY <1>1, <1>5, OwingIsPairs
<1>8. Owing(c)' = Pairs(Threads, CHILD_SIZE, DueAt(c)')
  BY <1>4, <1>5, OwingIsPairsNext
<1>9. Owing(c)' = Owing(c)
  BY <1>6, <1>7, <1>8
<1> QED BY <1>1, <1>9 DEF Sum, Edge

LEMMA TurnKeeps ==
    ASSUME OneHuge, XInv, TypeInv', NEW t \in Threads, Edge(t),
           Exclusive', InRangeOwned', OwnAt(t)', AtChild(t)', SplitAt(t)'
    PROVE  XInv'
<1>1. /\ TypeInv /\ OwnOK /\ ChildOK /\ Marked /\ CountOK /\ BeyondOK
  BY DEF XInv
<1>2. bits' = bits /\ children' = children /\ boot' = boot /\ Owned' = Owned
  BY DEF Edge, memory, system
<1>3. \A u \in Threads \ {t} :
        pc'[u] = pc[u] /\ call'[u] = call[u] /\ loc'[u] = loc[u] /\ own'[u] = own[u]
  BY DEF Edge, Others
<1>4. \A u \in Threads \ {t} : OwnAt(u)' /\ Cur(u)' = Cur(u)
  BY <1>1, <1>3, OthersStay DEF OwnOK
<1>5. OwnOK'
  BY <1>4 DEF OwnOK
<1>6. ChildOK'
  <2> SUFFICES ASSUME NEW u \in Threads \ {t} PROVE AtChild(u)' /\ SplitAt(u)'
    BY DEF ChildOK
  <2>1. AtChild(u) /\ SplitAt(u) /\ Cur(u)' = Cur(u)
    BY <1>1, <1>4 DEF ChildOK
  <2> QED BY <1>2, <1>3, <2>1 DEF AtChild, SplitAt
<1>7. Marked'
  BY <1>1, <1>2 DEF Marked, Mark
<1>8. CountOK'
  <2> SUFFICES ASSUME NEW c \in 0 .. boot - 1, ~children[c].huge
               PROVE  IsFiniteSet(Owing(c)') /\ Sum(c)' <= CHILD_SIZE
    BY <1>2 DEF CountOK
  <2>1. Owing(c)' = Owing(c) /\ Sum(c)' = Sum(c)
    BY EdgeSum
  <2> QED BY <1>1, <1>2, <2>1 DEF CountOK
<1>9. BeyondOK'
  BY <1>1, <1>2 DEF BeyondOK
<1>10. RestOK'
  BY <1>2 DEF Edge, RestOK, Recovering
<1> QED BY <1>5, <1>6, <1>7, <1>8, <1>9, <1>10 DEF XInv

\* A call of t that begins takes a frame only from the clients.
LEMMA BeginOwns ==
    ASSUME XInv, NEW t \in Threads, own[t] = {}, Others(t), lost' = lost,
           own'[t] \subseteq held, held' = held \ own'[t]
    PROVE  Owned' = Owned /\ Exclusive' /\ InRangeOwned'
<1>1. Exclusive /\ InRangeOwned
  BY DEF XInv
<1>2. \A u \in Threads \ {t} : own'[u] = own[u]
  BY DEF Others
<1>3. Owned' = Owned
  <2>1. (UNION {own'[u] : u \in Threads}) = (UNION {own[u] : u \in Threads}) \cup own'[t]
    BY <1>2
  <2> QED BY <2>1 DEF Owned
<1>4. InRangeOwned'
  BY <1>1, <1>2 DEF InRangeOwned
<1>5. \A u \in Threads \ {t} : own[u] \cap own'[t] = {}
  BY <1>1 DEF Exclusive
<1>6. \A u, v \in Threads : u # v => own'[u] \cap own'[v] = {}
  BY <1>1, <1>2, <1>5 DEF Exclusive
<1>7. own'[t] \cap (held' \cup lost') = {}
  BY <1>1 DEF Exclusive
<1>8. \A u \in Threads : own'[u] \cap (held' \cup lost') = {}
  BY <1>1, <1>2, <1>7 DEF Exclusive
<1> QED BY <1>1, <1>3, <1>4, <1>6, <1>8 DEF Exclusive

\* lower_get, lower_get_at and lower_put at their entry.
LEMMA BeginKeeps ==
    ASSUME OneHuge, XInv, TypeInv', NEW t \in Threads, Begin(t)
    PROVE  XInv' /\ Edge(t)
<1>1. PICK op \in Ops, f \in Frames, n \in Sizes \cup AtSizes, label \in Labels :
        /\ At(t, "idle") /\ call' = [call EXCEPT ![t] = [op |-> op, frame |-> f, n |-> n]]
        /\ Goto(t, label) /\ UNCHANGED <<memory, loc, lost, system>>
        /\ \/ UNCHANGED own
           \/ own' = [own EXCEPT ![t] = Block(f, n)]
        /\ op # "put" \/ label = "argument" => UNCHANGED <<own, held>>
        /\ op = "put" /\ label # "argument" =>
              /\ own' = [own EXCEPT ![t] = Block(f, n)]
              /\ Block(f, n) \subseteq held /\ held' = held \ Block(f, n)
        /\ label = "argument" => op # "get" /\ ~InRange(f, n)
        /\ op # "get" /\ label # "argument" => InRange(f, n)
        /\ label \in {"argument", "huge", IF op = "put" THEN "load" ELSE "dec"}
        /\ label = "huge" => n >= CHILD_SIZE
  <2>1. CASE \E start \in Starts, n \in Sizes : Get(t, start, n)
    <3>1. PICK start \in Starts, n \in Sizes : Get(t, start, n)
      BY <2>1
    <3>2. start \in Frames /\ {"get"} \subseteq Ops /\ {"huge", "dec"} \subseteq Labels
      BY DEF Ops, Labels
    <3>3. CASE n >= CHILD_SIZE
      BY <3>1, <3>2, <3>3 DEF Get, clients
    <3>4. CASE ~(n >= CHILD_SIZE)
      BY <3>1, <3>2, <3>4 DEF Get, clients
    <3> QED BY <3>3, <3>4
  <2>2. CASE \E f \in Frames, n \in AtSizes : GetAt(t, f, n)
    <3>1. PICK f \in Frames, n \in AtSizes : GetAt(t, f, n)
      BY <2>2
    <3>2. {"get_at"} \subseteq Ops /\ {"huge", "dec", "argument"} \subseteq Labels
      BY DEF Ops, Labels, Done
    <3>3. CASE ~InRange(f, n)
      BY <3>1, <3>2, <3>3 DEF GetAt, clients
    <3>4. CASE InRange(f, n) /\ n >= CHILD_SIZE
      BY <3>1, <3>2, <3>4 DEF GetAt, clients
    <3>5. CASE InRange(f, n) /\ ~(n >= CHILD_SIZE)
      BY <3>1, <3>2, <3>5 DEF GetAt, clients
    <3> QED BY <3>3, <3>4, <3>5
  <2>3. CASE \E f \in Frames, n \in Sizes : Put(t, f, n)
    <3>1. PICK f \in Frames, n \in Sizes : Put(t, f, n)
      BY <2>3
    <3>2. {"put"} \subseteq Ops /\ {"huge", "load"} \subseteq Labels
      BY DEF Ops, Labels
    <3>3. Block(f, n) \subseteq held
      BY <3>1 DEF Put, MayFree
    <3>4. CASE n >= CHILD_SIZE
      BY <3>1, <3>2, <3>3, <3>4 DEF Put
    <3>5. CASE ~(n >= CHILD_SIZE)
      BY <3>1, <3>2, <3>3, <3>5 DEF Put
    <3> QED BY <3>4, <3>5
  <2>4. CASE \E f \in Frames, n \in Sizes : PutInvalid(t, f, n)
    <3>1. PICK f \in Frames, n \in Sizes : PutInvalid(t, f, n)
      BY <2>4
    <3>2. {"put"} \subseteq Ops /\ {"argument"} \subseteq Labels
      BY DEF Ops, Labels, Done
    <3> QED BY <3>1, <3>2 DEF PutInvalid, clients
  <2> QED BY <2>1, <2>2, <2>3, <2>4 DEF Begin
<1>2. /\ TypeInv /\ TypeOK /\ OwnAt(t) /\ pc[t] = "idle" /\ own[t] = {}
      /\ loc[t].i = 0 /\ loc[t].j = 0 /\ ~Recovering
  <2>1. TypeInv /\ TypeOK /\ OwnAt(t) /\ pc[t] = "idle" /\ ~Recovering
    BY <1>1, Now DEF At
  <2> QED BY <2>1 DEF OwnAt
<1>3. /\ n \in Nat \ {0} /\ n <= CHILD_SIZE /\ IsSize(n) /\ f \in Int
      /\ n >= CHILD_SIZE => n = CHILD_SIZE
  BY ChildSizePositive DEF OneHuge, Frames
<1>4. /\ pc'[t] = label /\ call'[t] = [op |-> op, frame |-> f, n |-> n] /\ loc'[t] = loc[t]
      /\ \A u \in Threads \ {t} : pc'[u] = pc[u] /\ call'[u] = call[u]
      /\ loc' = loc
  BY <1>1, <1>2, GoesTo DEF TypeOK
<1>5. /\ own'[t] = IF op = "put" /\ label # "argument" THEN Block(f, n) ELSE {}
      /\ \A u \in Threads \ {t} : own'[u] = own[u]
  <2>1. CASE op = "put" /\ label # "argument"
    BY <1>1, <1>2, <2>1, SetsOwn
  <2>2. CASE ~(op = "put" /\ label # "argument")
    BY <1>1, <1>2, <2>2
  <2> QED BY <2>1, <2>2
<1>6. Others(t)
  BY <1>4, <1>5 DEF Others
<1>7. own'[t] \subseteq held /\ held' = held \ own'[t] /\ lost' = lost
  BY <1>1, <1>5
<1>8. Owned' = Owned /\ Exclusive' /\ InRangeOwned'
  BY <1>2, <1>6, <1>7, BeginOwns
<1>9. call'[t].op = op /\ call'[t].frame = f /\ call'[t].n = n
  BY <1>4
<1>10. OwnAt(t)'
  <2>1. CASE label = "argument"
    BY <1>1, <1>4, <1>5, <1>9, <2>1 DEF OwnAt, Splitting
  <2>2. CASE label = "huge"
    BY <1>1, <1>2, <1>3, <1>4, <1>5, <1>9, <2>2 DEF OwnAt, Splitting
  <2>3. CASE label = "dec" /\ op # "put"
    BY <1>1, <1>2, <1>4, <1>5, <1>9, <2>3 DEF OwnAt, Splitting
  <2>4. CASE label = "load" /\ op = "put"
    BY <1>1, <1>2, <1>4, <1>5, <1>9, <2>4 DEF OwnAt, Splitting
  <2> QED BY <1>1, <2>1, <2>2, <2>3, <2>4
<1>11. pc'[t] \notin InChild /\ pc'[t] \notin Splitting
  BY <1>1, <1>4 DEF InChild, Splitting
<1>12. AtChild(t)' /\ SplitAt(t)'
  <2>1. CASE label = "load" /\ op = "put"
    <3>1. Cur(t)' = ChildOf(f)
      BY <1>9, <2>1 DEF Cur
    <3>2. ChildOf(f) \in 0 .. ChildCount - 1
      BY VisitChildren
    <3>3. Block(f, n) \subseteq ChildFrames(ChildOf(f))
      BY <1>1, <1>3, <2>1, BlockInChild DEF InRange
    <3> QED BY <1>5, <1>11, <2>1, <3>1, <3>2, <3>3 DEF AtChild, SplitAt, Splitting
  <2>2. CASE ~(label = "load" /\ op = "put")
    <3>1. pc'[t] \notin InPart
      BY <1>1, <1>4, <1>11, <2>2 DEF InPart
    <3> QED BY <1>11, <3>1 DEF AtChild, SplitAt, Splitting
  <2> QED BY <2>1, <2>2
<1>13. pc[t] \notin InChild
  BY <1>2 DEF InChild
<1>14. UNCHANGED <<memory, system>>
  BY <1>1
<1>15. Edge(t)
  BY <1>2, <1>6, <1>8, <1>11, <1>13, <1>14 DEF Edge
<1> QED BY <1>8, <1>10, <1>12, <1>15, TurnKeeps

\* What a call returns is what it owns.
LEMMA ReturnsOwn ==
    ASSUME XInv, NEW t \in Threads, pc[t] \in Done
    PROVE  Returned(t) = own[t]
<1>1. OwnAt(t) /\ call[t].op \in Ops
  BY Now, CallSize
<1> QED BY <1>1 DEF OwnAt, Returned, Done, Ops

\* The end of a call.
LEMMA ReturnKeeps ==
    ASSUME OneHuge, XInv, TypeInv', NEW t \in Threads, Return(t)
    PROVE  XInv' /\ Edge(t)
<1>1. /\ TypeOK /\ pc[t] \in Done /\ Returned(t) = own[t] /\ ~Recovering
      /\ Exclusive /\ InRangeOwned
  BY Now, ReturnsOwn DEF Return, At, XInv
<1>2. /\ pc'[t] = "idle" /\ loc'[t] = NoLoc /\ own'[t] = {} /\ call'[t] = NoCall
      /\ Others(t)
  BY <1>1, GoesTo, SetsLoc, SetsOwn DEF Return, Others, TypeOK
<1>3. held' = held \cup own[t] /\ lost' = lost /\ UNCHANGED <<memory, system>>
  BY <1>1 DEF Return
<1>4. \A u \in Threads \ {t} : own'[u] = own[u]
  BY <1>2 DEF Others
<1>5. Owned' = Owned
  <2>1. (UNION {own'[u] : u \in Threads}) \cup own[t] = UNION {own[u] : u \in Threads}
    BY <1>2, <1>4
  <2> QED BY <1>3, <2>1 DEF Owned
<1>6. InRangeOwned'
  BY <1>1, <1>2, <1>3, <1>4 DEF InRangeOwned
<1>7. Exclusive'
  BY <1>1, <1>2, <1>3, <1>4 DEF Exclusive
<1>8. OwnAt(t)'
  BY <1>2, Counters DEF OwnAt, Splitting
<1>9. pc[t] \notin InChild /\ pc'[t] \notin InChild
  BY <1>1, <1>2 DEF InChild, Done
<1>10. AtChild(t)' /\ SplitAt(t)'
  BY <1>2 DEF AtChild, SplitAt, InPart, InChild, Splitting
<1>11. Edge(t)
  BY <1>1, <1>2, <1>3, <1>5, <1>9 DEF Edge
<1> QED BY <1>6, <1>7, <1>8, <1>10, <1>11, TurnKeeps

\* A thread between two calls owns nothing and is at no child.
LEMMA IdleOwn ==
    ASSUME NEW t \in Threads
    PROVE  /\ pc[t] = "idle" /\ own[t] = {} /\ loc[t] = NoLoc
                => OwnAt(t) /\ AtChild(t) /\ SplitAt(t)
           /\ pc'[t] = "idle" /\ own'[t] = {} /\ loc'[t] = NoLoc
                => OwnAt(t)' /\ AtChild(t)' /\ SplitAt(t)'
           /\ pc'[t] = "idle" => AtChild(t)' /\ SplitAt(t)'
<1>1. ASSUME pc[t] = "idle", own[t] = {}, loc[t] = NoLoc
      PROVE  OwnAt(t) /\ AtChild(t) /\ SplitAt(t)
  BY <1>1, Counters DEF OwnAt, Splitting, AtChild, SplitAt, InPart, InChild
<1>2. ASSUME pc'[t] = "idle" PROVE AtChild(t)' /\ SplitAt(t)'
  BY <1>2 DEF AtChild, SplitAt, Splitting, InPart, InChild
<1>3. ASSUME pc'[t] = "idle", own'[t] = {}, loc'[t] = NoLoc PROVE OwnAt(t)'
  BY <1>3, Counters DEF OwnAt, Splitting
<1> QED BY <1>1, <1>2, <1>3

\* Without calls, nothing is owed.
LEMMA IdleOwes ==
    ASSUME NEW c
    PROVE  /\ (\A t \in Threads : pc[t] = "idle") => Owing(c) = {}
           /\ (\A t \in Threads : pc'[t] = "idle") => Owing(c)' = {}
<1>1. ASSUME NEW d \in Threads \X (1 .. CHILD_SIZE) PROVE d[1] \in Threads
  OBVIOUS
<1>2. "idle" \notin InChild
  BY DEF InChild
<1>3. ASSUME \A t \in Threads : pc[t] = "idle" PROVE Owing(c) = {}
  BY <1>1, <1>2, <1>3 DEF Owing
<1>4. ASSUME \A t \in Threads : pc'[t] = "idle" PROVE Owing(c)' = {}
  BY <1>1, <1>2, <1>4 DEF Owing
<1> QED BY <1>3, <1>4

\* A crash: what the calls own is lost.
LEMMA CrashKeeps ==
    ASSUME OneHuge, XInv, TypeInv', Crash
    PROVE  XInv' /\ Owned' = Owned
<1>1. /\ Exclusive /\ InRangeOwned /\ Marked /\ BeyondOK
  BY DEF XInv
<1>2. /\ bits' = bits /\ children' = children /\ held' = held /\ boot' = 0
      /\ lost' = lost \cup UNION {own[t] : t \in Threads}
      /\ \A t \in Threads : pc'[t] = "idle" /\ loc'[t] = NoLoc /\ own'[t] = {}
  BY DEF Crash, memory
<1>3. (UNION {own'[t] : t \in Threads}) = {}
  BY <1>2
<1>4. Owned' = Owned
  BY <1>2, <1>3 DEF Owned
<1>5. InRangeOwned'
  BY <1>1, <1>2 DEF InRangeOwned
<1>6. Exclusive'
  BY <1>1, <1>2 DEF Exclusive
<1>7. OwnOK' /\ ChildOK'
  BY <1>2, IdleOwn DEF OwnOK, ChildOK
<1>8. Marked'
  BY <1>1, <1>2, <1>4 DEF Marked, Mark
<1>9. CountOK'
  BY <1>2 DEF CountOK
<1>10. BeyondOK'
  BY <1>1, <1>2 DEF BeyondOK
<1>11. RestOK'
  BY <1>2 DEF RestOK
<1> QED BY <1>4, <1>5, <1>6, <1>7, <1>8, <1>9, <1>10, <1>11 DEF XInv

\* lower_recover, child by child: it forgets no frame that is owned.
LEMMA RecoverKeeps ==
    ASSUME OneHuge, XInv, TypeInv', RecoverChild
    PROVE  XInv'
<1> USE ChildSizePositive
<1>1. /\ TypeInv /\ TypeOK /\ Exclusive /\ InRangeOwned /\ OwnOK /\ Marked /\ CountOK /\ BeyondOK
      /\ \A t \in Threads : pc[t] = "idle"
  BY DEF XInv, TypeInv, RestOK, RecoverChild
<1>2. UNCHANGED <<pc, call, loc, own, held, lost>> /\ boot' = boot + 1
  BY DEF RecoverChild, clients
<1>b. PICK b \in 0 .. ChildCount - 1 : b = boot
  BY <1>1, ChildCountNat DEF RecoverChild, Recovering, TypeOK
<1>3. b \in Children /\ b \in Int /\ boot \in Nat
  BY <1>b, ChildRanges
<1>4. \/ children[b].huge /\ children' = [children EXCEPT ![b] = HugeChild]
                          /\ bits' = bits \ ChildFrames(b)
      \/ ~children[b].huge
            /\ children' = [children EXCEPT ![b] =
                              Child(CHILD_SIZE - Cardinality(bits \cap ChildFrames(b)), FALSE)]
            /\ bits' = bits
  BY <1>b DEF RecoverChild
<1>5. /\ \A c \in Children \ {b} : children'[c] = children[c]
      /\ children'[b].huge = children[b].huge
      /\ ~children[b].huge => children'[b].free = CHILD_SIZE - Cardinality(bits \cap ChildFrames(b))
  <2>1. \A c \in Children \ {b} : children'[c] = children[c]
    BY <1>1, <1>4 DEF TypeOK
  <2>2. CASE children[b].huge
    <3>1. children'[b] = HugeChild
      BY <1>1, <1>3, <1>4, <2>2 DEF TypeOK
    <3>2. HugeChild.huge = TRUE
      BY DEF HugeChild, Child
    <3>3. children[b].huge = TRUE
      BY <1>1, <1>3, <2>2 DEF TypeOK, ChildType
    <3> QED BY <2>1, <2>2, <3>1, <3>2, <3>3
  <2>3. CASE ~children[b].huge
    <3> DEFINE x == CHILD_SIZE - Cardinality(bits \cap ChildFrames(b))
    <3>1. children'[b] = Child(x, FALSE)
      BY <1>1, <1>3, <1>4, <2>3 DEF TypeOK
    <3>2. Child(x, FALSE).huge = FALSE /\ Child(x, FALSE).free = x
      BY DEF Child
    <3>3. children[b].huge = FALSE
      BY <1>1, <1>3, <2>3 DEF TypeOK, ChildType
    <3> QED BY <2>1, <3>1, <3>2, <3>3
  <2> QED BY <2>2, <2>3
<1>6. Owned' = Owned
  BY <1>2 DEF Owned
<1>7. Owned \subseteq AllFrames
  BY OwnedInAll
<1>8. OwnOK' /\ ChildOK'
  <2>1. ASSUME NEW t \in Threads PROVE OwnAt(t)' /\ AtChild(t)' /\ SplitAt(t)'
    BY <1>1, <1>2, OthersStay, IdleOwn DEF OwnOK
  <2> QED BY <2>1 DEF OwnOK, ChildOK
<1>9. Marked'
  <2> SUFFICES ASSUME NEW f \in Owned PROVE Mark(f)'
    BY <1>6 DEF Marked
  <2>1. f \in Int /\ ChildOf(f) \in Children /\ Mark(f)
    BY <1>1, <1>7, OwnedInAll, ChildRanges DEF Marked
  <2>2. CASE ChildOf(f) = b
    BY <1>4, <1>5, <2>1, <2>2 DEF Mark
  <2>3. CASE ChildOf(f) # b
    <3>1. f \notin ChildFrames(b)
      BY <1>3, <2>1, <2>3, FramesOfChild
    <3> QED BY <1>4, <1>5, <2>1, <2>3, <3>1 DEF Mark
  <2> QED BY <2>2, <2>3
<1>10. CountOK'
  <2> SUFFICES ASSUME NEW c \in 0 .. b, ~children'[c].huge
               PROVE  IsFiniteSet(Owing(c)') /\ Sum(c)' <= CHILD_SIZE
    BY <1>2, <1>b DEF CountOK
  <2>1. Owing(c)' = {} /\ Owing(c) = {}
    BY <1>1, <1>2, IdleOwes
  <2>2. IsFiniteSet({}) /\ Cardinality({}) = 0
    BY FS_EmptySet
  <2>3. CASE c = b
    <3>1. Owned \cap ChildFrames(b) \in SUBSET (bits \cap ChildFrames(b))
      <4> SUFFICES ASSUME NEW f \in Owned \cap ChildFrames(b) PROVE f \in bits
        OBVIOUS
      <4>1. f \in Int /\ Mark(f)
        BY <1>1, <1>7, OwnedInAll DEF Marked
      <4>2. ChildOf(f) = b
        BY <1>3, <4>1, FramesOfChild
      <4> QED BY <1>5, <2>3, <4>1, <4>2 DEF Mark
    <3>2. /\ IsFiniteSet(bits \cap ChildFrames(b)) /\ Cardinality(bits \cap ChildFrames(b)) \in Nat
          /\ Cardinality(Owned \cap ChildFrames(b)) \in Nat
      BY <1>3, ChildFinite
    <3>3. Cardinality(Owned \cap ChildFrames(b)) <= Cardinality(bits \cap ChildFrames(b))
      BY <3>1, <3>2, FS_Subset
    <3>4. Sum(c)' = children'[b].free + Cardinality(Owned \cap ChildFrames(b)) + 0
      BY <1>6, <2>1, <2>2, <2>3 DEF Sum
    <3>5. children'[b].free = CHILD_SIZE - Cardinality(bits \cap ChildFrames(b))
      BY <1>5, <2>3
    <3> QED BY <2>1, <2>2, <3>2, <3>3, <3>4, <3>5
  <2>4. CASE c # b
    <3>1. c \in Children /\ c \in 0 .. boot - 1
      BY <1>b, <1>3, <2>4, ChildRanges
    <3>2. children'[c] = children[c]
      BY <1>5, <2>4, <3>1
    <3>3. Sum(c)' = Sum(c)
      BY <1>6, <2>1, <3>2 DEF Sum
    <3> QED BY <1>1, <2>1, <2>2, <3>1, <3>2, <3>3 DEF CountOK
  <2> QED BY <2>3, <2>4
<1>11. BeyondOK'
  <2> SUFFICES ASSUME NEW c \in ChildCount .. ChildSlots - 1 PROVE children'[c] = HugeChild
    BY DEF BeyondOK
  <2>1. c \in Children /\ c # b
    BY ChildRanges
  <2> QED BY <1>1, <1>5, <2>1 DEF BeyondOK
<1>12. Exclusive' /\ InRangeOwned'
  BY <1>1, <1>2 DEF Exclusive, InRangeOwned
<1>13. RestOK'
  BY <1>1, <1>2 DEF RestOK
<1> QED BY <1>8, <1>9, <1>10, <1>11, <1>12, <1>13 DEF XInv

\* lower_clear: the frames beyond the end are marked, and the last child counts only
\* those before it.
LEMMA StartsOwned ==
    ASSUME Init
    PROVE  XInv /\ \A c \in 0 .. boot - 1 : ~children[c].huge => Sum(c) = CHILD_SIZE
<1> USE ChildSizePositive
<1>1. PICK free_all \in BOOLEAN :
        /\ bits = InitBits(free_all)
        /\ children = [c \in Children |-> InitChild(c, free_all)]
        /\ held = IF free_all THEN {} ELSE Frames
  BY DEF Init
<1>2. /\ \A t \in Threads : pc[t] = "idle" /\ loc[t] = NoLoc /\ own[t] = {}
      /\ lost = {} /\ boot = ChildCount
  BY DEF Init
<1>3. TypeInv
  BY TypeInvInit
<1>4. Exclusive /\ InRangeOwned
  BY <1>1, <1>2 DEF Exclusive, InRangeOwned
<1>5. OwnOK /\ ChildOK
  BY <1>2, IdleOwn DEF OwnOK, ChildOK
<1>6. ~Recovering /\ RestOK
  BY <1>2, ChildRanges DEF Recovering, RestOK
<1>7. (UNION {own[t] : t \in Threads}) = {}
  BY <1>2
<1>8. Owned = IF free_all THEN AllFrames \ Frames ELSE AllFrames
  BY <1>1, <1>2, <1>7, OwnedInAll DEF Owned
<1>9. ASSUME NEW c \in 0 .. ChildCount - 1
      PROVE  /\ children[c].huge <=> ~free_all
             /\ free_all => children[c].free = IF CHILD_SIZE < FRAMES - ChildBase(c)
                                               THEN CHILD_SIZE ELSE FRAMES - ChildBase(c)
             /\ c \in Children /\ c \in Int
  <2>1. c \in Children /\ c \in Int /\ ~(c >= ChildCount)
    BY ChildRanges
  <2>2. FRAMES - ChildBase(c) \in Nat \ {0}
    BY ChildCountNat
  <2>3. children[c] = InitChild(c, free_all)
    BY <1>1, <2>1
  <2>4. PICK x \in Nat : /\ children[c] = Child(x, x = 0)
                         /\ x = IF ~free_all THEN 0
                                ELSE IF CHILD_SIZE < FRAMES - ChildBase(c)
                                     THEN CHILD_SIZE ELSE FRAMES - ChildBase(c)
    BY <2>1, <2>2, <2>3 DEF InitChild
  <2>5. children[c].free = x /\ children[c].huge = (x = 0)
    BY <2>4 DEF Child
  <2>6. (x = 0) <=> ~free_all
    BY <2>2, <2>4
  <2> QED BY <2>1, <2>4, <2>5, <2>6
<1>10. Marked
  <2> SUFFICES ASSUME NEW f \in Owned PROVE Mark(f)
    BY DEF Marked
  <2>1. CASE free_all
    BY <1>1, <1>8, <2>1 DEF Mark, InitBits
  <2>2. CASE ~free_all
    BY <1>8, <1>9, <2>2, OwnedInAll DEF Mark
  <2> QED BY <2>1, <2>2
<1>11. ASSUME NEW c \in 0 .. ChildCount - 1, ~children[c].huge
       PROVE  IsFiniteSet(Owing(c)) /\ Sum(c) = CHILD_SIZE
  <2>1. Owing(c) = {}
    BY <1>2, IdleOwes
  <2>2. IsFiniteSet({}) /\ Cardinality({}) = 0
    BY FS_EmptySet
  <2>3. free_all /\ c \in Int /\ Owned = AllFrames \ Frames
    BY <1>8, <1>9, <1>11
  <2>4. PICK b \in Nat : b = ChildBase(c)
    <3>1. c \in Nat
      OBVIOUS
    <3> QED BY <3>1 DEF ChildBase
  <2>5. ChildFrames(c) = b .. b + CHILD_SIZE - 1 /\ ChildFrames(c) \subseteq AllFrames
    BY <2>4, ChildInAll DEF ChildFrames, Block
  <2>6. Sum(c) = children[c].free + Cardinality((AllFrames \ Frames) \cap ChildFrames(c)) + 0
    BY <2>1, <2>2, <2>3 DEF Sum
  <2>7. CASE CHILD_SIZE < FRAMES - b
    <3>1. ChildFrames(c) \subseteq Frames
      BY <2>5, <2>7 DEF Frames
    <3>2. (AllFrames \ Frames) \cap ChildFrames(c) = {}
      BY <3>1
    <3>3. children[c].free = CHILD_SIZE
      BY <1>9, <2>3, <2>4, <2>7
    <3>4. Sum(c) = CHILD_SIZE + 0 + 0
      BY <2>2, <2>6, <3>2, <3>3
    <3> QED BY <2>1, <2>2, <3>4
  <2>8. CASE ~(CHILD_SIZE < FRAMES - b)
    <3>1. (AllFrames \ Frames) \cap ChildFrames(c) = FRAMES .. b + CHILD_SIZE - 1
      <4>1. FRAMES - b \in Nat \ {0}
        BY <2>4, ChildCountNat
      <4>2. ChildFrames(c) \ Frames = FRAMES .. b + CHILD_SIZE - 1
        BY <2>4, <2>5, <2>8, <4>1 DEF Frames
      <4> QED BY <2>5, <4>2
    <3>2. Cardinality(FRAMES .. b + CHILD_SIZE - 1) = b + CHILD_SIZE - FRAMES
      <4>1. FRAMES \in Int /\ b + CHILD_SIZE - 1 \in Int
        BY <2>4
      <4>2. Cardinality(FRAMES .. b + CHILD_SIZE - 1)
              = IF FRAMES > b + CHILD_SIZE - 1 THEN 0 ELSE b + CHILD_SIZE - 1 - FRAMES + 1
        BY <4>1, FS_Interval
      <4> QED BY <2>4, <2>8, <4>2
    <3>3. children[c].free = FRAMES - b
      BY <1>9, <2>3, <2>4, <2>8
    <3>4. Sum(c) = (FRAMES - b) + (b + CHILD_SIZE - FRAMES) + 0
      BY <2>6, <3>1, <3>2, <3>3
    <3> QED BY <2>1, <2>2, <2>4, <3>4
  <2> QED BY <2>7, <2>8
<1>12. BeyondOK
  <2> SUFFICES ASSUME NEW c \in ChildCount .. ChildSlots - 1 PROVE children[c] = HugeChild
    BY DEF BeyondOK
  <2>1. c \in Children /\ c >= ChildCount
    BY ChildRanges
  <2> QED BY <1>1, <2>1 DEF InitChild, HugeChild, Child
<1>13. CountOK
  BY <1>2, <1>11 DEF CountOK
<1> QED BY <1>2, <1>3, <1>4, <1>5, <1>6, <1>10, <1>11, <1>12, <1>13 DEF XInv

LEMMA StepKeeps ==
    ASSUME OneHuge, XInv, [Next]_vars
    PROVE  XInv'
<1>1. TypeInv'
  BY TypeInvNext DEF XInv
<1>2. ASSUME NEW t \in Threads, Begin(t) \/ Step(t) PROVE XInv'
  BY <1>1, <1>2, BeginKeeps, ReturnKeeps, MoveKeeps
<1>3. CASE Crash \/ RecoverChild
  BY <1>1, <1>3, CrashKeeps, RecoverKeeps
<1>4. CASE UNCHANGED vars
  <2>1. /\ bits' = bits /\ children' = children /\ held' = held /\ lost' = lost /\ boot' = boot
        /\ pc' = pc /\ call' = call /\ loc' = loc /\ own' = own
    BY <1>4 DEF vars, memory, clients, system
  <2>2. /\ Exclusive /\ InRangeOwned /\ OwnOK /\ ChildOK /\ Marked
        /\ CountOK /\ BeyondOK /\ RestOK
    BY DEF XInv
  <2>3. Owned' = Owned
    BY <2>1 DEF Owned
  <2>4. OwnOK' /\ \A t \in Threads : Cur(t)' = Cur(t)
    BY <2>1, <2>2, OthersStay DEF OwnOK
  <2>5. ChildOK'
    BY <2>1, <2>2, <2>4 DEF ChildOK, AtChild, SplitAt
  <2>6. \A c : Owing(c)' = Owing(c)
    BY <2>1 DEF Owing, Cur
  <2>7. CountOK'
    BY <2>1, <2>2, <2>3, <2>6 DEF CountOK, Sum
  <2>8. Exclusive' /\ InRangeOwned' /\ BeyondOK' /\ RestOK'
    BY <2>1, <2>2 DEF Exclusive, InRangeOwned, BeyondOK, RestOK, Recovering
  <2>9. Marked'
    BY <2>1, <2>2, <2>3 DEF Marked, Mark
  <2> QED BY <1>1, <2>4, <2>5, <2>7, <2>8, <2>9 DEF XInv
<1> QED BY <1>2, <1>3, <1>4 DEF Next

\* No frame has two owners, at any step of any interleaving of any number of threads:
\* two calls never mark the same frame, lower_get never returns a frame that a client
\* holds or that a crash took, and a free returns only what was held.  For blocks of up
\* to one huge page; the undo of larger ones breaks it (run undo_huge).
THEOREM OwnersExclusive ==
    ASSUME OneHuge
    PROVE  Spec => []Exclusive
<1>1. Init => XInv
  BY StartsOwned
<1>2. XInv /\ [Next]_vars => XInv'
  BY StepKeeps
<1>3. XInv => Exclusive
  BY DEF XInv
<1> QED BY <1>1, <1>2, <1>3, PTL DEF Spec

-----------------------------------------------------------------------------
(* Lower implements FrameOwnership. *)

Want == [t \in Threads |-> IF pc[t] = "idle" THEN 0 ELSE call[t].n]

\* The frames that the abstract specification sees owned.
LEMMA AbstractOwned ==
    Ownership!Owned = held \cup lost \cup (UNION {own[t] : t \in Threads})
BY DEF Ownership!Owned

\* A step inside a call changes no label of an idle thread, and the call's frames only
\* grow or only shrink.
Moves(t) == /\ Inside(t) /\ pc[t] # "idle" /\ pc'[t] # "idle"
            /\ own[t] \subseteq own'[t] \/ own'[t] \subseteq own[t]

LEMMA MovesFrom ==
    ASSUME TypeOK, NEW t \in Threads, pc[t] # "idle", UNCHANGED <<call, clients, system>>,
           UNCHANGED pc \/ \E label : label # "idle" /\ Goto(t, label),
           UNCHANGED loc \/ \E l : SetLoc(t, l),
           \/ UNCHANGED own
           \/ \E B : own' = [own EXCEPT ![t] = B]
                 /\ (own[t] \subseteq B \/ B \subseteq own[t])
    PROVE  Moves(t)
<1>1. Inside(t)
  BY StepInside
<1>2. pc'[t] # "idle"
  BY GoesTo
<1>3. own[t] \subseteq own'[t] \/ own'[t] \subseteq own[t]
  BY SetsOwn
<1> QED BY <1>1, <1>2, <1>3 DEF Moves

\* How the loops go on.
LEMMA LoopsMove ==
    ASSUME NEW t \in Threads
    PROVE  /\ NextChild(t) => (\E label : label # "idle" /\ Goto(t, label)) /\ \E l : SetLoc(t, l)
           /\ NextGroup(t) => /\ UNCHANGED pc \/ \E label : label # "idle" /\ Goto(t, label)
                              /\ UNCHANGED loc \/ \E l : SetLoc(t, l)
           /\ NextHuge(t) => (\E label : label # "idle" /\ Goto(t, label)) /\ \E l : SetLoc(t, l)
<1>1. ASSUME NextChild(t)
      PROVE  (\E label : label # "idle" /\ Goto(t, label)) /\ \E l : SetLoc(t, l)
  BY <1>1, "dec" # "idle", "memory" # "idle" DEF NextChild
<1>2. ASSUME NextGroup(t)
      PROVE  /\ UNCHANGED pc \/ \E label : label # "idle" /\ Goto(t, label)
             /\ UNCHANGED loc \/ \E l : SetLoc(t, l)
  BY <1>2, "set" # "idle", "undec" # "idle" DEF NextGroup
<1>3. ASSUME NextHuge(t)
      PROVE  (\E label : label # "idle" /\ Goto(t, label)) /\ \E l : SetLoc(t, l)
  <2>1. ASSUME NEW p, p = IF call[t].op = "put" THEN "argument" ELSE "memory" PROVE p # "idle"
    BY <2>1
  <2> QED BY <1>3, <2>1, "huge" # "idle" DEF NextHuge
<1> QED BY <1>1, <1>2, <1>3

LEMMA StepMoves ==
    ASSUME XInv, NEW t \in Threads, Step(t), ~Return(t)
    PROVE  Moves(t)
<1>t. TypeOK /\ OwnAt(t)
  BY Now
<1>1. CASE ChildDec(t)
  <2>1. ASSUME NEW p, p = IF call[t].op = "get_at" THEN "mark"
                          ELSE IF call[t].n > ATOMIC_SIZE THEN "set" ELSE "search"
        PROVE  p # "idle"
    BY <2>1
  <2>2. UNCHANGED pc \/ \E label : label # "idle" /\ Goto(t, label)
    BY <1>1, <2>1, LoopsMove DEF ChildDec
  <2>3. UNCHANGED loc \/ \E l : SetLoc(t, l)
    BY <1>1, LoopsMove DEF ChildDec
  <2> QED BY <1>1, <2>2, <2>3, <1>t, MovesFrom DEF ChildDec, At
<1>2. CASE UndoDec(t)
  <2>1. UNCHANGED pc \/ \E label : label # "idle" /\ Goto(t, label)
    BY <1>2, "abort" # "idle", LoopsMove DEF UndoDec
  <2>2. UNCHANGED loc \/ \E l : SetLoc(t, l)
    BY <1>2, LoopsMove DEF UndoDec
  <2> QED BY <1>2, <1>t, <2>1, <2>2, MovesFrom DEF UndoDec, At
<1>3. CASE SearchRow(t)
  <2>1. UNCHANGED pc \/ \E label : label # "idle" /\ Goto(t, label)
    BY <1>3, "ok" # "idle", "undec" # "idle" DEF SearchRow
  <2>2. UNCHANGED loc \/ \E l : SetLoc(t, l)
    BY <1>3 DEF SearchRow
  <2>3. \/ UNCHANGED own
        \/ \E B : own' = [own EXCEPT ![t] = B] /\ (own[t] \subseteq B \/ B \subseteq own[t])
    <3>1. own[t] = {}
      BY <1>t, <1>3 DEF SearchRow, At, OwnAt
    <3> QED BY <1>3, <3>1 DEF SearchRow
  <2> QED BY <1>t, <1>3, <2>1, <2>2, <2>3, MovesFrom DEF SearchRow, At
<1>4. CASE SetRow(t) \/ UndoSetRow(t)
  <2>1. UNCHANGED pc \/ \E label : label # "idle" /\ Goto(t, label)
    BY <1>4, "ok" # "idle", "unset" # "idle", "abort" # "idle", LoopsMove DEF SetRow, UndoSetRow
  <2>2. UNCHANGED loc \/ \E l : SetLoc(t, l)
    BY <1>4, LoopsMove DEF SetRow, UndoSetRow
  <2>3. \/ UNCHANGED own
        \/ \E B : own' = [own EXCEPT ![t] = B] /\ (own[t] \subseteq B \/ B \subseteq own[t])
    BY <1>4 DEF SetRow, UndoSetRow
  <2> QED BY <1>4, <2>1, <2>2, <2>3, <1>t, MovesFrom DEF SetRow, UndoSetRow, At
<1>5. ASSUME NEW label \in Toggles, Toggle(t, label) \/ UndoToggle(t, label) PROVE Moves(t)
  <2>1. /\ AfterToggle(label) # "idle" /\ AfterFailure(label) # "idle" /\ UndoOf(label) # "idle"
        /\ label # "idle"
    BY DEF Toggles, AfterToggle, AfterFailure, UndoOf
  <2>2. UNCHANGED pc \/ \E p : p # "idle" /\ Goto(t, p)
    <3>1. ASSUME NEW p, p = IF loc[t].i = 0 THEN AfterFailure(label) ELSE UndoOf(label)
          PROVE  p # "idle"
      BY <2>1, <3>1
    <3> QED BY <1>5, <2>1, <3>1, "abort" # "idle" DEF Toggle, UndoToggle
  <2>3. UNCHANGED loc \/ \E l : SetLoc(t, l)
    BY <1>5 DEF Toggle, UndoToggle
  <2>4. \/ UNCHANGED own
        \/ \E B : own' = [own EXCEPT ![t] = B] /\ (own[t] \subseteq B \/ B \subseteq own[t])
    <3>1. ASSUME NEW P, own' = OwnAfter(t, P, label, Expected(label))
          PROVE  \E B : own' = [own EXCEPT ![t] = B] /\ (own[t] \subseteq B \/ B \subseteq own[t])
      <4> DEFINE B == CASE label = "split" -> own[t]
                        [] Expected(label) -> own[t] \ P
                        [] OTHER -> own[t] \cup P
      <4>1. own' = [own EXCEPT ![t] = B]
        BY <3>1, Zenon DEF OwnAfter
      <4>2. own[t] \subseteq B \/ B \subseteq own[t]
        OBVIOUS
      <4> QED BY <4>1, <4>2
    <3> QED BY <1>5, <3>1 DEF Toggle, UndoToggle
  <2>5. pc[t] # "idle" /\ UNCHANGED <<call, clients, system>>
    BY <1>5, <2>1 DEF Toggle, UndoToggle, At
  <2> QED BY <2>2, <2>3, <2>4, <2>5, <1>t, MovesFrom
<1>6. CASE Load(t)
  <2>1. ASSUME NEW p, p = IF children[Cur(t)].huge THEN "split" ELSE "clear" PROVE p # "idle"
    BY <2>1
  <2>2. \E label : label # "idle" /\ Goto(t, label)
    BY <1>6, <2>1 DEF Load
  <2> QED BY <1>t, <1>6, <2>2, MovesFrom DEF Load, At
<1>7. CASE SplitCas(t) \/ SplitWait(t) \/ ChildInc(t)
  <2>1. UNCHANGED pc \/ \E label : label # "idle" /\ Goto(t, label)
    BY <1>7, "clear" # "idle", "abort" # "idle", "memory" # "idle", "ok" # "idle"
       DEF SplitCas, SplitWait, ChildInc
  <2>2. UNCHANGED loc \/ \E l : SetLoc(t, l)
    BY <1>7 DEF SplitCas, SplitWait, ChildInc
  <2> QED BY <1>7, <1>t, <2>1, <2>2, MovesFrom DEF SplitCas, SplitWait, ChildInc, At
<1>8. CASE HugeCas(t) \/ UndoHuge(t)
  <2>1. UNCHANGED pc \/ \E label : label # "idle" /\ Goto(t, label)
    BY <1>8, "ok" # "idle", "unhuge" # "idle", "abort" # "idle", LoopsMove DEF HugeCas, UndoHuge
  <2>2. UNCHANGED loc \/ \E l : SetLoc(t, l)
    BY <1>8, LoopsMove DEF HugeCas, UndoHuge
  <2>3. \/ UNCHANGED own
        \/ \E B : own' = [own EXCEPT ![t] = B] /\ (own[t] \subseteq B \/ B \subseteq own[t])
    BY <1>8 DEF HugeCas, UndoHuge
  <2> QED BY <1>8, <2>1, <2>2, <2>3, <1>t, MovesFrom DEF HugeCas, UndoHuge, At
<1> QED BY <1>1, <1>2, <1>3, <1>4, <1>5, <1>6, <1>7, <1>8 DEF Step

\* A step inside a call collects frames that nobody owns, or releases its own.
LEMMA MoveMaps ==
    ASSUME XInv, XInv', NEW t \in Threads, Moves(t)
    PROVE  Ownership!Next
<1>1. /\ TypeOK /\ TypeOK' /\ Inside(t) /\ pc[t] # "idle" /\ pc'[t] # "idle"
      /\ held' = held /\ lost' = lost /\ call' = call
      /\ \A u \in Threads \ {t} : pc'[u] = pc[u] /\ own'[u] = own[u]
  BY Now DEF Moves, Inside, Others, clients, XInv, TypeInv
<1>2. Want' = Want
  BY <1>1 DEF Want
<1>3. own' = [own EXCEPT ![t] = own'[t]]
  BY <1>1 DEF TypeOK
<1>4. Want[t] # 0
  BY <1>1, CallSize DEF Want
<1>5. CASE own[t] \subseteq own'[t]
  <2> DEFINE S == own'[t] \ own[t]
  <2>1. S \cap Ownership!Owned = {} /\ S \subseteq Frames
    <3>1. /\ \A u \in Threads \ {t} : own'[t] \cap own'[u] = {}
          /\ own'[t] \cap (held' \cup lost') = {} /\ own'[t] \subseteq Frames
      BY DEF XInv, Exclusive, InRangeOwned
    <3> QED BY <1>1, <3>1, AbstractOwned
  <2>2. own' = [own EXCEPT ![t] = @ \cup S]
    <3>1. own'[t] = own[t] \cup S
      BY <1>5
    <3> QED BY <1>3, <3>1
  <2>3. Ownership!Collect(t, S)
    BY <1>1, <1>2, <1>4, <2>1, <2>2 DEF Ownership!Collect, Want
  <2>4. S \in SUBSET (Frames \ Ownership!Owned)
    BY <2>1
  <2> HIDE DEF S
  <2> QED BY <2>3, <2>4 DEF Ownership!Next
<1>6. CASE own'[t] \subseteq own[t]
  <2> DEFINE S == own[t] \ own'[t]
  <2>1. own' = [own EXCEPT ![t] = @ \ S]
    <3>1. own'[t] = own[t] \ S
      BY <1>6
    <3> QED BY <1>3, <3>1
  <2>2. Ownership!Release(t, S)
    BY <1>1, <1>2, <1>4, <2>1 DEF Ownership!Release, Want
  <2>3. S \in SUBSET own[t]
    OBVIOUS
  <2> HIDE DEF S
  <2> QED BY <2>2, <2>3 DEF Ownership!Next
<1> QED BY <1>5, <1>6 DEF Moves

\* A call begins with nothing in hand, or with a block that a client gives back.
LEMMA BeginMaps ==
    ASSUME XInv, NEW t \in Threads, Begin(t)
    PROVE  Ownership!Next
<1>1. TypeOK
  BY Now
<1>2. ASSUME NEW op \in Ops, NEW f \in Frames, NEW n \in Sizes \cup AtSizes, NEW label,
             label # "idle", At(t, "idle"), Goto(t, label),
             call' = [call EXCEPT ![t] = [op |-> op, frame |-> f, n |-> n]]
      PROVE  Want[t] = 0 /\ Want' = [Want EXCEPT ![t] = n]
  <2>1. /\ pc'[t] = label /\ call'[t].n = n
        /\ \A u \in Threads \ {t} : pc'[u] = pc[u] /\ call'[u] = call[u]
    BY <1>1, <1>2 DEF TypeOK, Goto
  <2>2. Want'[t] = n /\ \A u \in Threads \ {t} : Want'[u] = Want[u]
    BY <1>2, <2>1 DEF Want
  <2>3. Want[t] = 0
    BY <1>2 DEF Want, At
  <2>4. Want \in [Threads -> Int] /\ Want' = [u \in Threads |-> Want'[u]]
    <3>1. \A u \in Threads : Want[u] \in Int
      BY <1>1, CallSize DEF Want
    <3> QED BY <3>1 DEF Want
  <2> HIDE DEF Want
  <2>5. Want' = [Want EXCEPT ![t] = n]
    BY <2>2, <2>4
  <2> QED BY <2>3, <2>5
<1>3. ASSUME NEW n \in Sizes \cup AtSizes, Want[t] = 0, Want' = [Want EXCEPT ![t] = n],
             UNCHANGED <<own, held, lost>>
      PROVE  Ownership!Next
  <2>1. Ownership!Request(t, n)
    BY <1>3 DEF Ownership!Request, Want
  <2> QED BY <2>1 DEF Ownership!Next
<1>4. CASE \E start \in Starts, n \in Sizes : Get(t, start, n)
  <2>1. PICK start \in Starts, n \in Sizes : Get(t, start, n)
    BY <1>4
  <2>2. PICK label : label # "idle" /\ Goto(t, label)
    <3>1. ASSUME NEW p, p = IF n >= CHILD_SIZE THEN "huge" ELSE "dec" PROVE p # "idle"
      BY <3>1
    <3> QED BY <2>1, <3>1 DEF Get
  <2>3. "get" \in Ops /\ start \in Frames
    BY DEF Ops
  <2>4. Want[t] = 0 /\ Want' = [Want EXCEPT ![t] = n]
    BY <1>2, <2>1, <2>2, <2>3 DEF Get
  <2> QED BY <1>3, <2>1, <2>4 DEF Get, clients
<1>5. CASE \E f \in Frames, n \in AtSizes : GetAt(t, f, n)
  <2>1. PICK f \in Frames, n \in AtSizes : GetAt(t, f, n)
    BY <1>5
  <2>2. PICK label : label # "idle" /\ Goto(t, label)
    <3>1. ASSUME NEW p, p = IF ~InRange(f, n) THEN "argument"
                            ELSE IF n >= CHILD_SIZE THEN "huge" ELSE "dec"
          PROVE  p # "idle"
      BY <3>1
    <3> QED BY <2>1, <3>1 DEF GetAt
  <2>3. "get_at" \in Ops
    BY DEF Ops
  <2>4. Want[t] = 0 /\ Want' = [Want EXCEPT ![t] = n]
    BY <1>2, <2>1, <2>2, <2>3 DEF GetAt
  <2> QED BY <1>3, <2>1, <2>4 DEF GetAt, clients
<1>6. CASE \E f \in Frames, n \in Sizes : Put(t, f, n)
  <2>1. PICK f \in Frames, n \in Sizes : Put(t, f, n)
    BY <1>6
  <2>2. PICK label : label # "idle" /\ Goto(t, label)
    <3>1. ASSUME NEW p, p = IF n >= CHILD_SIZE THEN "huge" ELSE "load" PROVE p # "idle"
      BY <3>1
    <3> QED BY <2>1, <3>1 DEF Put
  <2>3. "put" \in Ops
    BY DEF Ops
  <2>4. Want[t] = 0 /\ Want' = [Want EXCEPT ![t] = n]
    BY <1>2, <2>1, <2>2, <2>3 DEF Put
  <2>5. Block(f, n) \subseteq held
    BY <2>1 DEF Put, MayFree
  <2>6. Ownership!IsBlock(Block(f, n), n)
    BY <2>1 DEF Put, InRange, Block, Ownership!IsBlock
  <2>7. Ownership!GiveBack(t, n, Block(f, n))
    BY <2>1, <2>4, <2>5, <2>6 DEF Put, Ownership!GiveBack, Want
  <2> QED BY <2>5, <2>7 DEF Ownership!Next
<1>7. CASE \E f \in Frames, n \in Sizes : PutInvalid(t, f, n)
  <2>1. PICK f \in Frames, n \in Sizes : PutInvalid(t, f, n)
    BY <1>7
  <2>2. "put" \in Ops /\ "argument" # "idle"
    BY DEF Ops
  <2>3. Want[t] = 0 /\ Want' = [Want EXCEPT ![t] = n]
    BY <1>2, <2>1, <2>2 DEF PutInvalid
  <2> QED BY <1>3, <2>1, <2>3 DEF PutInvalid, clients
<1> QED BY <1>4, <1>5, <1>6, <1>7 DEF Begin

\* A call that returns has nothing in hand, or the block that it was asked for.
LEMMA ReturnMaps ==
    ASSUME XInv, NEW t \in Threads, Return(t)
    PROVE  Ownership!Next
<1>1. /\ TypeOK /\ OwnAt(t) /\ pc[t] \in Done /\ Returned(t) = own[t] /\ call[t].op \in Ops
      /\ call[t].frame \in Frames /\ call[t].n \in Nat \ {0}
  BY Now, ReturnsOwn, CallSize DEF Return, At
<1>2. /\ pc'[t] = "idle" /\ \A u \in Threads \ {t} : pc'[u] = pc[u] /\ call'[u] = call[u]
  BY <1>1 DEF Return, Goto, TypeOK
<1>3. Want[t] # 0 /\ Want' = [Want EXCEPT ![t] = 0]
  BY <1>1, <1>2 DEF Want, Done
<1>4. own[t] = {} \/ Ownership!IsBlock(own[t], Want[t])
  <2>1. \A f \in Frames : f % call[t].n = 0
            => Ownership!IsBlock(Block(f, call[t].n), call[t].n)
    BY DEF Ownership!IsBlock, Block
  <2>2. Want[t] = call[t].n
    BY <1>1 DEF Want, Done
  <2>3. CASE pc[t] = "ok"
    BY <1>1, <2>1, <2>2, <2>3 DEF OwnAt
  <2>4. CASE pc[t] \in {"memory", "argument"}
    <3>1. InRange(call[t].frame, call[t].n) => call[t].frame % call[t].n = 0
      BY DEF InRange
    <3> QED BY <1>1, <2>1, <2>2, <2>4, <3>1 DEF OwnAt
  <2> QED BY <1>1, <2>3, <2>4 DEF Done
<1>5. Ownership!Finish(t)
  BY <1>1, <1>3, <1>4 DEF Return, Ownership!Finish, Want
<1> QED BY <1>5 DEF Ownership!Next

\* Every step of Lower is a step of FrameOwnership, or changes no owner.
LEMMA StepMaps ==
    ASSUME OneHuge, XInv, [Next]_vars
    PROVE  [Ownership!Next]_Ownership!vars
<1>1. XInv'
  BY StepKeeps
<1>2. ASSUME NEW t \in Threads, Begin(t) \/ Step(t) PROVE Ownership!Next
  BY <1>1, <1>2, BeginMaps, ReturnMaps, StepMoves, MoveMaps
<1>3. CASE Crash
  <2>1. Want' = [t \in Threads |-> 0]
    BY <1>3 DEF Crash, Want
  <2>2. Ownership!Crash
    BY <1>3, <2>1 DEF Crash, Ownership!Crash, Want
  <2> QED BY <2>2 DEF Ownership!Next
<1>4. CASE RecoverChild \/ UNCHANGED vars
  <2>1. UNCHANGED <<pc, call, own, held, lost>>
    BY <1>4 DEF RecoverChild, vars, clients
  <2> QED BY <2>1 DEF Ownership!vars
<1> QED BY <1>2, <1>3, <1>4 DEF Next

\* What lower.h promises its callers is what the accesses to bitfields and child entries
\* add up to: a call collects only frames that are free, releases only frames of its own,
\* and ends with nothing or with one aligned block of the size asked for, which its caller
\* then owns; a crash takes at most what the calls had in hand.
THEOREM LowerImplementsOwnership ==
    ASSUME OneHuge
    PROVE  Spec => ImplementsOwnership
<1>1. Init => XInv
  BY StartsOwned
<1>2. XInv /\ [Next]_vars => XInv'
  BY StepKeeps
<1>3. XInv /\ [Next]_vars => [Ownership!Next]_Ownership!vars
  BY StepMaps
<1>4. Init => Ownership!Init
  BY DEF Init, Ownership!Init
<1> QED BY <1>1, <1>2, <1>3, <1>4, PTL DEF Spec, ImplementsOwnership, Ownership!Spec

-----------------------------------------------------------------------------
(* Calls stay in the tree that they search. *)

\* Where the block of a call that has found one lies.
Placed(t) ==
    pc[t] = "ok" /\ call[t].op # "put" =>
        ChildOf(loc[t].f) \div TREE_CHILDREN = ChildOf(call[t].frame) \div TREE_CHILDREN

WInv == XInv /\ \A t \in Threads : Placed(t)

LEMMA CurInTree ==
    ASSUME TypeOK, NEW t \in Threads
    PROVE  Cur(t) \div TREE_CHILDREN = ChildOf(call[t].frame) \div TREE_CHILDREN
<1> DEFINE s == ChildOf(call[t].frame)
<1>1. s \in Nat /\ loc[t].k \in Nat
  BY CallSize, FramePositions
<1>2. Visit(s, TREE_CHILDREN, loc[t].k) \div TREE_CHILDREN = s \div TREE_CHILDREN
  <2> DEFINE v == Visit(s, TREE_CHILDREN, loc[t].k)
             q == s \div TREE_CHILDREN
  <2>1. v \in Int /\ q \in Int
    BY <1>1, VisitInt
  <2>2. v - TREE_CHILDREN * q \in 0 .. TREE_CHILDREN - 1
    BY <1>1, VisitRange
  <2>3. TREE_CHILDREN * q <= v /\ v < TREE_CHILDREN * q + TREE_CHILDREN
    <3>1. TREE_CHILDREN * q \in Int
      BY <2>1
    <3> HIDE DEF v, q
    <3> QED BY <2>1, <2>2, <3>1
  <2> HIDE DEF v, q
  <2>4. v \div TREE_CHILDREN = q
    BY <2>1, <2>3, Quotient
  <2> QED BY <2>4 DEF v, q
<1> QED BY <1>2 DEF Cur

LEMMA SetsFrame ==
    ASSUME TypeOK, NEW t \in Threads, NEW f, SetLoc(t, [NoLoc EXCEPT !.f = f])
    PROVE  loc'[t].f = f
<1>1. loc'[t] = [NoLoc EXCEPT !.f = f]
  BY SetsLoc
<1> QED BY <1>1 DEF NoLoc, LoopAt

LEMMA SearchRowPlaces ==
    ASSUME OneHuge, XInv, NEW t \in Threads, SearchRow(t), pc'[t] = "ok"
    PROVE  ChildOf(loc'[t].f) = Cur(t)
<1> DEFINE n == call[t].n
           v == Visit(RowOf(call[t].frame) % FIELD_N, FIELD_N, loc[t].g)
<1>1. /\ TypeInv /\ TypeOK /\ pc[t] = "search" /\ AtChild(t)
  BY Now DEF SearchRow, At
<1>2. /\ n \in Nat \ {0} /\ IsSize(n) /\ n <= ATOMIC_SIZE /\ loc[t].g \in Nat
      /\ call[t].frame \in Frames
  BY <1>1, CallSize, PhaseNow DEF PhaseAt
<1>3. Cur(t) \in Nat
  BY <1>1, ChildCountNat DEF AtChild, InPart, InChild
<1>4. v \in 0 .. FIELD_N - 1
  <2>1. RowOf(call[t].frame) % FIELD_N \in 0 .. FIELD_N - 1
    BY <1>2, FramePositions
  <2> QED BY <1>2, <2>1, VisitFirst
<1> HIDE DEF v
<1>5. PICK f \in FreeInRow(FIELD_N * Cur(t) + v, n) : SetLoc(t, [NoLoc EXCEPT !.f = f])
  <2>1. ~UNCHANGED pc /\ ~Goto(t, "undec")
    BY <1>1, GoesTo
  <2> QED BY <2>1 DEF SearchRow, v
<1>6. f \in Row(FIELD_N * Cur(t) + v) /\ f % n = 0
  BY <1>5 DEF FreeInRow
<1>7. ChildOf(f) = Cur(t)
  BY <1>2, <1>3, <1>4, <1>6, BlockInRow
<1>8. loc'[t].f = f
  BY <1>1, <1>5, SetsFrame
<1> QED BY <1>7, <1>8

LEMMA SetRowPlaces ==
    ASSUME OneHuge, XInv, NEW t \in Threads, SetRow(t), pc'[t] = "ok"
    PROVE  ChildOf(loc'[t].f) = Cur(t)
<1>1. /\ TypeInv /\ TypeOK /\ pc[t] = "set" /\ AtChild(t)
  BY Now DEF SetRow, At
<1>2. ChildOf(GroupBase(t)) = Cur(t)
  BY <1>1, GroupAt DEF AtChild, InPart, InChild
<1>3. SetLoc(t, [NoLoc EXCEPT !.f = GroupBase(t)])
  <2>1. ~UNCHANGED pc /\ ~Goto(t, "unset") /\ ~NextGroup(t)
    BY <1>1, GoesTo DEF NextGroup
  <2> QED BY <2>1 DEF SetRow
<1>4. loc'[t].f = GroupBase(t)
  BY <1>1, <1>3, SetsFrame
<1> QED BY <1>2, <1>4

LEMMA HugeCasPlaces ==
    ASSUME OneHuge, XInv, NEW t \in Threads, HugeCas(t), pc'[t] = "ok"
    PROVE  ChildOf(loc'[t].f) = Cur(t)
<1>1. TypeOK /\ pc[t] = "huge" /\ HBase(t) = Cur(t) /\ Cur(t) \in Int
  BY Now, AtHuge DEF HugeCas, At
<1>2. SetLoc(t, [NoLoc EXCEPT !.f = ChildBase(HBase(t))])
  <2>1. ~UNCHANGED pc /\ ~Goto(t, "unhuge") /\ ~NextHuge(t)
    BY <1>1, GoesTo DEF NextHuge
  <2> QED BY <2>1 DEF HugeCas
<1>3. loc'[t].f = ChildBase(Cur(t))
  BY <1>1, <1>2, SetsFrame
<1>4. ChildOf(ChildBase(Cur(t))) = Cur(t)
  <2>1. ChildBase(Cur(t)) \in Int /\ ChildBase(Cur(t)) \in ChildFrames(Cur(t))
    BY <1>1, ChildSizePositive DEF ChildBase, ChildFrames, Block
  <2> QED BY <1>1, <2>1, FramesOfChild
<1> QED BY <1>3, <1>4

LEMMA TogglePlaces ==
    ASSUME OneHuge, XInv, NEW t \in Threads, NEW label \in Toggles, Toggle(t, label),
           pc'[t] = "ok"
    PROVE  loc'[t].f = call[t].frame
<1>1. TypeOK
  BY Now
<1>2. label = "mark"
  <2>1. pc'[t] \in {label, AfterToggle(label), AfterFailure(label), UndoOf(label)}
    BY <1>1, GoesTo DEF Toggle, At
  <2> QED BY <2>1 DEF Toggles, AfterToggle, AfterFailure, UndoOf
<1> DEFINE b == Target(t, label)
<1>3. b.f = call[t].frame
  BY <1>2 DEF Target
<1>4. AfterFailure(label) # "ok" /\ UndoOf(label) # "ok" /\ label # "ok"
  BY <1>2 DEF AfterFailure, UndoOf
<1>5. SetLoc(t, [NoLoc EXCEPT !.f = b.f])
  <2>1. ~UNCHANGED pc /\ ~Goto(t, IF loc[t].i = 0 THEN AfterFailure(label) ELSE UndoOf(label))
    BY <1>1, <1>4, GoesTo DEF Toggle, At
  <2> QED BY <2>1 DEF Toggle
<1> HIDE DEF b
<1>6. loc'[t].f = b.f
  BY <1>1, <1>5, SetsFrame
<1> QED BY <1>3, <1>6

\* The other steps of a get do not end it with a block.
LEMMA NotPlaced ==
    ASSUME OneHuge, XInv, NEW t \in Threads,
           \/ ChildDec(t) \/ UndoDec(t) \/ UndoSetRow(t)
           \/ \E label \in Toggles : UndoToggle(t, label)
           \/ Load(t) \/ SplitCas(t) \/ SplitWait(t) \/ UndoHuge(t)
    PROVE  pc'[t] # "ok"
<1>1. TypeOK
  BY Now
<1>2. NextChild(t) \/ NextGroup(t) \/ NextHuge(t) => UNCHANGED pc \/ \E l : l # "ok" /\ Goto(t, l)
  <2>1. "dec" # "ok" /\ "memory" # "ok" /\ "set" # "ok" /\ "undec" # "ok" /\ "huge" # "ok"
    OBVIOUS
  <2>2. (IF call[t].op = "put" THEN "argument" ELSE "memory") # "ok"
    OBVIOUS
  <2> QED BY <2>1, <2>2 DEF NextChild, NextGroup, NextHuge
<1>3. CASE ChildDec(t)
  <2>1. (IF call[t].op = "get_at" THEN "mark"
         ELSE IF call[t].n > ATOMIC_SIZE THEN "set" ELSE "search") # "ok"
    OBVIOUS
  <2> QED BY <1>1, <1>2, <1>3, <2>1, GoesTo DEF ChildDec, At
<1>4. CASE UndoDec(t) \/ UndoSetRow(t) \/ UndoHuge(t)
  BY <1>1, <1>2, <1>4, "abort" # "ok", GoesTo DEF UndoDec, UndoSetRow, UndoHuge, At
<1>5. ASSUME NEW label \in Toggles, UndoToggle(t, label) PROVE pc'[t] # "ok"
  <2>1. AfterFailure(label) # "ok" /\ UndoOf(label) # "ok"
    BY DEF Toggles, AfterFailure, UndoOf
  <2> QED BY <1>1, <1>5, <2>1, "abort" # "ok", GoesTo DEF UndoToggle, At
<1>6. CASE Load(t)
  <2>1. (IF children[Cur(t)].huge THEN "split" ELSE "clear") # "ok"
    OBVIOUS
  <2> QED BY <1>1, <1>6, <2>1, GoesTo DEF Load
<1>7. CASE SplitCas(t) \/ SplitWait(t)
  BY <1>1, <1>7, "clear" # "ok", "abort" # "ok", "memory" # "ok", GoesTo DEF SplitCas, SplitWait, At
<1> QED BY <1>3, <1>4, <1>5, <1>6, <1>7

\* Only a free can be refused for its argument once it has started.
LEMMA NotRefused ==
    ASSUME XInv, NEW t \in Threads, Step(t), ~Return(t), call[t].op # "put"
    PROVE  pc'[t] # "argument"
<1>1. TypeOK
  BY Now
<1>2. NextChild(t) \/ NextGroup(t) \/ NextHuge(t) =>
          UNCHANGED pc \/ \E l : l # "argument" /\ Goto(t, l)
  <2>1. "dec" # "argument" /\ "memory" # "argument" /\ "set" # "argument" /\ "undec" # "argument"
        /\ "huge" # "argument"
    OBVIOUS
  <2> QED BY <2>1 DEF NextChild, NextGroup, NextHuge
<1>3. CASE ChildDec(t)
  <2>1. (IF call[t].op = "get_at" THEN "mark"
         ELSE IF call[t].n > ATOMIC_SIZE THEN "set" ELSE "search") # "argument"
    OBVIOUS
  <2> QED BY <1>1, <1>2, <1>3, <2>1, GoesTo DEF ChildDec, At
<1>4. CASE UndoDec(t) \/ UndoSetRow(t) \/ UndoHuge(t)
  BY <1>1, <1>2, <1>4, "abort" # "argument", GoesTo DEF UndoDec, UndoSetRow, UndoHuge, At
<1>5. CASE SearchRow(t) \/ SetRow(t) \/ HugeCas(t)
  BY <1>1, <1>2, <1>5, "ok" # "argument", "undec" # "argument", "unset" # "argument",
     "unhuge" # "argument", GoesTo DEF SearchRow, SetRow, HugeCas, At
<1>6. ASSUME NEW label \in Toggles, Toggle(t, label) \/ UndoToggle(t, label)
      PROVE  pc'[t] # "argument"
  <2>1. /\ AfterFailure(label) # "argument" /\ UndoOf(label) # "argument"
        /\ AfterToggle(label) # "argument" /\ label # "argument"
    BY DEF Toggles, AfterFailure, UndoOf, AfterToggle
  <2>2. (IF loc[t].i = 0 THEN AfterFailure(label) ELSE UndoOf(label)) # "argument"
    BY <2>1
  <2> QED BY <1>1, <1>6, <2>1, <2>2, "abort" # "argument", GoesTo DEF Toggle, UndoToggle, At
<1>7. CASE Load(t)
  <2>1. (IF children[Cur(t)].huge THEN "split" ELSE "clear") # "argument"
    OBVIOUS
  <2> QED BY <1>1, <1>7, <2>1, GoesTo DEF Load
<1>8. CASE SplitCas(t) \/ SplitWait(t) \/ ChildInc(t)
  BY <1>1, <1>8, "clear" # "argument", "abort" # "argument", "memory" # "argument", "ok" # "argument",
     GoesTo DEF SplitCas, SplitWait, ChildInc, At
<1> QED BY <1>3, <1>4, <1>5, <1>6, <1>7, <1>8 DEF Step

LEMMA StepPlaces ==
    ASSUME OneHuge, XInv, NEW t \in Threads, Step(t)
    PROVE  Placed(t)'
<1>1. TypeOK /\ TypeInv
  BY Now
<1>2. CASE Return(t)
  BY <1>1, <1>2, GoesTo DEF Return, Placed
<1>3. CASE ~Return(t)
  <2> SUFFICES ASSUME pc'[t] = "ok", call'[t].op # "put"
               PROVE  ChildOf(loc'[t].f) \div TREE_CHILDREN
                        = ChildOf(call'[t].frame) \div TREE_CHILDREN
    BY DEF Placed
  <2>1. call'[t] = call[t]
    BY <1>3, StepMoves DEF Moves, Inside
  <2>2. ~ChildInc(t)
    <3>1. pc[t] = "inc" => call[t].op = "put"
      BY <1>1, PhaseNow DEF PhaseAt
    <3> QED BY <2>1, <3>1 DEF ChildInc, At
  <2>3. ChildOf(loc'[t].f) = Cur(t) \/ loc'[t].f = call[t].frame
    BY <1>3, <2>2, NotPlaced, SearchRowPlaces, SetRowPlaces, HugeCasPlaces, TogglePlaces DEF Step
  <2> QED BY <1>1, <2>1, <2>3, CurInTree
<1> QED BY <1>2, <1>3

LEMMA StepsPlace ==
    ASSUME OneHuge, WInv, [Next]_vars
    PROVE  WInv'
<1>1. XInv' /\ XInv
  BY StepKeeps DEF WInv
<1>2. ASSUME NEW t \in Threads PROVE Placed(t)'
  <2>1. CASE Crash \/ RecoverChild \/ UNCHANGED vars
    BY <2>1 DEF Crash, RecoverChild, vars, Placed, WInv
  <2>2. ASSUME NEW u \in Threads, Begin(u) PROVE Placed(t)'
    <3>1. TypeOK
      BY <1>1, Now
    <3>2. /\ \A w \in Threads \ {u} : pc'[w] = pc[w] /\ call'[w] = call[w]
          /\ loc' = loc /\ pc'[u] # "ok"
      <4>1. \E l : l # "ok" /\ Goto(u, l)
        <5>1. \A n : (IF n >= CHILD_SIZE THEN "huge" ELSE "dec") # "ok"
                      /\ (IF n >= CHILD_SIZE THEN "huge" ELSE "load") # "ok"
          OBVIOUS
        <5>2. \A f, n : (IF ~InRange(f, n) THEN "argument"
                          ELSE IF n >= CHILD_SIZE THEN "huge" ELSE "dec") # "ok"
          OBVIOUS
        <5> QED BY <2>2, <5>1, <5>2, "argument" # "ok" DEF Begin, Get, GetAt, Put, PutInvalid
      <4>2. loc' = loc /\ \E c : call' = [call EXCEPT ![u] = c]
        BY <2>2 DEF Begin, Get, GetAt, Put, PutInvalid
      <4> QED BY <3>1, <4>1, <4>2, GoesTo DEF TypeOK
    <3> QED BY <3>2 DEF Placed, WInv
  <2>3. ASSUME NEW u \in Threads, Step(u) PROVE Placed(t)'
    <3>1. CASE u = t
      BY <1>1, <2>3, <3>1, StepPlaces
    <3>2. CASE u # t
      <4>1. pc'[t] = pc[t] /\ call'[t] = call[t] /\ loc'[t] = loc[t]
        <5>1. CASE Return(u)
          BY <1>1, <3>2, <5>1, Now, GoesTo, SetsLoc DEF Return, TypeOK
        <5>2. CASE ~Return(u)
          <6>1. Inside(u)
            BY <1>1, <2>3, <5>2, StepMoves DEF Moves
          <6> QED BY <3>2, <6>1 DEF Inside, Others
        <5> QED BY <5>1, <5>2
      <4> QED BY <4>1 DEF Placed, WInv
    <3> QED BY <3>1, <3>2
  <2> QED BY <2>1, <2>2, <2>3 DEF Next
<1> QED BY <1>1, <1>2 DEF WInv

\* The frames of a call lie in its tree, wherever it is in its search.
LEMMA OwnInTree ==
    ASSUME OneHuge, WInv
    PROVE  InTree
<1> SUFFICES ASSUME NEW t \in Threads, pc[t] \notin {"idle", "abort"}, NEW f \in own[t]
             PROVE  ChildOf(f) \div TREE_CHILDREN = ChildOf(call[t].frame) \div TREE_CHILDREN
  BY DEF InTree
<1> DEFINE n == call[t].n
           g == call[t].frame
<1>1. /\ XInv /\ TypeInv /\ TypeOK /\ OwnAt(t) /\ AtChild(t) /\ own[t] \subseteq Frames
      /\ Placed(t)
  BY Now DEF WInv
<1>2. n \in Nat \ {0} /\ IsSize(n) /\ n <= CHILD_SIZE /\ g \in Int /\ f \in Int
  BY <1>1, About DEF WInv, Frames
<1>3. CASE pc[t] \in InPart
  <2>1. f \in ChildFrames(Cur(t)) /\ Cur(t) \in Int
    BY <1>1, <1>3, ChildRanges DEF AtChild
  <2> QED BY <1>1, <1>2, <2>1, FramesOfChild, CurInTree
<1>4. CASE own[t] = Block(g, n) /\ InRange(g, n)
  <2>1. Block(g, n) \subseteq ChildFrames(ChildOf(g))
    BY <1>2, <1>4, BlockInChild DEF InRange
  <2>2. ChildOf(g) \in Int
    BY <1>2, ChildSizePositive DEF ChildOf
  <2> QED BY <1>2, <1>4, <2>1, <2>2, FramesOfChild
<1>5. CASE pc[t] = "ok"
  <2>1. call[t].op # "put" /\ own[t] = Block(loc[t].f, n) /\ loc[t].f % n = 0 /\ loc[t].f \in Int
    BY <1>1, <1>5 DEF OwnAt, Frames
  <2>2. Block(loc[t].f, n) \subseteq ChildFrames(ChildOf(loc[t].f))
    BY <1>2, <2>1, BlockInChild
  <2>3. ChildOf(loc[t].f) \in Int
    BY <2>1, ChildSizePositive DEF ChildOf
  <2>4. ChildOf(f) = ChildOf(loc[t].f)
    BY <1>2, <2>1, <2>2, <2>3, FramesOfChild
  <2> QED BY <1>1, <1>5, <2>1, <2>4 DEF Placed
<1>6. CASE pc[t] \in {"dec", "huge", "memory", "argument"}
  <2>1. own[t] = {} \/ (own[t] = Block(g, n) /\ InRange(g, n))
    BY <1>1, <1>6 DEF OwnAt
  <2> QED BY <1>4, <2>1
<1> QED BY <1>1, <1>3, <1>5, <1>6 DEF TypeOK, Labels, Done, InPart, InChild, Splitting, OwnAt

\* A call of lower_get or lower_get_at marks and returns frames of the tree of its start
\* frame only: the counters of no other tree have to answer for them.
THEOREM CallsStayInTree ==
    ASSUME OneHuge
    PROVE  Spec => []InTree
<1>1. Init => WInv
  BY StartsOwned DEF Init, WInv, Placed
<1>2. WInv /\ [Next]_vars => WInv'
  BY StepsPlace
<1>3. WInv => InTree
  BY OwnInTree
<1> QED BY <1>1, <1>2, <1>3, PTL DEF Spec
=============================================================================
