---------------------------- MODULE LowerCounted ----------------------------
(***************************************************************************)
(* Lower's counters, bits and owners agree at every step, no assertion     *)
(* fails and no free is refused, as long as huge pages are split by one    *)
(* thread only and no call asks for several rows at an exact position: for *)
(* every geometry and mix of sizes up to one huge page, with crashes.  A   *)
(* search that nobody disturbs finds what there is, and reports that are   *)
(* read between calls are exact.                                           *)
(***************************************************************************)
EXTENDS LowerProofs, LowerStats

USE GeometryAssumption, LowerAssumption

-----------------------------------------------------------------------------
(* The clients. *)

\* A single thread.
Alone == \A t, u \in Threads : t = u

\* What the clients leave out.  Two threads that split the same huge page at a time can
\* abort, and so does lower_get_at of several rows when one is taken (run undo_rows).
Modest == /\ OneHuge
          /\ Split => Alone
          /\ \A n \in AtSizes : n <= ATOMIC_SIZE \/ n = CHILD_SIZE

-----------------------------------------------------------------------------
(* The invariant. *)

\* Where a call is not, and what it finds: frees of a huge page find one, frees of parts
\* do not or split it, and neither is refused.
Plain(t) ==
    /\ pc[t] \notin {"unsplit", "wait", "unmark", "abort"}
    /\ pc[t] = "load" /\ ~Split => ~children[Cur(t)].huge
    /\ pc[t] \in {"split", "split_cas"} => Split /\ children[Cur(t)].huge
    /\ pc[t] = "huge" /\ call[t].op = "put" => children[Cur(t)].huge
    /\ call[t].op = "get_at" => call[t].n \in AtSizes
    /\ call[t].op = "put" /\ InRange(call[t].frame, call[t].n)
         => pc[t] \notin {"memory", "argument"}

PlainOK == \A t \in Threads : Plain(t)

\* Every frame that is marked is owned.
BitsOK == \A f \in AllFrames : Mark(f) => f \in Owned

\* A bit in the field of a huge page was set by a split, which goes on or was cut off by
\* a crash.
Dirty(f) ==
    \/ boot <= ChildOf(f)
    \/ \E t \in Threads :
          /\ pc[t] \in {"split", "split_cas"} /\ Cur(t) = ChildOf(f)
          /\ pc[t] = "split" => f \in Block(ChildBase(Cur(t)), loc[t].i * Unit(CHILD_SIZE))

FieldsOK == \A f \in AllFrames : children[ChildOf(f)].huge /\ f \in bits => Dirty(f)

\* At other times the field of a huge page is clear, and every frame is marked only once.
Tidy ==
    \A f \in AllFrames :
        /\ Mark(f) => f \in Owned
        /\ ~(children[ChildOf(f)].huge /\ f \in bits)

\* No frame of a child is missing from its counter.
SumOK == \A c \in 0 .. boot - 1 : ~children[c].huge => Sum(c) = CHILD_SIZE

FreeOK == \A c \in Children : children[c].huge => children[c] = HugeChild

YInv == XInv /\ PlainOK /\ BitsOK /\ FieldsOK /\ SumOK /\ FreeOK

-----------------------------------------------------------------------------
(* Kinds of steps. *)

\* Bits and owners change together, if at all.
Carries(t) ==
    \/ bits' = bits /\ own'[t] = own[t]
    \/ /\ pc[t] \in InChild
       /\ \E P : \/ bits' = bits \cup P /\ own'[t] = own[t] \cup P
                 \/ bits' = bits \ P /\ own'[t] = own[t] \ P

\* The child of every frame is counted.
LEMMA FrameChild ==
    ASSUME NEW f \in AllFrames
    PROVE  f \in Int /\ ChildOf(f) \in 0 .. ChildCount - 1 /\ ChildOf(f) \in Children
BY OwnedInAll, ChildRanges

\* A thread that does not move is where it was, as long as the child it works on stays
\* what it is.
LEMMA OthersPlain ==
    ASSUME YInv, NEW u \in Threads, pc'[u] = pc[u], call'[u] = call[u], loc'[u] = loc[u],
           own'[u] = own[u],
           pc[u] = "load" => children'[Cur(u)].huge = children[Cur(u)].huge
                                \/ ~children'[Cur(u)].huge,
           pc[u] \in {"split", "split_cas"} =>
                children'[Cur(u)].huge = children[Cur(u)].huge,
           pc[u] = "huge" /\ call[u].op = "put" =>
                children'[Cur(u)].huge = children[Cur(u)].huge \/ children'[Cur(u)].huge
    PROVE  Plain(u)'
<1>1. Plain(u) /\ OwnAt(u)
  BY Now DEF YInv, PlainOK
<1>2. Cur(u)' = Cur(u)
  BY <1>1, OthersStay
<1> QED BY <1>1, <1>2 DEF Plain

\* Between calls that split, the fields of huge pages are clear.
LEMMA Clean ==
    ASSUME Modest, YInv, ~Recovering, NEW t \in Threads, pc[t] \notin {"split", "split_cas"}
    PROVE  Tidy
<1> SUFFICES ASSUME NEW f \in AllFrames, children[ChildOf(f)].huge, f \in bits PROVE FALSE
  BY DEF Tidy, YInv, BitsOK
<1>1. TypeOK /\ PlainOK /\ FieldsOK
  BY DEF YInv, XInv, TypeInv
<1>2. ~(boot <= ChildOf(f))
  BY <1>1, FrameChild, ChildCountNat DEF Recovering, TypeOK
<1>3. PICK u \in Threads : pc[u] \in {"split", "split_cas"}
  BY <1>1, <1>2 DEF FieldsOK, Dirty
<1>4. u = t
  BY <1>1, <1>3 DEF PlainOK, Plain, Modest, Alone
<1> QED BY <1>3, <1>4

LEMMA TidyNext == Tidy' => BitsOK' /\ FieldsOK'
BY DEF Tidy, BitsOK, FieldsOK

LEMMA TidyNow == Tidy => BitsOK /\ FieldsOK
BY DEF Tidy, BitsOK, FieldsOK

\* A step of t that takes as much from a counter as it adds to the weight of t moves no
\* other thread out of its place.
LEMMA CalmSums ==
    ASSUME Modest, YInv, TypeInv', XInv', NEW t \in Threads, Calm(t), Even(t)
    PROVE  /\ SumOK' /\ FreeOK' /\ \A u \in Threads \ {t} : Plain(u)'
           /\ \A c \in Children : children'[c].huge = children[c].huge
<1>1. /\ OneHuge /\ XInv /\ TypeInv /\ Exclusive /\ InRangeOwned /\ OwnOK /\ CountOK
      /\ PlainOK /\ SumOK /\ FreeOK
  BY DEF Modest, YInv, XInv
<1>3. /\ Inside(t) /\ own'[t] \subseteq Frames /\ own'[t] \cap Rest(t) = {}
      /\ boot' = boot
      /\ \A u \in Threads \ {t} :
            pc'[u] = pc[u] /\ call'[u] = call[u] /\ loc'[u] = loc[u] /\ own'[u] = own[u]
  BY DEF Calm, Inside, Others, system
<1>4. \A c \in Children : children'[c].huge = children[c].huge
  <2> SUFFICES ASSUME NEW c \in Children PROVE children'[c].huge = children[c].huge
    OBVIOUS
  <2>1. children[c].huge \in BOOLEAN /\ children'[c].huge \in BOOLEAN
    BY <1>1 DEF TypeInv, TypeOK, ChildType
  <2> QED BY <2>1 DEF Calm
<1>5. \A u \in Threads \ {t} : Plain(u)'
  <2> SUFFICES ASSUME NEW u \in Threads \ {t} PROVE Plain(u)'
    OBVIOUS
  <2>1. pc[u] \in {"load", "huge", "split", "split_cas"} => Cur(u) \in Children
    BY <1>1, AtHuge, Now, ChildRanges DEF AtChild, InPart, Splitting
  <2> QED BY <1>3, <1>4, <2>1, OthersPlain
<1>7. SumOK'
  <2> SUFFICES ASSUME NEW c \in 0 .. boot - 1, ~children'[c].huge
               PROVE  Sum(c)' = CHILD_SIZE
    BY <1>3 DEF SumOK
  <2>1. c \in Children
    BY <1>1, ChildRanges DEF TypeInv, TypeOK
  <2>2. Sum(c) = CHILD_SIZE /\ IsFiniteSet(Owing(c))
    BY <1>1, <1>4, <2>1 DEF SumOK, CountOK
  <2>3. children'[c].free + Weight(t, c)' = children[c].free + Weight(t, c)
    BY <2>1 DEF Even
  <2>4. OwnOK'
    BY DEF XInv
  <2>5. /\ Sum(c) \in Nat /\ Sum(c)' \in Nat
        /\ Weight(t, c) \in Nat /\ Weight(t, c)' \in Nat
        /\ Sum(c)' = Sum(c) - children[c].free - Weight(t, c)
                       + children'[c].free + Weight(t, c)'
    BY <1>1, <1>3, <2>1, <2>2, <2>4, SumStep
  <2>6. children[c].free \in Nat /\ children'[c].free \in Nat
    BY <1>1, <2>1, ChildSizePositive DEF TypeInv, TypeOK, ChildType
  <2> QED BY <2>2, <2>3, <2>5, <2>6
<1>8. FreeOK'
  <2> SUFFICES ASSUME NEW c \in Children, children'[c].huge PROVE children'[c] = HugeChild
    BY DEF FreeOK
  <2>1. children[c].huge
    BY <1>4
  <2> QED BY <1>1, <2>1 DEF FreeOK, Calm
<1> QED BY <1>4, <1>5, <1>7, <1>8

\* A step inside a call that makes no child a huge page and splits none.
LEMMA CalmCounts ==
    ASSUME Modest, YInv, TypeInv', NEW t \in Threads, ~Recovering, Calm(t), Even(t),
           Carries(t), Plain(t)', pc[t] \notin {"split", "split_cas"}
    PROVE  YInv'
<1>1. /\ OneHuge /\ XInv /\ TypeInv /\ Exclusive /\ InRangeOwned /\ OwnOK /\ CountOK
      /\ PlainOK /\ Tidy /\ SumOK /\ FreeOK
  BY Clean DEF Modest, YInv, XInv
<1>2. XInv'
  BY <1>1, CalmStep
<1>3. /\ Inside(t) /\ own'[t] \subseteq Frames /\ own'[t] \cap Rest(t) = {}
      /\ boot' = boot
      /\ \A u \in Threads \ {t} :
            pc'[u] = pc[u] /\ call'[u] = call[u] /\ loc'[u] = loc[u] /\ own'[u] = own[u]
  BY DEF Calm, Inside, Others, system
<1>4. /\ SumOK' /\ FreeOK' /\ \A u \in Threads \ {t} : Plain(u)'
      /\ \A c \in Children : children'[c].huge = children[c].huge
  BY <1>2, CalmSums
<1>5. PlainOK'
  BY <1>4 DEF PlainOK
<1>6. Tidy'
  <2> SUFFICES ASSUME NEW f \in AllFrames
               PROVE  /\ Mark(f)' => f \in Owned'
                      /\ ~(children'[ChildOf(f)].huge /\ f \in bits')
    BY DEF Tidy
  <2>1. /\ Mark(f) => f \in Owned
        /\ ~(children[ChildOf(f)].huge /\ f \in bits)
        /\ children'[ChildOf(f)].huge = children[ChildOf(f)].huge
    BY <1>1, <1>4, FrameChild DEF Tidy
  <2>2. Owned = Rest(t) \cup own[t] /\ Owned' = Rest(t) \cup own'[t]
    BY <1>1, <1>3, OwnedSplit, OwnedAfter
  <2>3. CASE bits' = bits /\ own'[t] = own[t]
    BY <2>1, <2>2, <2>3 DEF Mark
  <2>a. pc[t] \in InChild /\ f \in own[t] => ~children[ChildOf(f)].huge
    <3> SUFFICES ASSUME pc[t] \in InChild, f \in own[t] PROVE ~children[ChildOf(f)].huge
      OBVIOUS
    <3>1. f \in ChildFrames(Cur(t)) /\ Cur(t) \in Int /\ ~children[Cur(t)].huge
      BY <1>1, Now, ChildRanges DEF AtChild, InPart
    <3>2. ChildOf(f) = Cur(t)
      BY <3>1, FrameChild, FramesOfChild
    <3> QED BY <3>1, <3>2
  <2>4. ASSUME NEW P, bits' = bits \cup P, own'[t] = own[t] \cup P, pc[t] \in InChild
        PROVE  /\ Mark(f)' => f \in Owned'
               /\ ~(children'[ChildOf(f)].huge /\ f \in bits')
    <3>1. Mark(f)' => f \in Owned'
      BY <2>1, <2>2, <2>4 DEF Mark
    <3>2. ASSUME f \in P, children[ChildOf(f)].huge PROVE FALSE
      <4>1. f \in own[t]
        BY <1>3, <2>1, <2>2, <2>4, <3>2 DEF Mark
      <4> QED BY <2>4, <2>a, <3>2, <4>1
    <3> QED BY <2>1, <2>4, <3>1, <3>2
  <2>5. ASSUME NEW P, bits' = bits \ P, own'[t] = own[t] \ P, pc[t] \in InChild
        PROVE  /\ Mark(f)' => f \in Owned'
               /\ ~(children'[ChildOf(f)].huge /\ f \in bits')
    <3>1. CASE children[ChildOf(f)].huge
      <4>1. f \in Rest(t)
        BY <2>1, <2>2, <2>5, <2>a, <3>1 DEF Mark
      <4> QED BY <2>1, <2>2, <2>5, <4>1
    <3>2. CASE ~children[ChildOf(f)].huge
      BY <2>1, <2>2, <2>5, <3>2 DEF Mark
    <3> QED BY <3>1, <3>2
  <2> QED BY <2>3, <2>4, <2>5, Zenon DEF Carries
<1> QED BY <1>2, <1>4, <1>5, <1>6, TidyNext DEF YInv

\* A child becomes a huge page, or one that is full or that nobody has a part of: the
\* others count what they did.
LEMMA FlagSums ==
    ASSUME Modest, YInv, TypeInv', XInv', NEW t \in Threads, NEW d \in 0 .. ChildCount - 1,
           NEW e, FlagChange(t, d, e), e = HugeChild \/ (~e.huge /\ Sum(d)' = CHILD_SIZE)
    PROVE  /\ SumOK' /\ FreeOK' /\ children'[d] = e
           /\ \A c \in Children \ {d} : children'[c] = children[c]
<1>1. /\ OneHuge /\ XInv /\ TypeInv /\ TypeOK /\ Exclusive /\ InRangeOwned /\ OwnOK /\ CountOK
      /\ SumOK /\ FreeOK
  BY DEF Modest, YInv, XInv, TypeInv
<1>2. /\ Inside(t) /\ children' = [children EXCEPT ![d] = e]
      /\ own'[t] \cap Rest(t) = {} /\ boot' = boot
  BY DEF FlagChange, Inside, system
<1>3. d \in Children /\ d \in Int
  BY ChildRanges
<1>4. children'[d] = e /\ \A c \in Children \ {d} : children'[c] = children[c]
  BY <1>1, <1>2, <1>3 DEF TypeOK
<1>5. HugeChild.huge = TRUE
  BY DEF HugeChild, Child
<1>6. SumOK'
  <2> SUFFICES ASSUME NEW c \in 0 .. boot - 1, ~children'[c].huge
               PROVE  Sum(c)' = CHILD_SIZE
    BY <1>2 DEF SumOK
  <2>1. c \in Children
    BY <1>1, ChildRanges DEF TypeInv, TypeOK
  <2>2. CASE c = d
    BY <1>4, <1>5, <2>2
  <2>3. CASE c # d
    <3>1. children'[c] = children[c]
      BY <1>4, <2>1, <2>3
    <3>2. Sum(c) = CHILD_SIZE /\ IsFiniteSet(Owing(c))
      BY <1>1, <3>1 DEF SumOK, CountOK
    <3>3. Weight(t, c)' = Weight(t, c)
      BY <2>1, <2>3 DEF FlagChange
    <3>4. OwnOK'
      BY DEF XInv
    <3>5. /\ Sum(c) \in Nat /\ Sum(c)' \in Nat
          /\ Weight(t, c) \in Nat /\ Weight(t, c)' \in Nat
          /\ Sum(c)' = Sum(c) - children[c].free - Weight(t, c)
                         + children'[c].free + Weight(t, c)'
      BY <1>1, <1>2, <2>1, <3>2, <3>4, SumStep
    <3>6. children[c].free \in Nat
      BY <1>1, <2>1, ChildSizePositive DEF TypeOK, ChildType
    <3> QED BY <3>1, <3>2, <3>3, <3>5, <3>6
  <2> QED BY <2>2, <2>3
<1>7. FreeOK'
  <2> SUFFICES ASSUME NEW c \in Children, children'[c].huge PROVE children'[c] = HugeChild
    BY DEF FreeOK
  <2>1. CASE c = d
    BY <1>4, <2>1
  <2>2. CASE c # d
    <3>1. children'[c] = children[c]
      BY <1>4, <2>2
    <3> QED BY <1>1, <3>1 DEF FreeOK
  <2> QED BY <2>1, <2>2
<1> QED BY <1>4, <1>6, <1>7

\* A child becomes a huge page that t gets, or is freed by t as one.
LEMMA TurnCounts ==
    ASSUME Modest, YInv, TypeInv', XInv', NEW t \in Threads, ~Recovering, pc[t] \notin {"split", "split_cas"},
           NEW d \in 0 .. ChildCount - 1, NEW e, FlagChange(t, d, e), Plain(t)',
           \/ /\ e = HugeChild /\ children[d] = FreeChild
              /\ own[t] = {} /\ own'[t] = ChildFrames(d)
           \/ /\ e = FreeChild /\ children[d] = HugeChild
              /\ own[t] = ChildFrames(d) /\ own'[t] = {} /\ Sum(d)' = CHILD_SIZE
    PROVE  YInv'
<1>1. /\ OneHuge /\ XInv /\ TypeInv /\ TypeOK /\ Exclusive /\ InRangeOwned /\ OwnOK /\ CountOK
      /\ PlainOK /\ Tidy /\ SumOK /\ FreeOK
  BY Clean DEF Modest, YInv, XInv, TypeInv
<1>2. /\ Inside(t) /\ bits' = bits /\ children' = [children EXCEPT ![d] = e]
      /\ own'[t] \cap Rest(t) = {} /\ boot' = boot
      /\ \A u \in Threads \ {t} :
            pc'[u] = pc[u] /\ call'[u] = call[u] /\ loc'[u] = loc[u] /\ own'[u] = own[u]
  BY DEF FlagChange, Inside, Others, system
<1>3. d \in Children /\ d \in Int
  BY ChildRanges
<1>4. children'[d] = e /\ \A c \in Children \ {d} : children'[c] = children[c]
  BY <1>1, <1>2, <1>3 DEF TypeOK
<1>5. HugeChild.huge = TRUE /\ FreeChild.huge = FALSE
  BY DEF HugeChild, FreeChild, Child
<1>6. ASSUME e = HugeChild
      PROVE  /\ Owned \cap ChildFrames(d) = {} /\ children[d] = FreeChild
             /\ \A u \in Threads : pc[u] \in InPart => Cur(u) # d
             /\ own[t] = {} /\ own'[t] = ChildFrames(d)
  <2>1. e # FreeChild
    BY <1>5, <1>6
  <2> QED BY <1>1, <2>1, FreeAlone
<1>7. ASSUME e = FreeChild
      PROVE  /\ children[d] = HugeChild /\ own[t] = ChildFrames(d) /\ own'[t] = {}
             /\ Sum(d)' = CHILD_SIZE
  <2>1. e # HugeChild
    BY <1>5, <1>7
  <2> QED BY <2>1
<1>8. e = HugeChild \/ e = FreeChild
  OBVIOUS
<1>9. PlainOK'
  <2> SUFFICES ASSUME NEW u \in Threads \ {t} PROVE Plain(u)'
    BY DEF PlainOK
  <2>1. pc[u] \in {"load", "huge"} => Cur(u) \in Children
    BY <1>1, AtHuge, Now, ChildRanges DEF AtChild, InPart
  <2>2. ASSUME pc[u] = "load"
        PROVE  children'[Cur(u)].huge = children[Cur(u)].huge \/ ~children'[Cur(u)].huge
    <3>1. CASE Cur(u) # d
      BY <1>4, <2>1, <2>2, <3>1
    <3>2. CASE Cur(u) = d /\ e = HugeChild
      BY <1>6, <2>2, <3>2 DEF InPart
    <3>3. CASE Cur(u) = d /\ e = FreeChild
      BY <1>4, <1>5, <3>3
    <3> QED BY <1>8, <3>1, <3>2, <3>3
  <2>3. ASSUME pc[u] = "huge", call[u].op = "put"
        PROVE  children'[Cur(u)].huge = children[Cur(u)].huge \/ children'[Cur(u)].huge
    <3>1. CASE Cur(u) # d
      BY <1>4, <2>1, <2>3, <3>1
    <3>2. CASE Cur(u) = d /\ e = HugeChild
      BY <1>4, <1>5, <3>2
    <3>3. CASE Cur(u) = d /\ e = FreeChild
      <4>1. own[u] = Block(call[u].frame, CHILD_SIZE) /\ ChildOf(call[u].frame) = d
        BY <1>1, <2>3, <3>3, AtHuge DEF Cur
      <4>2. call[u].frame \in Int
        BY <1>1, CallSize DEF Frames
      <4>3. call[u].frame \in own[u]
        BY <4>1, <4>2, ChildSizePositive DEF Block
      <4>4. call[u].frame \in own[t]
        BY <1>3, <1>7, <3>3, <4>1, <4>2, FramesOfChild
      <4>5. own[u] \cap own[t] = {}
        BY <1>1 DEF Exclusive
      <4> QED BY <4>3, <4>4, <4>5
    <3> QED BY <1>8, <3>1, <3>2, <3>3
  <2>4. pc[u] \notin {"split", "split_cas"}
    BY <1>1 DEF PlainOK, Plain, Modest, Alone
  <2> QED BY <1>2, <2>2, <2>3, <2>4, OthersPlain
<1>10. Tidy'
  <2> SUFFICES ASSUME NEW f \in AllFrames
               PROVE  /\ Mark(f)' => f \in Owned'
                      /\ ~(children'[ChildOf(f)].huge /\ f \in bits')
    BY DEF Tidy
  <2>1. /\ Mark(f) => f \in Owned
        /\ ~(children[ChildOf(f)].huge /\ f \in bits)
    BY <1>1 DEF Tidy
  <2>2. Owned = Rest(t) \cup own[t] /\ Owned' = Rest(t) \cup own'[t]
    BY <1>1, <1>2, OwnedSplit, OwnedAfter
  <2>3. f \in ChildFrames(d) <=> ChildOf(f) = d
    BY <1>3, FrameChild, FramesOfChild
  <2>4. CASE ChildOf(f) # d
    <3>1. children'[ChildOf(f)] = children[ChildOf(f)]
      BY <1>4, <2>4, FrameChild
    <3>2. f \in own[t] => f \in own'[t]
      BY <1>6, <1>7, <1>8, <2>3, <2>4
    <3> QED BY <1>2, <2>1, <2>2, <3>1, <3>2 DEF Mark
  <2>5. CASE ChildOf(f) = d /\ e = HugeChild
    <3>1. f \in own'[t]
      BY <1>6, <2>3, <2>5
    <3>2. f \notin bits
      BY <1>6, <2>1, <2>3, <2>5 DEF Mark
    <3> QED BY <1>2, <2>2, <3>1, <3>2
  <2>6. CASE ChildOf(f) = d /\ e = FreeChild
    <3>1. f \notin bits
      BY <1>5, <1>7, <2>1, <2>6
    <3>2. ~children'[ChildOf(f)].huge
      BY <1>4, <1>5, <2>6
    <3> QED BY <1>2, <3>1, <3>2 DEF Mark
  <2> QED BY <1>8, <2>4, <2>5, <2>6
<1>11. SumOK' /\ FreeOK'
  BY <1>5, <1>7, <1>8, FlagSums
<1> QED BY <1>9, <1>10, <1>11, TidyNext DEF YInv

\* A call whose frames have left its counter, or not yet returned to it, can give back
\* as many as it is for.
LEMMA RoomFor ==
    ASSUME Modest, YInv, ~Recovering, NEW t \in Threads, pc[t] \in {"undec", "inc"}
    PROVE  CanInc(Cur(t), call[t].n)
<1> DEFINE a == DueAt(Cur(t))
<1>1. /\ OneHuge /\ XInv /\ TypeInv /\ TypeOK /\ OwnOK /\ CountOK
      /\ Cur(t) \in 0 .. ChildCount - 1 /\ ~children[Cur(t)].huge /\ own[t] = {}
  <2>1. AtChild(t) /\ OwnAt(t) /\ pc[t] \in InChild /\ XInv
    BY Now DEF YInv, InChild
  <2> QED BY <2>1 DEF AtChild, OwnAt, InPart, Modest, XInv, TypeInv
<1>2. Cur(t) \in Children /\ Cur(t) \in Int /\ boot = ChildCount
  BY <1>1, ChildRanges DEF Recovering, TypeOK
<1>3. IsFiniteSet(Owing(Cur(t))) /\ Sum(Cur(t)) <= CHILD_SIZE
  BY <1>1, <1>2 DEF CountOK
<1>4. /\ Cardinality(Owned \cap ChildFrames(Cur(t))) \in Nat
      /\ Cardinality(Owing(Cur(t))) \in Nat /\ children[Cur(t)].free \in Nat
  <2>1. Cardinality(Owned \cap ChildFrames(Cur(t))) \in Nat
    BY <1>2, ChildFinite
  <2>2. Cardinality(Owing(Cur(t))) \in Nat
    BY <1>3, FS_CardinalityType
  <2>3. children[Cur(t)].free \in Nat
    BY <1>1, <1>2, ChildSizePositive DEF TypeOK, ChildType
  <2> QED BY <2>1, <2>2, <2>3
<1>5. call[t].n \in Nat /\ CHILD_SIZE \in Nat
  BY <1>1, CallSize, ChildSizePositive
<1>6. a[t] = call[t].n
  <2>1. Cardinality(own[t]) = 0
    BY <1>1, FS_EmptySet
  <2>2. a[t] = call[t].n - Cardinality(own[t])
    BY DEF DueAt, InChild
  <2> QED BY <1>5, <2>1, <2>2
<1>7. a \in [Threads -> 0 .. CHILD_SIZE] /\ Owing(Cur(t)) = Pairs(Threads, CHILD_SIZE, a)
  BY <1>1, <1>2, OwingIsPairs
<1> HIDE DEF a
<1>8. Update(Threads, CHILD_SIZE, a, a, {t})
  BY <1>3, <1>5, <1>7 DEF Update
<1>9. a[t] <= Cardinality(Owing(Cur(t)))
  BY <1>7, <1>8, OneBounded
<1>10. children[Cur(t)].free + call[t].n <= Sum(Cur(t))
  BY <1>4, <1>5, <1>6, <1>9 DEF Sum
<1>11. Sum(Cur(t)) \in Nat
  BY <1>4 DEF Sum
<1>12. children[Cur(t)].free + call[t].n <= CHILD_SIZE
  BY <1>3, <1>4, <1>5, <1>10, <1>11
<1> QED BY <1>1, <1>12 DEF CanInc

-----------------------------------------------------------------------------
(* The steps inside a call. *)

\* What the invariant says about one thread.
LEMMA Here ==
    ASSUME Modest, YInv, NEW t \in Threads
    PROVE  /\ OneHuge /\ XInv /\ TypeInv /\ TypeOK /\ Plain(t) /\ OwnAt(t) /\ AtChild(t)
           /\ PhaseAt(call[t], pc[t])
           /\ \A n \in AtSizes : n <= ATOMIC_SIZE \/ n = CHILD_SIZE
BY Now, PhaseNow DEF Modest, YInv, PlainOK

\* Going on: a call that is at a label where Plain says nothing.
LEMMA PlainAt ==
    ASSUME NEW t \in Threads, Plain(t), call'[t] = call[t],
           pc'[t] \notin Splitting \cup {"unmark", "abort", "load", "huge"},
           call[t].op = "put" => pc'[t] \notin {"memory", "argument"}
    PROVE  Plain(t)'
BY DEF Plain, Splitting

\* lower_get and lower_get_at below a huge page.
LEMMA SmallCounts ==
    ASSUME Modest, YInv, TypeInv', NEW t \in Threads,
           ChildDec(t) \/ UndoDec(t) \/ SearchRow(t) \/ SetRow(t) \/ UndoSetRow(t)
    PROVE  YInv'
<1>1. /\ OneHuge /\ XInv /\ TypeInv /\ TypeOK /\ Plain(t) /\ OwnAt(t)
      /\ PhaseAt(call[t], pc[t])
  BY Here
<1>2. ~Recovering /\ call' = call
  BY DEF ChildDec, UndoDec, SearchRow, SetRow, UndoSetRow, At
<1>3. call[t].op # "put" /\ pc[t] \notin {"split", "split_cas"}
  BY <1>1 DEF ChildDec, UndoDec, SearchRow, SetRow, UndoSetRow, At, PhaseAt
<1>4. ASSUME Carries(t), Calm(t), Even(t),
             pc'[t] \in {"dec", "mark", "set", "unset", "search", "ok", "undec", "memory"}
      PROVE  YInv'
  <2>1. Plain(t)'
    BY <1>1, <1>2, <1>3, <1>4, PlainAt DEF Splitting
  <2> QED BY <1>2, <1>3, <1>4, <2>1, CalmCounts
<1>5. NextChild(t) => pc'[t] \in {"dec", "memory"}
  BY <1>1, GoesTo DEF NextChild
<1>6. NextGroup(t) => pc'[t] \in {"set", "undec"}
  BY <1>1, GoesTo DEF NextGroup
<1>7. CASE ChildDec(t)
  <2>1. pc'[t] \in {"dec", "mark", "set", "search", "memory"}
    BY <1>1, <1>5, <1>7, GoesTo DEF ChildDec
  <2>2. bits' = bits /\ own'[t] = own[t]
    BY <1>7 DEF ChildDec
  <2> QED BY <1>1, <1>4, <1>7, <2>1, <2>2, ChildDecCalm DEF Carries
<1>8. CASE UndoDec(t)
  <2>1. CanInc(Cur(t), call[t].n)
    BY <1>2, <1>8, RoomFor DEF UndoDec, At
  <2>2. pc'[t] \in {"dec", "memory"}
    BY <1>5, <1>8, <2>1 DEF UndoDec
  <2>3. bits' = bits /\ own'[t] = own[t]
    BY <1>8 DEF UndoDec
  <2>4. Calm(t) /\ Even(t)
    BY <1>1, <1>8, <2>2, UndoDecCalm
  <2> QED BY <1>4, <2>2, <2>3, <2>4 DEF Carries
<1>9. CASE SearchRow(t)
  <2>1. pc[t] = "search" /\ own[t] = {}
    BY <1>1, <1>9 DEF SearchRow, At, OwnAt
  <2>2. pc'[t] \in {"search", "ok", "undec"}
    BY <1>1, <1>9, <2>1, GoesTo DEF SearchRow
  <2>3. Carries(t)
    <3>1. ASSUME NEW P, bits' = bits \cup P, own' = [own EXCEPT ![t] = P] PROVE Carries(t)
      <4>1. own'[t] = own[t] \cup P
        BY <1>1, <2>1, <3>1, SetsOwn
      <4> QED BY <2>1, <3>1, <4>1 DEF Carries, InChild
    <3> QED BY <1>9, <3>1 DEF SearchRow, Carries
  <2> QED BY <1>1, <1>4, <1>9, <2>2, <2>3, SearchRowCalm
<1>10. CASE SetRow(t)
  <2>1. pc[t] = "set"
    BY <1>10 DEF SetRow, At
  <2>2. pc'[t] \in {"set", "unset", "ok", "undec"}
    BY <1>1, <1>6, <1>10, <2>1, GoesTo DEF SetRow
  <2>3. Carries(t)
    <3>1. ASSUME NEW P, bits' = bits \cup P, own' = [own EXCEPT ![t] = @ \cup P]
          PROVE  Carries(t)
      <4>1. own'[t] = own[t] \cup P
        BY <1>1, <3>1, SetsOwn
      <4> QED BY <2>1, <3>1, <4>1 DEF Carries, InChild
    <3> QED BY <1>10, <3>1 DEF SetRow, Carries, Toggled
  <2> QED BY <1>1, <1>4, <1>10, <2>2, <2>3, SetRowCalm
<1>11. CASE UndoSetRow(t)
  <2>1. pc[t] = "unset" /\ pc'[t] # "abort" /\ Calm(t) /\ Even(t)
    BY <1>1, <1>11, UndoSetRowCalm DEF UndoSetRow, At
  <2>2. pc'[t] \in {"set", "unset", "undec"}
    BY <1>1, <1>6, <1>11, <2>1, GoesTo DEF UndoSetRow
  <2>3. Carries(t)
    <3>1. ASSUME NEW P, bits' = bits \ P, own' = [own EXCEPT ![t] = @ \ P]
          PROVE  Carries(t)
      <4>1. own'[t] = own[t] \ P
        BY <1>1, <3>1, SetsOwn
      <4> QED BY <2>1, <3>1, <4>1 DEF Carries, InChild
    <3> QED BY <1>11, <3>1 DEF UndoSetRow, Carries, Toggled
  <2> QED BY <1>4, <2>1, <2>2, <2>3
<1> QED BY <1>7, <1>8, <1>9, <1>10, <1>11

\* A split finds the field of its huge page clear, and marks it row by row.
LEMMA SplitToggleCounts ==
    ASSUME Modest, YInv, TypeInv', NEW t \in Threads, Toggle(t, "split")
    PROVE  YInv'
<1> DEFINE u == Unit(CHILD_SIZE)
<1>1. /\ OneHuge /\ XInv /\ TypeInv /\ TypeOK /\ Plain(t) /\ ~Recovering
      /\ PlainOK /\ BitsOK /\ FieldsOK
  BY Here DEF Toggle, At, YInv
<1>p. PICK d \in 0 .. ChildCount - 1, i \in 0 .. Parts(CHILD_SIZE) - 1 : SplitsRow(t, d, i)
  BY <1>1, SplitToggles
<1> DEFINE P == Part(ChildBase(d), CHILD_SIZE, i)
<1>2. /\ d = Cur(t) /\ Cur(t)' = d /\ i = loc[t].i
      /\ pc[t] = "split" /\ call[t].op = "put"
      /\ Inside(t) /\ children' = children /\ own' = own
      /\ \/ /\ P \cap bits = {} /\ bits' = bits \cup P
            /\ pc'[t] = IF i + 1 = Parts(CHILD_SIZE) THEN "split_cas" ELSE "split"
            /\ i + 1 # Parts(CHILD_SIZE) => loc'[t].i = i + 1
         \/ P \cap bits # {} /\ bits' = bits /\ pc'[t] \in {"wait", "unsplit"}
  BY <1>p DEF SplitsRow
<1>3. d \in Children /\ d \in Int
  BY ChildRanges
<1>4. /\ Block(ChildBase(d), i * u) \cup P = Block(ChildBase(d), (i + 1) * u)
      /\ Block(ChildBase(d), i * u) \cap P = {}
      /\ P \subseteq ChildFrames(d)
  BY <1>3, SplitRows
<1>5. Split /\ children[d].huge
  BY <1>1, <1>2 DEF Plain
<1> HIDE DEF u, P
<1>6. ASSUME NEW f \in AllFrames, children[ChildOf(f)].huge, f \in bits
      PROVE  ChildOf(f) = d /\ f \in Block(ChildBase(d), i * u)
  <2>1. ~(boot <= ChildOf(f))
    BY <1>1, FrameChild, ChildCountNat DEF Recovering, TypeOK
  <2>2. PICK v \in Threads :
          /\ pc[v] \in {"split", "split_cas"} /\ Cur(v) = ChildOf(f)
          /\ pc[v] = "split" => f \in Block(ChildBase(Cur(v)), loc[v].i * Unit(CHILD_SIZE))
    BY <1>1, <1>6, <2>1 DEF FieldsOK, Dirty
  <2>3. v = t
    BY <1>5 DEF Modest, Alone
  <2> QED BY <1>2, <2>2, <2>3 DEF u
<1>7. P \subseteq AllFrames /\ \A f \in P : ChildOf(f) = d
  <2>1. P \subseteq AllFrames
    BY <1>4, ChildInAll
  <2> QED BY <1>3, <1>4, <2>1, FrameChild, FramesOfChild
<1>8. P \cap bits = {}
  <2> SUFFICES ASSUME NEW f \in P, f \in bits PROVE FALSE
    OBVIOUS
  <2>1. f \in Block(ChildBase(d), i * u)
    BY <1>5, <1>6, <1>7
  <2> QED BY <1>4, <2>1
<1>9. /\ bits' = bits \cup P /\ pc'[t] \in {"split", "split_cas"}
      /\ pc'[t] = "split" => loc'[t].i = i + 1
  BY <1>2, <1>8
<1>10. Calm(t) /\ Even(t)
  BY <1>1, SplitToggleCalm
<1>11. XInv'
  BY <1>1, <1>10, CalmStep
<1>12. SumOK' /\ FreeOK' /\ \A v \in Threads \ {t} : Plain(v)'
  BY <1>10, <1>11, CalmSums
<1>13. Plain(t)'
  <2>1. call'[t] = call[t]
    BY <1>2 DEF Inside
  <2> QED BY <1>1, <1>2, <1>5, <1>9, <2>1 DEF Plain
<1>14. PlainOK'
  BY <1>12, <1>13 DEF PlainOK
<1>15. Owned' = Owned
  BY <1>2 DEF Owned, Inside, clients
<1>16. BitsOK'
  <2> SUFFICES ASSUME NEW f \in AllFrames, Mark(f)' PROVE f \in Owned
    BY <1>15 DEF BitsOK
  <2>1. f \in P => Mark(f)
    BY <1>5, <1>7 DEF Mark
  <2>2. Mark(f)
    BY <1>2, <1>9, <2>1 DEF Mark
  <2> QED BY <1>1, <2>2 DEF BitsOK
<1>17. FieldsOK'
  <2> SUFFICES ASSUME NEW f \in AllFrames, children[ChildOf(f)].huge, f \in bits' PROVE Dirty(f)'
    BY <1>2 DEF FieldsOK
  <2>1. ChildOf(f) = d /\ f \in Block(ChildBase(d), (i + 1) * u)
    BY <1>4, <1>6, <1>7, <1>9
  <2> QED BY <1>2, <1>9, <2>1 DEF Dirty, u
<1> QED BY <1>11, <1>12, <1>14, <1>16, <1>17 DEF YInv

\* All frames of the huge page are owned, so that it becomes a child without free frames
\* and all of them are marked by their bits.
LEMMA SplitCasCounts ==
    ASSUME Modest, YInv, TypeInv', NEW t \in Threads, SplitCas(t)
    PROVE  YInv'
<1>1. /\ OneHuge /\ XInv /\ TypeInv /\ TypeOK /\ Plain(t) /\ ~Recovering /\ SplitAt(t)
      /\ PlainOK /\ BitsOK /\ FieldsOK /\ FreeOK /\ pc[t] = "split_cas"
      /\ UNCHANGED <<bits, call, clients, system>>
  BY Here, Now DEF SplitCas, At, YInv
<1>2. Split /\ children[Cur(t)].huge
  BY <1>1 DEF Plain
<1>3. Cur(t) \in Children
  BY <1>1, Now, ChildRanges DEF AtChild, InPart, Splitting
<1>4. children[Cur(t)] = HugeChild
  BY <1>1, <1>2, <1>3 DEF FreeOK
<1>5. XInv' /\ \E d \in 0 .. ChildCount - 1 :
        /\ d = Cur(t) /\ FlagChange(t, d, SplitChild) /\ pc'[t] = "clear"
        /\ Owing(d)' = {} /\ own' = own /\ Cur(t)' = d
  BY <1>1, <1>4, SplitCasWorks
<1>d. PICK d \in 0 .. ChildCount - 1 :
        /\ d = Cur(t) /\ FlagChange(t, d, SplitChild) /\ pc'[t] = "clear"
        /\ Owing(d)' = {} /\ own' = own /\ Cur(t)' = d
  BY <1>5
<1>6. /\ d \in Children /\ d \in Int /\ ChildFrames(d) \subseteq AllFrames
      /\ ChildFrames(d) \subseteq bits
  BY <1>1, <1>2, <1>d, ChildRanges, ChildInAll DEF SplitAt
<1>7. SplitChild.huge = FALSE /\ SplitChild.free = 0
  BY DEF SplitChild, Child
<1>8. /\ children' = [children EXCEPT ![d] = SplitChild] /\ Owned' = Owned
      /\ children'[d] = SplitChild /\ \A c \in Children \ {d} : children'[c] = children[c]
  BY <1>1, <1>6, <1>d DEF FlagChange, Owned, clients, TypeOK
<1>9. ChildFrames(d) \subseteq Owned
  <2> SUFFICES ASSUME NEW f \in ChildFrames(d) PROVE f \in Owned
    OBVIOUS
  <2>1. f \in AllFrames /\ f \in bits
    BY <1>6
  <2> QED BY <1>1, <2>1 DEF BitsOK, Mark
<1>10. Sum(d)' = CHILD_SIZE
  <2>1. Sum(d)' = children'[d].free + Cardinality(Owned' \cap ChildFrames(d)) + Cardinality(Owing(d)')
    BY DEF Sum
  <2>2. Owned' \cap ChildFrames(d) = ChildFrames(d)
    BY <1>8, <1>9
  <2>3. Cardinality(ChildFrames(d)) = CHILD_SIZE
    BY <1>6, ChildFinite
  <2>4. Cardinality({}) = 0
    BY FS_EmptySet
  <2>5. Sum(d)' = 0 + CHILD_SIZE + 0
    BY <1>7, <1>8, <1>d, <2>1, <2>2, <2>3, <2>4
  <2> QED BY <2>5, ChildSizePositive
<1>11. SumOK' /\ FreeOK'
  BY <1>5, <1>7, <1>10, <1>d, FlagSums
<1>12. PlainOK'
  <2> SUFFICES ASSUME NEW v \in Threads PROVE Plain(v)'
    BY DEF PlainOK
  <2>1. v = t
    BY <1>2 DEF Modest, Alone
  <2>2. Plain(t)'
    BY <1>1, <1>d, PlainAt DEF Splitting
  <2> QED BY <2>1, <2>2
<1>13. Tidy'
  <2> SUFFICES ASSUME NEW f \in AllFrames
               PROVE  /\ Mark(f)' => f \in Owned
                      /\ ~(children'[ChildOf(f)].huge /\ f \in bits)
    BY <1>1, <1>8 DEF Tidy
  <2>1. f \in ChildFrames(d) <=> ChildOf(f) = d
    BY <1>6, FrameChild, FramesOfChild
  <2>2. CASE ChildOf(f) = d
    BY <1>7, <1>8, <1>9, <2>1, <2>2
  <2>3. CASE ChildOf(f) # d
    <3>1. children'[ChildOf(f)] = children[ChildOf(f)]
      BY <1>8, <2>3, FrameChild
    <3>2. Mark(f)' => f \in Owned
      BY <1>1, <3>1 DEF Mark, BitsOK
    <3>3. ASSUME children[ChildOf(f)].huge, f \in bits PROVE FALSE
      <4>1. ~(boot <= ChildOf(f))
        BY <1>1, FrameChild, ChildCountNat DEF Recovering, TypeOK
      <4>2. PICK v \in Threads : Cur(v) = ChildOf(f)
        BY <1>1, <3>3, <4>1 DEF FieldsOK, Dirty
      <4>3. v = t
        BY <1>2 DEF Modest, Alone
      <4> QED BY <1>d, <2>3, <4>2, <4>3
    <3> QED BY <3>1, <3>2, <3>3
  <2> QED BY <2>2, <2>3
<1> QED BY <1>5, <1>11, <1>12, <1>13, TidyNext DEF YInv

\* field_toggle, which never has to undo anything, and the rest of lower_put below a huge
\* page.
LEMMA ToggleCounts ==
    ASSUME Modest, YInv, TypeInv', NEW t \in Threads, NEW label \in Toggles,
           Toggle(t, label) \/ UndoToggle(t, label)
    PROVE  YInv'
<1>1. /\ OneHuge /\ XInv /\ TypeInv /\ TypeOK /\ Plain(t) /\ OwnAt(t)
      /\ PhaseAt(call[t], pc[t])
      /\ \A n \in AtSizes : n <= ATOMIC_SIZE \/ n = CHILD_SIZE
  BY Here
<1>2. ~Recovering /\ call' = call
  BY DEF Toggle, UndoToggle, At
<1>3. ASSUME NEW P, own' = OwnAfter(t, P, label, Expected(label)),
             bits' = Toggled(P, Expected(label)), pc[t] \in InChild, label # "split"
      PROVE  Carries(t)
  <2>1. CASE label = "clear"
    <3>1. own' = [own EXCEPT ![t] = @ \ P] /\ bits' = bits \ P
      BY <1>3, <2>1 DEF OwnAfter, Toggled, Expected
    <3>2. own'[t] = own[t] \ P
      BY <1>1, <3>1, SetsOwn
    <3> QED BY <1>3, <3>1, <3>2 DEF Carries
  <2>2. CASE label # "clear"
    <3>1. own' = [own EXCEPT ![t] = @ \cup P] /\ bits' = bits \cup P
      BY <1>3, <2>2 DEF OwnAfter, Toggled, Expected
    <3>2. own'[t] = own[t] \cup P
      BY <1>1, <3>1, SetsOwn
    <3> QED BY <1>3, <3>1, <3>2 DEF Carries
  <2> QED BY <2>1, <2>2
<1>s. CASE Toggle(t, "split")
  BY <1>s, SplitToggleCounts
<1>4. ~UndoToggle(t, label)
  <2>1. UndoOf(label) \in {"unmark", "unclear", "unsplit"}
    BY DEF UndoOf, Toggles
  <2> QED BY <1>1, <2>1 DEF UndoToggle, At, OwnAt, Plain, Splitting
<1> SUFFICES ASSUME label # "split" PROVE YInv'
  BY <1>4, <1>s
<1>5. pc[t] = label
  BY <1>4 DEF Toggle, At
<1>6. Carries(t)
  <2>1. pc[t] \in InChild
    BY <1>5 DEF Toggles, InChild
  <2> QED BY <1>3, <1>4, <1>5, <2>1 DEF Toggle, Carries
<1>7. CASE label = "mark"
  <2>1. call[t].op = "get_at" /\ call[t].n < CHILD_SIZE
    BY <1>1, <1>5, <1>7 DEF PhaseAt, Done
  <2>2. call[t].n <= ATOMIC_SIZE
    <3>1. call[t].n \in AtSizes
      BY <1>1, <2>1 DEF Plain
    <3>2. call[t].n \in Nat /\ CHILD_SIZE \in Nat
      BY <3>1, ChildSizePositive
    <3> QED BY <1>1, <2>1, <3>1, <3>2
  <2>3. Parts(call[t].n) = 1
    BY <1>1, <2>2, CallSize DEF Parts
  <2>4. loc[t].i = 0
    BY <1>1, <1>5, <1>7, <2>3 DEF OwnAt
  <2>5. pc'[t] \in {"ok", "undec", "mark"}
    BY <1>1, <1>4, <1>5, <1>7, <2>4, GoesTo DEF Toggle, AfterToggle, AfterFailure
  <2>6. Plain(t)'
    BY <1>1, <1>2, <2>1, <2>5, PlainAt DEF Splitting
  <2> QED BY <1>1, <1>2, <1>4, <1>5, <1>6, <1>7, <2>6, MarkToggleCalm, CalmCounts
<1>8. CASE label = "clear"
  <2>1. Calm(t) /\ Even(t) /\ pc'[t] \in {"clear", "inc"}
    BY <1>1, <1>4, <1>8, ClearToggleCalm
  <2>2. Plain(t)'
    BY <1>1, <1>2, <2>1, PlainAt DEF Splitting
  <2> QED BY <1>2, <1>5, <1>6, <1>8, <2>1, <2>2, CalmCounts
<1> QED BY <1>5, <1>7, <1>8 DEF Toggles

LEMMA PutCounts ==
    ASSUME Modest, YInv, TypeInv', NEW t \in Threads,
           Load(t) \/ SplitCas(t) \/ SplitWait(t) \/ ChildInc(t)
    PROVE  YInv'
<1>1. OneHuge /\ XInv /\ TypeInv /\ TypeOK /\ Plain(t) /\ OwnAt(t)
  BY Here
<1>2. ~Recovering /\ call' = call
  BY DEF Load, SplitCas, SplitWait, ChildInc, At
<1>3. CASE Load(t)
  <2>1. pc[t] = "load" /\ children' = children
    BY <1>3 DEF Load, At, memory
  <2>2. pc'[t] = IF children[Cur(t)].huge THEN "split" ELSE "clear"
    BY <1>1, <1>3, GoesTo DEF Load
  <2>3. Plain(t)'
    <3>1. CASE ~children[Cur(t)].huge
      BY <1>1, <1>2, <2>2, <3>1, PlainAt DEF Splitting
    <3>2. CASE children[Cur(t)].huge
      <4>1. Split /\ loc'[t] = loc[t]
        BY <1>1, <1>3, <2>1, <3>2 DEF Plain, Load
      <4>2. Cur(t)' = Cur(t)
        BY <1>2, <4>1, CurStays
      <4> QED BY <1>1, <1>2, <2>1, <2>2, <3>2, <4>1, <4>2 DEF Plain
    <3> QED BY <3>1, <3>2
  <2>4. Carries(t)
    BY <1>3 DEF Load, memory, Carries
  <2> QED BY <1>1, <1>2, <1>3, <2>1, <2>3, <2>4, LoadCalm, CalmCounts
<1>4. ~SplitWait(t)
  BY <1>1 DEF SplitWait, At, Plain
<1>5. CASE ChildInc(t)
  <2>1. CanInc(Cur(t), call[t].n)
    BY <1>2, <1>5, RoomFor DEF ChildInc, At
  <2>2. pc'[t] = "ok"
    BY <1>1, <1>5, <2>1, GoesTo DEF ChildInc
  <2>3. Plain(t)'
    BY <1>1, <1>2, <2>2, PlainAt DEF Splitting
  <2>4. Carries(t)
    BY <1>5 DEF ChildInc, Carries
  <2>5. Calm(t) /\ Even(t)
    BY <1>1, <1>5, <2>2, ChildIncCalm
  <2>6. pc[t] = "inc"
    BY <1>5 DEF ChildInc, At
  <2> QED BY <1>2, <2>3, <2>4, <2>5, <2>6, CalmCounts
<1> QED BY <1>3, <1>4, <1>5, SplitCasCounts

\* Huge pages.
LEMMA HugeCounts ==
    ASSUME Modest, YInv, TypeInv', NEW t \in Threads, HugeCas(t) \/ UndoHuge(t)
    PROVE  YInv'
<1>1. OneHuge /\ XInv /\ TypeInv /\ TypeOK /\ Plain(t) /\ OwnAt(t)
  BY Here
<1>2. ~UndoHuge(t)
  BY <1>1 DEF UndoHuge, At, OwnAt
<1>3. HugeCas(t) /\ ~Recovering /\ pc[t] = "huge" /\ call' = call /\ bits' = bits
  BY <1>2 DEF HugeCas, At
<1>4. CASE children[Cur(t)] # Before(t)
  <2>1. Cur(t) \in Children /\ HBase(t) + loc[t].i = Cur(t) /\ loc[t].i = 0
    BY <1>1, <1>3, AtHuge
  <2>2. call[t].op # "put"
    <3>1. call[t].op = "put" => children[Cur(t)] = HugeChild
      BY <1>1, <1>3, <2>1 DEF Plain, YInv, FreeOK
    <3> QED BY <1>4, <3>1 DEF Before
  <2>3. NextHuge(t) /\ own' = own
    BY <1>3, <1>4, <2>1 DEF HugeCas
  <2>4. pc'[t] \in {"huge", "memory"}
    BY <1>1, <2>2, <2>3, GoesTo DEF NextHuge
  <2>5. Plain(t)'
    BY <1>1, <1>3, <2>2, <2>4 DEF Plain, Splitting
  <2>6. Carries(t)
    BY <1>3, <2>3 DEF Carries
  <2> QED BY <1>1, <1>3, <1>4, <2>5, <2>6, HugeCasFails, CalmCounts
<1>5. CASE children[Cur(t)] = Before(t)
  <2>1. pc'[t] = "ok" => Plain(t)'
    BY <1>1, <1>3, PlainAt DEF Splitting
  <2>2. CASE call[t].op = "put"
    BY <1>1, <1>3, <1>5, <2>1, <2>2, HugeCasPuts, TurnCounts
  <2>3. CASE call[t].op # "put"
    BY <1>1, <1>3, <1>5, <2>1, <2>3, HugeCasGets, TurnCounts
  <2> QED BY <2>2, <2>3
<1> QED BY <1>4, <1>5

-----------------------------------------------------------------------------
(* Calls, returns, crashes and recovery. *)

\* A call that begins or returns moves no frame.
LEMMA EdgeCounts ==
    ASSUME Modest, YInv, XInv', TypeInv', NEW t \in Threads, Edge(t), Plain(t)',
           pc[t] \notin {"split", "split_cas"}
    PROVE  YInv'
<1>1. /\ OneHuge /\ XInv /\ TypeInv /\ OwnOK /\ PlainOK /\ Tidy /\ SumOK /\ FreeOK
  BY Clean DEF Modest, YInv, XInv, Edge
<1>2. /\ bits' = bits /\ children' = children /\ boot' = boot /\ Owned' = Owned
      /\ \A u \in Threads \ {t} :
            pc'[u] = pc[u] /\ call'[u] = call[u] /\ loc'[u] = loc[u] /\ own'[u] = own[u]
  BY DEF Edge, Others, memory, system
<1>3. PlainOK'
  <2> SUFFICES ASSUME NEW u \in Threads \ {t} PROVE Plain(u)'
    BY DEF PlainOK
  <2> QED BY <1>2, OthersPlain
<1>4. Tidy' /\ FreeOK'
  BY <1>1, <1>2 DEF Tidy, FreeOK, Mark
<1>5. SumOK'
  <2> SUFFICES ASSUME NEW c \in 0 .. boot - 1, ~children[c].huge
               PROVE  Sum(c)' = CHILD_SIZE
    BY <1>2 DEF SumOK
  <2>1. OwnAt(t)'
    BY DEF XInv, OwnOK
  <2>2. Sum(c)' = Sum(c)
    BY <1>1, <2>1, EdgeSum
  <2> QED BY <1>1, <2>2 DEF SumOK
<1> QED BY <1>3, <1>4, <1>5, TidyNext DEF YInv

\* The entry of lower_get, lower_get_at and lower_put.
LEMMA BeginCounts ==
    ASSUME Modest, YInv, TypeInv', NEW t \in Threads, Begin(t)
    PROVE  YInv'
<1>1. OneHuge /\ XInv /\ TypeOK
  BY Here
<1>2. XInv' /\ Edge(t)
  BY <1>1, BeginKeeps
<1>3. ASSUME NEW op \in Ops, NEW f \in Frames, NEW n, NEW label,
             call' = [call EXCEPT ![t] = [op |-> op, frame |-> f, n |-> n]],
             Goto(t, label)
      PROVE  /\ pc'[t] = label /\ call'[t].op = op /\ call'[t].frame = f /\ call'[t].n = n
  <2>1. pc'[t] = label
    BY <1>1, <1>3, GoesTo
  <2>2. call'[t] = [op |-> op, frame |-> f, n |-> n]
    BY <1>1, <1>3 DEF TypeOK
  <2> QED BY <2>1, <2>2
<1>4. ASSUME NEW start \in Starts, NEW n \in Sizes, Get(t, start, n) PROVE Plain(t)'
  <2>1. start \in Frames /\ "get" \in Ops
    BY DEF Ops
  <2>2. call'[t].op = "get" /\ pc'[t] = IF n >= CHILD_SIZE THEN "huge" ELSE "dec"
    BY <1>3, <1>4, <2>1 DEF Get
  <2> QED BY <2>2 DEF Plain, Splitting
<1>5. ASSUME NEW f \in Frames, NEW n \in AtSizes, GetAt(t, f, n) PROVE Plain(t)'
  <2>1. "get_at" \in Ops
    BY DEF Ops
  <2>2. /\ call'[t].op = "get_at" /\ call'[t].n = n
        /\ pc'[t] = IF ~InRange(f, n) THEN "argument"
                    ELSE IF n >= CHILD_SIZE THEN "huge" ELSE "dec"
    BY <1>3, <1>5, <2>1 DEF GetAt
  <2> QED BY <2>2 DEF Plain, Splitting
<1>6. ASSUME NEW f \in Frames, NEW n \in Sizes, Put(t, f, n) PROVE Plain(t)'
  <2>1. "put" \in Ops
    BY DEF Ops
  <2>2. /\ call'[t].op = "put" /\ call'[t].frame = f /\ call'[t].n = n
        /\ pc'[t] = IF n >= CHILD_SIZE THEN "huge" ELSE "load"
    BY <1>3, <1>6, <2>1 DEF Put
  <2>3. Cur(t)' = ChildOf(f) /\ children' = children
    BY <1>2, <2>2 DEF Cur, Edge, memory
  <2>4. n \in Nat \ {0} /\ f \in Int
    BY DEF Frames
  <2>5. f \in Block(f, n)
    BY <2>4 DEF Block
  <2>6. IF n >= CHILD_SIZE THEN children[ChildOf(f)].huge
        ELSE Split \/ ~children[ChildOf(f)].huge
    BY <1>1, <1>6, <2>5 DEF Put, MayFree
  <2> QED BY <2>2, <2>3, <2>6 DEF Plain, Splitting
<1>7. ASSUME NEW f \in Frames, NEW n \in Sizes, PutInvalid(t, f, n) PROVE Plain(t)'
  <2>1. "put" \in Ops
    BY DEF Ops
  <2>2. /\ call'[t].op = "put" /\ call'[t].frame = f /\ call'[t].n = n
        /\ pc'[t] = "argument" /\ ~InRange(f, n)
    BY <1>3, <1>7, <2>1 DEF PutInvalid
  <2> QED BY <2>2 DEF Plain, Splitting
<1>8. Plain(t)'
  BY <1>4, <1>5, <1>6, <1>7 DEF Begin
<1>9. pc[t] = "idle"
  BY DEF Begin, Get, GetAt, Put, PutInvalid, At
<1> QED BY <1>2, <1>8, <1>9, EdgeCounts

\* The end of a call.
LEMMA ReturnCounts ==
    ASSUME Modest, YInv, TypeInv', NEW t \in Threads, Return(t)
    PROVE  YInv'
<1>1. OneHuge /\ XInv /\ TypeOK
  BY Here
<1>2. XInv' /\ Edge(t)
  BY <1>1, ReturnKeeps
<1>3. pc'[t] = "idle" /\ call'[t] = NoCall
  BY <1>1, GoesTo DEF Return, TypeOK
<1>4. Plain(t)'
  BY <1>3 DEF Plain, Splitting, NoCall
<1>5. pc[t] \in Done
  BY DEF Return, At
<1> QED BY <1>2, <1>4, <1>5, EdgeCounts DEF Done

\* A crash takes the frames of the calls out of use, and leaves the counters to
\* the recovery.
LEMMA CrashCounts ==
    ASSUME Modest, YInv, TypeInv', Crash
    PROVE  YInv'
<1>1. XInv' /\ Owned' = Owned
  BY CrashKeeps DEF Modest, YInv
<1>2. BitsOK' /\ FreeOK'
  BY <1>1 DEF Crash, memory, YInv, BitsOK, FreeOK, Mark
<1>3. SumOK'
  BY DEF Crash, SumOK
<1>4. PlainOK'
  <2> SUFFICES ASSUME NEW t \in Threads PROVE Plain(t)'
    BY DEF PlainOK
  <2>1. pc'[t] = "idle" /\ call'[t] = NoCall
    BY DEF Crash
  <2> QED BY <2>1 DEF Plain, Splitting, NoCall
<1>5. FieldsOK'
  <2> SUFFICES ASSUME NEW f \in AllFrames PROVE Dirty(f)'
    BY DEF FieldsOK
  <2>1. boot' = 0
    BY DEF Crash
  <2>2. boot' <= ChildOf(f)
    BY <2>1, FrameChild
  <2> QED BY <2>2 DEF Dirty
<1> QED BY <1>1, <1>2, <1>3, <1>4, <1>5 DEF YInv

\* Within a child that is no huge page, the bits are the frames that are owned.
LEMMA ChildMarks ==
    XInv /\ BitsOK => \A c \in 0 .. ChildCount - 1 :
        ~children[c].huge => bits \cap ChildFrames(c) = Owned \cap ChildFrames(c)
<1> SUFFICES ASSUME XInv, BitsOK, NEW c \in 0 .. ChildCount - 1, ~children[c].huge,
                    NEW f \in ChildFrames(c)
             PROVE  f \in bits <=> f \in Owned
  OBVIOUS
<1>1. Marked /\ c \in Int /\ f \in AllFrames
  BY ChildInAll, ChildRanges DEF XInv
<1>2. ChildOf(f) = c
  BY <1>1, FrameChild, FramesOfChild
<1>3. f \in Owned => f \in bits
  BY <1>1, <1>2 DEF Marked, Mark
<1>4. f \in bits => f \in Owned
  BY <1>1 DEF BitsOK, Mark
<1> QED BY <1>3, <1>4

\* Without calls, the counter and the frames that are owned are all there is.
LEMMA RestSum ==
    ASSUME NEW c
    PROVE  /\ (\A t \in Threads : pc[t] = "idle")
                => Sum(c) = children[c].free + Cardinality(Owned \cap ChildFrames(c)) + 0
           /\ (\A t \in Threads : pc'[t] = "idle")
                => Sum(c)' = children'[c].free + Cardinality(Owned' \cap ChildFrames(c)) + 0
BY IdleOwes, FS_EmptySet DEF Sum

\* lower_recover computes the counter that the frames of the clients, and those that are
\* lost, leave.
LEMMA RecoverCounts ==
    ASSUME Modest, YInv, TypeInv', RecoverChild
    PROVE  YInv'
<1> USE ChildSizePositive
<1>1. /\ OneHuge /\ XInv /\ TypeOK /\ PlainOK /\ BitsOK /\ FieldsOK /\ SumOK /\ FreeOK
      /\ \A t \in Threads : pc[t] = "idle"
  BY DEF Modest, YInv, XInv, TypeInv, RestOK, RecoverChild
<1>2. UNCHANGED <<pc, call, loc, own, held, lost>> /\ boot' = boot + 1 /\ XInv'
  BY <1>1, RecoverKeeps DEF RecoverChild, clients
<1>3. Owned' = Owned
  BY <1>2 DEF Owned
<1>4. PICK b \in 0 .. ChildCount - 1 : b = boot
  BY <1>1, ChildCountNat DEF RecoverChild, Recovering, TypeOK
<1>5. b \in Children /\ b \in Int /\ boot \in Nat
  BY <1>4, ChildRanges
<1>6. PlainOK'
  <2> SUFFICES ASSUME NEW t \in Threads PROVE Plain(t)'
    BY DEF PlainOK
  <2> QED BY <1>1, <1>2, OthersPlain
<1>f. ASSUME \A c \in Children : children'[c].huge = children[c].huge, bits' \subseteq bits,
             children[b].huge => bits' \cap ChildFrames(b) = {}
      PROVE  FieldsOK'
  <2> SUFFICES ASSUME NEW f \in AllFrames, children'[ChildOf(f)].huge, f \in bits'
               PROVE  Dirty(f)'
    BY DEF FieldsOK
  <2>1. children[ChildOf(f)].huge /\ f \in bits
    BY <1>f, FrameChild
  <2>2. boot <= ChildOf(f)
    BY <1>1, <2>1 DEF FieldsOK, Dirty
  <2>3. ChildOf(f) # b
    BY <1>5, <1>f, <2>1, FrameChild, FramesOfChild
  <2>4. boot' <= ChildOf(f)
    BY <1>2, <1>4, <2>2, <2>3, FrameChild
  <2> QED BY <2>4 DEF Dirty
<1>7. CASE children[b].huge
  <2>1. children[b] = HugeChild
    BY <1>1, <1>5, <1>7 DEF FreeOK
  <2>2. children' = [children EXCEPT ![b] = HugeChild] /\ bits' = bits \ ChildFrames(b)
    BY <1>4, <1>7 DEF RecoverChild
  <2>3. children' = children
    BY <1>1, <2>1, <2>2 DEF TypeOK
  <2>4. BitsOK'
    BY <1>1, <1>3, <2>2, <2>3 DEF BitsOK, Mark
  <2>5. SumOK'
    <3> SUFFICES ASSUME NEW c \in 0 .. b, ~children[c].huge PROVE Sum(c)' = CHILD_SIZE
      BY <1>2, <1>4, <2>3 DEF SumOK
    <3>1. c # b
      BY <1>7
    <3>2. c \in 0 .. boot - 1
      BY <1>4, <1>5, <3>1
    <3>3. Sum(c)' = Sum(c)
      BY <1>1, <1>2, <1>3, <2>3, RestSum
    <3> QED BY <1>1, <3>2, <3>3 DEF SumOK
  <2>6. FreeOK'
    BY <1>1, <2>3 DEF FreeOK
  <2>7. FieldsOK'
    BY <1>f, <2>2, <2>3
  <2> QED BY <1>2, <1>6, <2>4, <2>5, <2>6, <2>7 DEF YInv
<1>8. CASE ~children[b].huge
  <2> DEFINE x == CHILD_SIZE - Cardinality(bits \cap ChildFrames(b))
  <2>1. children' = [children EXCEPT ![b] = Child(x, FALSE)] /\ bits' = bits
    BY <1>4, <1>8 DEF RecoverChild
  <2>2. /\ \A c \in Children \ {b} : children'[c] = children[c]
        /\ children'[b] = Child(x, FALSE)
    BY <1>1, <1>5, <2>1 DEF TypeOK
  <2>3. children'[b].huge = FALSE /\ children'[b].free = x
    BY <2>2 DEF Child
  <2>a. \A c \in Children : children[c].huge \in BOOLEAN
    BY <1>1 DEF TypeOK, ChildType
  <2>4. ASSUME NEW c \in Children PROVE children'[c].huge <=> children[c].huge
    BY <1>8, <2>2, <2>3
  <2>5. BitsOK'
    <3> SUFFICES ASSUME NEW f \in AllFrames PROVE Mark(f)' => f \in Owned'
      BY DEF BitsOK
    <3>1. children'[ChildOf(f)].huge <=> children[ChildOf(f)].huge
      BY <2>4, FrameChild
    <3> QED BY <1>1, <1>3, <2>1, <3>1 DEF BitsOK, Mark
  <2>6. Sum(b)' = CHILD_SIZE
    <3>1. bits \cap ChildFrames(b) = Owned \cap ChildFrames(b)
      BY <1>1, <1>8, ChildMarks
    <3>2. Sum(b)' = x + Cardinality(bits \cap ChildFrames(b)) + 0
      BY <1>1, <1>2, <1>3, <2>3, <3>1, RestSum
    <3>3. Cardinality(bits \cap ChildFrames(b)) \in Nat
      BY <1>5, ChildFinite
    <3> QED BY <3>2, <3>3
  <2>7. SumOK'
    <3> SUFFICES ASSUME NEW c \in 0 .. b, ~children'[c].huge PROVE Sum(c)' = CHILD_SIZE
      BY <1>2, <1>4 DEF SumOK
    <3>1. CASE c = b
      BY <2>6, <3>1
    <3>2. CASE c # b
      <4>1. c \in 0 .. boot - 1 /\ c \in Children
        BY <1>4, <1>5, <3>2, ChildRanges
      <4>2. children'[c] = children[c]
        BY <2>2, <3>2, <4>1
      <4>3. Sum(c)' = Sum(c)
        BY <1>1, <1>2, <1>3, <4>2, RestSum
      <4> QED BY <1>1, <4>1, <4>2, <4>3 DEF SumOK
    <3> QED BY <3>1, <3>2
  <2>8. FreeOK'
    BY <1>1, <2>2, <2>3 DEF FreeOK
  <2>9. FieldsOK'
    <3>1. \A c \in Children : children'[c].huge = children[c].huge
      <4> SUFFICES ASSUME NEW c \in Children PROVE children'[c].huge = children[c].huge
        OBVIOUS
      <4> QED BY <1>8, <2>2, <2>3, <2>a
    <3> QED BY <1>8, <1>f, <2>1, <3>1
  <2> QED BY <1>2, <1>6, <2>5, <2>7, <2>8, <2>9 DEF YInv
<1> QED BY <1>7, <1>8

\* lower_clear.
LEMMA StartsCounted == Init => YInv
<1> SUFFICES ASSUME Init PROVE YInv
  OBVIOUS
<1>1. XInv /\ SumOK
  BY StartsOwned DEF SumOK
<1>2. PICK free_all \in BOOLEAN :
        /\ bits = InitBits(free_all)
        /\ children = [c \in Children |-> InitChild(c, free_all)]
        /\ held = IF free_all THEN {} ELSE Frames
  BY DEF Init
<1>3. PlainOK
  <2> SUFFICES ASSUME NEW t \in Threads PROVE Plain(t)
    BY DEF PlainOK
  <2>1. pc[t] = "idle" /\ call[t] = NoCall
    BY DEF Init
  <2> QED BY <2>1 DEF Plain, Splitting, NoCall
<1>4. FreeOK
  <2> SUFFICES ASSUME NEW c \in Children, children[c].huge PROVE children[c] = HugeChild
    BY DEF FreeOK
  <2>a. FRAMES - ChildBase(c) \in Int /\ CHILD_SIZE \in Int
    BY ChildSizePositive DEF ChildBase, Children
  <2>1. PICK x \in Int : children[c] = Child(x, x = 0)
    BY <1>2, <2>a DEF InitChild
  <2>2. CASE x = 0
    BY <2>1, <2>2 DEF HugeChild, Child
  <2>3. CASE x # 0
    <3>1. children[c] = Child(x, FALSE)
      BY <2>1, <2>3
    <3> QED BY <3>1 DEF Child
  <2> QED BY <2>2, <2>3
<1>5. Tidy
  <2> SUFFICES ASSUME NEW f \in AllFrames
               PROVE  /\ Mark(f) => f \in Owned
                      /\ ~(children[ChildOf(f)].huge /\ f \in bits)
    BY DEF Tidy
  <2>1. ChildOf(f) \in 0 .. ChildCount - 1 /\ ChildOf(f) \in Children
    BY FrameChild
  <2>2. CASE ~free_all
    <3>1. bits = {} /\ Frames \subseteq Owned
      BY <1>2, <2>2 DEF InitBits, Owned
    <3> QED BY <3>1 DEF Owned
  <2>3. CASE free_all
    <3>1. bits = AllFrames \ Frames
      BY <1>2, <2>3 DEF InitBits
    <3>2. ~children[ChildOf(f)].huge
      <4>1. PICK c \in 0 .. ChildCount - 1 : c = ChildOf(f) /\ c \in Children
        BY <2>1
      <4>2. ~(c >= ChildCount)
        BY ChildCountNat
      <4>3. FRAMES - ChildBase(c) \in Nat \ {0} /\ CHILD_SIZE \in Nat \ {0}
        BY ChildCountNat, ChildSizePositive
      <4>4. PICK x \in Nat \ {0} : children[c] = Child(x, x = 0)
        BY <1>2, <2>3, <4>1, <4>2, <4>3 DEF InitChild
      <4>5. children[c].huge = (x = 0)
        BY <4>4 DEF Child
      <4> QED BY <4>1, <4>4, <4>5
    <3> QED BY <3>1, <3>2 DEF Mark, Owned
  <2> QED BY <2>2, <2>3
<1> QED BY <1>1, <1>3, <1>4, <1>5, TidyNow DEF YInv

LEMMA StepCounts ==
    ASSUME Modest, YInv, [Next]_vars
    PROVE  YInv'
<1>1. OneHuge /\ XInv /\ TypeInv'
  BY TypeInvNext DEF Modest, YInv, XInv
<1>2. ASSUME NEW t \in Threads, Step(t) PROVE YInv'
  <2>1. CASE ChildDec(t) \/ UndoDec(t) \/ SearchRow(t) \/ SetRow(t) \/ UndoSetRow(t)
    BY <1>1, <2>1, SmallCounts
  <2>2. CASE \E label \in Toggles : Toggle(t, label) \/ UndoToggle(t, label)
    BY <1>1, <2>2, ToggleCounts
  <2>3. CASE Load(t) \/ SplitCas(t) \/ SplitWait(t) \/ ChildInc(t)
    BY <1>1, <2>3, PutCounts
  <2>4. CASE HugeCas(t) \/ UndoHuge(t)
    BY <1>1, <2>4, HugeCounts
  <2>5. CASE Return(t)
    BY <1>1, <2>5, ReturnCounts
  <2> QED BY <1>2, <2>1, <2>2, <2>3, <2>4, <2>5 DEF Step
<1>3. ASSUME NEW t \in Threads, Begin(t) PROVE YInv'
  BY <1>1, <1>3, BeginCounts
<1>4. CASE Crash \/ RecoverChild
  BY <1>1, <1>4, CrashCounts, RecoverCounts
<1>5. CASE UNCHANGED vars
  <2>1. XInv'
    BY <1>1, StepKeeps
  <2>2. /\ bits' = bits /\ children' = children /\ held' = held /\ lost' = lost /\ boot' = boot
        /\ pc' = pc /\ call' = call /\ loc' = loc /\ own' = own
    BY <1>5 DEF vars, memory, clients, system
  <2>3. Owned' = Owned
    BY <2>2 DEF Owned
  <2>4. BitsOK' /\ FieldsOK' /\ FreeOK'
    BY <2>2, <2>3 DEF YInv, BitsOK, FieldsOK, Dirty, Cur, FreeOK, Mark
  <2>5. PlainOK'
    <3> SUFFICES ASSUME NEW t \in Threads PROVE Plain(t)'
      BY DEF PlainOK
    <3> QED BY <2>2, OthersPlain
  <2>6. \A c : Owing(c)' = Owing(c)
    BY <2>2 DEF Owing, Cur
  <2>7. SumOK'
    BY <2>2, <2>3, <2>6 DEF YInv, SumOK, Sum
  <2> QED BY <2>1, <2>4, <2>5, <2>7 DEF YInv
<1> QED BY <1>2, <1>3, <1>4, <1>5 DEF Next

\* While no call is in progress, the counter of a child is the number of its frames that
\* nobody owns.
LEMMA QuietCounts ==
    ASSUME YInv, ~Recovering, \A t \in Threads : pc[t] = "idle", NEW c \in Children
    PROVE  children[c].free = Cardinality({f \in Frames : ChildOf(f) = c /\ f \notin held \cup lost})
<1> DEFINE S == {f \in Frames : ChildOf(f) = c /\ f \notin held \cup lost}
<1>1. XInv /\ BitsOK /\ SumOK /\ FreeOK /\ BeyondOK /\ TypeOK /\ OwnOK
  BY DEF YInv, XInv, TypeInv
<1>2. boot = ChildCount /\ ChildCount \in Nat /\ c \in Int
  BY <1>1, ChildRanges DEF Recovering, TypeOK
<1>3. ASSUME NEW f \in Frames, f \in Owned PROVE f \in held \cup lost
  <2>1. \A t \in Threads : own[t] = {}
    BY <1>1 DEF OwnOK, OwnAt
  <2> QED BY <1>3, <2>1 DEF Owned
<1>4. \A f \in Frames : f \in AllFrames /\ f \in Int /\ ChildOf(f) \in 0 .. ChildCount - 1
  BY <1>1, OwnedInAll
<1>5. CASE children[c].huge
  <2>1. children[c].free = 0
    BY <1>1, <1>5 DEF FreeOK, HugeChild, Child
  <2>2. ASSUME NEW f \in S PROVE FALSE
    <3>1. f \in Frames /\ Mark(f) /\ f \in AllFrames
      BY <1>4, <1>5 DEF Mark
    <3>2. f \in Owned
      BY <1>1, <3>1 DEF BitsOK
    <3> QED BY <1>3, <3>1, <3>2
  <2>3. S = {}
    BY <2>2
  <2> QED BY <2>1, <2>3, FS_EmptySet
<1>6. CASE ~children[c].huge
  <2>1. c \in 0 .. boot - 1
    <3>1. c \in 0 .. ChildCount - 1 \/ c \in ChildCount .. ChildSlots - 1
      BY <1>2 DEF Children
    <3>2. children[c] # HugeChild
      BY <1>6 DEF HugeChild, Child
    <3> QED BY <1>1, <1>2, <3>1, <3>2 DEF BeyondOK
  <2>2. children[c].free + Cardinality(Owned \cap ChildFrames(c)) + Cardinality(Owing(c)) = CHILD_SIZE
    BY <1>1, <1>6, <2>1 DEF SumOK, Sum
  <2>3. Cardinality(Owing(c)) = 0
    <3>1. Owing(c) = {}
      BY DEF Owing, InChild
    <3> QED BY <3>1, FS_EmptySet
  <2>4. /\ IsFiniteSet(ChildFrames(c)) /\ Cardinality(ChildFrames(c)) = CHILD_SIZE
        /\ Cardinality(Owned \cap ChildFrames(c)) \in Nat
    BY <1>2, ChildFinite
  <2>5. Cardinality(ChildFrames(c) \ Owned)
           = Cardinality(ChildFrames(c)) - Cardinality(ChildFrames(c) \cap Owned)
    <3>1. IsFiniteSet(ChildFrames(c) \cap Owned)
      BY <2>4, FS_Intersection
    <3> QED BY <2>4, <3>1, FS_Difference
  <2>6. ChildFrames(c) \cap Owned = Owned \cap ChildFrames(c)
    OBVIOUS
  <2>7. S = ChildFrames(c) \ Owned
    <3>1. ASSUME NEW f \in S PROVE f \in ChildFrames(c) /\ f \notin Owned
      BY <1>2, <1>3, <1>4, FramesOfChild
    <3>2. ASSUME NEW f \in ChildFrames(c), f \notin Owned PROVE f \in S
      <4>1. f \in AllFrames /\ f \in Int
        BY <1>2, <2>1, ChildInAll DEF AllFrames
      <4>2. f \in Frames /\ f \notin held \cup lost
        BY <3>2, <4>1 DEF Owned
      <4>3. ChildOf(f) = c
        BY <1>2, <3>2, <4>1, FramesOfChild
      <4> QED BY <4>2, <4>3
    <3> QED BY <3>1, <3>2
  <2>8. children[c].free \in Int /\ CHILD_SIZE \in Int
    BY <1>1, ChildSizePositive DEF TypeOK, ChildType
  <2>9. Cardinality(S) = CHILD_SIZE - Cardinality(Owned \cap ChildFrames(c))
    BY <2>4, <2>5, <2>6, <2>7
  <2> HIDE DEF S
  <2>10. children[c].free = Cardinality(S)
    BY ONLY <2>2, <2>3, <2>4, <2>8, <2>9
  <2> QED BY <2>10 DEF S
<1> QED BY <1>5, <1>6

-----------------------------------------------------------------------------
(* The theorems. *)

LEMMA Counted ==
    ASSUME Modest
    PROVE  Spec => []YInv
<1>1. Init => YInv
  BY StartsCounted
<1>2. YInv /\ [Next]_vars => YInv'
  BY StepCounts
<1> QED BY <1>1, <1>2, PTL DEF Spec

\* No frame leaks and none is free that is in use: the bitfields and the child entries
\* mark exactly the frames of the clients, of the calls in progress and of those that a
\* crash cut off.  At every step, also before and during a recovery.
THEOREM FramesAccounted ==
    ASSUME Modest
    PROVE  Spec => []Accounted
<1>1. YInv => Accounted
  <2> SUFFICES ASSUME YInv, NEW f \in Frames
               PROVE  (children[ChildOf(f)].huge \/ f \in bits) <=> f \in Owned
    BY DEF Accounted, Allocated, Owned, YInv, XInv, InRangeOwned
  <2>1. f \in AllFrames
    BY OwnedInAll
  <2> QED BY <2>1 DEF YInv, XInv, BitsOK, Marked, Mark
<1> QED BY <1>1, Counted, PTL

\* The counter of a child, its set bits and the frames on their way between the two always
\* add up to CHILD_SIZE, so the counter that lower_recover computes is the one that the
\* calls would have left; the entry of a huge page counts nothing.
THEOREM CountersExact ==
    ASSUME Modest
    PROVE  Spec => []CounterExact
<1>1. YInv => CounterExact
  <2> SUFFICES ASSUME YInv PROVE CounterExact
    OBVIOUS
  <2>1. XInv /\ BitsOK /\ SumOK /\ FreeOK /\ BeyondOK /\ TypeOK
    BY DEF YInv, XInv, TypeInv
  <2>2. ASSUME NEW c \in 0 .. boot - 1, ~children[c].huge
        PROVE  children[c].free + Cardinality(bits \cap ChildFrames(c))
                 + Cardinality(Owing(c)) = CHILD_SIZE
    <3>1. c \in 0 .. ChildCount - 1
      BY <2>1, ChildCountNat DEF TypeOK
    <3>2. bits \cap ChildFrames(c) = Owned \cap ChildFrames(c)
      BY <2>1, <2>2, <3>1, ChildMarks
    <3> QED BY <2>1, <2>2, <3>2 DEF SumOK, Sum
  <2>3. ASSUME NEW c \in Children, children[c].huge PROVE children[c].free = 0
    BY <2>1, <2>3 DEF FreeOK, HugeChild, Child
  <2> QED BY <2>1, <2>2, <2>3 DEF CounterExact, BeyondOK
<1> QED BY <1>1, Counted, PTL

\* No assertion of lower.c or bitfield.c fails: a free never finds a counter that has no
\* room for it, and an undo never meets a bit that it has not set.
THEOREM LowerNeverAborts ==
    ASSUME Modest
    PROVE  Spec => []NoAbort
<1>1. YInv => NoAbort
  BY DEF YInv, PlainOK, Plain, NoAbort, Aborted
<1> QED BY <1>1, Counted, PTL

\* A free of what was allocated is never refused, whatever the other threads do.
THEOREM FreesAccepted ==
    ASSUME Modest
    PROVE  Spec => []PutAccepted
<1>1. YInv => PutAccepted
  BY DEF YInv, PlainOK, Plain, PutAccepted
<1> QED BY <1>1, Counted, PTL
-----------------------------------------------------------------------------
(* What a search has passed. *)

\* Somebody holds a frame of the block.
Taken(f, n) == Block(f, n) \cap (held \cup lost) # {}

\* No block of n frames is free in child c.
Full(c, n) == \A f \in Frames : InRange(f, n) /\ ChildOf(f) = c => Taken(f, n)

\* The rows, and groups of rows, that field_set_next visits.
RowAt(t, g) == FIELD_N * Cur(t) + Visit(RowOf(call[t].frame) % FIELD_N, FIELD_N, g)

GroupOf(t, g) ==
    ChildBase(Cur(t)) + call[t].n *
        Visit((RowOf(call[t].frame) % FIELD_N) \div Parts(call[t].n),
              FIELD_N \div Parts(call[t].n), g)

RowPassed(t, g) ==
    \A f \in Frames \cap Row(RowAt(t, g)) : InRange(f, call[t].n) => Taken(f, call[t].n)

GroupPassed(t, g) == InRange(GroupOf(t, g), call[t].n) => Taken(GroupOf(t, g), call[t].n)

ChildPassed(t, k) == Full(Visit(ChildOf(call[t].frame), TREE_CHILDREN, k), call[t].n)

\* A search goes on only where it has found no room, and what it has passed stays taken.
Passed(t) ==
    /\ pc[t] = "idle" => loc[t] = NoLoc
    /\ pc[t] = "dec" => loc[t].g = 0
    /\ call[t].op = "get" /\ pc[t] \in {"dec", "search", "set", "unset", "undec", "huge"} =>
          \A k \in 0 .. loc[t].k - 1 : ChildPassed(t, k)
    /\ pc[t] = "search" => \A g \in 0 .. loc[t].g - 1 : RowPassed(t, g)
    /\ pc[t] \in {"set", "unset"} => \A g \in 0 .. loc[t].g - 1 : GroupPassed(t, g)
    /\ pc[t] = "unset" => GroupPassed(t, loc[t].g)
    /\ pc[t] = "undec" => IF call[t].op = "get" THEN Full(Cur(t), call[t].n)
                          ELSE Taken(call[t].frame, call[t].n)
    /\ pc[t] = "memory" /\ call[t].op # "put" =>
          \A f \in Candidates(t) : Taken(f, call[t].n)

ZInv == YInv /\ \A t \in Threads : Passed(t)

\* for_offsetted visits every position of the group that its start is in.
LEMMA VisitAll ==
    ASSUME NEW start \in Nat, NEW len \in Nat \ {0}, NEW c \in Int,
           c \div len = start \div len
    PROVE  \E k \in 0 .. len - 1 : Visit(start, len, k) = c
<1> DEFINE o == start % len
           v == c % len
<1>1. /\ o \in 0 .. len - 1 /\ v \in 0 .. len - 1
      /\ start - o = len * (start \div len) /\ c - v = len * (c \div len)
  OBVIOUS
<1>2. start - o + v = c
  BY <1>1
<1>3. ASSUME NEW k \in 0 .. len - 1, (k + o) % len = v PROVE Visit(start, len, k) = c
  BY <1>2, <1>3 DEF Visit
<1>4. CASE o <= v
  <2>1. v - o \in 0 .. len - 1 /\ (v - o) + o = v
    BY <1>1, <1>4
  <2>2. v % len = v
    BY <1>1
  <2> HIDE DEF o, v
  <2> QED BY <1>3, <2>1, <2>2
<1>5. CASE v < o
  <2>1. v - o + len \in 0 .. len - 1 /\ (v - o + len) + o = v + len
    BY <1>1, <1>5
  <2>2. (v + len) % len = v
    BY <1>1
  <2> HIDE DEF o, v
  <2> QED BY <1>3, <2>1, <2>2
<1> QED BY <1>1, <1>4, <1>5

\* Factors cancel in comparisons.
LEMMA Cancel ==
    ASSUME NEW m \in Nat \ {0}, NEW x \in Int, NEW y \in Int, m * x < m * y
    PROVE  x < y
OBVIOUS

\* Every frame of a child is in one of its rows.
LEMMA RowsOfChild ==
    ASSUME NEW c \in Int, NEW f \in Int, ChildOf(f) = c
    PROVE  \E v \in 0 .. FIELD_N - 1 : f \in Row(FIELD_N * c + v)
<1> DEFINE r == f \div ATOMIC_SIZE
           q == FIELD_N * c
<1>1. /\ r \in Int /\ ATOMIC_SIZE * r <= f /\ f < ATOMIC_SIZE * r + ATOMIC_SIZE
  BY Division
<1>2. CHILD_SIZE * c <= f /\ f < CHILD_SIZE * c + CHILD_SIZE
  BY Quotient, ChildSizePositive DEF ChildOf
<1>3. /\ CHILD_SIZE * c = ATOMIC_SIZE * q /\ CHILD_SIZE = ATOMIC_SIZE * FIELD_N
      /\ q \in Int
  BY DEF CHILD_SIZE
<1> HIDE DEF r, q
<1>4. ATOMIC_SIZE * q < ATOMIC_SIZE * (r + 1) /\ ATOMIC_SIZE * r < ATOMIC_SIZE * (q + FIELD_N)
  BY <1>1, <1>2, <1>3
<1>5. q < r + 1 /\ r < q + FIELD_N
  BY <1>1, <1>3, <1>4, Cancel
<1>6. r - q \in 0 .. FIELD_N - 1 /\ q + (r - q) = r
  BY <1>1, <1>3, <1>5
<1>7. f \in Row(r)
  BY <1>1 DEF Row, Block
<1> QED BY <1>6, <1>7 DEF q

\* Every aligned block of several rows is one of its child's groups of rows.
LEMMA GroupsOfChild ==
    ASSUME NEW n \in Nat \ {0}, IsSize(n), n <= CHILD_SIZE, n > ATOMIC_SIZE,
           NEW c \in Int, NEW f \in Int, ChildOf(f) = c, f % n = 0
    PROVE  /\ FIELD_N \div Parts(n) \in Nat \ {0}
           /\ \E v \in 0 .. (FIELD_N \div Parts(n)) - 1 : f = ChildBase(c) + n * v
<1>1. PICK e \in 1 .. FIELD_N : FIELD_N % e = 0 /\ n = e * ATOMIC_SIZE /\ Parts(n) = e
  BY Sized
<1> DEFINE m == FIELD_N \div e
           q == f \div n
           b == m * c
<1>2. m \in Nat \ {0} /\ FIELD_N = m * e
  <2>1. \A a \in Nat \ {0} : \A d \in 1 .. a :
          a % d = 0 => a \div d \in Nat \ {0} /\ a = (a \div d) * d
    OBVIOUS
  <2> QED BY <1>1, <2>1
<1>3. f = n * q /\ q \in Int
  OBVIOUS
<1>4. n * b <= f /\ f < n * b + n * m /\ b \in Int /\ ChildBase(c) = n * b
  <2>1. CHILD_SIZE * c <= f /\ f < CHILD_SIZE * c + CHILD_SIZE
    BY Quotient, ChildSizePositive DEF ChildOf
  <2>2. CHILD_SIZE = n * m
    BY <1>1, <1>2 DEF CHILD_SIZE
  <2>3. CHILD_SIZE * c = n * b /\ b \in Int
    BY <1>2, <2>2
  <2>4. ChildBase(c) = n * b
    BY <2>3, ChildSizePositive DEF ChildBase
  <2> QED BY <2>1, <2>2, <2>3, <2>4
<1> HIDE DEF m, q, b
<1>5. n * b < n * (q + 1) /\ n * q < n * (b + m)
  BY <1>2, <1>3, <1>4
<1>6. b < q + 1 /\ q < b + m
  BY <1>2, <1>3, <1>4, <1>5, Cancel
<1>7. q - b \in 0 .. m - 1 /\ n * b + n * (q - b) = n * q
  BY <1>2, <1>3, <1>4, <1>6
<1>8. f = ChildBase(c) + n * (q - b)
  BY <1>3, <1>4, <1>7
<1> QED BY <1>1, <1>2, <1>7, <1>8 DEF m

\* A managed block of at most a huge page lies in one child and in the managed frames.
LEMMA BlockAt ==
    ASSUME OneHuge, TypeOK, NEW t \in Threads, NEW f \in Frames, InRange(f, call[t].n)
    PROVE  /\ f \in Int /\ f % call[t].n = 0 /\ ChildOf(f) \in 0 .. ChildCount - 1
           /\ Block(f, call[t].n) \subseteq Frames
           /\ Block(f, call[t].n) \subseteq ChildFrames(ChildOf(f))
           /\ f \in Block(f, call[t].n)
<1> DEFINE n == call[t].n
<1>1. n \in Nat \ {0} /\ IsSize(n) /\ n <= CHILD_SIZE /\ f \in Int /\ f % n = 0
  BY CallSmall, CallSize DEF InRange, Frames
<1>2. ChildOf(f) \in 0 .. ChildCount - 1
  BY OwnedInAll
<1>3. Block(f, n) \subseteq Frames /\ f \in Block(f, n)
  BY <1>1 DEF Block, Frames, InRange
<1>4. Block(f, n) \subseteq ChildFrames(ChildOf(f))
  BY <1>1, BlockInChild
<1> QED BY <1>1, <1>2, <1>3, <1>4

\* A bit that is set, and is not the call's own, is of a frame that somebody holds.
LEMMA SetBitHeld ==
    ASSUME Alone, YInv, NEW t \in Threads, NEW x \in Frames, x \in bits, x \notin own[t]
    PROVE  x \in held \cup lost
<1>1. x \in AllFrames /\ BitsOK
  BY OwnedInAll DEF YInv
<1>2. x \in Owned
  BY <1>1 DEF BitsOK, Mark
<1>3. PICK o \in {held, lost} \cup {own[u] : u \in Threads} : x \in o
  BY <1>2 DEF Owned
<1> QED BY <1>3 DEF Alone

\* A block that nobody holds has its frames in the counter of its child.
LEMMA RoomCounted ==
    ASSUME Modest, Alone, YInv, ~Recovering, NEW t \in Threads, pc[t] \notin InChild,
           own[t] = {}, NEW f \in Frames, InRange(f, call[t].n), ~Taken(f, call[t].n)
    PROVE  LET c == ChildOf(f) IN
           /\ c \in Children /\ ~children[c].huge
           /\ children[c].free \in call[t].n .. CHILD_SIZE
<1> DEFINE n == call[t].n
           B == Block(f, n)
<1>1. /\ OneHuge /\ XInv /\ TypeOK /\ BitsOK /\ SumOK /\ Marked /\ InRangeOwned
  BY DEF Modest, YInv, XInv, TypeInv
<1>2. PICK c \in 0 .. ChildCount - 1 : c = ChildOf(f)
  BY <1>1, BlockAt
<1>3. /\ B \subseteq Frames /\ B \subseteq ChildFrames(c) /\ f \in B /\ f \in Int
      /\ n \in Nat \ {0} /\ n <= CHILD_SIZE /\ c \in Children /\ c \in Int
  BY <1>1, <1>2, BlockAt, CallSmall, CallSize, ChildRanges
<1>4. \A u \in Threads : own[u] = {}
  BY DEF Alone
<1>5. B \cap Owned = {}
  BY <1>3, <1>4 DEF Owned, Taken
<1>6. f \in AllFrames /\ f \notin Owned
  BY <1>3, <1>5, OwnedInAll
<1>7. ~children[c].huge
  BY <1>1, <1>2, <1>6 DEF BitsOK, Mark
<1>8. Owing(c) = {}
  <2> SUFFICES ASSUME NEW q \in Owing(c) PROVE FALSE
    OBVIOUS
  <2>1. q[1] \in Threads /\ pc[q[1]] \in InChild
    BY DEF Owing
  <2> QED BY <2>1 DEF Alone
<1>9. Sum(c) = CHILD_SIZE
  BY <1>1, <1>2, <1>7, ChildCountNat DEF SumOK, Recovering, TypeOK
<1>10. /\ Cardinality(Owned \cap ChildFrames(c)) \in Nat
       /\ Cardinality((Owned \cup B) \cap ChildFrames(c)) <= CHILD_SIZE
       /\ Cardinality((Owned \cup B) \cap ChildFrames(c))
            = Cardinality(Owned \cap ChildFrames(c)) + Cardinality(B \cap ChildFrames(c))
  <2>1. Owned \cap B = {}
    BY <1>5
  <2> HIDE DEF B
  <2> QED BY <1>3, <2>1, CountBoth, ChildFinite
<1>11. Cardinality(B \cap ChildFrames(c)) = n
  <2>1. B \cap ChildFrames(c) = B
    BY <1>3
  <2>2. Cardinality(B) = n
    BY <1>3, Blocks
  <2> QED BY <2>1, <2>2
<1>12. children[c].free + Cardinality(Owned \cap ChildFrames(c)) + 0 = CHILD_SIZE
  BY <1>8, <1>9, FS_EmptySet DEF Sum
<1>13. children[c].free \in 0 .. CHILD_SIZE /\ CHILD_SIZE \in Nat
  BY <1>1, <1>3, ChildSizePositive DEF TypeOK, ChildType
<1>14. children[c].free \in n .. CHILD_SIZE
  <2> DEFINE x == Cardinality(Owned \cap ChildFrames(c))
  <2>1. x \in Nat /\ x + n <= CHILD_SIZE /\ children[c].free + x + 0 = CHILD_SIZE
    BY <1>10, <1>11, <1>12
  <2> HIDE DEF x, n
  <2> QED BY <1>3, <1>13, <2>1
<1> QED BY <1>2, <1>3, <1>7, <1>14

\* A child whose counter is too low, or is not that of a free child, has no room.
LEMMA FullByCounter ==
    ASSUME Modest, Alone, YInv, ~Recovering, NEW t \in Threads, pc[t] \notin InChild,
           own[t] = {}, NEW c \in Children,
           \/ ~CanDec(c, call[t].n)
           \/ call[t].n = CHILD_SIZE /\ children[c] # FreeChild
    PROVE  Full(c, call[t].n)
<1> SUFFICES ASSUME NEW f \in Frames, InRange(f, call[t].n), ChildOf(f) = c,
                    ~Taken(f, call[t].n)
             PROVE  FALSE
  BY DEF Full
<1>1. /\ ~children[c].huge /\ children[c].free \in call[t].n .. CHILD_SIZE
  BY RoomCounted
<1>2. /\ children[c] \in ChildType /\ call[t].n \in Nat /\ CHILD_SIZE \in Nat
  BY CallSize, ChildSizePositive DEF YInv, XInv, TypeInv, TypeOK
<1>3. CASE ~CanDec(c, call[t].n)
  <2>1. children[c].free >= call[t].n
    BY <1>1, <1>2
  <2> QED BY <1>1, <1>3, <2>1 DEF CanDec
<1>4. CASE call[t].n = CHILD_SIZE /\ children[c] # FreeChild
  <2>1. children[c].free = CHILD_SIZE /\ children[c].huge = FALSE
    BY <1>1, <1>2, <1>4 DEF ChildType
  <2>2. children[c] = [free |-> CHILD_SIZE, huge |-> FALSE]
    BY <1>2, <2>1 DEF ChildType
  <2> QED BY <1>4, <2>2 DEF FreeChild, Child
<1> QED BY <1>3, <1>4

-----------------------------------------------------------------------------
(* A search that has passed everything has looked everywhere. *)

\* All rows of a child.
LEMMA AllRows ==
    ASSUME OneHuge, TypeOK, NEW t \in Threads, Cur(t) \in Int,
           \A g \in 0 .. FIELD_N - 1 : RowPassed(t, g)
    PROVE  Full(Cur(t), call[t].n)
<1> DEFINE s == RowOf(call[t].frame) % FIELD_N
<1> SUFFICES ASSUME NEW f \in Frames, InRange(f, call[t].n), ChildOf(f) = Cur(t)
             PROVE  Taken(f, call[t].n)
  BY DEF Full
<1>1. f \in Int
  BY DEF Frames
<1>2. PICK v \in 0 .. FIELD_N - 1 : f \in Row(FIELD_N * Cur(t) + v)
  BY <1>1, RowsOfChild
<1>3. s \in 0 .. FIELD_N - 1
  BY CallSize, FramePositions
<1>4. s \in Nat /\ v \in Int /\ v \div FIELD_N = s \div FIELD_N
  BY <1>2, <1>3
<1> HIDE DEF s
<1>5. PICK g \in 0 .. FIELD_N - 1 : Visit(s, FIELD_N, g) = v
  BY <1>4, VisitAll
<1>6. f \in Row(RowAt(t, g))
  BY <1>2, <1>5 DEF RowAt, s
<1> QED BY <1>5, <1>6 DEF RowPassed

\* All groups of rows of a child.
LEMMA AllGroups ==
    ASSUME OneHuge, TypeOK, NEW t \in Threads, Cur(t) \in Int, call[t].n > ATOMIC_SIZE,
           \A g \in 0 .. (FIELD_N \div Parts(call[t].n)) - 1 : GroupPassed(t, g)
    PROVE  Full(Cur(t), call[t].n)
<1> DEFINE n == call[t].n
           m == FIELD_N \div Parts(n)
           s == (RowOf(call[t].frame) % FIELD_N) \div Parts(n)
<1> SUFFICES ASSUME NEW f \in Frames, InRange(f, n), ChildOf(f) = Cur(t)
             PROVE  Taken(f, n)
  BY DEF Full
<1>1. /\ f \in Int /\ f % n = 0 /\ n \in Nat \ {0} /\ IsSize(n) /\ n <= CHILD_SIZE
      /\ n > ATOMIC_SIZE
  BY CallSmall, CallSize DEF Frames, InRange
<1> HIDE DEF n
<1>2. m \in Nat \ {0} /\ \E v \in 0 .. m - 1 : f = ChildBase(Cur(t)) + n * v
  BY <1>1, GroupsOfChild
<1>3. PICK v \in 0 .. m - 1 : f = ChildBase(Cur(t)) + n * v
  BY <1>2
<1>4. s \in 0 .. m - 1
  <2>1. PICK e \in 1 .. FIELD_N : FIELD_N % e = 0 /\ Parts(n) = e
    BY <1>1, Sized
  <2>2. RowOf(call[t].frame) % FIELD_N \in 0 .. FIELD_N - 1
    BY CallSize, FramePositions
  <2>3. \A a \in Nat \ {0} : \A d \in 1 .. a : \A x \in 0 .. a - 1 :
          a % d = 0 => x \div d \in 0 .. (a \div d) - 1
    <3> SUFFICES ASSUME NEW a \in Nat \ {0}, NEW d \in 1 .. a, NEW x \in 0 .. a - 1, a % d = 0
                 PROVE  x \div d \in 0 .. (a \div d) - 1
      OBVIOUS
    <3> DEFINE p == x \div d
               r == a \div d
    <3>1. /\ p \in Int /\ r \in Int /\ a = d * r /\ d * p <= x /\ x < d * p + d
      OBVIOUS
    <3> HIDE DEF p, r
    <3>2. d * p < d * r /\ d * 0 < d * (p + 1)
      BY <3>1
    <3>3. p < r /\ 0 < p + 1
      BY <3>1, <3>2, Cancel
    <3> QED BY <3>1, <3>3 DEF p, r
  <2> QED BY <2>1, <2>2, <2>3
<1>5. s \in Nat /\ v \in Int /\ v \div m = s \div m
  BY <1>2, <1>3, <1>4
<1> HIDE DEF s, m
<1>6. \E g \in 0 .. m - 1 : Visit(s, m, g) = v
  <2>1. m \in Nat \ {0} /\ s \in Nat /\ v \in Int /\ v \div m = s \div m
    BY <1>2, <1>5
  <2> QED BY <2>1, VisitAll, Zenon
<1>g. PICK g \in 0 .. m - 1 : Visit(s, m, g) = v
  BY <1>6
<1>7. f = GroupOf(t, g)
  BY <1>3, <1>g DEF GroupOf, s, m, n
<1> QED BY <1>g, <1>7 DEF GroupPassed, m, n

\* All children of the tree.
LEMMA AllChildren ==
    ASSUME TypeOK, NEW t \in Threads, call[t].op = "get",
           \A k \in 0 .. TREE_CHILDREN - 1 : ChildPassed(t, k)
    PROVE  \A f \in Candidates(t) : Taken(f, call[t].n)
<1> SUFFICES ASSUME NEW f \in Frames, InRange(f, call[t].n),
                    ChildOf(f) \div TREE_CHILDREN = ChildOf(call[t].frame) \div TREE_CHILDREN
             PROVE  Taken(f, call[t].n)
  BY DEF Candidates
<1>1. ChildOf(f) \in Int /\ ChildOf(call[t].frame) \in Nat
  BY CallSize, FramePositions
<1>2. PICK k \in 0 .. TREE_CHILDREN - 1 :
        Visit(ChildOf(call[t].frame), TREE_CHILDREN, k) = ChildOf(f)
  BY <1>1, VisitAll
<1> QED BY <1>2 DEF ChildPassed, Full

-----------------------------------------------------------------------------
(* Where the steps of a search leave it. *)

\* What was taken stays so until somebody frees it.
LEMMA StaysTaken ==
    ASSUME NEW t \in Threads, UNCHANGED clients, call'[t] = call[t]
    PROVE  /\ \A f, n : Taken(f, n) => Taken(f, n)'
           /\ \A k : ChildPassed(t, k) => ChildPassed(t, k)'
           /\ Candidates(t)' = Candidates(t)
           /\ Cur(t)' = Cur(t) =>
                /\ Full(Cur(t), call[t].n) => Full(Cur(t), call[t].n)'
                /\ \A g : RowPassed(t, g) => RowPassed(t, g)'
                /\ \A g : GroupPassed(t, g) => GroupPassed(t, g)'
<1>1. held' = held /\ lost' = lost
  BY DEF clients
<1>2. \A f, n : Taken(f, n) => Taken(f, n)'
  BY <1>1 DEF Taken
<1>3. \A k : ChildPassed(t, k) => ChildPassed(t, k)'
  BY <1>1 DEF ChildPassed, Full, Taken
<1>4. Candidates(t)' = Candidates(t)
  BY DEF Candidates
<1>5. ASSUME Cur(t)' = Cur(t)
      PROVE  /\ Full(Cur(t), call[t].n) => Full(Cur(t), call[t].n)'
             /\ \A g : RowPassed(t, g) => RowPassed(t, g)'
             /\ \A g : GroupPassed(t, g) => GroupPassed(t, g)'
  <2>1. Full(Cur(t), call[t].n) => Full(Cur(t), call[t].n)'
    BY <1>1, <1>5 DEF Full, Taken
  <2>2. ASSUME NEW g PROVE RowPassed(t, g) => RowPassed(t, g)'
    BY <1>1, <1>5 DEF RowPassed, RowAt, Taken
  <2>3. ASSUME NEW g PROVE GroupPassed(t, g) => GroupPassed(t, g)'
    BY <1>1, <1>5 DEF GroupPassed, GroupOf, Taken
  <2> QED BY <2>1, <2>2, <2>3
<1> QED BY <1>2, <1>3, <1>4, <1>5

\* Nothing has been passed where no search goes on.
LEMMA NothingPassed ==
    ASSUME NEW t \in Threads,
           pc'[t] \notin {"idle", "dec", "search", "set", "unset", "undec"},
           pc'[t] = "huge" => call'[t].op # "get" \/ loc'[t].k = 0,
           pc'[t] = "memory" => call'[t].op = "put"
    PROVE  Passed(t)'
<1>1. pc'[t] = "huge" /\ call'[t].op = "get" => 0 .. loc'[t].k - 1 = {}
  OBVIOUS
<1> QED BY <1>1 DEF Passed

\* A search that stays at its label, its child and its row.
LEMMA SamePassed ==
    ASSUME NEW t \in Threads, Passed(t), UNCHANGED <<call, clients>>, pc'[t] = pc[t],
           loc'[t].k = loc[t].k, loc'[t].g = loc[t].g, pc[t] # "idle"
    PROVE  Passed(t)'
<1>1. Cur(t)' = Cur(t) /\ call'[t] = call[t]
  BY CurStays
<1> QED BY <1>1, StaysTaken DEF Passed

\* A search that is done with a child, and goes on to the next one or gives up.
LEMMA ChildDone ==
    ASSUME TypeOK, NEW t \in Threads, UNCHANGED <<call, clients>>, call[t].op # "put",
           call[t].op = "get" => \A k \in 0 .. loc[t].k : ChildPassed(t, k),
           call[t].op = "get_at" => Taken(call[t].frame, call[t].n),
           IF call[t].op = "get" /\ loc[t].k + 1 < TREE_CHILDREN
           THEN pc'[t] \in {"dec", "huge"} /\ loc'[t] = LoopAt(loc[t].k + 1, 0)
           ELSE pc'[t] = "memory"
    PROVE  Passed(t)'
<1>1. /\ call'[t] = call[t] /\ loc[t].k \in Nat /\ call[t].op \in {"get", "get_at"}
  BY CallSize DEF Ops
<1>2. CASE call[t].op = "get" /\ loc[t].k + 1 < TREE_CHILDREN
  <2>1. loc'[t].k = loc[t].k + 1 /\ loc'[t].g = 0
    BY <1>2 DEF LoopAt
  <2>2. 0 .. loc'[t].k - 1 = 0 .. loc[t].k
    BY <1>1, <2>1
  <2>3. \A k \in 0 .. loc'[t].k - 1 : ChildPassed(t, k)'
    BY <1>1, <1>2, <2>2, StaysTaken
  <2> QED BY <1>2, <2>1, <2>3 DEF Passed
<1>3. CASE ~(call[t].op = "get" /\ loc[t].k + 1 < TREE_CHILDREN)
  <2>1. \A f \in Candidates(t) : Taken(f, call[t].n)
    <3>1. CASE call[t].op = "get"
      <4>1. \A k \in 0 .. TREE_CHILDREN - 1 : k \in 0 .. loc[t].k
        BY <1>1, <1>3, <3>1
      <4> QED BY <3>1, <4>1, AllChildren
    <3>2. CASE call[t].op = "get_at"
      BY <3>2 DEF Candidates
    <3> QED BY <1>1, <3>1, <3>2
  <2>2. \A f \in Candidates(t)' : Taken(f, call[t].n)'
    BY <1>1, <2>1, StaysTaken
  <2> QED BY <1>1, <1>3, <2>2 DEF Passed
<1> QED BY <1>2, <1>3

\* What a search has passed when the child that it is at has no room.
LEMMA ChildFull ==
    ASSUME OneHuge, TypeOK, NEW t \in Threads, Passed(t), pc[t] \in {"dec", "undec", "huge"},
           IF pc[t] = "undec" /\ call[t].op = "get_at" THEN Taken(call[t].frame, call[t].n)
           ELSE Full(Cur(t), call[t].n),
           call[t].op # "get" => InRange(call[t].frame, call[t].n)
    PROVE  /\ call[t].op = "get" => \A k \in 0 .. loc[t].k : ChildPassed(t, k)
           /\ call[t].op = "get_at" => Taken(call[t].frame, call[t].n)
<1>1. loc[t].k \in Nat /\ call[t].frame \in Frames
  BY CallSize
<1>2. ASSUME call[t].op = "get", NEW k \in 0 .. loc[t].k PROVE ChildPassed(t, k)
  <2>1. CASE k = loc[t].k
    BY <1>2, <2>1 DEF ChildPassed, Cur
  <2>2. CASE k # loc[t].k
    <3>1. k \in 0 .. loc[t].k - 1
      BY <1>1, <2>2
    <3> QED BY <1>2, <3>1 DEF Passed
  <2> QED BY <2>1, <2>2
<1>3. ASSUME call[t].op = "get_at" PROVE Taken(call[t].frame, call[t].n)
  BY <1>1, <1>3 DEF Full, Cur
<1> QED BY <1>2, <1>3

\* A search over groups of rows that is done with a group, and goes on to the next one
\* or gives back what it has taken from the counter.
LEMMA GroupDone ==
    ASSUME OneHuge, TypeInv, NEW t \in Threads, Passed(t), pc[t] \in {"set", "unset"},
           GroupPassed(t, loc[t].g), Cur(t) \in Int, UNCHANGED <<call, clients>>, NextGroup(t)
    PROVE  Passed(t)'
<1> DEFINE m == FIELD_N \div Parts(call[t].n)
<1>1. /\ TypeOK /\ call[t].op = "get" /\ call[t].n > ATOMIC_SIZE /\ call[t].n < CHILD_SIZE
  BY PhaseNow DEF TypeInv, PhaseAt, Done
<1>2. /\ call'[t] = call[t] /\ loc[t].k \in Nat /\ loc[t].g \in Nat /\ IsSize(call[t].n)
  BY <1>1, CallSize
<1>3. m \in Nat
  <2>1. PICK e \in 1 .. FIELD_N : e = Parts(call[t].n)
    BY <1>1, <1>2, PartsPositive
  <2> QED BY <2>1
<1>4. \A g \in 0 .. loc[t].g : GroupPassed(t, g)
  <2> SUFFICES ASSUME NEW g \in 0 .. loc[t].g, g # loc[t].g PROVE GroupPassed(t, g)
    OBVIOUS
  <2>1. g \in 0 .. loc[t].g - 1
    BY <1>2
  <2> QED BY <2>1 DEF Passed
<1>5. \A k \in 0 .. loc[t].k - 1 : ChildPassed(t, k)
  BY <1>1 DEF Passed
<1> HIDE DEF m
<1>6. CASE loc[t].g + 1 < m
  <2>1. pc'[t] = "set" /\ loc'[t] = LoopAt(loc[t].k, loc[t].g + 1)
    BY <1>1, <1>6, GoesTo, SetsLoc DEF NextGroup, m
  <2>2. loc'[t].k = loc[t].k /\ loc'[t].g = loc[t].g + 1
    BY <2>1 DEF LoopAt
  <2>3. Cur(t)' = Cur(t)
    BY <1>2, <2>2, CurStays
  <2>4. 0 .. loc'[t].g - 1 = 0 .. loc[t].g
    BY <1>2, <2>2
  <2>5. /\ \A g \in 0 .. loc'[t].g - 1 : GroupPassed(t, g)'
        /\ \A k \in 0 .. loc'[t].k - 1 : ChildPassed(t, k)'
    BY <1>2, <1>4, <1>5, <2>2, <2>3, <2>4, StaysTaken
  <2> QED BY <2>1, <2>5 DEF Passed
<1>7. CASE ~(loc[t].g + 1 < m)
  <2>1. pc'[t] = "undec" /\ loc' = loc
    BY <1>1, <1>7, GoesTo DEF NextGroup, m
  <2>2. Cur(t)' = Cur(t)
    BY <1>2, <2>1, CurStays
  <2>3. \A g \in 0 .. m - 1 : GroupPassed(t, g)
    <3>1. \A g \in 0 .. m - 1 : g \in 0 .. loc[t].g
      BY <1>2, <1>3, <1>7
    <3> QED BY <1>4, <3>1
  <2>4. Full(Cur(t), call[t].n)
    BY <1>1, <2>3, AllGroups DEF m
  <2>5. Full(Cur(t), call[t].n)'
    BY <1>2, <2>2, <2>4, StaysTaken
  <2>6. \A k \in 0 .. loc'[t].k - 1 : ChildPassed(t, k)'
    BY <1>2, <1>5, <2>1, StaysTaken
  <2> QED BY <1>1, <1>2, <2>1, <2>5, <2>6 DEF Passed
<1> QED BY <1>6, <1>7

-----------------------------------------------------------------------------
(* The steps of a search. *)

\* What the invariant says about a search inside a child.
LEMMA Searching ==
    ASSUME Modest, ZInv, NEW t \in Threads
    PROVE  /\ OneHuge /\ YInv /\ XInv /\ TypeInv /\ TypeOK /\ Plain(t) /\ OwnAt(t) /\ Passed(t)
           /\ PhaseAt(call[t], pc[t])
           /\ pc[t] \in InChild => Cur(t) \in 0 .. ChildCount - 1 /\ Cur(t) \in Int
           /\ call[t].op # "get" /\ pc[t] \notin {"idle", "argument"}
                => InRange(call[t].frame, call[t].n)
<1>1. /\ OneHuge /\ YInv /\ XInv /\ TypeInv /\ TypeOK /\ Plain(t) /\ OwnAt(t) /\ Passed(t)
      /\ PhaseAt(call[t], pc[t]) /\ AtChild(t)
  BY Here DEF ZInv
<1>2. pc[t] \in InChild => Cur(t) \in 0 .. ChildCount - 1 /\ Cur(t) \in Int
  BY <1>1, ChildRanges DEF AtChild, InPart
<1>3. call[t].op # "get" /\ pc[t] \notin {"idle", "argument"} => InRange(call[t].frame, call[t].n)
  BY <1>1 DEF OwnAt
<1> QED BY <1>1, <1>2, <1>3

\* Where try_next_child leaves a search.
LEMMA NextChildDone ==
    ASSUME OneHuge, TypeOK, NEW t \in Threads, Passed(t), pc[t] \in {"dec", "undec"},
           UNCHANGED <<call, clients>>, call[t].op # "put", NextChild(t),
           IF pc[t] = "undec" /\ call[t].op = "get_at" THEN Taken(call[t].frame, call[t].n)
           ELSE Full(Cur(t), call[t].n),
           call[t].op # "get" => InRange(call[t].frame, call[t].n)
    PROVE  Passed(t)'
<1>1. /\ call[t].op = "get" => \A k \in 0 .. loc[t].k : ChildPassed(t, k)
      /\ call[t].op = "get_at" => Taken(call[t].frame, call[t].n)
  BY ChildFull
<1>2. IF call[t].op = "get" /\ loc[t].k + 1 < TREE_CHILDREN
      THEN pc'[t] \in {"dec", "huge"} /\ loc'[t] = LoopAt(loc[t].k + 1, 0)
      ELSE pc'[t] = "memory"
  BY GoesTo, SetsLoc DEF NextChild
<1> QED BY <1>1, <1>2, ChildDone

\* The counter of a child is too low for the call.
LEMMA ChildDecPasses ==
    ASSUME Modest, Alone, ZInv, NEW t \in Threads, ChildDec(t)
    PROVE  Passed(t)'
<1>1. /\ OneHuge /\ YInv /\ TypeOK /\ Passed(t) /\ pc[t] = "dec" /\ ~Recovering
      /\ own[t] = {} /\ call[t].op # "put" /\ UNCHANGED <<call, clients>>
      /\ call[t].op # "get" => InRange(call[t].frame, call[t].n)
  BY Searching DEF ChildDec, At, PhaseAt, OwnAt
<1>2. Cur(t) \in Children
  <2>1. call[t].frame \in Frames /\ loc[t].k \in Nat
    BY <1>1, CallSize
  <2>2. /\ ChildOf(call[t].frame) \in 0 .. ChildCount - 1
        /\ Visit(ChildOf(call[t].frame), TREE_CHILDREN, loc[t].k) \in Children
    BY <2>1, VisitChildren
  <2> QED BY <2>2, ChildRanges DEF Cur
<1>3. CASE CanDec(Cur(t), call[t].n)
  <2>1. loc' = loc /\ pc'[t] = IF call[t].op = "get_at" THEN "mark"
                               ELSE IF call[t].n > ATOMIC_SIZE THEN "set" ELSE "search"
    BY <1>1, <1>3, GoesTo DEF ChildDec
  <2>2. call'[t] = call[t] /\ loc'[t].g = 0 /\ loc'[t].k = loc[t].k
    BY <1>1, <2>1 DEF Passed
  <2>3. 0 .. loc'[t].g - 1 = {}
    BY <2>2
  <2>4. call[t].op = "get" => \A k \in 0 .. loc'[t].k - 1 : ChildPassed(t, k)'
    BY <1>1, <2>2, StaysTaken DEF Passed
  <2> QED BY <2>1, <2>2, <2>3, <2>4 DEF Passed
<1>4. CASE ~CanDec(Cur(t), call[t].n)
  <2>1. Full(Cur(t), call[t].n)
    BY <1>1, <1>2, <1>4, FullByCounter DEF InChild
  <2>2. NextChild(t)
    BY <1>4 DEF ChildDec
  <2> QED BY <1>1, <2>1, <2>2, NextChildDone
<1> QED BY <1>3, <1>4

LEMMA UndoDecPasses ==
    ASSUME Modest, Alone, ZInv, NEW t \in Threads, UndoDec(t)
    PROVE  Passed(t)'
<1>1. /\ OneHuge /\ YInv /\ TypeOK /\ Passed(t) /\ pc[t] = "undec" /\ ~Recovering
      /\ call[t].op # "put" /\ UNCHANGED <<call, clients>>
      /\ call[t].op # "get" => InRange(call[t].frame, call[t].n)
  BY Searching DEF UndoDec, At, PhaseAt
<1>2. NextChild(t)
  BY <1>1, RoomFor DEF UndoDec
<1>3. call[t].op \in {"get", "get_at"}
  BY <1>1, CallSize DEF Ops
<1>4. IF call[t].op = "get_at" THEN Taken(call[t].frame, call[t].n)
      ELSE Full(Cur(t), call[t].n)
  BY <1>1, <1>3 DEF Passed
<1> QED BY <1>1, <1>2, <1>4, NextChildDone

\* A row without a free block has a set bit in each.
LEMMA SearchRowPasses ==
    ASSUME Modest, Alone, ZInv, NEW t \in Threads, SearchRow(t)
    PROVE  Passed(t)'
<1>1. /\ OneHuge /\ YInv /\ TypeOK /\ Passed(t) /\ pc[t] = "search"
      /\ own[t] = {} /\ call[t].op = "get" /\ Cur(t) \in Int /\ UNCHANGED <<call, clients>>
  BY Searching DEF SearchRow, At, PhaseAt, OwnAt, InChild
<1>2. /\ loc[t] \in LocType /\ loc[t].k \in Nat /\ loc[t].g \in Nat
      /\ \A k \in 0 .. loc[t].k - 1 : ChildPassed(t, k)
      /\ \A g \in 0 .. loc[t].g - 1 : RowPassed(t, g)
  BY <1>1, CallSize DEF Passed
<1>3. ASSUME FreeInRow(RowAt(t, loc[t].g), call[t].n) = {}
      PROVE  \A g \in 0 .. loc[t].g : RowPassed(t, g)
  <2>1. RowPassed(t, loc[t].g)
    <3> SUFFICES ASSUME NEW f \in Frames \cap Row(RowAt(t, loc[t].g)), InRange(f, call[t].n)
                 PROVE  Taken(f, call[t].n)
      BY DEF RowPassed
    <3>1. f % call[t].n = 0 /\ Block(f, call[t].n) \subseteq Frames
      BY <1>1, BlockAt
    <3>2. PICK x \in Block(f, call[t].n) : x \in bits
      BY <1>3, <3>1 DEF FreeInRow
    <3>3. x \in held \cup lost
      BY <1>1, <3>1, <3>2, SetBitHeld
    <3> QED BY <3>3 DEF Taken
  <2>2. ASSUME NEW g \in 0 .. loc[t].g, g # loc[t].g PROVE g \in 0 .. loc[t].g - 1
    BY <1>2, <2>2
  <2> QED BY <1>2, <2>1, <2>2
<1>4. \/ Goto(t, "ok")
      \/ /\ FreeInRow(RowAt(t, loc[t].g), call[t].n) = {}
         /\ IF loc[t].g + 1 < FIELD_N
            THEN SetLoc(t, [loc[t] EXCEPT !.g = @ + 1]) /\ UNCHANGED pc
            ELSE Goto(t, "undec") /\ UNCHANGED loc
  BY DEF SearchRow, RowAt
<1>5. CASE Goto(t, "ok")
  BY <1>1, <1>5, GoesTo, NothingPassed
<1>6. CASE /\ FreeInRow(RowAt(t, loc[t].g), call[t].n) = {} /\ loc[t].g + 1 < FIELD_N
           /\ SetLoc(t, [loc[t] EXCEPT !.g = @ + 1]) /\ UNCHANGED pc
  <2>1. loc'[t] = [loc[t] EXCEPT !.g = @ + 1]
    BY <1>1, <1>6, SetsLoc
  <2>2. loc'[t].k = loc[t].k /\ loc'[t].g = loc[t].g + 1
    BY <1>2, <2>1 DEF LocType
  <2>3. Cur(t)' = Cur(t) /\ call'[t] = call[t]
    BY <1>1, <2>2, CurStays
  <2>4. 0 .. loc'[t].g - 1 = 0 .. loc[t].g
    BY <1>2, <2>2
  <2>5. /\ \A g \in 0 .. loc'[t].g - 1 : RowPassed(t, g)'
        /\ \A k \in 0 .. loc'[t].k - 1 : ChildPassed(t, k)'
    BY <1>1, <1>2, <1>3, <1>6, <2>2, <2>3, <2>4, StaysTaken
  <2> QED BY <1>1, <1>6, <2>5 DEF Passed
<1>7. CASE /\ FreeInRow(RowAt(t, loc[t].g), call[t].n) = {} /\ ~(loc[t].g + 1 < FIELD_N)
           /\ Goto(t, "undec") /\ UNCHANGED loc
  <2>1. pc'[t] = "undec" /\ loc' = loc
    BY <1>1, <1>7, GoesTo
  <2>2. Cur(t)' = Cur(t) /\ call'[t] = call[t]
    BY <1>1, <2>1, CurStays
  <2>3. \A g \in 0 .. FIELD_N - 1 : RowPassed(t, g)
    <3>1. \A g \in 0 .. FIELD_N - 1 : g \in 0 .. loc[t].g
      BY <1>2, <1>7
    <3> QED BY <1>3, <1>7, <3>1
  <2>4. Full(Cur(t), call[t].n)'
    BY <1>1, <2>2, <2>3, AllRows, StaysTaken
  <2>5. \A k \in 0 .. loc'[t].k - 1 : ChildPassed(t, k)'
    BY <1>1, <1>2, <2>1, <2>2, StaysTaken
  <2> QED BY <1>1, <2>1, <2>2, <2>4, <2>5 DEF Passed
<1> QED BY <1>4, <1>5, <1>6, <1>7

\* A group of rows whose next row has a set bit.
LEMMA SetRowPasses ==
    ASSUME Modest, Alone, ZInv, NEW t \in Threads, SetRow(t)
    PROVE  Passed(t)'
<1> DEFINE n == call[t].n
           b == GroupBase(t)
           i == loc[t].i
           P == Part(b, n, i)
<1>1. /\ OneHuge /\ YInv /\ TypeInv /\ TypeOK /\ Passed(t) /\ pc[t] = "set"
      /\ UNCHANGED <<call, clients>>
      /\ Cur(t) \in 0 .. ChildCount - 1 /\ Cur(t) \in Int
      /\ i \in 0 .. Parts(n) - 1 /\ own[t] = Block(b, i * Unit(n))
  BY Searching DEF SetRow, At, OwnAt, InChild
<1>2. /\ n \in Nat \ {0} /\ IsSize(n) /\ n <= CHILD_SIZE /\ loc[t] \in LocType
      /\ b \in Int /\ b % n = 0 /\ ChildOf(b) = Cur(t)
  BY <1>1, CallSize, CallSmall, GroupAt
<1>3. P \subseteq Block(b, n) /\ P \cap own[t] = {} /\ P \subseteq AllFrames
  <2>1. /\ P = Block(b + i * Unit(n), Unit(n)) /\ i * Unit(n) \in Nat
        /\ (i + 1) * Unit(n) = i * Unit(n) + Unit(n) /\ n - (i + 1) * Unit(n) \in Nat
    BY <1>1, <1>2, PartIs
  <2>2. Unit(n) \in Nat
    BY <1>2, Sized
  <2>3. P \subseteq AllFrames
    BY <1>1, <1>2, PartAt, ChildInAll
  <2> DEFINE w == i * Unit(n)
  <2>4. w \in Nat /\ n - (w + Unit(n)) \in Nat /\ P = Block(b + w, Unit(n)) /\ own[t] = Block(b, w)
    BY <1>1, <2>1
  <2> HIDE DEF w, P, n, b
  <2> QED BY <1>2, <2>2, <2>3, <2>4 DEF Block
<1>4. ASSUME ~CanToggle(P, FALSE) PROVE GroupPassed(t, loc[t].g)
  <2>1. PICK x \in P : x \in bits
    BY <1>4 DEF CanToggle
  <2>2. GroupOf(t, loc[t].g) = b
    BY DEF GroupOf, GroupBase
  <2>3. ASSUME InRange(b, n) PROVE Taken(b, n)
    <3>1. x \in Frames
      <4>1. x \in Int /\ 0 <= x /\ x <= b + n - 1 /\ b + n <= FRAMES
        BY <1>2, <1>3, <2>1, <2>3 DEF InRange, Block, AllFrames
      <4> HIDE DEF b, n
      <4> QED BY <1>2, <4>1 DEF Frames
    <3>2. x \in held \cup lost
      BY <1>1, <1>3, <2>1, <3>1, SetBitHeld
    <3> QED BY <1>3, <2>1, <3>2 DEF Taken
  <2> QED BY <2>2, <2>3 DEF GroupPassed
<1>5. CASE CanToggle(P, FALSE)
  <2>1. CASE loc[t].i + 1 = Parts(call[t].n)
    <3>1. pc'[t] = "ok"
      BY <1>1, <1>5, <2>1, GoesTo DEF SetRow
    <3> QED BY <3>1, NothingPassed
  <2>2. CASE loc[t].i + 1 # Parts(call[t].n)
    <3>1. pc' = pc /\ loc'[t] = [loc[t] EXCEPT !.i = @ + 1]
      BY <1>1, <1>5, <2>2, SetsLoc DEF SetRow
    <3>2. loc'[t].k = loc[t].k /\ loc'[t].g = loc[t].g
      BY <1>2, <3>1, Counters
    <3> QED BY <1>1, <3>1, <3>2, SamePassed
  <2> QED BY <2>1, <2>2
<1>6. CASE ~CanToggle(P, FALSE)
  <2>1. CASE loc[t].i = 0
    <3>1. NextGroup(t)
      BY <1>6, <2>1 DEF SetRow
    <3> HIDE DEF P, n, b, i
    <3> QED BY <1>1, <1>4, <1>6, <3>1, GroupDone
  <2>2. CASE loc[t].i # 0
    <3>1. pc'[t] = "unset" /\ loc' = loc
      BY <1>1, <1>6, <2>2, GoesTo DEF SetRow
    <3>2. Cur(t)' = Cur(t) /\ call'[t] = call[t]
      BY <1>1, <3>1, CurStays
    <3>3. /\ \A g \in 0 .. loc[t].g - 1 : GroupPassed(t, g)'
          /\ \A k \in 0 .. loc[t].k - 1 : ChildPassed(t, k)'
          /\ GroupPassed(t, loc[t].g)'
      <4>1. call[t].op = "get"
        BY <1>1, PhaseNow DEF PhaseAt
      <4> QED BY <1>1, <1>4, <1>6, <3>1, <3>2, <4>1, StaysTaken DEF Passed
    <3> QED BY <3>1, <3>3 DEF Passed
  <2> QED BY <2>1, <2>2
<1> QED BY <1>5, <1>6

LEMMA UndoSetRowPasses ==
    ASSUME Modest, Alone, ZInv, NEW t \in Threads, TypeInv', UndoSetRow(t)
    PROVE  Passed(t)'
<1>1. /\ OneHuge /\ XInv /\ TypeInv /\ TypeOK /\ Passed(t) /\ pc[t] = "unset"
      /\ UNCHANGED <<call, clients>> /\ Cur(t) \in Int /\ loc[t] \in LocType
  BY Searching, CallSize DEF UndoSetRow, At, InChild
<1>2. pc'[t] # "abort"
  BY <1>1, UndoSetRowCalm
<1>3. CanToggle(Part(GroupBase(t), call[t].n, UndoRow(t)), TRUE)
  BY <1>1, <1>2, GoesTo DEF UndoSetRow
<1>4. CASE loc[t].j + 1 = loc[t].i
  <2>1. NextGroup(t) /\ GroupPassed(t, loc[t].g)
    BY <1>1, <1>3, <1>4 DEF UndoSetRow, Passed
  <2> QED BY <1>1, <2>1, GroupDone
<1>5. CASE loc[t].j + 1 # loc[t].i
  <2>1. pc' = pc /\ loc'[t] = [loc[t] EXCEPT !.j = @ + 1]
    BY <1>1, <1>3, <1>5, SetsLoc DEF UndoSetRow
  <2>2. loc'[t].k = loc[t].k /\ loc'[t].g = loc[t].g
    BY <1>1, <2>1, Counters
  <2> QED BY <1>1, <2>1, <2>2, SamePassed
<1> QED BY <1>4, <1>5

\* An exact block with a set bit.
LEMMA MarkPasses ==
    ASSUME Modest, Alone, ZInv, NEW t \in Threads, Toggle(t, "mark")
    PROVE  Passed(t)'
<1> DEFINE n == call[t].n
           f == call[t].frame
<1>1. /\ OneHuge /\ YInv /\ TypeOK /\ Plain(t) /\ pc[t] = "mark" /\ UNCHANGED <<call, clients>>
      /\ call[t].op = "get_at" /\ n < CHILD_SIZE /\ InRange(f, n)
      /\ loc[t].i \in 0 .. Parts(n) - 1 /\ own[t] = Block(f, loc[t].i * Unit(n))
      /\ \A a \in AtSizes : a <= ATOMIC_SIZE \/ a = CHILD_SIZE
  BY Searching DEF Toggle, At, PhaseAt, Done, OwnAt, Modest
<1>2. n \in Nat \ {0} /\ IsSize(n) /\ f \in Frames /\ f \in Int /\ CHILD_SIZE \in Nat
  BY <1>1, CallSize, ChildSizePositive DEF Frames
<1>3. n <= ATOMIC_SIZE
  <2>1. n \in AtSizes
    BY <1>1 DEF Plain
  <2> QED BY <1>1, <1>2, <2>1
<1>4. Parts(n) = 1 /\ loc[t].i = 0
  BY <1>1, <1>2, <1>3 DEF Parts
<1>5. own[t] = {}
  <2>1. 0 * Unit(n) = 0
    BY <1>2, <1>3 DEF Unit
  <2> QED BY <1>1, <1>2, <1>4, <2>1, Blocks
<1>6. Part(f, n, 0) = Block(f, n)
  BY <1>2, <1>3 DEF Part
<1>7. Target(t, "mark").f = f /\ Target(t, "mark").n = n /\ Expected("mark") = FALSE
  BY DEF Target, Expected
<1> HIDE DEF n, f
<1>8. IF CanToggle(Block(f, n), FALSE) THEN pc'[t] = "ok" ELSE pc'[t] = "undec" /\ loc' = loc
  <2> DEFINE b == Target(t, "mark")
  <2>1. Part(b.f, b.n, loc[t].i) = Block(f, n) /\ loc[t].i + 1 = Parts(b.n)
    BY <1>4, <1>6, <1>7
  <2> HIDE DEF b
  <2>2. IF CanToggle(Block(f, n), FALSE) THEN Goto(t, "ok")
        ELSE Goto(t, "undec") /\ loc' = loc
    BY <1>4, <1>7, <2>1 DEF Toggle, AfterToggle, AfterFailure, b
  <2> QED BY <1>1, <2>2, GoesTo
<1>9. CASE CanToggle(Block(f, n), FALSE)
  BY <1>8, <1>9, NothingPassed
<1>10. CASE ~CanToggle(Block(f, n), FALSE)
  <2>1. PICK x \in Block(f, n) : x \in bits
    BY <1>10 DEF CanToggle
  <2>2. Block(f, n) \subseteq Frames
    BY <1>1, <1>2, BlockAt DEF n, f
  <2>3. x \in held \cup lost
    BY <1>1, <1>5, <2>1, <2>2, SetBitHeld
  <2>4. Taken(call[t].frame, call[t].n)
    BY <2>1, <2>3 DEF Taken, n, f
  <2>5. call'[t] = call[t] /\ Taken(call[t].frame, call[t].n)'
    BY <1>1, <2>4, StaysTaken
  <2> QED BY <1>1, <1>8, <1>10, <2>5 DEF Passed
<1> QED BY <1>9, <1>10

\* A child that is not free as a whole.
LEMMA HugeCasPasses ==
    ASSUME Modest, Alone, ZInv, NEW t \in Threads, HugeCas(t), call[t].op # "put"
    PROVE  Passed(t)'
<1>1. /\ OneHuge /\ YInv /\ XInv /\ TypeOK /\ Passed(t) /\ pc[t] = "huge" /\ ~Recovering
      /\ UNCHANGED <<call, clients>>
  BY Searching DEF HugeCas, At
<1>2. /\ call[t].n = CHILD_SIZE /\ HNum(call[t].n) = 1 /\ HBase(t) = Cur(t)
      /\ loc[t].i = 0 /\ Cur(t) \in Children /\ Cur(t) \in Int /\ own[t] = {}
      /\ call[t].op # "get" => InRange(call[t].frame, call[t].n)
  BY <1>1, AtHuge
<1>3. Before(t) = FreeChild /\ HBase(t) + loc[t].i = Cur(t)
  BY <1>2 DEF Before
<1>4. CASE children[Cur(t)] = FreeChild
  <2>1. pc'[t] = "ok"
    BY <1>1, <1>2, <1>3, <1>4, GoesTo DEF HugeCas
  <2> QED BY <2>1, NothingPassed
<1>5. CASE children[Cur(t)] # FreeChild
  <2>1. Full(Cur(t), call[t].n)
    BY <1>1, <1>2, <1>5, FullByCounter DEF InChild
  <2>2. NextHuge(t)
    BY <1>2, <1>3, <1>5 DEF HugeCas
  <2>3. TREE_CHILDREN \div HNum(call[t].n) = TREE_CHILDREN
    BY <1>2
  <2>4. IF call[t].op = "get" /\ loc[t].k + 1 < TREE_CHILDREN
        THEN pc'[t] \in {"dec", "huge"} /\ loc'[t] = LoopAt(loc[t].k + 1, 0)
        ELSE pc'[t] = "memory"
    BY <1>1, <2>2, <2>3, GoesTo, SetsLoc DEF NextHuge
  <2>5. /\ call[t].op = "get" => \A k \in 0 .. loc[t].k : ChildPassed(t, k)
        /\ call[t].op = "get_at" => Taken(call[t].frame, call[t].n)
    BY <1>1, <1>2, <2>1, ChildFull
  <2> QED BY <1>1, <2>4, <2>5, ChildDone
<1> QED BY <1>4, <1>5

LEMMA StepPasses ==
    ASSUME Modest, Alone, ZInv, TypeInv', NEW t \in Threads, Step(t)
    PROVE  Passed(t)'
<1>1. /\ OneHuge /\ XInv /\ TypeInv /\ TypeOK /\ Plain(t) /\ OwnAt(t)
      /\ PhaseAt(call[t], pc[t])
  BY Searching
<1>2. CASE Return(t)
  <2>1. pc'[t] = "idle" /\ loc'[t] = NoLoc
    BY <1>1, <1>2, GoesTo, SetsLoc DEF Return
  <2> QED BY <2>1 DEF Passed
<1>3. CASE ~Return(t) /\ call[t].op = "put"
  <2>1. pc'[t] # "idle" /\ call'[t] = call[t]
    BY <1>1, <1>3, StepMoves DEF Moves, Inside
  <2>2. PhaseAt(call'[t], pc'[t])
    BY DEF TypeInv, PhaseOK
  <2> QED BY <1>3, <2>1, <2>2, NothingPassed DEF PhaseAt
<1>4. CASE ~Return(t) /\ call[t].op # "put"
  <2>1. /\ pc[t] \notin {"load", "split", "unsplit", "split_cas", "wait", "clear", "unclear", "inc"}
        /\ pc[t] \notin {"unmark", "unhuge"}
    BY <1>1, <1>4 DEF PhaseAt, Plain, OwnAt
  <2>2. ASSUME NEW label \in Toggles, Toggle(t, label) \/ UndoToggle(t, label)
        PROVE  Toggle(t, "mark")
    <3>1. UndoOf(label) \in {"unmark", "unclear", "unsplit"}
      BY DEF UndoOf, Toggles
    <3>2. ~UndoToggle(t, label)
      BY <2>1, <3>1 DEF UndoToggle, At
    <3> QED BY <2>1, <2>2, <3>2 DEF Toggle, At, Toggles
  <2>3. ~(Load(t) \/ SplitCas(t) \/ SplitWait(t) \/ ChildInc(t) \/ UndoHuge(t))
    BY <2>1 DEF Load, SplitCas, SplitWait, ChildInc, UndoHuge, At
  <2> QED BY <1>4, <2>2, <2>3, ChildDecPasses, UndoDecPasses, SearchRowPasses, SetRowPasses,
             UndoSetRowPasses, MarkPasses, HugeCasPasses DEF Step
<1> QED BY <1>2, <1>3, <1>4

LEMMA BeginPasses ==
    ASSUME ZInv, NEW t \in Threads, Begin(t)
    PROVE  Passed(t)'
<1>1. TypeOK /\ pc[t] = "idle" /\ loc' = loc
  BY DEF ZInv, YInv, XInv, TypeInv, Begin, Get, GetAt, Put, PutInvalid, At
<1>2. pc'[t] \in {"dec", "huge", "load", "argument"}
  BY <1>1, GoesTo DEF Begin, Get, GetAt, Put, PutInvalid
<1>3. loc'[t] = NoLoc
  BY <1>1 DEF ZInv, Passed
<1>4. loc'[t].g = 0 /\ 0 .. loc'[t].k - 1 = {}
  BY <1>3, Counters
<1> QED BY <1>2, <1>4 DEF Passed

\* A search finds what there is, or has seen all of it taken.
LEMMA SearchesPass ==
    ASSUME Modest, Alone
    PROVE  Spec => []ZInv
<1>1. Init => ZInv
  <2>1. Init => \A t \in Threads : pc[t] = "idle" /\ loc[t] = NoLoc
    BY DEF Init
  <2> QED BY <2>1, StartsCounted DEF ZInv, Passed
<1>2. ASSUME ZInv, [Next]_vars PROVE ZInv'
  <2>1. YInv'
    BY <1>2, StepCounts DEF ZInv
  <2>2. TypeInv'
    BY <2>1 DEF YInv, XInv
  <2>3. ASSUME NEW t \in Threads PROVE Passed(t)'
    <3>1. ASSUME NEW u \in Threads, Begin(u) \/ Step(u) PROVE Passed(t)'
      <4>1. u = t
        BY DEF Alone
      <4> QED BY <1>2, <2>2, <3>1, <4>1, BeginPasses, StepPasses
    <3>2. CASE Crash
      <4>1. pc'[t] = "idle" /\ loc'[t] = NoLoc
        BY <3>2 DEF Crash
      <4> QED BY <4>1 DEF Passed
    <3>3. CASE RecoverChild \/ UNCHANGED vars
      <4>1. Passed(t) /\ pc' = pc /\ call' = call /\ loc' = loc /\ UNCHANGED clients
        BY <1>2, <3>3 DEF ZInv, RecoverChild, vars
      <4>2. Cur(t)' = Cur(t)
        BY <4>1, CurStays
      <4> QED BY <4>1, <4>2, StaysTaken DEF Passed
    <3> QED BY <1>2, <3>1, <3>2, <3>3 DEF Next
  <2> QED BY <2>1, <2>3 DEF ZInv
<1> QED BY <1>1, <1>2, PTL DEF Spec

\* Without interference, lower_get and lower_get_at do not give up early: when one returns
\* LLFREE_ERR_MEMORY, every aligned block of the size that it could have returned has a
\* frame that is in use.
THEOREM SearchesComplete ==
    ASSUME Modest, Alone
    PROVE  Spec => []GetComplete
<1>1. ZInv => GetComplete
  <2> SUFFICES ASSUME ZInv, NEW t \in Threads, pc[t] = "memory", call[t].op # "put",
                      NEW f \in Candidates(t)
               PROVE  Block(f, call[t].n) \cap Allocated # {}
    BY DEF GetComplete
  <2>1. PICK x \in Block(f, call[t].n) : x \in held \cup lost
    BY DEF ZInv, Passed, Taken
  <2>2. InRangeOwned /\ Marked
    BY DEF ZInv, YInv, XInv
  <2>3. x \in Frames /\ Mark(x)
    BY <2>1, <2>2 DEF InRangeOwned, Marked, Owned
  <2> QED BY <2>1, <2>3 DEF Allocated, Mark
<1> QED BY <1>1, SearchesPass, PTL

-----------------------------------------------------------------------------
(* What the reports say. *)

\* The first frames of the parts of F of m frames that are in A, and the numbers I of such parts.
Firsts(m, F, A)  == {f \in F : f % m = 0 /\ Block(f, m) \subseteq F \cap A}
Numbers(m, I, A) == {i \in I : Block(i * m, m) \subseteq A}

\* A whole part of the frames F is found at its first frame, or by its number.
LEMMA Wholes ==
    ASSUME NEW m \in Nat \ {0}, NEW I \in SUBSET Int, IsFiniteSet(I), NEW F \in SUBSET Int,
           NEW A \in SUBSET Int, \A f \in A : f \in F <=> f \div m \in I
    PROVE  Cardinality(Firsts(m, F, A)) = Cardinality(Numbers(m, I, A))
<1> DEFINE T == {f \in F : f % m = 0 /\ Block(f, m) \subseteq F \cap A}
           S == {i \in I : Block(i * m, m) \subseteq A}
           g == [i \in S |-> i * m]
<1>1. ASSUME NEW i \in S PROVE i * m \in T /\ (i * m) \div m = i
  <2>1. i \in Int /\ i * m \in Int /\ i * m = m * i
    OBVIOUS
  <2>2. ASSUME NEW f \in Block(i * m, m) PROVE f \in F \cap A /\ f \div m = i
    <3>1. f \in Int /\ m * i <= f /\ f < m * i + m /\ f \in A
      BY <2>1, <2>2 DEF Block
    <3>2. f \div m = i
      BY ONLY <2>1, <3>1, Quotient, m \in Nat \ {0}
    <3> QED BY <3>1, <3>2
  <2>3. i * m \in Block(i * m, m)
    BY <2>1 DEF Block
  <2>4. (i * m) \div m = i /\ i * m \in F
    BY <2>2, <2>3
  <2>5. (i * m) % m = 0
    BY <2>1, Z3
  <2>6. Block(i * m, m) \subseteq F \cap A
    BY <2>2
  <2> QED BY <2>4, <2>5, <2>6
<1>2. ASSUME NEW f \in T PROVE f \div m \in S /\ (f \div m) * m = f
  <2>1. f \in Int /\ f \in Block(f, m) /\ f % m = 0
    BY DEF Block
  <2>2. f \div m \in I
    BY <2>1
  <2>3. (f \div m) * m = f
    BY <2>1, Division
  <2> QED BY <2>2, <2>3
<1>3. g \in [S -> T] /\ \A i \in S : g[i] = i * m
  BY <1>1
<1> HIDE DEF g, S, T
<1>4. g \in Bijection(S, T)
  <2>1. ASSUME NEW i \in S, NEW j \in S, g[i] = g[j] PROVE i = j
    <3>1. i * m = j * m
      BY <1>3, <2>1
    <3> QED BY <1>1, <3>1
  <2>2. ASSUME NEW f \in T PROVE \E i \in S : g[i] = f
    BY <1>2, <1>3
  <2> QED BY <1>3, <2>1, <2>2 DEF Bijection, Injection, Surjection, IsInjective
<1>5. IsFiniteSet(S)
  BY FS_Subset DEF S
<1>6. ExistsBijection(S, T)
  BY <1>4 DEF ExistsBijection
<1> QED BY <1>5, <1>6, FS_Bijection DEF S, T, Firsts, Numbers

\* The counters of children add up to the frames of them that are available.
LEMMA CountersSum ==
    ASSUME YInv, ~Recovering, \A t \in Threads : pc[t] = "idle", NEW C \in SUBSET Children
    PROVE  FreeFrames(C) = Cardinality(FramesIn(C) \cap Available)
<1> DEFINE v == [c \in C |-> children[c].free]
           part == [c \in C |-> {f \in Frames : ChildOf(f) = c /\ f \notin held \cup lost}]
           R(f) == f = [s \in SUBSET C |->
               IF s = {} THEN 0 ELSE children[First(s)].free + f[s \ {First(s)}]]
<1>1. IsFiniteSet(C) /\ IsFiniteSet(Frames)
  <2>1. ChildSlots - 1 \in Int /\ FRAMES - 1 \in Int
    BY ChildRanges
  <2>2. IsFiniteSet(0 .. ChildSlots - 1) /\ IsFiniteSet(0 .. FRAMES - 1)
    BY ONLY <2>1, FS_Interval
  <2>3. IsFiniteSet(Children) /\ IsFiniteSet(Frames)
    BY <2>2 DEF Children, Frames
  <2> QED BY <2>3, FS_Subset
<1>2. part \in [C -> SUBSET Frames]
  OBVIOUS
<1>3. \A j, k \in C : j # k => part[j] \cap part[k] = {}
  OBVIOUS
<1>4. \A k \in C : v[k] = Cardinality(part[k])
  BY QuietCounts
<1>5. UNION {part[k] : k \in C} = FramesIn(C) \cap Available
  <2>1. ASSUME NEW f \in FramesIn(C) \cap Available PROVE ChildOf(f) \in C /\ f \in part[ChildOf(f)]
    BY DEF FramesIn, Available
  <2>2. ASSUME NEW k \in C, NEW f \in part[k] PROVE f \in FramesIn(C) \cap Available
    BY DEF FramesIn, Available
  <2> HIDE DEF part
  <2> QED BY <2>1, <2>2
<1>6. FreeFrames(C) = (CHOOSE f : R(f))[C]
  BY DEF FreeFrames, MapThenSumSet, MapThenFoldSet, First
<1>7. ASSUME NEW f PROVE R(f) <=> Sums(C, v, f)
  <2>1. \A s \in SUBSET C : s # {} => First(s) \in C
    BY DEF First
  <2>2. \A s \in SUBSET C : s # {} => v[First(s)] = children[First(s)].free
    BY <2>1
  <2> HIDE DEF v
  <2> QED BY <2>2 DEF Sums
<1> HIDE DEF v, part, R
<1>8. /\ \E f : Sums(C, v, f)
      /\ \A f : Sums(C, v, f) => f[C] = Cardinality(UNION {part[k] : k \in C})
  BY <1>1, <1>2, <1>3, <1>4, PartsSum
<1>9. (CHOOSE f : R(f))[C] = Cardinality(UNION {part[k] : k \in C})
  <2>1. R(CHOOSE f : R(f))
    BY <1>7, <1>8
  <2> QED BY <1>7, <1>8, <2>1
<1> QED BY <1>5, <1>6, <1>9

\* The frames of a set are no more than those of it that are available, and as many only if
\* they all are.
LEMMA AllOf ==
    ASSUME NEW B, IsFiniteSet(B), NEW S, S \subseteq B
    PROVE  Cardinality(S) = Cardinality(B) <=> B \subseteq S
BY FS_Subset

\* The frames of children, with the numbers of the children between calls.
LEMMA QuietChild ==
    ASSUME YInv, ~Recovering, \A t \in Threads : pc[t] = "idle", NEW c \in Children
    PROVE  /\ children[c].free = CHILD_SIZE <=> ChildFrames(c) \subseteq Available
           /\ FramesIn({c}) \cap Available = ChildFrames(c) \cap Available
<1> DEFINE S == {f \in Frames : ChildOf(f) = c /\ f \notin held \cup lost}
<1>1. c \in Int /\ Frames \subseteq Int
  BY ChildRanges DEF Frames
<1>2. IsFiniteSet(ChildFrames(c)) /\ Cardinality(ChildFrames(c)) = CHILD_SIZE
  BY <1>1, ChildFinite
<1>3. \A f \in Frames : f \in ChildFrames(c) <=> ChildOf(f) = c
  BY <1>1, FramesOfChild
<1>4. S = ChildFrames(c) \cap Available /\ S = FramesIn({c}) \cap Available
  BY <1>3 DEF Available, FramesIn
<1>5. children[c].free = Cardinality(S)
  BY QuietCounts
<1> HIDE DEF S
<1>6. Cardinality(S) = Cardinality(ChildFrames(c)) <=> ChildFrames(c) \subseteq S
  BY <1>2, <1>4, AllOf
<1> QED BY <1>2, <1>4, <1>5, <1>6

\* A tree is free if all its frames are available.
LEMMA QuietTree ==
    ASSUME YInv, ~Recovering, \A t \in Threads : pc[t] = "idle", NEW i \in Trees
    PROVE  /\ IsFreeTree(i) <=>
                  Block(i * (CHILD_SIZE * TREE_CHILDREN), CHILD_SIZE * TREE_CHILDREN) \subseteq Available
           /\ TreeChildren(i) \subseteq Children
           /\ \A f \in Frames : ChildOf(f) \in TreeChildren(i) <=> f \div (CHILD_SIZE * TREE_CHILDREN) = i
<1> DEFINE s == CHILD_SIZE
           m == TREE_CHILDREN
           w == s * m
           B == Block(i * w, w)
<1>1. s \in Nat \ {0} /\ m \in Nat \ {0} /\ i \in Nat /\ i * m \in Nat /\ i * m = m * i
  BY ChildSizePositive DEF Trees
<1>2. w \in Nat \ {0} /\ i * w \in Nat /\ i * w = w * i
  BY ONLY <1>1
<1>3. ASSUME NEW f \in Int PROVE ChildOf(f) \in TreeChildren(i) <=> f \div w = i
  <2> DEFINE c == f \div s
  <2>1. c \in Int /\ s * c <= f /\ f < s * c + s
    BY ONLY <1>1, Division
  <2>2. c \in Block(i * m, m) <=> (m * i <= c /\ c < m * i + m)
    BY <1>1, <2>1 DEF Block
  <2>3. (f \div w = i) <=> (w * i <= f /\ f < w * i + w)
    BY ONLY <1>1, <1>2, Quotient
  <2>4. w * i = s * (m * i) /\ w = s * m /\ m * i \in Nat
    BY <1>1
  <2>5. (m * i <= c) <=> (s * (m * i) <= f)
    <3> DEFINE a == m * i
    <3>1. a \in Nat
      BY <2>4
    <3> HIDE DEF a, c, s
    <3>2. a <= c => s * a <= s * c
      BY ONLY <1>1, <2>1, <3>1
    <3>3. a >= c + 1 => s * a >= s * c + s
      BY ONLY <1>1, <2>1, <3>1
    <3>4. s * a \in Int /\ s * c \in Int
      BY ONLY <1>1, <2>1, <3>1
    <3>5. (a <= c) <=> (s * a <= f)
      BY ONLY <1>1, <2>1, <3>1, <3>2, <3>3, <3>4
    <3> QED BY <3>5 DEF a
  <2>6. (c < m * i + m) <=> (f < s * (m * i) + s * m)
    <3> DEFINE a == m * i + m
    <3>1. a \in Nat
      BY <1>1, <2>4
    <3> HIDE DEF a, c, s
    <3>2. a <= c => s * a <= s * c
      BY ONLY <1>1, <2>1, <3>1
    <3>3. a >= c + 1 => s * a >= s * c + s
      BY ONLY <1>1, <2>1, <3>1
    <3>4. s * a \in Int /\ s * c \in Int
      BY ONLY <1>1, <2>1, <3>1
    <3>5. (a <= c) <=> (s * a <= f)
      BY ONLY <1>1, <2>1, <3>1, <3>2, <3>3, <3>4
    <3>6. s * a = s * (m * i) + s * m
      BY <1>1, <2>4 DEF a
    <3>7. f < s * a <=> c < a
      BY ONLY <2>1, <3>1, <3>4, <3>5
    <3> QED BY <3>6, <3>7 DEF a
  <2> QED BY <2>2, <2>3, <2>4, <2>5, <2>6 DEF ChildOf, TreeChildren
<1>4. TreeChildren(i) \subseteq Children
  <2> DEFINE k == ChildSlots \div m
  <2>1. ChildSlots \in Int /\ i <= k - 1
    BY ChildRanges DEF Trees
  <2>2. k \in Int /\ m * k <= ChildSlots
    BY ONLY <1>1, <2>1, Division
  <2> HIDE DEF k, m
  <2>3. m * (i + 1) <= m * k
    BY ONLY <1>1, <2>1, <2>2
  <2>4. m * (i + 1) = m * i + m
    BY ONLY <1>1
  <2>5. \A c \in Int : c < i * m + m => c <= ChildSlots - 1
    BY ONLY <1>1, <2>1, <2>2, <2>3, <2>4
  <2> QED BY <1>1, <2>5 DEF TreeChildren, Block, Children, m
<1>5. \A f \in Int : f \in B <=> f \div w = i
  <2> HIDE DEF w
  <2>1. \A f \in Int : (f \div w = i) <=> (w * i <= f /\ f < w * i + w)
    BY ONLY <1>1, <1>2, Quotient
  <2>2. \A f \in Int : f \in B <=> (w * i <= f /\ f < w * i + w)
    BY <1>2 DEF Block
  <2> QED BY <2>1, <2>2
<1>6. IsFiniteSet(B) /\ Cardinality(B) = w
  <2> DEFINE x == i * w
             y == x + w - 1
  <2>1. x \in Int /\ y \in Int /\ ~(x > y) /\ y - x + 1 = w
    BY ONLY <1>2
  <2>2. B = x .. y
    BY DEF Block
  <2> HIDE DEF x, y, B, w
  <2>3. IsFiniteSet(x .. y) /\ Cardinality(x .. y) = y - x + 1
    BY ONLY <2>1, FS_Interval
  <2> QED BY ONLY <2>1, <2>2, <2>3
<1> DEFINE S == FramesIn(TreeChildren(i)) \cap Available
<1>7. FreeFrames(TreeChildren(i)) = Cardinality(S)
  BY <1>4, CountersSum
<1>8. \A f \in Frames : f \in Int
  BY DEF Frames
<1> HIDE DEF s, m, w, B
<1>9. S = B \cap Available
  BY <1>3, <1>5, <1>8 DEF FramesIn, Available
<1>10. Cardinality(S) = Cardinality(B) <=> B \subseteq S
  BY <1>6, <1>9, AllOf
<1>11. IsFreeTree(i) <=> B \subseteq Available
  BY <1>6, <1>7, <1>9, <1>10 DEF IsFreeTree, w, s, m
<1> QED BY <1>3, <1>4, <1>8, <1>11 DEF B, w, s, m

\* Every frame is in one of the trees.
LEMMA TreesCover ==
    ASSUME NEW f \in Frames
    PROVE  \E i \in Trees : ChildOf(f) \in TreeChildren(i)
<1> DEFINE m == TREE_CHILDREN
           c == ChildOf(f)
           d == (ChildCount + m - 1) \div m
           q == c \div m
<1>1. m \in Nat \ {0} /\ c \in Int /\ 0 <= c /\ c <= ChildSlots - 1 /\ ChildCount \in Nat
  BY OwnedInAll, ChildRanges DEF Children
<1>2. d \in Int
  BY ONLY <1>1, Division
<1>3. ChildSlots = d * m
  BY DEF ChildSlots, DivCeil
<1>4. q \in Int /\ m * q <= c /\ c < m * q + m
  BY ONLY <1>1, Division
<1> HIDE DEF m, c, d, q
<1>5. d * m = m * d /\ (m * d) \div m = d
  <2>1. m * d \in Int /\ m * d <= m * d /\ m * d < m * d + m /\ d * m = m * d
    BY ONLY <1>1, <1>2
  <2> QED BY ONLY <1>1, <1>2, <2>1, Quotient
<1>6. 0 <= q /\ q < d
  <2>1. q < 0 => m * q + m <= 0
    BY ONLY <1>1, <1>4
  <2>2. q >= d => m * q >= m * d
    BY ONLY <1>1, <1>2, <1>4
  <2>3. m * q \in Int /\ m * d \in Int
    BY ONLY <1>1, <1>2, <1>4
  <2>4. c < m * d
    BY <1>1, <1>2, <1>3, <1>5, <2>3
  <2> QED BY ONLY <1>1, <1>2, <1>4, <2>1, <2>2, <2>3, <2>4
<1>7. q \in 0 .. d - 1
  BY ONLY <1>2, <1>4, <1>6
<1>8. q \in Trees
  BY <1>3, <1>5, <1>7 DEF Trees, m
<1>9. c \in Block(q * m, m)
  BY ONLY <1>1, <1>4 DEF Block
<1> QED BY <1>8, <1>9 DEF TreeChildren, c, m

\* The huge pages that are free, by their frames and by their counters.
LEMMA HugeReport ==
    ASSUME YInv, ~Recovering, \A t \in Threads : pc[t] = "idle", NEW C \in SUBSET Children
    PROVE  FreeHuge(C) = Cardinality({f \in FramesIn(C) : f % CHILD_SIZE = 0
                                        /\ Block(f, CHILD_SIZE) \subseteq FramesIn(C) \cap Available})
<1>1. CHILD_SIZE \in Nat \ {0} /\ C \in SUBSET Int /\ FramesIn(C) \in SUBSET Int /\ Available \in SUBSET Int
  BY ChildSizePositive, ChildRanges DEF FramesIn, Available, Frames
<1>2. \A f \in Available : f \in FramesIn(C) <=> f \div CHILD_SIZE \in C
  BY DEF Available, FramesIn, ChildOf
<1>3. IsFiniteSet(C)
  <2>1. ChildSlots - 1 \in Int
    BY ChildRanges
  <2>2. IsFiniteSet(0 .. ChildSlots - 1)
    BY ONLY <2>1, FS_Interval
  <2> QED BY <2>2, FS_Subset DEF Children
<1>4. {c \in C : children[c].free = CHILD_SIZE} = {c \in C : Block(c * CHILD_SIZE, CHILD_SIZE) \subseteq Available}
  BY QuietChild DEF ChildFrames, ChildBase
<1> HIDE DEF CHILD_SIZE
<1>5. Cardinality(Firsts(CHILD_SIZE, FramesIn(C), Available))
         = Cardinality(Numbers(CHILD_SIZE, C, Available))
  BY ONLY <1>1, <1>2, <1>3, Wholes
<1> QED BY <1>4, <1>5 DEF FreeHuge, Firsts, Numbers

\* So with the trees that are free.
LEMMA TreeReport ==
    ASSUME YInv, ~Recovering, \A t \in Threads : pc[t] = "idle", NEW I \in SUBSET Trees,
           NEW F \in SUBSET Frames,
           \A f \in Frames : f \in F <=> \E i \in I : ChildOf(f) \in TreeChildren(i)
    PROVE  Cardinality({i \in I : IsFreeTree(i)}) =
              Cardinality({f \in F : f % (CHILD_SIZE * TREE_CHILDREN) = 0
                 /\ Block(f, CHILD_SIZE * TREE_CHILDREN) \subseteq F \cap Available})
<1> DEFINE w == CHILD_SIZE * TREE_CHILDREN
<1>1. w \in Nat \ {0}
  <2>1. CHILD_SIZE \in Nat \ {0} /\ TREE_CHILDREN \in Nat \ {0}
    BY ChildSizePositive
  <2> QED BY ONLY <2>1
<1>2. I \in SUBSET Int /\ F \in SUBSET Int /\ Available \in SUBSET Int
  BY DEF Trees, Available, Frames
<1>3. \A f \in Available : f \in F <=> f \div w \in I
  BY QuietTree DEF Available
<1>4. IsFiniteSet(I)
  <2>1. ChildSlots \div TREE_CHILDREN \in Int
    BY ChildRanges, Division
  <2>2. (ChildSlots \div TREE_CHILDREN) - 1 \in Int
    BY <2>1
  <2>3. IsFiniteSet(0 .. (ChildSlots \div TREE_CHILDREN) - 1)
    BY ONLY <2>2, FS_Interval
  <2> QED BY <2>3, FS_Subset DEF Trees
<1>5. {i \in I : IsFreeTree(i)} = {i \in I : Block(i * w, w) \subseteq Available}
  BY QuietTree
<1> HIDE DEF w
<1>6. Cardinality(Firsts(w, F, Available)) = Cardinality(Numbers(w, I, Available))
  BY ONLY <1>1, <1>2, <1>3, <1>4, Wholes
<1> QED BY <1>5, <1>6 DEF w, Firsts, Numbers

\* field_is_free is asked only where its answer is right.
LEMMA FrameReport ==
    ASSUME YInv, ~Recovering, \A t \in Threads : pc[t] = "idle", NEW f \in Frames
    PROVE  FrameFree(f) <=> f \in Available
<1> DEFINE c == ChildOf(f)
<1>1. c \in Children /\ f \in AllFrames /\ f \in Int /\ c \in Int
  BY OwnedInAll, ChildRanges
<1>2. f \in ChildFrames(c)
  BY <1>1, FramesOfChild
<1>3. f \in Owned <=> f \in held \cup lost
  <2>1. \A t \in Threads : own[t] = {}
    BY DEF YInv, XInv, OwnOK, OwnAt
  <2> QED BY <2>1 DEF Owned
<1>4. Mark(f) <=> f \notin Available
  BY <1>1, <1>3 DEF YInv, XInv, BitsOK, Marked, Available
<1>5. children[c].free = CHILD_SIZE => f \in Available
  BY <1>1, <1>2, QuietChild
<1>6. children[c].free > 0 /\ f \notin bits => f \in Available
  <2> SUFFICES ASSUME children[c].free > 0, f \notin bits PROVE ~children[c].huge
    BY <1>4 DEF Mark
  <2> QED BY <1>1 DEF YInv, FreeOK, HugeChild, Child
<1>7. ASSUME f \in Available PROVE children[c].free > 0 /\ f \notin bits
  <2>1. f \notin bits
    BY <1>4, <1>7 DEF Mark
  <2> DEFINE S == {g \in Frames : ChildOf(g) = c /\ g \notin held \cup lost}
  <2>2. children[c].free = Cardinality(S)
    BY <1>1, QuietCounts
  <2>3. f \in S
    BY <1>7 DEF Available
  <2>4. IsFiniteSet(S)
    <3>1. S \subseteq ChildFrames(c)
      <4>1. \A g \in Frames : g \in Int
        BY DEF Frames
      <4> QED BY <1>1, <4>1, FramesOfChild
    <3> QED BY <1>1, <3>1, ChildFinite, FS_Subset
  <2> HIDE DEF S
  <2>5. Cardinality(S) \in Nat /\ Cardinality(S) # 0
    BY <2>3, <2>4, FS_CardinalityType, FS_EmptySet
  <2> QED BY <2>1, <2>2, <2>5
<1> QED BY <1>5, <1>6, <1>7 DEF FrameFree

\* lower_stats and lower_stats_at report exactly the frames, huge pages and trees that clients
\* can still get, whenever no call is in progress: after any splits, refusals, crashes and
\* recoveries.
THEOREM ReportsExact ==
    ASSUME Modest
    PROVE  Spec => []StatsExact
<1>1. YInv => StatsExact
  <2> SUFFICES ASSUME YInv, ~Recovering, \A t \in Threads : pc[t] = "idle"
               PROVE  /\ LowerStats = Report(Frames, TRUE, TRUE)
                      /\ \A f \in Frames : FrameStats(f) = Report({f}, FALSE, FALSE)
                      /\ \A c \in 0 .. ChildCount - 1 : ChildStats(c) = Report(FramesIn({c}), TRUE, FALSE)
                      /\ \A i \in Trees : TreeStats(i) = Report(FramesIn(TreeChildren(i)), TRUE, TRUE)
    BY DEF StatsExact
  <2>1. LowerStats = Report(Frames, TRUE, TRUE)
    <3>1. FramesIn(Children) = Frames
      BY OwnedInAll, ChildRanges DEF FramesIn
    <3>2. FreeFrames(Children) = Cardinality(Frames \cap Available)
      BY <3>1, CountersSum
    <3>3. FreeHuge(Children) = Cardinality({f \in Frames : f % CHILD_SIZE = 0
                                 /\ Block(f, CHILD_SIZE) \subseteq Frames \cap Available})
      BY <3>1, HugeReport
    <3>4. Cardinality({i \in Trees : IsFreeTree(i)}) =
            Cardinality({f \in Frames : f % (CHILD_SIZE * TREE_CHILDREN) = 0
               /\ Block(f, CHILD_SIZE * TREE_CHILDREN) \subseteq Frames \cap Available})
      BY TreesCover, TreeReport
    <3> QED BY <3>2, <3>3, <3>4 DEF LowerStats, Report
  <2>2. ASSUME NEW f \in Frames PROVE FrameStats(f) = Report({f}, FALSE, FALSE)
    <3>1. CASE f \in Available
      <4>1. {f} \cap Available = {f} /\ FrameFree(f)
        BY <3>1, FrameReport
      <4>2. Cardinality({f} \cap Available) = 1
        BY <4>1, FS_Singleton
      <4> QED BY <4>1, <4>2 DEF FrameStats, NumberOf, Report
    <3>2. CASE f \notin Available
      <4>1. {f} \cap Available = {} /\ ~FrameFree(f)
        BY <3>2, FrameReport
      <4>2. Cardinality({f} \cap Available) = 0
        BY <4>1, FS_EmptySet
      <4> QED BY <4>1, <4>2 DEF FrameStats, NumberOf, Report
    <3> QED BY <3>1, <3>2
  <2>3. ASSUME NEW c \in 0 .. ChildCount - 1 PROVE ChildStats(c) = Report(FramesIn({c}), TRUE, FALSE)
    <3>1. c \in Children
      BY ChildRanges
    <3>2. children[c].free = Cardinality(FramesIn({c}) \cap Available)
      <4>1. FramesIn({c}) \cap Available = {f \in Frames : ChildOf(f) = c /\ f \notin held \cup lost}
        BY DEF FramesIn, Available
      <4> QED BY <3>1, <4>1, QuietCounts
    <3>3. FreeHuge({c}) = Cardinality({f \in FramesIn({c}) : f % CHILD_SIZE = 0
                             /\ Block(f, CHILD_SIZE) \subseteq FramesIn({c}) \cap Available})
      BY <3>1, HugeReport
    <3> QED BY <3>2, <3>3 DEF ChildStats, Report
  <2>4. ASSUME NEW i \in Trees PROVE TreeStats(i) = Report(FramesIn(TreeChildren(i)), TRUE, TRUE)
    <3> DEFINE F == FramesIn(TreeChildren(i))
    <3>1. TreeChildren(i) \subseteq Children
      BY QuietTree
    <3>2. FreeFrames(TreeChildren(i)) = Cardinality(F \cap Available)
      BY <3>1, CountersSum
    <3>3. FreeHuge(TreeChildren(i)) = Cardinality({f \in F : f % CHILD_SIZE = 0
                                         /\ Block(f, CHILD_SIZE) \subseteq F \cap Available})
      BY <3>1, HugeReport
    <3>4. Cardinality({j \in {i} : IsFreeTree(j)}) =
            Cardinality({f \in F : f % (CHILD_SIZE * TREE_CHILDREN) = 0
               /\ Block(f, CHILD_SIZE * TREE_CHILDREN) \subseteq F \cap Available})
      <4>1. F \in SUBSET Frames /\ {i} \in SUBSET Trees
        BY DEF FramesIn
      <4>2. \A f \in Frames : f \in F <=> \E j \in {i} : ChildOf(f) \in TreeChildren(j)
        BY DEF FramesIn
      <4> HIDE DEF F
      <4> QED BY <4>1, <4>2, TreeReport
    <3>5. NumberOf(IsFreeTree(i)) = Cardinality({j \in {i} : IsFreeTree(j)})
      <4>1. CASE IsFreeTree(i)
        <5>1. {j \in {i} : IsFreeTree(j)} = {i}
          BY <4>1
        <5> QED BY <4>1, <5>1, FS_Singleton DEF NumberOf
      <4>2. CASE ~IsFreeTree(i)
        <5>1. {j \in {i} : IsFreeTree(j)} = {}
          BY <4>2
        <5> QED BY <4>2, <5>1, FS_EmptySet DEF NumberOf
      <4> QED BY <4>1, <4>2
    <3> QED BY <3>2, <3>3, <3>4, <3>5 DEF TreeStats, Report
  <2> QED BY <2>1, <2>2, <2>3, <2>4
<1> QED BY <1>1, Counted, PTL
=============================================================================
