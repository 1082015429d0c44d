------------------------------- MODULE Lower --------------------------------
(***************************************************************************)
(* The lower allocator (src/lower.c, src/bitfield.c, src/child.c): which   *)
(* frames are allocated, kept in one atomic word per row and one atomic    *)
(* entry [free, huge] per child, and changed by concurrent threads without *)
(* locks.  Every atomic access that can change memory or that decides a    *)
(* branch is one action; an atom_update loop, which retries its            *)
(* compare-and-swap until it succeeds or its function refuses, is the one  *)
(* action in which it succeeds or refuses.                                 *)
(*                                                                         *)
(* The clients are part of the model: a thread frees only blocks that have *)
(* been handed out, asks for any size, start and exact position.  A crash  *)
(* stops all threads and keeps the metadata, as persistent memory does     *)
(* when stores reach it in program order; lower_recover then repairs it.   *)
(***************************************************************************)
EXTENDS Geometry

CONSTANTS
    Threads,    \* threads that call the allocator
    RETRIES,    \* loads of a child before split_huge gives up
    Sizes,      \* block sizes (1 << order) that lower_get and lower_put see
    AtSizes,    \* block sizes that lower_get_at sees
    Starts,     \* start frames that lower_get sees
    Split,      \* whether clients free parts of a huge page
    FreeAll,    \* lower_clear's free_all: TRUE for INIT_FREE, FALSE INIT_ALLOC
    MaxCrashes  \* bound on the number of crashes outside of recovery

ASSUME LowerAssumption ==
    /\ RETRIES \in Nat \ {0}
    /\ Sizes \subseteq Nat \ {0}
    /\ AtSizes \subseteq Nat \ {0}
    /\ \A n \in Sizes \cup AtSizes : IsSize(n)
    /\ Starts \subseteq Frames
    /\ Split \in BOOLEAN
    /\ FreeAll \subseteq BOOLEAN
    /\ MaxCrashes \in Nat

VARIABLES
    bits,      \* the frames whose bit is set in their row
    children,  \* [free, huge] of each child
    pc,        \* where each thread is
    call,      \* the arguments of each thread's call
    loc,       \* each thread's loop counters and the frame it found
    own,       \* frames a thread has marked, or has not yet unmarked
    held,      \* frames the clients have been given
    lost,      \* frames a crash took from a call in flight
    boot,      \* children that lower_recover has repaired
    crashes

memory  == <<bits, children>>
clients == <<held, lost>>
system  == <<boot, crashes>>
vars    == <<memory, pc, call, loc, own, clients, system>>

-----------------------------------------------------------------------------
(* Child entries (child.h, child.c). *)

Child(free, huge) == [free |-> free, huge |-> huge]

HugeChild == Child(0, TRUE)
FreeChild == Child(CHILD_SIZE, FALSE)

\* Mutant: a split page is entered as free.
SplitChildFree == Child(CHILD_SIZE, FALSE)

\* The entry of a huge page that has been split: no frame of it is free yet.
SplitChild     == Child(0, FALSE)

\* Mutant: child_dec without the check of the counter.
CanDecUnchecked(c, n) == ~children[c].huge

\* child_dec: whether n frames can be taken from the counter.
CanDec(c, n) == ~children[c].huge /\ children[c].free >= n

\* Mutant: child_inc off by one at the full child.
CanIncBelow(c, n) == ~children[c].huge /\ children[c].free + n < CHILD_SIZE

\* child_inc: whether n frames can be given back to the counter.
CanInc(c, n) == ~children[c].huge /\ children[c].free + n <= CHILD_SIZE

AddFree(c, n) == [children EXCEPT ![c].free = @ + n]

-----------------------------------------------------------------------------
(* Bitfields (bitfield.c).  A block of at most ATOMIC_SIZE frames is one   *)
(* part of a row; a larger one consists of whole rows, changed one by one. *)

\* Mutant: the loop over the rows stops one row early.
PartsShort(n) == IF n > ATOMIC_SIZE THEN (n \div ATOMIC_SIZE) - 1 ELSE 1

Parts(n) == IF n > ATOMIC_SIZE THEN n \div ATOMIC_SIZE ELSE 1

Part(f, n, i) == IF n > ATOMIC_SIZE THEN Row(RowOf(f) + i) ELSE Block(f, n)

\* field_toggle's compare-and-swap: every bit of P is expected, and is flipped.
CanToggle(P, expected) == IF expected THEN P \subseteq bits ELSE P \cap bits = {}

Toggled(P, expected) == IF expected THEN bits \ P ELSE bits \cup P

\* first_zeros_aligned: the aligned blocks of n frames of row r that are free.
FreeInRow(r, n) ==
    {f \in Row(r) : f % n = 0 /\ Block(f, n) \cap bits = {}}

-----------------------------------------------------------------------------
(* Initialisation (lower_clear). *)

\* Mutant: init_field forgets the tail of the last child.
InitBitsNoTail(free_all) == {}

\* The frames of a tail beyond the last managed frame are marked when the
\* children start out free, and covered by a huge entry when they do not.
InitBits(free_all) == IF free_all THEN AllFrames \ Frames ELSE {}

\* Mutant: the last child is counted as complete.
InitChildFull(c, free_all) ==
    LET free == IF c >= ChildCount \/ ~free_all THEN 0 ELSE CHILD_SIZE
    IN Child(free, free = 0)

InitChild(c, free_all) ==
    LET free == IF c >= ChildCount \/ ~free_all THEN 0
                ELSE IF CHILD_SIZE < FRAMES - ChildBase(c)
                     THEN CHILD_SIZE ELSE FRAMES - ChildBase(c)
    IN Child(free, free = 0)

Ops  == {"get", "get_at", "put"}
Done == {"ok", "memory", "argument"}

NoCall == [op |-> "get", frame |-> 0, n |-> 1]

\* The k-th child or group of children, and the g-th row or group of rows there.
LoopAt(k, g) == [k |-> k, g |-> g, i |-> 0, j |-> 0, f |-> 0]

NoLoc == LoopAt(0, 0)

Init ==
    \E free_all \in FreeAll :
        /\ bits = InitBits(free_all)
        /\ children = [c \in Children |-> InitChild(c, free_all)]
        /\ held = IF free_all THEN {} ELSE Frames
        /\ pc   = [t \in Threads |-> "idle"]
        /\ call = [t \in Threads |-> NoCall]
        /\ loc  = [t \in Threads |-> NoLoc]
        /\ own  = [t \in Threads |-> {}]
        /\ lost = {}
        /\ boot = ChildCount
        /\ crashes = 0

-----------------------------------------------------------------------------
(* Threads. *)

Recovering == boot < ChildCount

\* A failed assertion aborts the process.
Aborted == \E t \in Threads : pc[t] = "abort"

At(t, label) == ~Recovering /\ ~Aborted /\ pc[t] = label

Goto(t, label) == pc' = [pc EXCEPT ![t] = label]

\* Set thread t's loop counters to those of l.
SetLoc(t, l) == loc' = [loc EXCEPT ![t] = l]

\* Mutant: the search goes on past the end of the tree.
CurPastTree(t) ==
    IF call[t].op = "get" THEN ChildOf(call[t].frame) + loc[t].k
    ELSE ChildOf(call[t].frame)

\* The child that thread t works on.
Cur(t) ==
    IF call[t].op = "get"
    THEN Visit(ChildOf(call[t].frame), TREE_CHILDREN, loc[t].k)
    ELSE ChildOf(call[t].frame)

\* The number of children that a call for n >= CHILD_SIZE frames takes, and
\* the first child of the group that thread t tries.
HNum(n) == n \div CHILD_SIZE

HBase(t) ==
    LET h == HNum(call[t].n) IN
    IF call[t].op = "get"
    THEN h * Visit(ChildOf(call[t].frame) \div h, TREE_CHILDREN \div h, loc[t].k)
    ELSE ChildOf(call[t].frame)

-----------------------------------------------------------------------------
(* Calls and returns. *)

\* lower_get without a given frame: search the tree from start.
Get(t, start, n) ==
    /\ At(t, "idle")
    /\ call' = [call EXCEPT ![t] = [op |-> "get", frame |-> start, n |-> n]]
    /\ Goto(t, IF n >= CHILD_SIZE THEN "huge" ELSE "dec")
    /\ UNCHANGED <<memory, loc, own, clients, system>>

\* lower_get_at: allocate exactly the block at frame f.
GetAt(t, f, n) ==
    /\ At(t, "idle")
    /\ call' = [call EXCEPT ![t] = [op |-> "get_at", frame |-> f, n |-> n]]
    /\ Goto(t, IF ~InRange(f, n) THEN "argument"
               ELSE IF n >= CHILD_SIZE THEN "huge" ELSE "dec")
    /\ UNCHANGED <<memory, loc, own, clients, system>>

\* What a client may free: an aligned block of frames it was given, as a huge
\* page only if it was given as such, in parts of a huge page only if Split.
MayFree(f, n) ==
    /\ Block(f, n) \subseteq held
    /\ \A b \in Block(f, n) :
          IF n >= CHILD_SIZE THEN children[ChildOf(b)].huge
          ELSE Split \/ ~children[ChildOf(b)].huge

\* lower_put: the client gives up the block as it calls.
Put(t, f, n) ==
    /\ At(t, "idle")
    /\ InRange(f, n)
    /\ MayFree(f, n)
    /\ call' = [call EXCEPT ![t] = [op |-> "put", frame |-> f, n |-> n]]
    /\ own'  = [own EXCEPT ![t] = Block(f, n)]
    /\ held' = held \ Block(f, n)
    /\ Goto(t, IF n >= CHILD_SIZE THEN "huge" ELSE "load")
    /\ UNCHANGED <<memory, loc, lost, system>>

\* lower_put of a frame that is held at a size that does not fit there.
PutInvalid(t, f, n) ==
    /\ At(t, "idle")
    /\ f \in held
    /\ ~InRange(f, n)
    /\ call' = [call EXCEPT ![t] = [op |-> "put", frame |-> f, n |-> n]]
    /\ Goto(t, "argument")
    /\ UNCHANGED <<memory, loc, own, clients, system>>

\* The block that the clients hold once the call of t returns: the one it was
\* given, or the one whose free was refused.
Returned(t) ==
    CASE pc[t] = "ok" /\ call[t].op # "put" -> Block(loc[t].f, call[t].n)
      [] pc[t] # "ok" /\ call[t].op = "put" -> 
            IF InRange(call[t].frame, call[t].n)
            THEN Block(call[t].frame, call[t].n) ELSE {}
      [] OTHER -> {}

Return(t) ==
    /\ \E r \in Done : At(t, r)
    /\ held' = held \cup Returned(t)
    /\ own'  = [own EXCEPT ![t] = {}]
    /\ call' = [call EXCEPT ![t] = NoCall]
    /\ SetLoc(t, NoLoc)
    /\ Goto(t, "idle")
    /\ UNCHANGED <<memory, lost, system>>

-----------------------------------------------------------------------------
(* Blocks smaller than a huge page: lower_get's loop over the children. *)

\* Mutant: the loop over the children of a tree stops one early.
NextChildShort(t) ==
    IF call[t].op = "get" /\ loc[t].k + 2 < TREE_CHILDREN
    THEN Goto(t, "dec") /\ SetLoc(t, LoopAt(loc[t].k + 1, 0))
    ELSE Goto(t, "memory") /\ SetLoc(t, NoLoc)

\* Try the next child of the tree, or give up.
NextChild(t) ==
    IF call[t].op = "get" /\ loc[t].k + 1 < TREE_CHILDREN
    THEN Goto(t, "dec") /\ SetLoc(t, LoopAt(loc[t].k + 1, 0))
    ELSE Goto(t, "memory") /\ SetLoc(t, NoLoc)

\* Reserve n frames in the child's counter before looking for them.
ChildDec(t) ==
    /\ At(t, "dec")
    /\ IF CanDec(Cur(t), call[t].n)
       THEN /\ children' = AddFree(Cur(t), -call[t].n)
            /\ Goto(t, IF call[t].op = "get_at" THEN "mark"
                       ELSE IF call[t].n > ATOMIC_SIZE THEN "set" ELSE "search")
            /\ UNCHANGED loc
       ELSE NextChild(t) /\ UNCHANGED children
    /\ UNCHANGED <<bits, call, own, clients, system>>

\* Give the reserved frames back: the child's bitfield had no room.
UndoDec(t) ==
    /\ At(t, "undec")
    /\ IF CanInc(Cur(t), call[t].n)
       THEN children' = AddFree(Cur(t), call[t].n) /\ NextChild(t)
       ELSE Goto(t, "abort") /\ UNCHANGED <<children, loc>>
    /\ UNCHANGED <<bits, call, own, clients, system>>

\* field_set_next, at most one row: one atom_update of the g-th row.
SearchRow(t) ==
    LET r == FIELD_N * Cur(t)
                + Visit(RowOf(call[t].frame) % FIELD_N, FIELD_N, loc[t].g)
        n == call[t].n
    IN
    /\ At(t, "search")
    /\ \/ \E f \in FreeInRow(r, n) :
            /\ \A e \in FreeInRow(r, n) : f <= e
            /\ bits' = bits \cup Block(f, n)
            /\ own'  = [own EXCEPT ![t] = Block(f, n)]
            /\ SetLoc(t, [NoLoc EXCEPT !.f = f])
            /\ Goto(t, "ok")
       \/ /\ FreeInRow(r, n) = {}
          /\ IF loc[t].g + 1 < FIELD_N
             THEN SetLoc(t, [loc[t] EXCEPT !.g = @ + 1]) /\ UNCHANGED pc
             ELSE Goto(t, "undec") /\ UNCHANGED loc
          /\ UNCHANGED <<bits, own>>
    /\ UNCHANGED <<children, call, clients, system>>

\* field_set_next, several rows: the first frame of the g-th group of rows.
GroupBase(t) ==
    LET e == Parts(call[t].n) IN
    ChildBase(Cur(t)) + call[t].n *
        Visit((RowOf(call[t].frame) % FIELD_N) \div e, FIELD_N \div e, loc[t].g)

NextGroup(t) ==
    IF loc[t].g + 1 < FIELD_N \div Parts(call[t].n)
    THEN /\ SetLoc(t, LoopAt(loc[t].k, loc[t].g + 1))
         /\ Goto(t, "set")
    ELSE Goto(t, "undec") /\ UNCHANGED loc

SetRow(t) ==
    LET P == Part(GroupBase(t), call[t].n, loc[t].i) IN
    /\ At(t, "set")
    /\ IF CanToggle(P, FALSE)
       THEN /\ bits' = Toggled(P, FALSE)
            /\ own'  = [own EXCEPT ![t] = @ \cup P]
            /\ IF loc[t].i + 1 = Parts(call[t].n)
               THEN Goto(t, "ok") /\ SetLoc(t, [NoLoc EXCEPT !.f = GroupBase(t)])
               ELSE SetLoc(t, [loc[t] EXCEPT !.i = @ + 1]) /\ UNCHANGED pc
       ELSE /\ IF loc[t].i = 0 THEN NextGroup(t) 
               ELSE Goto(t, "unset") /\ UNCHANGED loc
            /\ UNCHANGED <<bits, own>>
    /\ UNCHANGED <<children, call, clients, system>>

\* Mutant: the undo counts down from the row that is occupied.
UndoRowDown(t) == loc[t].i - loc[t].j

\* The row of the group that is cleared next by the undo.
UndoRow(t) == loc[t].j

\* Clear again the rows that were set before one was found occupied.
UndoSetRow(t) ==
    LET P == Part(GroupBase(t), call[t].n, UndoRow(t)) IN
    /\ At(t, "unset")
    /\ IF CanToggle(P, TRUE)
       THEN /\ bits' = Toggled(P, TRUE)
            /\ own'  = [own EXCEPT ![t] = @ \ P]
            /\ IF loc[t].j + 1 = loc[t].i THEN NextGroup(t)
               ELSE SetLoc(t, [loc[t] EXCEPT !.j = @ + 1]) /\ UNCHANGED pc
       ELSE Goto(t, "abort") /\ UNCHANGED <<bits, own, loc>>
    /\ UNCHANGED <<children, call, clients, system>>

-----------------------------------------------------------------------------
(* field_toggle: mark the exact block of lower_get_at ("mark"), clear the   *)
(* block of lower_put ("clear"), or mark the whole field of a huge page     *)
(* that is to be split ("split").                                           *)

Toggles == {"mark", "clear", "split"}

\* The block that t toggles at label, and the bit it expects there.
Target(t, label) ==
    IF label = "split" THEN [f |-> ChildBase(Cur(t)), n |-> CHILD_SIZE]
    ELSE [f |-> call[t].frame, n |-> call[t].n]

Expected(label) == label = "clear"

\* Mutant: a split forgets to change the child's entry.
AfterToggleNoCas(label) ==
    CASE label = "mark" -> "ok" [] label = "clear" -> "inc"
      [] label = "split" -> "clear"

\* Where the caller of field_toggle goes on when it succeeds or fails.
AfterToggle(label) ==
    CASE label = "mark" -> "ok" [] label = "clear" -> "inc"
      [] label = "split" -> "split_cas"

\* Mutant: lower_get_at fails without giving the counter back.
AfterFailureNoUndo(label) == IF label = "split" THEN "wait" ELSE "memory"

AfterFailure(label) ==
    CASE label = "mark" -> "undec" [] label = "clear" -> "memory"
      [] label = "split" -> "wait"

UndoOf(label) ==
    CASE label = "mark" -> "unmark" [] label = "clear" -> "unclear"
      [] label = "split" -> "unsplit"

\* Marking adds to the frames of t, clearing takes from them, and splitting
\* leaves them: the client still holds the other frames of the huge page.
OwnAfter(t, P, label, expected) ==
    [own EXCEPT ![t] = CASE label = "split" -> @
                         [] expected -> @ \ P
                         [] OTHER -> @ \cup P]

Toggle(t, label) ==
    LET b == Target(t, label)
        P == Part(b.f, b.n, loc[t].i)
    IN
    /\ At(t, label)
    /\ IF CanToggle(P, Expected(label))
       THEN /\ bits' = Toggled(P, Expected(label))
            /\ own'  = OwnAfter(t, P, label, Expected(label))
            /\ IF loc[t].i + 1 = Parts(b.n)
               THEN /\ Goto(t, AfterToggle(label))
                    /\ SetLoc(t, [NoLoc EXCEPT !.f = b.f])
               ELSE SetLoc(t, [loc[t] EXCEPT !.i = @ + 1]) /\ UNCHANGED pc
       ELSE /\ Goto(t, IF loc[t].i = 0 THEN AfterFailure(label)
                       ELSE UndoOf(label))
            /\ UNCHANGED <<bits, own, loc>>
    /\ UNCHANGED <<children, call, clients, system>>

\* The undo of field_toggle compares with the value it expected before, not
\* with the one it wrote: it can only succeed on a row changed meanwhile.
UndoToggle(t, label) ==
    LET b == Target(t, label)
        P == Part(b.f, b.n, loc[t].i - loc[t].j - 1)
    IN
    /\ At(t, UndoOf(label))
    /\ IF CanToggle(P, Expected(label))
       THEN /\ bits' = Toggled(P, Expected(label))
            /\ own'  = OwnAfter(t, P, label, Expected(label))
            /\ IF loc[t].j + 1 = loc[t].i
               THEN Goto(t, AfterFailure(label)) /\ SetLoc(t, NoLoc)
               ELSE SetLoc(t, [loc[t] EXCEPT !.j = @ + 1]) /\ UNCHANGED pc
       ELSE Goto(t, "abort") /\ UNCHANGED <<bits, own, loc>>
    /\ UNCHANGED <<children, call, clients, system>>

-----------------------------------------------------------------------------
(* lower_put of less than a huge page. *)

\* Mutant: lower_put does not look for a huge page.
LoadIgnoresHuge(t) ==
    /\ At(t, "load")
    /\ Goto(t, "clear")
    /\ UNCHANGED <<memory, call, loc, own, clients, system>>

\* A part of a huge page can only be freed once the page is split.
Load(t) ==
    /\ At(t, "load")
    /\ Goto(t, IF children[Cur(t)].huge THEN "split" ELSE "clear")
    /\ UNCHANGED <<memory, call, loc, own, clients, system>>

\* split_huge: all bits are marked, so the entry becomes a normal one.
SplitCas(t) ==
    /\ At(t, "split_cas")
    /\ IF children[Cur(t)] = HugeChild
       THEN /\ children' = [children EXCEPT ![Cur(t)] = SplitChild]
            /\ Goto(t, "clear") /\ SetLoc(t, NoLoc)
       ELSE Goto(t, "abort") /\ UNCHANGED <<children, loc>>
    /\ UNCHANGED <<bits, call, own, clients, system>>

\* Mutant: split_huge waits without a limit.
SplitWaitForever(t) ==
    /\ At(t, "wait")
    /\ ~children[Cur(t)].huge /\ Goto(t, "clear") /\ SetLoc(t, NoLoc)
    /\ UNCHANGED <<memory, call, own, clients, system>>

\* split_huge: another thread is splitting; look RETRIES times whether it has.
SplitWait(t) ==
    /\ At(t, "wait")
    /\ IF ~children[Cur(t)].huge THEN Goto(t, "clear") /\ SetLoc(t, NoLoc)
       ELSE IF loc[t].j + 1 = RETRIES THEN Goto(t, "memory") /\ SetLoc(t, NoLoc)
       ELSE SetLoc(t, [loc[t] EXCEPT !.j = @ + 1]) /\ UNCHANGED pc
    /\ UNCHANGED <<memory, call, own, clients, system>>

\* The bits are clear: give the frames back to the counter.
ChildInc(t) ==
    /\ At(t, "inc")
    /\ IF CanInc(Cur(t), call[t].n)
       THEN children' = AddFree(Cur(t), call[t].n) /\ Goto(t, "ok")
       ELSE Goto(t, "abort") /\ UNCHANGED children
    /\ UNCHANGED <<bits, call, loc, own, clients, system>>

-----------------------------------------------------------------------------
(* Huge pages: try_update_huge_n on HNum(n) consecutive children. *)

\* What a call expects to find in a child, and what it writes there.
Before(t) == IF call[t].op = "put" THEN HugeChild ELSE FreeChild
After(t)  == IF call[t].op = "put" THEN FreeChild ELSE HugeChild

\* Try the next group of children, or give up.
NextHuge(t) ==
    IF call[t].op = "get" /\ loc[t].k + 1 < TREE_CHILDREN \div HNum(call[t].n)
    THEN Goto(t, "huge") /\ SetLoc(t, LoopAt(loc[t].k + 1, 0))
    ELSE /\ Goto(t, IF call[t].op = "put" THEN "argument" ELSE "memory")
         /\ SetLoc(t, NoLoc)

HugeCas(t) ==
    LET c == HBase(t) + loc[t].i IN
    /\ At(t, "huge")
    /\ IF children[c] = Before(t)
       THEN /\ children' = [children EXCEPT ![c] = After(t)]
            /\ own' = [own EXCEPT ![t] = IF call[t].op = "put"
                          THEN @ \ ChildFrames(c) ELSE @ \cup ChildFrames(c)]
            /\ IF loc[t].i + 1 = HNum(call[t].n)
               THEN /\ Goto(t, "ok")
                    /\ SetLoc(t, [NoLoc EXCEPT !.f = ChildBase(HBase(t))])
               ELSE SetLoc(t, [loc[t] EXCEPT !.i = @ + 1]) /\ UNCHANGED pc
       ELSE /\ IF loc[t].i = 0 THEN NextHuge(t)
               ELSE Goto(t, "unhuge") /\ UNCHANGED loc
            /\ UNCHANGED <<children, own>>
    /\ UNCHANGED <<bits, call, clients, system>>

\* The child of the group that is restored next by the undo: it counts down from
\* the child that could not be changed, and never reaches the first one.
UndoChild(t) == loc[t].i - loc[t].j

UndoHuge(t) ==
    LET c == HBase(t) + UndoChild(t) IN
    /\ At(t, "unhuge")
    /\ IF children[c] = After(t)
       THEN /\ children' = [children EXCEPT ![c] = Before(t)]
            /\ own' = [own EXCEPT ![t] = IF call[t].op = "put"
                          THEN @ \cup ChildFrames(c) ELSE @ \ ChildFrames(c)]
            /\ IF loc[t].j + 1 = loc[t].i THEN NextHuge(t)
               ELSE SetLoc(t, [loc[t] EXCEPT !.j = @ + 1]) /\ UNCHANGED pc
       ELSE Goto(t, "abort") /\ UNCHANGED <<children, own, loc>>
    /\ UNCHANGED <<bits, call, clients, system>>

-----------------------------------------------------------------------------
(* Crash and recovery. *)

\* A crash that cuts off a recovery starts it over and is not bounded.
Crash ==
    /\ Recovering \/ crashes < MaxCrashes
    /\ ~Aborted
    /\ crashes' = IF Recovering THEN crashes ELSE crashes + 1
    /\ boot' = 0
    /\ lost' = lost \cup UNION {own[t] : t \in Threads}
    /\ pc'   = [t \in Threads |-> "idle"]
    /\ call' = [t \in Threads |-> NoCall]
    /\ loc'  = [t \in Threads |-> NoLoc]
    /\ own'  = [t \in Threads |-> {}]
    /\ UNCHANGED <<memory, held>>

\* Mutant: lower_recover treats a huge page as a field.
RecoverChildAsField ==
    /\ Recovering
    /\ boot' = boot + 1
    /\ children' = [children EXCEPT ![boot] =
          Child(CHILD_SIZE - Cardinality(bits \cap ChildFrames(boot)), FALSE)]
    /\ UNCHANGED <<bits, pc, call, loc, own, clients, crashes>>

\* Mutant: lower_recover leaves the field of a huge page dirty.
RecoverChildKeepField ==
    /\ Recovering
    /\ boot' = boot + 1
    /\ children' = [children EXCEPT ![boot] =
          IF children[boot].huge THEN HugeChild
          ELSE Child(CHILD_SIZE - Cardinality(bits \cap ChildFrames(boot)), FALSE)]
    /\ UNCHANGED <<bits, pc, call, loc, own, clients, crashes>>

\* lower_recover's next child: a huge page stays allocated as a whole and gets
\* a clear field, otherwise the counter is recomputed from the field.
RecoverChild ==
    /\ Recovering
    /\ boot' = boot + 1
    /\ IF children[boot].huge
       THEN /\ children' = [children EXCEPT ![boot] = HugeChild]
            /\ bits' = bits \ ChildFrames(boot)
       ELSE /\ children' = [children EXCEPT ![boot] =
                  Child(CHILD_SIZE - Cardinality(bits \cap ChildFrames(boot)), FALSE)]
            /\ UNCHANGED bits
    /\ UNCHANGED <<pc, call, loc, own, clients, crashes>>

-----------------------------------------------------------------------------

\* A step inside a call, up to its return.
Step(t) ==
    \/ ChildDec(t) \/ UndoDec(t) \/ SearchRow(t) \/ SetRow(t) \/ UndoSetRow(t)
    \/ \E label \in Toggles : Toggle(t, label) \/ UndoToggle(t, label)
    \/ Load(t) \/ SplitCas(t) \/ SplitWait(t) \/ ChildInc(t)
    \/ HugeCas(t) \/ UndoHuge(t)
    \/ Return(t)

Begin(t) ==
    \/ \E start \in Starts, n \in Sizes : Get(t, start, n)
    \/ \E f \in Frames, n \in AtSizes : GetAt(t, f, n)
    \/ \E f \in Frames, n \in Sizes : Put(t, f, n) \/ PutInvalid(t, f, n)

Next == (\E t \in Threads : Begin(t) \/ Step(t)) \/ Crash \/ RecoverChild

Spec == Init /\ [][Next]_vars

-----------------------------------------------------------------------------
(* Properties. *)

Labels == {"idle", "dec", "undec", "search", "set", "unset", "mark", "unmark",
           "clear", "unclear", "split", "unsplit", "split_cas", "wait", "load",
           "inc", "huge", "unhuge", "abort"} \cup Done

ChildType == [free : 0 .. CHILD_SIZE, huge : BOOLEAN]
CallType  == [op : Ops, frame : Frames, n : Sizes \cup AtSizes \cup {1}]
LocType   == [k : Nat, g : Nat, i : Nat, j : Nat, f : Int]

\* The type of every variable; a child's counter never leaves 0 .. CHILD_SIZE,
\* so neither child_inc nor child_dec makes its bit-field wrap.
TypeOK ==
    /\ bits \in SUBSET Int
    /\ children \in [Children -> ChildType]
    /\ pc \in [Threads -> Labels]
    /\ call \in [Threads -> CallType]
    /\ loc \in [Threads -> LocType]
    /\ own \in [Threads -> SUBSET Int]
    /\ held \in SUBSET Int
    /\ lost \in SUBSET Int
    /\ boot \in 0 .. ChildCount
    /\ crashes \in 0 .. MaxCrashes

\* No frame has two owners: the clients and the calls in progress never hold
\* the same frame, so lower_get never hands out a frame twice.
Exclusive ==
    /\ \A t, u \in Threads : t # u => own[t] \cap own[u] = {}
    /\ \A t \in Threads : own[t] \cap (held \cup lost) = {}
    /\ held \cap lost = {}

\* What bitfields and child entries say is allocated.
Allocated == {f \in Frames : children[ChildOf(f)].huge \/ f \in bits}

\* The metadata marks exactly the frames that somebody owns: no undo, split or
\* recovery frees a frame that is held, and none leaves a frame marked that
\* nobody can free.
Accounted == Allocated = held \cup lost \cup UNION {own[t] : t \in Threads}

\* A call that has changed a child's counter but not yet all of the bits, or
\* the bits but not yet the counter, owes the difference: one token per frame.
InChild == {"search", "set", "unset", "undec", "mark", "unmark",
            "clear", "unclear", "inc"}

Owing(c) ==
    {d \in Threads \X (1 .. CHILD_SIZE) :
        /\ pc[d[1]] \in InChild /\ Cur(d[1]) = c
        /\ d[2] <= call[d[1]].n - Cardinality(own[d[1]])}

\* The counter of a child, the set bits of its field and the frames that calls
\* are moving between the two add up, at every step of every interleaving and
\* for each child that a recovery has repaired.
CounterExact ==
    /\ \A c \in 0 .. boot - 1 : ~children[c].huge =>
          children[c].free + Cardinality(bits \cap ChildFrames(c))
            + Cardinality(Owing(c)) = CHILD_SIZE
    /\ \A c \in ChildCount .. ChildSlots - 1 : children[c] = HugeChild
    /\ \A c \in Children : children[c].huge => children[c].free = 0

\* No assertion of lower.c or bitfield.c fails: every undo finds what it wrote,
\* and every counter has room for what is given back.
NoAbort == ~Aborted

\* The clients' and the calls' frames evolve as FrameOwnership allows.
Ownership == INSTANCE FrameOwnership WITH
    Requests <- Sizes \cup AtSizes,
    want <- [t \in Threads |-> IF pc[t] = "idle" THEN 0 ELSE call[t].n],
    hand <- own

ImplementsOwnership == Ownership!Spec

\* A call marks frames of the tree of its start frame only: it has taken them from
\* the counter of that tree.
InTree ==
    \A t \in Threads : pc[t] \notin {"idle", "abort"} => \A f \in own[t] :
        ChildOf(f) \div TREE_CHILDREN = ChildOf(call[t].frame) \div TREE_CHILDREN

\* Without interference, lower_get fails only if no aligned block of the size
\* is free in the tree of the start frame, and lower_get_at only if the block
\* it asks for is not.
Candidates(t) ==
    IF call[t].op = "get_at" THEN {call[t].frame}
    ELSE {f \in Frames : InRange(f, call[t].n)
            /\ ChildOf(f) \div TREE_CHILDREN
                 = ChildOf(call[t].frame) \div TREE_CHILDREN}

GetComplete ==
    \A t \in Threads : pc[t] = "memory" /\ call[t].op # "put" =>
        \A f \in Candidates(t) : Block(f, call[t].n) \cap Allocated # {}

\* Without interference, freeing a block that is held succeeds, also when it is
\* part of a huge page.
PutAccepted ==
    \A t \in Threads : call[t].op = "put" /\ InRange(call[t].frame, call[t].n) =>
        pc[t] \notin {"memory", "argument"}

\* A free is refused only while another thread is splitting the same huge page.
PutRefusedOnlyInSplit ==
    [][\A t \in Threads : pc[t] # "memory" /\ pc'[t] = "memory" /\ call[t].op = "put" =>
          \E u \in Threads \ {t} : pc[u] \in {"split", "split_cas"} /\ Cur(u) = Cur(t)]_vars
=============================================================================
