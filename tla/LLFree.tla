------------------------------- MODULE LLFree -------------------------------
(***************************************************************************)
(* The whole allocator: the calls of Upper (src/llfree.c), each of which   *)
(* hands its request over to a call of Lower (src/lower.c) and goes on     *)
(* when that returns.  Both levels run interleaved, step by step: while    *)
(* one thread searches a row, others change the counters of its tree.      *)
(*                                                                         *)
(* Upper alone assumes that the lower allocator has a number of free       *)
(* frames per tree which changes by one call at a time.  Here this number, *)
(* Room, is computed from the frames that clients and calls own below, and *)
(* ImplementsUpper says that the assumption is right.                      *)
(***************************************************************************)
EXTENDS Geometry, FiniteSetsExt

CONSTANTS
    Threads, RETRIES, Starts, Split, FreeAll, MaxCrashes,   \* see Lower
    MAX_CLASSES, Classes, DefaultClass, Policy(_, _, _),    \* see Tree
    NEAR, ALIGN, SEARCH_BEST, Locals, Calls                 \* see Upper

VARIABLES
    trees, slots, pc, call, loc, hand, spare,    \* see Upper
    bits, children, lpc, lcall, lloc, own, lheld, lost, boot, crashes, \* see Lower
    target,   \* the frame that a thread's get_at or put is about
    down      \* whether a crash has happened and llfree_init has not returned

upper == <<trees, slots, pc, call, loc, hand, spare, target, down>>
lower == <<bits, children, lpc, lcall, lloc, own, lheld, lost, boot, crashes>>
vars  == <<upper, lower>>

TREE_SIZE == CHILD_SIZE * TREE_CHILDREN
Sizes     == {r.n : r \in Calls}

L == INSTANCE Lower WITH
    AtSizes <- Sizes, pc <- lpc, call <- lcall, loc <- lloc, held <- lheld

TreeOf(f)     == f \div TREE_SIZE
TreeFrames(i) == {f \in Frames : TreeOf(f) = i}
Trees         == {TreeOf(f) : f \in Frames}

\* A call of lower_get takes its frames, as Upper sees it, when it returns, and a
\* call of lower_put gives them back when it returns; another call may have found
\* a frame by then that has just been cleared.
Taken == lheld \cup lost \cup UNION {own[t] : t \in {u \in Threads : pc[u] \notin {"lower", "put"}}}

\* One token for each frame of tree i that is being freed.
Freeing(i) ==
    {d \in Threads \X (1 .. TREE_SIZE) :
        pc[d[1]] = "put" /\ call[d[1]].tree = i /\ d[2] <= call[d[1]].n}

Room == [i \in Trees |-> Cardinality(TreeFrames(i) \ Taken) - Cardinality(Freeing(i))]

Held == [i \in Trees |-> Cardinality(TreeFrames(i) \cap lheld)]

\* The calls of Upper.
U == INSTANCE Upper WITH
    HUGE <- CHILD_SIZE, Careful <- TRUE, Full <- FreeAll, MaxRestarts <- MaxCrashes,
    room <- Room, held <- Held, offline <- {}, restarts <- crashes

ASSUME LLFreeAssumption ==
    /\ RETRIES \in Nat \ {0} /\ Starts \subseteq Frames /\ Split \in BOOLEAN
    /\ FreeAll \subseteq BOOLEAN /\ MaxCrashes \in Nat
    /\ MAX_CLASSES \in Nat \ {0}
    /\ Classes \subseteq 0 .. MAX_CLASSES - 1 /\ DefaultClass \in Classes
    /\ \A r, c \in Classes, f \in 0 .. TREE_SIZE :
          /\ Policy(r, c, f).type \in U!PolicyTypes
          /\ Policy(r, c, f).priority \in 0 .. U!PERFECT
    /\ NEAR \in Nat /\ ALIGN \in Nat \ {0} /\ SEARCH_BEST \in Nat \ {0}
    /\ Locals \in [Classes -> Nat]
    /\ Calls \subseteq U!Requests \cup {U!NoCall}
    /\ \A n \in Sizes : IsSize(n)

-----------------------------------------------------------------------------

\* init_tree_cb and lower_stats_at of a tree: the sum of the children's counters.
FreeOf(i) ==
    MapThenSumSet(LAMBDA k : children[i * TREE_CHILDREN + k].free, 0 .. TREE_CHILDREN - 1)

\* llfree_init: the lower allocator first, then the trees, then the slots.
Init ==
    /\ L!Init
    /\ trees = [i \in Trees |-> U!InitEntry(i, FreeOf(i))]
    /\ slots = [s \in U!Slots |-> U!Nothing]
    /\ pc    = [t \in Threads |-> "idle"]
    /\ call  = [t \in Threads |-> U!NoCall]
    /\ loc   = [t \in Threads |-> U!NoLoc]
    /\ hand  = [t \in Threads |-> U!Nothing]
    /\ spare = [t \in Threads |-> U!Nothing]
    /\ target = [t \in Threads |-> 0]
    /\ down  = FALSE

\* A failed assertion of either level aborts the process.
Running == ~down /\ ~U!Aborted /\ ~L!Aborted

At(t, label) == Running /\ pc[t] = label

\* Set the frame that the call of t is about.
Aim(t, f) == target' = [target EXCEPT ![t] = f]

-----------------------------------------------------------------------------
(* Calls. *)

\* llfree_get, llfree_drain, and an llfree_put that is not valid.
Start(t, r) ==
    /\ At(t, "idle")
    /\ IF r.op = "get_at"
       THEN \E f \in TreeFrames(r.tree) : InRange(f, r.n) /\ Aim(t, f)
       ELSE UNCHANGED target
    /\ UNCHANGED <<lower, down>>
    /\ \/ U!Get(t, r) \/ U!GetAt(t, r) \/ U!Drain(t, r)
       \/ ~U!Valid(r) /\ U!Put(t, r)

\* llfree_put: a valid request goes to lower_put at once.
Put(t, r) ==
    /\ At(t, "idle")
    /\ r.op = "put" /\ U!Valid(r)
    /\ \E f \in TreeFrames(r.tree) : L!Put(t, f, r.n) /\ Aim(t, f)
    /\ call' = [call EXCEPT ![t] = r]
    /\ U!SetLoc(t, [U!NoLoc EXCEPT !.from = "put"])
    /\ U!Goto(t, "put")
    /\ UNCHANGED <<trees, slots, hand, spare, down>>

\* A step of a call that touches only trees and slots.
UpperStep(t) ==
    /\ Running
    /\ pc[t] \notin {"idle", "lower", "put"} \cup U!Done
    /\ UNCHANGED <<lower, call, target, down>>
    /\ U!Step(t)

-----------------------------------------------------------------------------
(* The lower allocator is called, works and returns. *)

\* lower_get in the tree that the call has frames of, from any row of it, or at
\* the frame that is asked for.
LowerGet(t) ==
    /\ At(t, "lower") /\ lpc[t] = "idle"
    /\ IF call[t].op = "get_at" THEN L!GetAt(t, target[t], call[t].n)
       ELSE \E start \in Starts \cap TreeFrames(hand[t].tree) : L!Get(t, start, call[t].n)
    /\ UNCHANGED upper

LowerStep(t) ==
    /\ Running
    /\ lpc[t] \notin L!Done
    /\ L!Step(t)
    /\ UNCHANGED upper

\* Mutant: the counter that a call has in hand is not reduced by what it got.
LeftAll(t) == hand[t]

\* The frames that remain in hand for the slot.
Left(t) == [hand[t] EXCEPT !.free = @ - call[t].n]

\* The frames have been found; they stay the call's until it returns.
GetSucceeds(t) ==
    /\ At(t, "lower") /\ lpc[t] = "ok"
    /\ U!Hold(t, Left(t))
    /\ U!Goto(t, IF hand[t].present THEN "swap" ELSE "ok")
    /\ UNCHANGED <<trees, slots, call, loc, spare, target, down, lower>>

\* There are none: the counters get back what the call took from them.
GetRefused(t) ==
    /\ At(t, "lower") /\ lpc[t] \in L!Done \ {"ok"}
    /\ L!Return(t)
    /\ U!Goto(t, "give_back")
    /\ UNCHANGED <<trees, slots, call, loc, hand, spare, target, down>>

\* The frames are free below and can be counted again.
PutSucceeds(t) ==
    /\ At(t, "put") /\ lpc[t] = "ok"
    /\ L!Return(t)
    /\ U!Hold(t, U!Reservation(FALSE, TreeOf(target[t]), call[t].n))
    /\ U!Goto(t, IF call[t].local # U!NoLocal THEN "put_slot" ELSE "give_back")
    /\ UNCHANGED <<trees, slots, call, loc, spare, target, down>>

\* llfree_put passes the error on.
PutRefused(t) ==
    /\ At(t, "put") /\ lpc[t] \in L!Done \ {"ok"}
    /\ U!Goto(t, lpc[t])
    /\ UNCHANGED <<trees, slots, call, loc, hand, spare, target, down, lower>>

\* The client gets its frames, if any.
Return(t) ==
    /\ Running /\ pc[t] \in U!Done
    /\ IF lpc[t] = "idle" THEN UNCHANGED lower ELSE L!Return(t)
    /\ call' = [call EXCEPT ![t] = U!NoCall]
    /\ U!SetLoc(t, U!NoLoc) /\ U!Hold(t, U!Nothing) /\ Aim(t, 0)
    /\ U!Goto(t, "idle")
    /\ UNCHANGED <<trees, slots, spare, down>>

-----------------------------------------------------------------------------
(* Crash and recovery. *)

\* What trees and slots hold after a crash is written anew before it is read.
Crash ==
    /\ L!Crash /\ ~U!Aborted
    /\ down'  = TRUE
    /\ trees' = [i \in Trees |-> U!InitEntry(i, 0)]
    /\ slots' = [s \in U!Slots |-> U!Nothing]
    /\ pc'    = [t \in Threads |-> "idle"]
    /\ call'  = [t \in Threads |-> U!NoCall]
    /\ loc'   = [t \in Threads |-> U!NoLoc]
    /\ hand'  = [t \in Threads |-> U!Nothing]
    /\ spare' = [t \in Threads |-> U!Nothing]
    /\ target' = [t \in Threads |-> 0]

\* llfree_init with INIT_RECOVER: lower_recover first.
Recover == L!RecoverChild /\ UNCHANGED upper

\* Mutant: the trees are initialised while children are still to be recovered.
RecoveredEarly == boot > 0

Recovered == ~L!Recovering

\* llfree_init goes on with trees_init and ll_local_init.
Boot ==
    /\ down /\ Recovered
    /\ down'  = FALSE
    /\ trees' = [i \in Trees |-> U!InitEntry(i, FreeOf(i))]
    /\ UNCHANGED <<slots, pc, call, loc, hand, spare, target, lower>>

-----------------------------------------------------------------------------

Next ==
    \/ \E t \in Threads :
          \/ \E r \in Calls : Start(t, r) \/ Put(t, r)
          \/ UpperStep(t)
          \/ LowerGet(t) \/ LowerStep(t)
          \/ GetSucceeds(t) \/ GetRefused(t) \/ PutSucceeds(t) \/ PutRefused(t)
          \/ Return(t)
    \/ Crash \/ Recover \/ Boot

Spec == Init /\ [][Next]_vars

-----------------------------------------------------------------------------
(* Properties. *)

\* Seen from the clients, recovery is done as soon as the crash has happened: the
\* counters that it will find are what the clients and the cut-off calls do not have.
Promised == IF down THEN [i \in Trees |-> U!InitEntry(i, Room[i])] ELSE trees

Promise == INSTANCE Upper WITH
    HUGE <- CHILD_SIZE, Careful <- TRUE, Full <- FreeAll, MaxRestarts <- MaxCrashes,
    room <- Room, held <- Held, offline <- {}, restarts <- crashes, trees <- Promised

\* The abstract lower allocator of Upper is right: every step of every thread in
\* rows, children and entries is a step of Upper or none at all, and recovery
\* finds exactly the counters of the frames that nobody owns.
ImplementsUpper == Promise!Spec

\* validate_tree, for the tree that a slot has reserved.
ValidReservation(tree, free) ==
    trees[tree].reserved /\ trees[tree].free + free = FreeOf(tree)

\* llfree_validate: the total of lower_stats is that of llfree_tree_stats, and tree
\* by tree the counters of an entry and of its slot are those of the children.
Validates ==
    /\ MapThenSumSet(FreeOf, Trees) =
          MapThenSumSet(LAMBDA i : trees[i].free, Trees)
            + MapThenSumSet(LAMBDA s : slots[s].free, {s \in U!Slots : slots[s].present})
    /\ \A i \in Trees : trees[i].reserved \/ trees[i].free = FreeOf(i)
    /\ \A s \in U!Slots :
          slots[s].present => ValidReservation(slots[s].tree, slots[s].free)

\* llfree_validate succeeds whenever no call is in progress: every interleaving of
\* calls, refusals and a crash leaves the counters of both levels in agreement.
ValidWhenQuiet == ~down /\ (\A t \in Threads : pc[t] = "idle") => Validates
=============================================================================
