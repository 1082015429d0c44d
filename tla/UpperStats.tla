----------------------------- MODULE UpperStats -----------------------------
(***************************************************************************)
(* The fast statistics of src/llfree.c (llfree_tree_stats): they are added *)
(* up from the entries of the trees and from the slots, without a look at  *)
(* the lower allocator.                                                    *)
(***************************************************************************)
EXTENDS Upper, FiniteSetsExt

ClassStats(free, alloc) == [free_frames |-> free, alloc_frames |-> alloc]

TreeStats(free, whole, classes) ==
    [free_frames |-> free, free_trees |-> whole, classes |-> classes]

FreeIn(I) == MapThenSumSet(LAMBDA i : trees[i].free, I)

Whole(I) == {i \in I : trees[i].free = TREE_SIZE}

OfClass(c) == {i \in Trees : trees[i].class = c}

\* Mutant: trees that are reserved are left to the slots.
TreesStatsUnreserved ==
    LET I == {i \in Trees : ~trees[i].reserved} IN
    TreeStats(FreeIn(I), Cardinality(Whole(I)),
        [c \in Classes |-> ClassStats(FreeIn(OfClass(c) \cap I),
            TREE_SIZE * Cardinality(OfClass(c)) - FreeIn(OfClass(c)))])

\* trees_stats: the frames that a slot has of a tree count as allocated here.
TreesStats ==
    TreeStats(FreeIn(Trees), Cardinality(Whole(Trees)),
        [c \in Classes |-> ClassStats(FreeIn(OfClass(c)),
            TREE_SIZE * Cardinality(OfClass(c)) - FreeIn(OfClass(c)))])

SlotFree(S) == MapThenSumSet(LAMBDA s : slots[s].free, {s \in S : slots[s].present})

WholeSlots == {s \in Slots : slots[s].present /\ slots[s].free = TREE_SIZE}

\* ll_local_stats
LocalStats ==
    TreeStats(SlotFree(Slots), Cardinality(WholeSlots),
        [c \in Classes |-> ClassStats(SlotFree({s \in Slots : s[1] = c}), 0)])

\* llfree_tree_stats
FastStats ==
    TreeStats(TreesStats.free_frames + LocalStats.free_frames,
              TreesStats.free_trees + LocalStats.free_trees,
        [c \in Classes |->
            ClassStats(TreesStats.classes[c].free_frames + LocalStats.classes[c].free_frames,
                       TreesStats.classes[c].alloc_frames + LocalStats.classes[c].alloc_frames)])

-----------------------------------------------------------------------------
(* Properties. *)

SumOver(S, f(_)) == MapThenSumSet(f, S)

\* Between calls the fast statistics agree with the lower allocator as far as trees
\* are not offline: all free frames are reported once, no tree is reported free
\* that is not (its frames may be split between its entry and a slot, and then it
\* is not reported), and the classes account for all free and all used frames.
FastStatsExact ==
    (\A t \in Threads : pc[t] = "idle") =>
        /\ FastStats.free_frames = SumOver(Trees \ offline, LAMBDA i : room[i])
        /\ FastStats.free_trees <= Cardinality({i \in Trees \ offline : room[i] = TREE_SIZE})
        /\ SumOver(Classes, LAMBDA c : FastStats.classes[c].free_frames) = FastStats.free_frames
        /\ SumOver(Classes, LAMBDA c : FastStats.classes[c].alloc_frames)
              >= SumOver(Trees, LAMBDA i : held[i])
=============================================================================
