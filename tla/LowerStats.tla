----------------------------- MODULE LowerStats -----------------------------
(***************************************************************************)
(* What the lower allocator reports about its frames (lower_stats and      *)
(* lower_stats_at in src/lower.c).  The reports are added up from counters *)
(* that calls change meanwhile; between calls they have to be exact.       *)
(***************************************************************************)
EXTENDS Lower, FiniteSetsExt

Stats(frames, huge, whole_trees) ==
    [free_frames |-> frames, free_huge |-> huge, free_trees |-> whole_trees]

NumberOf(b) == IF b THEN 1 ELSE 0

Trees == 0 .. (ChildSlots \div TREE_CHILDREN) - 1

TreeChildren(i) == Block(i * TREE_CHILDREN, TREE_CHILDREN)

\* The free frames that the counters of children C add up to, and how many of
\* the children are entirely free.
FreeFrames(C) == MapThenSumSet(LAMBDA c : children[c].free, C)

FreeHuge(C) == Cardinality({c \in C : children[c].free = CHILD_SIZE})

IsFreeTree(i) == FreeFrames(TreeChildren(i)) = CHILD_SIZE * TREE_CHILDREN

\* lower_stats: the whole memory, leftover children included.
LowerStats ==
    Stats(FreeFrames(Children), FreeHuge(Children),
          Cardinality({i \in Trees : IsFreeTree(i)}))

\* Mutant: the bit alone says whether a frame is free.
FrameFreeByBit(f) == f \notin bits

\* lower_stats_at of a frame: the bits of a huge page are clear, so that a child
\* without free frames is not looked at.
FrameFree(f) ==
    LET child == children[ChildOf(f)] IN
    child.free = CHILD_SIZE \/ (child.free > 0 /\ f \notin bits)

FrameStats(f) == Stats(NumberOf(FrameFree(f)), 0, 0)

\* lower_stats_at of a child or of a tree.
ChildStats(c) == Stats(children[c].free, FreeHuge({c}), 0)

TreeStats(i) ==
    Stats(FreeFrames(TreeChildren(i)), FreeHuge(TreeChildren(i)), NumberOf(IsFreeTree(i)))

-----------------------------------------------------------------------------
(* Properties. *)

Available == Frames \ (held \cup lost)

\* What a report about the frames F should say, at the levels that it speaks of.
Report(F, huge, whole_trees) ==
    LET whole(size) == Cardinality({f \in F : /\ f % size = 0
                                              /\ Block(f, size) \subseteq F \cap Available})
    IN  Stats(Cardinality(F \cap Available),
              IF huge THEN whole(CHILD_SIZE) ELSE 0,
              IF whole_trees THEN whole(CHILD_SIZE * TREE_CHILDREN) ELSE 0)

\* The frames of children C.
FramesIn(C) == {f \in Frames : ChildOf(f) \in C}

\* Between calls, also after splits, refusals and a recovery, all reports agree
\* with what the clients can still get: every frame, child and tree and the sum.
StatsExact ==
    ~Recovering /\ (\A t \in Threads : pc[t] = "idle") =>
        /\ LowerStats = Report(Frames, TRUE, TRUE)
        /\ \A f \in Frames : FrameStats(f) = Report({f}, FALSE, FALSE)
        /\ \A c \in 0 .. ChildCount - 1 : ChildStats(c) = Report(FramesIn({c}), TRUE, FALSE)
        /\ \A i \in Trees : TreeStats(i) = Report(FramesIn(TreeChildren(i)), TRUE, TRUE)
=============================================================================
