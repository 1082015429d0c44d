------------------------------- MODULE Layout -------------------------------
(***************************************************************************)
(* Where the allocator keeps its state in the three buffers that its       *)
(* client provides (llfree_metadata_size, check_meta, lower_init,          *)
(* ll_local_init), in bytes.                                               *)
(***************************************************************************)
EXTENDS Integers, Sequences, FiniteSetsExt

CACHE      == 64    \* LLFREE_CACHE_SIZE
CHILD      == 512   \* LLFREE_CHILD_SIZE
FIELD      == 64    \* sizeof(bitfield_t)
CHILD_T    == 2     \* sizeof(child_t)
TREE_T     == 4     \* sizeof(tree_t)
ENTRY      == CACHE \* sizeof(entry_t), one cache line per slot
HEADER     == 256   \* sizeof(local_t)

DivCeil(a, b) == (a + b - 1) \div b
AlignUp(v, align) == align * DivCeil(v, align)

-----------------------------------------------------------------------------
(* The lower allocator: the bitfields of all children, then their entries in *)
(* groups of tree_children, each group in cache lines of its own.            *)

ChildrenFor(frames) == DivCeil(frames, CHILD)
TreesFor(frames, tree_children) == DivCeil(ChildrenFor(frames), tree_children)

Group(tree_children) == AlignUp(CHILD_T * tree_children, CACHE)

\* lower_init: where the entries begin.
ChildrenOffset(frames, tree_children) ==
    AlignUp(FIELD * ChildrenFor(frames), Group(tree_children))

ChildrenEnd(frames, tree_children) ==
    ChildrenOffset(frames, tree_children)
        + Group(tree_children) * TreesFor(frames, tree_children)

\* lower_metadata_size
LowerSize(frames, tree_children) ==
    AlignUp(ChildrenFor(frames) * FIELD, Group(tree_children))
    + AlignUp(TreesFor(frames, tree_children) * Group(tree_children),
              Max({Group(tree_children), FIELD}))

\* trees_metadata_size
TreesSize(frames, tree_children) ==
    AlignUp(TREE_T * DivCeil(frames, CHILD * tree_children), CACHE)

-----------------------------------------------------------------------------
(* The slots.  A classing is a sequence of classes with their slot counts.   *)

CountOf(classing, I) == MapThenSumSet(LAMBDA i : classing[i].count, I)

\* ll_local_size
LocalSize(classing) == HEADER + ENTRY * CountOf(classing, DOMAIN classing)

\* Mutant: the slices begin at the header.
SliceOffsetNoHeader(classing, i) == ENTRY * CountOf(classing, 1 .. i - 1)

\* ll_local_init: the slice of the i-th class follows those before it.
SliceOffset(classing, i) == HEADER + ENTRY * CountOf(classing, 1 .. i - 1)

\* The slot that ll_local_get and its like use for a class and an index.
SlotOffset(classing, i, index) == SliceOffset(classing, i) + ENTRY * index

\* ll_local_mem_size adds up the slices of the class ids below the number of
\* classes, not those of the classes that were configured.
LocalMemSize(classing) ==
    HEADER + ENTRY * CountOf(classing, {i \in DOMAIN classing :
                                            classing[i].class < Len(classing)})

\* check_meta, for the three buffers, given by address and size.
Before(a, b) == a.at + a.size <= b.at

CheckMeta(a, b, c) ==
    /\ a.at % CACHE = 0 /\ b.at % CACHE = 0 /\ c.at % CACHE = 0
    /\ Before(a, b) \/ Before(b, a)
    /\ Before(a, c) \/ Before(c, a)
    /\ Before(b, c) \/ Before(c, b)

-----------------------------------------------------------------------------
(* Properties. *)

\* Sizes around the boundaries of rows, children and trees.
SampleFrames == UNION {{k * CHILD - 1, k * CHILD, k * CHILD + 1} : k \in 1 .. 40}

SampleGroups == {2^k : k \in 0 .. 7}

\* Up to three classes, in any order and with any ids.
SampleClassings ==
    {c \in UNION {[1 .. n -> [class : 0 .. 3, count : 0 .. 2]] : n \in 1 .. 3} :
        \A i, j \in DOMAIN c : i # j => c[i].class # c[j].class}

SlotsOf(c) == UNION {{i} \X (0 .. c[i].count - 1) : i \in DOMAIN c}

SlotsApart(c) ==
    \A s, r \in SlotsOf(c) :
        LET at == SlotOffset(c, s[1], s[2]) IN
        /\ at >= HEADER /\ at % CACHE = 0 /\ at + ENTRY <= LocalSize(c)
        /\ s # r => at # SlotOffset(c, r[1], r[2])

\* No two parts of the allocator's state share memory: the entries follow the
\* bitfields, every slot has a cache line of its own, and all of them end inside
\* the buffers whose sizes llfree_metadata_size reports.  llfree_metadata_size_of
\* reports the same sizes if the class ids are 0 .. num_classes - 1.
PartsApart ==
    /\ \A f \in SampleFrames, g \in SampleGroups :
          /\ FIELD * ChildrenFor(f) <= ChildrenOffset(f, g)
          /\ ChildrenOffset(f, g) % CACHE = 0
          /\ ChildrenEnd(f, g) <= LowerSize(f, g)
          /\ TREE_T * TreesFor(f, g) <= TreesSize(f, g)
    /\ \A c \in SampleClassings :
          /\ SlotsApart(c)
          /\ {c[i].class : i \in DOMAIN c} = 0 .. Len(c) - 1 =>
                LocalMemSize(c) = LocalSize(c)
    /\ \A a, b, d \in {CACHE * k : k \in 0 .. 3}, size \in {1, CACHE, CACHE + 1} :
          LET buffer(at) == at .. at + size - 1
              meta(at)   == [at |-> at, size |-> size]
          IN  CheckMeta(meta(a), meta(b), meta(d)) <=>
                  /\ buffer(a) \cap buffer(b) = {} /\ buffer(b) \cap buffer(d) = {}
                  /\ buffer(a) \cap buffer(d) = {}
=============================================================================
