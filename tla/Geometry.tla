------------------------------ MODULE Geometry ------------------------------
(***************************************************************************)
(* Frames, rows, children and trees, and the conversions between them      *)
(* (std/llfree_types.h, src/utils.h).  A frame is a number; a row is the   *)
(* ATOMIC_SIZE frames whose bits share one 64-bit word; a child is the     *)
(* CHILD_SIZE frames of one bitfield, the unit of a huge page; a tree is   *)
(* TREE_CHILDREN children.  The code's powers of two are constants here,   *)
(* and a block is given by its size 2^order instead of its order.          *)
(***************************************************************************)
EXTENDS Integers, FiniteSets

CONSTANTS
    ATOMIC_SIZE,    \* frames per row of a bitfield      (64 in the code)
    FIELD_N,        \* rows per child                    (8)
    TREE_CHILDREN,  \* children per tree                 (8)
    FRAMES          \* frames managed by the allocator

ASSUME GeometryAssumption ==
    /\ ATOMIC_SIZE \in Nat \ {0}
    /\ FIELD_N \in Nat \ {0}
    /\ TREE_CHILDREN \in Nat \ {0}
    /\ FRAMES \in Nat \ {0}

CHILD_SIZE == ATOMIC_SIZE * FIELD_N

DivCeil(a, b) == (a + b - 1) \div b

ChildCount == DivCeil(FRAMES, CHILD_SIZE)

\* The metadata holds whole trees: child_count rounded up (get_child's assert).
ChildSlots == DivCeil(ChildCount, TREE_CHILDREN) * TREE_CHILDREN

Frames   == 0 .. FRAMES - 1
Children == 0 .. ChildSlots - 1

\* Every frame that has a bit, the tail of a last partial child included.
AllFrames == 0 .. ChildCount * CHILD_SIZE - 1

Block(f, n)  == f .. f + n - 1
Row(r)       == Block(r * ATOMIC_SIZE, ATOMIC_SIZE)
ChildBase(c) == c * CHILD_SIZE
ChildFrames(c) == Block(ChildBase(c), CHILD_SIZE)

RowOf(f)   == f \div ATOMIC_SIZE
ChildOf(f) == f \div CHILD_SIZE

\* The sizes 2^order of blocks up to a tree: parts of a row, whole rows of a child
\* or whole children of a tree.
IsSize(n) ==
    \/ n \in 1 .. ATOMIC_SIZE /\ ATOMIC_SIZE % n = 0
    \/ \E e \in 1 .. FIELD_N : FIELD_N % e = 0 /\ n = e * ATOMIC_SIZE
    \/ \E h \in 1 .. TREE_CHILDREN : TREE_CHILDREN % h = 0 /\ n = h * CHILD_SIZE

\* The check at the entry of lower_get_at and lower_put.
InRange(f, n) == f + n <= FRAMES /\ f % n = 0

\* The value for_offsetted(start, len) visits in its k-th iteration.
Visit(start, len, k) ==
    LET offset == start % len IN (start - offset) + ((k + offset) % len)
=============================================================================
