-------------------------------- MODULE Tree --------------------------------
(***************************************************************************)
(* The entry of a tree and what one atomic update makes of it (src/tree.c).*)
(* An entry counts the free frames of its tree that are not counted in a   *)
(* core's reservation, and says whether a core has reserved the tree and   *)
(* which class of requests it serves.  The policy, which the client of the *)
(* allocator supplies, decides how a request of one class may use a tree   *)
(* of another.                                                             *)
(***************************************************************************)
EXTENDS Integers

CONSTANTS
    TREE_SIZE,          \* frames of a tree
    MAX_CLASSES,        \* LLFREE_MAX_CLASSES
    Classes,            \* the configured classes
    DefaultClass,       \* the class of a tree that is entirely free
    Policy(_, _, _)     \* policy(requested class, class of the tree, free)

PolicyTypes == {"match", "steal", "demote", "invalid"}

PolicyResult(type, priority) == [type |-> type, priority |-> priority]

\* UINT8_MAX: the priority of a tree that is tried without looking further.
PERFECT == 255

ASSUME TreeAssumption ==
    /\ TREE_SIZE \in Nat \ {0}
    /\ MAX_CLASSES \in Nat \ {0}
    /\ Classes \subseteq 0 .. MAX_CLASSES - 1
    /\ DefaultClass \in Classes
    /\ \A r, c \in Classes, f \in 0 .. TREE_SIZE :
          /\ Policy(r, c, f).type \in PolicyTypes
          /\ Policy(r, c, f).priority \in 0 .. PERFECT

Entry(reserved, class, free) ==
    [reserved |-> reserved, class |-> class, free |-> free]

Entries == [reserved : BOOLEAN, class : Classes, free : 0 .. TREE_SIZE]

-----------------------------------------------------------------------------

\* tree_put's assertion.
CanPut(tree, n) == tree.free + n <= TREE_SIZE

\* tree_put: a tree that becomes entirely free returns to the default class.
TreePut(tree, n) ==
    LET free  == tree.free + n
        reset == /\ free = TREE_SIZE
                 /\ Policy(tree.class, DefaultClass, free).type # "invalid"
    IN  [tree EXCEPT !.free = free, !.class = IF reset THEN DefaultClass ELSE @]

\* tree_steal, also from a reserved tree: whether a request of the class may.
CanSteal(tree, class, n) ==
    /\ tree.free >= n
    /\ Policy(class, tree.class, tree.free).type # "invalid"

\* The class of the tree after it, which is also what the caller gets.
ClassAfterSteal(tree, class) ==
    IF Policy(class, tree.class, tree.free).type = "steal" THEN tree.class ELSE class

\* tree_reserve_or_steal: whether the policy's answer for the tree is in types.
Usable(tree, class, n, types) ==
    /\ ~tree.reserved /\ tree.free >= n
    /\ Policy(class, tree.class, tree.free).type \in types

CanReserve(tree, class, n) == Usable(tree, class, n, {"match", "demote"})

CanOnlySteal(tree, class, n) == Usable(tree, class, n, {"steal"})

\* tree_unreserve_add on a reserved tree.
TreeUnreserve(tree, n, class) ==
    LET type == Policy(class, tree.class, n).type IN
    TreePut([tree EXCEPT !.reserved = FALSE,
                         !.class = IF type = "demote" THEN class ELSE @], n)

\* tree_sync_steal: the counter is taken only if it is more than the minimum.
CanSync(tree, min) == tree.reserved /\ tree.free > min

-----------------------------------------------------------------------------
(* tree_change *)

NoClass == -1

Operations == {"none", "online", "offline"}

\* Mutant: tree_change does not compare the number of free frames.
CanChangeUncounted(tree, m, change) ==
    /\ ~tree.reserved
    /\ m.class \in {NoClass, tree.class}
    /\ change.operation = "online" => tree.free = 0

\* tree_change: whether an unreserved tree matches and the operation applies.
CanChange(tree, m, change) ==
    /\ ~tree.reserved
    /\ m.class \in {NoClass, tree.class}
    /\ tree.free >= m.free
    /\ change.operation = "online" => tree.free = 0

\* What tree_change makes of it; the counter of a tree taken online is given.
Changed(tree, change, online_free) ==
    [tree EXCEPT !.class = IF change.class = NoClass THEN @ ELSE change.class,
                 !.free = CASE change.operation = "none"    -> @
                            [] change.operation = "offline" -> 0
                            [] change.operation = "online"  -> online_free]
=============================================================================
