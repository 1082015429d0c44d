------------------------------ MODULE Policies ------------------------------
(***************************************************************************)
(* The policies that llfree.h brings along (llfree_simple_policy and       *)
(* llfree_movable_policy): classes are ordered, a request steals from a    *)
(* lower class and demotes a higher one, and among the trees of its own    *)
(* class it prefers those that are neither nearly full nor mostly free.    *)
(***************************************************************************)
EXTENDS Integers

CONSTANTS
    TREE_SIZE,
    SCARCE,     \* LLFREE_TREE_SIZE / 64: a tree with less is nearly full
    LastResort  \* the priority of a nearly full tree: 0 or 2

Answer(type, priority) == [type |-> type, priority |-> priority]

OrderedPolicy(requested, target, free) ==
    CASE requested > target -> Answer("steal", 0)
      [] requested < target -> Answer("demote", 0)
      [] requested = target /\ free >= TREE_SIZE \div 2 -> Answer("match", 1)
      [] requested = target /\ free < TREE_SIZE \div 2 /\ free >= SCARCE ->
            Answer("match", 255)
      [] OTHER -> Answer("match", LastResort)
=============================================================================
