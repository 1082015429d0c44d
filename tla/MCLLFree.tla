------------------------------ MODULE MCLLFree ------------------------------
(***************************************************************************)
(* An instance of LLFree for TLC: the constants are in the .cfg file.      *)
(***************************************************************************)
EXTENDS LLFree, TLC

CONSTANTS SCARCE, LastResort  \* the parameters of Policies

INSTANCE Policies

OneLocal == [c \in Classes |-> 1]

Request(op, local, n, tree) ==
    [op |-> op, class |-> 0, local |-> local, n |-> n, tree |-> tree]

\* Single frames and huge pages, through a slot and without one, a free that names
\* a slot that does not exist, and a drain.
FewCalls ==
    {Request("get", 0, 1, 0), Request("get", -1, 2, 0), Request("get_at", 0, 1, 0),
     Request("put", 0, 1, 0), Request("put", -1, 2, 0), Request("put", 1, 1, 0),
     Request("drain", -1, 1, 0)}

Symmetry == Permutations(Threads)
=============================================================================
