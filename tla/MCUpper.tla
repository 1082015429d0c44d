------------------------------ MODULE MCUpper -------------------------------
(***************************************************************************)
(* Instances of Upper for TLC: the constants are in the .cfg files.        *)
(***************************************************************************)
EXTENDS UpperStats, Layout, TLC

CONSTANTS SCARCE, LastResort  \* the parameters of Policies

INSTANCE Policies

OneLocal == [c \in Classes |-> 1]

TwoLocals == [c \in Classes |-> c + 1]

\* Class 0 has no slots.
SomeLocals == [c \in Classes |-> c]

Gets(C, L, N) ==
    [op : {"get"}, class : C, local : L, n : N, tree : {0}]

GetAts(C, L, N, T) ==
    [op : {"get_at"}, class : C, local : L, n : N, tree : T]

Puts(C, L, N, T) ==
    [op : {"put"}, class : C, local : L, n : N, tree : T]

Drains == {NoCall}

\* Small requests of class 0 and large ones of class 1, with slots and without.
SharedCalls ==
    Gets({0}, {0}, {1}) \cup Gets({1}, {0}, {2})
    \cup GetAts({1}, {0}, {1}, {0}) \cup Puts({0}, {0}, {1}, Trees)
    \cup Puts({1}, {NoLocal}, {2}, {0}) \cup Drains

\* Every operation on single frames, in all ways to name a slot.
SoloCalls ==
    Gets({0}, {0}, {1, 2, 4}) \cup Gets({1}, {0, 1}, {1}) \cup Gets({1}, {NoLocal}, {1})
    \cup Gets({0}, {1}, {1}) \cup Gets({2}, {0}, {1})
    \cup GetAts({0}, {0}, {1}, {0}) \cup GetAts({1}, {NoLocal}, {1}, {2})
    \cup Puts({0}, {0}, {1}, Trees) \cup Puts({1}, {NoLocal}, {2}, {0})
    \cup Puts({0}, {1}, {1}, {0}) \cup Drains

\* Trees go offline when they are entirely free, and back online.
Match(id, class, free) == [id |-> id, class |-> class, free |-> free]
Apply(class, operation) == [class |-> class, operation |-> operation]

ChangesOf(M, C) == [op : {"change"}, match : M, change : C]

ChangeCalls ==
    ChangesOf({Match(NoTree, NoClass, TREE_SIZE)}, {Apply(NoClass, "offline")})
    \cup ChangesOf({Match(i, NoClass, 0) : i \in Trees}, {Apply(NoClass, "online")})
    \cup ChangesOf({Match(0, 1, 1)}, {Apply(0, "none")})
    \cup Gets({0}, {NoLocal}, {1}) \cup Gets({1}, {0}, {2}) \cup Puts({1}, {0}, {1}, {0})

\* Trees go online although nobody has taken them offline.
OnlineCalls ==
    ChangesOf({Match(NoTree, NoClass, 0)}, {Apply(NoClass, "online")})
    \cup Gets({0}, {NoLocal}, {2}) \cup Puts({0}, {NoLocal}, {2}, Trees)

\* Frames of a tree are requested for both classes.
ClassCalls ==
    GetAts({0, 1}, {NoLocal}, {1}, {0}) \cup Puts({0}, {NoLocal}, {1}, {0})

\* The thread that the liveness property is about; the others may stop for ever
\* between any two of their atomic steps.
Watched == CHOOSE t \in Threads : TRUE

\* The others change an entry, a slot or what is free below again and again. Only
\* then can an attempt of an atom_update fail again and again.
OthersInterfere == []<><<\E t \in Threads \ {Watched} : Step(t)>>_counters

OthersReturn == []<><<\E t \in Threads \ {Watched} : Return(t)>>_vars

\* Scheduling the watched thread takes it forward as long as its atom_updates do
\* not fail for ever.
ContendedSpec == Spec /\ (WF_vars(Step(Watched)) \/ OthersInterfere)

\* A call is never delayed by threads that have stopped, and if it has to repeat
\* a compare-and-swap for ever, calls of other threads return for ever.
SomeCallReturns ==
    []<>(pc[Watched] = "idle" \/ \E t \in Threads : pc[t] = "abort") \/ OthersReturn

\* The slots that reservations are kept in, the trees' entries and the lower
\* allocator's children and fields do not share memory.
MemoryApart == (\E s \in Slots : slots[s].present) => PartsApart

Symmetry == Permutations(Threads)
=============================================================================
