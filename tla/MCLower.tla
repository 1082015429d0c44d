------------------------------ MODULE MCLower -------------------------------
(***************************************************************************)
(* Instances of Lower for TLC: the constants are in the .cfg files.        *)
(***************************************************************************)
EXTENDS LowerStats, Words, TLC

\* Wherever Lower picks the lowest free block of a row, the shifts and masks of
\* first_zeros_aligned do, for every word.
SearchExact == (\E t \in Threads : pc[t] = "search") => LowestBlockFound

\* Wherever Lower flips the bits of a block, the masks of field_toggle and row_toggle
\* cover it and no other bit, and the rows were initialised up to the last frame.
MasksExact == (\E t \in Threads : pc[t] \in Toggles) => MasksAgree

\* Threads are interchangeable (no run that uses this checks liveness).
Symmetry == Permutations(Threads)

\* The thread that the liveness run watches; the others may stop for ever between
\* any two of their atomic accesses.
Watched == CHOOSE t \in Threads : TRUE

\* The others change an entry or a row again and again. Only then can an attempt
\* of an atom_update fail again and again: between its load and its
\* compare-and-swap another access has succeeded.
OthersInterfere == []<><<\E t \in Threads \ {Watched} : Step(t)>>_memory

OthersReturn == []<><<\E t \in Threads \ {Watched} : Return(t)>>_vars

\* Scheduling the watched thread takes it forward as long as its atom_updates do
\* not fail for ever.
ContendedSpec == Spec /\ (WF_vars(Step(Watched)) \/ OthersInterfere)

\* No call waits for a thread that has stopped (split_huge gives up), and when an
\* atom_update of child_dec, child_inc, row_toggle or first_zeros_aligned has to be
\* tried for ever, calls of other threads return for ever: the calls whose
\* accesses make it fail do not merely undo one another's work.
SomeCallReturns == []<>(pc[Watched] = "idle" \/ Aborted) \/ OthersReturn
=============================================================================
