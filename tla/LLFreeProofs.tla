---------------------------- MODULE LLFreeProofs ----------------------------
(***************************************************************************)
(* The two levels together, for every geometry, every mix of classes, slots *)
(* and policies and any number of threads and crashes: the calls of Upper  *)
(* use Lower as its own specification allows, so what is proved of Lower   *)
(* alone holds in the whole allocator.  Then the invariant that links the  *)
(* calls of both levels, and the steps in entries and slots that keep it.  *)
(***************************************************************************)
EXTENDS LLFree, Tally, TLAPS

LC == INSTANCE LowerCounted WITH
    AtSizes <- Sizes, pc <- lpc, call <- lcall, loc <- lloc, held <- lheld

UC == INSTANCE UpperProofs WITH
    HUGE <- CHILD_SIZE, Careful <- TRUE, Full <- FreeAll, MaxRestarts <- MaxCrashes,
    room <- Room, held <- Held, offline <- {}, restarts <- crashes, trees <- Promised

-----------------------------------------------------------------------------
(* The assumptions of the parts. *)

LEMMA Geometrical == LC!GeometryAssumption
BY GeometryAssumption DEF LC!GeometryAssumption

\* A tree is at least one huge page, and a huge page at least one row.
LEMMA SizesNat ==
    /\ CHILD_SIZE \in Nat \ {0} /\ TREE_SIZE \in Nat \ {0}
    /\ CHILD_SIZE <= TREE_SIZE
<1>1. CHILD_SIZE \in Nat \ {0}
  BY GeometryAssumption, SMT DEF CHILD_SIZE
<1>2. CHILD_SIZE * TREE_CHILDREN \in Nat \ {0} /\ CHILD_SIZE <= CHILD_SIZE * TREE_CHILDREN
  <2> DEFINE s == CHILD_SIZE
  <2>1. s \in Nat \ {0}
    BY <1>1
  <2> HIDE DEF s
  <2>2. s * TREE_CHILDREN \in Nat \ {0} /\ s <= s * TREE_CHILDREN
    BY <2>1, GeometryAssumption, SMT
  <2> QED BY <2>2 DEF s
<1> QED BY <1>1, <1>2 DEF TREE_SIZE

LEMMA LowerParts == LC!GeometryAssumption /\ LC!LowerAssumption
BY Geometrical, LLFreeAssumption DEF LC!LowerAssumption, LC!Frames, Frames, LC!IsSize, IsSize, LC!CHILD_SIZE, CHILD_SIZE

LEMMA UpperParts == UC!TreeAssumption /\ UC!UpperAssumption /\ UC!CallsAssumption
<1>1. UC!TreeAssumption
  BY LLFreeAssumption, SizesNat DEF UC!TreeAssumption, UC!PolicyTypes, U!PolicyTypes, UC!PERFECT, U!PERFECT
<1>2. UC!UpperAssumption
  BY LLFreeAssumption, GeometryAssumption, SizesNat DEF UC!UpperAssumption
<1>3. UC!CallsAssumption
  BY LLFreeAssumption DEF UC!CallsAssumption, UC!Requests, U!Requests, UC!NoCall, U!NoCall, UC!NoLocal, U!NoLocal, UC!Trees, U!Trees, UC!TreeCount, U!TreeCount
<1> QED BY <1>1, <1>2, <1>3
-----------------------------------------------------------------------------
(* Lower as a part of this module and as the module that the proofs are about *)
(* are the same, definition by definition.                                    *)

USE DEF L!At, LC!At, L!Recovering, LC!Recovering, L!ChildCount, LC!ChildCount, L!DivCeil,
    LC!DivCeil, L!CHILD_SIZE, LC!CHILD_SIZE, L!Aborted, LC!Aborted, L!CanDec, LC!CanDec, L!Cur,
    LC!Cur, L!Visit, LC!Visit, L!ChildOf, LC!ChildOf, L!AddFree, LC!AddFree, L!Goto, LC!Goto,
    L!NextChild, LC!NextChild, L!SetLoc, LC!SetLoc, L!LoopAt, LC!LoopAt, L!NoLoc, LC!NoLoc,
    L!clients, LC!clients, L!system, LC!system, L!CanInc, LC!CanInc, L!RowOf, LC!RowOf, L!FreeInRow,
    LC!FreeInRow, L!Row, LC!Row, L!Block, LC!Block, L!Part, LC!Part, L!GroupBase, LC!GroupBase,
    L!Parts, LC!Parts, L!ChildBase, LC!ChildBase, L!CanToggle, LC!CanToggle, L!Toggled, LC!Toggled,
    L!NextGroup, LC!NextGroup, L!UndoRow, LC!UndoRow, L!Target, LC!Target, L!Expected, LC!Expected,
    L!OwnAfter, LC!OwnAfter, L!AfterToggle, LC!AfterToggle, L!AfterFailure, LC!AfterFailure,
    L!UndoOf, LC!UndoOf, L!memory, LC!memory, L!HugeChild, LC!HugeChild, L!Child, LC!Child,
    L!SplitChild, LC!SplitChild, L!HBase, LC!HBase, L!HNum, LC!HNum, L!Before, LC!Before,
    L!FreeChild, LC!FreeChild, L!After, LC!After, L!ChildFrames, LC!ChildFrames, L!NextHuge,
    LC!NextHuge, L!UndoChild, LC!UndoChild, L!Done, LC!Done, L!Returned, LC!Returned, L!InRange,
    LC!InRange, L!NoCall, LC!NoCall, L!MayFree, LC!MayFree, L!InitBits, LC!InitBits, L!AllFrames,
    LC!AllFrames, L!Frames, LC!Frames, L!Children, LC!Children, L!ChildSlots, LC!ChildSlots,
    L!InitChild, LC!InitChild

LEMMA SameChildDec == ASSUME NEW t, L!ChildDec(t) PROVE LC!ChildDec(t)
BY PTL DEF L!ChildDec, LC!ChildDec

LEMMA SameUndoDec == ASSUME NEW t, L!UndoDec(t) PROVE LC!UndoDec(t)
BY PTL DEF L!UndoDec, LC!UndoDec

LEMMA SameSearchRow == ASSUME NEW t, L!SearchRow(t) PROVE LC!SearchRow(t)
BY PTL DEF L!SearchRow, LC!SearchRow

LEMMA SameSetRow == ASSUME NEW t, L!SetRow(t) PROVE LC!SetRow(t)
BY PTL DEF L!SetRow, LC!SetRow

LEMMA SameUndoSetRow == ASSUME NEW t, L!UndoSetRow(t) PROVE LC!UndoSetRow(t)
BY PTL DEF L!UndoSetRow, LC!UndoSetRow

LEMMA SameLoad == ASSUME NEW t, L!Load(t) PROVE LC!Load(t)
BY PTL DEF L!Load, LC!Load

LEMMA SameSplitCas == ASSUME NEW t, L!SplitCas(t) PROVE LC!SplitCas(t)
BY PTL DEF L!SplitCas, LC!SplitCas

LEMMA SameSplitWait == ASSUME NEW t, L!SplitWait(t) PROVE LC!SplitWait(t)
BY PTL DEF L!SplitWait, LC!SplitWait

LEMMA SameChildInc == ASSUME NEW t, L!ChildInc(t) PROVE LC!ChildInc(t)
BY PTL DEF L!ChildInc, LC!ChildInc

LEMMA SameHugeCas == ASSUME NEW t, L!HugeCas(t) PROVE LC!HugeCas(t)
BY PTL DEF L!HugeCas, LC!HugeCas

LEMMA SameUndoHuge == ASSUME NEW t, L!UndoHuge(t) PROVE LC!UndoHuge(t)
BY PTL DEF L!UndoHuge, LC!UndoHuge

LEMMA SameReturn == ASSUME NEW t, L!Return(t) PROVE LC!Return(t)
BY PTL DEF L!Return, LC!Return

LEMMA SameToggle == ASSUME NEW t, NEW label, L!Toggle(t, label) PROVE LC!Toggle(t, label)
BY PTL DEF L!Toggle, LC!Toggle

LEMMA SameUndoToggle == ASSUME NEW t, NEW label, L!UndoToggle(t, label) PROVE LC!UndoToggle(t, label)
BY PTL DEF L!UndoToggle, LC!UndoToggle

LEMMA SameGet == ASSUME NEW t, NEW f, NEW n, L!Get(t, f, n) PROVE LC!Get(t, f, n)
BY PTL DEF L!Get, LC!Get

LEMMA SameGetAt == ASSUME NEW t, NEW f, NEW n, L!GetAt(t, f, n) PROVE LC!GetAt(t, f, n)
BY PTL DEF L!GetAt, LC!GetAt

LEMMA SamePut == ASSUME NEW t, NEW f, NEW n, L!Put(t, f, n) PROVE LC!Put(t, f, n)
BY PTL DEF L!Put, LC!Put

LEMMA SameInit == ASSUME L!Init PROVE LC!Init
BY PTL DEF L!Init, LC!Init

LEMMA SameCrash == ASSUME L!Crash PROVE LC!Crash
BY PTL DEF L!Crash, LC!Crash

LEMMA SameRecoverChild == ASSUME L!RecoverChild PROVE LC!RecoverChild
BY PTL DEF L!RecoverChild, LC!RecoverChild, L!Cardinality, LC!Cardinality

HIDE DEF L!At, LC!At, L!Recovering, LC!Recovering, L!ChildCount, LC!ChildCount, L!DivCeil,
    LC!DivCeil, L!CHILD_SIZE, LC!CHILD_SIZE, L!Aborted, LC!Aborted, L!CanDec, LC!CanDec, L!Cur,
    LC!Cur, L!Visit, LC!Visit, L!ChildOf, LC!ChildOf, L!AddFree, LC!AddFree, L!Goto, LC!Goto,
    L!NextChild, LC!NextChild, L!SetLoc, LC!SetLoc, L!LoopAt, LC!LoopAt, L!NoLoc, LC!NoLoc,
    L!clients, LC!clients, L!system, LC!system, L!CanInc, LC!CanInc, L!RowOf, LC!RowOf, L!FreeInRow,
    LC!FreeInRow, L!Row, LC!Row, L!Block, LC!Block, L!Part, LC!Part, L!GroupBase, LC!GroupBase,
    L!Parts, LC!Parts, L!ChildBase, LC!ChildBase, L!CanToggle, LC!CanToggle, L!Toggled, LC!Toggled,
    L!NextGroup, LC!NextGroup, L!UndoRow, LC!UndoRow, L!Target, LC!Target, L!Expected, LC!Expected,
    L!OwnAfter, LC!OwnAfter, L!AfterToggle, LC!AfterToggle, L!AfterFailure, LC!AfterFailure,
    L!UndoOf, LC!UndoOf, L!memory, LC!memory, L!HugeChild, LC!HugeChild, L!Child, LC!Child,
    L!SplitChild, LC!SplitChild, L!HBase, LC!HBase, L!HNum, LC!HNum, L!Before, LC!Before,
    L!FreeChild, LC!FreeChild, L!After, LC!After, L!ChildFrames, LC!ChildFrames, L!NextHuge,
    LC!NextHuge, L!UndoChild, LC!UndoChild, L!Done, LC!Done, L!Returned, LC!Returned, L!InRange,
    LC!InRange, L!NoCall, LC!NoCall, L!MayFree, LC!MayFree, L!InitBits, LC!InitBits, L!AllFrames,
    LC!AllFrames, L!Frames, LC!Frames, L!Children, LC!Children, L!ChildSlots, LC!ChildSlots,
    L!InitChild, LC!InitChild


-----------------------------------------------------------------------------
(* What Upper asks of Lower. *)

\* A call in progress was made by a client, and the frame it names is managed.
Asked ==
    /\ DOMAIN pc = Threads /\ DOMAIN call = Threads /\ DOMAIN target = Threads
    /\ \A t \in Threads : pc[t] # "idle" =>
          call[t] \in Calls /\ (call[t].op = "get_at" => target[t] \in Frames)

\* A step of t changes no other thread's place.
Goes(t) == pc' = pc \/ \E l : pc' = [pc EXCEPT ![t] = l]

LEMMA GoesOn ==
    ASSUME NEW t
    PROVE  /\ \A l : U!Goto(t, l) => Goes(t)
           /\ UNCHANGED pc => Goes(t)
BY DEF U!Goto, Goes

LEMMA SearchGoes ==
    ASSUME NEW t
    PROVE  /\ \A s, p : U!SearchFrom(t, s, p) => Goes(t)
           /\ \A s : U!LocalMiss(t, s) => Goes(t)
           /\ U!StealLocal(t) => Goes(t)
           /\ U!DemoteLocal(t) => Goes(t)
           /\ U!AfterFailure(t) => Goes(t)
           /\ \A l, i : U!Try(t, l, i) => Goes(t)
           /\ \A e : U!StealFrom(t, e) => Goes(t)
<1>1. \A s, p : U!SearchFrom(t, s, p) => Goes(t)
  BY GoesOn DEF U!SearchFrom
<1>2. \A s : U!LocalMiss(t, s) => Goes(t)
  BY GoesOn, <1>1 DEF U!LocalMiss
<1>3. U!StealLocal(t) => Goes(t)
  BY GoesOn DEF U!StealLocal
<1>4. U!DemoteLocal(t) => Goes(t)
  BY GoesOn DEF U!DemoteLocal
<1>5. U!AfterFailure(t) => Goes(t)
  BY GoesOn, <1>2, <1>4 DEF U!AfterFailure
<1>6. \A l, i : U!Try(t, l, i) => Goes(t)
  BY GoesOn DEF U!Try
<1>7. \A e : U!StealFrom(t, e) => Goes(t)
  BY GoesOn, <1>3 DEF U!StealFrom
<1> QED BY <1>1, <1>2, <1>3, <1>4, <1>5, <1>6, <1>7

LEMMA UpperGoes ==
    ASSUME NEW t, U!Step(t), pc[t] \notin {"lower", "put"} \cup U!Done
    PROVE  Goes(t)
<1>1. CASE U!LocalGet(t)
  BY <1>1, GoesOn, SearchGoes DEF U!LocalGet
<1>2. CASE U!SyncSteal(t)
  BY <1>2, GoesOn, SearchGoes DEF U!SyncSteal
<1>3. \A label, l, next : U!PutInSlot(t, label, l, next) => Goes(t)
  BY GoesOn DEF U!PutInSlot
<1>4. CASE U!SyncPut(t)
  BY <1>4, <1>3 DEF U!SyncPut
<1>5. CASE U!PutSlot(t)
  BY <1>5, <1>3 DEF U!PutSlot
<1>6. CASE U!GiveBack(t)
  BY <1>6, GoesOn, SearchGoes DEF U!GiveBack
<1>7. CASE U!Scan(t)
  BY <1>7, GoesOn, SearchGoes DEF U!Scan
<1>8. CASE U!Pick(t)
  BY <1>8, GoesOn, SearchGoes DEF U!Pick
<1>9. CASE U!Reserve(t)
  BY <1>9, GoesOn DEF U!Reserve
<1>10. CASE U!StealLoad(t)
  BY <1>10, SearchGoes DEF U!StealLoad
<1>11. CASE U!StealCas(t)
  BY <1>11, GoesOn, SearchGoes DEF U!StealCas
<1>12. CASE U!Swap(t)
  BY <1>12, GoesOn DEF U!Swap
<1>13. CASE U!Unreserve(t)
  BY <1>13, GoesOn DEF U!Unreserve
<1>14. CASE U!DrainSlot(t)
  BY <1>14, GoesOn DEF U!DrainSlot
<1>15. CASE U!StealSlot(t)
  BY <1>15, GoesOn, SearchGoes DEF U!StealSlot, U!SkipSlot
<1>16. \A r : U!TakeTree(t, r) => Goes(t)
  BY GoesOn DEF U!TakeTree
<1>17. CASE U!TakeSlot(t)
  BY <1>17, <1>16, GoesOn DEF U!TakeSlot, U!SkipSlot
<1>18. CASE U!DemoteSwap(t)
  BY <1>18, GoesOn DEF U!DemoteSwap
<1>19. CASE U!ChangeLoad(t) \/ U!ChangeFetch(t)
  BY <1>19, GoesOn DEF U!ChangeLoad, U!ChangeFetch
<1>20. CASE U!ChangeCas(t)
  BY <1>20, GoesOn DEF U!ChangeCas, U!ChangeNext
<1>21. CASE U!Lower(t) \/ U!LowerPut(t) \/ U!Return(t)
  BY <1>21 DEF U!Lower, U!LowerPut, U!Return, U!At
<1> QED
  BY <1>1, <1>2, <1>4, <1>5, <1>6, <1>7, <1>8, <1>9, <1>10, <1>11, <1>12, <1>13, <1>14, <1>15,
     <1>17, <1>18, <1>19, <1>20, <1>21 DEF U!Step

LEMMA AskedGoes ==
    ASSUME Asked, NEW t \in Threads, pc[t] # "idle", Goes(t), UNCHANGED <<call, target>>
    PROVE  Asked'
BY DEF Asked, Goes

LEMMA SizeAsked ==
    ASSUME Asked, NEW t \in Threads, pc[t] # "idle"
    PROVE  call[t].n \in Sizes
BY DEF Asked, Sizes

\* The whole of Lower.
LEMMA LowerSteps ==
    ASSUME NEW t \in Threads, L!Step(t)
    PROVE  LC!Step(t) /\ LC!Next
<1>1. LC!Step(t)
  <2>1. CASE L!ChildDec(t) \/ L!UndoDec(t) \/ L!SearchRow(t) \/ L!SetRow(t) \/ L!UndoSetRow(t)
    BY <2>1, SameChildDec, SameUndoDec, SameSearchRow, SameSetRow, SameUndoSetRow DEF LC!Step
  <2>2. CASE \E label \in L!Toggles : L!Toggle(t, label) \/ L!UndoToggle(t, label)
    BY <2>2, SameToggle, SameUndoToggle DEF LC!Step, LC!Toggles, L!Toggles
  <2>3. CASE L!Load(t) \/ L!SplitCas(t) \/ L!SplitWait(t) \/ L!ChildInc(t)
    BY <2>3, SameLoad, SameSplitCas, SameSplitWait, SameChildInc DEF LC!Step
  <2>4. CASE L!HugeCas(t) \/ L!UndoHuge(t) \/ L!Return(t)
    BY <2>4, SameHugeCas, SameUndoHuge, SameReturn DEF LC!Step
  <2> QED BY <2>1, <2>2, <2>3, <2>4 DEF L!Step
<1> QED BY <1>1 DEF LC!Next

\* Every call of lower_get, lower_get_at and lower_put is one that Lower expects.
LEMMA LowerAsked ==
    ASSUME Asked, [Next]_vars
    PROVE  Asked' /\ [LC!Next]_LC!vars
<1> USE DEF LC!vars, lower
<1>1. CASE UNCHANGED vars
  BY <1>1 DEF vars, upper, Asked, LC!memory, LC!clients, LC!system
<1>2. ASSUME NEW t \in Threads, NEW r \in Calls, Start(t, r)
      PROVE  Asked' /\ UNCHANGED lower
  <2>1. /\ call' = [call EXCEPT ![t] = r]
        /\ \E l : pc' = [pc EXCEPT ![t] = l]
    <3>1. U!Begin(t, r)
      BY <1>2 DEF Start, U!Get, U!GetAt, U!Drain, U!Put
    <3>2. CASE U!Get(t, r)
      BY <3>1, <3>2 DEF U!Begin, U!Get, U!Goto, U!UseLocal, U!SearchFrom
    <3>3. CASE U!GetAt(t, r)
      BY <3>1, <3>3 DEF U!Begin, U!GetAt, U!Goto, U!UseLocal
    <3>4. CASE U!Put(t, r) \/ U!Drain(t, r)
      BY <3>1, <3>4 DEF U!Begin, U!Put, U!Drain, U!Goto
    <3> QED BY <1>2, <3>2, <3>3, <3>4 DEF Start
  <2>2. IF r.op = "get_at" THEN \E f \in Frames : target' = [target EXCEPT ![t] = f]
        ELSE target' = target
    BY <1>2 DEF Start, Aim, TreeFrames
  <2>3. Asked'
    BY <2>1, <2>2 DEF Asked
  <2> QED BY <1>2, <2>3 DEF Start
<1>3. ASSUME NEW t \in Threads, NEW r \in Calls, Put(t, r)
      PROVE  Asked' /\ LC!Next
  <2>1. PICK f \in TreeFrames(r.tree) : L!Put(t, f, r.n) /\ Aim(t, f)
    BY <1>3 DEF Put
  <2>2. f \in Frames /\ r.n \in Sizes
    BY DEF TreeFrames, Sizes
  <2>3. LC!Put(t, f, r.n)
    BY <2>1, SamePut
  <2>4. LC!Next
    BY <2>2, <2>3 DEF LC!Next, LC!Begin, LC!Frames, Frames
  <2>5. r.op # "get_at"
    BY <1>3 DEF Put
  <2>6. Asked'
    BY <1>3, <2>1, <2>5 DEF Asked, Put, Aim, U!Goto
  <2> QED BY <2>4, <2>6
<1>4. ASSUME NEW t \in Threads, UpperStep(t)
      PROVE  Asked' /\ UNCHANGED lower
  BY <1>4, UpperGoes, AskedGoes DEF UpperStep
<1>5. ASSUME NEW t \in Threads, LowerGet(t)
      PROVE  Asked' /\ LC!Next
  <2>1. Asked'
    BY <1>5 DEF LowerGet, upper, Asked
  <2>2. call[t].n \in Sizes /\ (call[t].op = "get_at" => target[t] \in Frames)
    BY <1>5, SizeAsked DEF LowerGet, At, Asked
  <2>3. CASE call[t].op = "get_at"
    <3>1. LC!GetAt(t, target[t], call[t].n)
      BY <1>5, <2>3, SameGetAt DEF LowerGet
    <3> QED BY <2>1, <2>2, <2>3, <3>1 DEF LC!Next, LC!Begin, LC!Frames, Frames
  <2>4. CASE call[t].op # "get_at"
    <3>1. PICK start \in Starts : L!Get(t, start, call[t].n)
      BY <1>5, <2>4 DEF LowerGet
    <3>2. LC!Get(t, start, call[t].n)
      BY <3>1, SameGet
    <3> QED BY <2>1, <2>2, <3>2 DEF LC!Next, LC!Begin
  <2> QED BY <2>3, <2>4
<1>6. ASSUME NEW t \in Threads, LowerStep(t)
      PROVE  Asked' /\ LC!Next
  BY <1>6, LowerSteps DEF LowerStep, upper, Asked
<1>7. ASSUME NEW t \in Threads, GetSucceeds(t) \/ PutRefused(t)
      PROVE  Asked' /\ UNCHANGED lower
  <2>1. pc[t] # "idle" /\ Goes(t) /\ UNCHANGED <<call, target>>
    BY <1>7, GoesOn DEF GetSucceeds, PutRefused, At
  <2> QED BY <1>7, <2>1, AskedGoes DEF GetSucceeds, PutRefused
<1>8. ASSUME NEW t \in Threads, GetRefused(t) \/ PutSucceeds(t)
      PROVE  Asked' /\ LC!Next
  <2>1. pc[t] # "idle" /\ Goes(t) /\ UNCHANGED <<call, target>>
    BY <1>8, GoesOn DEF GetRefused, PutSucceeds, At
  <2>2. L!Step(t)
    BY <1>8 DEF GetRefused, PutSucceeds, L!Step
  <2> QED BY <2>1, <2>2, AskedGoes, LowerSteps
<1>9. ASSUME NEW t \in Threads, Return(t)
      PROVE  Asked' /\ [LC!Next]_LC!vars
  <2>1. Asked'
    BY <1>9 DEF Return, Asked, U!Goto, Aim
  <2>2. CASE lpc[t] = "idle"
    BY <1>9, <2>1, <2>2 DEF Return, LC!memory, LC!clients, LC!system
  <2>3. CASE lpc[t] # "idle"
    <3>1. L!Step(t)
      BY <1>9, <2>3 DEF Return, L!Step
    <3> QED BY <2>1, <3>1, LowerSteps
  <2> QED BY <2>2, <2>3
<1>10. ASSUME Crash PROVE Asked' /\ LC!Next
  <2>1. LC!Crash
    BY <1>10, SameCrash DEF Crash
  <2>2. Asked'
    BY <1>10 DEF Crash, Asked
  <2> QED BY <2>1, <2>2 DEF LC!Next
<1>11. ASSUME Recover PROVE Asked' /\ LC!Next
  <2>1. LC!RecoverChild
    BY <1>11, SameRecoverChild DEF Recover
  <2>2. Asked'
    BY <1>11 DEF Recover, upper, Asked
  <2> QED BY <2>1, <2>2 DEF LC!Next
<1>12. ASSUME Boot PROVE Asked' /\ UNCHANGED lower
  BY <1>12 DEF Boot, Asked
<1>13. UNCHANGED lower => [LC!Next]_LC!vars
  BY DEF LC!memory, LC!clients, LC!system
<1> QED
  BY <1>1, <1>2, <1>3, <1>4, <1>5, <1>6, <1>7, <1>8, <1>9, <1>10, <1>11, <1>12, <1>13 DEF Next

\* Every step of every call leaves rows, children and owners as a step of Lower would, so
\* whatever holds of every behaviour of Lower holds of the lower half of the allocator.
THEOREM UsesLower == Spec => LC!Spec
<1>1. Init => Asked /\ LC!Init
  <2> SUFFICES ASSUME Init PROVE Asked /\ LC!Init
    OBVIOUS
  <2>1. LC!Init
    BY SameInit DEF Init
  <2>2. Asked
    BY DEF Init, Asked
  <2> QED BY <2>1, <2>2
<1>2. Asked /\ [Next]_vars => Asked' /\ [LC!Next]_LC!vars
  BY LowerAsked
<1> QED BY <1>1, <1>2, PTL DEF Spec, LC!Spec

\* lower_get never hands out a frame that a client, or another call, has, whatever the
\* upper allocator asks for and however its calls are interleaved.
THEOREM FramesOwnedOnce ==
    ASSUME LC!OneHuge
    PROVE  Spec => []L!Exclusive
<1>1. LC!Spec => []LC!Exclusive
  BY LowerParts, LC!OwnersExclusive
<1>2. LC!Exclusive <=> L!Exclusive
  BY DEF LC!Exclusive, L!Exclusive
<1> QED BY UsesLower, <1>1, <1>2, PTL

\* The metadata marks exactly the frames that somebody has, and no assertion of the lower
\* allocator fails under the upper one.
THEOREM FramesMarked ==
    ASSUME LC!Modest
    PROVE  Spec => [](L!Accounted /\ L!NoAbort)
<1>1. LC!Spec => []LC!Accounted
  BY LowerParts, LC!FramesAccounted
<1>2. LC!Spec => []LC!NoAbort
  BY LowerParts, LC!LowerNeverAborts
<1>3. LC!Accounted <=> L!Accounted
  BY DEF LC!Accounted, L!Accounted, LC!Allocated, L!Allocated, LC!Frames, L!Frames, LC!ChildOf, L!ChildOf,
         LC!CHILD_SIZE, L!CHILD_SIZE
<1>4. LC!NoAbort <=> L!NoAbort
  BY DEF LC!NoAbort, L!NoAbort, LC!Aborted, L!Aborted
<1> QED BY UsesLower, <1>1, <1>2, <1>3, <1>4, PTL

-----------------------------------------------------------------------------
(* Trees of frames. *)

\* Division rounds down.
LEMMA Divided ==
    ASSUME NEW m \in Nat \ {0}, NEW f \in Int
    PROVE  f \div m \in Int /\ m * (f \div m) <= f /\ f < m * (f \div m) + m
OBVIOUS

LEMMA Quotients ==
    ASSUME NEW m \in Nat \ {0}, NEW f \in Int, NEW c \in Int
    PROVE  (f \div m = c) <=> (m * c <= f /\ f < m * c + m)
<1>1. f \div m \in Int /\ m * (f \div m) <= f /\ f < m * (f \div m) + m
  BY Divided
<1>2. ASSUME NEW b \in Int, NEW d \in Int, b < d PROVE m * b + m <= m * d
  <2>1. m * (b + 1) <= m * d
    BY <1>2
  <2> QED BY <1>2, <2>1
<1> QED BY <1>1, <1>2

\* The tree of a frame is the one of its child.
LEMMA TreeOfChild ==
    ASSUME NEW f \in Int
    PROVE  TreeOf(f) = ChildOf(f) \div TREE_CHILDREN /\ ChildOf(f) \in Int /\ TreeOf(f) \in Int
<1> DEFINE s == CHILD_SIZE
           m == TREE_CHILDREN
           c == f \div s
           d == c \div m
<1>1. s \in Nat \ {0} /\ m \in Nat \ {0} /\ TREE_SIZE = s * m /\ TREE_SIZE \in Nat \ {0}
  BY SizesNat, GeometryAssumption DEF TREE_SIZE
<1> HIDE DEF s, m
<1>2. c \in Int /\ s * c <= f /\ f < s * c + s
  BY <1>1, Divided
<1>3. d \in Int /\ m * d <= c /\ c < m * d + m
  BY <1>1, <1>2, Divided
<1> HIDE DEF c, d
<1>4. (s * m) * d <= s * c /\ s * c + s <= (s * m) * d + s * m
  <2>1. s * (m * d) <= s * c /\ s * (c + 1) <= s * (m * d + m)
    BY <1>1, <1>2, <1>3
  <2>2. s * (m * d) = (s * m) * d /\ s * (c + 1) = s * c + s /\ s * (m * d + m) = (s * m) * d + s * m
    BY <1>1, <1>2, <1>3
  <2> QED BY <2>1, <2>2
<1>5. (s * m) * d <= f /\ f < (s * m) * d + s * m
  <2>1. s * m \in Int /\ (s * m) * d \in Int /\ s * c \in Int
    BY <1>1, <1>2, <1>3
  <2> QED BY <1>1, <1>2, <1>4, <2>1
<1>6. f \div TREE_SIZE = d
  BY <1>1, <1>3, <1>5, Quotients
<1> QED BY <1>2, <1>3, <1>6 DEF TreeOf, ChildOf, c, d, s, m

LEMMA TreeFramesAre ==
    ASSUME NEW i \in Int
    PROVE  TreeFrames(i) = {f \in Frames : TREE_SIZE * i <= f /\ f < TREE_SIZE * i + TREE_SIZE}
BY Quotients, SizesNat DEF TreeFrames, TreeOf, Frames

LEMMA TreesAre == Trees = U!Trees /\ Trees = UC!Trees /\ Trees \subseteq Nat
<1> DEFINE n == TREE_SIZE
           top == FRAMES + n - 1
           d == top \div n
<1>1. n \in Nat \ {0} /\ FRAMES \in Nat \ {0}
  BY SizesNat, GeometryAssumption
<1> HIDE DEF n
<1>2. d \in Int /\ n * d <= top /\ top < n * d + n
  BY <1>1, Divided
<1> HIDE DEF d
<1>3. ASSUME NEW f \in Frames PROVE f \div n \in 0 .. d - 1
  <2> DEFINE q == f \div n
  <2>1. q \in Int /\ n * q <= f /\ f < n * q + n /\ f \in Nat /\ f <= FRAMES - 1
    BY <1>1, Divided DEF Frames
  <2> HIDE DEF q
  <2>2. 0 <= q
    <3>1. ASSUME q <= -1 PROVE n * q + n <= 0
      BY <1>1, <2>1, <3>1
    <3> QED BY <2>1, <3>1, <1>1
  <2>3. q < d
    <3>1. ASSUME d <= q PROVE n * d <= n * q
      BY <1>1, <1>2, <2>1, <3>1
    <3>2. n * d \in Int /\ n * q \in Int
      BY <1>1, <1>2, <2>1
    <3> QED BY <1>1, <1>2, <2>1, <3>1, <3>2
  <2>4. q \in 0 .. d - 1
    BY <1>2, <2>1, <2>2, <2>3
  <2> QED BY <2>4 DEF q
<1>4. ASSUME NEW i \in 0 .. d - 1 PROVE n * i \in Frames /\ (n * i) \div n = i
  <2>1. n * i \in Int /\ 0 <= n * i /\ n * i <= n * (d - 1) /\ n * (d - 1) = n * d - n
    BY <1>1, <1>2
  <2>2. n * i \in Frames
    BY <1>1, <1>2, <2>1 DEF Frames
  <2>3. (n * i) \div n = i
    BY <1>1, <1>2, <2>1, Quotients
  <2> QED BY <2>2, <2>3
<1>5. Trees = 0 .. d - 1
  BY <1>3, <1>4 DEF Trees, TreeOf, n
<1> QED BY <1>2, <1>5 DEF U!Trees, UC!Trees, U!TreeCount, UC!TreeCount, d, n

\* A tree has the frames that the upper allocator thinks it has.
LEMMA TreeSized ==
    ASSUME NEW i \in Trees
    PROVE  /\ IsFiniteSet(TreeFrames(i)) /\ Cardinality(TreeFrames(i)) = U!FramesOf(i)
           /\ U!FramesOf(i) = UC!FramesOf(i) /\ U!FramesOf(i) \in 1 .. TREE_SIZE
<1> DEFINE n == TREE_SIZE
           b == n * i
           m == IF FRAMES - b < n THEN FRAMES - b ELSE n
<1>1. n \in Nat \ {0} /\ FRAMES \in Nat \ {0} /\ i \in Nat
  BY SizesNat, GeometryAssumption, TreesAre
<1>2. PICK f \in Frames : f \div n = i
  BY DEF Trees, TreeOf
<1> HIDE DEF n
<1>3. b \in Nat /\ i * n = b
  BY <1>1
<1>4. b <= f /\ f < b + n /\ f <= FRAMES - 1 /\ f \in Nat
  BY <1>1, <1>2, Divided DEF Frames
<1>5. TreeFrames(i) = {x \in Frames : b <= x /\ x < b + n}
  BY <1>1, TreeFramesAre DEF n
<1> HIDE DEF b
<1>6. m \in 1 .. n /\ TreeFrames(i) = b .. b + m - 1
  BY <1>1, <1>3, <1>4, <1>5 DEF Frames
<1>7. U!FramesOf(i) = m /\ UC!FramesOf(i) = m
  BY <1>3 DEF U!FramesOf, UC!FramesOf, n
<1> HIDE DEF m
<1>8. IsFiniteSet(b .. b + m - 1) /\ Cardinality(b .. b + m - 1) = m
  BY <1>1, <1>3, <1>6, FS_Interval
<1> QED BY <1>6, <1>7, <1>8 DEF n
-----------------------------------------------------------------------------
(* Upper as a part of this module, as the module that the proofs are about and as the *)
(* specification that is to be implemented.  The last two read the entries as the     *)
(* clients see them: between a crash and the end of llfree_init they are those that   *)
(* recovery will find.                                                                *)

LEMMA SameInsert == \A b, p, i : U!Insert(b, p, i) = UC!Insert(b, p, i)
BY ZenonT(60) DEF U!Insert, UC!Insert, U!Cardinality, UC!Cardinality

LEMMA SameRate == \A t, e : U!Rate(t, e) = UC!Rate(t, e)
BY Zenon DEF U!Rate, UC!Rate, U!PolicyResult, UC!PolicyResult, U!PERFECT, UC!PERFECT

LEMMA SameCardinality ==
    \A S : UC!Cardinality(S) = Cardinality(S) /\ (UC!IsFiniteSet(S) <=> IsFiniteSet(S))
<1>1. \A S : UC!Cardinality(S) = Cardinality(S)
  BY Zenon DEF UC!Cardinality, Cardinality
<1>2. \A S : UC!IsFiniteSet(S) <=> IsFiniteSet(S)
  BY DEF UC!IsFiniteSet, IsFiniteSet
<1> QED BY <1>1, <1>2

USE DEF U!At, UC!At, U!Aborted, UC!Aborted, U!Goto, UC!Goto, U!SetLoc, UC!SetLoc, U!Entry, UC!Entry,
    U!NoLoc, UC!NoLoc, U!Reservation, UC!Reservation, U!Hold, UC!Hold, U!Nothing, UC!Nothing,
    U!counters, UC!counters, U!Slots, UC!Slots, U!SearchFrom, UC!SearchFrom, U!AnswerTo,
    UC!AnswerTo, U!NoLocal, UC!NoLocal, U!SlotOf, UC!SlotOf, U!Begin, UC!Begin, U!Fits, UC!Fits,
    U!LocalMiss, UC!LocalMiss, U!Aligned, UC!Aligned, U!TreeCount, UC!TreeCount, U!StealLocal,
    UC!StealLocal, U!StealSlots, UC!StealSlots, U!Replaced, UC!Replaced, U!IsFirst, UC!IsFirst,
    U!Rank, UC!Rank, U!Valid, UC!Valid, U!FramesOf, UC!FramesOf

LEMMA SameLocalGet ==
    ASSUME NEW t, Promised = trees, Promised' = trees', U!LocalGet(t)
    PROVE  UC!LocalGet(t)
BY DEF U!LocalGet, UC!LocalGet

LEMMA SameSyncSteal ==
    ASSUME NEW t, Promised = trees, Promised' = trees', U!SyncSteal(t)
    PROVE  UC!SyncSteal(t)
BY DEF U!SyncSteal, UC!SyncSteal, U!CanSync, UC!CanSync

LEMMA SameSyncPut ==
    ASSUME NEW t, Promised = trees, Promised' = trees', U!SyncPut(t)
    PROVE  UC!SyncPut(t)
BY DEF U!SyncPut, UC!SyncPut, U!PutInSlot, UC!PutInSlot, U!IsFor, UC!IsFor

LEMMA SameTreePut ==
    /\ \A e, n : (U!CanPut(e, n) <=> UC!CanPut(e, n)) /\ U!TreePut(e, n) = UC!TreePut(e, n)
    /\ \A e, n, c : U!TreeUnreserve(e, n, c) = UC!TreeUnreserve(e, n, c)
BY DEF U!CanPut, UC!CanPut, U!TreePut, UC!TreePut, U!TreeUnreserve, UC!TreeUnreserve

LEMMA SameGiveBack ==
    ASSUME NEW t, Promised = trees, Promised' = trees', U!GiveBack(t)
    PROVE  UC!GiveBack(t)
<1>1. (U!Ignored(t) <=> UC!Ignored(t)) /\ U!EntryWith(t) = UC!EntryWith(t)
  BY SameTreePut DEF U!Ignored, UC!Ignored, U!EntryWith, UC!EntryWith
<1>2. U!AfterFailure(t) => UC!AfterFailure(t)
  BY DEF U!AfterFailure, UC!AfterFailure, U!DemoteLocal, UC!DemoteLocal, U!DemoteSlots, UC!DemoteSlots
<1> QED BY <1>1, <1>2, SameTreePut DEF U!GiveBack, UC!GiveBack

LEMMA SameScan ==
    ASSUME NEW t, Promised = trees, Promised' = trees', U!Scan(t)
    PROVE  UC!Scan(t)
BY SameInsert, SameRate DEF U!Scan, UC!Scan, U!Position, UC!Position, U!PolicyResult,
    UC!PolicyResult, U!PERFECT, UC!PERFECT, U!PastEnd, UC!PastEnd, U!SearchEnd, UC!SearchEnd,
    U!PassedOver, UC!PassedOver, U!Try, UC!Try

LEMMA SamePick ==
    ASSUME NEW t, Promised = trees, Promised' = trees', U!Pick(t)
    PROVE  UC!Pick(t)
BY DEF U!Pick, UC!Pick, U!PastEnd, UC!PastEnd, U!SearchEnd, UC!SearchEnd, U!Try, UC!Try

LEMMA SameReserve ==
    ASSUME NEW t, Promised = trees, Promised' = trees', U!Reserve(t)
    PROVE  UC!Reserve(t)
BY DEF U!Reserve, UC!Reserve, U!CanReserve, UC!CanReserve, U!Usable, UC!Usable, U!HasLocals,
    UC!HasLocals, U!CanOnlySteal, UC!CanOnlySteal

LEMMA SameStealLoad ==
    ASSUME NEW t, Promised = trees, Promised' = trees', U!StealLoad(t)
    PROVE  UC!StealLoad(t)
BY DEF U!StealLoad, UC!StealLoad, U!StealFrom, UC!StealFrom, U!CanSteal, UC!CanSteal,
    U!ClassAfterSteal, UC!ClassAfterSteal

LEMMA SameStealCas ==
    ASSUME NEW t, Promised = trees, Promised' = trees', U!StealCas(t)
    PROVE  UC!StealCas(t)
BY DEF U!StealCas, UC!StealCas, U!StillSeen, UC!StillSeen, U!StealFrom, UC!StealFrom, U!CanSteal,
    UC!CanSteal, U!ClassAfterSteal, UC!ClassAfterSteal

LEMMA SameSwap ==
    ASSUME NEW t, Promised = trees, Promised' = trees', U!Swap(t)
    PROVE  UC!Swap(t)
BY DEF U!Swap, UC!Swap

LEMMA SameUnreserve ==
    ASSUME NEW t, Promised = trees, Promised' = trees', U!Unreserve(t)
    PROVE  UC!Unreserve(t)
<1>1. (U!SpareClass(t) = UC!SpareClass(t)) /\ U!SpareEntry(t) = UC!SpareEntry(t)
  BY SameTreePut DEF U!SpareClass, UC!SpareClass, U!SpareEntry, UC!SpareEntry
<1>2. U!AfterUnreserve(t) = UC!AfterUnreserve(t)
  BY DEF U!AfterUnreserve, UC!AfterUnreserve
<1> QED BY <1>1, <1>2, SameTreePut DEF U!Unreserve, UC!Unreserve

LEMMA SameDrainSlot ==
    ASSUME NEW t, Promised = trees, Promised' = trees', U!DrainSlot(t)
    PROVE  UC!DrainSlot(t)
BY DEF U!DrainSlot, UC!DrainSlot

LEMMA SamePutSlot ==
    ASSUME NEW t, Promised = trees, Promised' = trees', U!PutSlot(t)
    PROVE  UC!PutSlot(t)
BY DEF U!PutSlot, UC!PutSlot, U!PutInSlot, UC!PutInSlot, U!IsFor, UC!IsFor

LEMMA SameStealSlot ==
    ASSUME NEW t, Promised = trees, Promised' = trees', U!StealSlot(t)
    PROVE  UC!StealSlot(t)
BY DEF U!StealSlot, UC!StealSlot, U!DemoteLocal, UC!DemoteLocal, U!DemoteSlots, UC!DemoteSlots,
    U!IsNext, UC!IsNext, U!SkipSlot, UC!SkipSlot

LEMMA SameTakeSlot ==
    ASSUME NEW t, Promised = trees, Promised' = trees', U!TakeSlot(t)
    PROVE  UC!TakeSlot(t)
BY DEF U!TakeSlot, UC!TakeSlot, U!IsNext, UC!IsNext, U!SkipSlot, UC!SkipSlot, U!TakeTree,
    UC!TakeTree

LEMMA SameDemoteSwap ==
    ASSUME NEW t, Promised = trees, Promised' = trees', U!DemoteSwap(t)
    PROVE  UC!DemoteSwap(t)
BY DEF U!DemoteSwap, UC!DemoteSwap

LEMMA SameUpperGet ==
    ASSUME NEW t, NEW r, Promised = trees, Promised' = trees', U!Get(t, r)
    PROVE  UC!Get(t, r)
BY DEF U!Get, UC!Get, U!UsesLocal, UC!UsesLocal, U!UseLocal, UC!UseLocal, U!StartOf, UC!StartOf

LEMMA SameUpperGetAt ==
    ASSUME NEW t, NEW r, Promised = trees, Promised' = trees', U!GetAt(t, r)
    PROVE  UC!GetAt(t, r)
BY DEF U!GetAt, UC!GetAt, U!UseLocal, UC!UseLocal

LEMMA SameDrain ==
    ASSUME NEW t, NEW r, Promised = trees, Promised' = trees', U!Drain(t, r)
    PROVE  UC!Drain(t, r)
BY DEF U!Drain, UC!Drain

LEMMA SameUpperPut ==
    ASSUME NEW t, NEW r, Promised = trees, Promised' = trees', U!Put(t, r)
    PROVE  UC!Put(t, r)
BY DEF U!Put, UC!Put

HIDE DEF U!At, UC!At, U!Aborted, UC!Aborted, U!Goto, UC!Goto, U!SetLoc, UC!SetLoc, U!Entry,
    UC!Entry, U!NoLoc, UC!NoLoc, U!Reservation, UC!Reservation, U!Hold, UC!Hold, U!Nothing,
    UC!Nothing, U!counters, UC!counters, U!Slots, UC!Slots, U!SearchFrom, UC!SearchFrom, U!AnswerTo,
    UC!AnswerTo, U!NoLocal, UC!NoLocal, U!SlotOf, UC!SlotOf, U!Begin, UC!Begin, U!Fits, UC!Fits,
    U!LocalMiss, UC!LocalMiss, U!Aligned, UC!Aligned, U!TreeCount, UC!TreeCount, U!StealLocal,
    UC!StealLocal, U!StealSlots, UC!StealSlots, U!Replaced, UC!Replaced, U!IsFirst, UC!IsFirst,
    U!Rank, UC!Rank, U!Valid, UC!Valid, U!FramesOf, UC!FramesOf

\* Action by action, the two are one formula.
LEMMA PromisedStart ==
    (\E t \in Threads : UC!Start(t)) =>
    (\E t \in Threads : Promise!Start(t))
BY PTL DEF UC!Start, Promise!Start, UC!Get, Promise!Get, UC!Begin, Promise!Begin, UC!At, Promise!At,
    UC!Aborted, Promise!Aborted, UC!Valid, Promise!Valid, UC!NoLocal, Promise!NoLocal, UC!FramesOf,
    Promise!FramesOf, UC!Goto, Promise!Goto, UC!UsesLocal, Promise!UsesLocal, UC!TreeCount,
    Promise!TreeCount, UC!UseLocal, Promise!UseLocal, UC!SetLoc, Promise!SetLoc, UC!NoLoc,
    Promise!NoLoc, UC!Entry, Promise!Entry, UC!StartOf, Promise!StartOf, UC!SearchFrom,
    Promise!SearchFrom, UC!counters, Promise!counters, UC!GetAt, Promise!GetAt, UC!Put, Promise!Put,
    UC!Drain, Promise!Drain, UC!Slots, Promise!Slots, UC!Change, Promise!Change, UC!MayChange,
    Promise!MayChange, UC!NoTree, Promise!NoTree, UC!Position, Promise!Position

LEMMA PromisedTake ==
    (\E t \in Threads : UC!LocalGet(t) \/ UC!SyncSteal(t) \/ UC!SyncPut(t) \/ UC!Lower(t) \/
      UC!GiveBack(t)) =>
    (\E t \in Threads : Promise!LocalGet(t) \/ Promise!SyncSteal(t) \/ Promise!SyncPut(t) \/
      Promise!Lower(t) \/ Promise!GiveBack(t))
BY PTL DEF UC!LocalGet, Promise!LocalGet, UC!SlotOf, Promise!SlotOf, UC!At, Promise!At, UC!Aborted,
    Promise!Aborted, UC!Fits, Promise!Fits, UC!Hold, Promise!Hold, UC!Reservation,
    Promise!Reservation, UC!SetLoc, Promise!SetLoc, UC!Goto, Promise!Goto, UC!LocalMiss,
    Promise!LocalMiss, UC!SearchFrom, Promise!SearchFrom, UC!NoLoc, Promise!NoLoc, UC!Entry,
    Promise!Entry, UC!Aligned, Promise!Aligned, UC!SyncSteal, Promise!SyncSteal, UC!CanSync,
    Promise!CanSync, UC!SyncPut, Promise!SyncPut, UC!PutInSlot, Promise!PutInSlot, UC!IsFor,
    Promise!IsFor, UC!Nothing, Promise!Nothing, UC!Lower, Promise!Lower, UC!MayRefuse,
    Promise!MayRefuse, UC!FramesOf, Promise!FramesOf, UC!GiveBack, Promise!GiveBack, UC!Ignored,
    Promise!Ignored, UC!CanPut, Promise!CanPut, UC!EntryWith, Promise!EntryWith, UC!TreeUnreserve,
    Promise!TreeUnreserve, UC!TreePut, Promise!TreePut, UC!AfterFailure, Promise!AfterFailure,
    UC!DemoteLocal, Promise!DemoteLocal, UC!DemoteSlots, Promise!DemoteSlots, UC!Slots,
    Promise!Slots, UC!AnswerTo, Promise!AnswerTo

LEMMA PromisedSearch ==
    (\E t \in Threads : UC!Scan(t) \/ UC!Pick(t) \/ UC!Reserve(t) \/ UC!StealLoad(t) \/
      UC!StealCas(t)) =>
    (\E t \in Threads : Promise!Scan(t) \/ Promise!Pick(t) \/ Promise!Reserve(t) \/
      Promise!StealLoad(t) \/ Promise!StealCas(t))
BY PTL DEF UC!Scan, Promise!Scan, UC!Position, Promise!Position, UC!TreeCount, Promise!TreeCount,
    UC!Rate, Promise!Rate, UC!PolicyResult, Promise!PolicyResult, UC!PERFECT, Promise!PERFECT,
    UC!At, Promise!At, UC!Aborted, Promise!Aborted, UC!PastEnd, Promise!PastEnd, UC!SearchEnd,
    Promise!SearchEnd, UC!PassedOver, Promise!PassedOver, UC!SetLoc, Promise!SetLoc, UC!Try,
    Promise!Try, UC!Goto, Promise!Goto, UC!Insert, Promise!Insert, UC!counters, Promise!counters,
    UC!Pick, Promise!Pick, UC!SearchFrom, Promise!SearchFrom, UC!NoLoc, Promise!NoLoc, UC!Entry,
    Promise!Entry, UC!StealLocal, Promise!StealLocal, UC!StealSlots, Promise!StealSlots, UC!Slots,
    Promise!Slots, UC!AnswerTo, Promise!AnswerTo, UC!Reserve, Promise!Reserve, UC!CanReserve,
    Promise!CanReserve, UC!Usable, Promise!Usable, UC!Hold, Promise!Hold, UC!Reservation,
    Promise!Reservation, UC!HasLocals, Promise!HasLocals, UC!CanOnlySteal, Promise!CanOnlySteal,
    UC!StealLoad, Promise!StealLoad, UC!StealFrom, Promise!StealFrom, UC!CanSteal, Promise!CanSteal,
    UC!ClassAfterSteal, Promise!ClassAfterSteal, UC!StealCas, Promise!StealCas, UC!StillSeen,
    Promise!StillSeen, UC!Cardinality, Promise!Cardinality

LEMMA PromisedSlots ==
    (\E t \in Threads : UC!Swap(t) \/ UC!Unreserve(t) \/ UC!DrainSlot(t) \/ UC!LowerPut(t) \/
      UC!PutSlot(t)) =>
    (\E t \in Threads : Promise!Swap(t) \/ Promise!Unreserve(t) \/ Promise!DrainSlot(t) \/
      Promise!LowerPut(t) \/ Promise!PutSlot(t))
BY PTL DEF UC!Swap, Promise!Swap, UC!At, Promise!At, UC!Aborted, Promise!Aborted, UC!Replaced,
    Promise!Replaced, UC!Nothing, Promise!Nothing, UC!Reservation, Promise!Reservation, UC!Hold,
    Promise!Hold, UC!Goto, Promise!Goto, UC!Unreserve, Promise!Unreserve, UC!CanPut, Promise!CanPut,
    UC!SpareEntry, Promise!SpareEntry, UC!TreeUnreserve, Promise!TreeUnreserve, UC!TreePut,
    Promise!TreePut, UC!SpareClass, Promise!SpareClass, UC!AfterUnreserve, Promise!AfterUnreserve,
    UC!DrainSlot, Promise!DrainSlot, UC!IsFirst, Promise!IsFirst, UC!Rank, Promise!Rank, UC!SetLoc,
    Promise!SetLoc, UC!LowerPut, Promise!LowerPut, UC!FramesOf, Promise!FramesOf, UC!NoLocal,
    Promise!NoLocal, UC!PutSlot, Promise!PutSlot, UC!PutInSlot, Promise!PutInSlot, UC!SlotOf,
    Promise!SlotOf, UC!IsFor, Promise!IsFor, UC!NoLoc, Promise!NoLoc, UC!Entry, Promise!Entry

LEMMA PromisedDemote ==
    (\E t \in Threads : UC!StealSlot(t) \/ UC!TakeSlot(t) \/ UC!DemoteSwap(t)) =>
    (\E t \in Threads : Promise!StealSlot(t) \/ Promise!TakeSlot(t) \/ Promise!DemoteSwap(t))
BY PTL DEF UC!StealSlot, Promise!StealSlot, UC!At, Promise!At, UC!Aborted, Promise!Aborted,
    UC!DemoteLocal, Promise!DemoteLocal, UC!SetLoc, Promise!SetLoc, UC!NoLoc, Promise!NoLoc,
    UC!Entry, Promise!Entry, UC!DemoteSlots, Promise!DemoteSlots, UC!Slots, Promise!Slots,
    UC!AnswerTo, Promise!AnswerTo, UC!Goto, Promise!Goto, UC!IsNext, Promise!IsNext, UC!IsFirst,
    Promise!IsFirst, UC!Rank, Promise!Rank, UC!NoLocal, Promise!NoLocal, UC!SkipSlot,
    Promise!SkipSlot, UC!Fits, Promise!Fits, UC!Hold, Promise!Hold, UC!Reservation,
    Promise!Reservation, UC!TakeSlot, Promise!TakeSlot, UC!Nothing, Promise!Nothing, UC!TakeTree,
    Promise!TakeTree, UC!DemoteSwap, Promise!DemoteSwap, UC!SlotOf, Promise!SlotOf, UC!Replaced,
    Promise!Replaced

LEMMA PromisedChange ==
    (\E t \in Threads : UC!ChangeLoad(t) \/ UC!ChangeFetch(t) \/ UC!ChangeCas(t) \/ UC!Return(t)) =>
    (\E t \in Threads : Promise!ChangeLoad(t) \/ Promise!ChangeFetch(t) \/ Promise!ChangeCas(t) \/
      Promise!Return(t))
BY PTL DEF UC!ChangeLoad, Promise!ChangeLoad, UC!At, Promise!At, UC!Aborted, Promise!Aborted,
    UC!SetLoc, Promise!SetLoc, UC!Goto, Promise!Goto, UC!counters, Promise!counters, UC!ChangeFetch,
    Promise!ChangeFetch, UC!ChangeCas, Promise!ChangeCas, UC!CanChange, Promise!CanChange,
    UC!NoClass, Promise!NoClass, UC!ChangeNext, Promise!ChangeNext, UC!NoTree, Promise!NoTree,
    UC!TreeCount, Promise!TreeCount, UC!NoLoc, Promise!NoLoc, UC!Entry, Promise!Entry, UC!Position,
    Promise!Position, UC!StillSeen, Promise!StillSeen, UC!Changed, Promise!Changed, UC!Return,
    Promise!Return, UC!Done, Promise!Done, UC!Trees, Promise!Trees, UC!Given, Promise!Given,
    UC!NoCall, Promise!NoCall, UC!NoLocal, Promise!NoLocal, UC!Hold, Promise!Hold, UC!Nothing,
    Promise!Nothing, UC!Reservation, Promise!Reservation

LEMMA PromisedRestart ==
    UC!Restart \/ UC!Attach =>
    Promise!Restart \/ Promise!Attach
BY PTL DEF UC!Restart, Promise!Restart, UC!Trees, Promise!Trees, UC!TreeCount, Promise!TreeCount,
    UC!Recovered, Promise!Recovered, UC!FramesOf, Promise!FramesOf, UC!Pending, Promise!Pending,
    UC!InitEntry, Promise!InitEntry, UC!Entry, Promise!Entry, UC!Slots, Promise!Slots, UC!Nothing,
    Promise!Nothing, UC!Reservation, Promise!Reservation, UC!NoCall, Promise!NoCall, UC!NoLocal,
    Promise!NoLocal, UC!NoLoc, Promise!NoLoc, UC!Attach, Promise!Attach, UC!thread, Promise!thread,
    UC!Cardinality, Promise!Cardinality

LEMMA PromisedNext == UC!Next => Promise!Next
BY PromisedStart, PromisedRestart, PromisedTake, PromisedSearch, PromisedSlots, PromisedDemote, PromisedChange
   DEF UC!Next, Promise!Next, UC!Step, Promise!Step

LEMMA PromisedInit == UC!Init => Promise!Init
BY PTL DEF UC!Init, Promise!Init, UC!InitEntry, Promise!InitEntry, UC!Entry, Promise!Entry,
    UC!Nothing, Promise!Nothing, UC!Reservation, Promise!Reservation, UC!NoCall, Promise!NoCall,
    UC!NoLocal, Promise!NoLocal, UC!NoLoc, Promise!NoLoc, UC!Trees, Promise!Trees, UC!TreeCount,
    Promise!TreeCount, UC!FramesOf, Promise!FramesOf, UC!Slots, Promise!Slots

LEMMA PromisedVars == UC!vars = Promise!vars /\ UC!vars' = Promise!vars'
BY DEF UC!vars, Promise!vars, UC!counters, Promise!counters, UC!thread, Promise!thread
=============================================================================
