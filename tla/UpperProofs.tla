---------------------------- MODULE UpperProofs -----------------------------
(***************************************************************************)
(* Theorems about Upper, for every number of trees, slots and threads and  *)
(* for every policy.  Types and exclusive reservations hold whatever the   *)
(* clients request.  For clients that take only entirely free trees        *)
(* offline and only offline trees online, Upper counts every free frame    *)
(* exactly once, its counters never overflow and nothing is taken from a   *)
(* tree that is offline; and it implements FramePool: every call takes     *)
(* effect at most once, on one tree that has the frames, and reports what  *)
(* it has done, across crashes; and the fast statistics that are read      *)
(* between calls are exact.                                                *)
(***************************************************************************)
EXTENDS UpperStats, Tally, SequenceTheorems, TLAPS

-----------------------------------------------------------------------------
(* Constants and geometry. *)

\* The numeric constants.
LEMMA Constants ==
    /\ TREE_SIZE \in Nat \ {0} /\ MAX_CLASSES \in Nat \ {0}
    /\ FRAMES \in Nat \ {0} /\ ALIGN \in Nat \ {0} /\ MaxRestarts \in Nat
    /\ Classes \subseteq Nat /\ DefaultClass \in Classes
    /\ Locals \in [Classes -> Nat]
BY TreeAssumption, UpperAssumption

\* There is at least one tree, and the last one has at least one frame.
LEMMA TreesExist ==
    /\ TreeCount \in Nat \ {0}
    /\ 0 \in Trees
    /\ \A i \in Trees : FramesOf(i) \in 0 .. TREE_SIZE
<1>1. ASSUME NEW s \in Nat \ {0}
      PROVE  /\ (FRAMES + s - 1) \div s \in Nat \ {0}
             /\ s * ((FRAMES + s - 1) \div s) <= FRAMES + s - 1
  <2>1. (FRAMES + s - 1) \div s \in Nat
    BY Constants
  <2>2. s * ((FRAMES + s - 1) \div s) <= FRAMES + s - 1
    BY Constants
  <2>3. FRAMES + s - 1 < s * (((FRAMES + s - 1) \div s) + 1)
    BY Constants
  <2>4. (FRAMES + s - 1) \div s # 0
    BY <2>3, Constants
  <2> QED BY <2>1, <2>2, <2>4
<1>2. TreeCount \in Nat \ {0} /\ TREE_SIZE * TreeCount <= FRAMES + TREE_SIZE - 1
  BY <1>1, Constants DEF TreeCount
<1>3. ASSUME NEW s \in Nat \ {0}, NEW q \in Nat, s * q <= FRAMES + s - 1,
             NEW i \in 0 .. q - 1
      PROVE  i * s \in Int /\ FRAMES - i * s >= 0
  <2>1. s * (i + 1) <= s * q
    OBVIOUS
  <2>2. s * (i + 1) = i * s + s
    OBVIOUS
  <2>3. i * s \in Int
    OBVIOUS
  <2> QED BY <2>1, <2>2, <2>3, <1>3, Constants
<1>4. \A i \in Trees : i * TREE_SIZE \in Int /\ FRAMES - i * TREE_SIZE >= 0
  BY <1>2, <1>3, Constants DEF Trees
<1>5. \A i \in Trees : FramesOf(i) \in 0 .. TREE_SIZE
  BY <1>4, Constants DEF FramesOf
<1> QED BY <1>2, <1>5 DEF Trees

\* The search visits trees of the allocator (trees_search).
LEMMA PositionInTrees ==
    ASSUME NEW start \in Int, NEW i \in Nat
    PROVE  Position(start, i) \in Trees
<1>1. ASSUME NEW x \in Int, NEW n \in Nat \ {0}
      PROVE  x % n \in 0 .. n - 1
  OBVIOUS
<1>2. start + TreeCount + (IF i % 2 = 0 THEN i \div 2 ELSE -((i + 1) \div 2)) \in Int
  BY TreesExist
<1> QED BY <1>1, <1>2, TreesExist DEF Position, Trees

\* A slot names a class and one of its slots.
LEMMA SlotClass == \A s \in Slots : s[1] \in Classes
BY DEF Slots

\* A request that is valid and names a slot names one that exists.
LEMMA ValidSlot ==
    ASSUME NEW t \in Threads, Valid(call[t]), call[t].local \in Nat
    PROVE  /\ SlotOf(t) \in Slots
           /\ Locals[call[t].class] # 0
           /\ <<call[t].class, call[t].local % Locals[call[t].class]>> \in Slots
<1>1. /\ call[t].class \in Classes /\ Locals[call[t].class] \in Nat
      /\ call[t].local < Locals[call[t].class]
  <2>1. call[t].class \in Classes
    BY DEF Valid
  <2>2. Locals[call[t].class] \in Nat
    BY <2>1, Constants
  <2>3. call[t].local # NoLocal
    BY DEF NoLocal
  <2> QED BY <2>1, <2>2, <2>3 DEF Valid
<1>2. call[t].local \in 0 .. Locals[call[t].class] - 1
  BY <1>1
<1>3. call[t].local % Locals[call[t].class] = call[t].local
  BY <1>1
<1> QED BY <1>1, <1>2, <1>3 DEF SlotOf, Slots

-----------------------------------------------------------------------------
(* The invariant. *)

LocType ==
    [from : {"local", "search", "steal", "tree", "demote", "put"}, sync : BOOLEAN,
     start : Int, phase : {"near", "global", "any"}, i : Nat,
     best : Seq([priority : Nat, tree : Trees]), tree : Trees,
     left : SUBSET Slots, class : Classes, seen : Entries, free : 0 .. TREE_SIZE]

TypeInv == TypeOK /\ loc \in [Threads -> LocType]

Allocs == {"get", "get_at", "put"}

\* The calls that are at a label.
OpAt(p, op) ==
    /\ p \in {"change", "fetch", "change_cas"} => op = "change"
    /\ p = "drain" => op = "drain"
    /\ p = "unreserve" => op # "change"
    /\ p \in {"local", "sync", "sync_put", "lower", "give_back", "scan", "reserve",
              "load", "steal_cas", "swap", "put", "put_slot", "steal", "demote",
              "demote_swap"} => op \in Allocs

\* The labels at which a call has to have a slot.
SlotNeeded(p, l, h) ==
    \/ p \in {"local", "sync", "sync_put", "put_slot", "demote_swap", "swap", "reserve"}
    \/ p = "scan" /\ l.phase # "any"
    \/ p \in {"lower", "give_back", "load", "steal_cas"}
         /\ l.from = "search" /\ l.phase # "any"
    \/ p \in {"lower", "give_back"} /\ (h.present \/ l.from = "local")

\* What a call has in hand, and has replaced, at a label.
InHand(p, c, l, h, s) ==
    /\ h.present => p \in {"lower", "give_back", "swap", "demote_swap", "abort"}
    /\ s.present => p \in {"unreserve", "abort"}
    /\ p = "unreserve" => s.present
    /\ p \in {"lower", "demote_swap"} => h.free >= c.n
    /\ p = "unreserve" /\ l.from = "demote" /\ c.op # "drain" => h.free >= c.n
    /\ p \in {"lower", "give_back"} /\ h.present => l.from = "search"
    /\ p = "steal_cas" => l.seen.free >= c.n

\* Where a call has come from.
Origin(p, l) ==
    /\ p \in {"load", "steal_cas"} => l.from \in {"tree", "search"}
    /\ p \in {"steal", "demote", "put"} => l.from = p
    /\ p \in {"swap", "reserve"} => l.from = "search"

Phase(p, c, l, h, s) ==
    /\ OpAt(p, c.op) /\ Origin(p, l)
    /\ c.op \in Allocs /\ p # "argument" => Valid(c)
    /\ SlotNeeded(p, l, h) => c.local # NoLocal
    /\ InHand(p, c, l, h, s)

PhaseOK == \A t \in Threads : Phase(pc[t], call[t], loc[t], hand[t], spare[t])

IInv == TypeInv /\ PhaseOK /\ ReservedOnce

-----------------------------------------------------------------------------
(* Facts about one thread, and about steps that leave reservations alone. *)

\* The fields of a call.
LEMMA CallFields ==
    ASSUME TypeInv, NEW t \in Threads
    PROVE  /\ call[t].op \in Allocs =>
                /\ call[t].class \in Nat /\ call[t].local \in Nat \cup {NoLocal}
                /\ call[t].n \in Nat \ {0} /\ call[t].tree \in Trees
           /\ call[t].op = "change" => call[t] \in Changes
           /\ call[t].op = "drain" => call[t] = NoCall
<1>1. call[t] \in Requests \cup Changes \cup {NoCall}
  BY CallsAssumption DEF TypeInv, TypeOK
<1> QED BY <1>1 DEF Requests, Changes, NoCall, Allocs

\* What the invariant says about one thread.
LEMMA ThreadFields ==
    ASSUME TypeInv, NEW t \in Threads
    PROVE  /\ pc[t] \in Labels /\ loc[t] \in LocType
           /\ hand[t] \in Reservations /\ spare[t] \in Reservations
           /\ hand[t].present \in BOOLEAN /\ hand[t].tree \in Trees
           /\ hand[t].free \in 0 .. TREE_SIZE
           /\ spare[t].present \in BOOLEAN /\ spare[t].tree \in Trees
           /\ spare[t].free \in 0 .. TREE_SIZE
BY DEF TypeInv, TypeOK, Reservations

\* The fields of a thread's position in its searches and loops.
LEMMA LocFields ==
    ASSUME TypeInv, NEW t \in Threads
    PROVE  /\ loc[t] \in LocType
           /\ loc[t].from \in {"local", "search", "steal", "tree", "demote", "put"}
           /\ loc[t].start \in Int /\ loc[t].phase \in {"near", "global", "any"}
           /\ loc[t].i \in Nat /\ loc[t].best \in Seq([priority : Nat, tree : Trees])
           /\ loc[t].tree \in Trees /\ loc[t].tree \in Int
           /\ loc[t].left \in SUBSET Slots
           /\ loc[t].class \in Classes /\ loc[t].seen \in Entries
           /\ loc[t].free \in 0 .. TREE_SIZE
<1>1. loc[t] \in LocType
  BY DEF TypeInv
<1>2. Trees \subseteq Int
  BY DEF Trees
<1> QED BY <1>1, <1>2 DEF LocType

\* A call of an allocating operation that has been validated.
LEMMA ValidCall ==
    ASSUME TypeInv, PhaseOK, NEW t \in Threads, call[t].op \in Allocs,
           pc[t] # "argument"
    PROVE  /\ Valid(call[t]) /\ call[t].class \in Classes
           /\ call[t].n \in Nat \ {0} /\ call[t].tree \in Trees
           /\ call[t].local \in Nat \cup {NoLocal}
           /\ call[t].local # NoLocal => SlotOf(t) \in Slots
<1>1. Valid(call[t])
  BY DEF PhaseOK, Phase
<1> QED BY <1>1, CallFields, ValidSlot DEF Valid

\* The constant values that calls are reset to.
LEMMA Defaults ==
    /\ Nothing \in Reservations /\ ~Nothing.present
    /\ NoLoc \in LocType /\ NoLoc.phase = "near" /\ NoLoc.from = "local"
    /\ NoCall.op = "drain"
    /\ NoLoc.left = {}
<1>1. 0 \in 0 .. TREE_SIZE
  BY Constants
<1>2. Entry(FALSE, DefaultClass, 0) \in Entries
  BY <1>1, Constants DEF Entry, Entries
<1>3. << >> \in Seq([priority : Nat, tree : Trees])
  OBVIOUS
<1>4. Nothing \in Reservations /\ ~Nothing.present
  BY <1>1, TreesExist DEF Nothing, Reservation, Reservations
<1>5. NoLoc \in LocType
  <2>1. ASSUME NEW e \in Entries, NEW b \in Seq([priority : Nat, tree : Trees])
        PROVE  [from |-> "local", sync |-> TRUE, start |-> 0, phase |-> "near", i |-> 0,
                best |-> b, tree |-> 0, left |-> {}, class |-> DefaultClass,
                seen |-> e, free |-> 0] \in LocType
    BY <1>1, TreesExist, Constants DEF LocType
  <2> QED BY <2>1, <1>2, <1>3 DEF NoLoc
<1> QED BY <1>4, <1>5 DEF NoLoc, NoCall

\* A step of t leaves the other threads alone.
Others(t) ==
    \A u \in Threads : u # t =>
        /\ pc'[u] = pc[u] /\ call'[u] = call[u] /\ loc'[u] = loc[u]
        /\ hand'[u] = hand[u] /\ spare'[u] = spare[u]

\* A step of t that ends in a phase of t's call.
LEMMA PhaseStep ==
    ASSUME PhaseOK, NEW t \in Threads, Others(t),
           Phase(pc'[t], call'[t], loc'[t], hand'[t], spare'[t])
    PROVE  PhaseOK'
BY DEF PhaseOK, Others

-----------------------------------------------------------------------------
(* Reservations pass from holder to holder. *)

\* The holders, and what they hold before and after a step.
LEMMA HolderKinds ==
    /\ \A s \in Slots : /\ <<"slot", s>> \in Holders
                        /\ HeldBy(<<"slot", s>>) = slots[s]
                        /\ HeldBy(<<"slot", s>>)' = slots'[s]
    /\ \A t \in Threads : /\ <<"hand", t>> \in Holders /\ <<"spare", t>> \in Holders
                          /\ HeldBy(<<"hand", t>>) = hand[t]
                          /\ HeldBy(<<"hand", t>>)' = hand'[t]
                          /\ HeldBy(<<"spare", t>>) = spare[t]
                          /\ HeldBy(<<"spare", t>>)' = spare'[t]
    /\ \A h \in Holders :
          \/ \E s \in Slots : h = <<"slot", s>>
          \/ \E t \in Threads : h = <<"hand", t>> \/ h = <<"spare", t>>
BY DEF Holders, HeldBy

\* Every holder holds a reservation.
LEMMA HeldReservation ==
    ASSUME TypeInv, NEW h \in Holders
    PROVE  HeldBy(h) \in Reservations
<1>1. /\ \A s \in Slots : slots[s] \in Reservations
      /\ \A t \in Threads : hand[t] \in Reservations /\ spare[t] \in Reservations
  BY DEF TypeInv, TypeOK
<1>2. CASE \E s \in Slots : h = <<"slot", s>>
  BY <1>1, <1>2, HolderKinds, Zenon
<1>3. CASE \E t \in Threads : h = <<"hand", t>> \/ h = <<"spare", t>>
  BY <1>1, <1>3, HolderKinds, Zenon
<1> QED BY <1>2, <1>3, HolderKinds, Zenon

\* Its tree is a tree.
LEMMA HeldType ==
    ASSUME TypeInv, NEW h \in Holders
    PROVE  HeldBy(h).present \in BOOLEAN /\ HeldBy(h).tree \in Trees
BY HeldReservation DEF Reservations

\* Whoever holds a reservation, its tree is marked as reserved.
LEMMA HolderMarked ==
    ASSUME TypeInv, ReservedOnce, NEW h \in Holders, HeldBy(h).present
    PROVE  trees[HeldBy(h).tree].reserved
BY HeldType DEF ReservedOnce

\* The same reservation, up to the number of frames.
Same(r, q) == q.present = r.present /\ (r.present => q.tree = r.tree)

Marks == [i \in Trees |-> trees[i].reserved]

\* A step that changes only counters of entries and reservations.
LEMMA OnceKept ==
    ASSUME TypeInv, ReservedOnce, Marks' = Marks,
           \A s \in Slots : Same(slots[s], slots'[s]),
           \A t \in Threads : Same(hand[t], hand'[t]) /\ Same(spare[t], spare'[t])
    PROVE  ReservedOnce'
<1>1. ASSUME NEW h \in Holders PROVE Same(HeldBy(h), HeldBy(h)')
  <2>1. CASE \E s \in Slots : h = <<"slot", s>>
    <3>1. PICK s \in Slots : h = <<"slot", s>>
      BY <2>1
    <3>2. HeldBy(h) = slots[s] /\ HeldBy(h)' = slots'[s]
      BY <3>1, HolderKinds
    <3> QED BY <3>2
  <2>2. CASE \E t \in Threads : h = <<"hand", t>> \/ h = <<"spare", t>>
    <3>1. PICK t \in Threads : h = <<"hand", t>> \/ h = <<"spare", t>>
      BY <2>2
    <3>2. CASE h = <<"hand", t>>
      <4>1. HeldBy(h) = hand[t] /\ HeldBy(h)' = hand'[t]
        BY <3>2, HolderKinds
      <4> QED BY <4>1
    <3>3. CASE h = <<"spare", t>>
      <4>1. HeldBy(h) = spare[t] /\ HeldBy(h)' = spare'[t]
        BY <3>3, HolderKinds
      <4> QED BY <4>1
    <3> QED BY <3>1, <3>2, <3>3
  <2> QED BY <2>1, <2>2, HolderKinds
<1>2. \A i \in Trees : trees'[i].reserved = trees[i].reserved
  BY DEF Marks
<1> QED BY <1>1, <1>2 DEF ReservedOnce, Same

\* A holder hands its reservation over to another, which has none.
LEMMA HandedOver ==
    ASSUME TypeInv, ReservedOnce, Marks' = Marks,
           NEW a \in Holders, NEW b \in Holders, a # b,
           ~HeldBy(b).present, Same(HeldBy(a), HeldBy(b)'), ~HeldBy(a)'.present,
           \A h \in Holders \ {a, b} : Same(HeldBy(h), HeldBy(h)')
    PROVE  ReservedOnce'
<1>2. \A i \in Trees : trees'[i].reserved = trees[i].reserved
  BY DEF Marks
<1> QED BY <1>2 DEF ReservedOnce, Same

\* A holder hands its reservation over to another, whose own goes to a third.
LEMMA Rotated ==
    ASSUME TypeInv, ReservedOnce, Marks' = Marks,
           NEW a \in Holders, NEW b \in Holders, NEW c \in Holders,
           a # b, b # c, a # c, ~HeldBy(c).present,
           Same(HeldBy(a), HeldBy(b)'), Same(HeldBy(b), HeldBy(c)'),
           ~HeldBy(a)'.present,
           \A h \in Holders \ {a, b, c} : Same(HeldBy(h), HeldBy(h)')
    PROVE  ReservedOnce'
<1>2. \A i \in Trees : trees'[i].reserved = trees[i].reserved
  BY DEF Marks
<1> QED BY <1>2 DEF ReservedOnce, Same

\* A holder that has none gets the reservation of a tree that was not reserved.
LEMMA Acquired ==
    ASSUME TypeInv, ReservedOnce, NEW i \in Trees, ~trees[i].reserved,
           Marks' = [Marks EXCEPT ![i] = TRUE],
           NEW a \in Holders, ~HeldBy(a).present, HeldBy(a)'.present, HeldBy(a)'.tree = i,
           \A h \in Holders \ {a} : Same(HeldBy(h), HeldBy(h)')
    PROVE  ReservedOnce'
<1>2. \A j \in Trees : trees'[j].reserved = IF j = i THEN TRUE ELSE trees[j].reserved
  BY DEF Marks
<1>3. \A h \in Holders : HeldBy(h).present => HeldBy(h).tree # i
  BY DEF ReservedOnce
<1>4. \A g, h \in Holders :
        g # h /\ HeldBy(g)'.present /\ HeldBy(h)'.present
          => HeldBy(g)'.tree # HeldBy(h)'.tree
  BY <1>3 DEF ReservedOnce, Same
<1>5. ASSUME NEW j \in Trees
      PROVE  trees'[j].reserved <=>
                \E h \in Holders : HeldBy(h)'.present /\ HeldBy(h)'.tree = j
  <2>1. CASE j = i
    BY <1>2, <2>1
  <2>2. CASE j # i
    <3>1. trees'[j].reserved <=> \E h \in Holders : HeldBy(h).present /\ HeldBy(h).tree = j
      BY <1>2, <2>2 DEF ReservedOnce
    <3> QED BY <2>2, <3>1 DEF Same
  <2> QED BY <2>1, <2>2
<1> QED BY <1>4, <1>5 DEF ReservedOnce, Holders

\* A holder releases its reservation, and the tree is no longer reserved.
LEMMA Released ==
    ASSUME TypeInv, ReservedOnce, NEW i \in Trees,
           Marks' = [Marks EXCEPT ![i] = FALSE],
           NEW a \in Holders, ~HeldBy(a)'.present,
           HeldBy(a).present, HeldBy(a).tree = i,
           \A h \in Holders \ {a} : Same(HeldBy(h), HeldBy(h)')
    PROVE  ReservedOnce'
<1>2. \A j \in Trees : trees'[j].reserved = IF j = i THEN FALSE ELSE trees[j].reserved
  BY DEF Marks
<1>3. \A h \in Holders \ {a} : HeldBy(h).present => HeldBy(h).tree # i
  BY DEF ReservedOnce
<1>4. \A g, h \in Holders :
        g # h /\ HeldBy(g)'.present /\ HeldBy(h)'.present
          => HeldBy(g)'.tree # HeldBy(h)'.tree
  BY <1>3 DEF ReservedOnce, Same
<1>5. ASSUME NEW j \in Trees
      PROVE  trees'[j].reserved <=>
                \E h \in Holders : HeldBy(h)'.present /\ HeldBy(h)'.tree = j
  <2>1. CASE j = i
    BY <1>2, <2>1, <1>3 DEF Same
  <2>2. CASE j # i
    <3>1. trees'[j].reserved <=> \E h \in Holders : HeldBy(h).present /\ HeldBy(h).tree = j
      BY <1>2, <2>2 DEF ReservedOnce
    <3> QED BY <2>2, <3>1 DEF Same
  <2> QED BY <2>1, <2>2
<1> QED BY <1>4, <1>5 DEF ReservedOnce, Holders

\* A step that changes no entry and no reservation.
LEMMA OnceQuiet ==
    ASSUME TypeInv, ReservedOnce, UNCHANGED <<trees, slots, hand, spare>>
    PROVE  ReservedOnce'
BY OnceKept DEF Marks, Same

-----------------------------------------------------------------------------
(* Where a call goes on: steps that change only the label and loc of t. *)

Moved(t) ==
    /\ pc' \in [Threads -> Labels] /\ loc' \in [Threads -> LocType]
    /\ \A u \in Threads : u # t => pc'[u] = pc[u] /\ loc'[u] = loc[u]

\* The call goes on with no reservation in hand and none to release.
Reaches(t) ==
    /\ Moved(t)
    /\ \A h, s \in Reservations : ~h.present /\ ~s.present =>
          Phase(pc'[t], call[t], loc'[t], h, s)

\* A call in progress.
Running(t) ==
    call[t].op \in Allocs /\ Valid(call[t]) /\ call[t] \in Requests

\* A running call may go to a label where nothing is required of it.
LEMMA ReachesLabel ==
    ASSUME TypeInv, NEW t \in Threads, Running(t), NEW l \in LocType, SetLoc(t, l),
           NEW p \in {"scan", "load", "steal", "demote", "memory", "ok", "reserve"},
           Goto(t, p),
           p = "scan" /\ l.phase # "any" => call[t].local # NoLocal,
           p = "load" => l.from = "tree" \/ (l.from = "search" /\ l.phase = "any"),
           p \in {"steal", "demote"} => l.from = p,
           p = "reserve" => call[t].local # NoLocal /\ l.from = "search"
    PROVE  Reaches(t)
<1>1. Moved(t)
  BY DEF Moved, TypeInv, TypeOK, SetLoc, Goto, Labels, Done
<1>2. pc'[t] = p /\ loc'[t] = l
  BY DEF TypeInv, TypeOK, SetLoc, Goto
<1>3. ASSUME NEW h \in Reservations, NEW s \in Reservations, ~h.present, ~s.present
      PROVE  Phase(p, call[t], l, h, s)
  <2>1. OpAt(p, call[t].op) /\ Origin(p, l)
    BY DEF OpAt, Running, Origin
  <2>2. SlotNeeded(p, l, h) => call[t].local # NoLocal
    BY <1>3 DEF SlotNeeded
  <2>3. InHand(p, call[t], l, h, s)
    BY <1>3 DEF InHand
  <2> QED BY <2>1, <2>2, <2>3 DEF Phase, Running
<1> QED BY <1>1, <1>2, <1>3 DEF Reaches

\* search_and_reserve and the search of a request without a slot.
LEMMA SearchFromReaches ==
    ASSUME TypeInv, NEW t \in Threads, Running(t), NEW start \in Int,
           NEW phase \in {"near", "global", "any"}, SearchFrom(t, start, phase),
           phase # "any" => call[t].local # NoLocal
    PROVE  Reaches(t)
<1> DEFINE l == [NoLoc EXCEPT !.start = start, !.phase = phase,
                              !.i = IF phase = "near" THEN 1 ELSE 0]
<1>1. l \in LocType /\ l.phase = phase /\ SetLoc(t, l) /\ Goto(t, "scan")
  BY Defaults DEF LocType, SearchFrom
<1> HIDE DEF l
<1> QED BY <1>1, ReachesLabel

\* get_local has failed.
LEMMA LocalMissReaches ==
    ASSUME TypeInv, NEW t \in Threads, Running(t), NEW start \in Int,
           LocalMiss(t, start), call[t].local # NoLocal
    PROVE  Reaches(t)
<1>1. CASE call[t].op = "get"
  <2>1. Aligned(start) \in Int
    BY Constants DEF Aligned
  <2> QED BY <1>1, <2>1, SearchFromReaches DEF LocalMiss
<1>2. CASE call[t].op # "get"
  <2> DEFINE l == [NoLoc EXCEPT !.from = "tree", !.tree = call[t].tree,
                                !.class = call[t].class]
  <2>1. l \in LocType /\ l.from = "tree"
    BY Defaults DEF LocType, Running, Valid, Requests
  <2>2. SetLoc(t, l) /\ Goto(t, "load")
    BY <1>2 DEF LocalMiss
  <2> HIDE DEF l
  <2> QED BY <2>1, <2>2, ReachesLabel
<1> QED BY <1>1, <1>2

\* steal_local and demote_local begin.
LEMMA OutOfMemoryReaches ==
    ASSUME TypeInv, NEW t \in Threads, Running(t), StealLocal(t) \/ DemoteLocal(t)
    PROVE  Reaches(t)
<1>1. CASE StealLocal(t)
  <2> DEFINE l == [NoLoc EXCEPT !.from = "steal", !.left = StealSlots(t)]
  <2>1. l \in LocType /\ l.from = "steal"
    BY Defaults DEF LocType, StealSlots
  <2>2. SetLoc(t, l) /\ Goto(t, "steal")
    BY <1>1 DEF StealLocal
  <2> HIDE DEF l
  <2> QED BY <2>1, <2>2, ReachesLabel
<1>2. CASE DemoteLocal(t)
  <2> DEFINE l == [NoLoc EXCEPT !.from = "demote", !.left = DemoteSlots(t)]
  <2>1. l \in LocType /\ l.from = "demote"
    BY Defaults DEF LocType, DemoteSlots
  <2>2. SetLoc(t, l) /\ Goto(t, "demote")
    BY <1>2 DEF DemoteLocal
  <2> HIDE DEF l
  <2> QED BY <2>1, <2>2, ReachesLabel
<1> QED BY <1>1, <1>2

\* The call goes on after the lower allocator has refused.
LEMMA AfterFailureReaches ==
    ASSUME TypeInv, NEW t \in Threads, Running(t), AfterFailure(t),
           loc[t].from = "local" => call[t].local # NoLocal,
           loc[t].from = "search" /\ loc[t].phase # "any" => call[t].local # NoLocal
    PROVE  Reaches(t)
<1>1. /\ loc[t] \in LocType /\ loc[t].tree \in Trees /\ loc[t].tree \in Int
      /\ loc[t].from \in {"local", "search", "steal", "tree", "demote", "put"}
  BY LocFields
<1>2. CASE loc[t].from = "local"
  <2>1. LocalMiss(t, loc[t].tree)
    BY <1>2 DEF AfterFailure
  <2> QED BY <1>1, <1>2, <2>1, LocalMissReaches
<1>3. CASE loc[t].from = "search"
  <2>1. SetLoc(t, loc[t]) /\ Goto(t, "scan")
    BY <1>3 DEF AfterFailure
  <2> QED BY <1>1, <1>3, <2>1, ReachesLabel
<1>4. CASE loc[t].from = "steal"
  <2>1. DemoteLocal(t)
    BY <1>4 DEF AfterFailure
  <2> QED BY <2>1, OutOfMemoryReaches
<1>5. CASE loc[t].from \in {"tree", "demote"}
  <2>1. SetLoc(t, NoLoc) /\ Goto(t, "memory")
    BY <1>5 DEF AfterFailure
  <2> QED BY <2>1, Defaults, ReachesLabel
<1>6. CASE loc[t].from = "put"
  <2>1. SetLoc(t, NoLoc) /\ Goto(t, "ok")
    BY <1>6 DEF AfterFailure
  <2> QED BY <2>1, Defaults, ReachesLabel
<1> QED BY <1>1, <1>2, <1>3, <1>4, <1>5, <1>6

\* A candidate of trees_search_best is tried.
LEMMA TryReaches ==
    ASSUME TypeInv, NEW t \in Threads, Running(t), NEW l \in LocType,
           NEW i \in Trees, Try(t, l, i), l.phase # "any" => call[t].local # NoLocal
    PROVE  Reaches(t)
<1> DEFINE m == [l EXCEPT !.from = "search", !.tree = i, !.class = call[t].class]
<1>1. call[t].class \in Classes
  BY DEF Running, Valid
<1>2. m \in LocType /\ m.from = "search" /\ m.phase = l.phase
  BY <1>1 DEF LocType
<1>3. SetLoc(t, m) /\ Goto(t, IF l.phase = "any" THEN "load" ELSE "reserve")
  BY DEF Try
<1> HIDE DEF m
<1> QED BY <1>2, <1>3, ReachesLabel

\* What holds of a thread in the middle of an allocation or a free.
LEMMA RunningThread ==
    ASSUME IInv, NEW t \in Threads,
           pc[t] \in {"local", "sync", "sync_put", "lower", "give_back", "scan",
                      "reserve", "load", "steal_cas", "swap", "put", "put_slot",
                      "steal", "demote", "demote_swap"}
    PROVE  /\ Running(t) /\ call[t].class \in Classes
           /\ call[t].n \in Nat \ {0} /\ call[t].tree \in Trees
           /\ call[t].local \in Nat \cup {NoLocal}
           /\ call[t].local # NoLocal => SlotOf(t) \in Slots
           /\ SlotNeeded(pc[t], loc[t], hand[t]) => call[t].local # NoLocal
           /\ InHand(pc[t], call[t], loc[t], hand[t], spare[t])
           /\ Origin(pc[t], loc[t])
<1>1. Phase(pc[t], call[t], loc[t], hand[t], spare[t])
  BY DEF IInv, PhaseOK
<1>2. call[t].op \in Allocs /\ pc[t] # "argument"
  BY <1>1 DEF Phase, OpAt
<1>3. call[t] \in Requests
  BY <1>2, CallsAssumption DEF IInv, TypeInv, TypeOK, Changes, NoCall, Allocs
<1> QED BY <1>1, <1>2, <1>3, ValidCall DEF IInv, Phase, Running

\* A step that only moves a call without reservations preserves the invariant.
LEMMA ReachesStep ==
    ASSUME IInv, NEW t \in Threads, Reaches(t),
           UNCHANGED <<trees, slots, room, call, hand, spare, held, offline, restarts>>,
           ~hand[t].present, ~spare[t].present
    PROVE  IInv'
<1>1. TypeInv'
  BY DEF IInv, TypeInv, TypeOK, Reaches, Moved
<1>2. PhaseOK'
  <2>1. Others(t)
    BY DEF Reaches, Moved, Others
  <2>2. hand[t] \in Reservations /\ spare[t] \in Reservations
    BY DEF IInv, TypeInv, TypeOK
  <2>3. Phase(pc'[t], call'[t], loc'[t], hand'[t], spare'[t])
    BY <2>2 DEF Reaches
  <2> QED BY <2>1, <2>3, PhaseStep DEF IInv
<1>3. ReservedOnce'
  BY OnceQuiet DEF IInv
<1> QED BY <1>1, <1>2, <1>3 DEF IInv
-----------------------------------------------------------------------------
(* Calls and returns. *)

\* A thread is idle, and goes to a phase of the call it begins.
LEMMA BeginStep ==
    ASSUME IInv, NEW t \in Threads, NEW r \in Calls, Begin(t, r),
           NEW l \in LocType, SetLoc(t, l), NEW p \in Labels, Goto(t, p),
           held' \in [Trees -> Nat],
           UNCHANGED <<counters, hand, spare, offline, restarts>>,
           OpAt(p, r.op), r.op \in Allocs /\ p # "argument" => Valid(r),
           p \in {"local", "scan", "load", "put", "drain", "change", "argument", "memory"},
           p = "local" => r.local # NoLocal,
           p = "scan" => l.phase = "any" \/ r.local # NoLocal,
           p = "load" => l.from = "tree",
           p = "put" => l.from = "put"
    PROVE  IInv'
<1>1. TypeInv'
  BY DEF IInv, TypeInv, TypeOK, SetLoc, Goto, Begin, counters
<1>2. pc'[t] = p /\ loc'[t] = l /\ call'[t] = r
  BY DEF IInv, TypeInv, TypeOK, SetLoc, Goto, Begin
<1>3. Others(t)
  BY DEF IInv, TypeInv, TypeOK, SetLoc, Goto, Begin, Others
<1>4. pc[t] = "idle" /\ ~hand[t].present /\ ~spare[t].present
  <2>1. pc[t] = "idle"
    BY DEF Begin, At
  <2> QED BY <2>1 DEF IInv, PhaseOK, Phase, InHand
<1>5. Phase(p, r, l, hand[t], spare[t])
  <2>1. SlotNeeded(p, l, hand[t]) => r.local # NoLocal
    BY <1>4 DEF SlotNeeded
  <2>2. InHand(p, r, l, hand[t], spare[t])
    BY <1>4 DEF InHand
  <2>3. Origin(p, l)
    BY DEF Origin
  <2> QED BY <2>1, <2>2, <2>3 DEF Phase
<1>6. PhaseOK'
  BY <1>2, <1>3, <1>5, PhaseStep DEF IInv
<1>7. ReservedOnce'
  BY OnceQuiet DEF IInv, counters
<1> QED BY <1>1, <1>6, <1>7 DEF IInv

\* UNCHANGED loc, as a step of t.
LEMMA LocStays ==
    ASSUME TypeInv, NEW t \in Threads, UNCHANGED loc
    PROVE  SetLoc(t, loc[t]) /\ loc[t] \in LocType
BY DEF TypeInv, SetLoc

\* llfree_get without a frame begins.
LEMMA GetStep ==
    ASSUME IInv, NEW t \in Threads, NEW r \in Calls, Get(t, r)
    PROVE  IInv'
<1>1. /\ r.op = "get" /\ Begin(t, r) /\ held' \in [Trees -> Nat]
      /\ UNCHANGED <<counters, hand, spare, offline, restarts>>
  BY DEF Get, IInv, TypeInv, TypeOK
<1>2. CASE ~Valid(r)
  <2>1. Goto(t, "argument") /\ UNCHANGED loc
    BY <1>2 DEF Get
  <2>2. OpAt("argument", r.op)
    BY DEF OpAt
  <2> QED BY <1>1, <2>1, <2>2, LocStays, BeginStep DEF IInv, Labels, Done
<1>3. CASE Valid(r)
  <2>1. /\ OpAt("local", r.op) /\ OpAt("scan", r.op)
    BY <1>1 DEF OpAt, Allocs
  <2>2. StartOf(r) \in Int
    <3>1. r.class \in Classes
      BY <1>3 DEF Valid
    <3>2. Locals[r.class] \in Nat
      BY <3>1, Constants
    <3>3. r \in Requests
      BY <1>1, CallsAssumption DEF Changes, NoCall
    <3>4. r.local \in Int
      BY <3>3 DEF Requests, NoLocal
    <3> QED BY <3>2, <3>4, TreesExist DEF StartOf
  <2>3. CASE UsesLocal(r)
    <3> DEFINE l == [NoLoc EXCEPT !.start = StartOf(r)]
    <3>1. l \in LocType
      BY <2>2, Defaults DEF LocType
    <3>2. SetLoc(t, l) /\ Goto(t, "local")
      BY <1>3, <2>3 DEF Get, UseLocal
    <3>3. r.local # NoLocal
      BY <2>3 DEF UsesLocal
    <3> HIDE DEF l
    <3> QED BY <1>1, <1>3, <2>1, <3>1, <3>2, <3>3, BeginStep DEF Labels
  <2>4. CASE ~UsesLocal(r)
    <3> DEFINE l == [NoLoc EXCEPT !.start = StartOf(r), !.phase = "any", !.i = 0]
    <3>1. l \in LocType /\ l.phase = "any"
      BY <2>2, Defaults DEF LocType
    <3>2. SetLoc(t, l) /\ Goto(t, "scan")
      BY <1>3, <2>4 DEF Get, SearchFrom
    <3> HIDE DEF l
    <3> QED BY <1>1, <1>3, <2>1, <3>1, <3>2, BeginStep DEF Labels
  <2> QED BY <2>3, <2>4
<1> QED BY <1>2, <1>3

\* llfree_get of a given frame begins.
LEMMA GetAtStep ==
    ASSUME IInv, NEW t \in Threads, NEW r \in Calls, GetAt(t, r)
    PROVE  IInv'
<1>1. /\ r.op = "get_at" /\ Begin(t, r) /\ held' \in [Trees -> Nat]
      /\ UNCHANGED <<counters, hand, spare, offline, restarts>>
  BY DEF GetAt, IInv, TypeInv, TypeOK
<1>2. CASE ~Valid(r)
  <2>1. Goto(t, "argument") /\ UNCHANGED loc
    BY <1>2 DEF GetAt
  <2>2. OpAt("argument", r.op)
    BY DEF OpAt
  <2> QED BY <1>1, <2>1, <2>2, LocStays, BeginStep DEF IInv, Labels, Done
<1>3. CASE Valid(r)
  <2>1. /\ OpAt("local", r.op) /\ OpAt("load", r.op)
    BY <1>1 DEF OpAt, Allocs
  <2>2. r \in Requests
    BY <1>1, CallsAssumption DEF Changes, NoCall
  <2>3. CASE r.local # NoLocal
    <3> DEFINE l == [NoLoc EXCEPT !.start = 0]
    <3>1. l \in LocType
      BY Defaults DEF LocType
    <3>2. SetLoc(t, l) /\ Goto(t, "local")
      BY <1>3, <2>3 DEF GetAt, UseLocal
    <3> HIDE DEF l
    <3> QED BY <1>1, <1>3, <2>1, <2>3, <3>1, <3>2, BeginStep DEF Labels
  <2>4. CASE r.local = NoLocal
    <3> DEFINE l == [NoLoc EXCEPT !.from = "tree", !.tree = r.tree, !.class = r.class]
    <3>1. l \in LocType /\ l.from = "tree"
      BY <1>3, <2>2, Defaults DEF LocType, Requests, Valid
    <3>2. SetLoc(t, l) /\ Goto(t, "load")
      BY <1>3, <2>4 DEF GetAt
    <3> HIDE DEF l
    <3> QED BY <1>1, <1>3, <2>1, <3>1, <3>2, BeginStep DEF Labels
  <2> QED BY <2>3, <2>4
<1> QED BY <1>2, <1>3

\* llfree_put begins.
LEMMA PutStep ==
    ASSUME IInv, NEW t \in Threads, NEW r \in Calls, Put(t, r)
    PROVE  IInv'
<1> DEFINE l == [NoLoc EXCEPT !.from = "put"]
<1>1. /\ r.op = "put" /\ Begin(t, r) /\ SetLoc(t, l) /\ l \in LocType /\ l.from = "put"
      /\ UNCHANGED <<counters, hand, spare, offline, restarts>>
  BY Defaults DEF Put, LocType
<1> HIDE DEF l
<1>2. CASE ~Valid(r)
  <2>1. Goto(t, "argument") /\ held' \in [Trees -> Nat]
    BY <1>2 DEF Put, IInv, TypeInv, TypeOK
  <2>2. OpAt("argument", r.op)
    BY DEF OpAt
  <2> QED BY <1>1, <2>1, <2>2, BeginStep DEF Labels, Done
<1>3. CASE Valid(r)
  <2>1. r \in Requests
    BY <1>1, CallsAssumption DEF Changes, NoCall
  <2>2. held[r.tree] - r.n \in Nat
    BY <2>1 DEF Put, IInv, TypeInv, TypeOK, Requests
  <2>3. Goto(t, "put") /\ held' \in [Trees -> Nat]
    BY <1>3, <2>2 DEF Put, IInv, TypeInv, TypeOK
  <2>4. OpAt("put", r.op)
    BY <1>1 DEF OpAt, Allocs
  <2> QED BY <1>1, <1>3, <2>3, <2>4, BeginStep DEF Labels
<1> QED BY <1>2, <1>3

\* llfree_drain begins.
LEMMA DrainStep ==
    ASSUME IInv, NEW t \in Threads, NEW r \in Calls, Drain(t, r)
    PROVE  IInv'
<1> DEFINE l == [NoLoc EXCEPT !.left = Slots]
<1>1. /\ r.op = "drain" /\ Begin(t, r) /\ SetLoc(t, l) /\ Goto(t, "drain")
      /\ l \in LocType /\ held' \in [Trees -> Nat]
      /\ UNCHANGED <<counters, hand, spare, offline, restarts>>
  BY Defaults DEF Drain, LocType, IInv, TypeInv, TypeOK
<1> HIDE DEF l
<1>2. OpAt("drain", r.op) /\ r.op \notin Allocs
  BY <1>1 DEF OpAt, Allocs
<1> QED BY <1>1, <1>2, BeginStep DEF Labels

\* llfree_change_tree begins.
LEMMA ChangeStep ==
    ASSUME IInv, NEW t \in Threads, NEW r \in Calls, Change(t, r)
    PROVE  IInv'
<1>1. /\ r.op = "change" /\ Begin(t, r) /\ held' \in [Trees -> Nat]
      /\ UNCHANGED <<counters, hand, spare, offline, restarts>>
  BY DEF Change, IInv, TypeInv, TypeOK
<1>2. OpAt("change", r.op) /\ OpAt("memory", r.op) /\ r.op \notin Allocs
  BY <1>1 DEF OpAt, Allocs
<1>3. CASE r.match.free > TREE_SIZE \/ r.match.id >= TreeCount
  <2>1. Goto(t, "memory") /\ UNCHANGED loc
    BY <1>3 DEF Change
  <2> QED BY <1>1, <1>2, <2>1, LocStays, BeginStep DEF IInv, Labels, Done
<1>4. CASE ~(r.match.free > TREE_SIZE \/ r.match.id >= TreeCount)
  <2> DEFINE i == IF r.match.id = NoTree THEN Position(0, 0) ELSE r.match.id
             l == [NoLoc EXCEPT !.tree = i]
  <2>1. r \in Changes
    BY <1>1, CallsAssumption DEF Requests, NoCall
  <2>2. r.match.id \in Nat \cup {NoTree}
    BY <2>1 DEF Changes
  <2>3. r.match.id # NoTree => r.match.id \in Trees
    BY <1>4, <2>2, TreesExist DEF Trees
  <2>4. i \in Trees
    BY <2>3, PositionInTrees
  <2>5. SetLoc(t, l) /\ Goto(t, "change")
    BY <1>4 DEF Change
  <2> HIDE DEF i
  <2>6. l \in LocType
    BY <2>4, Defaults DEF LocType
  <2> HIDE DEF l
  <2> QED BY <1>1, <1>2, <2>5, <2>6, BeginStep DEF Labels
<1> QED BY <1>3, <1>4

\* A call returns: it has no reservation in hand.
LEMMA ReturnStep ==
    ASSUME IInv, NEW t \in Threads, Return(t)
    PROVE  IInv'
<1>1. /\ pc[t] \in Done /\ ~hand[t].present /\ ~spare[t].present
  <2>1. pc[t] \in Done
    BY DEF Return, At
  <2> QED BY <2>1 DEF IInv, PhaseOK, Phase, InHand, Done
<1>2. \A i \in Trees : Given(t, i) \in Nat
  <2>1. call[t].op \in Allocs => call[t].n \in Nat
    BY CallFields DEF IInv
  <2> QED BY <2>1 DEF Given, Allocs
<1>3. held' \in [Trees -> Nat]
  BY <1>2 DEF Return, IInv, TypeInv, TypeOK
<1>4. /\ pc'[t] = "idle" /\ call'[t] = NoCall /\ loc'[t] = NoLoc /\ hand'[t] = Nothing
      /\ Others(t) /\ UNCHANGED <<counters, spare>>
  BY DEF Return, IInv, TypeInv, TypeOK, SetLoc, Goto, Hold, Others
<1>5. TypeInv'
  BY <1>3, Defaults DEF Return, IInv, TypeInv, TypeOK, SetLoc, Goto, Hold, counters, Labels
<1>6. PhaseOK'
  <2>1. Phase("idle", NoCall, NoLoc, Nothing, spare[t])
    BY <1>1, Defaults DEF Phase, OpAt, Origin, SlotNeeded, InHand, Allocs
  <2> QED BY <1>4, <2>1, PhaseStep DEF IInv
<1>7. ReservedOnce'
  <2>1. ASSUME NEW u \in Threads
        PROVE  Same(hand[u], hand'[u]) /\ Same(spare[u], spare'[u])
    <3>1. hand'[t].present = FALSE /\ hand[t].present = FALSE /\ spare'[u] = spare[u]
      BY <1>1, <1>4, Defaults, ThreadFields DEF IInv, Nothing, Reservation
    <3>2. CASE u = t
      BY <3>1, <3>2 DEF Same
    <3>3. CASE u # t
      BY <1>4, <3>1, <3>3 DEF Same, Others
    <3> QED BY <3>2, <3>3
  <2>2. /\ Marks' = Marks
        /\ \A s \in Slots : Same(slots[s], slots'[s])
    BY <1>4 DEF Same, counters, Marks
  <2> QED BY <2>1, <2>2, OnceKept DEF IInv
<1> QED BY <1>5, <1>6, <1>7 DEF IInv

-----------------------------------------------------------------------------
(* Searches. *)

Candidates == Seq([priority : Nat, tree : Trees])

\* A rating has a priority.
LEMMA RatePriority ==
    ASSUME TypeInv, NEW t \in Threads, call[t].class \in Classes, NEW i \in Trees
    PROVE  Rate(t, trees[i]).priority \in Nat
<1>1. trees[i].class \in Classes /\ trees[i].free \in 0 .. TREE_SIZE
  BY DEF TypeInv, TypeOK, Entries
<1>2. Policy(call[t].class, trees[i].class, trees[i].free).priority \in Nat
  <2>1. ASSUME NEW r \in Classes, NEW c \in Classes, NEW f \in 0 .. TREE_SIZE
        PROVE  Policy(r, c, f).priority \in 0 .. PERFECT
    BY TreeAssumption, Zenon
  <2>2. Policy(call[t].class, trees[i].class, trees[i].free).priority \in 0 .. PERFECT
    BY <1>1, <2>1
  <2> QED BY <2>2 DEF PERFECT
<1>3. PERFECT \in Nat
  BY DEF PERFECT
<1> QED BY <1>2, <1>3 DEF Rate, PolicyResult

\* The remembered candidates are trees, however many are remembered.
LEMMA InsertCandidates ==
    ASSUME NEW best \in Candidates, NEW priority \in Nat, NEW i \in Trees
    PROVE  Insert(best, priority, i) \in Candidates
<1> DEFINE C == [priority : Nat, tree : Trees]
           K == {b \in DOMAIN best : best[b].priority >= priority}
           k == Cardinality(K)
           one == <<[priority |-> priority, tree |-> i]>>
           all == SubSeq(best, 1, k) \o one \o SubSeq(best, k + 1, Len(best))
<1>1. k \in Nat /\ k <= Len(best)
  <2>1. DOMAIN best = 1 .. Len(best) /\ Len(best) \in Nat
    BY DEF Candidates
  <2>2. IsFiniteSet(1 .. Len(best)) /\ Cardinality(1 .. Len(best)) = Len(best)
    <3>1. ASSUME NEW n \in Nat
          PROVE  IsFiniteSet(1 .. n) /\ Cardinality(1 .. n) = n
      <4>1. 1 \in Int /\ n \in Int
        OBVIOUS
      <4>2. IsFiniteSet(1 .. n) /\ Cardinality(1 .. n) = IF 1 > n THEN 0 ELSE n - 1 + 1
        BY <4>1, FS_Interval
      <4> QED BY <4>2
    <3> QED BY <2>1, <3>1
  <2>3. K \subseteq 1 .. Len(best)
    BY <2>1
  <2> HIDE DEF K
  <2> QED BY <2>2, <2>3, FS_Subset, FS_CardinalityType
<1> HIDE DEF k
<1>2. one \in Seq(C)
  OBVIOUS
<1>3. SubSeq(best, 1, k) \in Seq(C) /\ SubSeq(best, k + 1, Len(best)) \in Seq(C)
  <2>1. best \in Seq(C) /\ Len(best) \in Nat
    BY DEF Candidates
  <2>2. \A x \in 1 .. Len(best) : best[x] \in C
    BY <2>1, ElementOfSeq
  <2> QED BY <1>1, <2>1, <2>2, SubSeqProperties
<1> HIDE DEF one, C
<1>4. all \in Seq(C)
  BY <1>2, <1>3, ConcatProperties
<1> HIDE DEF all
<1>5. SubSeq(all, 1, IF Len(all) < SEARCH_BEST THEN Len(all) ELSE SEARCH_BEST) \in Seq(C)
  <2>1. SEARCH_BEST \in Nat \ {0} /\ Len(all) \in Nat
    BY <1>4, UpperAssumption
  <2>2. \A x \in 1 .. Len(all) : all[x] \in C
    BY <1>4, ElementOfSeq
  <2> QED BY <1>4, <2>1, <2>2, SubSeqProperties
<1> QED BY <1>5 DEF Insert, all, k, one, C, Candidates

\* A position with the next candidates, or with other ones.
LEMMA LocUpdate ==
    ASSUME NEW l \in LocType
    PROVE  /\ [l EXCEPT !.i = @ + 1] \in LocType
           /\ \A b \in Candidates : [l EXCEPT !.best = b] \in LocType
           /\ \A e \in Entries, c \in Classes :
                 [l EXCEPT !.seen = e, !.class = c] \in LocType
           /\ \A e \in Entries : [l EXCEPT !.seen = e] \in LocType
           /\ \A i \in Trees : [l EXCEPT !.tree = i] \in LocType
           /\ \A f \in 0 .. TREE_SIZE : [l EXCEPT !.free = f] \in LocType
           /\ \A i \in Trees, f \in 0 .. TREE_SIZE :
                 [l EXCEPT !.tree = i, !.free = f] \in LocType
           /\ \A L \in SUBSET Slots : [l EXCEPT !.left = L] \in LocType
           /\ \A L \in SUBSET Slots, c \in Classes :
                 [l EXCEPT !.left = L, !.class = c] \in LocType
<1> DEFINE B == Seq([priority : Nat, tree : Trees])
<1>1. LocType =
        [from : {"local", "search", "steal", "tree", "demote", "put"}, sync : BOOLEAN,
         start : Int, phase : {"near", "global", "any"}, i : Nat,
         best : B, tree : Trees,
         left : SUBSET Slots, class : Classes, seen : Entries, free : 0 .. TREE_SIZE]
  BY DEF LocType
<1>2. Candidates = B
  BY DEF Candidates
<1> HIDE DEF B
<1>3. [l EXCEPT !.i = @ + 1] \in LocType
  BY <1>1
<1>4. \A b \in Candidates : [l EXCEPT !.best = b] \in LocType
  BY <1>1, <1>2
<1>5. /\ \A e \in Entries, c \in Classes :
            [l EXCEPT !.seen = e, !.class = c] \in LocType
      /\ \A e \in Entries : [l EXCEPT !.seen = e] \in LocType
  BY <1>1
<1>6. /\ \A i \in Trees : [l EXCEPT !.tree = i] \in LocType
      /\ \A f \in 0 .. TREE_SIZE : [l EXCEPT !.free = f] \in LocType
      /\ \A i \in Trees, f \in 0 .. TREE_SIZE :
            [l EXCEPT !.tree = i, !.free = f] \in LocType
  BY <1>1
<1>7. /\ \A L \in SUBSET Slots : [l EXCEPT !.left = L] \in LocType
      /\ \A L \in SUBSET Slots, c \in Classes :
            [l EXCEPT !.left = L, !.class = c] \in LocType
  BY <1>1
<1> QED BY <1>3, <1>4, <1>5, <1>6, <1>7

\* trees_search_best looks at the next tree.
LEMMA ScanStep ==
    ASSUME IInv, NEW t \in Threads, Scan(t)
    PROVE  IInv'
<1> DEFINE i == Position(loc[t].start, loc[t].i)
           l == [loc[t] EXCEPT !.i = @ + 1]
           b == Insert(loc[t].best, Rate(t, trees[i]).priority, i)
           m == [l EXCEPT !.best = b]
<1>1. /\ pc[t] = "scan"
      /\ UNCHANGED <<trees, slots, room, call, hand, spare, held, offline, restarts>>
  BY DEF Scan, At, counters
<1>2. /\ Running(t) /\ ~hand[t].present /\ ~spare[t].present
      /\ call[t].class \in Classes
      /\ loc[t].phase # "any" => call[t].local # NoLocal
  BY <1>1, RunningThread DEF SlotNeeded, InHand
<1>3. i \in Trees
  BY LocFields, PositionInTrees DEF IInv
<1> HIDE DEF i
<1>4. l \in LocType /\ l.phase = loc[t].phase
  <2>1. l \in LocType
    BY LocFields, LocUpdate DEF IInv
  <2> QED BY <2>1, LocFields DEF IInv, LocType
<1>5. b \in Candidates
  BY <1>2, <1>3, LocFields, RatePriority, InsertCandidates DEF IInv, Candidates
<1> HIDE DEF b
<1>6. m \in LocType /\ m.phase = loc[t].phase
  <2> HIDE DEF l
  <2>1. m \in LocType
    BY <1>4, <1>5, LocUpdate
  <2> QED BY <1>4, <2>1 DEF LocType
<1>7. Reaches(t)
  <2>1. \/ SetLoc(t, l) /\ UNCHANGED pc
        \/ Try(t, l, i)
        \/ SetLoc(t, m) /\ UNCHANGED pc
    BY DEF Scan, i, b
  <2> HIDE DEF l, m
  <2>2. UNCHANGED pc => Goto(t, "scan")
    BY <1>1 DEF Goto, IInv, TypeInv, TypeOK
  <2>3. ASSUME NEW n \in LocType, n.phase = loc[t].phase, SetLoc(t, n), UNCHANGED pc
        PROVE  Reaches(t)
    BY <1>2, <2>2, <2>3, ReachesLabel DEF IInv
  <2>4. CASE Try(t, l, i)
    BY <1>2, <1>3, <1>4, <2>4, TryReaches DEF IInv
  <2> QED BY <1>4, <1>6, <2>1, <2>3, <2>4
<1> QED BY <1>1, <1>2, <1>7, ReachesStep

\* trees_search_best tries a candidate or ends.
LEMMA PickStep ==
    ASSUME IInv, NEW t \in Threads, Pick(t)
    PROVE  IInv'
<1>1. /\ pc[t] = "scan"
      /\ UNCHANGED <<trees, slots, room, call, hand, spare, held, offline, restarts>>
  BY DEF Pick, At, counters
<1>2. /\ Running(t) /\ ~hand[t].present /\ ~spare[t].present
      /\ loc[t].phase # "any" => call[t].local # NoLocal
  BY <1>1, RunningThread DEF SlotNeeded, InHand
<1>3. CASE loc[t].best # <<>>
  <2> DEFINE l == [loc[t] EXCEPT !.best = Tail(@)]
             i == Head(loc[t].best).tree
  <2>1. i \in Trees /\ Tail(loc[t].best) \in Candidates
    <3>1. ASSUME NEW C, NEW q \in Seq(C), q # <<>>
          PROVE  Head(q) \in C /\ Tail(q) \in Seq(C)
      BY <3>1, HeadTailProperties
    <3> DEFINE C == [priority : Nat, tree : Trees]
    <3>2. loc[t].best \in Seq(C)
      BY LocFields DEF IInv
    <3> HIDE DEF C
    <3>3. Head(loc[t].best) \in C /\ Tail(loc[t].best) \in Seq(C)
      BY <1>3, <3>1, <3>2
    <3> QED BY <3>3 DEF C, Candidates
  <2>2. l \in LocType /\ l.phase = loc[t].phase
    <3>1. l \in LocType
      BY <2>1, LocFields, LocUpdate DEF IInv
    <3> QED BY <3>1, LocFields DEF IInv, LocType
  <2>3. Try(t, l, i)
    BY <1>3 DEF Pick
  <2> HIDE DEF l, i
  <2>4. Reaches(t)
    BY <1>2, <2>1, <2>2, <2>3, TryReaches DEF IInv
  <2> QED BY <1>1, <1>2, <2>4, ReachesStep
<1>4. CASE loc[t].best = <<>> /\ loc[t].phase = "near"
  <2>1. SearchFrom(t, loc[t].start, "global")
    BY <1>4 DEF Pick
  <2>2. Reaches(t)
    BY <1>2, <1>4, <2>1, LocFields, SearchFromReaches DEF IInv
  <2> QED BY <1>1, <1>2, <2>2, ReachesStep
<1>5. CASE loc[t].best = <<>> /\ loc[t].phase # "near"
  <2>1. StealLocal(t)
    BY <1>5 DEF Pick
  <2>2. Reaches(t)
    BY <1>2, <2>1, OutOfMemoryReaches DEF IInv
  <2> QED BY <1>1, <1>2, <2>2, ReachesStep
<1> QED BY <1>3, <1>4, <1>5

-----------------------------------------------------------------------------
(* Steps in general, and the values they write. *)

SetSpare(t, s) == spare' = [spare EXCEPT ![t] = s]

\* UNCHANGED hand or spare, as a step of t.
LEMMA HandStays ==
    ASSUME TypeInv, NEW t \in Threads
    PROVE  /\ hand[t] \in Reservations /\ spare[t] \in Reservations
           /\ UNCHANGED hand => Hold(t, hand[t])
           /\ UNCHANGED spare => SetSpare(t, spare[t])
BY DEF TypeInv, TypeOK, Hold, SetSpare

\* A step to a given label and position.
LEMMA MovesTo ==
    ASSUME TypeInv, NEW t \in Threads, NEW p \in Labels, Goto(t, p),
           NEW l \in LocType, SetLoc(t, l)
    PROVE  Moved(t) /\ pc'[t] = p /\ loc'[t] = l
BY DEF TypeInv, TypeOK, Goto, SetLoc, Moved

\* A step of t within its call preserves the invariant.
LEMMA Stepped ==
    ASSUME IInv, NEW t \in Threads, Moved(t), UNCHANGED <<call, restarts>>,
           NEW h \in Reservations, Hold(t, h), NEW s \in Reservations, SetSpare(t, s),
           Phase(pc'[t], call[t], loc'[t], h, s),
           trees' \in [Trees -> Entries], slots' \in [Slots -> Reservations],
           room' \in [Trees -> 0 .. TREE_SIZE], held' \in [Trees -> Nat],
           offline' \in SUBSET Trees, ReservedOnce'
    PROVE  IInv'
<1>1. /\ hand' \in [Threads -> Reservations] /\ hand'[t] = h
      /\ spare' \in [Threads -> Reservations] /\ spare'[t] = s
      /\ Others(t)
  BY DEF IInv, TypeInv, TypeOK, Hold, SetSpare, Moved, Others
<1>2. TypeInv'
  BY <1>1 DEF IInv, TypeInv, TypeOK, Moved
<1>3. Phase(pc'[t], call'[t], loc'[t], hand'[t], spare'[t])
  BY <1>1
<1> QED BY <1>1, <1>2, <1>3, PhaseStep DEF IInv

\* A step of t changes only what t and slot s hold.
LEMMA Elsewhere ==
    ASSUME TypeInv, NEW t \in Threads, NEW s, NEW h, Hold(t, h), NEW r, SetSpare(t, r),
           \A q \in Slots \ {s} : slots'[q] = slots[q]
    PROVE  \A g \in Holders \ {<<"slot", s>>, <<"hand", t>>, <<"spare", t>>} :
              Same(HeldBy(g), HeldBy(g)')
<1>1. \A u \in Threads \ {t} : hand'[u] = hand[u] /\ spare'[u] = spare[u]
  BY DEF TypeInv, TypeOK, Hold, SetSpare
<1>2. ASSUME NEW g \in Holders, g # <<"slot", s>>, g # <<"hand", t>>, g # <<"spare", t>>
      PROVE  HeldBy(g)' = HeldBy(g)
  <2>1. CASE \E q \in Slots : g = <<"slot", q>>
    <3>1. PICK q \in Slots : g = <<"slot", q>>
      BY <2>1
    <3>2. slots'[q] = slots[q]
      BY <1>2, <3>1
    <3> QED BY <3>1, <3>2, HolderKinds
  <2>2. CASE \E u \in Threads : g = <<"hand", u>> \/ g = <<"spare", u>>
    <3>1. PICK u \in Threads : g = <<"hand", u>> \/ g = <<"spare", u>>
      BY <2>2
    <3>2. u # t
      BY <1>2, <3>1
    <3>3. hand'[u] = hand[u] /\ spare'[u] = spare[u]
      BY <1>1, <3>2
    <3>4. CASE g = <<"hand", u>>
      BY <3>3, <3>4, HolderKinds
    <3>5. CASE g = <<"spare", u>>
      BY <3>3, <3>5, HolderKinds
    <3> QED BY <3>1, <3>4, <3>5
  <2> QED BY <2>1, <2>2, HolderKinds
<1> QED BY <1>2 DEF Same

\* A step that keeps what is reserved and by whom.
LEMMA KeptBy ==
    ASSUME TypeInv, ReservedOnce, Marks' = Marks, NEW t \in Threads,
           NEW h \in Reservations, Hold(t, h), Same(hand[t], h),
           NEW r \in Reservations, SetSpare(t, r), Same(spare[t], r),
           \A s \in Slots : Same(slots[s], slots'[s])
    PROVE  ReservedOnce'
<1>1. \A u \in Threads : Same(hand[u], hand'[u]) /\ Same(spare[u], spare'[u])
  BY DEF TypeInv, TypeOK, Hold, SetSpare, Same
<1> QED BY <1>1, OnceKept

\* The counter of an entry is set.
LEMMA EntryFree ==
    ASSUME NEW e \in Entries
    PROVE  /\ e.free \in 0 .. TREE_SIZE /\ e.class \in Classes /\ e.reserved \in BOOLEAN
           /\ \A f \in 0 .. TREE_SIZE : [e EXCEPT !.free = f] \in Entries
BY DEF Entries

\* tree_put keeps the reservation of a tree and the bounds of its counter.
LEMMA TreePutType ==
    ASSUME NEW e \in Entries, NEW n \in Nat, CanPut(e, n)
    PROVE  TreePut(e, n) \in Entries /\ TreePut(e, n).reserved = e.reserved
<1>1. e.free + n \in 0 .. TREE_SIZE
  BY EntryFree, Constants DEF CanPut
<1> QED BY <1>1, Constants DEF TreePut, Entries

\* tree_unreserve_add releases a tree and keeps the bounds of its counter.
LEMMA UnreserveType ==
    ASSUME NEW e \in Entries, NEW n \in Nat, CanPut(e, n), NEW class \in Classes
    PROVE  /\ TreeUnreserve(e, n, class) \in Entries
           /\ TreeUnreserve(e, n, class).reserved = FALSE
<1>1. ASSUME NEW c \in Classes
      PROVE  [e EXCEPT !.reserved = FALSE, !.class = c] \in Entries
  BY DEF Entries
<1>2. ASSUME NEW c \in Classes
      PROVE  LET f == [e EXCEPT !.reserved = FALSE, !.class = c]
             IN  CanPut(f, n) /\ f.reserved = FALSE
  BY DEF CanPut, Entries
<1>3. (IF Policy(class, e.class, n).type = "demote" THEN class ELSE e.class) \in Classes
  BY EntryFree
<1> QED BY <1>1, <1>2, <1>3, TreePutType DEF TreeUnreserve

\* One entry is written.
LEMMA EntryWritten ==
    ASSUME TypeInv, NEW i \in Trees, NEW e \in Entries, trees' = [trees EXCEPT ![i] = e]
    PROVE  /\ trees' \in [Trees -> Entries]
           /\ e.reserved = trees[i].reserved => Marks' = Marks
           /\ Marks' = [Marks EXCEPT ![i] = e.reserved]
BY DEF TypeInv, TypeOK, Marks

-----------------------------------------------------------------------------
(* trees_steal. *)

\* An attempt to steal from a tree, with what is loaded of its entry.
LEMMA StealFromReaches ==
    ASSUME TypeInv, NEW t \in Threads, Running(t), NEW e \in Entries, StealFrom(t, e),
           loc[t].from \in {"tree", "search"},
           loc[t].from = "search" /\ loc[t].phase # "any" => call[t].local # NoLocal
    PROVE  Reaches(t)
<1>1. CASE CanSteal(e, loc[t].class, call[t].n)
  <2> DEFINE c == ClassAfterSteal(e, loc[t].class)
             l == [loc[t] EXCEPT !.seen = e, !.class = c]
  <2>1. c \in Classes
    BY LocFields, EntryFree DEF ClassAfterSteal
  <2>2. SetLoc(t, l) /\ Goto(t, "steal_cas")
    BY <1>1 DEF StealFrom
  <2> HIDE DEF c
  <2>3. l \in LocType /\ l.from = loc[t].from /\ l.phase = loc[t].phase /\ l.seen = e
    <3>1. l \in LocType
      BY <2>1, LocFields, LocUpdate
    <3> QED BY <3>1, LocFields DEF LocType
  <2>4. e.free >= call[t].n
    BY <1>1 DEF CanSteal
  <2> HIDE DEF l
  <2>5. Moved(t) /\ pc'[t] = "steal_cas" /\ loc'[t] = l
    BY <2>2, <2>3, MovesTo DEF Labels
  <2>6. ASSUME NEW h \in Reservations, NEW s \in Reservations, ~h.present, ~s.present
        PROVE  Phase("steal_cas", call[t], l, h, s)
    <3>1. OpAt("steal_cas", call[t].op) /\ Origin("steal_cas", l)
      BY <2>3 DEF OpAt, Origin, Running
    <3>2. SlotNeeded("steal_cas", l, h) => call[t].local # NoLocal
      BY <2>3 DEF SlotNeeded
    <3>3. InHand("steal_cas", call[t], l, h, s)
      BY <2>3, <2>4, <2>6 DEF InHand
    <3> QED BY <3>1, <3>2, <3>3 DEF Phase, Running
  <2> QED BY <2>5, <2>6 DEF Reaches
<1>2. CASE ~CanSteal(e, loc[t].class, call[t].n) /\ loc[t].from = "search"
  <2>1. SetLoc(t, loc[t]) /\ Goto(t, "scan")
    BY <1>2 DEF StealFrom
  <2> QED BY <1>2, <2>1, LocFields, ReachesLabel
<1>3. CASE ~CanSteal(e, loc[t].class, call[t].n) /\ loc[t].from # "search"
  <2>1. StealLocal(t)
    BY <1>3 DEF StealFrom
  <2> QED BY <2>1, OutOfMemoryReaches
<1> QED BY <1>1, <1>2, <1>3

\* trees_steal loads the entry.
LEMMA StealLoadStep ==
    ASSUME IInv, NEW t \in Threads, StealLoad(t)
    PROVE  IInv'
<1>1. /\ pc[t] = "load" /\ StealFrom(t, trees[loc[t].tree])
      /\ UNCHANGED <<trees, slots, room, call, hand, spare, held, offline, restarts>>
  BY DEF StealLoad, At, counters
<1>2. /\ Running(t) /\ ~hand[t].present /\ ~spare[t].present
      /\ loc[t].from \in {"tree", "search"}
      /\ loc[t].from = "search" /\ loc[t].phase # "any" => call[t].local # NoLocal
  BY <1>1, RunningThread DEF SlotNeeded, InHand, Origin
<1>3. trees[loc[t].tree] \in Entries
  BY LocFields DEF IInv, TypeInv, TypeOK
<1>4. Reaches(t)
  BY <1>1, <1>2, <1>3, StealFromReaches DEF IInv
<1> QED BY <1>1, <1>2, <1>4, ReachesStep

\* trees_steal exchanges the entry.
LEMMA StealCasStep ==
    ASSUME IInv, NEW t \in Threads, StealCas(t)
    PROVE  IInv'
<1> DEFINE i == loc[t].tree
           l == loc[t]
           n == call[t].n
           m == [l EXCEPT !.seen = NoLoc.seen]
           e == Entry(l.seen.reserved, l.class, l.seen.free - n)
           h == Reservation(FALSE, i, n)
<1>1. /\ pc[t] = "steal_cas"
      /\ UNCHANGED <<slots, room, call, spare, held, offline, restarts>>
  BY DEF StealCas, At
<1>2. /\ Running(t) /\ ~hand[t].present /\ ~spare[t].present
      /\ n \in Nat \ {0} /\ l.seen.free >= n
      /\ l.from \in {"tree", "search"}
      /\ l.from = "search" /\ l.phase # "any" => call[t].local # NoLocal
  BY <1>1, RunningThread DEF SlotNeeded, InHand, Origin
<1>3. /\ i \in Trees /\ l.class \in Classes /\ l.seen \in Entries /\ l \in LocType
      /\ trees[i] \in Entries
  BY LocFields DEF IInv, TypeInv, TypeOK
<1>4. CASE ~StillSeen(t)
  <2>1. StealFrom(t, trees[i]) /\ UNCHANGED <<trees, hand>>
    BY <1>4 DEF StealCas
  <2>2. Reaches(t)
    BY <1>2, <1>3, <2>1, StealFromReaches DEF IInv
  <2> QED BY <1>1, <1>2, <2>1, <2>2, ReachesStep
<1>5. CASE StillSeen(t)
  <2>1. /\ trees' = [trees EXCEPT ![i] = e] /\ Hold(t, h) /\ SetLoc(t, m)
        /\ Goto(t, "lower")
    BY <1>5 DEF StealCas
  <2>2. l.seen.free \in 0 .. TREE_SIZE /\ n \in 0 .. TREE_SIZE
    BY <1>2, <1>3, EntryFree, Constants
  <2>3. e \in Entries /\ e.reserved = trees[i].reserved
    <3>1. e \in Entries
      <4>1. l.seen.free - n \in 0 .. TREE_SIZE /\ l.seen.reserved \in BOOLEAN
        BY <1>2, <1>3, <2>2, EntryFree, Constants
      <4> QED BY <1>3, <4>1 DEF Entry, Entries
    <3>2. l.seen = trees[i]
      BY <1>5 DEF StillSeen
    <3> QED BY <3>1, <3>2 DEF Entry
  <2>4. h \in Reservations /\ ~h.present /\ h.free = n
    BY <1>3, <2>2 DEF Reservation, Reservations
  <2>5. m \in LocType /\ m.from = l.from /\ m.phase = l.phase
    <3>1. NoLoc.seen \in Entries
      BY Defaults DEF LocType
    <3>2. m \in LocType
      BY <1>3, <3>1, LocUpdate
    <3> QED BY <1>3, <3>2 DEF LocType
  <2>6. trees' \in [Trees -> Entries] /\ Marks' = Marks
    BY <1>3, <2>1, <2>3, EntryWritten DEF IInv
  <2> HIDE DEF e, h, m
  <2>7. SetSpare(t, spare[t]) /\ spare[t] \in Reservations /\ hand[t] \in Reservations
    BY <1>1, HandStays DEF IInv
  <2>8. ReservedOnce'
    <3>1. \A s \in Slots : Same(slots[s], slots'[s])
      BY <1>1 DEF Same
    <3>2. Same(hand[t], h) /\ Same(spare[t], spare[t])
      BY <1>2, <2>4, ThreadFields DEF Same, IInv, Reservations
    <3> QED BY <2>1, <2>4, <2>6, <2>7, <3>1, <3>2, KeptBy DEF IInv
  <2>9. Moved(t) /\ pc'[t] = "lower" /\ loc'[t] = m
    BY <2>1, <2>5, MovesTo DEF IInv, Labels
  <2>10. Phase("lower", call[t], m, h, spare[t])
    <3>1. OpAt("lower", call[t].op) /\ Origin("lower", m)
      BY <1>2 DEF OpAt, Origin, Running
    <3>2. SlotNeeded("lower", m, h) => call[t].local # NoLocal
      BY <1>2, <2>4, <2>5 DEF SlotNeeded
    <3>3. InHand("lower", call[t], m, h, spare[t])
      BY <1>2, <2>4 DEF InHand
    <3> QED BY <1>2, <3>1, <3>2, <3>3 DEF Phase, Running
  <2> QED BY <1>1, <2>1, <2>4, <2>6, <2>7, <2>8, <2>9, <2>10, Stepped
          DEF IInv, TypeInv, TypeOK
<1> QED BY <1>4, <1>5

-----------------------------------------------------------------------------
(* llfree_change_tree. *)

\* What holds of a call that changes a tree.
LEMMA ChangeThread ==
    ASSUME IInv, NEW t \in Threads, pc[t] \in {"change", "fetch", "change_cas"}
    PROVE  /\ call[t].op = "change" /\ call[t] \in Changes
           /\ ~hand[t].present /\ ~spare[t].present
<1>1. Phase(pc[t], call[t], loc[t], hand[t], spare[t])
  BY DEF IInv, PhaseOK
<1> QED BY <1>1, CallFields DEF Phase, OpAt, InHand, IInv

\* A change may go to any of its labels.
LEMMA ChangeReaches ==
    ASSUME TypeInv, NEW t \in Threads, call[t].op = "change", NEW l \in LocType,
           SetLoc(t, l), NEW p \in {"change", "fetch", "change_cas", "ok", "memory"},
           Goto(t, p)
    PROVE  Reaches(t)
<1>1. Moved(t) /\ pc'[t] = p /\ loc'[t] = l
  BY MovesTo DEF Labels, Done
<1>2. ASSUME NEW h \in Reservations, NEW s \in Reservations, ~h.present, ~s.present
      PROVE  Phase(p, call[t], l, h, s)
  BY <1>2 DEF Phase, OpAt, Origin, SlotNeeded, InHand, Allocs
<1> QED BY <1>1, <1>2 DEF Reaches

\* trees_change_at loads the entry.
LEMMA ChangeLoadStep ==
    ASSUME IInv, NEW t \in Threads, ChangeLoad(t)
    PROVE  IInv'
<1> DEFINE l == [loc[t] EXCEPT !.seen = trees[loc[t].tree]]
           p == IF call[t].change.operation = "online" THEN "fetch" ELSE "change_cas"
<1>1. /\ pc[t] = "change" /\ SetLoc(t, l) /\ Goto(t, p)
      /\ UNCHANGED <<trees, slots, room, call, hand, spare, held, offline, restarts>>
  BY DEF ChangeLoad, At, counters
<1>2. trees[loc[t].tree] \in Entries
  BY LocFields DEF IInv, TypeInv, TypeOK
<1>3. l \in LocType
  BY <1>2, LocFields, LocUpdate DEF IInv
<1>4. p \in {"fetch", "change_cas"}
  OBVIOUS
<1> HIDE DEF l, p
<1>5. Reaches(t)
  BY <1>1, <1>3, <1>4, ChangeThread, ChangeReaches DEF IInv
<1> QED BY <1>1, <1>5, ChangeThread, ReachesStep

\* The lower allocator is asked for the free frames.
LEMMA ChangeFetchStep ==
    ASSUME IInv, NEW t \in Threads, ChangeFetch(t)
    PROVE  IInv'
<1> DEFINE l == [loc[t] EXCEPT !.free = room[loc[t].tree]]
<1>1. /\ pc[t] = "fetch" /\ SetLoc(t, l) /\ Goto(t, "change_cas")
      /\ UNCHANGED <<trees, slots, room, call, hand, spare, held, offline, restarts>>
  BY DEF ChangeFetch, At, counters
<1>2. room[loc[t].tree] \in 0 .. TREE_SIZE
  BY LocFields DEF IInv, TypeInv, TypeOK
<1>3. l \in LocType
  BY <1>2, LocFields, LocUpdate DEF IInv
<1> HIDE DEF l
<1>5. Reaches(t)
  BY <1>1, <1>3, ChangeThread, ChangeReaches DEF IInv
<1> QED BY <1>1, <1>5, ChangeThread, ReachesStep

\* The next tree that may match, or none.
LEMMA ChangeNextReaches ==
    ASSUME TypeInv, NEW t \in Threads, call[t].op = "change", ChangeNext(t)
    PROVE  Reaches(t)
<1> DEFINE q == Position(0, loc[t].i + 1)
           l == [NoLoc EXCEPT !.i = loc[t].i + 1, !.tree = q]
<1>1. q \in Trees /\ loc[t].i + 1 \in Nat
  BY LocFields, PositionInTrees
<1> HIDE DEF q
<1>2. l \in LocType
  BY <1>1, Defaults DEF LocType
<1>3. \/ SetLoc(t, l) /\ Goto(t, "change")
      \/ SetLoc(t, NoLoc) /\ Goto(t, "memory")
  BY DEF ChangeNext, q
<1> HIDE DEF l
<1> QED BY <1>2, <1>3, Defaults, ChangeReaches

\* trees_change_at exchanges the entry of an unreserved tree.
LEMMA ChangeCasStep ==
    ASSUME IInv, NEW t \in Threads, ChangeCas(t)
    PROVE  IInv'
<1> DEFINE i == loc[t].tree
           change == call[t].change
           l == [loc[t] EXCEPT !.seen = trees[i]]
           e == Changed(trees[i], change, loc[t].free)
           p == IF change.operation = "online" THEN "fetch" ELSE "change_cas"
<1>1. /\ pc[t] = "change_cas"
      /\ UNCHANGED <<slots, room, call, hand, spare, held, restarts>>
  BY DEF ChangeCas, At
<1>2. /\ call[t].op = "change" /\ ~hand[t].present /\ ~spare[t].present
      /\ change.class \in Classes \cup {NoClass} /\ change.operation \in Operations
  BY <1>1, ChangeThread DEF Changes
<1>3. i \in Trees /\ trees[i] \in Entries /\ loc[t].free \in 0 .. TREE_SIZE
  BY LocFields DEF IInv, TypeInv, TypeOK
<1>4. CASE ~CanChange(loc[t].seen, call[t].match, change)
  <2>1. ChangeNext(t) /\ UNCHANGED <<trees, offline>>
    BY <1>4 DEF ChangeCas
  <2>2. Reaches(t)
    BY <1>2, <2>1, ChangeNextReaches DEF IInv
  <2> QED BY <1>1, <1>2, <2>1, <2>2, ReachesStep
<1>5. CASE CanChange(loc[t].seen, call[t].match, change) /\ ~StillSeen(t)
  <2>1. SetLoc(t, l) /\ Goto(t, p) /\ UNCHANGED <<trees, offline>>
    BY <1>5 DEF ChangeCas
  <2>2. l \in LocType
    BY <1>3, LocFields, LocUpdate DEF IInv
  <2>3. p \in {"fetch", "change_cas"}
    OBVIOUS
  <2> HIDE DEF l, p
  <2>4. Reaches(t)
    BY <1>2, <2>1, <2>2, <2>3, ChangeReaches DEF IInv
  <2> QED BY <1>1, <1>2, <2>1, <2>4, ReachesStep
<1>6. CASE CanChange(loc[t].seen, call[t].match, change) /\ StillSeen(t)
  <2>1. /\ trees' = [trees EXCEPT ![i] = e] /\ SetLoc(t, NoLoc) /\ Goto(t, "ok")
        /\ \/ offline' = offline \cup {i}
           \/ offline' = offline \ {i}
           \/ offline' = offline
    BY <1>6 DEF ChangeCas
  <2>2. e \in Entries /\ e.reserved = trees[i].reserved
    <3>1. ASSUME NEW g \in Entries, NEW c \in Classes, NEW f \in 0 .. TREE_SIZE
          PROVE  /\ [g EXCEPT !.class = c, !.free = f] \in Entries
                 /\ [g EXCEPT !.class = c, !.free = f].reserved = g.reserved
      BY DEF Entries
    <3>2. /\ (IF change.class = NoClass THEN trees[i].class ELSE change.class) \in Classes
          /\ (CASE change.operation = "none"    -> trees[i].free
                [] change.operation = "offline" -> 0
                [] change.operation = "online"  -> loc[t].free) \in 0 .. TREE_SIZE
      BY <1>2, <1>3, EntryFree, Constants DEF Operations
    <3> DEFINE c == IF change.class = NoClass THEN trees[i].class ELSE change.class
               f == CASE change.operation = "none"    -> trees[i].free
                      [] change.operation = "offline" -> 0
                      [] change.operation = "online"  -> loc[t].free
    <3>3. e = [trees[i] EXCEPT !.class = c, !.free = f]
      BY DEF Changed
    <3>4. c \in Classes /\ f \in 0 .. TREE_SIZE
      BY <3>2
    <3> HIDE DEF c, f, e
    <3> QED BY <1>3, <3>1, <3>3, <3>4
  <2>3. trees' \in [Trees -> Entries] /\ Marks' = Marks
    BY <1>3, <2>1, <2>2, EntryWritten DEF IInv
  <2> HIDE DEF e
  <2>4. /\ Hold(t, hand[t]) /\ hand[t] \in Reservations
        /\ SetSpare(t, spare[t]) /\ spare[t] \in Reservations
    BY <1>1, HandStays DEF IInv
  <2>5. ReservedOnce'
    BY <1>1, <2>3, OnceKept DEF Same, IInv
  <2>6. Reaches(t) /\ Moved(t)
    BY <1>2, <2>1, Defaults, ChangeReaches DEF IInv, Reaches
  <2>7. Phase(pc'[t], call[t], loc'[t], hand[t], spare[t])
    BY <1>2, <2>4, <2>6 DEF Reaches
  <2>8. offline' \in SUBSET Trees
    BY <1>3, <2>1 DEF IInv, TypeInv, TypeOK
  <2> QED BY <1>1, <2>3, <2>4, <2>5, <2>6, <2>7, <2>8, Stepped
          DEF IInv, TypeInv, TypeOK
<1> QED BY <1>4, <1>5, <1>6

-----------------------------------------------------------------------------
(* The slot of the request. *)

\* The counter of a slot is set.
LEMMA SlotCounted ==
    ASSUME TypeInv, NEW s \in Slots, NEW f \in 0 .. TREE_SIZE,
           slots' = [slots EXCEPT ![s].free = f]
    PROVE  /\ slots' \in [Slots -> Reservations]
           /\ \A q \in Slots : Same(slots[q], slots'[q])
<1>1. \A q \in Slots : slots[q] \in Reservations
  BY DEF TypeInv, TypeOK
<1>2. [slots[s] EXCEPT !.free = f] \in Reservations
  BY <1>1 DEF Reservations
<1>3. Same(slots[s], [slots[s] EXCEPT !.free = f])
  BY <1>1 DEF Reservations, Same
<1> QED BY <1>1, <1>2, <1>3 DEF TypeInv, TypeOK, Same

\* The fields of a slot.
LEMMA SlotFields ==
    ASSUME TypeInv, NEW s \in Slots
    PROVE  /\ slots[s] \in Reservations
           /\ slots[s].present \in BOOLEAN /\ slots[s].tree \in Trees
           /\ slots[s].tree \in Int /\ slots[s].free \in 0 .. TREE_SIZE
<1>1. slots[s] \in Reservations /\ Trees \subseteq Int
  BY DEF TypeInv, TypeOK, Trees
<1> QED BY <1>1 DEF Reservations

\* Frames in hand without the reservation of their tree.
LEMMA OnlyFrames ==
    ASSUME NEW i \in Trees, NEW n \in 0 .. TREE_SIZE
    PROVE  /\ Reservation(FALSE, i, n) \in Reservations
           /\ ~Reservation(FALSE, i, n).present
           /\ Reservation(FALSE, i, n).free = n /\ Reservation(FALSE, i, n).tree = i
BY DEF Reservation, Reservations

\* A call with a slot, and no reservation in hand, may go to these labels.
LEMMA SlotPhase ==
    ASSUME NEW t \in Threads, Running(t), call[t].local # NoLocal, NEW l, NEW h, NEW s,
           ~h.present, ~s.present,
           NEW p \in {"local", "sync", "sync_put", "lower", "give_back", "abort", "ok"},
           p = "lower" => h.free >= call[t].n
    PROVE  Phase(p, call[t], l, h, s)
<1>1. OpAt(p, call[t].op) /\ Origin(p, l)
  BY DEF OpAt, Origin, Running
<1>2. InHand(p, call[t], l, h, s)
  BY DEF InHand
<1> QED BY <1>1, <1>2 DEF Phase, Running

\* ll_local_get.
LEMMA LocalGetStep ==
    ASSUME IInv, NEW t \in Threads, LocalGet(t)
    PROVE  IInv'
<1> DEFINE s == SlotOf(t)
           r == slots[s]
           n == call[t].n
           h == Reservation(FALSE, r.tree, n)
           l == [loc[t] EXCEPT !.tree = r.tree]
           m == [loc[t] EXCEPT !.tree = r.tree, !.free = r.free]
<1>1. pc[t] = "local" /\ UNCHANGED <<trees, room, call, spare, held, offline, restarts>>
  BY DEF LocalGet, At
<1>2. /\ Running(t) /\ call[t].local # NoLocal /\ s \in Slots /\ n \in Nat \ {0}
      /\ ~hand[t].present /\ ~spare[t].present
  BY <1>1, RunningThread DEF SlotNeeded, InHand
<1>3. /\ r \in Reservations /\ r.present \in BOOLEAN /\ r.tree \in Trees /\ r.tree \in Int
      /\ r.free \in 0 .. TREE_SIZE
  BY <1>2, SlotFields DEF IInv
<1>4. l \in LocType /\ m \in LocType
  BY <1>3, LocFields, LocUpdate DEF IInv
<1>5. SetSpare(t, spare[t]) /\ spare[t] \in Reservations /\ hand[t] \in Reservations
  BY <1>1, HandStays DEF IInv
<1>6. CASE Fits(t, r)
  <2>1. /\ slots' = [slots EXCEPT ![s].free = r.free - n]
        /\ Hold(t, h) /\ SetLoc(t, l) /\ Goto(t, "lower")
    BY <1>6 DEF LocalGet
  <2>2. r.free - n \in 0 .. TREE_SIZE /\ n \in 0 .. TREE_SIZE
    BY <1>2, <1>3, <1>6, Constants DEF Fits
  <2>3. h \in Reservations /\ ~h.present /\ h.free = n
    BY <1>3, <2>2, OnlyFrames
  <2> HIDE DEF h, l, s
  <2>4. slots' \in [Slots -> Reservations] /\ \A q \in Slots : Same(slots[q], slots'[q])
    BY <1>2, <2>1, <2>2, SlotCounted DEF IInv
  <2>5. Moved(t) /\ pc'[t] = "lower" /\ loc'[t] = l
    BY <1>4, <2>1, MovesTo DEF IInv, Labels
  <2>6. Phase("lower", call[t], l, h, spare[t])
    BY <1>2, <2>3, SlotPhase
  <2>7. ReservedOnce'
    <3>1. Same(hand[t], h) /\ Same(spare[t], spare[t])
      BY <1>2, <2>3, ThreadFields DEF Same, IInv, Reservations
    <3>2. Marks' = Marks
      BY <1>1 DEF Marks
    <3> QED BY <1>5, <2>1, <2>3, <2>4, <3>1, <3>2, KeptBy DEF IInv
  <2> QED BY <1>1, <1>5, <2>1, <2>3, <2>4, <2>5, <2>6, <2>7, Stepped
          DEF IInv, TypeInv, TypeOK
<1>7. CASE ~Fits(t, r) /\ (loc[t].sync /\ r.present /\ r.free < n)
  <2>1. SetLoc(t, m) /\ Goto(t, "sync") /\ UNCHANGED <<slots, hand>>
    BY <1>7 DEF LocalGet
  <2> HIDE DEF m
  <2>2. Moved(t) /\ pc'[t] = "sync" /\ loc'[t] = m
    BY <1>4, <2>1, MovesTo DEF IInv, Labels
  <2>3. \A g, q \in Reservations : ~g.present /\ ~q.present
           => Phase("sync", call[t], m, g, q)
    BY <1>2, SlotPhase
  <2>4. Reaches(t)
    BY <2>2, <2>3 DEF Reaches
  <2> QED BY <1>1, <1>2, <2>1, <2>4, ReachesStep
<1>8. CASE ~Fits(t, r) /\ ~(loc[t].sync /\ r.present /\ r.free < n)
  <2> DEFINE start == IF r.present THEN r.tree ELSE loc[t].start
  <2>1. LocalMiss(t, start) /\ UNCHANGED <<slots, hand>>
    BY <1>8 DEF LocalGet
  <2>2. start \in Int
    BY <1>3, LocFields DEF IInv
  <2> HIDE DEF start
  <2>3. Reaches(t)
    BY <1>2, <2>1, <2>2, LocalMissReaches DEF IInv
  <2> QED BY <1>1, <1>2, <2>1, <2>3, ReachesStep
<1> QED BY <1>6, <1>7, <1>8

\* sync_with_global.
LEMMA SyncStealStep ==
    ASSUME IInv, NEW t \in Threads, SyncSteal(t)
    PROVE  IInv'
<1> DEFINE i == loc[t].tree
           e == [trees[i] EXCEPT !.free = 0]
           h == Reservation(FALSE, i, trees[i].free)
<1>1. pc[t] = "sync" /\ UNCHANGED <<slots, room, call, spare, held, offline, restarts>>
  BY DEF SyncSteal, At
<1>2. /\ Running(t) /\ call[t].local # NoLocal
      /\ ~hand[t].present /\ ~spare[t].present
  BY <1>1, RunningThread DEF SlotNeeded, InHand
<1>3. i \in Trees /\ i \in Int /\ trees[i] \in Entries /\ loc[t] \in LocType
  BY LocFields DEF IInv, TypeInv, TypeOK
<1>4. SetSpare(t, spare[t]) /\ spare[t] \in Reservations /\ hand[t] \in Reservations
  BY <1>1, HandStays DEF IInv
<1>5. CASE CanSync(trees[i], call[t].n - loc[t].free)
  <2>1. /\ trees' = [trees EXCEPT ![i] = e] /\ Hold(t, h) /\ SetLoc(t, loc[t])
        /\ Goto(t, "sync_put")
    BY <1>5, LocStays DEF SyncSteal, IInv
  <2>2. e \in Entries /\ e.reserved = trees[i].reserved
    <3>1. e \in Entries
      BY <1>3, EntryFree, Constants
    <3> QED BY <1>3, <3>1 DEF Entries
  <2>3. trees' \in [Trees -> Entries] /\ Marks' = Marks
    BY <1>3, <2>1, <2>2, EntryWritten DEF IInv
  <2>4. h \in Reservations /\ ~h.present
    BY <1>3, EntryFree, OnlyFrames
  <2> HIDE DEF e, h
  <2>5. Moved(t) /\ pc'[t] = "sync_put" /\ loc'[t] = loc[t]
    BY <1>3, <2>1, MovesTo DEF IInv, Labels
  <2>6. Phase("sync_put", call[t], loc[t], h, spare[t])
    BY <1>2, <2>4, SlotPhase
  <2>7. ReservedOnce'
    <3>1. Same(hand[t], h) /\ Same(spare[t], spare[t])
      BY <1>2, <2>4, ThreadFields DEF Same, IInv, Reservations
    <3>2. \A q \in Slots : Same(slots[q], slots'[q])
      BY <1>1 DEF Same
    <3> QED BY <1>4, <2>1, <2>3, <2>4, <3>1, <3>2, KeptBy DEF IInv
  <2> QED BY <1>1, <1>4, <2>1, <2>3, <2>4, <2>5, <2>6, <2>7, Stepped
          DEF IInv, TypeInv, TypeOK
<1>6. CASE ~CanSync(trees[i], call[t].n - loc[t].free)
  <2>1. LocalMiss(t, i) /\ UNCHANGED <<trees, hand>>
    BY <1>6 DEF SyncSteal
  <2>2. Reaches(t)
    BY <1>2, <1>3, <2>1, LocalMissReaches DEF IInv
  <2> QED BY <1>1, <1>2, <2>1, <2>2, ReachesStep
<1> QED BY <1>5, <1>6

\* ll_local_put of what t has in hand.
LEMMA PutInSlotStep ==
    ASSUME IInv, NEW t \in Threads, NEW label \in {"sync_put", "put_slot"},
           NEW l \in LocType, NEW next \in {"local", "ok"}, PutInSlot(t, label, l, next)
    PROVE  IInv'
<1> DEFINE s == SlotOf(t)
           r == slots[s]
           f == r.free + hand[t].free
<1>1. pc[t] = label /\ UNCHANGED <<trees, room, call, spare, held, offline, restarts>>
  BY DEF PutInSlot, At
<1>2. /\ Running(t) /\ call[t].local # NoLocal /\ s \in Slots
      /\ ~hand[t].present /\ ~spare[t].present
  BY <1>1, RunningThread DEF SlotNeeded, InHand
<1>3. r \in Reservations /\ r.free \in 0 .. TREE_SIZE /\ hand[t].free \in 0 .. TREE_SIZE
  BY <1>2, SlotFields, ThreadFields DEF IInv
<1>4. /\ SetSpare(t, spare[t]) /\ spare[t] \in Reservations
      /\ hand[t] \in Reservations /\ loc[t] \in LocType
  BY <1>1, HandStays, LocFields DEF IInv
<1>5. CASE UNCHANGED <<slots, hand, loc>> /\ (Goto(t, "give_back") \/ Goto(t, "abort"))
  <2>1. SetLoc(t, loc[t])
    BY <1>5, LocStays DEF IInv
  <2>2. PICK p \in {"give_back", "abort"} : Goto(t, p)
    BY <1>5
  <2>3. Moved(t) /\ pc'[t] = p /\ loc'[t] = loc[t]
    BY <1>4, <2>1, <2>2, MovesTo DEF IInv, Labels
  <2>4. \A g, q \in Reservations : ~g.present /\ ~q.present
           => Phase(p, call[t], loc[t], g, q)
    BY <1>2, SlotPhase
  <2>5. Reaches(t)
    BY <2>3, <2>4 DEF Reaches
  <2> QED BY <1>1, <1>2, <1>5, <2>5, ReachesStep
<1>6. CASE /\ f <= TREE_SIZE
           /\ slots' = [slots EXCEPT ![s].free = f]
           /\ Hold(t, Nothing) /\ SetLoc(t, l) /\ Goto(t, next)
  <2>1. f \in 0 .. TREE_SIZE
    BY <1>3, <1>6, Constants
  <2> HIDE DEF f, s
  <2>2. slots' \in [Slots -> Reservations] /\ \A q \in Slots : Same(slots[q], slots'[q])
    BY <1>2, <1>6, <2>1, SlotCounted DEF IInv
  <2>3. Moved(t) /\ pc'[t] = next /\ loc'[t] = l
    BY <1>6, MovesTo DEF IInv, Labels, Done
  <2>4. Phase(next, call[t], l, Nothing, spare[t])
    BY <1>2, Defaults, SlotPhase
  <2>5. ReservedOnce'
    <3>1. Same(hand[t], Nothing) /\ Same(spare[t], spare[t])
      BY <1>2, ThreadFields DEF Same, IInv, Nothing, Reservation
    <3>2. Marks' = Marks
      BY <1>1 DEF Marks
    <3> QED BY <1>4, <1>6, <2>2, <3>1, <3>2, Defaults, KeptBy DEF IInv
  <2> QED BY <1>1, <1>4, <1>6, <2>2, <2>3, <2>4, <2>5, Defaults, Stepped
          DEF IInv, TypeInv, TypeOK
<1>7. \/ UNCHANGED <<slots, hand, loc>> /\ (Goto(t, "give_back") \/ Goto(t, "abort"))
      \/ /\ f <= TREE_SIZE
         /\ slots' = [slots EXCEPT ![s].free = f]
         /\ Hold(t, Nothing) /\ SetLoc(t, l) /\ Goto(t, next)
  <2>1. IsFor(r, hand[t].tree) \in BOOLEAN
    BY <1>3 DEF IsFor, Reservations
  <2>2. CASE ~IsFor(r, hand[t].tree)
    BY <2>2 DEF PutInSlot
  <2>3. CASE IsFor(r, hand[t].tree) /\ f > TREE_SIZE
    BY <2>3 DEF PutInSlot
  <2>4. CASE IsFor(r, hand[t].tree) /\ ~(f > TREE_SIZE)
    <3>1. f <= TREE_SIZE
      BY <1>3, <2>4, Constants
    <3> QED BY <2>4, <3>1 DEF PutInSlot
  <2> QED BY <2>1, <2>2, <2>3, <2>4
<1> QED BY <1>5, <1>6, <1>7

\* The frames that were taken from the tree go to the slot.
LEMMA SyncPutStep ==
    ASSUME IInv, NEW t \in Threads, SyncPut(t)
    PROVE  IInv'
<1> DEFINE l == [NoLoc EXCEPT !.sync = FALSE, !.start = loc[t].start]
<1>1. l \in LocType
  BY LocFields, Defaults DEF LocType, IInv
<1>2. PutInSlot(t, "sync_put", l, "local")
  BY DEF SyncPut
<1> HIDE DEF l
<1> QED BY <1>1, <1>2, PutInSlotStep

\* The frames that were freed go to the slot.
LEMMA PutSlotStep ==
    ASSUME IInv, NEW t \in Threads, PutSlot(t)
    PROVE  IInv'
BY PutInSlotStep, Defaults DEF PutSlot

-----------------------------------------------------------------------------
(* The lower allocator, and what is done with what t has in hand. *)

\* A call that has reserved a tree for its slot may go to these labels.
LEMMA SearchPhase ==
    ASSUME NEW t \in Threads, Running(t), call[t].local # NoLocal,
           NEW l, l.from = "search", NEW h, NEW s, ~s.present,
           NEW p \in {"lower", "give_back", "swap"},
           p = "lower" => h.free >= call[t].n
    PROVE  Phase(p, call[t], l, h, s)
<1>1. OpAt(p, call[t].op) /\ Origin(p, l)
  BY DEF OpAt, Origin, Running
<1>2. InHand(p, call[t], l, h, s)
  BY DEF InHand
<1> QED BY <1>1, <1>2 DEF Phase, Running

\* The counter of what is in hand, or of what was replaced, is reduced.
LEMMA Reduced ==
    ASSUME NEW h \in Reservations, NEW n \in Nat, n <= h.free
    PROVE  /\ [h EXCEPT !.free = @ - n] \in Reservations
           /\ Same(h, [h EXCEPT !.free = @ - n])
           /\ [h EXCEPT !.free = @ - n].present = h.present
           /\ [h EXCEPT !.free = @ - n].tree = h.tree
<1>1. h.free - n \in 0 .. TREE_SIZE
  BY Constants DEF Reservations
<1> QED BY <1>1 DEF Reservations, Same

\* llfree_lower_get.
LEMMA LowerStep ==
    ASSUME IInv, NEW t \in Threads, Lower(t)
    PROVE  IInv'
<1> DEFINE i == hand[t].tree
           n == call[t].n
           h == [hand[t] EXCEPT !.free = @ - n]
           p == IF hand[t].present THEN "swap" ELSE "ok"
<1>1. /\ pc[t] = "lower"
      /\ UNCHANGED <<trees, slots, call, loc, spare, held, offline, restarts>>
  BY DEF Lower, At
<1>2. /\ Running(t) /\ ~spare[t].present /\ hand[t].free >= n /\ n \in Nat \ {0}
      /\ hand[t].present => loc[t].from = "search" /\ call[t].local # NoLocal
      /\ SlotNeeded("lower", loc[t], hand[t]) => call[t].local # NoLocal
      /\ InHand("lower", call[t], loc[t], hand[t], spare[t])
  BY <1>1, RunningThread DEF SlotNeeded, InHand
<1>3. /\ hand[t] \in Reservations /\ i \in Trees /\ hand[t].free \in 0 .. TREE_SIZE
      /\ loc[t] \in LocType /\ SetLoc(t, loc[t])
      /\ SetSpare(t, spare[t]) /\ spare[t] \in Reservations
  BY <1>1, HandStays, ThreadFields, LocStays DEF IInv
<1>4. CASE /\ room[i] >= n /\ room' = [room EXCEPT ![i] = @ - n]
           /\ Hold(t, h) /\ Goto(t, p)
  <2>1. room' \in [Trees -> 0 .. TREE_SIZE]
    <3>1. room[i] - n \in 0 .. TREE_SIZE
      BY <1>2, <1>3, <1>4, Constants DEF IInv, TypeInv, TypeOK
    <3> QED BY <1>3, <1>4, <3>1 DEF IInv, TypeInv, TypeOK
  <2>2. h \in Reservations /\ Same(hand[t], h) /\ h.present = hand[t].present
    BY <1>2, <1>3, Reduced
  <2>3. p \in {"swap", "ok"}
    OBVIOUS
  <2>4. Moved(t) /\ pc'[t] = p /\ loc'[t] = loc[t]
    BY <1>3, <1>4, <2>3, MovesTo DEF IInv, Labels, Done
  <2>5. Phase(p, call[t], loc[t], h, spare[t])
    <3> HIDE DEF h
    <3>1. CASE hand[t].present
      BY <1>2, <3>1, SearchPhase
    <3>2. CASE ~hand[t].present
      BY <1>2, <2>2, <3>2 DEF Phase, OpAt, Origin, SlotNeeded, InHand, Running
    <3> QED BY <3>1, <3>2
  <2> HIDE DEF h, p
  <2>6. ReservedOnce'
    <3>1. Marks' = Marks /\ \A s \in Slots : Same(slots[s], slots'[s])
      BY <1>1 DEF Marks, Same
    <3>2. Same(spare[t], spare[t])
      BY DEF Same
    <3> QED BY <1>3, <1>4, <2>2, <3>1, <3>2, KeptBy DEF IInv
  <2> QED BY <1>1, <1>3, <1>4, <2>1, <2>2, <2>4, <2>5, <2>6, Stepped
          DEF IInv, TypeInv, TypeOK
<1>5. CASE Goto(t, "give_back") /\ UNCHANGED <<room, hand>>
  <2>1. Hold(t, hand[t])
    BY <1>5, HandStays DEF IInv
  <2>2. Moved(t) /\ pc'[t] = "give_back" /\ loc'[t] = loc[t]
    BY <1>3, <1>5, MovesTo DEF IInv, Labels
  <2>3. Phase("give_back", call[t], loc[t], hand[t], spare[t])
    BY <1>2 DEF Phase, OpAt, Origin, SlotNeeded, InHand, Running
  <2>4. ReservedOnce'
    BY <1>1, <1>5, OnceQuiet DEF IInv
  <2> QED BY <1>1, <1>3, <1>5, <2>1, <2>2, <2>3, <2>4, Stepped
          DEF IInv, TypeInv, TypeOK
<1> QED BY <1>4, <1>5 DEF Lower

\* trees_unreserve or trees_put.
LEMMA GiveBackStep ==
    ASSUME IInv, NEW t \in Threads, GiveBack(t)
    PROVE  IInv'
<1> DEFINE i == hand[t].tree
           n == hand[t].free
           e == EntryWith(t)
           a == <<"hand", t>>
<1>1. /\ pc[t] = "give_back"
      /\ UNCHANGED <<slots, room, call, spare, held, offline, restarts>>
  BY DEF GiveBack, At
<1>2. /\ Running(t) /\ ~spare[t].present /\ call[t].class \in Classes
      /\ SlotNeeded("give_back", loc[t], hand[t]) => call[t].local # NoLocal
      /\ InHand("give_back", call[t], loc[t], hand[t], spare[t])
  BY <1>1, RunningThread DEF InHand
<1>3. /\ hand[t] \in Reservations /\ i \in Trees /\ n \in 0 .. TREE_SIZE /\ n \in Nat
      /\ trees[i] \in Entries /\ loc[t] \in LocType
      /\ SetSpare(t, spare[t]) /\ spare[t] \in Reservations
      /\ hand[t].present \in BOOLEAN
  BY <1>1, HandStays, ThreadFields DEF IInv, TypeInv, TypeOK
<1>4. hand[t].present => trees[i].reserved
  <2>1. <<"hand", t>> \in Holders /\ HeldBy(<<"hand", t>>) = hand[t]
    BY HolderKinds
  <2> QED BY <2>1, HolderMarked DEF IInv
<1>5. ~Ignored(t)
  BY <1>4 DEF Ignored
<1>6. CASE ~CanPut(trees[i], n)
  <2>1. Goto(t, "abort") /\ UNCHANGED <<trees, hand, loc>>
    BY <1>5, <1>6 DEF GiveBack
  <2>2. Hold(t, hand[t]) /\ SetLoc(t, loc[t])
    BY <2>1, HandStays, LocStays DEF IInv
  <2>3. Moved(t) /\ pc'[t] = "abort" /\ loc'[t] = loc[t]
    BY <1>3, <2>1, <2>2, MovesTo DEF IInv, Labels
  <2>4. Phase("abort", call[t], loc[t], hand[t], spare[t])
    BY <1>2 DEF Phase, OpAt, Origin, SlotNeeded, InHand, Running
  <2>5. ReservedOnce'
    BY <1>1, <2>1, OnceQuiet DEF IInv
  <2> QED BY <1>1, <1>3, <2>1, <2>2, <2>3, <2>4, <2>5, Stepped
          DEF IInv, TypeInv, TypeOK
<1>7. CASE CanPut(trees[i], n)
  <2>1. trees' = [trees EXCEPT ![i] = e] /\ Hold(t, Nothing) /\ AfterFailure(t)
    BY <1>5, <1>7 DEF GiveBack
  <2>2. /\ e \in Entries
        /\ e.reserved = IF hand[t].present THEN FALSE ELSE trees[i].reserved
    BY <1>2, <1>3, <1>7, TreePutType, UnreserveType DEF EntryWith
  <2> HIDE DEF e
  <2>3. /\ trees' \in [Trees -> Entries]
        /\ e.reserved = trees[i].reserved => Marks' = Marks
        /\ Marks' = [Marks EXCEPT ![i] = e.reserved]
    BY <1>3, <2>1, <2>2, EntryWritten DEF IInv
  <2>4. Reaches(t)
    BY <1>2, <2>1, AfterFailureReaches DEF IInv, SlotNeeded
  <2>5. Moved(t) /\ Phase(pc'[t], call[t], loc'[t], Nothing, spare[t])
    BY <1>2, <1>3, <2>4, Defaults DEF Reaches
  <2>6. ReservedOnce'
    <3>1. CASE ~hand[t].present
      <4>1. Same(hand[t], Nothing) /\ Same(spare[t], spare[t])
        BY <1>3, <3>1 DEF Same, Nothing, Reservation
      <4>2. \A s \in Slots : Same(slots[s], slots'[s])
        BY <1>1 DEF Same
      <4> QED BY <1>3, <2>1, <2>2, <2>3, <3>1, <4>1, <4>2, Defaults, KeptBy DEF IInv
    <3>2. CASE hand[t].present
      <4>1. /\ a \in Holders /\ HeldBy(a) = hand[t] /\ HeldBy(a)' = Nothing
        BY <2>1, HolderKinds DEF Hold, IInv, TypeInv, TypeOK
      <4>2. \A g \in Holders \ {<<"slot", 0>>, <<"hand", t>>, <<"spare", t>>} :
               Same(HeldBy(g), HeldBy(g)')
        BY <1>1, <1>3, <2>1, Elsewhere DEF IInv
      <4>3. HeldBy(<<"spare", t>>)' = HeldBy(<<"spare", t>>)
        BY <1>1, HolderKinds
      <4>4. HeldBy(<<"slot", 0>>)' = HeldBy(<<"slot", 0>>)
        BY <1>1, HolderKinds DEF HeldBy
      <4> HIDE DEF a
      <4>5. \A g \in Holders \ {a} : Same(HeldBy(g), HeldBy(g)')
        BY <4>2, <4>3, <4>4 DEF a, Same
      <4>6. Marks' = [Marks EXCEPT ![i] = FALSE]
        BY <2>2, <2>3, <3>2
      <4> QED BY <1>3, <3>2, <4>1, <4>5, <4>6, Defaults, Released DEF IInv
    <3> QED BY <3>1, <3>2
  <2> QED BY <1>1, <1>3, <2>1, <2>3, <2>5, <2>6, Defaults, Stepped
          DEF IInv, TypeInv, TypeOK
<1> QED BY <1>6, <1>7

\* trees_reserve_or_steal.
LEMMA ReserveStep ==
    ASSUME IInv, NEW t \in Threads, Reserve(t)
    PROVE  IInv'
<1> DEFINE i == loc[t].tree
           n == call[t].n
           class == call[t].class
           a == <<"hand", t>>
<1>1. /\ pc[t] = "reserve"
      /\ UNCHANGED <<slots, room, call, loc, spare, held, offline, restarts>>
  BY DEF Reserve, At
<1>2. /\ Running(t) /\ ~spare[t].present /\ ~hand[t].present
      /\ class \in Classes /\ n \in Nat \ {0}
      /\ call[t].local # NoLocal /\ loc[t].from = "search"
  BY <1>1, RunningThread DEF SlotNeeded, InHand, Origin
<1>3. /\ i \in Trees /\ trees[i] \in Entries /\ trees[i].free \in 0 .. TREE_SIZE
      /\ loc[t] \in LocType /\ SetLoc(t, loc[t]) /\ SetSpare(t, spare[t])
      /\ spare[t] \in Reservations /\ hand[t] \in Reservations
  BY <1>1, HandStays, LocFields, LocStays, EntryFree DEF IInv, TypeInv, TypeOK
<1>4. ASSUME NEW e \in Entries, trees' = [trees EXCEPT ![i] = e],
             NEW h \in Reservations, Hold(t, h), h.free >= n, ReservedOnce',
             NEW p \in {"lower", "give_back"}, Goto(t, p)
      PROVE  IInv'
  <2>1. trees' \in [Trees -> Entries]
    BY <1>3, <1>4, EntryWritten DEF IInv
  <2>2. Moved(t) /\ pc'[t] = p /\ loc'[t] = loc[t]
    BY <1>3, <1>4, MovesTo DEF IInv, Labels
  <2>3. Phase(p, call[t], loc[t], h, spare[t])
    BY <1>2, <1>4, SearchPhase
  <2> QED BY <1>1, <1>3, <1>4, <2>1, <2>2, <2>3, Stepped DEF IInv, TypeInv, TypeOK
<1>5. CASE /\ CanReserve(trees[i], class, n)
           /\ trees' = [trees EXCEPT ![i] = Entry(TRUE, class, 0)]
           /\ Hold(t, Reservation(TRUE, i, trees[i].free))
           /\ Goto(t, IF HasLocals(class) THEN "lower" ELSE "give_back")
  <2> DEFINE e == Entry(TRUE, class, 0)
             h == Reservation(TRUE, i, trees[i].free)
             p == IF HasLocals(class) THEN "lower" ELSE "give_back"
  <2>1. e \in Entries /\ e.reserved = TRUE
    BY <1>2, Constants DEF Entry, Entries
  <2>2. /\ h \in Reservations /\ h.present = TRUE /\ h.tree = i
        /\ h.free = trees[i].free /\ h.free >= n /\ trees[i].reserved = FALSE
    BY <1>3, <1>5, EntryFree DEF Reservation, Reservations, CanReserve, Usable
  <2>3. /\ trees' = [trees EXCEPT ![i] = e] /\ Hold(t, h) /\ Goto(t, p)
        /\ p \in {"lower", "give_back"}
    BY <1>5
  <2> HIDE DEF e, h, p
  <2>4. Marks' = [Marks EXCEPT ![i] = TRUE]
    BY <1>3, <2>1, <2>3, EntryWritten DEF IInv
  <2>5. /\ a \in Holders /\ HeldBy(a) = hand[t] /\ HeldBy(a)' = h
    BY <2>3, HolderKinds DEF Hold, IInv, TypeInv, TypeOK
  <2>6. \A g \in Holders \ {<<"slot", 0>>, <<"hand", t>>, <<"spare", t>>} :
           Same(HeldBy(g), HeldBy(g)')
    BY <1>1, <1>3, <2>3, Elsewhere DEF IInv
  <2>7. HeldBy(<<"spare", t>>)' = HeldBy(<<"spare", t>>)
    BY <1>1, HolderKinds
  <2>8. HeldBy(<<"slot", 0>>)' = HeldBy(<<"slot", 0>>)
    BY <1>1 DEF HeldBy
  <2> HIDE DEF a
  <2>9. \A g \in Holders \ {a} : Same(HeldBy(g), HeldBy(g)')
    BY <2>6, <2>7, <2>8 DEF a, Same
  <2>10. ReservedOnce'
    <3>1. /\ ~trees[i].reserved /\ ~HeldBy(a).present
          /\ HeldBy(a)'.present /\ HeldBy(a)'.tree = i
      BY <1>2, <2>2, <2>5
    <3>2. i \in Trees /\ a \in Holders /\ TypeInv /\ ReservedOnce
      BY <1>3, <2>5 DEF IInv
    <3> HIDE DEF i
    <3> QED BY <2>4, <2>9, <3>1, <3>2, Acquired
  <2> QED BY <1>4, <2>1, <2>2, <2>3, <2>10
<1>6. CASE /\ CanOnlySteal(trees[i], class, n)
           /\ trees' = [trees EXCEPT ![i].free = @ - n]
           /\ Hold(t, Reservation(FALSE, i, n))
           /\ Goto(t, IF HasLocals(trees[i].class) THEN "lower" ELSE "give_back")
  <2> DEFINE e == [trees[i] EXCEPT !.free = @ - n]
             h == Reservation(FALSE, i, n)
             p == IF HasLocals(trees[i].class) THEN "lower" ELSE "give_back"
  <2>1. n \in 0 .. TREE_SIZE /\ trees[i].free - n \in 0 .. TREE_SIZE
    BY <1>2, <1>3, <1>6, Constants DEF CanOnlySteal, Usable
  <2>2. e \in Entries /\ e.reserved = trees[i].reserved
    BY <1>3, <2>1 DEF Entries
  <2>3. h \in Reservations /\ ~h.present /\ h.free = n /\ h.free >= n
    <3>1. h \in Reservations /\ ~h.present /\ h.free = n
      BY <1>3, <2>1, OnlyFrames
    <3> HIDE DEF h
    <3> QED BY <1>2, <3>1
  <2>4. /\ trees' = [trees EXCEPT ![i] = e] /\ Hold(t, h) /\ Goto(t, p)
        /\ p \in {"lower", "give_back"}
    BY <1>6
  <2> HIDE DEF e, h, p
  <2>5. ReservedOnce'
    <3>1. Marks' = Marks
      BY <1>3, <2>2, <2>4, EntryWritten DEF IInv
    <3>2. Same(hand[t], h) /\ Same(spare[t], spare[t])
      BY <1>2, <2>3, ThreadFields DEF Same, IInv, Reservations
    <3>3. \A s \in Slots : Same(slots[s], slots'[s])
      BY <1>1 DEF Same
    <3> QED BY <1>3, <2>3, <2>4, <3>1, <3>2, <3>3, KeptBy DEF IInv
  <2> QED BY <1>4, <2>2, <2>3, <2>4, <2>5
<1>7. CASE Goto(t, "scan") /\ UNCHANGED <<trees, hand>>
  <2>1. Reaches(t)
    BY <1>2, <1>3, <1>7, ReachesLabel DEF IInv
  <2> QED BY <1>1, <1>2, <1>7, <2>1, ReachesStep
<1> QED BY <1>5, <1>6, <1>7 DEF Reserve

\* lower_put.
LEMMA LowerPutStep ==
    ASSUME IInv, NEW t \in Threads, LowerPut(t)
    PROVE  IInv'
<1> DEFINE i == call[t].tree
           n == call[t].n
           h == Reservation(FALSE, i, n)
           p == IF call[t].local # NoLocal THEN "put_slot" ELSE "give_back"
<1>1. /\ pc[t] = "put"
      /\ UNCHANGED <<trees, slots, call, loc, spare, held, offline, restarts>>
  BY DEF LowerPut, At
<1>2. /\ Running(t) /\ ~spare[t].present /\ ~hand[t].present
      /\ n \in Nat \ {0} /\ i \in Trees /\ loc[t].from = "put"
  BY <1>1, RunningThread DEF InHand, Origin
<1>3. /\ loc[t] \in LocType /\ SetLoc(t, loc[t]) /\ SetSpare(t, spare[t])
      /\ spare[t] \in Reservations /\ hand[t] \in Reservations
  BY <1>1, HandStays, LocFields, LocStays DEF IInv
<1>4. CASE /\ room[i] + n <= FramesOf(i) /\ room' = [room EXCEPT ![i] = @ + n]
           /\ Hold(t, h) /\ Goto(t, p)
  <2>1. room[i] \in 0 .. TREE_SIZE /\ FramesOf(i) \in 0 .. TREE_SIZE
    BY <1>2, TreesExist DEF IInv, TypeInv, TypeOK
  <2>2. room[i] + n \in 0 .. TREE_SIZE /\ n \in 0 .. TREE_SIZE
    BY <1>2, <1>4, <2>1, Constants
  <2>3. room' \in [Trees -> 0 .. TREE_SIZE]
    BY <1>2, <1>4, <2>2 DEF IInv, TypeInv, TypeOK
  <2>4. h \in Reservations /\ ~h.present
    BY <1>2, <2>2, OnlyFrames
  <2>5. p \in {"put_slot", "give_back"} /\ (p = "put_slot" => call[t].local # NoLocal)
    OBVIOUS
  <2> HIDE DEF h, p
  <2>6. Moved(t) /\ pc'[t] = p /\ loc'[t] = loc[t]
    BY <1>3, <1>4, <2>5, MovesTo DEF IInv, Labels
  <2>7. Phase(p, call[t], loc[t], h, spare[t])
    <3>1. OpAt(p, call[t].op) /\ Origin(p, loc[t])
      BY <1>2, <2>5 DEF OpAt, Origin, Running
    <3>2. SlotNeeded(p, loc[t], h) => call[t].local # NoLocal
      BY <1>2, <2>4, <2>5 DEF SlotNeeded
    <3>3. InHand(p, call[t], loc[t], h, spare[t])
      BY <1>2, <2>4, <2>5 DEF InHand
    <3> QED BY <1>2, <3>1, <3>2, <3>3 DEF Phase, Running
  <2>8. ReservedOnce'
    <3>1. Marks' = Marks /\ \A s \in Slots : Same(slots[s], slots'[s])
      BY <1>1 DEF Marks, Same
    <3>2. Same(hand[t], h) /\ Same(spare[t], spare[t])
      BY <1>2, <2>4, ThreadFields DEF Same, IInv, Reservations
    <3> QED BY <1>3, <1>4, <2>4, <3>1, <3>2, KeptBy DEF IInv
  <2> QED BY <1>1, <1>3, <1>4, <2>3, <2>4, <2>6, <2>7, <2>8, Stepped
          DEF IInv, TypeInv, TypeOK
<1>5. CASE Goto(t, "memory") /\ UNCHANGED <<room, hand>>
  <2>1. Reaches(t)
    BY <1>2, <1>3, <1>5, ReachesLabel DEF IInv
  <2> QED BY <1>1, <1>2, <1>5, <2>1, ReachesStep
<1> QED BY <1>4, <1>5 DEF LowerPut

-----------------------------------------------------------------------------
(* Reservations pass between a slot and a call. *)

\* What t does with slot s, its hand and what it has replaced: it takes the
\* reservation of the slot in hand, or to release it, or it puts its own there
\* and has to release the one of the slot.
LEMMA Exchange ==
    ASSUME TypeInv, ReservedOnce, Marks' = Marks, NEW t \in Threads, NEW s \in Slots,
           NEW x \in Reservations, slots' = [slots EXCEPT ![s] = x],
           NEW h \in Reservations, Hold(t, h), NEW r \in Reservations, SetSpare(t, r),
           \/ ~x.present /\ Same(slots[s], h) /\ ~hand[t].present /\ Same(spare[t], r)
           \/ ~x.present /\ Same(slots[s], r) /\ ~spare[t].present /\ Same(hand[t], h)
           \/ Same(hand[t], x) /\ ~h.present /\ Same(slots[s], r) /\ ~spare[t].present
    PROVE  ReservedOnce'
<1> DEFINE a == <<"slot", s>>
           b == <<"hand", t>>
           c == <<"spare", t>>
<1>1. /\ a \in Holders /\ b \in Holders /\ c \in Holders
      /\ a # b /\ b # c /\ a # c
      /\ HeldBy(a) = slots[s] /\ HeldBy(b) = hand[t] /\ HeldBy(c) = spare[t]
  BY HolderKinds
<1>2. /\ slots'[s] = x /\ hand'[t] = h /\ spare'[t] = r
      /\ \A q \in Slots \ {s} : slots'[q] = slots[q]
  BY DEF TypeInv, TypeOK, Hold, SetSpare
<1>3. HeldBy(a)' = x /\ HeldBy(b)' = h /\ HeldBy(c)' = r
  BY <1>2, HolderKinds
<1>4. \A g \in Holders \ {a, b, c} : Same(HeldBy(g), HeldBy(g)')
  BY <1>2, Elsewhere
<1> HIDE DEF a, b, c
<1>5. CASE ~x.present /\ Same(slots[s], h) /\ ~hand[t].present /\ Same(spare[t], r)
  <2>1. \A g \in Holders \ {a, b} : Same(HeldBy(g), HeldBy(g)')
    <3>1. Same(HeldBy(c), HeldBy(c)')
      BY <1>1, <1>3, <1>5
    <3> QED BY <1>4, <3>1
  <2>2. ~HeldBy(b).present /\ Same(HeldBy(a), HeldBy(b)') /\ ~HeldBy(a)'.present
    BY <1>1, <1>3, <1>5
  <2> QED BY <1>1, <2>1, <2>2, HandedOver
<1>6. CASE ~x.present /\ Same(slots[s], r) /\ ~spare[t].present /\ Same(hand[t], h)
  <2>1. \A g \in Holders \ {a, c} : Same(HeldBy(g), HeldBy(g)')
    <3>1. Same(HeldBy(b), HeldBy(b)')
      BY <1>1, <1>3, <1>6
    <3> QED BY <1>4, <3>1
  <2>2. ~HeldBy(c).present /\ Same(HeldBy(a), HeldBy(c)') /\ ~HeldBy(a)'.present
    BY <1>1, <1>3, <1>6
  <2> QED BY <1>1, <2>1, <2>2, HandedOver
<1>7. CASE Same(hand[t], x) /\ ~h.present /\ Same(slots[s], r) /\ ~spare[t].present
  <2>1. /\ ~HeldBy(c).present /\ Same(HeldBy(b), HeldBy(a)')
        /\ Same(HeldBy(a), HeldBy(c)') /\ ~HeldBy(b)'.present
    BY <1>1, <1>3, <1>7
  <2>2. \A g \in Holders \ {b, a, c} : Same(HeldBy(g), HeldBy(g)')
    BY <1>4
  <2> QED BY <1>1, <2>1, <2>2, Rotated
<1> QED BY <1>5, <1>6, <1>7

\* The reservation that a slot had.
LEMMA ReplacedSame ==
    ASSUME NEW r \in Reservations
    PROVE  /\ Replaced(r) \in Reservations /\ Same(r, Replaced(r))
           /\ Replaced(r).present = r.present
BY Defaults DEF Replaced, Same, Reservations

\* swap_reserved.
LEMMA SwapStep ==
    ASSUME IInv, NEW t \in Threads, Swap(t)
    PROVE  IInv'
<1> DEFINE s == <<call[t].class, call[t].local % Locals[call[t].class]>>
           h == Reservation(FALSE, hand[t].tree, 0)
           r == Replaced(slots[s])
           p == IF r.present THEN "unreserve" ELSE "ok"
<1>1. /\ pc[t] = "swap"
      /\ UNCHANGED <<trees, room, call, loc, held, offline, restarts>>
      /\ slots' = [slots EXCEPT ![s] = hand[t]]
      /\ SetSpare(t, r) /\ Hold(t, h) /\ Goto(t, p)
  BY DEF Swap, At, SetSpare
<1>2. /\ Running(t) /\ ~spare[t].present /\ loc[t].from = "search"
      /\ call[t].local # NoLocal /\ call[t].local \in Nat \cup {NoLocal}
  BY <1>1, RunningThread DEF SlotNeeded, InHand, Origin
<1>3. s \in Slots
  BY <1>2, ValidSlot DEF Running
<1>4. /\ hand[t] \in Reservations /\ loc[t] \in LocType /\ SetLoc(t, loc[t])
      /\ hand[t].tree \in Trees
  BY <1>1, ThreadFields, LocStays DEF IInv
<1>5. h \in Reservations /\ ~h.present
  <2>1. 0 \in 0 .. TREE_SIZE
    BY Constants
  <2> QED BY <1>4, <2>1, OnlyFrames
<1>6. r \in Reservations /\ Same(slots[s], r) /\ r.present \in BOOLEAN
  <2>1. slots[s] \in Reservations /\ slots[s].present \in BOOLEAN
    BY <1>3, SlotFields DEF IInv
  <2> QED BY <2>1, ReplacedSame
<1> HIDE DEF s, h, r
<1>7. slots' \in [Slots -> Reservations]
  BY <1>1, <1>3, <1>4 DEF IInv, TypeInv, TypeOK
<1>8. p \in {"unreserve", "ok"}
  OBVIOUS
<1>9. Moved(t) /\ pc'[t] = p /\ loc'[t] = loc[t]
  BY <1>1, <1>4, <1>8, MovesTo DEF IInv, Labels, Done
<1>10. Phase(p, call[t], loc[t], h, r)
  <2>1. OpAt(p, call[t].op) /\ Origin(p, loc[t])
    BY <1>2, <1>8 DEF OpAt, Origin, Running, Allocs
  <2>2. SlotNeeded(p, loc[t], h) => call[t].local # NoLocal
    BY <1>2
  <2>3. InHand(p, call[t], loc[t], h, r)
    BY <1>2, <1>5, <1>6 DEF InHand
  <2> QED BY <1>2, <2>1, <2>2, <2>3 DEF Phase, Running
<1>11. ReservedOnce'
  <2>1. Marks' = Marks
    BY <1>1 DEF Marks
  <2>2. Same(hand[t], hand[t])
    BY DEF Same
  <2> QED BY <1>1, <1>2, <1>3, <1>4, <1>5, <1>6, <2>1, <2>2, Exchange DEF IInv
<1> QED BY <1>1, <1>4, <1>5, <1>6, <1>7, <1>9, <1>10, <1>11, Stepped
        DEF IInv, TypeInv, TypeOK

\* ll_local_demote_any: the slot of the request gets the tree.
LEMMA DemoteSwapStep ==
    ASSUME IInv, NEW t \in Threads, DemoteSwap(t)
    PROVE  IInv'
<1> DEFINE s == SlotOf(t)
           n == call[t].n
           x == [hand[t] EXCEPT !.free = @ - n]
           h == Reservation(FALSE, hand[t].tree, n)
           r == Replaced(slots[s])
           p == IF r.present THEN "unreserve" ELSE "lower"
<1>1. /\ pc[t] = "demote_swap"
      /\ UNCHANGED <<trees, room, call, loc, held, offline, restarts>>
      /\ slots' = [slots EXCEPT ![s] = x]
      /\ SetSpare(t, r) /\ Hold(t, h) /\ Goto(t, p)
  BY DEF DemoteSwap, At, SetSpare
<1>2. /\ Running(t) /\ ~spare[t].present /\ call[t].local # NoLocal
      /\ s \in Slots /\ n \in Nat \ {0} /\ hand[t].free >= n
  BY <1>1, RunningThread DEF SlotNeeded, InHand
<1>3. /\ hand[t] \in Reservations /\ loc[t] \in LocType /\ SetLoc(t, loc[t])
      /\ hand[t].tree \in Trees /\ hand[t].free \in 0 .. TREE_SIZE
  BY <1>1, ThreadFields, LocStays DEF IInv
<1>4. n \in 0 .. TREE_SIZE
  BY <1>2, <1>3, Constants
<1>5. h \in Reservations /\ ~h.present /\ h.free = n
  BY <1>3, <1>4, OnlyFrames
<1>6. r \in Reservations /\ Same(slots[s], r) /\ r.present \in BOOLEAN
  BY <1>2, SlotFields, ReplacedSame DEF IInv
<1>7. x \in Reservations /\ Same(hand[t], x)
  BY <1>2, <1>3, Reduced
<1> HIDE DEF s, h, r, x
<1>8. slots' \in [Slots -> Reservations]
  BY <1>1, <1>2, <1>7 DEF IInv, TypeInv, TypeOK
<1>9. p \in {"unreserve", "lower"} /\ (p = "unreserve" <=> r.present)
  BY <1>6
<1> HIDE DEF p
<1>10. Moved(t) /\ pc'[t] = p /\ loc'[t] = loc[t]
  BY <1>1, <1>3, <1>9, MovesTo DEF IInv, Labels
<1>11. Phase(p, call[t], loc[t], h, r)
  <2>1. OpAt(p, call[t].op) /\ Origin(p, loc[t])
    BY <1>2, <1>9 DEF OpAt, Origin, Running, Allocs
  <2>2. InHand(p, call[t], loc[t], h, r)
    <3>1. h.free >= n
      BY <1>2, <1>5
    <3> QED BY <1>5, <1>9, <3>1 DEF InHand
  <2> QED BY <1>2, <2>1, <2>2 DEF Phase, Running
<1>12. ReservedOnce'
  <2>1. Marks' = Marks
    BY <1>1 DEF Marks
  <2> QED BY <1>1, <1>2, <1>5, <1>6, <1>7, <2>1, Exchange DEF IInv
<1> QED BY <1>1, <1>3, <1>5, <1>6, <1>8, <1>10, <1>11, <1>12, Stepped
        DEF IInv, TypeInv, TypeOK

\* ll_local_steal.
LEMMA StealSlotStep ==
    ASSUME IInv, NEW t \in Threads, StealSlot(t)
    PROVE  IInv'
<1> DEFINE n == call[t].n
<1>1. pc[t] = "steal" /\ UNCHANGED <<trees, room, call, held, offline, restarts>>
  BY DEF StealSlot, At
<1>2. /\ Running(t) /\ ~spare[t].present /\ ~hand[t].present
      /\ n \in Nat \ {0} /\ loc[t].from = "steal"
  BY <1>1, RunningThread DEF InHand, Origin
<1>3. /\ hand[t] \in Reservations /\ spare[t] \in Reservations /\ loc[t] \in LocType
      /\ loc[t].left \in SUBSET Slots
  BY HandStays, LocFields DEF IInv
<1>4. CASE DemoteLocal(t) /\ UNCHANGED <<slots, hand, spare>>
  <2>1. Reaches(t)
    BY <1>2, <1>4, OutOfMemoryReaches DEF IInv
  <2> QED BY <1>1, <1>2, <1>4, <2>1, ReachesStep
<1>5. ASSUME NEW s \in loc[t].left, SkipSlot(t, s)
      PROVE  IInv'
  <2> DEFINE l == [loc[t] EXCEPT !.left = @ \ {s}]
  <2>1. /\ SetLoc(t, l) /\ Goto(t, "steal") /\ UNCHANGED <<slots, hand, spare>>
    BY <1>1, <1>5 DEF SkipSlot, Goto, IInv, TypeInv, TypeOK
  <2>2. l \in LocType /\ l.from = "steal"
    <3>1. l \in LocType
      BY <1>3, LocUpdate
    <3> QED BY <1>2, <1>3, <3>1 DEF LocType
  <2> HIDE DEF l
  <2>3. Reaches(t)
    BY <1>2, <2>1, <2>2, ReachesLabel DEF IInv
  <2> QED BY <1>1, <1>2, <2>1, <2>3, ReachesStep
<1>6. ASSUME NEW s \in loc[t].left, Fits(t, slots[s]), UNCHANGED spare,
             slots' = [slots EXCEPT ![s].free = @ - n],
             Hold(t, Reservation(FALSE, slots[s].tree, n)),
             Goto(t, "lower"), SetLoc(t, [loc[t] EXCEPT !.left = {}])
      PROVE  IInv'
  <2> DEFINE f == slots[s].free - n
             h == Reservation(FALSE, slots[s].tree, n)
             l == [loc[t] EXCEPT !.left = {}]
  <2>1. /\ s \in Slots /\ slots[s].tree \in Trees /\ slots[s].free \in 0 .. TREE_SIZE
    BY <1>3, <1>6, SlotFields DEF IInv
  <2>2. f \in 0 .. TREE_SIZE /\ n \in 0 .. TREE_SIZE
    BY <1>2, <1>6, <2>1, Constants DEF Fits
  <2>3. h \in Reservations /\ ~h.present /\ h.free = n
    BY <2>1, <2>2, OnlyFrames
  <2>4. l \in LocType /\ l.from = "steal"
    <3>1. l \in LocType
      BY <1>3, LocUpdate
    <3> QED BY <1>2, <1>3, <3>1 DEF LocType
  <2>5. slots' = [slots EXCEPT ![s].free = f] /\ Hold(t, h) /\ SetLoc(t, l)
    BY <1>6
  <2> HIDE DEF f, h, l
  <2>6. slots' \in [Slots -> Reservations] /\ \A q \in Slots : Same(slots[q], slots'[q])
    BY <2>1, <2>2, <2>5, SlotCounted DEF IInv
  <2>7. Moved(t) /\ pc'[t] = "lower" /\ loc'[t] = l
    BY <1>6, <2>4, <2>5, MovesTo DEF IInv, Labels
  <2>8. Phase("lower", call[t], l, h, spare[t])
    <3>1. OpAt("lower", call[t].op) /\ Origin("lower", l)
      BY <1>2 DEF OpAt, Origin, Running
    <3>2. ~SlotNeeded("lower", l, h)
      BY <2>3, <2>4 DEF SlotNeeded
    <3>3. InHand("lower", call[t], l, h, spare[t])
      BY <1>2, <2>3 DEF InHand
    <3> QED BY <1>2, <3>1, <3>2, <3>3 DEF Phase, Running
  <2>9. SetSpare(t, spare[t])
    BY <1>6, HandStays DEF IInv
  <2>10. ReservedOnce'
    <3>1. Marks' = Marks
      BY <1>1 DEF Marks
    <3>2. Same(hand[t], h) /\ Same(spare[t], spare[t])
      BY <1>2, <2>3, ThreadFields DEF Same, IInv, Reservations
    <3> QED BY <1>3, <2>3, <2>5, <2>6, <2>9, <3>1, <3>2, KeptBy DEF IInv
  <2> QED BY <1>1, <1>3, <2>3, <2>5, <2>6, <2>7, <2>8, <2>9, <2>10, Stepped
          DEF IInv, TypeInv, TypeOK
<1>7. \/ DemoteLocal(t) /\ UNCHANGED <<slots, hand, spare>>
      \/ \E s \in loc[t].left : SkipSlot(t, s)
      \/ \E s \in loc[t].left :
            /\ Fits(t, slots[s]) /\ slots' = [slots EXCEPT ![s].free = @ - n]
            /\ Hold(t, Reservation(FALSE, slots[s].tree, n))
            /\ Goto(t, "lower") /\ SetLoc(t, [loc[t] EXCEPT !.left = {}])
            /\ UNCHANGED spare
  BY DEF StealSlot
<1> QED BY <1>4, <1>5, <1>6, <1>7

\* ll_local_demote_any: a reservation is taken from its slot.
LEMMA TakeSlotStep ==
    ASSUME IInv, NEW t \in Threads, TakeSlot(t)
    PROVE  IInv'
<1> DEFINE n == call[t].n
           l == [loc[t] EXCEPT !.left = {}]
<1>1. pc[t] = "demote" /\ UNCHANGED <<trees, room, call, held, offline, restarts>>
  BY DEF TakeSlot, At
<1>2. /\ Running(t) /\ ~spare[t].present /\ ~hand[t].present
      /\ n \in Nat \ {0} /\ loc[t].from = "demote"
  BY <1>1, RunningThread DEF InHand, Origin
<1>3. /\ hand[t] \in Reservations /\ spare[t] \in Reservations /\ loc[t] \in LocType
      /\ loc[t].left \in SUBSET Slots
  BY HandStays, LocFields DEF IInv
<1>4. CASE Goto(t, "memory") /\ SetLoc(t, NoLoc) /\ UNCHANGED <<slots, hand, spare>>
  <2>1. Reaches(t)
    BY <1>2, <1>4, Defaults, ReachesLabel DEF IInv
  <2> QED BY <1>1, <1>2, <1>4, <2>1, ReachesStep
<1>5. ASSUME NEW s \in loc[t].left, SkipSlot(t, s)
      PROVE  IInv'
  <2> DEFINE m == [loc[t] EXCEPT !.left = @ \ {s}]
  <2>1. /\ SetLoc(t, m) /\ Goto(t, "demote") /\ UNCHANGED <<slots, hand, spare>>
    BY <1>1, <1>5 DEF SkipSlot, Goto, IInv, TypeInv, TypeOK
  <2>2. m \in LocType /\ m.from = "demote"
    <3>1. m \in LocType
      BY <1>3, LocUpdate
    <3> QED BY <1>2, <1>3, <3>1 DEF LocType
  <2> HIDE DEF m
  <2>3. Reaches(t)
    BY <1>2, <2>1, <2>2, ReachesLabel DEF IInv
  <2> QED BY <1>1, <1>2, <2>1, <2>3, ReachesStep
<1>6. l \in LocType /\ l.from = "demote"
  <2>1. l \in LocType
    BY <1>3, LocUpdate
  <2> QED BY <1>2, <1>3, <2>1 DEF LocType
<1>7. ASSUME NEW s \in loc[t].left, Fits(t, slots[s]),
             slots' = [slots EXCEPT ![s] = Nothing], SetLoc(t, l), TakeTree(t, slots[s])
      PROVE  IInv'
  <2> DEFINE r == slots[s]
             h == Reservation(FALSE, r.tree, n)
             q == [r EXCEPT !.free = @ - n]
  <2>1. /\ s \in Slots /\ r \in Reservations /\ r.present /\ r.tree \in Trees
        /\ r.free \in 0 .. TREE_SIZE /\ r.free >= n
    BY <1>3, <1>7, SlotFields DEF IInv, Fits
  <2>2. Marks' = Marks /\ slots' \in [Slots -> Reservations]
    BY <1>1, <1>7, Defaults DEF Marks, IInv, TypeInv, TypeOK
  <2> HIDE DEF l
  <2>3. CASE call[t].local # NoLocal
    <3>1. /\ Hold(t, r) /\ Goto(t, "demote_swap") /\ SetSpare(t, spare[t])
          /\ UNCHANGED spare
      BY <2>3, <1>7, HandStays DEF TakeTree, IInv
    <3>2. Moved(t) /\ pc'[t] = "demote_swap" /\ loc'[t] = l
      BY <1>6, <1>7, <3>1, MovesTo DEF IInv, Labels
    <3>3. Phase("demote_swap", call[t], l, r, spare[t])
      BY <1>2, <2>1, <2>3 DEF Phase, OpAt, Origin, InHand, Running
    <3>4. ReservedOnce'
      <4>1. Same(r, r) /\ Same(spare[t], spare[t])
        BY DEF Same
      <4> QED BY <1>2, <1>3, <1>7, <2>1, <2>2, <3>1, <4>1, Defaults, Exchange DEF IInv
    <3> QED BY <1>1, <1>3, <2>1, <2>2, <3>1, <3>2, <3>3, <3>4, Stepped
            DEF IInv, TypeInv, TypeOK
  <2>4. CASE call[t].local = NoLocal
    <3>1. Hold(t, h) /\ SetSpare(t, q) /\ Goto(t, "unreserve")
      BY <2>4, <1>7 DEF TakeTree, SetSpare
    <3>2. n \in 0 .. TREE_SIZE
      BY <1>2, <2>1, Constants
    <3>3. h \in Reservations /\ ~h.present /\ h.free = n
      BY <2>1, <3>2, OnlyFrames
    <3>4. q \in Reservations /\ Same(r, q) /\ q.present
      BY <1>2, <2>1, Reduced
    <3> HIDE DEF h, q
    <3>5. Moved(t) /\ pc'[t] = "unreserve" /\ loc'[t] = l
      BY <1>6, <1>7, <3>1, MovesTo DEF IInv, Labels
    <3>6. Phase("unreserve", call[t], l, h, q)
      <4>1. h.free >= n
        BY <1>2, <3>3
      <4>2. OpAt("unreserve", call[t].op) /\ Origin("unreserve", l)
        BY <1>2 DEF OpAt, Origin, Running, Allocs
      <4>3. ~SlotNeeded("unreserve", l, h)
        BY DEF SlotNeeded
      <4>4. InHand("unreserve", call[t], l, h, q)
        BY <3>3, <3>4, <4>1 DEF InHand
      <4> QED BY <1>2, <4>2, <4>3, <4>4 DEF Phase, Running
    <3>7. ReservedOnce'
      <4>1. Same(hand[t], h)
        BY <1>2, <3>3, ThreadFields DEF Same, IInv, Reservations
      <4> QED BY <1>2, <1>7, <2>1, <2>2, <3>1, <3>3, <3>4, <4>1, Defaults, Exchange DEF IInv
    <3> QED BY <1>1, <2>2, <3>1, <3>3, <3>4, <3>5, <3>6, <3>7, Stepped
            DEF IInv, TypeInv, TypeOK
  <2> QED BY <2>3, <2>4
<1>8. \/ Goto(t, "memory") /\ SetLoc(t, NoLoc) /\ UNCHANGED <<slots, hand, spare>>
      \/ \E s \in loc[t].left : SkipSlot(t, s)
      \/ \E s \in loc[t].left :
            /\ Fits(t, slots[s]) /\ slots' = [slots EXCEPT ![s] = Nothing]
            /\ SetLoc(t, l) /\ TakeTree(t, slots[s])
  BY DEF TakeSlot
<1> QED BY <1>4, <1>5, <1>7, <1>8

-----------------------------------------------------------------------------
(* Reservations are released. *)

\* trees_unreserve of a reservation that was replaced or drained.
LEMMA UnreserveStep ==
    ASSUME IInv, NEW t \in Threads, Unreserve(t)
    PROVE  IInv'
<1> DEFINE i == spare[t].tree
           n == spare[t].free
           e == SpareEntry(t)
           c == <<"spare", t>>
           p == IF call[t].op = "drain" THEN "drain"
                ELSE IF loc[t].from = "demote" THEN "lower" ELSE "ok"
<1>1. /\ pc[t] = "unreserve"
      /\ UNCHANGED <<slots, room, call, loc, hand, held, offline, restarts>>
  BY DEF Unreserve, At
<1>2. Phase("unreserve", call[t], loc[t], hand[t], spare[t])
  BY <1>1 DEF IInv, PhaseOK
<1>3. /\ spare[t].present /\ ~hand[t].present
      /\ loc[t].from = "demote" /\ call[t].op # "drain" => hand[t].free >= call[t].n
      /\ call[t].op \in Allocs \/ call[t].op = "drain"
      /\ call[t].op \in Allocs => Valid(call[t])
  <2>1. call[t].op \in Allocs \cup {"change", "drain"}
    BY CallsAssumption DEF IInv, TypeInv, TypeOK, Requests, Changes, NoCall, Allocs
  <2> QED BY <1>2, <2>1 DEF Phase, OpAt, InHand
<1>4. /\ hand[t] \in Reservations /\ spare[t] \in Reservations /\ i \in Trees
      /\ n \in Nat /\ trees[i] \in Entries /\ loc[t] \in LocType
      /\ Hold(t, hand[t]) /\ SetLoc(t, loc[t]) /\ loc[t].class \in Classes
  BY <1>1, HandStays, ThreadFields, LocFields, LocStays DEF IInv, TypeInv, TypeOK
<1>5. c \in Holders /\ HeldBy(c) = spare[t]
  BY HolderKinds
<1>6. trees[i].reserved
  BY <1>3, <1>5, HolderMarked DEF IInv
<1>7. CASE ~CanPut(trees[i], n)
  <2>1. Goto(t, "abort") /\ UNCHANGED <<trees, spare>>
    BY <1>6, <1>7 DEF Unreserve
  <2>2. SetSpare(t, spare[t])
    BY <2>1, HandStays DEF IInv
  <2>3. Moved(t) /\ pc'[t] = "abort" /\ loc'[t] = loc[t]
    BY <1>4, <2>1, MovesTo DEF IInv, Labels
  <2>4. Phase("abort", call[t], loc[t], hand[t], spare[t])
    BY <1>3 DEF Phase, OpAt, Origin, SlotNeeded, InHand
  <2>5. ReservedOnce'
    BY <1>1, <2>1, OnceQuiet DEF IInv
  <2> QED BY <1>1, <1>4, <2>1, <2>2, <2>3, <2>4, <2>5, Stepped
          DEF IInv, TypeInv, TypeOK
<1>8. CASE CanPut(trees[i], n)
  <2>1. trees' = [trees EXCEPT ![i] = e] /\ SetSpare(t, Nothing) /\ Goto(t, p)
    BY <1>6, <1>8 DEF Unreserve, AfterUnreserve, SetSpare
  <2>2. e \in Entries /\ e.reserved = FALSE
    <3>1. SpareClass(t) \in Classes
      BY <1>3, <1>4 DEF SpareClass, Valid
    <3> QED BY <1>4, <1>8, <3>1, UnreserveType DEF SpareEntry
  <2> HIDE DEF e
  <2>3. trees' \in [Trees -> Entries] /\ Marks' = [Marks EXCEPT ![i] = FALSE]
    BY <1>4, <2>1, <2>2, EntryWritten DEF IInv
  <2>4. p \in {"drain", "lower", "ok"}
    OBVIOUS
  <2>5. Moved(t) /\ pc'[t] = p /\ loc'[t] = loc[t]
    BY <1>4, <2>1, <2>4, MovesTo DEF IInv, Labels, Done
  <2>6. Phase(p, call[t], loc[t], hand[t], Nothing)
    <3>1. CASE call[t].op = "drain"
      BY <1>3, <3>1, Defaults DEF Phase, OpAt, Origin, SlotNeeded, InHand, Allocs
    <3>2. CASE call[t].op # "drain" /\ loc[t].from = "demote"
      BY <1>3, <3>2, Defaults DEF Phase, OpAt, Origin, SlotNeeded, InHand
    <3>3. CASE call[t].op # "drain" /\ loc[t].from # "demote"
      BY <1>3, <3>3, Defaults DEF Phase, OpAt, Origin, SlotNeeded, InHand
    <3> QED BY <3>1, <3>2, <3>3
  <2>7. ReservedOnce'
    <3>1. HeldBy(c)' = Nothing
      BY <2>1, HolderKinds DEF SetSpare, IInv, TypeInv, TypeOK
    <3>2. \A g \in Holders \ {<<"slot", 0>>, <<"hand", t>>, <<"spare", t>>} :
             Same(HeldBy(g), HeldBy(g)')
      BY <1>1, <1>4, <2>1, Elsewhere DEF IInv
    <3>3. HeldBy(<<"hand", t>>)' = HeldBy(<<"hand", t>>)
      BY <1>1, HolderKinds
    <3>4. HeldBy(<<"slot", 0>>)' = HeldBy(<<"slot", 0>>)
      BY <1>1 DEF HeldBy
    <3> HIDE DEF c
    <3>5. \A g \in Holders \ {c} : Same(HeldBy(g), HeldBy(g)')
      BY <3>2, <3>3, <3>4 DEF c, Same
    <3> QED BY <1>3, <1>4, <1>5, <2>3, <3>1, <3>5, Defaults, Released DEF IInv
  <2> QED BY <1>1, <1>4, <2>1, <2>3, <2>5, <2>6, <2>7, Defaults, Stepped
          DEF IInv, TypeInv, TypeOK
<1> QED BY <1>7, <1>8

\* ll_local_drain, one slot.
LEMMA DrainSlotStep ==
    ASSUME IInv, NEW t \in Threads, DrainSlot(t)
    PROVE  IInv'
<1>1. /\ pc[t] = "drain" /\ UNCHANGED <<trees, room, call, hand, held, offline, restarts>>
  BY DEF DrainSlot, At
<1>2. call[t].op = "drain" /\ ~hand[t].present /\ ~spare[t].present
  BY <1>1 DEF IInv, PhaseOK, Phase, OpAt, InHand
<1>3. /\ hand[t] \in Reservations /\ spare[t] \in Reservations /\ Hold(t, hand[t])
      /\ loc[t] \in LocType /\ loc[t].left \in SUBSET Slots
  BY <1>1, HandStays, LocFields DEF IInv
<1>4. ASSUME NEW p \in {"drain", "ok", "unreserve"}, NEW l, NEW s,
             s.present <=> p = "unreserve"
      PROVE  Phase(p, call[t], l, hand[t], s)
  <2>1. OpAt(p, call[t].op) /\ Origin(p, l)
    BY <1>2 DEF OpAt, Origin
  <2>2. ~SlotNeeded(p, l, hand[t])
    BY DEF SlotNeeded
  <2>3. InHand(p, call[t], l, hand[t], s)
    BY <1>2, <1>4 DEF InHand
  <2> QED BY <1>2, <2>1, <2>2, <2>3 DEF Phase, Allocs
<1>5. CASE Goto(t, "ok") /\ UNCHANGED <<slots, spare, loc>>
  <2>1. SetLoc(t, loc[t]) /\ SetSpare(t, spare[t])
    BY <1>5, LocStays, HandStays DEF IInv
  <2>2. Moved(t) /\ pc'[t] = "ok" /\ loc'[t] = loc[t]
    BY <1>3, <1>5, <2>1, MovesTo DEF IInv, Labels, Done
  <2>3. Phase("ok", call[t], loc[t], hand[t], spare[t])
    BY <1>2, <1>4
  <2>4. ReservedOnce'
    BY <1>1, <1>5, OnceQuiet DEF IInv
  <2> QED BY <1>1, <1>3, <1>5, <2>1, <2>2, <2>3, <2>4, Stepped
          DEF IInv, TypeInv, TypeOK
<1>6. ASSUME NEW s \in loc[t].left,
             slots' = [slots EXCEPT ![s] = Nothing],
             SetLoc(t, [loc[t] EXCEPT !.left = @ \ {s}, !.class = s[1]]),
             SetSpare(t, Replaced(slots[s])),
             IF Replaced(slots[s]).present THEN Goto(t, "unreserve") ELSE UNCHANGED pc
      PROVE  IInv'
  <2> DEFINE l == [loc[t] EXCEPT !.left = @ \ {s}, !.class = s[1]]
             r == Replaced(slots[s])
             p == IF r.present THEN "unreserve" ELSE "drain"
  <2>1. s \in Slots /\ s[1] \in Classes
    BY <1>3, SlotClass
  <2>2. l \in LocType
    BY <1>3, <2>1, LocUpdate
  <2>3. r \in Reservations /\ Same(slots[s], r) /\ r.present \in BOOLEAN
    <3>1. slots[s] \in Reservations /\ slots[s].present \in BOOLEAN
      BY <2>1, SlotFields DEF IInv
    <3> QED BY <3>1, ReplacedSame
  <2>4. Goto(t, p)
    BY <1>1, <1>6 DEF Goto, IInv, TypeInv, TypeOK
  <2>5. SetLoc(t, l) /\ SetSpare(t, r)
    BY <1>6
  <2> HIDE DEF l, r
  <2>6. p \in {"drain", "unreserve"} /\ (r.present <=> p = "unreserve")
    BY <2>3
  <2> HIDE DEF p
  <2>7. Moved(t) /\ pc'[t] = p /\ loc'[t] = l
    BY <2>2, <2>4, <2>5, <2>6, MovesTo DEF IInv, Labels
  <2>8. Phase(p, call[t], l, hand[t], r)
    BY <1>4, <2>6
  <2>9. Marks' = Marks /\ slots' \in [Slots -> Reservations]
    BY <1>1, <1>6, Defaults DEF Marks, IInv, TypeInv, TypeOK
  <2>10. ReservedOnce'
    <3>1. Same(hand[t], hand[t])
      BY DEF Same
    <3> QED BY <1>2, <1>3, <1>6, <2>1, <2>3, <2>5, <2>9, <3>1, Defaults, Exchange DEF IInv
  <2> QED BY <1>1, <1>3, <2>3, <2>5, <2>7, <2>8, <2>9, <2>10, Stepped
          DEF IInv, TypeInv, TypeOK
<1>7. \/ Goto(t, "ok") /\ UNCHANGED <<slots, spare, loc>>
      \/ \E s \in loc[t].left :
            /\ slots' = [slots EXCEPT ![s] = Nothing]
            /\ SetLoc(t, [loc[t] EXCEPT !.left = @ \ {s}, !.class = s[1]])
            /\ SetSpare(t, Replaced(slots[s]))
            /\ IF Replaced(slots[s]).present THEN Goto(t, "unreserve") ELSE UNCHANGED pc
  BY DEF DrainSlot, SetSpare
<1> QED BY <1>5, <1>6, <1>7

-----------------------------------------------------------------------------
(* The invariant holds initially, after a restart and after every step. *)

\* A state in which no call is in progress and nothing is reserved.
Fresh ==
    /\ room \in [Trees -> 0 .. TREE_SIZE] /\ held \in [Trees -> Nat]
    /\ trees = [i \in Trees |-> InitEntry(i, room[i])]
    /\ slots = [s \in Slots |-> Nothing]
    /\ pc    = [t \in Threads |-> "idle"]
    /\ call  = [t \in Threads |-> NoCall]
    /\ loc   = [t \in Threads |-> NoLoc]
    /\ hand  = [t \in Threads |-> Nothing]
    /\ spare = [t \in Threads |-> Nothing]
    /\ offline = {} /\ restarts \in 0 .. MaxRestarts

\* Such a state satisfies the invariant.
LEMMA FreshState == Fresh => IInv
<1> SUFFICES ASSUME Fresh PROVE IInv
  OBVIOUS
<1> USE DEF Fresh
<1>1. \A i \in Trees : trees[i] \in Entries /\ trees[i].reserved = FALSE
  BY Constants DEF InitEntry, Entry, Entries
<1>2. TypeInv
  <2>1. trees \in [Trees -> Entries]
    BY <1>1
  <2> QED BY <2>1, Defaults DEF TypeInv, TypeOK, Labels
<1>3. PhaseOK
  <2>1. Phase("idle", NoCall, NoLoc, Nothing, Nothing)
    BY Defaults DEF Phase, OpAt, Origin, SlotNeeded, InHand, Allocs
  <2> QED BY <2>1 DEF PhaseOK
<1>4. ReservedOnce
  <2>1. \A h \in Holders : ~HeldBy(h).present
    <3>1. ASSUME NEW s \in Slots PROVE HeldBy(<<"slot", s>>) = Nothing
      BY HolderKinds
    <3>2. ASSUME NEW t \in Threads
          PROVE  HeldBy(<<"hand", t>>) = Nothing /\ HeldBy(<<"spare", t>>) = Nothing
      BY HolderKinds
    <3>3. ASSUME NEW h \in Holders PROVE HeldBy(h) = Nothing
      <4>1. CASE \E s \in Slots : h = <<"slot", s>>
        BY <3>1, <4>1
      <4>2. CASE \E t \in Threads : h = <<"hand", t>> \/ h = <<"spare", t>>
        BY <3>2, <4>2
      <4> QED BY <4>1, <4>2, HolderKinds
    <3> QED BY <3>3, Defaults
  <2> QED BY <1>1, <2>1 DEF ReservedOnce
<1> QED BY <1>2, <1>3, <1>4 DEF IInv

\* llfree_init establishes the invariant.
LEMMA InitInv == Init => IInv
<1> SUFFICES ASSUME Init PROVE IInv
  OBVIOUS
<1>1. room \in [Trees -> 0 .. TREE_SIZE] /\ held \in [Trees -> Nat]
  <2>1. \A i \in Trees : 0 \in 0 .. TREE_SIZE /\ FramesOf(i) \in 0 .. TREE_SIZE
    BY TreesExist, Constants
  <2> QED BY <2>1 DEF Init
<1>2. restarts \in 0 .. MaxRestarts
  BY Constants DEF Init
<1> QED BY <1>1, <1>2, FreshState DEF Init, Fresh

\* A restart leaves nothing reserved.
LEMMA RestartStep ==
    ASSUME IInv, Restart
    PROVE  IInv'
<1>1. Fresh'
  <2>1. restarts' \in 0 .. MaxRestarts
    BY Constants DEF Restart, IInv, TypeInv, TypeOK
  <2>2. PICK left \in [Trees -> 0 .. TREE_SIZE] :
           room' = left /\ trees' = [i \in Trees |-> InitEntry(i, left[i])]
    BY DEF Restart
  <2>3. \A i \in Trees : room'[i] = left[i]
    BY <2>2
  <2> QED BY <2>1, <2>2, <2>3 DEF Restart, Fresh, InitEntry, Entry, IInv, TypeInv, TypeOK
<1>2. Fresh' => IInv'
  BY FreshState, PTL
<1> QED BY <1>1, <1>2

\* Attaching to memory whose slots were drained changes nothing that is reserved.
LEMMA AttachStep ==
    ASSUME IInv, Attach
    PROVE  IInv'
<1>1. UNCHANGED <<trees, room, pc, call, loc, hand, spare, held, offline>>
  BY DEF Attach, thread
<1>2. TypeInv'
  <2>1. restarts' \in 0 .. MaxRestarts
    BY Constants DEF Attach, IInv, TypeInv, TypeOK
  <2>2. slots' \in [Slots -> Reservations]
    BY Defaults DEF Attach
  <2> QED BY <1>1, <2>1, <2>2 DEF IInv, TypeInv, TypeOK
<1>3. PhaseOK'
  BY <1>1 DEF IInv, PhaseOK
<1>4. ReservedOnce'
  <2>1. \A s \in Slots : Same(slots[s], slots'[s])
    <3>1. ASSUME NEW s \in Slots PROVE Same(slots[s], slots'[s])
      <4>1. ~slots[s].present /\ slots[s].present \in BOOLEAN
        BY SlotFields DEF Attach, IInv
      <4>2. slots'[s] = Nothing /\ Nothing.present = FALSE
        BY DEF Attach, Nothing, Reservation
      <4> QED BY <4>1, <4>2 DEF Same
    <3> QED BY <3>1
  <2>2. Marks' = Marks /\ \A t \in Threads : Same(hand[t], hand'[t]) /\ Same(spare[t], spare'[t])
    BY <1>1 DEF Marks, Same
  <2> QED BY <2>1, <2>2, OnceKept DEF IInv
<1> QED BY <1>2, <1>3, <1>4 DEF IInv

\* Every step preserves the invariant.
LEMMA NextInv == IInv /\ [Next]_vars => IInv'
<1> SUFFICES ASSUME IInv, [Next]_vars PROVE IInv'
  OBVIOUS
<1>1. ASSUME NEW t \in Threads, Start(t)
      PROVE  IInv'
  <2>1. PICK r \in Calls : Get(t, r) \/ GetAt(t, r) \/ Put(t, r) \/ Drain(t, r) \/ Change(t, r)
    BY <1>1 DEF Start
  <2> QED BY <2>1, GetStep, GetAtStep, PutStep, DrainStep, ChangeStep
<1>2. ASSUME NEW t \in Threads, Step(t)
      PROVE  IInv'
  <2>1. CASE LocalGet(t) \/ SyncSteal(t) \/ SyncPut(t) \/ Lower(t) \/ GiveBack(t)
    BY <2>1, LocalGetStep, SyncStealStep, SyncPutStep, LowerStep, GiveBackStep
  <2>2. CASE Scan(t) \/ Pick(t) \/ Reserve(t) \/ StealLoad(t) \/ StealCas(t)
    BY <2>2, ScanStep, PickStep, ReserveStep, StealLoadStep, StealCasStep
  <2>3. CASE Swap(t) \/ Unreserve(t) \/ DrainSlot(t) \/ LowerPut(t) \/ PutSlot(t)
    BY <2>3, SwapStep, UnreserveStep, DrainSlotStep, LowerPutStep, PutSlotStep
  <2>4. CASE StealSlot(t) \/ TakeSlot(t) \/ DemoteSwap(t)
    BY <2>4, StealSlotStep, TakeSlotStep, DemoteSwapStep
  <2>5. CASE ChangeLoad(t) \/ ChangeFetch(t) \/ ChangeCas(t) \/ Return(t)
    BY <2>5, ChangeLoadStep, ChangeFetchStep, ChangeCasStep, ReturnStep
  <2> QED BY <1>2, <2>1, <2>2, <2>3, <2>4, <2>5 DEF Step
<1>3. CASE UNCHANGED vars
  <2>1. TypeInv'
    BY <1>3 DEF IInv, TypeInv, TypeOK, vars, counters, thread
  <2>2. PhaseOK'
    BY <1>3 DEF IInv, PhaseOK, vars, counters, thread
  <2>3. ReservedOnce'
    BY <1>3, OnceQuiet DEF IInv, vars, counters, thread
  <2> QED BY <2>1, <2>2, <2>3 DEF IInv
<1> QED BY <1>1, <1>2, <1>3, RestartStep, AttachStep DEF Next

\* The invariant holds in every reachable state.
LEMMA Invariant == Spec => []IInv
BY InitInv, NextInv, PTL DEF Spec

-----------------------------------------------------------------------------

\* No counter leaves its range: the fields of an entry and of a slot, which are
\* a few bits wide, never wrap, whatever calls run concurrently.
THEOREM TypeCorrect == Spec => []TypeOK
<1>1. IInv => TypeOK
  BY DEF IInv, TypeInv
<1> QED BY <1>1, Invariant, PTL

\* Two cores never have the same tree reserved, and no tree is marked as reserved
\* that nobody has: searches would pass over it for ever.
THEOREM Exclusive == Spec => []ReservedOnce
<1>1. IInv => ReservedOnce
  BY DEF IInv
<1> QED BY <1>1, Invariant, PTL

-----------------------------------------------------------------------------
(* The clients. *)

\* Trees go offline only if all their frames are in the tree's counter.  A tree
\* that is taken offline although some of its frames are counted in a slot or by
\* a call, and then online, would have those frames counted twice.
OfflineWhole ==
    \A r \in Calls : r.op = "change" /\ r.change.operation = "offline" =>
        \A i \in Trees : r.match.id \in {NoTree, i} => r.match.free >= FramesOf(i)

Clients == Careful /\ OfflineWhole

-----------------------------------------------------------------------------
(* The invariant. *)

\* The labels at which a call has frames in hand.
Carrying == {"lower", "give_back", "sync_put", "put_slot", "swap", "demote_swap", "unreserve"}

\* How many frames a call has in hand, and in a reservation that it replaced.
Carried(p, c, l, h, s) ==
    /\ p # "abort"
    /\ h.free # 0 => p \in Carrying
    /\ s.free # 0 => p = "unreserve"
    /\ p = "lower" /\ ~h.present => h.free = c.n
    /\ p = "unreserve" => h.free = IF c.op # "drain" /\ l.from = "demote" THEN c.n ELSE 0
    /\ p \in {"swap", "demote_swap"} => h.present
    /\ p = "demote_swap" => l.from = "demote"

CarriedOK == \A t \in Threads : Carried(pc[t], call[t], loc[t], hand[t], spare[t])

\* Only a reservation has frames in a slot.
SlotsOK == \A s \in Slots : ~slots[s].present => slots[s].free = 0

Changing == {"change", "fetch", "change_cas"}

\* A call that takes a tree online has found it offline, and will set its counter
\* to all its frames.
ChangeAt(p, c, l, off) ==
    p \in Changing =>
        /\ c.match.id \in {NoTree, l.tree}
        /\ c.change.operation = "online" =>
              /\ c.match.id = l.tree /\ l.tree \in off
              /\ p = "change_cas" => l.free = FramesOf(l.tree)

ChangeOK == \A t \in Threads : ChangeAt(pc[t], call[t], loc[t], offline)

GoesOnline(t) == pc[t] \in Changing /\ call[t].change.operation = "online"

\* A tree is taken online by one call at a time.
OnlineOnce ==
    \A t, u \in Threads :
        t # u /\ GoesOnline(t) /\ GoesOnline(u) => loc[t].tree # loc[u].tree

\* The free frames of tree i that are counted somewhere.
Count(i) == trees[i].free + Cardinality(Tokens(i))

CountOK ==
    \A i \in Trees :
        /\ IsFiniteSet(Tokens(i)) /\ room[i] <= FramesOf(i)
        /\ i \notin offline => Count(i) = room[i]
        /\ i \in offline => Count(i) = 0 /\ room[i] = FramesOf(i) /\ ~trees[i].reserved

CInv == IInv /\ CarriedOK /\ SlotsOK /\ ChangeOK /\ OnlineOnce /\ CountOK

-----------------------------------------------------------------------------
(* What the holders count. *)

\* The frames of tree i in a reservation.
Of(r, i) == IF r.tree = i THEN r.free ELSE 0

Amounts(i) == [h \in Holders |-> Of(HeldBy(h), i)]

\* The tokens are the pairs of the holders' amounts.
LEMMA TokensArePairs ==
    TypeInv => \A i \in Trees :
        /\ Amounts(i) \in [Holders -> 0 .. TREE_SIZE]
        /\ Tokens(i) = Pairs(Holders, TREE_SIZE, Amounts(i))
<1> SUFFICES ASSUME TypeInv, NEW i \in Trees
             PROVE  /\ Amounts(i) \in [Holders -> 0 .. TREE_SIZE]
                    /\ Tokens(i) = Pairs(Holders, TREE_SIZE, Amounts(i))
  OBVIOUS
<1>1. ASSUME NEW h \in Holders PROVE HeldBy(h).free \in 0 .. TREE_SIZE
  BY HeldReservation DEF Reservations
<1>2. \A h \in Holders : Amounts(i)[h] = Of(HeldBy(h), i) /\ Amounts(i)[h] \in 0 .. TREE_SIZE
  BY <1>1, Constants DEF Amounts, Of
<1>3. ASSUME NEW d \in Holders \X (1 .. TREE_SIZE)
      PROVE  (HeldBy(d[1]).tree = i /\ d[2] <= HeldBy(d[1]).free) <=> d[2] <= Amounts(i)[d[1]]
  <2>1. d[1] \in Holders /\ d[2] \in 1 .. TREE_SIZE
    OBVIOUS
  <2> QED BY <1>2, <2>1, Constants DEF Of
<1> QED BY <1>2, <1>3 DEF Tokens, Pairs, Amounts

\* The same, after a step.
LEMMA TokensArePairsNext ==
    TypeInv' => \A i \in Trees :
        /\ Amounts(i)' \in [Holders -> 0 .. TREE_SIZE]
        /\ Tokens(i)' = Pairs(Holders, TREE_SIZE, Amounts(i)')
<1>1. (\A i \in Trees : /\ Amounts(i) \in [Holders -> 0 .. TREE_SIZE]
                        /\ Tokens(i) = Pairs(Holders, TREE_SIZE, Amounts(i)))'
        => \A i \in Trees : /\ Amounts(i)' \in [Holders -> 0 .. TREE_SIZE]
                            /\ Tokens(i)' = Pairs(Holders, TREE_SIZE, Amounts(i)')
  BY DEF Holders, Trees, TreeCount, Slots
<1> QED BY <1>1, TokensArePairs, PTL

\* The amount of each kind of holder, before and after a step.
LEMMA AmountOf ==
    ASSUME NEW i
    PROVE  /\ \A s \in Slots : /\ Amounts(i)[<<"slot", s>>] = Of(slots[s], i)
                               /\ Amounts(i)'[<<"slot", s>>] = Of(slots'[s], i)
           /\ \A t \in Threads : /\ Amounts(i)[<<"hand", t>>] = Of(hand[t], i)
                                 /\ Amounts(i)'[<<"hand", t>>] = Of(hand'[t], i)
                                 /\ Amounts(i)[<<"spare", t>>] = Of(spare[t], i)
                                 /\ Amounts(i)'[<<"spare", t>>] = Of(spare'[t], i)
BY HolderKinds DEF Amounts, Of

\* A step that moves frames between a thread, a slot and the rest of the world.
LEMMA SlotMoves ==
    ASSUME TypeInv, TypeInv', NEW t \in Threads, NEW s \in Slots, NEW i \in Trees,
           IsFiniteSet(Tokens(i)), Others(t), \A q \in Slots \ {s} : slots'[q] = slots[q]
    PROVE  /\ IsFiniteSet(Tokens(i)')
           /\ Cardinality(Tokens(i)) \in Nat /\ Cardinality(Tokens(i)') \in Nat
           /\ Cardinality(Tokens(i)')
                = Cardinality(Tokens(i)) - Of(slots[s], i) - Of(hand[t], i) - Of(spare[t], i)
                    + Of(slots'[s], i) + Of(hand'[t], i) + Of(spare'[t], i)
<1> DEFINE g == <<"slot", s>>
           h == <<"hand", t>>
           k == <<"spare", t>>
           a == Amounts(i)
           b == Amounts(i)'
<1>1. g \in Holders /\ h \in Holders /\ k \in Holders /\ g # h /\ h # k /\ g # k
  BY HolderKinds
<1>2. ASSUME NEW x \in Holders \ {g, h, k}
      PROVE  b[x] = a[x]
  <2>1. CASE \E q \in Slots : x = <<"slot", q>>
    BY <2>1, AmountOf
  <2>2. CASE \E u \in Threads : x = <<"hand", u>> \/ x = <<"spare", u>>
    <3>1. PICK u \in Threads : x = <<"hand", u>> \/ x = <<"spare", u>>
      BY <2>2
    <3>2. u # t
      BY <3>1
    <3>3. hand'[u] = hand[u] /\ spare'[u] = spare[u]
      BY <3>2 DEF Others
    <3>4. /\ a[<<"hand", u>>] = Of(hand[u], i) /\ b[<<"hand", u>>] = Of(hand'[u], i)
          /\ a[<<"spare", u>>] = Of(spare[u], i) /\ b[<<"spare", u>>] = Of(spare'[u], i)
      BY AmountOf
    <3> HIDE DEF a, b
    <3> QED BY <3>1, <3>3, <3>4
  <2> QED BY <2>1, <2>2, HolderKinds
<1>3. /\ a[g] = Of(slots[s], i) /\ a[h] = Of(hand[t], i) /\ a[k] = Of(spare[t], i)
      /\ b[g] = Of(slots'[s], i) /\ b[h] = Of(hand'[t], i) /\ b[k] = Of(spare'[t], i)
  BY AmountOf
<1>4. /\ a \in [Holders -> 0 .. TREE_SIZE] /\ Tokens(i) = Pairs(Holders, TREE_SIZE, a)
      /\ b \in [Holders -> 0 .. TREE_SIZE] /\ Tokens(i)' = Pairs(Holders, TREE_SIZE, b)
      /\ TREE_SIZE \in Nat
  BY TokensArePairs, TokensArePairsNext, Constants
<1> HIDE DEF a, b, g, h, k
<1>5. /\ IsFiniteSet(Pairs(Holders, TREE_SIZE, b))
      /\ Cardinality(Pairs(Holders, TREE_SIZE, a)) \in Nat
      /\ Cardinality(Pairs(Holders, TREE_SIZE, b)) \in Nat
      /\ Cardinality(Pairs(Holders, TREE_SIZE, b))
           = Cardinality(Pairs(Holders, TREE_SIZE, a)) - a[g] - a[h] - a[k] + b[g] + b[h] + b[k]
  <2>1. Update(Holders, TREE_SIZE, a, b, {g, h, k})
    BY <1>1, <1>2, <1>4 DEF Update
  <2> QED BY <1>1, <2>1, ThreeAmounts
<1> QED BY <1>3, <1>4, <1>5

\* A step that moves frames between a thread and a tree.
LEMMA ThreadMoves ==
    ASSUME TypeInv, TypeInv', NEW t \in Threads, NEW i \in Trees,
           IsFiniteSet(Tokens(i)), Others(t), slots' = slots
    PROVE  /\ IsFiniteSet(Tokens(i)')
           /\ Cardinality(Tokens(i)) \in Nat /\ Cardinality(Tokens(i)') \in Nat
           /\ Cardinality(Tokens(i)')
                = Cardinality(Tokens(i)) - Of(hand[t], i) - Of(spare[t], i)
                    + Of(hand'[t], i) + Of(spare'[t], i)
<1> DEFINE h == <<"hand", t>>
           k == <<"spare", t>>
           a == Amounts(i)
           b == Amounts(i)'
<1>1. h \in Holders /\ k \in Holders /\ h # k
  BY HolderKinds
<1>2. ASSUME NEW x \in Holders \ {h, k}
      PROVE  b[x] = a[x]
  <2>1. CASE \E q \in Slots : x = <<"slot", q>>
    BY <2>1, AmountOf
  <2>2. CASE \E u \in Threads : x = <<"hand", u>> \/ x = <<"spare", u>>
    <3>1. PICK u \in Threads : x = <<"hand", u>> \/ x = <<"spare", u>>
      BY <2>2
    <3>2. u # t
      BY <3>1
    <3>3. hand'[u] = hand[u] /\ spare'[u] = spare[u]
      BY <3>2 DEF Others
    <3>4. /\ a[<<"hand", u>>] = Of(hand[u], i) /\ b[<<"hand", u>>] = Of(hand'[u], i)
          /\ a[<<"spare", u>>] = Of(spare[u], i) /\ b[<<"spare", u>>] = Of(spare'[u], i)
      BY AmountOf
    <3> HIDE DEF a, b
    <3> QED BY <3>1, <3>3, <3>4
  <2> QED BY <2>1, <2>2, HolderKinds
<1>3. /\ a[h] = Of(hand[t], i) /\ a[k] = Of(spare[t], i)
      /\ b[h] = Of(hand'[t], i) /\ b[k] = Of(spare'[t], i)
  BY AmountOf
<1>4. /\ a \in [Holders -> 0 .. TREE_SIZE] /\ Tokens(i) = Pairs(Holders, TREE_SIZE, a)
      /\ b \in [Holders -> 0 .. TREE_SIZE] /\ Tokens(i)' = Pairs(Holders, TREE_SIZE, b)
      /\ TREE_SIZE \in Nat
  BY TokensArePairs, TokensArePairsNext, Constants
<1> HIDE DEF a, b, h, k
<1>5. /\ IsFiniteSet(Pairs(Holders, TREE_SIZE, b))
      /\ Cardinality(Pairs(Holders, TREE_SIZE, a)) \in Nat
      /\ Cardinality(Pairs(Holders, TREE_SIZE, b)) \in Nat
      /\ Cardinality(Pairs(Holders, TREE_SIZE, b))
           = Cardinality(Pairs(Holders, TREE_SIZE, a)) - a[h] - a[k] + b[h] + b[k]
  <2>1. Update(Holders, TREE_SIZE, a, b, {h, k})
    BY <1>1, <1>2, <1>4 DEF Update
  <2> QED BY <1>1, <2>1, TwoAmounts
<1> QED BY <1>3, <1>4, <1>5

\* What a thread and a slot hold of a tree is part of what is counted of it.
LEMMA PartCounted ==
    ASSUME CInv, NEW t \in Threads, NEW i \in Trees
    PROVE  /\ Cardinality(Tokens(i)) \in Nat
           /\ Of(hand[t], i) + Of(spare[t], i) <= Cardinality(Tokens(i))
           /\ \A s \in Slots :
                 Of(slots[s], i) + Of(hand[t], i) + Of(spare[t], i) <= Cardinality(Tokens(i))
<1> DEFINE h == <<"hand", t>>
           k == <<"spare", t>>
           a == Amounts(i)
<1>1. h \in Holders /\ k \in Holders /\ h # k
  BY HolderKinds
<1>2. a[h] = Of(hand[t], i) /\ a[k] = Of(spare[t], i)
  BY AmountOf
<1>3. /\ a \in [Holders -> 0 .. TREE_SIZE] /\ Tokens(i) = Pairs(Holders, TREE_SIZE, a)
      /\ TREE_SIZE \in Nat /\ IsFiniteSet(Tokens(i))
  BY TokensArePairs, Constants DEF CInv, IInv, CountOK
<1>4. Cardinality(Tokens(i)) \in Nat
  BY <1>3, FS_CardinalityType
<1>5. ASSUME NEW s \in Slots
      PROVE  Of(slots[s], i) + Of(hand[t], i) + Of(spare[t], i) <= Cardinality(Tokens(i))
  <2> DEFINE g == <<"slot", s>>
  <2>1. g \in Holders /\ g # h /\ g # k /\ a[g] = Of(slots[s], i)
    BY HolderKinds, AmountOf
  <2> HIDE DEF a, h, k, g
  <2>2. a[g] + a[h] + a[k] <= Cardinality(Pairs(Holders, TREE_SIZE, a))
    <3>1. Update(Holders, TREE_SIZE, a, a, {g, h, k})
      BY <1>1, <1>3, <2>1 DEF Update
    <3> QED BY <1>1, <2>1, <3>1, ThreeBounded
  <2> QED BY <1>2, <1>3, <2>1, <2>2
<1>6. Of(hand[t], i) + Of(spare[t], i) <= Cardinality(Tokens(i))
  <2> HIDE DEF a, h, k
  <2>1. a[h] + a[k] <= Cardinality(Pairs(Holders, TREE_SIZE, a))
    <3>1. Update(Holders, TREE_SIZE, a, a, {h, k})
      BY <1>1, <1>3 DEF Update
    <3> QED BY <1>1, <3>1, TwoBounded
  <2> QED BY <1>2, <1>3, <2>1
<1> QED BY <1>4, <1>5, <1>6

-----------------------------------------------------------------------------
(* Steps of one thread. *)

\* A step of t changes nothing of the other threads.
LEMMA StartOthers ==
    ASSUME TypeInv, NEW t \in Threads, Start(t)
    PROVE  Others(t)
<1>1. PICK r \in Calls : Get(t, r) \/ GetAt(t, r) \/ Put(t, r) \/ Drain(t, r) \/ Change(t, r)
  BY DEF Start
<1> USE DEF TypeInv, TypeOK, Others, Begin, Goto, SetLoc, counters
<1>2. CASE Get(t, r)
  BY <1>2 DEF Get, UseLocal, SearchFrom
<1>3. CASE GetAt(t, r)
  BY <1>3 DEF GetAt, UseLocal
<1>4. CASE Put(t, r)
  BY <1>4 DEF Put
<1>5. CASE Drain(t, r)
  BY <1>5 DEF Drain
<1>6. CASE Change(t, r)
  BY <1>6 DEF Change
<1> QED BY <1>1, <1>2, <1>3, <1>4, <1>5, <1>6

\* The positions and labels of the other threads stay.
Still(t) == \A u \in Threads : u # t => pc'[u] = pc[u] /\ loc'[u] = loc[u]

\* A call that has no frames in hand goes on at one of these labels.
Searching == {"scan", "reserve", "load", "steal", "demote", "memory", "ok"}

Going(t) == Still(t) /\ pc'[t] \in Searching

LEMMA SearchGoes ==
    ASSUME TypeInv, NEW t \in Threads
    PROVE  /\ \A start, phase : SearchFrom(t, start, phase) => Going(t)
           /\ \A start : LocalMiss(t, start) => Going(t)
           /\ StealLocal(t) => Going(t)
           /\ DemoteLocal(t) => Going(t)
           /\ AfterFailure(t) => Going(t)
           /\ \A l, i : Try(t, l, i) => Going(t)
           /\ \A e : StealFrom(t, e) => Still(t) /\ pc'[t] \in Searching \cup {"steal_cas"}
<1> USE DEF TypeInv, TypeOK, Goto, SetLoc, Going, Still, Searching
<1>1. \A start, phase : SearchFrom(t, start, phase) => Going(t)
  BY DEF SearchFrom
<1>2. \A start : LocalMiss(t, start) => Going(t)
  BY <1>1 DEF LocalMiss
<1>3. (StealLocal(t) => Going(t)) /\ (DemoteLocal(t) => Going(t))
  BY DEF StealLocal, DemoteLocal
<1>4. AfterFailure(t) => Going(t)
  <2>1. loc[t].from \in {"local", "search", "steal", "tree", "demote", "put"}
    BY LocFields
  <2> QED BY <1>2, <1>3, <2>1 DEF AfterFailure
<1>5. \A l, i : Try(t, l, i) => Going(t)
  BY DEF Try
<1>6. \A e : StealFrom(t, e) => Still(t) /\ pc'[t] \in Searching \cup {"steal_cas"}
  BY <1>3 DEF StealFrom
<1> QED BY <1>1, <1>2, <1>3, <1>4, <1>5, <1>6

LEMMA StepOthers ==
    ASSUME TypeInv, NEW t \in Threads, Step(t)
    PROVE  Others(t)
<1> DEFINE Own == /\ UNCHANGED call \/ call' = [call EXCEPT ![t] = NoCall]
                  /\ UNCHANGED hand \/ \E h : Hold(t, h)
                  /\ UNCHANGED spare \/ \E r : spare' = [spare EXCEPT ![t] = r]
<1>1. ASSUME Still(t), Own PROVE Others(t)
  BY <1>1 DEF Others, Still, Hold, TypeInv, TypeOK
<1> USE SearchGoes DEF Going
<1>2. CASE LocalGet(t) \/ SyncSteal(t) \/ Lower(t) \/ GiveBack(t)
  <2> USE DEF Still, Goto, SetLoc, TypeInv, TypeOK
  <2>1. CASE LocalGet(t)
    BY <2>1, <1>1 DEF LocalGet
  <2>2. CASE SyncSteal(t)
    BY <2>2, <1>1 DEF SyncSteal
  <2>3. CASE Lower(t)
    BY <2>3, <1>1 DEF Lower
  <2>4. CASE GiveBack(t)
    BY <2>4, <1>1 DEF GiveBack
  <2> QED BY <1>2, <2>1, <2>2, <2>3, <2>4
<1>3. CASE SyncPut(t) \/ PutSlot(t)
  <2> USE DEF Still, Goto, SetLoc, TypeInv, TypeOK
  <2>1. CASE SyncPut(t)
    BY <2>1, <1>1 DEF SyncPut, PutInSlot
  <2>2. CASE PutSlot(t)
    BY <2>2, <1>1 DEF PutSlot, PutInSlot
  <2> QED BY <1>3, <2>1, <2>2
<1>4. CASE Scan(t) \/ Pick(t) \/ Reserve(t) \/ StealLoad(t) \/ StealCas(t)
  <2> USE DEF Still, Goto, SetLoc, TypeInv, TypeOK, counters
  <2>1. CASE Scan(t)
    BY <2>1, <1>1 DEF Scan
  <2>2. CASE Pick(t)
    BY <2>2, <1>1 DEF Pick
  <2>3. CASE Reserve(t)
    BY <2>3, <1>1 DEF Reserve
  <2>4. CASE StealLoad(t)
    BY <2>4, <1>1 DEF StealLoad
  <2>5. CASE StealCas(t)
    BY <2>5, <1>1 DEF StealCas
  <2> QED BY <1>4, <2>1, <2>2, <2>3, <2>4, <2>5
<1>5. CASE Swap(t) \/ Unreserve(t) \/ DrainSlot(t) \/ LowerPut(t) \/ DemoteSwap(t)
  <2> USE DEF Still, Goto, SetLoc, TypeInv, TypeOK
  <2>1. CASE Swap(t)
    BY <2>1, <1>1 DEF Swap
  <2>2. CASE Unreserve(t)
    BY <2>2, <1>1 DEF Unreserve
  <2>3. CASE DrainSlot(t)
    BY <2>3, <1>1 DEF DrainSlot
  <2>4. CASE LowerPut(t)
    BY <2>4, <1>1 DEF LowerPut
  <2>5. CASE DemoteSwap(t)
    BY <2>5, <1>1 DEF DemoteSwap
  <2> QED BY <1>5, <2>1, <2>2, <2>3, <2>4, <2>5
<1>6. CASE StealSlot(t) \/ TakeSlot(t)
  <2> USE DEF Still, Goto, SetLoc, TypeInv, TypeOK, SkipSlot
  <2>1. CASE StealSlot(t)
    BY <2>1, <1>1 DEF StealSlot
  <2>2. CASE TakeSlot(t)
    BY <2>2, <1>1 DEF TakeSlot, TakeTree
  <2> QED BY <1>6, <2>1, <2>2
<1>7. CASE ChangeLoad(t) \/ ChangeFetch(t) \/ ChangeCas(t) \/ Return(t)
  <2> USE DEF Still, Goto, SetLoc, TypeInv, TypeOK, counters
  <2>1. CASE ChangeLoad(t)
    BY <2>1, <1>1 DEF ChangeLoad
  <2>2. CASE ChangeFetch(t)
    BY <2>2, <1>1 DEF ChangeFetch
  <2>3. CASE ChangeCas(t)
    BY <2>3, <1>1 DEF ChangeCas, ChangeNext
  <2>4. CASE Return(t)
    BY <2>4, <1>1 DEF Return
  <2> QED BY <1>7, <2>1, <2>2, <2>3, <2>4
<1> QED BY <1>2, <1>3, <1>4, <1>5, <1>6, <1>7 DEF Step

-----------------------------------------------------------------------------
(* Steps that move frames between a thread, a slot and the tree's entry. *)

\* What the invariant says about a thread.
LEMMA ThreadCarries ==
    ASSUME CInv, NEW t \in Threads
    PROVE  /\ Carried(pc[t], call[t], loc[t], hand[t], spare[t])
           /\ pc[t] \notin Carrying => hand[t].free = 0
           /\ pc[t] # "unreserve" => spare[t].free = 0
           /\ hand[t].tree \in Trees /\ hand[t].free \in 0 .. TREE_SIZE
           /\ spare[t].tree \in Trees /\ spare[t].free \in 0 .. TREE_SIZE
BY ThreadFields DEF CInv, IInv, CarriedOK, Carried

\* Taking frames online or offline is a matter of the change calls.
LEMMA NotChanging ==
    ASSUME CInv, IInv', NEW t \in Threads, Others(t), offline' = offline,
           pc'[t] \notin Changing,
           Carried(pc'[t], call'[t], loc'[t], hand'[t], spare'[t]), SlotsOK', CountOK'
    PROVE  CInv'
<1>1. CarriedOK'
  BY DEF CInv, CarriedOK, Others
<1>2. ChangeOK'
  BY DEF CInv, ChangeOK, ChangeAt, Others
<1>3. OnlineOnce'
  BY DEF CInv, OnlineOnce, GoesOnline, Others
<1> QED BY <1>1, <1>2, <1>3 DEF CInv

\* The frames of each tree stay counted if as many leave its entry, the thread and
\* the slot as enter them, except for those that the lower allocator gives or takes.
LEMMA CountKept ==
    ASSUME CInv, IInv', offline' = offline,
           \A i \in Trees :
              /\ IsFiniteSet(Tokens(i)') /\ Cardinality(Tokens(i)') \in Nat
              /\ Count(i)' - room'[i] = Count(i) - room[i]
              /\ room'[i] <= FramesOf(i)
              /\ i \in offline => room'[i] = room[i]
              /\ trees'[i].reserved => trees[i].reserved \/ trees[i].free # 0
    PROVE  CountOK'
<1> SUFFICES ASSUME NEW i \in Trees
             PROVE  /\ IsFiniteSet(Tokens(i)') /\ room'[i] <= FramesOf(i)
                    /\ i \notin offline => Count(i)' = room'[i]
                    /\ i \in offline => /\ Count(i)' = 0 /\ room'[i] = FramesOf(i)
                                        /\ ~trees'[i].reserved
  BY DEF CountOK, Trees, TreeCount, FramesOf
<1>1. /\ trees[i].free \in Nat /\ trees'[i].free \in Nat
      /\ room[i] \in Nat /\ room'[i] \in Nat
  BY DEF CInv, IInv, TypeInv, TypeOK, Entries
<1>2. IsFiniteSet(Tokens(i)) /\ Cardinality(Tokens(i)) \in Nat
  BY FS_CardinalityType DEF CInv, CountOK
<1>3. Count(i) \in Nat /\ Count(i)' \in Nat
  BY <1>1, <1>2 DEF Count
<1>4. CASE i \notin offline
  BY <1>1, <1>3, <1>4 DEF CInv, CountOK
<1>5. CASE i \in offline
  <2>1. Count(i) = 0 /\ room[i] = FramesOf(i) /\ ~trees[i].reserved
    BY <1>5 DEF CInv, CountOK
  <2>2. trees[i].free = 0
    BY <2>1, <1>1, <1>2 DEF Count
  <2> QED BY <1>1, <1>3, <1>5, <2>1, <2>2
<1> QED BY <1>4, <1>5

\* Frames move between the hands of t and the entry of a tree.
LEMMA HandCounted ==
    ASSUME CInv, IInv', NEW t \in Threads, Others(t), offline' = offline, slots' = slots,
           \A i \in Trees :
              /\ trees'[i].free + Of(hand'[t], i) + Of(spare'[t], i) - room'[i]
                   = trees[i].free + Of(hand[t], i) + Of(spare[t], i) - room[i]
              /\ room'[i] <= FramesOf(i)
              /\ i \in offline => room'[i] = room[i]
              /\ trees'[i].reserved => trees[i].reserved \/ trees[i].free # 0
    PROVE  CountOK'
<1> SUFFICES ASSUME NEW i \in Trees
             PROVE  /\ IsFiniteSet(Tokens(i)') /\ Cardinality(Tokens(i)') \in Nat
                    /\ Count(i)' - room'[i] = Count(i) - room[i]
  BY CountKept
<1>1. /\ IsFiniteSet(Tokens(i)')
      /\ Cardinality(Tokens(i)) \in Nat /\ Cardinality(Tokens(i)') \in Nat
      /\ Cardinality(Tokens(i)')
           = Cardinality(Tokens(i)) - Of(hand[t], i) - Of(spare[t], i)
               + Of(hand'[t], i) + Of(spare'[t], i)
  BY ThreadMoves DEF CInv, IInv, CountOK
<1>2. /\ trees[i].free \in Nat /\ trees'[i].free \in Nat
      /\ room[i] \in Nat /\ room'[i] \in Nat
  BY DEF CInv, IInv, TypeInv, TypeOK, Entries
<1>3. /\ Of(hand[t], i) \in Nat /\ Of(spare[t], i) \in Nat
      /\ Of(hand'[t], i) \in Nat /\ Of(spare'[t], i) \in Nat
  BY DEF CInv, IInv, TypeInv, TypeOK, Reservations, Of
<1> QED BY <1>1, <1>2, <1>3 DEF Count

\* Frames move between the hands of t, a slot and the entry of a tree.
LEMMA SlotHandCounted ==
    ASSUME CInv, IInv', NEW t \in Threads, Others(t), NEW s \in Slots,
           UNCHANGED <<trees, room, offline>>,
           \A q \in Slots \ {s} : slots'[q] = slots[q],
           \A i \in Trees :
              Of(slots'[s], i) + Of(hand'[t], i) + Of(spare'[t], i)
                = Of(slots[s], i) + Of(hand[t], i) + Of(spare[t], i)
    PROVE  CountOK'
<1> SUFFICES ASSUME NEW i \in Trees
             PROVE  /\ IsFiniteSet(Tokens(i)') /\ Cardinality(Tokens(i)') \in Nat
                    /\ Count(i)' - room'[i] = Count(i) - room[i]
                    /\ room'[i] <= FramesOf(i)
  BY CountKept
<1>1. /\ IsFiniteSet(Tokens(i)')
      /\ Cardinality(Tokens(i)) \in Nat /\ Cardinality(Tokens(i)') \in Nat
      /\ Cardinality(Tokens(i)')
           = Cardinality(Tokens(i)) - Of(slots[s], i) - Of(hand[t], i) - Of(spare[t], i)
               + Of(slots'[s], i) + Of(hand'[t], i) + Of(spare'[t], i)
  BY SlotMoves DEF CInv, IInv, CountOK
<1>2. trees[i].free \in Nat /\ room[i] \in Nat /\ room[i] <= FramesOf(i)
  BY DEF CInv, IInv, TypeInv, TypeOK, Entries, CountOK
<1>3. /\ Of(hand[t], i) \in Nat /\ Of(spare[t], i) \in Nat /\ Of(slots[s], i) \in Nat
      /\ Of(hand'[t], i) \in Nat /\ Of(spare'[t], i) \in Nat /\ Of(slots'[s], i) \in Nat
  BY DEF CInv, IInv, TypeInv, TypeOK, Reservations, Of
<1>4. Cardinality(Tokens(i)') = Cardinality(Tokens(i))
  BY <1>1, <1>3
<1> QED BY <1>1, <1>2, <1>4 DEF Count

\* A step that moves no frames, to a label where none are in hand.
LEMMA NothingMoved ==
    ASSUME CInv, IInv', NEW t \in Threads, Others(t), pc[t] \notin Carrying,
           UNCHANGED <<trees, slots, room, offline>>,
           hand'[t] \in {hand[t], Nothing}, spare'[t] = spare[t],
           pc'[t] \in Labels \ (Changing \cup Carrying \cup {"abort"})
    PROVE  CInv'
<1>1. hand[t].free = 0 /\ spare[t].free = 0 /\ hand'[t].free = 0 /\ spare'[t].free = 0
  BY ThreadCarries DEF Carrying, Nothing, Reservation
<1>2. CountOK'
  <2>1. \A i \in Trees : room[i] <= FramesOf(i)
    BY DEF CInv, CountOK
  <2>2. \A i \in Trees : /\ Of(hand[t], i) = 0 /\ Of(spare[t], i) = 0
                         /\ Of(hand'[t], i) = 0 /\ Of(spare'[t], i) = 0
    BY <1>1 DEF Of
  <2> QED BY <2>1, <2>2, HandCounted
<1>3. SlotsOK'
  BY DEF CInv, SlotsOK
<1>4. Carried(pc'[t], call'[t], loc'[t], hand'[t], spare'[t])
  BY <1>1 DEF Carried, Carrying
<1> QED BY <1>2, <1>3, <1>4, NotChanging

-----------------------------------------------------------------------------
(* The steps of the allocating calls. *)

\* Calls begin with nothing in hand.
LEMMA StartCounted ==
    ASSUME CInv, IInv', NEW t \in Threads, NEW r \in Calls,
           Get(t, r) \/ GetAt(t, r) \/ Put(t, r) \/ Drain(t, r)
    PROVE  CInv'
<1>1. Others(t)
  BY StartOthers DEF CInv, IInv, Start
<1>2. /\ pc[t] = "idle" /\ UNCHANGED <<trees, slots, room, hand, spare, offline>>
      /\ pc'[t] \in {"argument", "local", "scan", "load", "put", "drain"}
  <2> USE DEF Begin, At, Goto, UseLocal, SearchFrom, counters, CInv, IInv, TypeInv, TypeOK
  <2>1. CASE Get(t, r)
    BY <2>1 DEF Get
  <2>2. CASE GetAt(t, r)
    BY <2>2 DEF GetAt
  <2>3. CASE Put(t, r)
    BY <2>3 DEF Put
  <2>4. CASE Drain(t, r)
    BY <2>4 DEF Drain
  <2> QED BY <2>1, <2>2, <2>3, <2>4
<1> QED BY <1>1, <1>2, NothingMoved DEF Labels, Done, Carrying, Changing

\* And they return with nothing in hand.
LEMMA ReturnCounted ==
    ASSUME CInv, IInv', NEW t \in Threads, Return(t)
    PROVE  CInv'
<1>1. Others(t)
  BY StepOthers DEF CInv, IInv, Step
<1>2. /\ pc[t] \in Done /\ UNCHANGED <<trees, slots, room, spare, offline>>
      /\ pc'[t] = "idle" /\ hand'[t] = Nothing
  BY DEF Return, At, Goto, Hold, Done, counters, CInv, IInv, TypeInv, TypeOK
<1> QED BY <1>1, <1>2, NothingMoved DEF Labels, Done, Carrying, Changing

\* Searches move no frames.
LEMMA SearchCounted ==
    ASSUME CInv, IInv', NEW t \in Threads, Scan(t) \/ Pick(t) \/ StealLoad(t)
    PROVE  CInv'
<1>1. Others(t)
  BY StepOthers DEF CInv, IInv, Step
<1>2. /\ pc[t] \in {"scan", "load"}
      /\ UNCHANGED <<trees, slots, room, hand, spare, offline>>
      /\ pc'[t] \in Searching \cup {"steal_cas"}
  <2> USE SearchGoes DEF Going, At, Searching, counters, CInv, IInv
  <2>1. CASE Scan(t)
    BY <2>1 DEF Scan
  <2>2. CASE Pick(t)
    BY <2>2 DEF Pick
  <2>3. CASE StealLoad(t)
    BY <2>3 DEF StealLoad
  <2> QED BY <2>1, <2>2, <2>3
<1> QED BY <1>1, <1>2, NothingMoved DEF Labels, Done, Carrying, Changing, Searching

\* What the reservation holds and what a request takes of it.
LEMMA SlotTaken ==
    ASSUME CInv, IInv', NEW t \in Threads, Others(t), NEW s \in Slots, Fits(t, slots[s]),
           call[t].n \in Nat, pc[t] \notin Carrying,
           slots' = [slots EXCEPT ![s].free = @ - call[t].n],
           Hold(t, Reservation(FALSE, slots[s].tree, call[t].n)), Goto(t, "lower"),
           UNCHANGED <<trees, room, call, spare, offline>>
    PROVE  CInv'
<1> DEFINE r == slots[s]
           n == call[t].n
           h == Reservation(FALSE, r.tree, n)
<1>1. r \in Reservations /\ r.tree \in Trees /\ r.free \in Nat /\ r.present
  BY SlotFields DEF CInv, IInv, Fits, Reservations
<1>2. hand'[t] = h /\ pc'[t] = "lower" /\ hand[t].free = 0 /\ spare[t].free = 0
  BY ThreadCarries DEF Hold, Goto, CInv, IInv, TypeInv, TypeOK, Carrying
<1>3. /\ slots'[s] = [r EXCEPT !.free = r.free - n]
      /\ \A q \in Slots \ {s} : slots'[q] = slots[q]
  BY DEF CInv, IInv, TypeInv, TypeOK
<1>4. /\ slots'[s].present = r.present /\ slots'[s].tree = r.tree
      /\ slots'[s].free = r.free - n
  <2>1. ASSUME NEW q \in Reservations, NEW k
        PROVE  /\ [q EXCEPT !.free = k].present = q.present
               /\ [q EXCEPT !.free = k].tree = q.tree
               /\ [q EXCEPT !.free = k].free = k
    BY DEF Reservations
  <2>2. slots'[s] = [r EXCEPT !.free = r.free - n]
    BY <1>3
  <2>3. r \in Reservations
    BY <1>1
  <2> DEFINE k == r.free - n
  <2> HIDE DEF r, n, h
  <2>4. slots'[s] = [r EXCEPT !.free = k]
    BY <2>2
  <2> HIDE DEF k
  <2>5. /\ [r EXCEPT !.free = k].present = r.present
        /\ [r EXCEPT !.free = k].tree = r.tree
        /\ [r EXCEPT !.free = k].free = k
    BY <2>1, <2>3, Zenon
  <2>6. slots'[s].present = r.present /\ slots'[s].tree = r.tree /\ slots'[s].free = k
    BY <2>4, <2>5, Zenon
  <2> QED BY <2>6 DEF k
<1>5. CountOK'
  <2>1. ASSUME NEW i \in Trees
        PROVE  Of(slots'[s], i) + Of(hand'[t], i) + Of(spare'[t], i)
                 = Of(slots[s], i) + Of(hand[t], i) + Of(spare[t], i)
    BY <1>1, <1>2, <1>4 DEF Of, Reservation
  <2> QED BY <1>3, <2>1, SlotHandCounted
<1>6. SlotsOK'
  BY <1>1, <1>3, <1>4 DEF SlotsOK, CInv
<1>7. Carried(pc'[t], call'[t], loc'[t], hand'[t], spare'[t])
  BY <1>2 DEF Carried, Carrying, Reservation
<1> QED BY <1>2, <1>5, <1>6, <1>7, NotChanging DEF Changing

\* get_local.
LEMMA LocalGetCounted ==
    ASSUME CInv, IInv', NEW t \in Threads, LocalGet(t)
    PROVE  CInv'
<1>1. Others(t)
  BY StepOthers DEF CInv, IInv, Step
<1>2. pc[t] = "local" /\ UNCHANGED <<trees, room, call, spare, held, offline, restarts>>
  BY DEF LocalGet, At
<1>3. Running(t) /\ call[t].local # NoLocal /\ SlotOf(t) \in Slots /\ call[t].n \in Nat
  BY <1>2, RunningThread DEF SlotNeeded, CInv
<1>4. CASE Fits(t, slots[SlotOf(t)])
  BY <1>1, <1>2, <1>3, <1>4, SlotTaken DEF LocalGet, Carrying
<1>5. CASE ~Fits(t, slots[SlotOf(t)])
  <2>1. UNCHANGED <<slots, hand>> /\ pc'[t] \in Searching \cup {"sync"}
    BY <1>5, SearchGoes DEF LocalGet, Going, Searching, Goto, CInv, IInv, TypeInv, TypeOK
  <2> QED BY <1>1, <1>2, <2>1, NothingMoved DEF Labels, Done, Carrying, Changing, Searching
<1> QED BY <1>4, <1>5

\* The entry of tree i is written.
LEMMA Written ==
    ASSUME CInv, NEW i \in Trees, NEW e, trees' = [trees EXCEPT ![i] = e]
    PROVE  trees'[i] = e /\ \A j \in Trees : j # i => trees'[j] = trees[j]
BY DEF CInv, IInv, TypeInv, TypeOK

\* The fields of an entry.
LEMMA EntryFields ==
    ASSUME CInv, NEW i \in Trees
    PROVE  /\ trees[i] \in Entries /\ trees[i].free \in Nat /\ trees[i].reserved \in BOOLEAN
           /\ room[i] \in Nat /\ room[i] <= FramesOf(i)
BY DEF CInv, IInv, TypeInv, TypeOK, Entries, CountOK

\* Frames go from the entry of tree i, which t has read or has not, into t's hand.
LEMMA TreeTaken ==
    ASSUME CInv, IInv', NEW t \in Threads, Others(t), NEW i \in Trees, NEW e, NEW h,
           trees' = [trees EXCEPT ![i] = e], Hold(t, h), pc[t] \notin Carrying,
           h.tree = i, h.free \in Nat, e.free \in Nat, e.free + h.free = trees[i].free,
           e.reserved => trees[i].reserved \/ trees[i].free # 0,
           NEW p \in {"lower", "give_back", "sync_put"}, Goto(t, p),
           p = "lower" /\ ~h.present => h.free = call[t].n,
           UNCHANGED <<slots, room, call, spare, offline>>
    PROVE  CInv'
<1>1. pc'[t] = p /\ hand'[t] = h /\ hand[t].free = 0 /\ spare[t].free = 0
  BY ThreadCarries DEF Hold, Goto, CInv, IInv, TypeInv, TypeOK, Carrying
<1>2. trees'[i] = e /\ \A j \in Trees : j # i => trees'[j] = trees[j]
  BY Written
<1>3. CountOK'
  <2>1. ASSUME NEW j \in Trees
        PROVE  /\ trees'[j].free + Of(hand'[t], j) + Of(spare'[t], j) - room'[j]
                    = trees[j].free + Of(hand[t], j) + Of(spare[t], j) - room[j]
               /\ room'[j] <= FramesOf(j)
               /\ trees'[j].reserved => trees[j].reserved \/ trees[j].free # 0
    <3>1. Of(hand[t], j) = 0 /\ Of(spare[t], j) = 0 /\ Of(spare'[t], j) = 0
      BY <1>1 DEF Of
    <3>2. CASE j = i
      BY <1>1, <1>2, <3>1, <3>2, EntryFields DEF Of
    <3>3. CASE j # i
      <4>1. Of(hand'[t], j) = 0 /\ trees'[j] = trees[j]
        BY <1>1, <1>2, <3>3 DEF Of
      <4> QED BY <3>1, <4>1, EntryFields
    <3> QED BY <3>2, <3>3
  <2> QED BY <2>1, HandCounted
<1>4. SlotsOK'
  BY DEF CInv, SlotsOK
<1>5. Carried(pc'[t], call'[t], loc'[t], hand'[t], spare'[t])
  BY <1>1 DEF Carried, Carrying
<1> QED BY <1>1, <1>3, <1>4, <1>5, NotChanging DEF Changing

\* sync_with_global.
LEMMA SyncStealCounted ==
    ASSUME CInv, IInv', NEW t \in Threads, SyncSteal(t)
    PROVE  CInv'
<1> DEFINE i == loc[t].tree
           e == [trees[i] EXCEPT !.free = 0]
           h == Reservation(FALSE, i, trees[i].free)
<1>1. Others(t)
  BY StepOthers DEF CInv, IInv, Step
<1>2. pc[t] = "sync" /\ UNCHANGED <<slots, room, call, spare, held, offline, restarts>>
  BY DEF SyncSteal, At
<1>3. i \in Trees /\ trees[i] \in Entries /\ trees[i].free \in Nat
  BY LocFields, EntryFields DEF CInv, IInv
<1>4. CASE CanSync(trees[i], call[t].n - loc[t].free)
  <2>1. trees' = [trees EXCEPT ![i] = e] /\ Hold(t, h) /\ Goto(t, "sync_put")
    BY <1>4 DEF SyncSteal
  <2>2. /\ h.tree = i /\ h.free = trees[i].free /\ e.free = 0
        /\ e.reserved = trees[i].reserved
    BY <1>3 DEF Entries, Reservation
  <2> HIDE DEF i, e, h
  <2>3. e.free \in Nat /\ h.free \in Nat /\ e.free + h.free = trees[i].free
    BY <1>3, <2>2
  <2> QED BY <1>1, <1>2, <1>3, <2>1, <2>2, <2>3, TreeTaken DEF Carrying
<1>5. CASE ~CanSync(trees[i], call[t].n - loc[t].free)
  <2>1. UNCHANGED <<trees, hand>> /\ pc'[t] \in Searching
    BY <1>5, SearchGoes DEF SyncSteal, Going, CInv, IInv
  <2> QED BY <1>1, <1>2, <2>1, NothingMoved DEF Labels, Done, Carrying, Changing, Searching
<1> QED BY <1>4, <1>5

\* trees_reserve_or_steal.
LEMMA ReserveCounted ==
    ASSUME CInv, IInv', NEW t \in Threads, Reserve(t)
    PROVE  CInv'
<1> DEFINE i == loc[t].tree
           class == call[t].class
           n == call[t].n
<1>1. Others(t)
  BY StepOthers DEF CInv, IInv, Step
<1>2. /\ pc[t] = "reserve"
      /\ UNCHANGED <<slots, room, call, loc, spare, held, offline, restarts>>
  BY DEF Reserve, At
<1>3. /\ i \in Trees /\ trees[i] \in Entries /\ trees[i].free \in Nat
      /\ n \in Nat \ {0}
  BY <1>2, LocFields, EntryFields, RunningThread DEF CInv, IInv
<1>4. CASE /\ CanReserve(trees[i], class, n)
           /\ trees' = [trees EXCEPT ![i] = Entry(TRUE, class, 0)]
           /\ Hold(t, Reservation(TRUE, i, trees[i].free))
           /\ Goto(t, IF HasLocals(class) THEN "lower" ELSE "give_back")
  <2> DEFINE e == Entry(TRUE, class, 0)
             h == Reservation(TRUE, i, trees[i].free)
             p == IF HasLocals(class) THEN "lower" ELSE "give_back"
  <2>1. trees[i].free # 0
    BY <1>3, <1>4 DEF CanReserve, Usable
  <2>2. /\ h.tree = i /\ h.free = trees[i].free /\ h.present /\ e.free = 0
        /\ p \in {"lower", "give_back", "sync_put"}
    BY DEF Entry, Reservation
  <2>3. trees' = [trees EXCEPT ![i] = e] /\ Hold(t, h) /\ Goto(t, p)
    BY <1>4
  <2> HIDE DEF i, e, h, p
  <2>4. e.free \in Nat /\ h.free \in Nat /\ e.free + h.free = trees[i].free
    BY <1>3, <2>2
  <2> QED BY <1>1, <1>2, <1>3, <2>1, <2>2, <2>3, <2>4, TreeTaken DEF Carrying
<1>5. CASE /\ CanOnlySteal(trees[i], class, n)
           /\ trees' = [trees EXCEPT ![i].free = @ - n]
           /\ Hold(t, Reservation(FALSE, i, n))
           /\ Goto(t, IF HasLocals(trees[i].class) THEN "lower" ELSE "give_back")
  <2> DEFINE e == [trees[i] EXCEPT !.free = trees[i].free - n]
             h == Reservation(FALSE, i, n)
             p == IF HasLocals(trees[i].class) THEN "lower" ELSE "give_back"
  <2>1. trees[i].free - n \in Nat
    BY <1>3, <1>5 DEF CanOnlySteal, Usable
  <2>2. /\ h.tree = i /\ h.free = n /\ ~h.present /\ e.free = trees[i].free - n
        /\ e.reserved = trees[i].reserved /\ p \in {"lower", "give_back", "sync_put"}
    BY <1>3 DEF Entries, Reservation
  <2>3. trees' = [trees EXCEPT ![i] = e] /\ Hold(t, h) /\ Goto(t, p)
    BY <1>5
  <2> HIDE DEF i, n, e, h, p
  <2>4. e.free \in Nat /\ h.free \in Nat /\ e.free + h.free = trees[i].free
    BY <1>3, <2>1, <2>2
  <2> QED BY <1>1, <1>2, <1>3, <2>2, <2>3, <2>4, TreeTaken DEF Carrying, n
<1>6. CASE Goto(t, "scan") /\ UNCHANGED <<trees, hand>>
  <2>1. pc'[t] = "scan"
    BY <1>6 DEF Goto, CInv, IInv, TypeInv, TypeOK
  <2> QED BY <1>1, <1>2, <1>6, <2>1, NothingMoved DEF Labels, Done, Carrying, Changing
<1> QED BY <1>4, <1>5, <1>6 DEF Reserve

\* trees_steal.
LEMMA StealCasCounted ==
    ASSUME CInv, IInv', NEW t \in Threads, StealCas(t)
    PROVE  CInv'
<1> DEFINE i == loc[t].tree
           l == loc[t]
           n == call[t].n
           e == Entry(l.seen.reserved, l.class, l.seen.free - n)
           h == Reservation(FALSE, i, n)
<1>1. Others(t)
  BY StepOthers DEF CInv, IInv, Step
<1>2. pc[t] = "steal_cas" /\ UNCHANGED <<slots, room, call, spare, held, offline, restarts>>
  BY DEF StealCas, At
<1>3. /\ i \in Trees /\ trees[i] \in Entries /\ trees[i].free \in Nat
      /\ n \in Nat \ {0} /\ InHand(pc[t], call[t], loc[t], hand[t], spare[t])
  BY <1>2, LocFields, EntryFields, RunningThread DEF CInv, IInv
<1>4. CASE StillSeen(t)
  <2>1. trees' = [trees EXCEPT ![i] = e] /\ Hold(t, h) /\ Goto(t, "lower")
    BY <1>4 DEF StealCas
  <2>2. l.seen = trees[i] /\ l.seen.free >= n
    BY <1>2, <1>3, <1>4 DEF StillSeen, InHand
  <2>3. /\ h.tree = i /\ h.free = n /\ ~h.present /\ e.free = trees[i].free - n
        /\ e.reserved = trees[i].reserved
    BY <2>2 DEF Entry, Reservation
  <2>5. trees[i].free >= n
    BY <2>2
  <2> HIDE DEF i, e, h
  <2>4. e.free \in Nat /\ h.free \in Nat /\ e.free + h.free = trees[i].free
    BY <1>3, <2>3, <2>5
  <2> QED BY <1>1, <1>2, <1>3, <2>1, <2>3, <2>4, TreeTaken DEF Carrying
<1>5. CASE ~StillSeen(t)
  <2>1. UNCHANGED <<trees, hand>> /\ pc'[t] \in Searching \cup {"steal_cas"}
    BY <1>5, SearchGoes DEF StealCas, CInv, IInv
  <2> QED BY <1>1, <1>2, <2>1, NothingMoved DEF Labels, Done, Carrying, Changing, Searching
<1> QED BY <1>4, <1>5

-----------------------------------------------------------------------------
(* The counters never overflow. *)

LEMMA Bounded ==
    ASSUME CInv, NEW i \in Trees
    PROVE  /\ trees[i].free \in Nat /\ Cardinality(Tokens(i)) \in Nat
           /\ trees[i].free + Cardinality(Tokens(i)) <= TREE_SIZE
           /\ i \in offline => trees[i].free = 0 /\ Cardinality(Tokens(i)) = 0
<1>1. trees[i].free \in Nat /\ room[i] \in Nat /\ room[i] <= FramesOf(i)
  BY EntryFields
<1>2. Cardinality(Tokens(i)) \in Nat
  BY FS_CardinalityType DEF CInv, CountOK
<1>3. FramesOf(i) \in Nat /\ FramesOf(i) <= TREE_SIZE /\ TREE_SIZE \in Nat
  BY TreesExist, Constants
<1>4. CASE i \in offline
  <2>1. Count(i) = 0
    BY <1>4 DEF CInv, CountOK
  <2> QED BY <1>1, <1>2, <1>3, <2>1 DEF Count
<1>5. CASE i \notin offline
  <2>1. Count(i) = room[i]
    BY <1>5 DEF CInv, CountOK
  <2> QED BY <1>1, <1>2, <1>3, <1>5, <2>1 DEF Count
<1> QED BY <1>4, <1>5

\* A tree whose frames a thread has in hand is not offline, and its entry has room
\* for them.
LEMMA HandFits ==
    ASSUME CInv, NEW t \in Threads
    PROVE  /\ CanPut(trees[hand[t].tree], hand[t].free)
           /\ CanPut(trees[spare[t].tree], spare[t].free)
           /\ hand[t].free # 0 => hand[t].tree \notin offline
<1>1. /\ hand[t].tree \in Trees /\ hand[t].free \in Nat
      /\ spare[t].tree \in Trees /\ spare[t].free \in Nat
  BY ThreadCarries
<1>2. \A i \in Trees :
        /\ trees[i].free \in Nat /\ Cardinality(Tokens(i)) \in Nat
        /\ trees[i].free + Cardinality(Tokens(i)) <= TREE_SIZE
        /\ i \in offline => Cardinality(Tokens(i)) = 0
        /\ Of(hand[t], i) + Of(spare[t], i) <= Cardinality(Tokens(i))
        /\ Of(hand[t], i) \in Nat /\ Of(spare[t], i) \in Nat
  BY <1>1, Bounded, PartCounted DEF Of
<1>3. Of(hand[t], hand[t].tree) = hand[t].free /\ Of(spare[t], spare[t].tree) = spare[t].free
  BY DEF Of
<1> QED BY <1>1, <1>2, <1>3, Constants DEF CanPut

\* A slot and a thread together have at most all frames of a tree.
LEMMA SlotFits ==
    ASSUME CInv, NEW t \in Threads, NEW s \in Slots, slots[s].tree = hand[t].tree
    PROVE  slots[s].free + hand[t].free <= TREE_SIZE
<1> DEFINE i == hand[t].tree
<1>1. /\ i \in Trees /\ hand[t].free \in Nat /\ spare[t].free \in Nat /\ slots[s].free \in Nat
  BY ThreadCarries, SlotFields DEF CInv, IInv
<1>2. /\ Of(slots[s], i) = slots[s].free /\ Of(hand[t], i) = hand[t].free
      /\ Of(spare[t], i) \in Nat
  BY <1>1 DEF Of
<1>3. /\ trees[i].free \in Nat /\ Cardinality(Tokens(i)) \in Nat
      /\ trees[i].free + Cardinality(Tokens(i)) <= TREE_SIZE
      /\ Of(slots[s], i) + Of(hand[t], i) + Of(spare[t], i) <= Cardinality(Tokens(i))
  BY <1>1, Bounded, PartCounted
<1> HIDE DEF i
<1> QED BY <1>1, <1>2, <1>3, Constants

-----------------------------------------------------------------------------
(* The slots. *)

\* A slot changes, and t has what was in it or has put something there.
LEMMA SlotChanged ==
    ASSUME CInv, IInv', NEW t \in Threads, Others(t), NEW s \in Slots, NEW q,
           slots' = [slots EXCEPT ![s] = q], UNCHANGED <<trees, room, offline>>,
           q.present \/ q.free = 0, pc'[t] \notin Changing,
           Carried(pc'[t], call'[t], loc'[t], hand'[t], spare'[t]),
           \A i \in Trees :
              Of(q, i) + Of(hand'[t], i) + Of(spare'[t], i)
                = Of(slots[s], i) + Of(hand[t], i) + Of(spare[t], i)
    PROVE  CInv'
<1>1. slots'[s] = q /\ \A r \in Slots \ {s} : slots'[r] = slots[r]
  BY DEF CInv, IInv, TypeInv, TypeOK
<1>2. CountOK'
  BY <1>1, SlotHandCounted
<1>3. SlotsOK'
  BY <1>1 DEF CInv, SlotsOK
<1> QED BY <1>2, <1>3, NotChanging

\* ll_local_put: there is always room in the slot.
LEMMA PutInSlotCounted ==
    ASSUME CInv, IInv', NEW t \in Threads, Others(t), NEW label \in {"sync_put", "put_slot"},
           NEW l, NEW next \in {"local", "ok"}, PutInSlot(t, label, l, next)
    PROVE  CInv'
<1> DEFINE s == SlotOf(t)
           r == slots[s]
           q == [r EXCEPT !.free = r.free + hand[t].free]
<1>1. /\ pc[t] = label
      /\ UNCHANGED <<trees, room, call, spare, held, offline, restarts>>
  BY DEF PutInSlot, At
<1>2. s \in Slots
  BY <1>1, RunningThread DEF SlotNeeded, CInv
<1>3. /\ r \in Reservations /\ r.present \in BOOLEAN /\ r.tree \in Trees /\ r.free \in Nat
      /\ hand[t].free \in Nat /\ spare[t].free = 0 /\ hand[t].tree \in Trees
  BY <1>1, <1>2, SlotFields, ThreadCarries DEF CInv, IInv
<1>4. CASE ~IsFor(r, hand[t].tree)
  <2>1. pc'[t] = "give_back" /\ UNCHANGED <<slots, hand, loc>>
    BY <1>4 DEF PutInSlot, Goto, CInv, IInv, TypeInv, TypeOK
  <2>2. Carried(pc'[t], call'[t], loc'[t], hand'[t], spare'[t])
    BY <1>1, <1>3, <2>1 DEF Carried, Carrying
  <2>3. CountOK' /\ SlotsOK'
    <3>1. \A i \in Trees : room[i] <= FramesOf(i)
      BY EntryFields
    <3>2. CountOK'
      BY <1>1, <2>1, <3>1, HandCounted
    <3> QED BY <2>1, <3>2 DEF CInv, SlotsOK
  <2> QED BY <1>1, <2>1, <2>2, <2>3, NotChanging DEF Changing
<1>5. CASE IsFor(r, hand[t].tree)
  <2>1. r.present /\ r.tree = hand[t].tree
    BY <1>5 DEF IsFor
  <2>2. ~(r.free + hand[t].free > TREE_SIZE)
    BY <1>2, <1>3, <2>1, SlotFits, Constants
  <2>3. slots' = [slots EXCEPT ![s] = q] /\ Hold(t, Nothing) /\ Goto(t, next)
    BY <1>5, <2>2 DEF PutInSlot
  <2>4. pc'[t] = next /\ hand'[t] = Nothing /\ spare'[t] = spare[t]
    BY <1>1, <2>3 DEF Hold, Goto, CInv, IInv, TypeInv, TypeOK
  <2>5. q.present /\ q.tree = hand[t].tree /\ q.free = r.free + hand[t].free
    BY <1>3, <2>1 DEF Reservations
  <2>6. Carried(pc'[t], call'[t], loc'[t], hand'[t], spare'[t])
    BY <1>3, <2>4 DEF Carried, Nothing, Reservation
  <2>8. Others(t) /\ s \in Slots /\ UNCHANGED <<trees, room, offline>>
    BY <1>1, <1>2
  <2>9. pc'[t] \notin Changing
    BY <1>1, <2>4 DEF Changing
  <2>7. ASSUME NEW i \in Trees
        PROVE  Of(q, i) + Of(hand'[t], i) + Of(spare'[t], i)
                 = Of(slots[s], i) + Of(hand[t], i) + Of(spare[t], i)
    <3>1. Of(hand'[t], i) = 0 /\ Of(spare[t], i) = 0 /\ Of(spare'[t], i) = 0
      BY <1>3, <2>4 DEF Of, Nothing, Reservation
    <3> QED BY <1>3, <2>1, <2>5, <3>1 DEF Of
  <2>10. slots' = [slots EXCEPT ![s] = q] /\ q.present
    BY <2>3, <2>5
  <2> HIDE DEF s, r, q
  <2> QED BY <2>6, <2>7, <2>8, <2>9, <2>10, SlotChanged
<1> QED BY <1>4, <1>5

LEMMA SyncPutCounted ==
    ASSUME CInv, IInv', NEW t \in Threads, SyncPut(t) \/ PutSlot(t)
    PROVE  CInv'
<1>1. Others(t)
  BY StepOthers DEF CInv, IInv, Step
<1> QED BY <1>1, PutInSlotCounted DEF SyncPut, PutSlot

-----------------------------------------------------------------------------
(* The lower allocator gives and takes frames. *)

\* The lower allocator gives frames or refuses; either way t has them in hand or
\* they are still counted.
LEMMA LowerCounted ==
    ASSUME CInv, IInv', NEW t \in Threads, Lower(t)
    PROVE  CInv'
<1> DEFINE i == hand[t].tree
           n == call[t].n
           h == [hand[t] EXCEPT !.free = hand[t].free - n]
<1>1. Others(t)
  BY StepOthers DEF CInv, IInv, Step
<1>2. /\ pc[t] = "lower"
      /\ UNCHANGED <<trees, slots, call, loc, spare, held, offline, restarts>>
  BY DEF Lower, At
<1>3. /\ i \in Trees /\ n \in Nat \ {0} /\ hand[t].free \in Nat /\ hand[t].free >= n
      /\ spare[t].free = 0 /\ hand[t] \in Reservations
      /\ ~hand[t].present => hand[t].free = n
  BY <1>2, RunningThread, ThreadCarries, ThreadFields DEF InHand, Carried, CInv, IInv
<1>4. \A j \in Trees : room[j] \in Nat /\ room[j] <= FramesOf(j) /\ FramesOf(j) \in Int
  BY EntryFields, TreesExist
<1>5. SlotsOK'
  BY <1>2 DEF CInv, SlotsOK
<1>6. CASE /\ room[i] >= n
           /\ room' = [room EXCEPT ![i] = @ - n] /\ Hold(t, h)
           /\ Goto(t, IF hand[t].present THEN "swap" ELSE "ok")
  <2>1. /\ h.tree = i /\ h.free = hand[t].free - n /\ h.present = hand[t].present
    BY <1>3 DEF Reservations
  <2>2. /\ pc'[t] = IF hand[t].present THEN "swap" ELSE "ok"
        /\ hand'[t] = h
    BY <1>6 DEF Hold, Goto, CInv, IInv, TypeInv, TypeOK
  <2>3. room'[i] = room[i] - n /\ \A j \in Trees : j # i => room'[j] = room[j]
    BY <1>3, <1>6 DEF CInv, IInv, TypeInv, TypeOK
  <2>4. Carried(pc'[t], call'[t], loc'[t], hand'[t], spare'[t])
    <3>1. CASE hand[t].present
      BY <1>2, <1>3, <2>1, <2>2, <3>1 DEF Carried, Carrying
    <3>2. CASE ~hand[t].present
      <4>1. hand'[t].free = 0
        BY <1>3, <2>1, <2>2, <3>2
      <4> QED BY <1>2, <1>3, <2>2, <3>2, <4>1 DEF Carried
    <3> QED BY <3>1, <3>2
  <2>5. i \notin offline
    BY <1>3, HandFits
  <2>6. ASSUME NEW j \in Trees
        PROVE  /\ trees'[j].free + Of(hand'[t], j) + Of(spare'[t], j) - room'[j]
                    = trees[j].free + Of(hand[t], j) + Of(spare[t], j) - room[j]
               /\ room'[j] <= FramesOf(j)
               /\ j \in offline => room'[j] = room[j]
               /\ trees'[j].reserved => trees[j].reserved \/ trees[j].free # 0
    <3>1. Of(spare[t], j) = 0 /\ Of(spare'[t], j) = 0 /\ trees[j].free \in Nat
      BY <1>2, <1>3, EntryFields DEF Of
    <3>2. CASE j = i
      <4>1. Of(hand[t], j) = hand[t].free /\ Of(hand'[t], j) = hand[t].free - n
        BY <2>1, <2>2, <3>2 DEF Of
      <4> HIDE DEF i, n
      <4> QED BY <1>2, <1>3, <1>4, <2>3, <2>5, <3>1, <3>2, <4>1
    <3>3. CASE j # i
      <4>1. Of(hand[t], j) = 0 /\ Of(hand'[t], j) = 0
        BY <2>1, <2>2, <3>3 DEF Of
      <4> QED BY <1>2, <1>4, <2>3, <3>1, <3>3, <4>1
    <3> QED BY <3>2, <3>3
  <2>7. CountOK'
    BY <1>1, <1>2, <2>6, HandCounted
  <2> QED BY <1>1, <1>2, <1>5, <2>2, <2>4, <2>7, NotChanging DEF Changing
<1>7. CASE Goto(t, "give_back") /\ UNCHANGED <<room, hand>>
  <2>1. pc'[t] = "give_back"
    BY <1>7 DEF Goto, CInv, IInv, TypeInv, TypeOK
  <2>2. Carried(pc'[t], call'[t], loc'[t], hand'[t], spare'[t])
    BY <1>2, <1>3, <1>7, <2>1 DEF Carried, Carrying
  <2>3. CountOK'
    BY <1>1, <1>2, <1>4, <1>7, HandCounted
  <2> QED BY <1>1, <1>2, <1>5, <2>1, <2>2, <2>3, NotChanging DEF Changing
<1> QED BY <1>6, <1>7 DEF Lower

\* The lower allocator takes the frames of a put, or does not.
LEMMA LowerPutCounted ==
    ASSUME CInv, IInv', NEW t \in Threads, LowerPut(t)
    PROVE  CInv'
<1> DEFINE i == call[t].tree
           n == call[t].n
           h == Reservation(FALSE, i, n)
<1>1. Others(t)
  BY StepOthers DEF CInv, IInv, Step
<1>2. /\ pc[t] = "put"
      /\ UNCHANGED <<trees, slots, call, loc, spare, held, offline, restarts>>
  BY DEF LowerPut, At
<1>3. i \in Trees /\ n \in Nat \ {0} /\ hand[t].free = 0 /\ spare[t].free = 0
  BY <1>2, RunningThread, ThreadCarries DEF CInv, Carrying
<1>4. CASE /\ room[i] + n <= FramesOf(i)
           /\ room' = [room EXCEPT ![i] = @ + n] /\ Hold(t, h)
           /\ Goto(t, IF call[t].local # NoLocal THEN "put_slot" ELSE "give_back")
  <2>1. h.tree = i /\ h.free = n
    BY DEF Reservation
  <2>2. pc'[t] \in {"put_slot", "give_back"} /\ hand'[t] = h
    BY <1>4 DEF Hold, Goto, CInv, IInv, TypeInv, TypeOK
  <2>3. room'[i] = room[i] + n /\ \A j \in Trees : j # i => room'[j] = room[j]
    BY <1>3, <1>4 DEF CInv, IInv, TypeInv, TypeOK
  <2>4. Carried(pc'[t], call'[t], loc'[t], hand'[t], spare'[t])
    BY <1>2, <1>3, <2>2 DEF Carried, Carrying
  <2>5. i \notin offline
    <3>1. i \in offline => room[i] = FramesOf(i)
      BY <1>3 DEF CInv, CountOK
    <3>2. room[i] \in Nat
      BY <1>3, EntryFields
    <3> HIDE DEF i, n
    <3> QED BY <1>3, <1>4, <3>1, <3>2
  <2>6. ASSUME NEW j \in Trees
        PROVE  /\ trees'[j].free + Of(hand'[t], j) + Of(spare'[t], j) - room'[j]
                    = trees[j].free + Of(hand[t], j) + Of(spare[t], j) - room[j]
               /\ room'[j] <= FramesOf(j)
               /\ j \in offline => room'[j] = room[j]
               /\ trees'[j].reserved => trees[j].reserved \/ trees[j].free # 0
    <3>1. /\ Of(spare[t], j) = 0 /\ Of(spare'[t], j) = 0 /\ Of(hand[t], j) = 0
          /\ trees[j].free \in Nat /\ room[j] \in Nat /\ room[j] <= FramesOf(j)
      BY <1>2, <1>3, EntryFields DEF Of
    <3>2. CASE j = i
      <4>1. Of(hand'[t], j) = n
        BY <2>1, <2>2, <3>2 DEF Of
      <4> HIDE DEF i, n
      <4> QED BY <1>2, <1>3, <1>4, <2>3, <2>5, <3>1, <3>2, <4>1
    <3>3. CASE j # i
      <4>1. Of(hand'[t], j) = 0
        BY <2>1, <2>2, <3>3 DEF Of
      <4> QED BY <1>2, <2>3, <3>1, <3>3, <4>1
    <3> QED BY <3>2, <3>3
  <2>7. CountOK'
    BY <1>1, <1>2, <2>6, HandCounted
  <2>8. SlotsOK'
    BY <1>2 DEF CInv, SlotsOK
  <2> QED BY <1>1, <1>2, <2>2, <2>4, <2>7, <2>8, NotChanging DEF Changing
<1>5. CASE Goto(t, "memory") /\ UNCHANGED <<room, hand>>
  <2>1. pc'[t] = "memory"
    BY <1>5 DEF Goto, CInv, IInv, TypeInv, TypeOK
  <2> QED BY <1>1, <1>2, <1>5, <2>1, NothingMoved DEF Labels, Done, Carrying, Changing
<1> QED BY <1>4, <1>5 DEF LowerPut

-----------------------------------------------------------------------------
(* Frames go back to the entry of their tree. *)

\* The counter of an entry after tree_put and tree_unreserve_add.
LEMMA PutBack ==
    ASSUME NEW e \in Entries, NEW n, NEW class
    PROVE  /\ TreePut(e, n).free = e.free + n /\ TreePut(e, n).reserved = e.reserved
           /\ TreeUnreserve(e, n, class).free = e.free + n
           /\ TreeUnreserve(e, n, class).reserved = FALSE
BY DEF TreePut, TreeUnreserve, Entries

\* trees_put and trees_unreserve of what t has in hand.
LEMMA GiveBackCounted ==
    ASSUME CInv, IInv', NEW t \in Threads, GiveBack(t)
    PROVE  CInv'
<1> DEFINE i == hand[t].tree
           e == EntryWith(t)
<1>1. Others(t)
  BY StepOthers DEF CInv, IInv, Step
<1>2. pc[t] = "give_back" /\ UNCHANGED <<slots, room, call, spare, held, offline, restarts>>
  BY DEF GiveBack, At
<1>3. /\ i \in Trees /\ hand[t].free \in Nat /\ spare[t].free = 0
      /\ trees[i] \in Entries /\ trees[i].free \in Nat /\ hand[t].present \in BOOLEAN
  BY <1>2, ThreadCarries, ThreadFields, EntryFields DEF CInv, IInv
<1>4. ~Ignored(t)
  <2>1. hand[t].present => trees[i].reserved
    BY HolderMarked, HolderKinds DEF CInv, IInv
  <2> QED BY <2>1 DEF Ignored
<1>5. /\ trees' = [trees EXCEPT ![i] = e]
      /\ Hold(t, Nothing) /\ AfterFailure(t)
  BY <1>4, HandFits DEF GiveBack
<1>6. e.free = trees[i].free + hand[t].free /\ (e.reserved => trees[i].reserved)
  <2>1. CASE hand[t].present
    <3>1. e = TreeUnreserve(trees[i], hand[t].free, call[t].class)
      BY <2>1 DEF EntryWith
    <3> HIDE DEF e
    <3> QED BY <1>3, <3>1, PutBack
  <2>2. CASE ~hand[t].present
    <3>1. e = TreePut(trees[i], hand[t].free)
      BY <2>2 DEF EntryWith
    <3> HIDE DEF e
    <3>2. TreePut(trees[i], hand[t].free).free = trees[i].free + hand[t].free
          /\ TreePut(trees[i], hand[t].free).reserved = trees[i].reserved
      BY <1>3, PutBack
    <3> QED BY <3>1, <3>2
  <2> QED BY <2>1, <2>2
<1>7. /\ hand'[t] = Nothing /\ pc'[t] \in Searching
      /\ trees'[i] = e /\ \A j \in Trees : j # i => trees'[j] = trees[j]
  BY <1>3, <1>5, SearchGoes DEF Hold, Going, CInv, IInv, TypeInv, TypeOK
<1>8. Carried(pc'[t], call'[t], loc'[t], hand'[t], spare'[t])
  BY <1>2, <1>3, <1>7 DEF Carried, Nothing, Reservation, Searching
<1> HIDE DEF i, e
<1>9. ASSUME NEW j \in Trees
      PROVE  /\ trees'[j].free + Of(hand'[t], j) + Of(spare'[t], j) - room'[j]
                  = trees[j].free + Of(hand[t], j) + Of(spare[t], j) - room[j]
             /\ room'[j] <= FramesOf(j)
             /\ trees'[j].reserved => trees[j].reserved \/ trees[j].free # 0
  <2>1. /\ Of(spare[t], j) = 0 /\ Of(spare'[t], j) = 0 /\ Of(hand'[t], j) = 0
        /\ trees[j].free \in Nat /\ room[j] \in Nat /\ room[j] <= FramesOf(j)
    BY <1>2, <1>3, <1>7, EntryFields DEF Of, Nothing, Reservation
  <2>2. Of(hand[t], j) = IF j = i THEN hand[t].free ELSE 0
    BY DEF Of, i
  <2> QED BY <1>2, <1>3, <1>6, <1>7, <2>1, <2>2
<1>10. CountOK'
  BY <1>1, <1>2, <1>9, HandCounted
<1>11. SlotsOK'
  BY <1>2 DEF CInv, SlotsOK
<1> QED BY <1>1, <1>2, <1>7, <1>8, <1>10, <1>11, NotChanging DEF Changing, Searching

\* trees_unreserve of a reservation that t has replaced or drained.
LEMMA UnreserveCounted ==
    ASSUME CInv, IInv', NEW t \in Threads, Unreserve(t)
    PROVE  CInv'
<1> DEFINE i == spare[t].tree
           e == SpareEntry(t)
<1>1. Others(t)
  BY StepOthers DEF CInv, IInv, Step
<1>2. /\ pc[t] = "unreserve"
      /\ UNCHANGED <<slots, room, call, loc, hand, held, offline, restarts>>
  BY DEF Unreserve, At
<1>3. /\ i \in Trees /\ spare[t].free \in Nat /\ trees[i] \in Entries
      /\ trees[i].free \in Nat
      /\ Carried(pc[t], call[t], loc[t], hand[t], spare[t])
  BY ThreadCarries, EntryFields
<1>4. trees[i].reserved
  <2>1. spare[t].present
    BY <1>2 DEF CInv, IInv, PhaseOK, Phase, InHand
  <2> QED BY <2>1, HolderMarked, HolderKinds DEF CInv, IInv
<1>5. /\ trees' = [trees EXCEPT ![i] = e] /\ SetSpare(t, Nothing)
      /\ Goto(t, AfterUnreserve(t))
  BY <1>4, HandFits DEF Unreserve, SetSpare
<1>6. e.free = trees[i].free + spare[t].free /\ e.reserved = FALSE
  <2> DEFINE g == trees[i]
             n == spare[t].free
             class == SpareClass(t)
  <2>1. e = TreeUnreserve(g, n, class) /\ g \in Entries
    BY <1>3 DEF SpareEntry
  <2> HIDE DEF e, g, n, class
  <2>2. e.free = g.free + n /\ e.reserved = FALSE
    BY <2>1 DEF TreeUnreserve, TreePut, Entries
  <2> QED BY <2>2 DEF g, n
<1>7. /\ spare'[t] = Nothing /\ pc'[t] = AfterUnreserve(t)
      /\ trees'[i] = e /\ \A j \in Trees : j # i => trees'[j] = trees[j]
  BY <1>3, <1>5 DEF SetSpare, Goto, CInv, IInv, TypeInv, TypeOK
<1>8. /\ Carried(pc'[t], call'[t], loc'[t], hand'[t], spare'[t])
      /\ pc'[t] \in {"drain", "lower", "ok"}
  BY <1>2, <1>3, <1>7 DEF Carried, Carrying, Nothing, Reservation, AfterUnreserve
<1> HIDE DEF i, e
<1>9. ASSUME NEW j \in Trees
      PROVE  /\ trees'[j].free + Of(hand'[t], j) + Of(spare'[t], j) - room'[j]
                  = trees[j].free + Of(hand[t], j) + Of(spare[t], j) - room[j]
             /\ room'[j] <= FramesOf(j)
             /\ trees'[j].reserved => trees[j].reserved \/ trees[j].free # 0
  <2>1. /\ Of(hand[t], j) \in Nat /\ Of(hand'[t], j) = Of(hand[t], j)
        /\ Of(spare'[t], j) = 0
        /\ trees[j].free \in Nat /\ room[j] \in Nat /\ room[j] <= FramesOf(j)
    BY <1>2, <1>3, <1>7, EntryFields, ThreadCarries DEF Of, Nothing, Reservation
  <2>2. Of(spare[t], j) = IF j = i THEN spare[t].free ELSE 0
    BY DEF Of, i
  <2> QED BY <1>2, <1>3, <1>6, <1>7, <2>1, <2>2
<1>10. CountOK'
  BY <1>1, <1>2, <1>9, HandCounted
<1>11. SlotsOK'
  BY <1>2 DEF CInv, SlotsOK
<1> QED BY <1>1, <1>2, <1>8, <1>10, <1>11, NotChanging DEF Changing
-----------------------------------------------------------------------------
(* Reservations change hands. *)

\* What was in a slot is what is to be released.
LEMMA ReplacedOf ==
    ASSUME CInv, NEW s \in Slots
    PROVE  /\ \A i : Of(Replaced(slots[s]), i) = Of(slots[s], i)
           /\ Replaced(slots[s]).free = slots[s].free
           /\ Replaced(slots[s]).present = slots[s].present
           /\ slots[s].present \in BOOLEAN
           /\ slots[s].free # 0 => slots[s].present
<1>1. slots[s].present \in BOOLEAN /\ (~slots[s].present => slots[s].free = 0)
  BY SlotFields DEF CInv, IInv, SlotsOK
<1> QED BY <1>1 DEF Replaced, Of, Nothing, Reservation

\* The write of a slot, a hand and a spare.
LEMMA Exchanged ==
    ASSUME CInv, NEW t \in Threads, NEW h, Hold(t, h), NEW r, SetSpare(t, r)
    PROVE  hand'[t] = h /\ spare'[t] = r
BY DEF Hold, SetSpare, CInv, IInv, TypeInv, TypeOK

\* swap_reserved.
LEMMA SwapCounted ==
    ASSUME CInv, IInv', NEW t \in Threads, Swap(t)
    PROVE  CInv'
<1> DEFINE s == <<call[t].class, call[t].local % Locals[call[t].class]>>
           h == Reservation(FALSE, hand[t].tree, 0)
           r == Replaced(slots[s])
           p == IF r.present THEN "unreserve" ELSE "ok"
<1>1. Others(t)
  BY StepOthers DEF CInv, IInv, Step
<1>2. /\ pc[t] = "swap" /\ UNCHANGED <<trees, room, call, loc, held, offline, restarts>>
      /\ slots' = [slots EXCEPT ![s] = hand[t]]
      /\ SetSpare(t, r) /\ Hold(t, h) /\ Goto(t, p)
  BY DEF Swap, At, SetSpare
<1>3. s \in Slots
  <2>1. Running(t) /\ call[t].local # NoLocal /\ call[t].local \in Nat \cup {NoLocal}
    BY <1>2, RunningThread DEF SlotNeeded, CInv
  <2> QED BY <2>1, ValidSlot DEF Running
<1>4. /\ hand[t].present /\ spare[t].free = 0 /\ hand[t].free \in Nat
      /\ loc[t].from = "search"
  <2>1. pc[t] = "swap"
    BY <1>2
  <2> HIDE DEF s, h, r, p
  <2>2. hand[t].present
    BY <2>1, ThreadCarries DEF Carried
  <2>3. spare[t].free = 0 /\ hand[t].free \in Nat
    BY <2>1, ThreadCarries
  <2>4. loc[t].from = "search"
    BY <2>1, RunningThread DEF Origin, CInv
  <2> QED BY <2>2, <2>3, <2>4
<1>5. hand'[t] = h /\ spare'[t] = r /\ pc'[t] = p
  BY <1>2, Exchanged DEF Goto, CInv, IInv, TypeInv, TypeOK
<1>6. h.free = 0
  BY DEF Reservation
<1>7. /\ \A i : Of(r, i) = Of(slots[s], i)
      /\ r.free # 0 => r.present
  BY <1>3, ReplacedOf
<1> HIDE DEF s, h, r
<1>8. Carried(pc'[t], call'[t], loc'[t], hand'[t], spare'[t])
  BY <1>2, <1>4, <1>5, <1>6, <1>7 DEF Carried
<1>9. ASSUME NEW i \in Trees
      PROVE  Of(hand[t], i) + Of(hand'[t], i) + Of(spare'[t], i)
               = Of(slots[s], i) + Of(hand[t], i) + Of(spare[t], i)
  <2>1. Of(hand'[t], i) = 0 /\ Of(spare[t], i) = 0 /\ Of(spare'[t], i) = Of(slots[s], i)
    BY <1>4, <1>5, <1>6, <1>7 DEF Of
  <2>2. Of(hand[t], i) \in Nat /\ Of(slots[s], i) \in Nat
    BY <1>3, <1>4, SlotFields DEF Of, CInv, IInv
  <2> QED BY <2>1, <2>2
<1>10. pc'[t] \notin Changing
  BY <1>5 DEF Changing
<1> QED BY <1>1, <1>2, <1>3, <1>4, <1>8, <1>9, <1>10, SlotChanged

\* ll_local_demote_any: the slot of the request gets the tree.
LEMMA DemoteSwapCounted ==
    ASSUME CInv, IInv', NEW t \in Threads, DemoteSwap(t)
    PROVE  CInv'
<1> DEFINE s == SlotOf(t)
           n == call[t].n
           q == [hand[t] EXCEPT !.free = hand[t].free - n]
           h == Reservation(FALSE, hand[t].tree, n)
           r == Replaced(slots[s])
           p == IF r.present THEN "unreserve" ELSE "lower"
<1>1. Others(t)
  BY StepOthers DEF CInv, IInv, Step
<1>2. /\ pc[t] = "demote_swap"
      /\ UNCHANGED <<trees, room, call, loc, held, offline, restarts>>
      /\ slots' = [slots EXCEPT ![s] = q]
      /\ SetSpare(t, r) /\ Hold(t, h) /\ Goto(t, p)
  BY DEF DemoteSwap, At, SetSpare
<1>3. s \in Slots /\ n \in Nat \ {0} /\ call[t].op # "drain" /\ hand[t].free >= n
  BY <1>2, RunningThread DEF SlotNeeded, InHand, Running, Allocs, CInv
<1>4. /\ hand[t].present /\ spare[t].free = 0 /\ hand[t].free \in Nat
      /\ hand[t] \in Reservations /\ hand[t].tree \in Trees
  BY <1>2, ThreadCarries, ThreadFields DEF Carried, CInv, IInv
<1>5. hand'[t] = h /\ spare'[t] = r /\ pc'[t] = p
  BY <1>2, Exchanged DEF Goto, CInv, IInv, TypeInv, TypeOK
<1>6. /\ h.free = n /\ h.tree = hand[t].tree
      /\ q.free = hand[t].free - n /\ q.tree = hand[t].tree /\ q.present
  BY <1>4 DEF Reservation, Reservations
<1>7. /\ \A i : Of(r, i) = Of(slots[s], i)
      /\ r.free # 0 => r.present
  BY <1>3, ReplacedOf
<1> HIDE DEF s, q, h, r, n
<1>8. Carried(pc'[t], call'[t], loc'[t], hand'[t], spare'[t])
  <2>1. loc[t].from = "demote"
    BY <1>2, ThreadCarries DEF Carried
  <2> QED BY <1>2, <1>3, <1>4, <1>5, <1>6, <1>7, <2>1 DEF Carried, Carrying, n
<1>9. ASSUME NEW i \in Trees
      PROVE  Of(q, i) + Of(hand'[t], i) + Of(spare'[t], i)
               = Of(slots[s], i) + Of(hand[t], i) + Of(spare[t], i)
  <2>1. Of(spare[t], i) = 0 /\ Of(spare'[t], i) = Of(slots[s], i)
    BY <1>4, <1>5, <1>7 DEF Of
  <2>2. Of(slots[s], i) \in Nat
    BY <1>3, SlotFields DEF Of, CInv, IInv
  <2>3. Of(q, i) + Of(hand'[t], i) = Of(hand[t], i)
    BY <1>3, <1>4, <1>5, <1>6 DEF Of
  <2>4. Of(hand[t], i) \in Nat /\ Of(q, i) \in Nat /\ Of(hand'[t], i) \in Nat
    BY <1>3, <1>4, <1>5, <1>6 DEF Of
  <2> QED BY <2>1, <2>2, <2>3, <2>4
<1>10. pc'[t] \notin Changing
  BY <1>5 DEF Changing
<1> QED BY <1>1, <1>2, <1>3, <1>6, <1>8, <1>9, <1>10, SlotChanged

\* ll_local_drain.
LEMMA DrainSlotCounted ==
    ASSUME CInv, IInv', NEW t \in Threads, DrainSlot(t)
    PROVE  CInv'
<1>1. Others(t)
  BY StepOthers DEF CInv, IInv, Step
<1>2. /\ pc[t] = "drain" /\ UNCHANGED <<trees, room, call, hand, held, offline, restarts>>
      /\ hand[t].free = 0 /\ spare[t].free = 0
  BY ThreadCarries DEF DrainSlot, At, Carrying
<1>3. CASE Goto(t, "ok") /\ UNCHANGED <<slots, spare, loc>>
  <2>1. pc'[t] = "ok"
    BY <1>3 DEF Goto, CInv, IInv, TypeInv, TypeOK
  <2> QED BY <1>1, <1>2, <1>3, <2>1, NothingMoved DEF Labels, Done, Carrying, Changing
<1>4. ASSUME NEW s \in loc[t].left,
             slots' = [slots EXCEPT ![s] = Nothing],
             spare' = [spare EXCEPT ![t] = Replaced(slots[s])],
             IF Replaced(slots[s]).present THEN Goto(t, "unreserve") ELSE UNCHANGED pc
      PROVE  CInv'
  <2> DEFINE r == Replaced(slots[s])
  <2>1. s \in Slots
    BY <1>4, LocFields DEF CInv, IInv
  <2>2. spare'[t] = r /\ pc'[t] = IF r.present THEN "unreserve" ELSE "drain"
    BY <1>2, <1>4 DEF Goto, CInv, IInv, TypeInv, TypeOK
  <2>3. /\ \A i : Of(r, i) = Of(slots[s], i)
        /\ r.free # 0 => r.present
    BY <2>1, ReplacedOf
  <2>4. call[t].op = "drain"
    BY <1>2 DEF CInv, IInv, PhaseOK, Phase, OpAt
  <2> HIDE DEF r
  <2>5. Carried(pc'[t], call'[t], loc'[t], hand'[t], spare'[t])
    BY <1>2, <2>2, <2>3, <2>4 DEF Carried
  <2>6. ASSUME NEW i \in Trees
        PROVE  Of(Nothing, i) + Of(hand'[t], i) + Of(spare'[t], i)
                 = Of(slots[s], i) + Of(hand[t], i) + Of(spare[t], i)
    <3>1. /\ Of(hand'[t], i) = 0 /\ Of(hand[t], i) = 0 /\ Of(spare[t], i) = 0
          /\ Of(spare'[t], i) = Of(slots[s], i) /\ Of(Nothing, i) = 0
      BY <1>2, <2>2, <2>3 DEF Of, Nothing, Reservation
    <3>2. Of(slots[s], i) \in Nat
      BY <2>1, SlotFields DEF Of, CInv, IInv
    <3> QED BY <3>1, <3>2
  <2>7. pc'[t] \notin Changing /\ Nothing.free = 0
    BY <2>2 DEF Changing, Nothing, Reservation
  <2>8. UNCHANGED <<trees, room, offline>> /\ Others(t)
    BY <1>1, <1>2
  <2>9. slots' = [slots EXCEPT ![s] = Nothing]
    BY <1>4
  <2> QED BY <2>1, <2>5, <2>6, <2>7, <2>8, <2>9, SlotChanged
<1> QED BY <1>3, <1>4 DEF DrainSlot

\* ll_local_steal.
LEMMA StealSlotCounted ==
    ASSUME CInv, IInv', NEW t \in Threads, StealSlot(t)
    PROVE  CInv'
<1>1. Others(t)
  BY StepOthers DEF CInv, IInv, Step
<1>2. pc[t] = "steal" /\ UNCHANGED <<trees, room, call, held, offline, restarts>>
  BY DEF StealSlot, At
<1>3. call[t].n \in Nat
  BY <1>2, RunningThread DEF CInv
<1>4. CASE DemoteLocal(t) /\ UNCHANGED <<slots, hand, spare>>
  <2>1. pc'[t] \in Searching
    BY <1>4, SearchGoes DEF Going, CInv, IInv
  <2> QED BY <1>1, <1>2, <1>4, <2>1, NothingMoved
          DEF Labels, Done, Carrying, Changing, Searching
<1>5. ASSUME NEW s \in loc[t].left, SkipSlot(t, s)
      PROVE  CInv'
  BY <1>1, <1>2, <1>5, NothingMoved DEF SkipSlot, Labels, Done, Carrying, Changing
<1>6. ASSUME NEW s \in loc[t].left, Fits(t, slots[s]),
             slots' = [slots EXCEPT ![s].free = @ - call[t].n],
             Hold(t, Reservation(FALSE, slots[s].tree, call[t].n)),
             Goto(t, "lower"), UNCHANGED spare
      PROVE  CInv'
  <2>1. s \in Slots
    BY <1>6, LocFields DEF CInv, IInv
  <2> QED BY <1>1, <1>2, <1>3, <1>6, <2>1, SlotTaken DEF Carrying
<1> QED BY <1>4, <1>5, <1>6 DEF StealSlot

\* ll_local_demote_any: the tree of a slot is taken, with all that it counts.
LEMMA TakeSlotCounted ==
    ASSUME CInv, IInv', NEW t \in Threads, TakeSlot(t)
    PROVE  CInv'
<1> DEFINE n == call[t].n
<1>1. Others(t)
  BY StepOthers DEF CInv, IInv, Step
<1>2. /\ pc[t] = "demote" /\ UNCHANGED <<trees, room, call, held, offline, restarts>>
      /\ hand[t].free = 0 /\ spare[t].free = 0
  BY ThreadCarries DEF TakeSlot, At, Carrying
<1>3. n \in Nat \ {0} /\ call[t].op # "drain" /\ loc[t].from = "demote"
  BY <1>2, RunningThread DEF CInv, Running, Allocs, Origin
<1>4. CASE Goto(t, "memory") /\ UNCHANGED <<slots, hand, spare>>
  <2>1. pc'[t] = "memory"
    BY <1>4 DEF Goto, CInv, IInv, TypeInv, TypeOK
  <2> QED BY <1>1, <1>2, <1>4, <2>1, NothingMoved DEF Labels, Done, Carrying, Changing
<1>5. ASSUME NEW s \in loc[t].left, SkipSlot(t, s)
      PROVE  CInv'
  BY <1>1, <1>2, <1>5, NothingMoved DEF SkipSlot, Labels, Done, Carrying, Changing
<1>6. ASSUME NEW s \in loc[t].left, Fits(t, slots[s]), slots' = [slots EXCEPT ![s] = Nothing],
             SetLoc(t, [loc[t] EXCEPT !.left = {}]), TakeTree(t, slots[s])
      PROVE  CInv'
  <2> DEFINE r == slots[s]
  <2>1. /\ s \in Slots /\ r \in Reservations /\ r.tree \in Trees /\ r.free \in Nat
        /\ r.present /\ r.free >= n
    BY <1>6, LocFields, SlotFields DEF CInv, IInv, Fits
  <2>2. loc'[t].from = "demote"
    <3>1. loc[t] \in LocType /\ loc'[t] = [loc[t] EXCEPT !.left = {}]
      BY <1>6 DEF SetLoc, CInv, IInv, TypeInv
    <3> QED BY <1>3, <3>1 DEF LocType
  <2>3. Nothing.free = 0
    BY DEF Nothing, Reservation
  <2>4. CASE call[t].local # NoLocal
    <3>1. hand'[t] = r /\ spare'[t] = spare[t] /\ pc'[t] = "demote_swap"
      BY <1>6, <2>4 DEF TakeTree, Hold, Goto, CInv, IInv, TypeInv, TypeOK
    <3>2. Carried(pc'[t], call'[t], loc'[t], hand'[t], spare'[t])
      BY <1>2, <2>1, <2>2, <3>1 DEF Carried, Carrying
    <3>3. ASSUME NEW i \in Trees
          PROVE  Of(Nothing, i) + Of(hand'[t], i) + Of(spare'[t], i)
                   = Of(slots[s], i) + Of(hand[t], i) + Of(spare[t], i)
      BY <1>2, <2>1, <2>3, <3>1 DEF Of
    <3> QED BY <1>1, <1>2, <1>6, <2>1, <2>3, <3>1, <3>2, <3>3, SlotChanged DEF Changing
  <2>5. CASE call[t].local = NoLocal
    <3> DEFINE h == Reservation(FALSE, r.tree, n)
               q == [r EXCEPT !.free = r.free - n]
    <3>1. hand'[t] = h /\ spare'[t] = q /\ pc'[t] = "unreserve"
      BY <1>6, <2>5 DEF TakeTree, Hold, Goto, CInv, IInv, TypeInv, TypeOK
    <3>2. h.free = n /\ h.tree = r.tree /\ q.free = r.free - n /\ q.tree = r.tree
      BY <2>1 DEF Reservation, Reservations
    <3> HIDE DEF h, q
    <3>3. Carried(pc'[t], call'[t], loc'[t], hand'[t], spare'[t])
      BY <1>2, <1>3, <2>1, <2>2, <3>1, <3>2 DEF Carried, Carrying
    <3>4. ASSUME NEW i \in Trees
          PROVE  Of(Nothing, i) + Of(hand'[t], i) + Of(spare'[t], i)
                   = Of(slots[s], i) + Of(hand[t], i) + Of(spare[t], i)
      <4>1. Of(hand'[t], i) + Of(spare'[t], i) = Of(slots[s], i)
        BY <1>3, <2>1, <3>1, <3>2 DEF Of
      <4>2. Of(hand'[t], i) \in Nat /\ Of(spare'[t], i) \in Nat /\ Of(slots[s], i) \in Nat
        BY <1>3, <2>1, <3>1, <3>2 DEF Of
      <4>3. Of(Nothing, i) = 0 /\ Of(hand[t], i) = 0 /\ Of(spare[t], i) = 0
        BY <1>2, <2>3 DEF Of
      <4> QED BY <4>1, <4>2, <4>3
    <3> QED BY <1>1, <1>2, <1>6, <2>1, <2>3, <3>1, <3>3, <3>4, SlotChanged DEF Changing
  <2> QED BY <2>4, <2>5
<1> QED BY <1>4, <1>5, <1>6 DEF TakeSlot
-----------------------------------------------------------------------------
(* Trees go online and offline. *)

\* Steps that leave what is held alone.
LEMMA SameTokens ==
    ASSUME TypeInv, TypeInv', UNCHANGED <<hand, spare>>,
           \A s \in Slots, i \in Trees : Of(slots'[s], i) = Of(slots[s], i)
    PROVE  \A i \in Trees : Tokens(i)' = Tokens(i)
<1> SUFFICES ASSUME NEW i \in Trees PROVE Tokens(i)' = Tokens(i)
  OBVIOUS
<1>1. ASSUME NEW h \in Holders PROVE Amounts(i)'[h] = Amounts(i)[h]
  <2>1. CASE \E s \in Slots : h = <<"slot", s>>
    BY <2>1, AmountOf
  <2>2. CASE \E t \in Threads : h = <<"hand", t>> \/ h = <<"spare", t>>
    <3>1. PICK t \in Threads : h = <<"hand", t>> \/ h = <<"spare", t>>
      BY <2>2
    <3>2. /\ Amounts(i)[<<"hand", t>>] = Of(hand[t], i)
          /\ Amounts(i)'[<<"hand", t>>] = Of(hand[t], i)
          /\ Amounts(i)[<<"spare", t>>] = Of(spare[t], i)
          /\ Amounts(i)'[<<"spare", t>>] = Of(spare[t], i)
      BY AmountOf
    <3> QED BY <3>1, <3>2
  <2> QED BY <2>1, <2>2, HolderKinds
<1>2. /\ Amounts(i) \in [Holders -> 0 .. TREE_SIZE]
      /\ Amounts(i)' \in [Holders -> 0 .. TREE_SIZE]
  BY TokensArePairs, TokensArePairsNext
<1>3. Amounts(i)' = Amounts(i)
  BY <1>1, <1>2
<1>4. /\ Tokens(i) = Pairs(Holders, TREE_SIZE, Amounts(i))
      /\ Tokens(i)' = Pairs(Holders, TREE_SIZE, Amounts(i)')
  BY TokensArePairs, TokensArePairsNext
<1> QED BY <1>3, <1>4

\* What the invariant says about a call that changes a tree.
LEMMA ChangeFields ==
    ASSUME CInv, NEW t \in Threads, pc[t] \in Changing
    PROVE  /\ call[t] \in Calls /\ call[t].op = "change" /\ call[t] \in Changes
           /\ call[t].match.id \in {NoTree, loc[t].tree} /\ call[t].match.free \in Nat
           /\ call[t].change.operation \in Operations
           /\ loc[t].tree \in Trees /\ NoTree \notin Trees
           /\ call[t].change.operation = "online" =>
                 /\ call[t].match.id = loc[t].tree /\ loc[t].tree \in offline
                 /\ pc[t] = "change_cas" => loc[t].free = FramesOf(loc[t].tree)
<1>1. call[t].op = "change" /\ call[t] \in Changes
  BY ChangeThread DEF CInv, IInv, Changing
<1>2. call[t] \in Calls
  BY <1>1 DEF CInv, IInv, TypeInv, TypeOK, NoCall
<1>3. call[t].match.free \in Nat /\ call[t].change.operation \in Operations
  BY <1>1 DEF Changes
<1>4. loc[t].tree \in Trees /\ NoTree \notin Trees
  BY LocFields DEF CInv, IInv, NoTree, Trees
<1> QED BY <1>1, <1>2, <1>3, <1>4 DEF CInv, ChangeOK, ChangeAt

\* llfree_change_tree begins.
LEMMA ChangeCounted ==
    ASSUME Clients, CInv, IInv', NEW t \in Threads, NEW r \in Calls, Change(t, r)
    PROVE  CInv'
<1>1. Others(t)
  BY StartOthers DEF CInv, IInv, Start
<1>2. /\ pc[t] = "idle" /\ UNCHANGED <<trees, slots, room, hand, spare, offline>>
      /\ call'[t] = r /\ r.op = "change" /\ MayChange(r)
  BY DEF Change, Begin, At, counters, CInv, IInv, TypeInv, TypeOK
<1>3. hand[t].free = 0 /\ spare[t].free = 0
  BY <1>2, ThreadCarries DEF Carrying
<1>4. CASE Goto(t, "memory")
  <2>1. pc'[t] = "memory"
    BY <1>4 DEF Goto, CInv, IInv, TypeInv, TypeOK
  <2> QED BY <1>1, <1>2, <2>1, NothingMoved DEF Labels, Done, Carrying, Changing
<1>5. ASSUME Goto(t, "change"),
             SetLoc(t, [NoLoc EXCEPT !.tree = IF r.match.id = NoTree
                                              THEN Position(0, 0) ELSE r.match.id])
      PROVE  CInv'
  <2>1. /\ pc'[t] = "change"
        /\ loc'[t].tree = IF r.match.id = NoTree THEN Position(0, 0) ELSE r.match.id
    BY <1>5 DEF Goto, SetLoc, NoLoc, CInv, IInv, TypeInv, TypeOK
  <2>2. r.change.operation = "online" =>
            /\ r.match.id \in offline /\ r.match.id = loc'[t].tree
            /\ \A u \in Threads : ~(call[u].op = "change" /\ call[u].match.id = r.match.id
                                    /\ call[u].change.operation = "online")
    <3>1. NoTree \notin offline
      BY DEF NoTree, Trees, CInv, IInv, TypeInv, TypeOK
    <3> QED BY <1>2, <2>1, <3>1 DEF MayChange, Clients
  <2>3. ChangeOK'
    <3>1. ChangeAt(pc'[t], call'[t], loc'[t], offline')
      BY <1>2, <2>1, <2>2 DEF ChangeAt
    <3> QED BY <1>1, <1>2, <3>1 DEF CInv, ChangeOK, Others
  <2>4. OnlineOnce'
    <3>1. ASSUME NEW u \in Threads, u # t, GoesOnline(t)', GoesOnline(u)
          PROVE  loc'[t].tree # loc[u].tree
      <4>1. call[u].op = "change" /\ call[u].match.id = loc[u].tree
        BY <3>1, ChangeFields DEF GoesOnline
      <4>2. r.change.operation = "online" /\ call[u].change.operation = "online"
        BY <1>2, <3>1 DEF GoesOnline
      <4> QED BY <2>2, <4>1, <4>2
    <3>2. \A u \in Threads : u # t => (GoesOnline(u)' <=> GoesOnline(u)) /\ loc'[u] = loc[u]
      BY <1>1 DEF GoesOnline, Others
    <3> QED BY <3>1, <3>2 DEF CInv, OnlineOnce
  <2>5. CarriedOK'
    <3>1. Carried(pc'[t], call'[t], loc'[t], hand'[t], spare'[t])
      BY <1>2, <1>3, <2>1 DEF Carried
    <3> QED BY <1>1, <3>1 DEF CInv, CarriedOK, Others
  <2>6. CountOK' /\ SlotsOK'
    <3>1. \A i \in Trees : room[i] <= FramesOf(i)
      BY EntryFields
    <3> QED BY <1>1, <1>2, <3>1, HandCounted DEF CInv, SlotsOK
  <2> QED BY <2>3, <2>4, <2>5, <2>6 DEF CInv
<1> QED BY <1>4, <1>5 DEF Change

\* A change goes on with its tree, or with another that it does not take online.
LEMMA StillChanging ==
    ASSUME CInv, IInv', NEW t \in Threads, Others(t),
           UNCHANGED <<trees, slots, room, call, hand, spare, offline>>,
           pc[t] \in Changing, pc'[t] \in Changing,
           ChangeAt(pc'[t], call[t], loc'[t], offline),
           call[t].change.operation = "online" => loc'[t].tree = loc[t].tree
    PROVE  CInv'
<1>1. hand[t].free = 0 /\ spare[t].free = 0
  BY ThreadCarries DEF Changing, Carrying
<1>2. ChangeOK'
  BY DEF CInv, ChangeOK, Others
<1>3. OnlineOnce'
  <2>1. \A u \in Threads : GoesOnline(u)' => GoesOnline(u) /\ loc'[u].tree = loc[u].tree
    BY DEF GoesOnline, Others
  <2> QED BY <2>1 DEF CInv, OnlineOnce
<1>4. CarriedOK'
  <2>1. Carried(pc'[t], call'[t], loc'[t], hand'[t], spare'[t])
    BY <1>1 DEF Carried, Changing
  <2> QED BY <2>1 DEF CInv, CarriedOK, Others
<1>5. CountOK' /\ SlotsOK'
  <2>1. \A i \in Trees : room[i] <= FramesOf(i)
    BY EntryFields
  <2> QED BY <2>1, HandCounted DEF CInv, SlotsOK
<1> QED BY <1>2, <1>3, <1>4, <1>5 DEF CInv

\* The entry and, to take a tree online, the lower allocator are read.
LEMMA ChangeReadCounted ==
    ASSUME CInv, IInv', NEW t \in Threads, ChangeLoad(t) \/ ChangeFetch(t)
    PROVE  CInv'
<1>1. Others(t)
  BY StepOthers DEF CInv, IInv, Step
<1>2. pc[t] \in Changing /\ UNCHANGED <<trees, slots, room, call, hand, spare, offline>>
  BY DEF ChangeLoad, ChangeFetch, At, counters, Changing
<1>3. loc[t] \in LocType /\ loc \in [Threads -> LocType]
  BY LocFields DEF CInv, IInv, TypeInv
<1>4. CASE ChangeLoad(t)
  <2>1. /\ pc'[t] = IF call[t].change.operation = "online" THEN "fetch" ELSE "change_cas"
        /\ loc'[t].tree = loc[t].tree
    BY <1>3, <1>4 DEF ChangeLoad, Goto, SetLoc, LocType, CInv, IInv, TypeInv, TypeOK
  <2>2. ChangeAt(pc'[t], call[t], loc'[t], offline)
    BY <1>2, <2>1, ChangeFields DEF ChangeAt
  <2> QED BY <1>1, <1>2, <2>1, <2>2, StillChanging DEF Changing
<1>5. CASE ChangeFetch(t)
  <2>1. /\ pc'[t] = "change_cas"
        /\ loc'[t].tree = loc[t].tree /\ loc'[t].free = room[loc[t].tree]
    BY <1>3, <1>5 DEF ChangeFetch, Goto, SetLoc, LocType, CInv, IInv, TypeInv, TypeOK
  <2>2. loc[t].tree \in offline => room[loc[t].tree] = FramesOf(loc[t].tree)
    BY <1>2, ChangeFields DEF CInv, CountOK
  <2>3. ChangeAt(pc'[t], call[t], loc'[t], offline)
    BY <1>2, <2>1, <2>2, ChangeFields DEF ChangeAt
  <2> QED BY <1>1, <1>2, <2>1, <2>3, StillChanging DEF Changing
<1> QED BY <1>4, <1>5

\* A tree is taken offline with all its frames, and online with all its frames.
LEMMA ChangeCasCounted ==
    ASSUME Clients, CInv, IInv', NEW t \in Threads, ChangeCas(t)
    PROVE  CInv'
<1> DEFINE i == loc[t].tree
           op == call[t].change.operation
           e == Changed(trees[i], call[t].change, loc[t].free)
<1>1. Others(t)
  BY StepOthers DEF CInv, IInv, Step
<1>2. /\ pc[t] = "change_cas" /\ pc[t] \in Changing
      /\ UNCHANGED <<slots, room, call, hand, spare, held, restarts>>
  BY DEF ChangeCas, At, Changing
<1>3. loc[t] \in LocType /\ loc \in [Threads -> LocType] /\ pc \in [Threads -> Labels]
  BY LocFields DEF CInv, IInv, TypeInv, TypeOK
<1>4. CASE ChangeNext(t) /\ UNCHANGED <<trees, offline>>
  <2>1. CASE call[t].match.id = NoTree /\ loc[t].i + 1 < TreeCount
    <3>1. pc'[t] = "change"
      BY <1>3, <1>4, <2>1 DEF ChangeNext, Goto
    <3>2. op # "online"
      BY <1>2, <2>1, ChangeFields
    <3>3. ChangeAt(pc'[t], call[t], loc'[t], offline)
      BY <2>1, <3>2 DEF ChangeAt
    <3> QED BY <1>1, <1>2, <1>4, <3>1, <3>2, <3>3, StillChanging DEF Changing
  <2>2. CASE ~(call[t].match.id = NoTree /\ loc[t].i + 1 < TreeCount)
    <3>1. pc'[t] = "memory"
      BY <1>3, <1>4, <2>2 DEF ChangeNext, Goto
    <3> QED BY <1>1, <1>2, <1>4, <3>1, NothingMoved DEF Labels, Done, Carrying, Changing
  <2> QED BY <2>1, <2>2
<1>5. ASSUME SetLoc(t, [loc[t] EXCEPT !.seen = trees[i]]),
             Goto(t, IF op = "online" THEN "fetch" ELSE "change_cas"),
             UNCHANGED <<trees, offline>>
      PROVE  CInv'
  <2>1. /\ pc'[t] = IF op = "online" THEN "fetch" ELSE "change_cas"
        /\ loc'[t].tree = i
    BY <1>3, <1>5 DEF Goto, SetLoc, LocType
  <2>2. ChangeAt(pc'[t], call[t], loc'[t], offline)
    BY <1>2, <2>1, ChangeFields DEF ChangeAt
  <2> QED BY <1>1, <1>2, <1>5, <2>1, <2>2, StillChanging DEF Changing
<1>6. ASSUME CanChange(loc[t].seen, call[t].match, call[t].change), StillSeen(t),
             trees' = [trees EXCEPT ![i] = e],
             offline' = CASE op = "offline" -> offline \cup {i}
                          [] op = "online"  -> offline \ {i}
                          [] OTHER -> offline,
             Goto(t, "ok")
      PROVE  CInv'
  <2>1. /\ i \in Trees /\ trees[i] \in Entries /\ op \in Operations
        /\ ~trees[i].reserved /\ trees[i].free >= call[t].match.free
        /\ op = "online" => i \in offline /\ loc[t].free = FramesOf(i)
    BY <1>2, <1>6, ChangeFields, EntryFields DEF StillSeen, CanChange
  <2>2. /\ e.reserved = trees[i].reserved
        /\ e.free = CASE op = "none"    -> trees[i].free
                      [] op = "offline" -> 0
                      [] op = "online"  -> loc[t].free
    BY <2>1 DEF Changed, Entries
  <2>3. trees'[i] = e /\ \A j \in Trees : j # i => trees'[j] = trees[j]
    BY <1>6, <2>1, Written
  <2>4. pc'[t] = "ok"
    BY <1>3, <1>6 DEF Goto
  <2>5. op = "offline" => trees[i].free >= FramesOf(i)
    <3>1. /\ call[t] \in Calls /\ call[t].op = "change"
          /\ call[t].match.id \in {NoTree, i} /\ call[t].match.free \in Nat
      BY <1>2, ChangeFields
    <3>2. op = "offline" => call[t].match.free >= FramesOf(i)
      BY <2>1, <3>1 DEF Clients, OfflineWhole
    <3>3. FramesOf(i) \in Int /\ trees[i].free \in Nat
      BY <2>1, TreesExist, EntryFields
    <3> HIDE DEF i, op
    <3> QED BY <2>1, <3>1, <3>2, <3>3
  <2>6. \A j \in Trees : Tokens(j)' = Tokens(j)
    BY <1>2, SameTokens DEF CInv, IInv
  <2>7. ASSUME NEW j \in Trees
        PROVE  /\ IsFiniteSet(Tokens(j)') /\ room'[j] <= FramesOf(j)
               /\ j \notin offline' => Count(j)' = room'[j]
               /\ j \in offline' => /\ Count(j)' = 0 /\ room'[j] = FramesOf(j)
                                    /\ ~trees'[j].reserved
    <3>1. /\ IsFiniteSet(Tokens(j)) /\ Cardinality(Tokens(j)) \in Nat
          /\ trees[j].free \in Nat /\ room[j] \in Nat /\ room[j] <= FramesOf(j)
          /\ FramesOf(j) \in Nat
      BY EntryFields, FS_CardinalityType, TreesExist DEF CInv, CountOK
    <3>2. /\ j \notin offline => trees[j].free + Cardinality(Tokens(j)) = room[j]
          /\ j \in offline => /\ trees[j].free + Cardinality(Tokens(j)) = 0
                              /\ room[j] = FramesOf(j) /\ ~trees[j].reserved
      BY DEF CInv, CountOK, Count
    <3>3. IsFiniteSet(Tokens(j)') /\ Count(j)' = trees'[j].free + Cardinality(Tokens(j))
      BY <2>6, <3>1 DEF Count
    <3>4. CASE j # i
      <4>1. j \in offline' <=> j \in offline
        BY <1>6, <3>4
      <4> QED BY <1>2, <2>3, <3>1, <3>2, <3>3, <3>4, <4>1
    <3>5. CASE j = i /\ op = "none"
      <4>1. offline' = offline /\ e.free = trees[i].free
        BY <1>6, <2>2, <3>5
      <4> QED BY <1>2, <2>2, <2>3, <3>1, <3>2, <3>3, <3>5, <4>1
    <3>6. CASE j = i /\ op = "offline"
      <4>1. j \in offline' /\ trees'[j].free = 0 /\ ~trees'[j].reserved
        BY <1>6, <2>1, <2>2, <2>3, <3>6
      <4>2. trees[j].free >= FramesOf(j)
        BY <2>5, <3>6
      <4>3. Cardinality(Tokens(j)) = 0 /\ room[j] = FramesOf(j)
        BY <3>1, <3>2, <4>2
      <4> QED BY <1>2, <3>1, <3>3, <4>1, <4>3
    <3>7. CASE j = i /\ op = "online"
      <4>1. j \in offline /\ j \notin offline' /\ trees'[j].free = FramesOf(j)
        BY <1>6, <2>1, <2>2, <2>3, <3>7
      <4>2. Cardinality(Tokens(j)) = 0 /\ room[j] = FramesOf(j)
        BY <3>1, <3>2, <4>1
      <4> QED BY <1>2, <3>1, <3>3, <4>1, <4>2
    <3> QED BY <2>1, <3>4, <3>5, <3>6, <3>7 DEF Operations
  <2>8. CountOK'
    BY <2>7 DEF CountOK, Trees, TreeCount, FramesOf
  <2>9. ChangeOK'
    <3>1. ASSUME NEW u \in Threads
          PROVE  ChangeAt(pc'[u], call'[u], loc'[u], offline')
      <4>1. CASE u = t
        BY <2>4, <4>1 DEF ChangeAt, Changing
      <4>2. CASE u # t
        <5>1. pc'[u] = pc[u] /\ call'[u] = call[u] /\ loc'[u] = loc[u]
          BY <1>1, <4>2 DEF Others
        <5>2. ChangeAt(pc[u], call[u], loc[u], offline)
          BY DEF CInv, ChangeOK
        <5>3. GoesOnline(u) /\ op = "online" => loc[u].tree # i
          BY <1>2, <4>2 DEF CInv, OnlineOnce, GoesOnline
        <5>4. GoesOnline(u) /\ loc[u].tree \in offline => loc[u].tree \in offline'
          BY <1>6, <2>1, <5>3 DEF Operations
        <5> QED BY <5>1, <5>2, <5>4 DEF ChangeAt, GoesOnline
      <4> QED BY <4>1, <4>2
    <3> QED BY <3>1 DEF ChangeOK
  <2>10. OnlineOnce'
    <3>1. ~GoesOnline(t)'
      BY <2>4 DEF GoesOnline, Changing
    <3>2. \A u \in Threads : u # t => (GoesOnline(u)' <=> GoesOnline(u)) /\ loc'[u] = loc[u]
      BY <1>1 DEF GoesOnline, Others
    <3> QED BY <3>1, <3>2 DEF CInv, OnlineOnce
  <2>11. CarriedOK'
    <3>1. hand[t].free = 0 /\ spare[t].free = 0
      BY <1>2, ThreadCarries DEF Carrying
    <3>2. Carried(pc'[t], call'[t], loc'[t], hand'[t], spare'[t])
      BY <1>2, <2>4, <3>1 DEF Carried
    <3> QED BY <1>1, <3>2 DEF CInv, CarriedOK, Others
  <2>12. SlotsOK'
    BY <1>2 DEF CInv, SlotsOK
  <2> QED BY <2>8, <2>9, <2>10, <2>11, <2>12 DEF CInv
<1> QED BY <1>4, <1>5, <1>6 DEF ChangeCas
-----------------------------------------------------------------------------
(* The invariant holds initially, after a restart and after every step. *)

\* A fresh state counts in the entries what the lower allocator has free.
FreshRoom == Fresh /\ \A i \in Trees : room[i] <= FramesOf(i)

LEMMA FreshCounted == FreshRoom => CInv
<1> SUFFICES ASSUME FreshRoom PROVE CInv
  OBVIOUS
<1> USE DEF FreshRoom, Fresh
<1>1. IInv /\ Nothing.free = 0 /\ Nothing.tree = 0 /\ ~Nothing.present
  BY FreshState DEF Nothing, Reservation
<1>2. CarriedOK /\ SlotsOK /\ ChangeOK /\ OnlineOnce
  BY <1>1 DEF CarriedOK, Carried, SlotsOK, ChangeOK, ChangeAt, OnlineOnce, GoesOnline,
              Changing
<1>3. ASSUME NEW i \in Trees PROVE Tokens(i) = {}
  <2>1. ASSUME NEW h \in Holders PROVE HeldBy(h).free = 0
    <3>1. CASE \E s \in Slots : h = <<"slot", s>>
      BY <1>1, <3>1, HolderKinds
    <3>2. CASE \E t \in Threads : h = <<"hand", t>> \/ h = <<"spare", t>>
      <4>1. PICK t \in Threads : h = <<"hand", t>> \/ h = <<"spare", t>>
        BY <3>2
      <4>2. HeldBy(<<"hand", t>>) = Nothing /\ HeldBy(<<"spare", t>>) = Nothing
        BY HolderKinds
      <4> QED BY <1>1, <4>1, <4>2
    <3> QED BY <3>1, <3>2, HolderKinds
  <2>2. ASSUME NEW d \in Tokens(i) PROVE FALSE
    <3>1. d[1] \in Holders /\ d[2] \in 1 .. TREE_SIZE /\ d[2] <= HeldBy(d[1]).free
      BY DEF Tokens
    <3> QED BY <2>1, <3>1, Constants
  <2> QED BY <2>2
<1>4. ASSUME NEW i \in Trees
      PROVE  /\ IsFiniteSet(Tokens(i)) /\ room[i] <= FramesOf(i) /\ Count(i) = room[i]
  <2>1. trees[i].free = room[i] /\ room[i] \in Nat
    BY DEF InitEntry, Entry
  <2> QED BY <1>3, <2>1, FS_EmptySet DEF Count
<1>5. CountOK
  BY <1>4 DEF CountOK
<1> QED BY <1>1, <1>2, <1>5 DEF CInv

\* llfree_init.
LEMMA InitCounted == Init => CInv
<1> SUFFICES ASSUME Init PROVE CInv
  OBVIOUS
<1>1. room \in [Trees -> 0 .. TREE_SIZE] /\ held \in [Trees -> Nat]
      /\ \A i \in Trees : room[i] <= FramesOf(i)
  <2>1. \A i \in Trees : 0 \in 0 .. TREE_SIZE /\ FramesOf(i) \in 0 .. TREE_SIZE
    BY TreesExist, Constants
  <2> QED BY <2>1, Constants DEF Init
<1>2. restarts \in 0 .. MaxRestarts
  BY Constants DEF Init
<1> QED BY <1>1, <1>2, FreshCounted DEF Init, Fresh, FreshRoom

\* Recovery counts every tree anew.
LEMMA RestartCounted ==
    ASSUME CInv, Restart
    PROVE  CInv'
<1>1. PICK left \in [Trees -> 0 .. TREE_SIZE] :
         /\ \A i \in Trees : left[i] \in Recovered(i)
         /\ room' = left /\ trees' = [i \in Trees |-> InitEntry(i, left[i])]
  BY DEF Restart
<1>2. Fresh'
  <2>1. restarts' \in 0 .. MaxRestarts
    BY Constants DEF Restart, CInv, IInv, TypeInv, TypeOK
  <2>2. \A i \in Trees : room'[i] = left[i]
    BY <1>1
  <2> QED BY <1>1, <2>1, <2>2
          DEF Restart, Fresh, InitEntry, Entry, CInv, IInv, TypeInv, TypeOK
<1>3. \A i \in Trees : room'[i] <= FramesOf(i)
  <2>1. \A i \in Trees : left[i] \in 0 .. FramesOf(i) /\ FramesOf(i) \in Nat
    BY <1>1, TreesExist DEF Recovered
  <2> QED BY <1>1, <2>1
<1>4. FreshRoom'
  BY <1>2, <1>3 DEF FreshRoom, Trees, TreeCount, FramesOf
<1>5. FreshRoom' => CInv'
  BY FreshCounted, PTL
<1> QED BY <1>4, <1>5

\* Steps that leave the threads, the entries and the lower allocator alone.
LEMMA QuietCounted ==
    ASSUME CInv, IInv', UNCHANGED <<trees, room, pc, call, loc, hand, spare, offline>>,
           \A s \in Slots, i \in Trees : Of(slots'[s], i) = Of(slots[s], i),
           SlotsOK'
    PROVE  CInv'
<1>1. CarriedOK' /\ ChangeOK' /\ OnlineOnce'
  BY DEF CInv, CarriedOK, ChangeOK, OnlineOnce, GoesOnline
<1>2. \A i \in Trees : Tokens(i)' = Tokens(i)
  BY SameTokens DEF CInv, IInv
<1>3. ASSUME NEW i \in Trees
      PROVE  /\ IsFiniteSet(Tokens(i)') /\ Cardinality(Tokens(i)') \in Nat
             /\ Count(i)' - room'[i] = Count(i) - room[i] /\ room'[i] <= FramesOf(i)
  <2>1. IsFiniteSet(Tokens(i)) /\ Cardinality(Tokens(i)) \in Nat /\ room[i] <= FramesOf(i)
    BY FS_CardinalityType DEF CInv, CountOK
  <2> QED BY <1>2, <2>1 DEF Count
<1>4. CountOK'
  BY <1>3, CountKept
<1> QED BY <1>1, <1>4 DEF CInv

\* INIT_NONE finds the slots drained.
LEMMA AttachCounted ==
    ASSUME CInv, IInv', Attach
    PROVE  CInv'
<1>1. UNCHANGED <<trees, room, pc, call, loc, hand, spare, offline>>
  BY DEF Attach, thread
<1>2. ASSUME NEW s \in Slots
      PROVE  slots[s].free = 0 /\ slots'[s] = Nothing /\ Nothing.free = 0
  BY DEF Attach, CInv, SlotsOK, Nothing, Reservation
<1>3. SlotsOK' /\ \A s \in Slots, i \in Trees : Of(slots'[s], i) = Of(slots[s], i)
  BY <1>2 DEF SlotsOK, Of
<1> QED BY <1>1, <1>3, QuietCounted

\* Every step preserves the invariant.
LEMMA NextCounted == Clients /\ CInv /\ [Next]_vars => CInv'
<1> SUFFICES ASSUME Clients, CInv, [Next]_vars PROVE CInv'
  OBVIOUS
<1>1. IInv'
  BY NextInv DEF CInv
<1>2. ASSUME NEW t \in Threads, Start(t)
      PROVE  CInv'
  BY <1>1, <1>2, StartCounted, ChangeCounted DEF Start
<1>3. ASSUME NEW t \in Threads, Step(t)
      PROVE  CInv'
  <2>1. CASE LocalGet(t) \/ SyncSteal(t) \/ SyncPut(t) \/ Lower(t) \/ GiveBack(t)
    BY <1>1, <2>1, LocalGetCounted, SyncStealCounted, SyncPutCounted, LowerCounted,
       GiveBackCounted
  <2>2. CASE Scan(t) \/ Pick(t) \/ Reserve(t) \/ StealLoad(t) \/ StealCas(t)
    BY <1>1, <2>2, SearchCounted, ReserveCounted, StealCasCounted
  <2>3. CASE Swap(t) \/ Unreserve(t) \/ DrainSlot(t) \/ LowerPut(t) \/ PutSlot(t)
    BY <1>1, <2>3, SwapCounted, UnreserveCounted, DrainSlotCounted, LowerPutCounted,
       SyncPutCounted
  <2>4. CASE StealSlot(t) \/ TakeSlot(t) \/ DemoteSwap(t)
    BY <1>1, <2>4, StealSlotCounted, TakeSlotCounted, DemoteSwapCounted
  <2>5. CASE ChangeLoad(t) \/ ChangeFetch(t) \/ ChangeCas(t) \/ Return(t)
    BY <1>1, <2>5, ChangeReadCounted, ChangeCasCounted, ReturnCounted
  <2> QED BY <1>3, <2>1, <2>2, <2>3, <2>4, <2>5 DEF Step
<1>4. CASE UNCHANGED vars
  <2>1. UNCHANGED <<trees, slots, room, pc, call, loc, hand, spare, offline>>
    BY <1>4 DEF vars, counters, thread
  <2>2. SlotsOK'
    BY <2>1 DEF CInv, SlotsOK
  <2> QED BY <1>1, <2>1, <2>2, QuietCounted
<1> QED BY <1>1, <1>2, <1>3, <1>4, RestartCounted, AttachCounted DEF Next

LEMMA Counted == Clients => (Spec => []CInv)
<1> SUFFICES ASSUME Clients PROVE Spec => []CInv
  OBVIOUS
<1>1. CInv /\ [Next]_vars => CInv'
  BY NextCounted
<1> QED BY <1>1, InitCounted, PTL DEF Spec

\* While no call is in progress, the entry of a tree and the slot that has reserved it, if
\* any, count all its free frames.
LEMMA QuietEntries ==
    ASSUME CInv, \A t \in Threads : pc[t] = "idle", NEW i \in Trees \ offline
    PROVE  /\ \A s \in Slots : slots[s].present /\ slots[s].tree = i =>
                 /\ trees[i].reserved /\ trees[i].free + slots[s].free = room[i]
                 /\ \A q \in Slots : q # s => ~(slots[q].present /\ slots[q].tree = i)
           /\ (\A s \in Slots : ~(slots[s].present /\ slots[s].tree = i)) =>
                 ~trees[i].reserved /\ trees[i].free = room[i]
<1> DEFINE a == Amounts(i)
<1>1. /\ TypeInv /\ PhaseOK /\ ReservedOnce /\ CarriedOK /\ SlotsOK /\ i \in Trees
      /\ trees[i].free + Cardinality(Tokens(i)) = room[i] /\ trees[i].free \in Nat /\ room[i] \in Nat
  BY EntryFields DEF CInv, IInv, CountOK, Count
<1>9. \A g, h \in Holders :
         g # h /\ HeldBy(g).present /\ HeldBy(h).present => HeldBy(g).tree # HeldBy(h).tree
  BY <1>1 DEF ReservedOnce
<1>10. trees[i].reserved <=> \E h \in Holders : HeldBy(h).present /\ HeldBy(h).tree = i
  BY <1>1 DEF ReservedOnce
<1>2. a \in [Holders -> 0 .. TREE_SIZE] /\ Tokens(i) = Pairs(Holders, TREE_SIZE, a)
  BY <1>1, TokensArePairs
<1>3. \A t \in Threads : /\ ~hand[t].present /\ ~spare[t].present
                         /\ hand[t].free = 0 /\ spare[t].free = 0
  BY <1>1 DEF PhaseOK, Phase, InHand, CarriedOK, Carried, Carrying
<1>4. ASSUME NEW h \in Holders
      PROVE  \/ \E s \in Slots : h = <<"slot", s>> /\ HeldBy(h) = slots[s]
             \/ ~HeldBy(h).present /\ a[h] = 0
  <2>1. CASE \E s \in Slots : h = <<"slot", s>>
    BY <2>1, HolderKinds
  <2>2. CASE \E t \in Threads : h = <<"hand", t>> \/ h = <<"spare", t>>
    <3>1. PICK t \in Threads : h = <<"hand", t>> \/ h = <<"spare", t>>
      BY <2>2
    <3>2. HeldBy(h) = hand[t] \/ HeldBy(h) = spare[t]
      BY <3>1, HolderKinds
    <3>3. ~HeldBy(h).present /\ HeldBy(h).free = 0
      BY <1>3, <3>2
    <3> QED BY <3>3 DEF Amounts, Of
  <2> QED BY <2>1, <2>2 DEF Holders
<1>5. \A s \in Slots : <<"slot", s>> \in Holders /\ HeldBy(<<"slot", s>>) = slots[s]
                       /\ a[<<"slot", s>>] = Of(slots[s], i)
  BY HolderKinds DEF Amounts
<1>6. \A s \in Slots : slots[s].free \in Nat /\ slots[s].present \in BOOLEAN
  <2>1. TREE_SIZE \in Nat
    BY Constants
  <2> QED BY <1>1, <2>1 DEF TypeInv, TypeOK, Reservations
<1> HIDE DEF a
<1>7. ASSUME NEW s \in Slots, slots[s].present, slots[s].tree = i
      PROVE  /\ trees[i].reserved /\ trees[i].free + slots[s].free = room[i]
             /\ \A q \in Slots : q # s => ~(slots[q].present /\ slots[q].tree = i)
  <2> DEFINE g == <<"slot", s>>
  <2>0. g \in Holders /\ HeldBy(g) = slots[s] /\ HeldBy(g).present /\ HeldBy(g).tree = i
    BY ONLY <1>5, <1>7
  <2>1. ASSUME NEW h \in Holders, h # g, HeldBy(h).present PROVE HeldBy(h).tree # i
    <3> HIDE DEF g
    <3> QED BY ONLY <1>9, <2>0, <2>1
  <2>2. \A q \in Slots : q # s => ~(slots[q].present /\ slots[q].tree = i)
    BY <1>5, <2>1
  <2>3. trees[i].reserved
    <3> HIDE DEF g
    <3> QED BY ONLY <1>10, <2>0
  <2>4. ASSUME NEW h \in Holders, h # g PROVE a[h] = 0
    <3> SUFFICES ASSUME NEW q \in Slots, h = <<"slot", q>> PROVE Of(slots[q], i) = 0
      BY <1>4, <1>5
    <3>1. q # s
      BY <2>4
    <3> QED BY <1>1, <2>2, <3>1 DEF SlotsOK, Of
  <2>5. a[g] = slots[s].free
    BY <1>5, <1>7 DEF Of
  <2>6. Pairs(Holders, TREE_SIZE, a) = Units(g, slots[s].free)
    <3>1. ASSUME NEW d \in Pairs(Holders, TREE_SIZE, a) PROVE d \in Units(g, slots[s].free)
      <4>1. d[1] \in Holders /\ d[2] \in 1 .. TREE_SIZE /\ d[2] <= a[d[1]] /\ d = <<d[1], d[2]>>
        BY DEF Pairs
      <4>2. d[1] = g
        BY <2>4, <4>1, Constants
      <4> QED BY <1>6, <2>5, <4>1, <4>2 DEF Units
    <3>2. ASSUME NEW k \in 1 .. slots[s].free PROVE <<g, k>> \in Pairs(Holders, TREE_SIZE, a)
      BY <1>2, <1>5, <1>6, <2>5, Constants DEF Pairs
    <3> QED BY <3>1, <3>2 DEF Units
  <2>7. Cardinality(Tokens(i)) = slots[s].free
    BY <1>2, <1>6, <2>6, UnitsCount
  <2> QED BY <1>1, <2>2, <2>3, <2>7
<1>8. ASSUME \A s \in Slots : ~(slots[s].present /\ slots[s].tree = i)
      PROVE  ~trees[i].reserved /\ trees[i].free = room[i]
  <2>1. ASSUME NEW h \in Holders PROVE a[h] = 0 /\ ~(HeldBy(h).present /\ HeldBy(h).tree = i)
    <3>1. CASE \E s \in Slots : h = <<"slot", s>> /\ HeldBy(h) = slots[s]
      BY <1>1, <1>5, <1>8, <3>1 DEF SlotsOK, Of
    <3> QED BY <1>4, <3>1
  <2>2. Pairs(Holders, TREE_SIZE, a) = {}
    <3>1. ASSUME NEW d \in Pairs(Holders, TREE_SIZE, a) PROVE FALSE
      <4>1. d[1] \in Holders /\ d[2] \in 1 .. TREE_SIZE /\ d[2] <= a[d[1]]
        BY DEF Pairs
      <4> QED BY <2>1, <4>1, Constants
    <3> QED BY <3>1
  <2>3. Cardinality(Tokens(i)) = 0
    BY <1>2, <2>2, FS_EmptySet
  <2>4. ~trees[i].reserved
    BY <1>10, <2>1
  <2> QED BY <1>1, <2>3, <2>4
<1> QED BY <1>7, <1>8

-----------------------------------------------------------------------------

\* Between any two atomic updates of any number of calls, the entry of a tree, the
\* slots and the calls in progress together count exactly the frames that the lower
\* allocator has free: none is lost in a retry or counted twice.
THEOREM FramesConserved ==
    ASSUME Clients
    PROVE  Spec => []Conserved
<1>1. CInv => Conserved
  BY DEF CInv, CountOK, Count, Conserved
<1> QED BY <1>1, Counted, PTL

\* The assertions that a counter does not exceed the tree, of tree_put and of
\* ll_reserved_inc, never fail.
THEOREM NeverAborts ==
    ASSUME Clients
    PROVE  Spec => []NoAbort
<1>1. CInv => NoAbort
  BY DEF CInv, CarriedOK, Carried, NoAbort, Aborted
<1> QED BY <1>1, Counted, PTL

\* Nothing is allocated from a tree that is offline, not even by a call that read
\* its entry before.
THEOREM OfflineStaysUnused ==
    ASSUME Clients
    PROVE  Spec => []OfflineUnused
<1>1. CInv => OfflineUnused
  <2> SUFFICES ASSUME CInv, NEW i \in offline
               PROVE  /\ room[i] = FramesOf(i) /\ Tokens(i) = {}
                      /\ trees[i].free = 0 /\ ~trees[i].reserved
    BY DEF OfflineUnused
  <2>1. i \in Trees
    BY DEF CInv, IInv, TypeInv, TypeOK
  <2>2. /\ room[i] = FramesOf(i) /\ ~trees[i].reserved /\ IsFiniteSet(Tokens(i))
        /\ trees[i].free = 0 /\ Cardinality(Tokens(i)) = 0
    BY <2>1, Bounded DEF CInv, CountOK
  <2> QED BY <2>2, FS_EmptySet
<1> QED BY <1>1, Counted, PTL

-----------------------------------------------------------------------------
(* The pool that clients see. *)

P == INSTANCE PoolProofs WITH
    Capacity <- [i \in Trees |-> FramesOf(i)],
    Calls    <- Calls \cup {NoCall},
    free     <- room,
    state    <- [t \in Threads |-> State(t)],
    from     <- [t \in Threads |-> From(t)]

-----------------------------------------------------------------------------
(* What a call is doing. *)

Gets == {"get", "get_at"}

\* The labels at which a call looks for frames, or has taken some.
Getting == {"local", "sync", "sync_put", "lower", "scan", "reserve", "load", "steal_cas",
            "swap", "steal", "demote", "demote_swap"}

\* The operation of a call at a label, and for a given frame the tree it works on.
Doing(p, c, l, h) ==
    /\ p \in {"put", "put_slot"} => c.op = "put" /\ l.from = "put"
    /\ p \in Getting => c.op \in Gets /\ l.from # "put"
    /\ p = "give_back" => \/ c.op = "put" /\ l.from = "put"
                          \/ c.op \in Gets /\ l.from # "put"
    /\ p = "unreserve" /\ c.op # "drain" => c.op \in Gets /\ l.from \in {"search", "demote"}
    /\ c.op = "get_at" =>
          /\ p # "scan"
          /\ p \in Getting \cup {"give_back", "unreserve"} => l.from # "search"
          /\ p \in {"load", "steal_cas"} => l.tree = c.tree
          /\ p \in {"lower", "demote_swap", "unreserve"} => h.tree = c.tree

DoingOK == \A t \in Threads : Doing(pc[t], call[t], loc[t], hand[t])

-----------------------------------------------------------------------------
(* What its client sees of a call. *)

StateOf(p, c, l) ==
    CASE p = "idle" -> "idle"
      [] p = "argument" /\ c.op = "put" -> "rejected"
      [] p = "ok" /\ c.op # "drain" -> "served"
      [] p \in {"swap", "put_slot"} -> "served"
      [] p = "give_back" /\ c.op = "put" -> "served"
      [] p = "unreserve" /\ c.op # "drain" /\ l.from = "search" -> "served"
      [] OTHER -> "called"

FromOf(p, c, l, h) ==
    IF StateOf(p, c, l) # "served" \/ c.op = "change" THEN 0
    ELSE IF c.op = "put" THEN c.tree ELSE h.tree

\* Labels at which a call has not taken effect, whatever its operation.
Waiting == {"local", "sync", "sync_put", "lower", "scan", "reserve", "load", "steal_cas",
            "steal", "demote", "demote_swap", "drain", "put", "change", "fetch",
            "change_cas", "memory"}

LEMMA Seen ==
    \A t \in Threads :
        /\ State(t) = StateOf(pc[t], call[t], loc[t])
        /\ From(t) = FromOf(pc[t], call[t], loc[t], hand[t])
        /\ State(t)' = StateOf(pc'[t], call'[t], loc'[t])
        /\ From(t)' = FromOf(pc'[t], call'[t], loc'[t], hand'[t])
BY DEF State, From, StateOf, FromOf

LEMMA StateCases ==
    ASSUME NEW p, NEW c, NEW l, NEW h
    PROVE  /\ p \in Waiting => StateOf(p, c, l) = "called"
           /\ p = "idle" => StateOf(p, c, l) = "idle"
           /\ p = "argument" => StateOf(p, c, l) = IF c.op = "put" THEN "rejected" ELSE "called"
           /\ p = "ok" => StateOf(p, c, l) = IF c.op = "drain" THEN "called" ELSE "served"
           /\ p \in {"swap", "put_slot"} => StateOf(p, c, l) = "served"
           /\ p = "give_back" => StateOf(p, c, l) = IF c.op = "put" THEN "served" ELSE "called"
           /\ p = "unreserve" => StateOf(p, c, l) = IF c.op # "drain" /\ l.from = "search"
                                                    THEN "served" ELSE "called"
BY DEF StateOf, Waiting

\* Finite sets are the same in the instance.
LEMMA SameCardinality ==
    \A S : (P!IsFiniteSet(S) <=> IsFiniteSet(S)) /\ P!Cardinality(S) = Cardinality(S)
<1>1. \A S : P!IsFiniteSet(S) <=> IsFiniteSet(S)
  BY DEF P!IsFiniteSet, IsFiniteSet
<1>2. \A S : P!Cardinality(S) = Cardinality(S)
  BY Zenon DEF P!Cardinality, Cardinality
<1> QED BY <1>1, <1>2

\* The pool of the instance, with its tree numbers and requests.
LEMMA PoolSound == P!Sound
<1>1. \A i \in Trees : FramesOf(i) \in Nat
  BY TreesExist, Constants
<1>2. \A r \in Calls \cup {NoCall} :
         /\ r.op \in {"get", "get_at", "put"} => r.n \in Nat
         /\ r.op = "put" => r.tree \in Trees
  <2>1. NoCall.op = "drain"
    BY DEF NoCall
  <2>2. \A r \in Changes : r.op = "change"
    BY DEF Changes
  <2>3. \A r \in Requests : r.n \in Nat /\ r.tree \in Trees
    BY DEF Requests
  <2> QED BY <2>1, <2>2, <2>3, CallsAssumption
<1> QED BY <1>1, <1>2 DEF P!Sound, P!Trees

\* The pool does not see a step that changes nothing of what the clients see.
LEMMA NothingSeen ==
    ASSUME UNCHANGED <<room, held, offline, call>>,
           \A t \in Threads : State(t)' = State(t) /\ From(t)' = From(t)
    PROVE  [P!Next]_P!vars
BY DEF P!vars

\* What a step of t means for the pool, and for what t is doing.
Served(t) == [P!Next]_P!vars /\ Doing(pc'[t], call'[t], loc'[t], hand'[t])

\* The states of the other calls stay.
LEMMA OthersSeen ==
    ASSUME NEW t \in Threads, Others(t)
    PROVE  \A u \in Threads : u # t => State(u)' = State(u) /\ From(u)' = From(u)
BY Seen DEF Others

\* A call goes on, without having taken effect.
LEMMA GoesOn ==
    ASSUME NEW t \in Threads, Others(t), UNCHANGED <<room, held, offline, call>>,
           StateOf(pc[t], call[t], loc[t]) = "called",
           StateOf(pc'[t], call[t], loc'[t]) = "called"
    PROVE  [P!Next]_P!vars
<1>1. State(t)' = State(t) /\ From(t)' = From(t)
  BY Seen DEF FromOf
<1> QED BY <1>1, OthersSeen, NothingSeen

\* A call goes on after it has taken effect.
LEMMA StaysServed ==
    ASSUME NEW t \in Threads, Others(t), UNCHANGED <<room, held, offline, call>>,
           StateOf(pc[t], call[t], loc[t]) = "served",
           StateOf(pc'[t], call[t], loc'[t]) = "served",
           call[t].op = "put" \/ hand'[t].tree = hand[t].tree
    PROVE  [P!Next]_P!vars
<1>1. State(t)' = State(t) /\ From(t)' = From(t)
  BY Seen DEF FromOf
<1> QED BY <1>1, OthersSeen, NothingSeen

\* A call takes effect on tree i.
LEMMA TakesEffect ==
    ASSUME NEW t \in Threads, Others(t), UNCHANGED <<held, offline, call>>, NEW i \in Trees,
           StateOf(pc[t], call[t], loc[t]) = "called",
           StateOf(pc'[t], call[t], loc'[t]) = "served",
           \/ /\ call[t].op \in Gets /\ i \notin offline /\ hand'[t].tree = i
              /\ call[t].op = "get_at" => i = call[t].tree
              /\ room[i] >= call[t].n
              /\ room' = [room EXCEPT ![i] = @ - call[t].n]
           \/ /\ call[t].op = "put" /\ i = call[t].tree
              /\ room[i] + call[t].n <= FramesOf(i)
              /\ room' = [room EXCEPT ![i] = @ + call[t].n]
    PROVE  [P!Next]_P!vars
<1>1. State(t) = "called" /\ State(t)' = "served" /\ From(t)' = i
  BY Seen DEF FromOf, Gets
<1>2. [u \in Threads |-> State(u)]' = [[u \in Threads |-> State(u)] EXCEPT ![t] = "served"]
  BY <1>1, OthersSeen
<1>3. [u \in Threads |-> From(u)]' = [[u \in Threads |-> From(u)] EXCEPT ![t] = i]
  BY <1>1, OthersSeen
<1>4. P!Serve(t, i)
  BY <1>1, <1>2, <1>3 DEF P!Serve, P!IsGet, Gets
<1>5. i \in P!Trees
  BY DEF P!Trees
<1> QED BY <1>4, <1>5 DEF P!Next

-----------------------------------------------------------------------------
(* Steps of a call that looks for frames. *)

Seeking == {"scan", "reserve", "load", "steal_cas", "steal", "demote", "memory"}

\* A get that has no frames in hand goes on looking for some.
Seeks(t) == pc'[t] \in Seeking /\ \A h : Doing(pc'[t], call[t], loc'[t], h)

LEMMA SearchSeeks ==
    ASSUME TypeInv, NEW t \in Threads, call[t].op \in Gets
    PROVE  /\ \A start, phase :
                 call[t].op = "get" /\ SearchFrom(t, start, phase) => Seeks(t)
           /\ \A start : LocalMiss(t, start) => Seeks(t)
           /\ StealLocal(t) => Seeks(t)
           /\ DemoteLocal(t) => Seeks(t)
<1> USE DEF TypeInv, TypeOK, Goto, SetLoc, Seeks, Seeking, Doing, Gets, Getting, NoLoc
<1>1. \A start, phase : call[t].op = "get" /\ SearchFrom(t, start, phase) => Seeks(t)
  BY DEF SearchFrom
<1>2. \A start : LocalMiss(t, start) => Seeks(t)
  <2> SUFFICES ASSUME NEW start, LocalMiss(t, start) PROVE Seeks(t)
    OBVIOUS
  <2>1. CASE call[t].op = "get"
    BY <1>1, <2>1 DEF LocalMiss
  <2>2. CASE call[t].op # "get"
    <3> DEFINE m == [NoLoc EXCEPT !.from = "tree", !.tree = call[t].tree,
                                  !.class = call[t].class]
    <3>1. pc' = [pc EXCEPT ![t] = "load"] /\ loc' = [loc EXCEPT ![t] = m]
      BY <2>2 DEF LocalMiss
    <3>2. m.from = "tree" /\ m.tree = call[t].tree
      OBVIOUS
    <3> HIDE DEF m
    <3> QED BY <3>1, <3>2
  <2> QED BY <2>1, <2>2
<1>3. StealLocal(t) => Seeks(t)
  BY DEF StealLocal
<1>4. DemoteLocal(t) => Seeks(t)
  BY DEF DemoteLocal
<1> QED BY <1>1, <1>2, <1>3, <1>4

\* The same, after the lower allocator has refused.
LEMMA FailureSeeks ==
    ASSUME TypeInv, NEW t \in Threads, call[t].op \in Gets, loc[t].from # "put",
           call[t].op = "get_at" => loc[t].from # "search", AfterFailure(t)
    PROVE  Seeks(t)
<1>1. loc[t].from \in {"local", "search", "steal", "tree", "demote"}
  BY LocFields
<1>2. CASE loc[t].from \in {"local", "steal"}
  BY <1>2, SearchSeeks DEF AfterFailure
<1>3. CASE loc[t].from \in {"search", "tree", "demote"}
  BY <1>1, <1>3 DEF AfterFailure, TypeInv, TypeOK, Goto, SetLoc, Seeks, Seeking, Doing, Gets,
                    Getting, NoLoc
<1> QED BY <1>1, <1>2, <1>3

\* The same, when a search tries a tree.
LEMMA TrySeeks ==
    ASSUME TypeInv, NEW t \in Threads, call[t].op = "get",
           NEW l \in LocType, NEW i, Try(t, l, i)
    PROVE  Seeks(t)
<1>1. loc'[t].from = "search" /\ pc'[t] \in {"load", "reserve"}
  BY DEF Try, Goto, SetLoc, TypeInv, TypeOK, LocType
<1> QED BY <1>1 DEF Seeks, Seeking, Doing, Gets, Getting

\* The same, when the entry of a tree is loaded again.
LEMMA StealSeeks ==
    ASSUME TypeInv, NEW t \in Threads, NEW e, StealFrom(t, e), call[t].op \in Gets,
           loc[t].from # "put",
           call[t].op = "get_at" => loc[t].from # "search" /\ loc[t].tree = call[t].tree
    PROVE  Seeks(t)
<1>1. loc[t] \in LocType
  BY LocFields
<1>2. CASE CanSteal(e, loc[t].class, call[t].n)
  <2>1. pc'[t] = "steal_cas" /\ loc'[t].from = loc[t].from /\ loc'[t].tree = loc[t].tree
    <3> DEFINE l == loc[t]
               c == ClassAfterSteal(e, l.class)
               m == [l EXCEPT !.seen = e, !.class = c]
    <3>1. loc' = [loc EXCEPT ![t] = m] /\ pc' = [pc EXCEPT ![t] = "steal_cas"]
      BY <1>2 DEF StealFrom, Goto, SetLoc
    <3>2. m.from = l.from /\ m.tree = l.tree
      <4> HIDE DEF c
      <4> QED BY <1>1 DEF LocType
    <3> HIDE DEF m
    <3> QED BY <3>1, <3>2 DEF TypeInv, TypeOK
  <2> QED BY <2>1 DEF Seeks, Seeking, Doing, Gets, Getting
<1>3. CASE ~CanSteal(e, loc[t].class, call[t].n) /\ loc[t].from = "search"
  BY <1>3 DEF StealFrom, TypeInv, TypeOK, Goto, SetLoc, Seeks, Seeking, Doing, Gets, Getting
<1>4. CASE ~CanSteal(e, loc[t].class, call[t].n) /\ loc[t].from # "search"
  BY <1>4, SearchSeeks DEF StealFrom
<1> QED BY <1>2, <1>3, <1>4

\* What the invariants say about a call at a label.
LEMMA DoingFields ==
    ASSUME CInv, DoingOK, NEW t \in Threads
    PROVE  /\ Doing(pc[t], call[t], loc[t], hand[t])
           /\ Phase(pc[t], call[t], loc[t], hand[t], spare[t])
           /\ Carried(pc[t], call[t], loc[t], hand[t], spare[t])
           /\ pc[t] \in Getting => /\ StateOf(pc[t], call[t], loc[t]) =
                                        IF pc[t] = "swap" THEN "served" ELSE "called"
                                   /\ call[t].op \in Gets /\ loc[t].from # "put"
                                   /\ call[t].op # "put"
           /\ TypeInv /\ PhaseOK
<1>1. /\ Doing(pc[t], call[t], loc[t], hand[t])
      /\ Phase(pc[t], call[t], loc[t], hand[t], spare[t])
      /\ Carried(pc[t], call[t], loc[t], hand[t], spare[t])
      /\ TypeInv /\ PhaseOK
  BY DEF CInv, IInv, PhaseOK, CarriedOK, DoingOK
<1>2. pc[t] \in Getting => pc[t] = "swap" \/ pc[t] \in Waiting
  BY DEF Getting, Waiting
<1> QED BY <1>1, <1>2, StateCases DEF Doing, Gets

\* A call that seeks has not taken effect.
LEMMA SeeksServed ==
    ASSUME NEW t \in Threads, Others(t), UNCHANGED <<room, held, offline, call>>,
           StateOf(pc[t], call[t], loc[t]) = "called", Seeks(t)
    PROVE  Served(t)
<1>1. Seeking \subseteq Waiting
  BY DEF Seeking, Waiting
<1>2. StateOf(pc'[t], call[t], loc'[t]) = "called"
  BY <1>1, StateCases DEF Seeks
<1> QED BY <1>2, GoesOn DEF Served, Seeks

-----------------------------------------------------------------------------
(* The steps of a get. *)

\* What an update of the other fields leaves of a position.
LEMMA FromStays ==
    ASSUME NEW l \in LocType
    PROVE  /\ \A x : [l EXCEPT !.tree = x].from = l.from
           /\ \A x, y : [l EXCEPT !.tree = x, !.free = y].from = l.from
           /\ \A x : [l EXCEPT !.left = x].from = l.from
           /\ \A x : [l EXCEPT !.i = x].from = l.from
           /\ \A x, y : [l EXCEPT !.i = x, !.best = y].from = l.from
           /\ \A x : [l EXCEPT !.seen = x].from = l.from
BY DEF LocType

\* get_local.
LEMMA LocalGetServes ==
    ASSUME CInv, CInv', DoingOK, NEW t \in Threads, Others(t), LocalGet(t)
    PROVE  Served(t)
<1> DEFINE r == slots[SlotOf(t)]
<1>1. /\ pc[t] = "local" /\ UNCHANGED <<room, held, offline, call>>
      /\ pc[t] \in Getting /\ TypeInv /\ loc[t] \in LocType
      /\ StateOf(pc[t], call[t], loc[t]) = "called"
      /\ call[t].op \in Gets /\ loc[t].from # "put"
      /\ call[t].op = "get_at" => loc[t].from # "search"
  BY DoingFields, LocFields DEF LocalGet, At, Getting, Doing
<1>2. CASE Fits(t, r)
  <2>1. /\ pc'[t] = "lower" /\ hand'[t] = Reservation(FALSE, r.tree, call[t].n)
        /\ loc'[t] = [loc[t] EXCEPT !.tree = r.tree]
    BY <1>1, <1>2 DEF LocalGet, Goto, SetLoc, Hold, TypeInv, TypeOK
  <2>2. hand'[t].tree = r.tree /\ loc'[t].from = loc[t].from
    BY <1>1, <2>1, FromStays DEF Reservation
  <2>3. call[t].op = "get_at" => r.tree = call[t].tree
    BY <1>2 DEF Fits
  <2>4. Doing(pc'[t], call'[t], loc'[t], hand'[t])
    BY <1>1, <2>1, <2>2, <2>3 DEF Doing, Gets, Getting
  <2>5. StateOf(pc'[t], call[t], loc'[t]) = "called"
    BY <2>1, StateCases DEF Waiting
  <2> QED BY <1>1, <2>4, <2>5, GoesOn DEF Served
<1>3. CASE /\ ~Fits(t, r) /\ loc[t].sync /\ r.present /\ r.free < call[t].n
  <2>1. /\ pc'[t] = "sync" /\ loc'[t] = [loc[t] EXCEPT !.tree = r.tree, !.free = r.free]
    BY <1>1, <1>3 DEF LocalGet, Goto, SetLoc, TypeInv, TypeOK
  <2>2. loc'[t].from = loc[t].from
    BY <1>1, <2>1, FromStays
  <2>3. Doing(pc'[t], call'[t], loc'[t], hand'[t])
    BY <1>1, <2>1, <2>2 DEF Doing, Gets, Getting
  <2>4. StateOf(pc'[t], call[t], loc'[t]) = "called"
    BY <2>1, StateCases DEF Waiting
  <2> QED BY <1>1, <2>3, <2>4, GoesOn DEF Served
<1>4. CASE ~Fits(t, r) /\ ~(loc[t].sync /\ r.present /\ r.free < call[t].n)
  <2>1. \E start : LocalMiss(t, start)
    BY <1>4 DEF LocalGet
  <2>2. Seeks(t)
    BY <1>1, <2>1, SearchSeeks
  <2> QED BY <1>1, <2>2, SeeksServed
<1> QED BY <1>2, <1>3, <1>4

\* sync_with_global.
LEMMA SyncStealServes ==
    ASSUME CInv, CInv', DoingOK, NEW t \in Threads, Others(t), SyncSteal(t)
    PROVE  Served(t)
<1>1. /\ pc[t] = "sync" /\ UNCHANGED <<room, held, offline, call>>
      /\ pc[t] \in Getting /\ TypeInv
      /\ StateOf(pc[t], call[t], loc[t]) = "called"
      /\ call[t].op \in Gets /\ loc[t].from # "put"
      /\ call[t].op = "get_at" => loc[t].from # "search"
  BY DoingFields DEF SyncSteal, At, Getting, Doing
<1>2. CASE CanSync(trees[loc[t].tree], call[t].n - loc[t].free)
  <2>1. pc'[t] = "sync_put" /\ loc'[t] = loc[t]
    BY <1>1, <1>2 DEF SyncSteal, Goto, TypeInv, TypeOK
  <2>2. Doing(pc'[t], call'[t], loc'[t], hand'[t])
    BY <1>1, <2>1 DEF Doing, Gets, Getting
  <2>3. StateOf(pc'[t], call[t], loc'[t]) = "called"
    BY <2>1, StateCases DEF Waiting
  <2> QED BY <1>1, <2>2, <2>3, GoesOn DEF Served
<1>3. CASE ~CanSync(trees[loc[t].tree], call[t].n - loc[t].free)
  <2>1. Seeks(t)
    BY <1>1, <1>3, SearchSeeks DEF SyncSteal
  <2> QED BY <1>1, <2>1, SeeksServed
<1> QED BY <1>2, <1>3

\* ll_local_put of frames that were synchronised, or freed.
LEMMA PutInSlotServes ==
    ASSUME CInv, CInv', DoingOK, NEW t \in Threads, Others(t), SyncPut(t) \/ PutSlot(t)
    PROVE  Served(t)
<1>1. /\ UNCHANGED <<room, held, offline, call>> /\ TypeInv
      /\ Doing(pc[t], call[t], loc[t], hand[t])
      /\ pc[t] \in {"sync_put", "put_slot"}
  BY DoingFields DEF SyncPut, PutSlot, PutInSlot, At
<1>2. pc'[t] # "abort"
  BY DEF CInv, CarriedOK, Carried
<1>3. \/ pc'[t] = "give_back" /\ loc'[t] = loc[t] /\ hand'[t] = hand[t]
      \/ pc[t] = "sync_put" /\ pc'[t] = "local"
           /\ loc'[t] = [NoLoc EXCEPT !.sync = FALSE, !.start = loc[t].start]
      \/ pc[t] = "put_slot" /\ pc'[t] = "ok"
  BY <1>1, <1>2 DEF SyncPut, PutSlot, PutInSlot, At, Goto, SetLoc, TypeInv, TypeOK
<1>4. CASE pc[t] = "sync_put"
  <2>1. /\ StateOf(pc[t], call[t], loc[t]) = "called"
        /\ call[t].op \in Gets /\ loc[t].from # "put" /\ call[t].op # "put"
        /\ call[t].op = "get_at" => loc[t].from # "search"
    BY <1>1, <1>4, DoingFields DEF Getting, Doing
  <2>2. pc'[t] = "local" => loc'[t].from = "local"
    BY <1>3 DEF NoLoc
  <2>3. Doing(pc'[t], call'[t], loc'[t], hand'[t])
    BY <1>1, <1>3, <1>4, <2>1, <2>2 DEF Doing, Gets, Getting
  <2>4. StateOf(pc'[t], call[t], loc'[t]) = "called"
    BY <1>3, <1>4, <2>1, StateCases DEF Waiting
  <2> QED BY <1>1, <2>1, <2>3, <2>4, GoesOn DEF Served
<1>5. CASE pc[t] = "put_slot"
  <2>1. call[t].op = "put" /\ loc[t].from = "put"
    BY <1>1, <1>5 DEF Doing
  <2>2. /\ StateOf(pc[t], call[t], loc[t]) = "served"
        /\ StateOf(pc'[t], call[t], loc'[t]) = "served"
    BY <1>3, <1>5, <2>1, StateCases
  <2>3. Doing(pc'[t], call'[t], loc'[t], hand'[t])
    BY <1>1, <1>3, <1>5, <2>1 DEF Doing, Gets, Getting
  <2> QED BY <1>1, <2>1, <2>2, <2>3, StaysServed DEF Served
<1> QED BY <1>1, <1>4, <1>5

\* A tree of which a call has frames in hand is not offline.
LEMMA InHandOnline ==
    ASSUME CInv, NEW t \in Threads, hand[t].free # 0
    PROVE  hand[t].tree \in Trees /\ hand[t].tree \notin offline
<1> DEFINE i == hand[t].tree
<1>1. i \in Trees /\ hand[t].free \in Nat /\ spare[t].free \in Nat
  BY ThreadCarries, Constants
<1>2. /\ Cardinality(Tokens(i)) \in Nat /\ trees[i].free \in Nat
      /\ Of(hand[t], i) + Of(spare[t], i) <= Cardinality(Tokens(i))
  BY <1>1, PartCounted DEF CInv, IInv, TypeInv, TypeOK, Entries
<1>3. Of(hand[t], i) = hand[t].free /\ Of(spare[t], i) \in Nat
  BY <1>1 DEF Of
<1>4. Count(i) # 0
  BY <1>1, <1>2, <1>3 DEF Count
<1> QED BY <1>1, <1>4 DEF CInv, CountOK

\* The lower allocator gives the frames, or refuses.
LEMMA LowerServes ==
    ASSUME CInv, CInv', DoingOK, NEW t \in Threads, Others(t), Lower(t)
    PROVE  Served(t)
<1> DEFINE i == hand[t].tree
<1>1. /\ pc[t] = "lower" /\ UNCHANGED <<loc, held, offline, call>>
      /\ pc[t] \in Getting /\ TypeInv
      /\ StateOf(pc[t], call[t], loc[t]) = "called"
      /\ call[t].op \in Gets /\ loc[t].from # "put" /\ call[t].op # "drain"
      /\ call[t].op = "get_at" => loc[t].from # "search" /\ i = call[t].tree
      /\ hand[t].free >= call[t].n /\ hand[t] \in Reservations
      /\ hand[t].present => loc[t].from = "search"
  BY DoingFields, ThreadFields DEF Lower, At, Getting, Doing, Phase, InHand, Gets
<1>2. CASE /\ room[i] >= call[t].n
           /\ room' = [room EXCEPT ![i] = @ - call[t].n]
           /\ Hold(t, [hand[t] EXCEPT !.free = @ - call[t].n])
           /\ Goto(t, IF hand[t].present THEN "swap" ELSE "ok")
  <2>1. /\ pc'[t] = IF hand[t].present THEN "swap" ELSE "ok"
        /\ hand'[t] = [hand[t] EXCEPT !.free = @ - call[t].n]
    BY <1>1, <1>2 DEF Goto, Hold, TypeInv, TypeOK
  <2>2. hand'[t].tree = i
    BY <1>1, <2>1 DEF Reservations
  <2>3. StateOf(pc'[t], call[t], loc'[t]) = "served"
    BY <1>1, <2>1, StateCases
  <2>4. i \in Trees /\ i \notin offline
    <3>1. call[t].n \in Nat \ {0}
      BY <1>1, CallFields DEF Gets, Allocs
    <3>2. hand[t].free # 0
      BY <1>1, <3>1, Constants DEF Reservations
    <3> QED BY <3>2, InHandOnline
  <2>5. [P!Next]_P!vars
    BY <1>1, <1>2, <2>2, <2>3, <2>4, TakesEffect
  <2>6. Doing(pc'[t], call'[t], loc'[t], hand'[t])
    BY <1>1, <2>1 DEF Doing, Gets, Getting
  <2> QED BY <2>5, <2>6 DEF Served
<1>3. CASE Goto(t, "give_back") /\ UNCHANGED <<room, hand>>
  <2>1. pc'[t] = "give_back"
    BY <1>1, <1>3 DEF Goto, TypeInv, TypeOK
  <2>2. StateOf(pc'[t], call[t], loc'[t]) = "called"
    BY <1>1, <2>1, StateCases DEF Gets
  <2>3. Doing(pc'[t], call'[t], loc'[t], hand'[t])
    BY <1>1, <1>3, <2>1 DEF Doing, Gets, Getting
  <2> QED BY <1>1, <1>3, <2>2, <2>3, GoesOn DEF Served
<1> QED BY <1>2, <1>3 DEF Lower

\* The frames go back to the tree's counter: for a get that was refused, or for a put.
LEMMA GiveBackServes ==
    ASSUME CInv, CInv', DoingOK, NEW t \in Threads, Others(t), GiveBack(t)
    PROVE  Served(t)
<1>1. /\ pc[t] = "give_back" /\ UNCHANGED <<room, held, offline, call>> /\ TypeInv
      /\ Doing(pc[t], call[t], loc[t], hand[t])
  BY DoingFields DEF GiveBack, At
<1>2. AfterFailure(t)
  <2>1. pc'[t] # "abort"
    BY DEF CInv, CarriedOK, Carried
  <2> QED BY <1>1, <2>1 DEF GiveBack, Goto, TypeInv, TypeOK
<1>3. CASE call[t].op = "put"
  <2>1. loc[t].from = "put"
    BY <1>1, <1>3 DEF Doing, Gets
  <2>2. pc'[t] = "ok"
    BY <1>1, <1>2, <2>1 DEF AfterFailure, Goto, TypeInv, TypeOK
  <2>3. /\ StateOf(pc[t], call[t], loc[t]) = "served"
        /\ StateOf(pc'[t], call[t], loc'[t]) = "served"
    BY <1>1, <1>3, <2>2, StateCases
  <2>4. Doing(pc'[t], call'[t], loc'[t], hand'[t])
    BY <1>1, <1>3, <2>2 DEF Doing, Getting
  <2> QED BY <1>1, <1>3, <2>3, <2>4, StaysServed DEF Served
<1>4. CASE call[t].op # "put"
  <2>1. /\ call[t].op \in Gets /\ loc[t].from # "put"
        /\ call[t].op = "get_at" => loc[t].from # "search"
    BY <1>1, <1>4 DEF Doing
  <2>2. StateOf(pc[t], call[t], loc[t]) = "called"
    BY <1>1, <1>4, StateCases
  <2>3. Seeks(t)
    BY <1>1, <1>2, <2>1, FailureSeeks
  <2> QED BY <1>1, <2>2, <2>3, SeeksServed
<1> QED BY <1>3, <1>4

\* trees_search_best.
LEMMA SearchServes ==
    ASSUME CInv, CInv', DoingOK, NEW t \in Threads, Others(t), Scan(t) \/ Pick(t)
    PROVE  Served(t)
<1>1. /\ pc[t] = "scan" /\ UNCHANGED <<room, held, offline, call>>
      /\ pc[t] \in Getting /\ TypeInv /\ loc[t] \in LocType
      /\ StateOf(pc[t], call[t], loc[t]) = "called"
      /\ loc[t].from # "put" /\ call[t].op = "get" /\ call[t].op \in Gets
  BY DoingFields, LocFields DEF Scan, Pick, At, Getting, Doing, Gets, counters
<1>2. CASE Scan(t)
  <2> DEFINE i    == Position(loc[t].start, loc[t].i)
             rate == Rate(t, trees[i])
             l    == [loc[t] EXCEPT !.i = @ + 1]
             m    == [l EXCEPT !.best = Insert(@, rate.priority, i)]
  <2>1. l \in LocType /\ l.from = loc[t].from /\ m.from = l.from
    <3>1. l \in LocType
      BY <1>1, LocUpdate
    <3>2. l.from = loc[t].from
      BY <1>1, FromStays
    <3>3. m.from = l.from
      <4> HIDE DEF l, i, rate
      <4> QED BY <3>1 DEF LocType
    <3> QED BY <3>1, <3>2, <3>3
  <2>2. \/ UNCHANGED pc /\ (SetLoc(t, l) \/ SetLoc(t, m))
        \/ Try(t, l, i)
    BY <1>2 DEF Scan
  <2> HIDE DEF l, m, i, rate
  <2>3. CASE UNCHANGED pc /\ (SetLoc(t, l) \/ SetLoc(t, m))
    <3>1. loc'[t].from = loc[t].from /\ pc'[t] = "scan"
      BY <1>1, <2>1, <2>3 DEF SetLoc, TypeInv, TypeOK
    <3>2. Seeks(t)
      BY <1>1, <3>1 DEF Seeks, Seeking, Doing, Gets, Getting
    <3> QED BY <1>1, <3>2, SeeksServed
  <2>4. CASE Try(t, l, i)
    <3>1. Seeks(t)
      BY <1>1, <2>1, <2>4, TrySeeks
    <3> QED BY <1>1, <3>1, SeeksServed
  <2> QED BY <2>2, <2>3, <2>4
<1>3. CASE Pick(t)
  <2>1. CASE loc[t].best # <<>>
    <3> DEFINE l == [loc[t] EXCEPT !.best = Tail(@)]
               i == Head(loc[t].best).tree
    <3>1. l \in LocType
      <4>1. Tail(loc[t].best) \in Candidates
        BY <1>1, <2>1, LocFields, HeadTailProperties DEF Candidates
      <4> QED BY <1>1, <4>1, LocUpdate
    <3>2. Try(t, l, i)
      BY <1>3, <2>1 DEF Pick
    <3> HIDE DEF l, i
    <3>3. Seeks(t)
      BY <1>1, <3>1, <3>2, TrySeeks
    <3> QED BY <1>1, <3>3, SeeksServed
  <2>2. CASE loc[t].best = <<>>
    <3>1. Seeks(t)
      BY <1>1, <1>3, <2>2, SearchSeeks DEF Pick
    <3> QED BY <1>1, <3>1, SeeksServed
  <2> QED BY <2>1, <2>2
<1> QED BY <1>2, <1>3

\* trees_reserve_or_steal.
LEMMA ReserveServes ==
    ASSUME CInv, CInv', DoingOK, NEW t \in Threads, Others(t), Reserve(t)
    PROVE  Served(t)
<1>1. /\ pc[t] = "reserve" /\ UNCHANGED <<room, loc, held, offline, call>>
      /\ pc[t] \in Getting /\ TypeInv
      /\ StateOf(pc[t], call[t], loc[t]) = "called"
      /\ call[t].op \in Gets /\ loc[t].from # "put"
      /\ call[t].op = "get_at" => loc[t].from # "search"
      /\ loc[t].from = "search"
  BY DoingFields DEF Reserve, At, Getting, Doing, Phase, Origin
<1>2. call[t].op = "get" /\ call[t].op # "put"
  BY <1>1 DEF Gets
<1>3. pc'[t] \in {"lower", "give_back", "scan"}
  BY <1>1 DEF Reserve, Goto, TypeInv, TypeOK
<1>4. StateOf(pc'[t], call[t], loc'[t]) = "called"
  BY <1>2, <1>3, StateCases DEF Waiting
<1>5. Doing(pc'[t], call'[t], loc'[t], hand'[t])
  BY <1>1, <1>2, <1>3 DEF Doing, Gets, Getting
<1> QED BY <1>1, <1>4, <1>5, GoesOn DEF Served

\* trees_steal.
LEMMA StealServes ==
    ASSUME CInv, CInv', DoingOK, NEW t \in Threads, Others(t), StealLoad(t) \/ StealCas(t)
    PROVE  Served(t)
<1>1. /\ pc[t] \in {"load", "steal_cas"} /\ UNCHANGED <<room, held, offline, call>>
      /\ pc[t] \in Getting /\ TypeInv /\ loc[t] \in LocType
      /\ StateOf(pc[t], call[t], loc[t]) = "called"
      /\ call[t].op \in Gets /\ loc[t].from # "put"
      /\ call[t].op = "get_at" => loc[t].from # "search" /\ loc[t].tree = call[t].tree
  BY DoingFields, LocFields DEF StealLoad, StealCas, At, Getting, Doing, counters
<1>2. CASE \E e : StealFrom(t, e)
  <2>1. Seeks(t)
    BY <1>1, <1>2, StealSeeks
  <2> QED BY <1>1, <2>1, SeeksServed
<1>3. CASE StealCas(t) /\ StillSeen(t)
  <2>1. /\ pc'[t] = "lower" /\ hand'[t] = Reservation(FALSE, loc[t].tree, call[t].n)
        /\ loc'[t] = [loc[t] EXCEPT !.seen = NoLoc.seen]
    BY <1>1, <1>3 DEF StealCas, Goto, SetLoc, Hold, TypeInv, TypeOK
  <2>2. hand'[t].tree = loc[t].tree /\ loc'[t].from = loc[t].from
    BY <1>1, <2>1, FromStays DEF Reservation
  <2>3. StateOf(pc'[t], call[t], loc'[t]) = "called"
    BY <2>1, StateCases DEF Waiting
  <2>4. Doing(pc'[t], call'[t], loc'[t], hand'[t])
    BY <1>1, <2>1, <2>2 DEF Doing, Gets, Getting
  <2> QED BY <1>1, <2>3, <2>4, GoesOn DEF Served
<1>4. StealLoad(t) \/ (StealCas(t) /\ ~StillSeen(t)) => \E e : StealFrom(t, e)
  BY DEF StealLoad, StealCas
<1> QED BY <1>2, <1>3, <1>4

\* swap_reserved.
LEMMA SwapServes ==
    ASSUME CInv, CInv', DoingOK, NEW t \in Threads, Others(t), Swap(t)
    PROVE  Served(t)
<1>1. /\ pc[t] = "swap" /\ UNCHANGED <<room, loc, held, offline, call>>
      /\ pc[t] \in Getting /\ TypeInv
      /\ StateOf(pc[t], call[t], loc[t]) = "served"
      /\ call[t].op \in Gets /\ loc[t].from = "search"
      /\ call[t].op = "get_at" => loc[t].from # "search"
  BY DoingFields DEF Swap, At, Getting, Doing, Phase, Origin
<1>2. call[t].op = "get" /\ call[t].op # "drain"
  BY <1>1 DEF Gets
<1>3. pc'[t] \in {"unreserve", "ok"} /\ hand'[t] = Reservation(FALSE, hand[t].tree, 0)
  BY <1>1 DEF Swap, Goto, Hold, TypeInv, TypeOK
<1>4. StateOf(pc'[t], call[t], loc'[t]) = "served"
  BY <1>1, <1>2, <1>3, StateCases
<1>5. Doing(pc'[t], call'[t], loc'[t], hand'[t])
  BY <1>1, <1>2, <1>3 DEF Doing, Gets, Getting
<1>6. hand'[t].tree = hand[t].tree
  BY <1>3 DEF Reservation
<1> QED BY <1>1, <1>4, <1>5, <1>6, StaysServed DEF Served

\* A replaced reservation is released: before the call takes effect, after it, or by
\* a drain.
LEMMA UnreserveServes ==
    ASSUME CInv, CInv', DoingOK, NEW t \in Threads, Others(t), Unreserve(t)
    PROVE  Served(t)
<1>1. /\ pc[t] = "unreserve" /\ UNCHANGED <<room, loc, hand, held, offline, call>>
      /\ TypeInv /\ Doing(pc[t], call[t], loc[t], hand[t])
  BY DoingFields DEF Unreserve, At
<1>2. pc'[t] = AfterUnreserve(t)
  <2>1. pc'[t] # "abort"
    BY DEF CInv, CarriedOK, Carried
  <2> QED BY <1>1, <2>1 DEF Unreserve, Goto, TypeInv, TypeOK
<1>3. CASE call[t].op = "drain"
  <2>1. pc'[t] = "drain"
    BY <1>2, <1>3 DEF AfterUnreserve
  <2>2. /\ StateOf(pc[t], call[t], loc[t]) = "called"
        /\ StateOf(pc'[t], call[t], loc'[t]) = "called"
    BY <1>1, <1>3, <2>1, StateCases DEF Waiting
  <2>3. Doing(pc'[t], call'[t], loc'[t], hand'[t])
    BY <1>1, <1>3, <2>1 DEF Doing, Getting
  <2> QED BY <1>1, <2>2, <2>3, GoesOn DEF Served
<1>4. CASE call[t].op # "drain" /\ loc[t].from = "demote"
  <2>1. pc'[t] = "lower" /\ call[t].op \in Gets
    BY <1>1, <1>2, <1>4 DEF AfterUnreserve, Doing
  <2>2. /\ StateOf(pc[t], call[t], loc[t]) = "called"
        /\ StateOf(pc'[t], call[t], loc'[t]) = "called"
    BY <1>1, <1>4, <2>1, StateCases DEF Waiting
  <2>3. Doing(pc'[t], call'[t], loc'[t], hand'[t])
    BY <1>1, <1>4, <2>1 DEF Doing, Getting
  <2> QED BY <1>1, <2>2, <2>3, GoesOn DEF Served
<1>5. CASE call[t].op # "drain" /\ loc[t].from # "demote"
  <2>1. pc'[t] = "ok" /\ call[t].op \in Gets /\ loc[t].from = "search"
    BY <1>1, <1>2, <1>5 DEF AfterUnreserve, Doing
  <2>2. /\ StateOf(pc[t], call[t], loc[t]) = "served"
        /\ StateOf(pc'[t], call[t], loc'[t]) = "served"
    BY <1>1, <1>5, <2>1, StateCases
  <2>3. Doing(pc'[t], call'[t], loc'[t], hand'[t])
    BY <1>1, <1>5, <2>1 DEF Doing, Getting
  <2> QED BY <1>1, <2>2, <2>3, StaysServed DEF Served
<1> QED BY <1>3, <1>4, <1>5

\* ll_local_drain.
LEMMA DrainSlotServes ==
    ASSUME CInv, CInv', DoingOK, NEW t \in Threads, Others(t), DrainSlot(t)
    PROVE  Served(t)
<1>1. /\ pc[t] = "drain" /\ UNCHANGED <<room, held, offline, call>> /\ TypeInv
      /\ call[t].op = "drain"
  BY DoingFields DEF DrainSlot, At, Phase, OpAt
<1>2. pc'[t] \in {"drain", "ok", "unreserve"}
  BY <1>1 DEF DrainSlot, Goto, TypeInv, TypeOK
<1>3. /\ StateOf(pc[t], call[t], loc[t]) = "called"
      /\ StateOf(pc'[t], call[t], loc'[t]) = "called"
  BY <1>1, <1>2, StateCases DEF Waiting
<1>4. Doing(pc'[t], call'[t], loc'[t], hand'[t])
  BY <1>1, <1>2 DEF Doing, Getting
<1> QED BY <1>1, <1>3, <1>4, GoesOn DEF Served

\* lower_put.
LEMMA LowerPutServes ==
    ASSUME CInv, CInv', DoingOK, NEW t \in Threads, Others(t), LowerPut(t)
    PROVE  Served(t)
<1> DEFINE i == call[t].tree
<1>1. /\ pc[t] = "put" /\ UNCHANGED <<loc, held, offline, call>> /\ TypeInv
      /\ StateOf(pc[t], call[t], loc[t]) = "called"
      /\ call[t].op = "put" /\ loc[t].from = "put" /\ i \in Trees
  <2>1. pc[t] = "put" /\ UNCHANGED <<loc, held, offline, call>>
    BY DEF LowerPut, At
  <2>2. call[t].op = "put" /\ loc[t].from = "put" /\ TypeInv
    BY <2>1, DoingFields DEF Doing
  <2> QED BY <2>1, <2>2, StateCases, CallFields DEF Waiting, Allocs
<1>2. CASE /\ room[i] + call[t].n <= FramesOf(i)
           /\ room' = [room EXCEPT ![i] = @ + call[t].n]
           /\ Goto(t, IF call[t].local # NoLocal THEN "put_slot" ELSE "give_back")
  <2>1. pc'[t] \in {"put_slot", "give_back"}
    BY <1>1, <1>2 DEF Goto, TypeInv, TypeOK
  <2>2. StateOf(pc'[t], call[t], loc'[t]) = "served"
    BY <1>1, <2>1, StateCases
  <2>3. [P!Next]_P!vars
    BY <1>1, <1>2, <2>2, TakesEffect
  <2>4. Doing(pc'[t], call'[t], loc'[t], hand'[t])
    BY <1>1, <2>1 DEF Doing, Getting
  <2> QED BY <2>3, <2>4 DEF Served
<1>3. CASE Goto(t, "memory") /\ UNCHANGED <<room, hand>>
  <2>1. pc'[t] = "memory"
    BY <1>1, <1>3 DEF Goto, TypeInv, TypeOK
  <2>2. StateOf(pc'[t], call[t], loc'[t]) = "called"
    BY <2>1, StateCases DEF Waiting
  <2>3. Doing(pc'[t], call'[t], loc'[t], hand'[t])
    BY <1>1, <2>1 DEF Doing, Getting
  <2> QED BY <1>1, <1>3, <2>2, <2>3, GoesOn DEF Served
<1> QED BY <1>2, <1>3 DEF LowerPut

\* The search of the other slots goes past one that does not fit.
LEMMA SkipServes ==
    ASSUME CInv, DoingOK, NEW t \in Threads, Others(t), NEW s, SkipSlot(t, s),
           UNCHANGED <<room, held, offline, call>>, pc[t] \in {"steal", "demote"}
    PROVE  Served(t)
<1>1. /\ pc[t] \in Getting /\ TypeInv /\ loc[t] \in LocType
      /\ StateOf(pc[t], call[t], loc[t]) = "called"
      /\ call[t].op \in Gets /\ loc[t].from # "put"
      /\ call[t].op = "get_at" => loc[t].from # "search"
  BY DoingFields, LocFields DEF Getting, Doing
<1>2. /\ pc'[t] = pc[t] /\ hand'[t] = hand[t]
      /\ loc'[t] = [loc[t] EXCEPT !.left = @ \ {s}]
  BY <1>1 DEF SkipSlot, SetLoc, TypeInv, TypeOK
<1>3. loc'[t].from = loc[t].from
  BY <1>1, <1>2, FromStays
<1>4. Seeks(t)
  BY <1>1, <1>2, <1>3 DEF Seeks, Seeking, Doing, Gets, Getting
<1> QED BY <1>1, <1>4, SeeksServed

\* ll_local_steal.
LEMMA StealSlotServes ==
    ASSUME CInv, CInv', DoingOK, NEW t \in Threads, Others(t), StealSlot(t)
    PROVE  Served(t)
<1>1. /\ pc[t] = "steal" /\ UNCHANGED <<room, held, offline, call>>
      /\ pc[t] \in Getting /\ TypeInv /\ loc[t] \in LocType
      /\ StateOf(pc[t], call[t], loc[t]) = "called"
      /\ call[t].op \in Gets /\ loc[t].from # "put"
      /\ call[t].op = "get_at" => loc[t].from # "search"
  BY DoingFields, LocFields DEF StealSlot, At, Getting, Doing
<1>2. CASE DemoteLocal(t)
  <2>1. Seeks(t)
    BY <1>1, <1>2, SearchSeeks
  <2> QED BY <1>1, <2>1, SeeksServed
<1>3. CASE \E s \in loc[t].left : SkipSlot(t, s)
  BY <1>1, <1>3, SkipServes
<1>4. CASE \E s \in loc[t].left :
             /\ Fits(t, slots[s])
             /\ Hold(t, Reservation(FALSE, slots[s].tree, call[t].n))
             /\ Goto(t, "lower") /\ SetLoc(t, [loc[t] EXCEPT !.left = {}])
  <2>1. PICK s \in loc[t].left :
          /\ Fits(t, slots[s])
          /\ Hold(t, Reservation(FALSE, slots[s].tree, call[t].n))
          /\ Goto(t, "lower") /\ SetLoc(t, [loc[t] EXCEPT !.left = {}])
    BY <1>4
  <2>2. /\ pc'[t] = "lower" /\ hand'[t] = Reservation(FALSE, slots[s].tree, call[t].n)
        /\ loc'[t] = [loc[t] EXCEPT !.left = {}]
    BY <1>1, <2>1 DEF Hold, Goto, SetLoc, TypeInv, TypeOK
  <2>3. /\ hand'[t].tree = slots[s].tree /\ loc'[t].from = loc[t].from
        /\ call[t].op = "get_at" => slots[s].tree = call[t].tree
    BY <1>1, <2>1, <2>2, FromStays DEF Fits, Reservation
  <2>4. StateOf(pc'[t], call[t], loc'[t]) = "called"
    BY <2>2, StateCases DEF Waiting
  <2>5. Doing(pc'[t], call'[t], loc'[t], hand'[t])
    BY <1>1, <2>2, <2>3 DEF Doing, Gets, Getting
  <2> QED BY <1>1, <2>4, <2>5, GoesOn DEF Served
<1> QED BY <1>2, <1>3, <1>4 DEF StealSlot

\* ll_local_demote_any: a slot that fits is taken over.
LEMMA TakeSlotServes ==
    ASSUME CInv, CInv', DoingOK, NEW t \in Threads, Others(t), TakeSlot(t)
    PROVE  Served(t)
<1>1. /\ pc[t] = "demote" /\ UNCHANGED <<room, held, offline, call>>
      /\ pc[t] \in Getting /\ TypeInv /\ loc[t] \in LocType
      /\ StateOf(pc[t], call[t], loc[t]) = "called"
      /\ call[t].op \in Gets /\ loc[t].from = "demote"
  BY DoingFields, LocFields DEF TakeSlot, At, Getting, Doing, Phase, Origin
<1>2. CASE Goto(t, "memory")
  <2>1. pc'[t] = "memory"
    BY <1>1, <1>2 DEF Goto, TypeInv, TypeOK
  <2>2. StateOf(pc'[t], call[t], loc'[t]) = "called"
    BY <2>1, StateCases DEF Waiting
  <2>3. Doing(pc'[t], call'[t], loc'[t], hand'[t])
    BY <2>1 DEF Doing, Getting
  <2> QED BY <1>1, <2>2, <2>3, GoesOn DEF Served
<1>3. CASE \E s \in loc[t].left : SkipSlot(t, s)
  BY <1>1, <1>3, SkipServes
<1>4. CASE \E s \in loc[t].left :
             /\ Fits(t, slots[s])
             /\ SetLoc(t, [loc[t] EXCEPT !.left = {}])
             /\ TakeTree(t, slots[s])
  <2>1. PICK s \in loc[t].left :
          /\ Fits(t, slots[s])
          /\ SetLoc(t, [loc[t] EXCEPT !.left = {}])
          /\ TakeTree(t, slots[s])
    BY <1>4
  <2>2. /\ pc'[t] \in {"demote_swap", "unreserve"}
        /\ hand'[t] = slots[s] \/ hand'[t] = Reservation(FALSE, slots[s].tree, call[t].n)
        /\ loc'[t] = [loc[t] EXCEPT !.left = {}]
    BY <1>1, <2>1 DEF TakeTree, Hold, Goto, SetLoc, TypeInv, TypeOK
  <2>3. /\ hand'[t].tree = slots[s].tree /\ loc'[t].from = "demote"
        /\ call[t].op = "get_at" => slots[s].tree = call[t].tree
    BY <1>1, <2>1, <2>2, FromStays DEF Fits, Reservation
  <2>4. StateOf(pc'[t], call[t], loc'[t]) = "called"
    <3>1. loc'[t].from # "search"
      BY <2>3
    <3>2. CASE pc'[t] = "demote_swap"
      BY <3>2, StateCases DEF Waiting
    <3>3. CASE pc'[t] = "unreserve"
      BY <3>1, <3>3, StateCases
    <3> QED BY <2>2, <3>2, <3>3
  <2>5. Doing(pc'[t], call'[t], loc'[t], hand'[t])
    BY <1>1, <2>2, <2>3 DEF Doing, Gets, Getting
  <2> QED BY <1>1, <2>4, <2>5, GoesOn DEF Served
<1> QED BY <1>2, <1>3, <1>4 DEF TakeSlot

\* ll_local_demote_any: the requesting slot gets the tree.
LEMMA DemoteSwapServes ==
    ASSUME CInv, CInv', DoingOK, NEW t \in Threads, Others(t), DemoteSwap(t)
    PROVE  Served(t)
<1>1. /\ pc[t] = "demote_swap" /\ UNCHANGED <<room, loc, held, offline, call>>
      /\ pc[t] \in Getting /\ TypeInv
      /\ StateOf(pc[t], call[t], loc[t]) = "called"
      /\ call[t].op \in Gets /\ loc[t].from = "demote"
      /\ call[t].op = "get_at" => hand[t].tree = call[t].tree
  BY DoingFields DEF DemoteSwap, At, Getting, Doing, Carried
<1>2. pc'[t] \in {"unreserve", "lower"} /\ hand'[t] = Reservation(FALSE, hand[t].tree, call[t].n)
  BY <1>1 DEF DemoteSwap, Goto, Hold, TypeInv, TypeOK
<1>3. hand'[t].tree = hand[t].tree
  BY <1>2 DEF Reservation
<1>4. StateOf(pc'[t], call[t], loc'[t]) = "called"
  BY <1>1, <1>2, StateCases DEF Waiting
<1>5. Doing(pc'[t], call'[t], loc'[t], hand'[t])
  BY <1>1, <1>2, <1>3 DEF Doing, Gets, Getting
<1> QED BY <1>1, <1>4, <1>5, GoesOn DEF Served

-----------------------------------------------------------------------------
(* Changes, and the first and the last step of a call. *)

\* trees_change_at, up to its compare-and-swap.
LEMMA ChangeReadServes ==
    ASSUME CInv, CInv', DoingOK, NEW t \in Threads, Others(t), ChangeLoad(t) \/ ChangeFetch(t)
    PROVE  Served(t)
<1>1. /\ pc[t] \in {"change", "fetch"} /\ UNCHANGED <<room, held, offline, call>> /\ TypeInv
      /\ call[t].op = "change"
  BY DoingFields DEF ChangeLoad, ChangeFetch, At, Phase, OpAt, counters
<1>2. pc'[t] \in {"fetch", "change_cas"}
  BY <1>1 DEF ChangeLoad, ChangeFetch, Goto, TypeInv, TypeOK
<1>3. /\ StateOf(pc[t], call[t], loc[t]) = "called"
      /\ StateOf(pc'[t], call[t], loc'[t]) = "called"
  BY <1>1, <1>2, StateCases DEF Waiting
<1>4. Doing(pc'[t], call'[t], loc'[t], hand'[t])
  BY <1>1, <1>2 DEF Doing, Getting
<1> QED BY <1>1, <1>3, <1>4, GoesOn DEF Served

\* trees_change_at: only a tree that is entirely free goes offline.
LEMMA ChangeCasServes ==
    ASSUME CInv, CInv', DoingOK, NEW t \in Threads, Others(t), ChangeCas(t)
    PROVE  Served(t)
<1> DEFINE i  == loc[t].tree
           op == call[t].change.operation
<1>1. /\ pc[t] = "change_cas" /\ UNCHANGED <<room, call, hand, held>> /\ TypeInv
      /\ call[t].op = "change" /\ i \in Trees
      /\ StateOf(pc[t], call[t], loc[t]) = "called"
  BY DoingFields, LocFields, StateCases DEF ChangeCas, At, Phase, OpAt, Waiting
<1>2. CASE UNCHANGED offline /\ ~Goto(t, "ok")
  <2>1. pc'[t] \in {"change", "memory", "fetch", "change_cas"}
    BY <1>1, <1>2 DEF ChangeCas, ChangeNext, Goto, TypeInv, TypeOK
  <2>2. StateOf(pc'[t], call[t], loc'[t]) = "called"
    BY <2>1, StateCases DEF Waiting
  <2>3. Doing(pc'[t], call'[t], loc'[t], hand'[t])
    BY <1>1, <2>1 DEF Doing, Getting
  <2> QED BY <1>1, <1>2, <2>2, <2>3, GoesOn DEF Served
<1>3. CASE /\ Goto(t, "ok")
           /\ offline' = CASE op = "offline" -> offline \cup {i}
                           [] op = "online"  -> offline \ {i}
                           [] OTHER -> offline
  <2>1. pc'[t] = "ok"
    BY <1>1, <1>3 DEF Goto, TypeInv, TypeOK
  <2>2. StateOf(pc'[t], call[t], loc'[t]) = "served"
    BY <1>1, <2>1, StateCases
  <2>3. Doing(pc'[t], call'[t], loc'[t], hand'[t])
    BY <1>1, <2>1 DEF Doing, Getting
  <2>4. State(t) = "called" /\ State(t)' = "served" /\ From(t) = 0 /\ From(t)' = 0
    BY <1>1, <2>2, Seen DEF FromOf
  <2>5. [u \in Threads |-> State(u)]' = [[u \in Threads |-> State(u)] EXCEPT ![t] = "served"]
    BY <2>4, OthersSeen
  <2>6. [u \in Threads |-> From(u)]' = [u \in Threads |-> From(u)]
    BY <2>4, OthersSeen
  <2>7. \/ room[i] = FramesOf(i) /\ offline' = offline \cup {i}
        \/ i \in offline /\ offline' = offline \ {i}
        \/ UNCHANGED offline
    <3>1. CASE op = "offline"
      <4>1. i \in offline'
        BY <1>3, <3>1
      <4>2. room'[i] = FramesOf(i)
        BY <1>1, <4>1 DEF CInv, CountOK, Trees, TreeCount, FramesOf
      <4> QED BY <1>1, <1>3, <3>1, <4>2
    <3>2. CASE op # "offline"
      BY <1>3, <3>2
    <3> QED BY <3>1, <3>2
  <2>8. P!Change(t)
    BY <1>1, <2>4, <2>5, <2>6, <2>7 DEF P!Change, P!Trees
  <2> QED BY <2>3, <2>8 DEF Served, P!Next
<1>4. \/ UNCHANGED offline /\ ~Goto(t, "ok")
      \/ /\ Goto(t, "ok")
         /\ offline' = CASE op = "offline" -> offline \cup {i}
                         [] op = "online"  -> offline \ {i}
                         [] OTHER -> offline
  <2>1. \A p \in {"change", "memory", "fetch", "change_cas"} : Goto(t, p) => ~Goto(t, "ok")
    BY <1>1 DEF Goto, TypeInv, TypeOK
  <2> QED BY <1>1, <2>1 DEF ChangeCas, ChangeNext
<1> QED BY <1>2, <1>3, <1>4

\* A call returns, and the client gets what it is owed.
LEMMA ReturnServes ==
    ASSUME CInv, CInv', DoingOK, NEW t \in Threads, Others(t), Return(t)
    PROVE  Served(t)
<1>1. /\ pc[t] \in Done /\ UNCHANGED <<room, offline>> /\ TypeInv
      /\ pc'[t] = "idle" /\ call' = [call EXCEPT ![t] = NoCall]
      /\ held' = [i \in Trees |-> held[i] + Given(t, i)]
  BY DoingFields DEF Return, At, Goto, Done, counters, TypeInv, TypeOK
<1>2. Doing(pc'[t], call'[t], loc'[t], hand'[t])
  <2>1. call'[t].op = "drain"
    BY <1>1 DEF NoCall, TypeInv, TypeOK
  <2> QED BY <1>1, <2>1 DEF Doing, Getting
<1>3. State(t) # "idle" /\ State(t)' = "idle" /\ From(t)' = 0
  <2>1. StateOf(pc[t], call[t], loc[t]) # "idle"
    BY <1>1, StateCases DEF Done, Waiting
  <2> QED BY <1>1, <2>1, Seen, StateCases DEF FromOf
<1>4. \A i \in Trees : P!Given(t, i) = Given(t, i)
  <2> TAKE i \in Trees
  <2>1. CASE pc[t] = "ok"
    <3>1. State(t) = IF call[t].op = "drain" THEN "called" ELSE "served"
      BY <2>1, Seen, StateCases
    <3>2. call[t].op \in Gets => From(t) = hand[t].tree
      BY <2>1, <3>1, Seen DEF FromOf, Gets
    <3> QED BY <2>1, <3>1, <3>2 DEF P!Given, P!IsGet, Given, Gets
  <2>2. CASE pc[t] = "memory"
    <3>1. State(t) = "called"
      BY <2>2, Seen, StateCases DEF Waiting
    <3> QED BY <2>2, <3>1 DEF P!Given, P!IsGet, Given
  <2>3. CASE pc[t] = "argument"
    <3>1. State(t) = IF call[t].op = "put" THEN "rejected" ELSE "called"
      BY <2>3, Seen, StateCases
    <3> QED BY <2>3, <3>1 DEF P!Given, P!IsGet, Given
  <2> QED BY <1>1, <2>1, <2>2, <2>3 DEF Done
<1>5. P!Return(t)
  <2>1. [u \in Threads |-> State(u)]' = [[u \in Threads |-> State(u)] EXCEPT ![t] = "idle"]
    BY <1>3, OthersSeen
  <2>2. [u \in Threads |-> From(u)]' = [[u \in Threads |-> From(u)] EXCEPT ![t] = 0]
    BY <1>3, OthersSeen
  <2>3. held' = [i \in P!Trees |-> held[i] + P!Given(t, i)]
    BY <1>1, <1>4 DEF P!Trees
  <2> QED BY <1>1, <1>3, <2>1, <2>2, <2>3 DEF P!Return
<1> QED BY <1>2, <1>5 DEF Served, P!Next

\* The pool sees the start of a call.
LEMMA BeginServes ==
    ASSUME TypeInv, NEW t \in Threads, Others(t), NEW r \in Calls,
           pc[t] = "idle", call' = [call EXCEPT ![t] = r], UNCHANGED <<room, offline>>,
           \/ /\ StateOf(pc'[t], r, loc'[t]) = "called"
              /\ \/ r.op # "put" /\ held' = held
                 \/ r.op = "put" /\ held[r.tree] >= r.n
                      /\ held' = [held EXCEPT ![r.tree] = @ - r.n]
           \/ StateOf(pc'[t], r, loc'[t]) = "rejected" /\ r.op = "put" /\ held' = held
    PROVE  [P!Next]_P!vars
<1>1. call'[t] = r
  BY DEF TypeInv, TypeOK
<1>2. State(t) = "idle" /\ From(t) = 0
  BY Seen, StateCases DEF FromOf
<1>3. State(t)' = StateOf(pc'[t], r, loc'[t]) /\ From(t)' = 0
  BY <1>1, Seen DEF FromOf
<1>4. [u \in Threads |-> From(u)]' = [u \in Threads |-> From(u)]
  BY <1>2, <1>3, OthersSeen
<1>5. CASE StateOf(pc'[t], r, loc'[t]) = "called"
  <2>1. [u \in Threads |-> State(u)]' = [[u \in Threads |-> State(u)] EXCEPT ![t] = "called"]
    BY <1>3, <1>5, OthersSeen
  <2>2. P!Begin(t, r)
    BY <1>2, <1>4, <1>5, <2>1 DEF P!Begin
  <2> QED BY <2>2 DEF P!Next
<1>6. CASE StateOf(pc'[t], r, loc'[t]) = "rejected"
  <2>1. [u \in Threads |-> State(u)]' = [[u \in Threads |-> State(u)] EXCEPT ![t] = "rejected"]
    BY <1>3, <1>6, OthersSeen
  <2>2. P!Reject(t, r)
    BY <1>2, <1>4, <1>6, <2>1 DEF P!Reject
  <2> QED BY <2>2 DEF P!Next
<1> QED BY <1>5, <1>6

LEMMA StartServes ==
    ASSUME CInv, CInv', DoingOK, NEW t \in Threads, Others(t), Start(t)
    PROVE  Served(t)
<1>1. PICK r \in Calls : Get(t, r) \/ GetAt(t, r) \/ Put(t, r) \/ Drain(t, r) \/ Change(t, r)
  BY DEF Start
<1>2. /\ pc[t] = "idle" /\ call' = [call EXCEPT ![t] = r] /\ UNCHANGED <<room, offline>>
      /\ TypeInv /\ call'[t] = r
  BY <1>1, DoingFields
     DEF Get, GetAt, Put, Drain, Change, Begin, At, counters, TypeInv, TypeOK
<1>3. CASE Get(t, r) \/ GetAt(t, r)
  <2>1. r.op \in Gets /\ r.op # "put" /\ held' = held
    BY <1>3 DEF Get, GetAt, Gets
  <2>2. \/ pc'[t] = "argument"
        \/ pc'[t] = "local" /\ loc'[t].from = "local"
        \/ pc'[t] = "scan" /\ loc'[t].from = "local" /\ r.op = "get"
        \/ pc'[t] = "load" /\ loc'[t].from = "tree" /\ loc'[t].tree = r.tree
    <3>0. /\ \A p : Goto(t, p) => pc'[t] = p
          /\ \A l : SetLoc(t, l) => loc'[t] = l
      BY <1>2 DEF Goto, SetLoc, TypeInv, TypeOK
    <3>1. /\ \A start : UseLocal(t, start) => pc'[t] = "local" /\ loc'[t].from = "local"
          /\ \A start, phase :
                SearchFrom(t, start, phase) => pc'[t] = "scan" /\ loc'[t].from = "local"
      <4>1. ASSUME NEW start, UseLocal(t, start)
            PROVE  pc'[t] = "local" /\ loc'[t].from = "local"
        <5>1. loc'[t] = [NoLoc EXCEPT !.start = start] /\ pc'[t] = "local"
          BY <3>0, <4>1 DEF UseLocal
        <5> QED BY <5>1 DEF NoLoc
      <4>2. ASSUME NEW start, NEW phase, SearchFrom(t, start, phase)
            PROVE  pc'[t] = "scan" /\ loc'[t].from = "local"
        <5>1. /\ loc'[t] = [NoLoc EXCEPT !.start = start, !.phase = phase,
                                         !.i = IF phase = "near" THEN 1 ELSE 0]
              /\ pc'[t] = "scan"
          BY <3>0, <4>2 DEF SearchFrom
        <5> QED BY <5>1 DEF NoLoc
      <4> QED BY <4>1, <4>2
    <3>2. Goto(t, "argument") => pc'[t] = "argument"
      BY <1>2 DEF Goto, TypeInv, TypeOK
    <3>3. CASE Get(t, r)
      BY <3>1, <3>2, <3>3 DEF Get
    <3>4. CASE GetAt(t, r)
      <4> DEFINE m == [NoLoc EXCEPT !.from = "tree", !.tree = r.tree, !.class = r.class]
      <4>1. m.from = "tree" /\ m.tree = r.tree
        BY DEF NoLoc
      <4>2. \/ Goto(t, "argument") \/ UseLocal(t, 0)
            \/ SetLoc(t, m) /\ Goto(t, "load")
        BY <3>4 DEF GetAt
      <4> HIDE DEF m
      <4>3. SetLoc(t, m) /\ Goto(t, "load") => pc'[t] = "load" /\ loc'[t] = m
        BY <1>2 DEF SetLoc, Goto, TypeInv, TypeOK
      <4> QED BY <3>1, <3>2, <4>1, <4>2, <4>3
    <3> QED BY <1>3, <3>3, <3>4
  <2>3. StateOf(pc'[t], r, loc'[t]) = "called"
    BY <2>1, <2>2, StateCases DEF Waiting
  <2>4. Doing(pc'[t], call'[t], loc'[t], hand'[t])
    BY <1>2, <2>1, <2>2 DEF Doing, Gets, Getting
  <2> QED BY <1>2, <2>1, <2>3, <2>4, BeginServes DEF Served
<1>4. CASE Put(t, r)
  <2>1. /\ r.op = "put" /\ loc'[t].from = "put" /\ held[r.tree] >= r.n
        /\ \/ pc'[t] = "argument" /\ held' = held
           \/ pc'[t] = "put" /\ held' = [held EXCEPT ![r.tree] = @ - r.n]
    BY <1>2, <1>4 DEF Put, Goto, SetLoc, NoLoc, TypeInv, TypeOK
  <2>2. /\ pc'[t] = "argument" => StateOf(pc'[t], r, loc'[t]) = "rejected"
        /\ pc'[t] = "put" => StateOf(pc'[t], r, loc'[t]) = "called"
    BY <2>1, StateCases DEF Waiting
  <2>3. Doing(pc'[t], call'[t], loc'[t], hand'[t])
    BY <1>2, <2>1 DEF Doing, Getting
  <2> QED BY <1>2, <2>1, <2>2, <2>3, BeginServes DEF Served
<1>5. CASE Drain(t, r) \/ Change(t, r)
  <2>1. /\ r.op \in {"drain", "change"} /\ held' = held
        /\ pc'[t] \in {"drain", "memory", "change"}
    BY <1>2, <1>5 DEF Drain, Change, Goto, TypeInv, TypeOK
  <2>2. StateOf(pc'[t], r, loc'[t]) = "called"
    BY <2>1, StateCases DEF Waiting
  <2>3. Doing(pc'[t], call'[t], loc'[t], hand'[t])
    BY <1>2, <2>1 DEF Doing, Getting
  <2> QED BY <1>2, <2>1, <2>2, <2>3, BeginServes DEF Served
<1> QED BY <1>1, <1>3, <1>4, <1>5

-----------------------------------------------------------------------------
(* Initialisation and recovery. *)

\* After a crash, a tree has lost at most what gets in progress wanted from it, and
\* gained at most what puts in progress were to return to it.
LEMMA RestartCrashes ==
    ASSUME CInv, DoingOK, P!PInv, Restart
    PROVE  P!Crash
<1>1. PICK left \in [Trees -> 0 .. TREE_SIZE] :
         (\A i \in Trees : left[i] \in Recovered(i)) /\ room' = left
  BY DEF Restart
<1>2. \A t \in Threads : State(t)' = "idle" /\ From(t)' = 0
  <2> TAKE t \in Threads
  <2>1. pc'[t] = "idle"
    BY DEF Restart
  <2> QED BY <2>1, Seen, StateCases DEF FromOf
<1>3. P!Quiet' /\ offline' = {} /\ UNCHANGED held
  BY <1>2 DEF P!Quiet, Restart
<1>4. room' \in [Trees -> Nat]
  BY <1>1, Constants
<1>5. ASSUME NEW i \in Trees, room'[i] < room[i]
      PROVE  P!Called("get", i) \/ P!Called("get_at", i)
  <2>1. Pending(i, "lower") # {}
    <3>1. CASE Pending(i, "lower") = {}
      <4>1. Cardinality(Pending(i, "lower")) = 0
        BY <3>1, FS_EmptySet
      <4>2. room'[i] >= room[i] - Cardinality(Pending(i, "lower")) /\ room[i] \in Nat
        BY <1>1 DEF Recovered, CInv, IInv, TypeInv, TypeOK
      <4> QED BY <1>4, <1>5, <4>1, <4>2
    <3> QED BY <3>1
  <2>2. PICK t \in Threads : pc[t] = "lower" /\ i = hand[t].tree
    BY <2>1 DEF Pending
  <2>3. /\ call[t].op \in Gets /\ State(t) = "called"
        /\ call[t].op = "get_at" => call[t].tree = i
    BY <2>2, DoingFields, Seen DEF Doing, Getting
  <2> QED BY <2>3 DEF P!Called, Gets
<1>6. ASSUME NEW i \in Trees, NEW d \in Pending(i, "put")
      PROVE  /\ d[1] \in Threads /\ d[2] \in 1 .. TREE_SIZE /\ d = <<d[1], d[2]>>
             /\ State(d[1]) = "called" /\ call[d[1]].op = "put" /\ call[d[1]].tree = i
             /\ d[2] <= call[d[1]].n
  <2>1. /\ d[1] \in Threads /\ d[2] \in 1 .. TREE_SIZE /\ d = <<d[1], d[2]>>
        /\ pc[d[1]] = "put" /\ call[d[1]].tree = i /\ d[2] <= call[d[1]].n
    BY DEF Pending
  <2>2. call[d[1]].op = "put"
    BY <2>1, DoingFields DEF Doing
  <2> QED BY <2>1, <2>2, Seen, StateCases DEF Waiting
<1>7. ASSUME NEW i \in Trees, room'[i] > room[i]
      PROVE  P!Called("put", i)
  <2>1. Pending(i, "put") # {}
    <3>1. CASE Pending(i, "put") = {}
      <4>1. Cardinality(Pending(i, "put")) = 0
        BY <3>1, FS_EmptySet
      <4>2. room'[i] <= room[i] + Cardinality(Pending(i, "put")) /\ room[i] \in Nat
        BY <1>1 DEF Recovered, CInv, IInv, TypeInv, TypeOK
      <4> QED BY <1>4, <1>7, <4>1, <4>2
    <3> QED BY <3>1
  <2>2. PICK d \in Pending(i, "put") : TRUE
    BY <2>1
  <2> QED BY <1>6, <2>2 DEF P!Called
<1>8. ASSUME NEW i \in Trees
      PROVE  room'[i] + held[i] <= FramesOf(i)
  <2>1. /\ P!Dues(i) \in [Threads -> 0 .. FramesOf(i)] /\ IsFiniteSet(P!Due(i))
        /\ room[i] + held[i] + Cardinality(P!Due(i)) <= FramesOf(i)
    BY SameCardinality DEF P!PInv, P!Balanced, P!Trees
  <2>2. FramesOf(i) \in Nat /\ room[i] \in Nat /\ held[i] \in Nat
    BY TreesExist, Constants DEF CInv, IInv, TypeInv, TypeOK
  <2>3. ASSUME NEW d \in Pending(i, "put")
        PROVE  d \in P!Due(i)
    <3>1. P!Dues(i)[d[1]] = call[d[1]].n
      BY <1>6 DEF P!Dues, P!Given, P!IsGet
    <3>2. P!Dues(i)[d[1]] \in 0 .. FramesOf(i)
      BY <1>6, <2>1
    <3>3. d[2] \in 1 .. FramesOf(i) /\ d[2] <= P!Dues(i)[d[1]]
      BY <1>6, <2>2, <3>1, <3>2, Constants
    <3> QED BY <1>6, <3>3 DEF P!Due, P!Pairs
  <2>4. /\ Cardinality(Pending(i, "put")) <= Cardinality(P!Due(i))
        /\ Cardinality(Pending(i, "put")) \in Nat /\ Cardinality(P!Due(i)) \in Nat
    BY <2>1, <2>3, FS_Subset, FS_CardinalityType
  <2>5. room'[i] <= room[i] + Cardinality(Pending(i, "put"))
    BY <1>1 DEF Recovered
  <2> QED BY <1>4, <2>1, <2>2, <2>4, <2>5
<1> QED BY <1>3, <1>4, <1>5, <1>7, <1>8 DEF P!Crash, P!Trees

-----------------------------------------------------------------------------
(* The refinement. *)

\* What holds in every state: the counters of Upper, what each call is doing, and the
\* balance of the pool.
QInv == CInv /\ DoingOK /\ P!PInv

LEMMA InitPool == Init => QInv /\ P!Init
<1> SUFFICES ASSUME Init PROVE QInv /\ P!Init
  OBVIOUS
<1>1. CInv
  BY InitCounted
<1>2. \A t \in Threads : pc[t] = "idle" /\ call[t] = NoCall
  BY DEF Init
<1>3. DoingOK
  BY <1>2 DEF DoingOK, Doing, Getting, NoCall
<1>4. \A t \in Threads : State(t) = "idle" /\ From(t) = 0
  BY <1>2, Seen, StateCases DEF FromOf
<1>5. P!Quiet
  BY <1>4 DEF P!Quiet, Init
<1>6. PICK full \in Full : /\ room = [i \in Trees |-> IF full THEN FramesOf(i) ELSE 0]
                           /\ held = [i \in Trees |-> IF full THEN 0 ELSE FramesOf(i)]
  BY DEF Init
<1>7. full \in BOOLEAN
  BY UpperAssumption
<1>8. \/ room = [i \in Trees |-> FramesOf(i)] /\ held = [i \in Trees |-> 0]
      \/ held = [i \in Trees |-> FramesOf(i)] /\ room = [i \in Trees |-> 0]
  BY <1>6, <1>7
<1>9. P!Init
  BY <1>5, <1>8 DEF P!Init, P!Trees, Init
<1>10. P!PInv
  BY <1>9, PoolSound, P!InitBalances
<1> QED BY <1>1, <1>3, <1>9, <1>10 DEF QInv

\* Every step is one of the pool, or is not seen by it.
LEMMA NextPool == Clients /\ QInv /\ [Next]_vars => QInv' /\ [P!Next]_P!vars
<1> SUFFICES ASSUME Clients, QInv, [Next]_vars PROVE QInv' /\ [P!Next]_P!vars
  OBVIOUS
<1>1. CInv /\ CInv' /\ DoingOK /\ P!PInv
  BY NextCounted DEF QInv
<1>2. ASSUME NEW t \in Threads, Start(t) \/ Step(t)
      PROVE  DoingOK' /\ [P!Next]_P!vars
  <2>1. TypeInv
    BY <1>1 DEF CInv, IInv
  <2>2. Others(t)
    BY <1>2, <2>1, StartOthers, StepOthers
  <2>3. Served(t)
    <3>1. CASE Start(t)
      BY <1>1, <2>2, <3>1, StartServes
    <3>2. CASE LocalGet(t) \/ SyncSteal(t) \/ SyncPut(t) \/ Lower(t) \/ GiveBack(t)
      BY <1>1, <2>2, <3>2, LocalGetServes, SyncStealServes, PutInSlotServes, LowerServes,
         GiveBackServes
    <3>3. CASE Scan(t) \/ Pick(t) \/ Reserve(t) \/ StealLoad(t) \/ StealCas(t)
      BY <1>1, <2>2, <3>3, SearchServes, ReserveServes, StealServes
    <3>4. CASE Swap(t) \/ Unreserve(t) \/ DrainSlot(t) \/ LowerPut(t) \/ PutSlot(t)
      BY <1>1, <2>2, <3>4, SwapServes, UnreserveServes, DrainSlotServes, LowerPutServes,
         PutInSlotServes
    <3>5. CASE StealSlot(t) \/ TakeSlot(t) \/ DemoteSwap(t)
      BY <1>1, <2>2, <3>5, StealSlotServes, TakeSlotServes, DemoteSwapServes
    <3>6. CASE ChangeLoad(t) \/ ChangeFetch(t) \/ ChangeCas(t) \/ Return(t)
      BY <1>1, <2>2, <3>6, ChangeReadServes, ChangeCasServes, ReturnServes
    <3> QED BY <1>2, <3>1, <3>2, <3>3, <3>4, <3>5, <3>6 DEF Step
  <2> QED BY <1>1, <2>2, <2>3 DEF Served, DoingOK, Others
<1>3. ASSUME Restart PROVE DoingOK' /\ [P!Next]_P!vars
  <2>1. P!Crash
    BY <1>1, <1>3, RestartCrashes
  <2>2. DoingOK'
    BY <1>3 DEF Restart, DoingOK, Doing, Getting, NoCall
  <2> QED BY <2>1, <2>2 DEF P!Next
<1>4. ASSUME Attach \/ UNCHANGED vars PROVE DoingOK' /\ [P!Next]_P!vars
  <2>1. UNCHANGED <<room, held, offline, pc, call, loc, hand>>
    BY <1>4 DEF Attach, vars, thread, counters
  <2>2. DoingOK'
    BY <1>1, <2>1 DEF DoingOK
  <2>3. \A t \in Threads : State(t)' = State(t) /\ From(t)' = From(t)
    BY <2>1, Seen
  <2> QED BY <2>1, <2>2, <2>3, NothingSeen
<1>5. DoingOK' /\ [P!Next]_P!vars
  BY <1>2, <1>3, <1>4 DEF Next
<1>6. P!PInv'
  BY <1>1, <1>5, PoolSound, P!NextBalances
<1> QED BY <1>1, <1>5, <1>6 DEF QInv

\* A step that leaves the lower allocator and the calls alone lets no get take effect, and
\* takes nothing back.
LEMMA EffectStays ==
    ASSUME Clients, QInv, [Next]_vars, UNCHANGED <<room, call>>,
           NEW t \in Threads, call[t].op \in Allocs
    PROVE  /\ State(t) \in {"served", "rejected"} =>
                 State(t)' = State(t) /\ From(t)' = From(t)
           /\ State(t) = "called" /\ call[t].op \in Gets => State(t)' = "called"
<1>1. [P!Next]_P!vars
  BY NextPool
<1>2. TypeInv /\ call[t].n \in Nat \ {0} /\ call[t].op # "change" /\ call[t] # NoCall
  <2>1. TypeInv
    BY DEF QInv, CInv, IInv
  <2> QED BY <2>1, CallFields DEF Allocs, NoCall
<1> DEFINE s == [u \in Threads |-> State(u)]
           f == [u \in Threads |-> From(u)]
<1>3. s[t] = State(t) /\ f[t] = From(t) /\ s'[t] = State(t)' /\ f'[t] = From(t)'
  OBVIOUS
<1>4. ASSUME NEW u \in Threads, NEW r, P!Begin(u, r) \/ P!Reject(u, r)
      PROVE  \/ s'[t] = s[t] /\ f'[t] = f[t]
             \/ s[t] = "idle"
  BY <1>4 DEF P!Begin, P!Reject
<1>5. ASSUME NEW u \in Threads, NEW i \in P!Trees, P!Serve(u, i)
      PROVE  \/ s'[t] = s[t] /\ f'[t] = f[t]
             \/ s[t] = "called" /\ call[t].op \notin Gets
  <2>1. u = t => call[t].op \notin Gets
    <3> SUFFICES ASSUME u = t, call[t].op \in Gets PROVE FALSE
      OBVIOUS
    <3>1. room' = [room EXCEPT ![i] = @ - call[t].n]
      BY <1>5 DEF P!Serve, Gets
    <3>2. i \in Trees /\ room \in [Trees -> Int]
      BY <1>2, Constants DEF P!Trees, TypeInv, TypeOK
    <3> QED BY <1>2, <3>1, <3>2
  <2> QED BY <1>5, <2>1 DEF P!Serve
<1>6. ASSUME NEW u \in Threads, P!Change(u) \/ P!Return(u)
      PROVE  s'[t] = s[t] /\ f'[t] = f[t]
  <2>1. call \in [Threads -> Calls \cup {NoCall}]
    BY <1>2 DEF TypeInv, TypeOK
  <2>2. u # t
    BY <1>2, <1>6, <2>1 DEF P!Change, P!Return
  <2> QED BY <1>6, <2>2 DEF P!Change, P!Return, P!vars
<1>7. ~P!Crash
  BY <1>2 DEF P!Crash, P!Quiet
<1>8. UNCHANGED P!vars => s'[t] = s[t] /\ f'[t] = f[t]
  BY DEF P!vars
<1> HIDE DEF s, f
<1>9. \/ s'[t] = s[t] /\ f'[t] = f[t]
      \/ s[t] = "idle"
      \/ s[t] = "called" /\ call[t].op \notin Gets
  BY <1>1, <1>4, <1>5, <1>6, <1>7, <1>8 DEF P!Next
<1> QED BY <1>3, <1>9

\* Every call takes effect at most once, between its start and its return, entirely or
\* not at all, on one tree that has the frames and is not offline, and reports what it
\* has done: whatever detours it takes through slots, searches and retries, whatever
\* other calls do meanwhile, and with a crash at any point.
THEOREM UpperImplementsPool ==
    ASSUME Clients
    PROVE  Spec => ImplementsPool
<1>1. Init => QInv /\ P!Init
  BY InitPool
<1>2. QInv /\ [Next]_vars => QInv' /\ [P!Next]_P!vars
  BY NextPool
<1>3. P!Init => Pool!Init
  BY DEF P!Init, Pool!Init, P!Quiet, Pool!Quiet, P!Trees, Pool!Trees
<1>4. [P!Next]_P!vars => [Pool!Next]_Pool!vars
  BY DEF P!Next, P!Begin, P!Reject, P!Serve, P!Change, P!Return, P!Crash, P!vars,
         Pool!Next, Pool!Begin, Pool!Reject, Pool!Serve, Pool!Change, Pool!Return,
         Pool!Crash, Pool!vars, P!Trees, P!Given, P!IsGet, P!Called, P!Quiet,
         Pool!Trees, Pool!Given, Pool!IsGet, Pool!Called, Pool!Quiet
<1> QED BY <1>1, <1>2, <1>3, <1>4, PTL DEF Spec, ImplementsPool, Pool!Spec

\* No frame is given away that the tree does not have: what is free of a tree, what the
\* clients have of it and what they are about to get never exceeds it.
THEOREM ClientsBalanced ==
    ASSUME Clients
    PROVE  Spec => []P!Balanced
<1>1. Init => QInv
  BY InitPool
<1>2. QInv /\ [Next]_vars => QInv'
  BY NextPool
<1>3. QInv => P!Balanced
  BY DEF QInv, P!PInv
<1> QED BY <1>1, <1>2, <1>3, PTL DEF Spec

-----------------------------------------------------------------------------
(* What the fast statistics say. *)

\* One token for each frame that the entries of trees I count, and that the slots of S count.
TreeTokens(I) == UNION {Units(<<"tree", i>>, trees[i].free) : i \in I}
Present(S)    == {s \in S : slots[s].present}
SlotTokens(S) == UNION {Units(<<"slot", s>>, slots[s].free) : s \in Present(S)}

\* All tokens that there can be.
AllTokens == (({"tree"} \X Trees) \cup ({"slot"} \X Present(Slots))) \X (1 .. TREE_SIZE)

\* Between calls.
Between == CInv /\ \A t \in Threads : pc[t] = "idle"

\* What the slots and the entries have between calls.
LEMMA BetweenCalls ==
    ASSUME Between
    PROVE  /\ \A i \in Trees : /\ trees[i].free \in 0 .. TREE_SIZE /\ trees[i].class \in Classes
                               /\ room[i] \in 0 .. TREE_SIZE /\ held[i] \in Nat
                               /\ i \in offline => trees[i].free = 0
           /\ \A s \in Present(Slots) :
                 /\ slots[s].tree \in Trees \ offline /\ slots[s].free \in 0 .. TREE_SIZE
                 /\ trees[slots[s].tree].free + slots[s].free = room[slots[s].tree]
                 /\ \A q \in Present(Slots) : q # s => slots[q].tree # slots[s].tree
           /\ \A i \in Trees \ offline :
                 (\A s \in Present(Slots) : slots[s].tree # i) => trees[i].free = room[i]
           /\ \A s \in Slots : s[1] \in Classes
<1>1. /\ CInv /\ TypeOK /\ ReservedOnce /\ CountOK
      /\ \A t \in Threads : pc[t] = "idle"
  BY DEF Between, CInv, IInv, TypeInv
<1>2. ASSUME NEW i \in Trees
      PROVE  /\ trees[i].free \in 0 .. TREE_SIZE /\ trees[i].class \in Classes
             /\ room[i] \in 0 .. TREE_SIZE /\ held[i] \in Nat
  BY <1>1 DEF TypeOK, Entries
<1>3. ASSUME NEW i \in offline PROVE i \in Trees /\ trees[i].free = 0 /\ ~trees[i].reserved
  <2>1. /\ i \in Trees /\ IsFiniteSet(Tokens(i)) /\ trees[i].free + Cardinality(Tokens(i)) = 0
        /\ ~trees[i].reserved
    BY <1>1 DEF TypeOK, CountOK, Count
  <2>2. Cardinality(Tokens(i)) \in Nat
    BY <2>1, FS_CardinalityType
  <2> QED BY <1>2, <2>1, <2>2
<1>4. ASSUME NEW s \in Slots
      PROVE  /\ slots[s].tree \in Trees /\ slots[s].free \in 0 .. TREE_SIZE
             /\ slots[s].present => slots[s].tree \notin offline
  <2>1. slots[s].tree \in Trees /\ slots[s].free \in 0 .. TREE_SIZE
    BY <1>1 DEF TypeOK, Reservations
  <2>2. slots[s].present => trees[slots[s].tree].reserved
    <3> DEFINE h == <<"slot", s>>
               i == slots[s].tree
    <3>1. h \in Holders /\ HeldBy(h) = slots[s] /\ i \in Trees
      BY <2>1, HolderKinds
    <3>2. trees[i].reserved <=> \E g \in Holders : HeldBy(g).present /\ HeldBy(g).tree = i
      BY <1>1, <2>1 DEF ReservedOnce
    <3>3. HeldBy(h).present <=> slots[s].present
      BY <3>1
    <3>4. HeldBy(h).tree = i
      BY <3>1
    <3> HIDE DEF h, i
    <3>5. slots[s].present => trees[i].reserved
      BY ONLY <3>1, <3>2, <3>3, <3>4
    <3> QED BY <3>5 DEF i
  <2> QED BY <1>3, <2>1, <2>2
<1>5. ASSUME NEW i \in Trees \ offline
      PROVE  /\ \A s \in Slots : slots[s].present /\ slots[s].tree = i =>
                   /\ trees[i].reserved /\ trees[i].free + slots[s].free = room[i]
                   /\ \A q \in Slots : q # s => ~(slots[q].present /\ slots[q].tree = i)
             /\ (\A s \in Slots : ~(slots[s].present /\ slots[s].tree = i)) =>
                   ~trees[i].reserved /\ trees[i].free = room[i]
  BY <1>1, QuietEntries
<1>6. \A s \in Slots : s[1] \in Classes
  BY DEF Slots
<1> QED BY <1>2, <1>3, <1>4, <1>5, <1>6 DEF Present

\* There are finitely many classes, trees, reservations and tokens.
LEMMA StatsFinite ==
    ASSUME Between
    PROVE  /\ IsFiniteSet(Classes) /\ IsFiniteSet(Trees) /\ IsFiniteSet(Present(Slots))
           /\ IsFiniteSet(AllTokens)
<1>1. IsFiniteSet(Trees) /\ IsFiniteSet(1 .. TREE_SIZE)
  <2>1. TreeCount - 1 \in Int /\ TREE_SIZE \in Int
    BY TreesExist, Constants
  <2> QED BY <2>1, FS_Interval DEF Trees
<1>2. IsFiniteSet(Classes)
  <2> DEFINE n == MAX_CLASSES - 1
  <2>1. Classes \in SUBSET (0 .. n) /\ n \in Int /\ 0 \in Int
    BY TreeAssumption
  <2> HIDE DEF n
  <2>2. IsFiniteSet(0 .. n)
    BY ONLY <2>1, FS_Interval
  <2> QED BY <2>1, <2>2, FS_Subset
<1>3. IsFiniteSet(Present(Slots))
  <2> DEFINE g == [s \in Present(Slots) |-> slots[s].tree]
  <2>1. g \in [Present(Slots) -> Trees]
    BY BetweenCalls
  <2>2. ASSUME NEW s \in Present(Slots), NEW q \in Present(Slots), g[s] = g[q] PROVE s = q
    BY <2>2, BetweenCalls
  <2> HIDE DEF g
  <2>3. g \in Injection(Present(Slots), Trees)
    BY <2>1, <2>2 DEF Injection, IsInjective
  <2> QED BY <1>1, <2>3, FS_Injection
<1>4. IsFiniteSet(AllTokens)
  <2> DEFINE A == {"tree"} \X Trees
             B == {"slot"} \X Present(Slots)
             N == 1 .. TREE_SIZE
  <2>1. IsFiniteSet({"tree"}) /\ IsFiniteSet({"slot"})
    BY FS_Singleton
  <2>2. IsFiniteSet(A) /\ IsFiniteSet(B)
    BY <1>1, <1>3, <2>1, FS_Product
  <2> HIDE DEF A, B, N
  <2>3. IsFiniteSet(A \cup B)
    BY <2>2, FS_Union
  <2>4. IsFiniteSet((A \cup B) \X N)
    BY <1>1, <2>3, FS_Product DEF N
  <2> QED BY <2>4 DEF A, B, N, AllTokens
<1> QED BY <1>1, <1>2, <1>3, <1>4

\* The tokens of an entry or a slot.
LEMMA TokensCount ==
    ASSUME Between
    PROVE  /\ \A i \in Trees : LET T == Units(<<"tree", i>>, trees[i].free) IN
                 /\ T \subseteq AllTokens /\ Cardinality(T) = trees[i].free
                 /\ \A x \in T : x[1] = <<"tree", i>>
           /\ \A s \in Present(Slots) : LET T == Units(<<"slot", s>>, slots[s].free) IN
                 /\ T \subseteq AllTokens /\ Cardinality(T) = slots[s].free
                 /\ \A x \in T : x[1] = <<"slot", s>>
<1>1. TREE_SIZE \in Nat
  BY Constants
<1>2. ASSUME NEW i \in Trees
      PROVE  LET T == Units(<<"tree", i>>, trees[i].free) IN
                 /\ T \subseteq AllTokens /\ Cardinality(T) = trees[i].free
                 /\ \A x \in T : x[1] = <<"tree", i>>
  <2>1. trees[i].free \in 0 .. TREE_SIZE
    BY BetweenCalls
  <2>2. Cardinality(Units(<<"tree", i>>, trees[i].free)) = trees[i].free
    BY <2>1, UnitsCount
  <2> QED BY <1>1, <2>1, <2>2 DEF Units, AllTokens
<1>3. ASSUME NEW s \in Present(Slots)
      PROVE  LET T == Units(<<"slot", s>>, slots[s].free) IN
                 /\ T \subseteq AllTokens /\ Cardinality(T) = slots[s].free
                 /\ \A x \in T : x[1] = <<"slot", s>>
  <2>1. slots[s].free \in 0 .. TREE_SIZE
    BY BetweenCalls
  <2>2. Cardinality(Units(<<"slot", s>>, slots[s].free)) = slots[s].free
    BY <2>1, UnitsCount
  <2> QED BY <1>1, <2>1, <2>2 DEF Units, AllTokens
<1> QED BY <1>2, <1>3

\* The total of the entries is the number of their tokens.
LEMMA FreeInIs ==
    ASSUME Between, NEW I \in SUBSET Trees
    PROVE  /\ TreeTokens(I) \in SUBSET AllTokens /\ IsFiniteSet(TreeTokens(I))
           /\ FreeIn(I) = Cardinality(TreeTokens(I))
<1> DEFINE v == [i \in I |-> trees[i].free]
           part == [i \in I |-> Units(<<"tree", i>>, trees[i].free)]
           R(f) == f = [s \in SUBSET I |->
               IF s = {} THEN 0 ELSE trees[First(s)].free + f[s \ {First(s)}]]
<1>1. IsFiniteSet(I) /\ IsFiniteSet(AllTokens)
  BY StatsFinite, FS_Subset
<1>2. part \in [I -> SUBSET AllTokens] /\ \A k \in I : v[k] = Cardinality(part[k])
  BY TokensCount
<1>3. \A j, k \in I : j # k => part[j] \cap part[k] = {}
  <2>1. \A k \in I : \A x \in part[k] : x[1] = <<"tree", k>>
    BY TokensCount
  <2> HIDE DEF part
  <2> QED BY <2>1
<1>4. UNION {part[k] : k \in I} = TreeTokens(I)
  BY DEF TreeTokens
<1>5. FreeIn(I) = (CHOOSE f : R(f))[I]
  BY DEF FreeIn, MapThenSumSet, MapThenFoldSet, First
<1>6. ASSUME NEW f PROVE R(f) <=> Sums(I, v, f)
  <2>1. \A s \in SUBSET I : s # {} => First(s) \in I
    BY DEF First
  <2>2. \A s \in SUBSET I : s # {} => v[First(s)] = trees[First(s)].free
    BY <2>1
  <2> HIDE DEF v
  <2> QED BY <2>2 DEF Sums
<1> HIDE DEF v, part, R
<1>7. /\ \E f : Sums(I, v, f)
      /\ \A f : Sums(I, v, f) => f[I] = Cardinality(UNION {part[k] : k \in I})
  BY <1>1, <1>2, <1>3, PartsSum
<1>8. (CHOOSE f : R(f))[I] = Cardinality(UNION {part[k] : k \in I})
  <2>1. R(CHOOSE f : R(f))
    BY <1>6, <1>7
  <2> QED BY <1>6, <1>7, <2>1
<1>9. TreeTokens(I) \in SUBSET AllTokens
  BY <1>2, <1>4
<1> QED BY <1>1, <1>4, <1>5, <1>8, <1>9, FS_Subset

\* So is the total of the slots.
LEMMA SlotFreeIs ==
    ASSUME Between, NEW S \in SUBSET Slots
    PROVE  /\ SlotTokens(S) \in SUBSET AllTokens /\ IsFiniteSet(SlotTokens(S))
           /\ SlotFree(S) = Cardinality(SlotTokens(S))
<1> DEFINE K == Present(S)
           v == [s \in K |-> slots[s].free]
           part == [s \in K |-> Units(<<"slot", s>>, slots[s].free)]
           R(f) == f = [r \in SUBSET K |->
               IF r = {} THEN 0 ELSE slots[First(r)].free + f[r \ {First(r)}]]
<1>0. K \in SUBSET Present(Slots)
  BY DEF Present
<1>1. IsFiniteSet(K) /\ IsFiniteSet(AllTokens)
  BY <1>0, StatsFinite, FS_Subset
<1>2. part \in [K -> SUBSET AllTokens] /\ \A k \in K : v[k] = Cardinality(part[k])
  BY <1>0, TokensCount
<1>3. \A j, k \in K : j # k => part[j] \cap part[k] = {}
  <2>1. \A k \in K : \A x \in part[k] : x[1] = <<"slot", k>>
    BY <1>0, TokensCount
  <2> HIDE DEF part, K
  <2> QED BY <2>1
<1>4. UNION {part[k] : k \in K} = SlotTokens(S)
  BY DEF SlotTokens
<1>5. SlotFree(S) = (CHOOSE f : R(f))[K]
  BY DEF SlotFree, MapThenSumSet, MapThenFoldSet, First, Present
<1>6. ASSUME NEW f PROVE R(f) <=> Sums(K, v, f)
  <2>1. \A s \in SUBSET K : s # {} => First(s) \in K
    BY DEF First
  <2>2. \A s \in SUBSET K : s # {} => v[First(s)] = slots[First(s)].free
    BY <2>1
  <2> HIDE DEF v
  <2> QED BY <2>2 DEF Sums
<1> HIDE DEF v, part, R, K
<1>7. /\ \E f : Sums(K, v, f)
      /\ \A f : Sums(K, v, f) => f[K] = Cardinality(UNION {part[k] : k \in K})
  BY <1>1, <1>2, <1>3, PartsSum
<1>8. (CHOOSE f : R(f))[K] = Cardinality(UNION {part[k] : k \in K})
  <2>1. R(CHOOSE f : R(f))
    BY <1>6, <1>7
  <2> QED BY <1>6, <1>7, <2>1
<1>9. SlotTokens(S) \in SUBSET AllTokens
  BY <1>2, <1>4
<1> QED BY <1>1, <1>4, <1>5, <1>8, <1>9, FS_Subset

\* The sum of a function's values.
SumOf(K, v) == SumOver(K, LAMBDA k : v[k])

\* It is the size of the union of disjoint parts of those sizes.
LEMMA SumOfIs ==
    ASSUME NEW K, IsFiniteSet(K), NEW F, IsFiniteSet(F), NEW part \in [K -> SUBSET F],
           \A j, k \in K : j # k => part[j] \cap part[k] = {},
           NEW v, \A k \in K : v[k] = Cardinality(part[k])
    PROVE  SumOf(K, v) = Cardinality(UNION {part[k] : k \in K})
<1> DEFINE R(f) == f = [s \in SUBSET K |-> IF s = {} THEN 0 ELSE v[First(s)] + f[s \ {First(s)}]]
<1>1. SumOf(K, v) = (CHOOSE f : R(f))[K]
  BY DEF SumOf, SumOver, MapThenSumSet, MapThenFoldSet, First
<1>2. \A f : R(f) <=> Sums(K, v, f)
  BY DEF Sums
<1> HIDE DEF R
<1>3. /\ \E f : Sums(K, v, f)
      /\ \A f : Sums(K, v, f) => f[K] = Cardinality(UNION {part[k] : k \in K})
  BY PartsSum
<1>4. R(CHOOSE f : R(f))
  BY <1>2, <1>3
<1> QED BY <1>1, <1>2, <1>3, <1>4

\* Tokens of entries and of slots are different.
LEMMA BothTokens ==
    ASSUME Between, NEW I \in SUBSET Trees, NEW S \in SUBSET Slots
    PROVE  Cardinality(TreeTokens(I) \cup SlotTokens(S)) = FreeIn(I) + SlotFree(S)
<1> DEFINE A == TreeTokens(I)
           B == SlotTokens(S)
<1>1. /\ IsFiniteSet(A) /\ IsFiniteSet(B)
      /\ FreeIn(I) = Cardinality(A) /\ SlotFree(S) = Cardinality(B)
  BY FreeInIs, SlotFreeIs
<1>2. A \cap B = {}
  <2>1. \A x \in A : x[1][1] = "tree"
    BY DEF TreeTokens, Units
  <2>2. \A x \in B : x[1][1] = "slot"
    BY DEF SlotTokens, Units
  <2> HIDE DEF A, B
  <2> QED BY <2>1, <2>2
<1> HIDE DEF A, B
<1>3. Cardinality(A \cup B) = Cardinality(A) + Cardinality(B) - Cardinality(A \cap B)
  BY ONLY <1>1, FS_Union
<1>4. Cardinality(A \cap B) = 0 /\ Cardinality(A) \in Nat /\ Cardinality(B) \in Nat
  BY <1>1, <1>2, FS_EmptySet, FS_CardinalityType
<1>5. Cardinality(A \cup B) = FreeIn(I) + SlotFree(S)
  BY ONLY <1>1, <1>3, <1>4
<1> QED BY <1>5 DEF A, B

\* All free frames are reported once.
LEMMA FreeReported ==
    ASSUME Between
    PROVE  SumOf(Trees \ offline, room) = FreeIn(Trees) + SlotFree(Slots)
<1> DEFINE a == [i \in Trees |-> Units(<<"tree", i>>, trees[i].free)]
           b == [s \in Present(Slots) |-> Units(<<"slot", s>>, slots[s].free)]
           K == Trees \ offline
           Reserving(i) == {s \in Present(Slots) : slots[s].tree = i}
           part == [i \in K |-> a[i] \cup UNION {b[s] : s \in Reserving(i)}]
           C == UNION {part[i] : i \in K}
<1>1. /\ \A i \in Trees : a[i] \subseteq AllTokens /\ Cardinality(a[i]) = trees[i].free
                          /\ \A x \in a[i] : x[1] = <<"tree", i>>
      /\ \A s \in Present(Slots) : b[s] \subseteq AllTokens /\ Cardinality(b[s]) = slots[s].free
                                   /\ \A x \in b[s] : x[1] = <<"slot", s>>
  BY TokensCount
<1>2. /\ \A i \in Trees : IsFiniteSet(a[i])
      /\ \A s \in Present(Slots) : IsFiniteSet(b[s])
  BY <1>1, StatsFinite, FS_Subset
<1>3. \A i \in offline : i \in Trees => a[i] = {}
  <2>1. ASSUME NEW i \in offline, i \in Trees PROVE a[i] = {}
    <3>1. trees[i].free = 0
      BY <2>1, BetweenCalls
    <3> QED BY <2>1, <3>1 DEF Units
  <2> QED BY <2>1
<1>4. /\ TreeTokens(Trees) = UNION {a[i] : i \in Trees}
      /\ SlotTokens(Slots) = UNION {b[s] : s \in Present(Slots)}
  BY DEF TreeTokens, SlotTokens
<1> HIDE DEF a, b
<1>5. /\ \A i, j \in Trees : i # j => a[i] \cap a[j] = {}
      /\ \A s, q \in Present(Slots) : s # q => b[s] \cap b[q] = {}
      /\ \A i \in Trees, s \in Present(Slots) : a[i] \cap b[s] = {}
  BY <1>1
<1>6. ASSUME NEW i \in K PROVE Cardinality(part[i]) = room[i]
  <2>1. CASE \E s \in Present(Slots) : slots[s].tree = i
    <3>1. PICK s \in Present(Slots) : slots[s].tree = i
      BY <2>1
    <3>2. /\ Reserving(i) = {s} /\ trees[i].free + slots[s].free = room[i]
          /\ trees[i].free \in Nat /\ slots[s].free \in Nat
      BY <3>1, BetweenCalls
    <3>3. part[i] = a[i] \cup b[s]
      BY <3>2
    <3>4. Cardinality(a[i] \cup b[s]) = Cardinality(a[i]) + Cardinality(b[s]) - Cardinality(a[i] \cap b[s])
      BY <1>2, FS_Union
    <3>5. Cardinality(a[i] \cap b[s]) = 0
      BY <1>5, FS_EmptySet
    <3>6. Cardinality(part[i]) = Cardinality(a[i] \cup b[s])
      BY <3>3
    <3>7. Cardinality(a[i]) = trees[i].free /\ Cardinality(b[s]) = slots[s].free
      BY <1>1
    <3> HIDE DEF part, Reserving
    <3> QED BY ONLY <3>2, <3>4, <3>5, <3>6, <3>7
  <2>2. CASE ~ \E s \in Present(Slots) : slots[s].tree = i
    <3>1. Reserving(i) = {}
      BY <2>2
    <3>2. part[i] = a[i]
      BY <3>1
    <3>3. trees[i].free = room[i]
      BY <2>2, BetweenCalls
    <3> QED BY <1>1, <3>2, <3>3
  <2> QED BY <2>1, <2>2
<1>7. part \in [K -> SUBSET AllTokens]
  <2>1. ASSUME NEW i \in K PROVE part[i] \subseteq AllTokens
    BY <1>1
  <2> QED BY <2>1
<1>8. \A i, j \in K : i # j => part[i] \cap part[j] = {}
  <2>1. ASSUME NEW i \in K, NEW j \in K, i # j, NEW x \in part[i], x \in part[j] PROVE FALSE
    BY <1>5, <2>1
  <2> QED BY <2>1
<1>9. C = TreeTokens(Trees) \cup SlotTokens(Slots)
  <2>1. ASSUME NEW x \in C PROVE x \in TreeTokens(Trees) \cup SlotTokens(Slots)
    BY <1>4
  <2>2. ASSUME NEW x \in TreeTokens(Trees) PROVE x \in C
    BY <1>3, <1>4
  <2>3. ASSUME NEW x \in SlotTokens(Slots) PROVE x \in C
    <3>1. PICK s \in Present(Slots) : x \in b[s]
      BY <1>4
    <3>2. slots[s].tree \in K /\ s \in Reserving(slots[s].tree)
      BY BetweenCalls
    <3> QED BY <3>1, <3>2
  <2> QED BY <2>1, <2>2, <2>3
<1>10. IsFiniteSet(K) /\ IsFiniteSet(AllTokens)
  BY StatsFinite, FS_Subset
<1> HIDE DEF part
<1>11. SumOf(K, room) = Cardinality(UNION {part[i] : i \in K})
  <2>1. \A i \in K : room[i] = Cardinality(part[i])
    BY <1>6
  <2> HIDE DEF K
  <2> QED BY ONLY <1>7, <1>8, <1>10, <2>1, SumOfIs
<1>12. Cardinality(TreeTokens(Trees) \cup SlotTokens(Slots)) = FreeIn(Trees) + SlotFree(Slots)
  BY BothTokens
<1> QED BY <1>9, <1>11, <1>12

\* No tree is reported free that is not.
LEMMA WholeReported ==
    ASSUME Between
    PROVE  Cardinality(Whole(Trees)) + Cardinality(WholeSlots)
              <= Cardinality({i \in Trees \ offline : room[i] = TREE_SIZE})
<1> DEFINE T == {i \in Trees \ offline : room[i] = TREE_SIZE}
           W == Whole(Trees)
           g == [s \in WholeSlots |-> slots[s].tree]
           V == T \ W
<1>1. TREE_SIZE \in Nat \ {0}
  BY Constants
<1>2. W \subseteq T
  <2>1. ASSUME NEW i \in Trees, trees[i].free = TREE_SIZE PROVE i \notin offline /\ room[i] = TREE_SIZE
    <3>1. i \notin offline /\ room[i] \in 0 .. TREE_SIZE
      BY <1>1, <2>1, BetweenCalls
    <3>2. CASE \E s \in Present(Slots) : slots[s].tree = i
      <4>1. PICK s \in Present(Slots) : slots[s].tree = i
        BY <3>2
      <4>2. trees[i].free + slots[s].free = room[i] /\ slots[s].free \in 0 .. TREE_SIZE
        BY <4>1, BetweenCalls
      <4> QED BY <1>1, <2>1, <3>1, <4>2
    <3>3. CASE ~\E s \in Present(Slots) : slots[s].tree = i
      BY <2>1, <3>1, <3>3, BetweenCalls
    <3> QED BY <3>1, <3>2, <3>3
  <2> QED BY <2>1 DEF Whole
<1>3. ASSUME NEW s \in WholeSlots PROVE s \in Present(Slots) /\ slots[s].tree \in V
  <2>1. s \in Present(Slots) /\ slots[s].free = TREE_SIZE
    BY DEF WholeSlots, Present
  <2> DEFINE i == slots[s].tree
  <2>2. /\ i \in Trees \ offline /\ trees[i].free + slots[s].free = room[i]
        /\ trees[i].free \in 0 .. TREE_SIZE /\ room[i] \in 0 .. TREE_SIZE
    BY <2>1, BetweenCalls
  <2>3. room[i] = TREE_SIZE /\ trees[i].free # TREE_SIZE
    BY <1>1, <2>1, <2>2
  <2> QED BY <2>1, <2>2, <2>3 DEF Whole
<1>4. IsFiniteSet(T) /\ IsFiniteSet(W) /\ IsFiniteSet(V)
  <2>1. T \in SUBSET Trees /\ W \in SUBSET Trees /\ V \in SUBSET Trees
    BY <1>2
  <2> HIDE DEF T, W, V
  <2> QED BY <2>1, StatsFinite, FS_Subset
<1>5. g \in Injection(WholeSlots, V)
  <2>1. g \in [WholeSlots -> V]
    BY <1>3
  <2>2. ASSUME NEW s \in WholeSlots, NEW q \in WholeSlots, g[s] = g[q] PROVE s = q
    BY <1>3, <2>2, BetweenCalls
  <2> HIDE DEF g, V
  <2> QED BY <2>1, <2>2 DEF Injection, IsInjective
<1>6. Cardinality(WholeSlots) <= Cardinality(V) /\ Cardinality(WholeSlots) \in Nat
  <2> HIDE DEF g, V
  <2> QED BY <1>4, <1>5, FS_Injection, FS_CardinalityType
<1>7. T \cap W = W
  BY <1>2
<1> HIDE DEF T, W
<1>8. Cardinality(V) = Cardinality(T) - Cardinality(W)
  <2>1. Cardinality(T \ W) = Cardinality(T) - Cardinality(T \cap W)
    BY <1>4, FS_Difference
  <2> QED BY <1>7, <2>1
<1>9. Cardinality(T) \in Nat /\ Cardinality(W) \in Nat
  BY <1>4, FS_CardinalityType
<1>10. Cardinality(W) + Cardinality(WholeSlots) <= Cardinality(T)
  <2> HIDE DEF V
  <2> QED BY ONLY <1>6, <1>8, <1>9
<1> QED BY <1>10 DEF T, W

\* What is reported of a class.
LEMMA ClassReport ==
    ASSUME NEW c \in Classes
    PROVE  /\ FastStats.classes[c].free_frames = FreeIn(OfClass(c)) + SlotFree({s \in Slots : s[1] = c})
           /\ FastStats.classes[c].alloc_frames = TREE_SIZE * Cardinality(OfClass(c)) - FreeIn(OfClass(c)) + 0
BY DEF FastStats, TreesStats, LocalStats, TreeStats, ClassStats

\* What is reported of all classes together.
LEMMA TotalReport ==
    /\ FastStats.free_frames = FreeIn(Trees) + SlotFree(Slots)
    /\ FastStats.free_trees = Cardinality(Whole(Trees)) + Cardinality(WholeSlots)
BY DEF FastStats, TreesStats, LocalStats, TreeStats

\* The classes account for all free frames.
LEMMA ClassesFree ==
    ASSUME Between
    PROVE  SumOver(Classes, LAMBDA c : FastStats.classes[c].free_frames) = FreeIn(Trees) + SlotFree(Slots)
<1> DEFINE S(c) == {s \in Slots : s[1] = c}
           v == [c \in Classes |-> FastStats.classes[c].free_frames]
           part == [c \in Classes |-> TreeTokens(OfClass(c)) \cup SlotTokens(S(c))]
           R(f) == f = [s \in SUBSET Classes |->
               IF s = {} THEN 0 ELSE FastStats.classes[First(s)].free_frames + f[s \ {First(s)}]]
<1>1. ASSUME NEW c \in Classes
      PROVE  part[c] \subseteq AllTokens /\ v[c] = Cardinality(part[c])
  <2>1. OfClass(c) \in SUBSET Trees /\ S(c) \in SUBSET Slots
    BY DEF OfClass
  <2>2. v[c] = FreeIn(OfClass(c)) + SlotFree(S(c))
    BY ClassReport
  <2>3. part[c] = TreeTokens(OfClass(c)) \cup SlotTokens(S(c))
    OBVIOUS
  <2> HIDE DEF S, v, part
  <2>4. Cardinality(TreeTokens(OfClass(c)) \cup SlotTokens(S(c))) = FreeIn(OfClass(c)) + SlotFree(S(c))
    BY <2>1, BothTokens
  <2>5. TreeTokens(OfClass(c)) \subseteq AllTokens /\ SlotTokens(S(c)) \subseteq AllTokens
    BY <2>1, FreeInIs, SlotFreeIs
  <2> QED BY <2>2, <2>3, <2>4, <2>5
<1>2. \A c, d \in Classes : c # d => part[c] \cap part[d] = {}
  <2>1. ASSUME NEW c \in Classes, NEW x \in part[c]
        PROVE  \/ x[1][1] = "tree" /\ trees[x[1][2]].class = c
               \/ x[1][1] = "slot" /\ x[1][2][1] = c
    <3>1. CASE x \in TreeTokens(OfClass(c))
      <4>1. PICK i \in OfClass(c) : x \in Units(<<"tree", i>>, trees[i].free)
        BY <3>1 DEF TreeTokens
      <4> QED BY <4>1 DEF Units, OfClass
    <3>2. CASE x \in SlotTokens(S(c))
      <4>1. PICK s \in Present(S(c)) : x \in Units(<<"slot", s>>, slots[s].free)
        BY <3>2 DEF SlotTokens
      <4> QED BY <4>1 DEF Units, Present
    <3> QED BY <3>1, <3>2
  <2> HIDE DEF part
  <2> QED BY <2>1
<1>3. UNION {part[c] : c \in Classes} = TreeTokens(Trees) \cup SlotTokens(Slots)
  <2>1. ASSUME NEW c \in Classes, NEW x \in part[c]
        PROVE  x \in TreeTokens(Trees) \cup SlotTokens(Slots)
    BY DEF TreeTokens, SlotTokens, OfClass, Present
  <2>2. ASSUME NEW x \in TreeTokens(Trees) PROVE \E c \in Classes : x \in part[c]
    <3>1. PICK i \in Trees : x \in Units(<<"tree", i>>, trees[i].free)
      BY DEF TreeTokens
    <3>2. trees[i].class \in Classes /\ i \in OfClass(trees[i].class)
      BY BetweenCalls DEF OfClass
    <3>3. x \in TreeTokens(OfClass(trees[i].class))
      BY <3>1, <3>2 DEF TreeTokens
    <3> QED BY <3>2, <3>3
  <2>3. ASSUME NEW x \in SlotTokens(Slots) PROVE \E c \in Classes : x \in part[c]
    <3>1. PICK s \in Present(Slots) : x \in Units(<<"slot", s>>, slots[s].free)
      BY DEF SlotTokens
    <3>2. s[1] \in Classes /\ s \in Present(S(s[1]))
      BY BetweenCalls DEF Present
    <3>3. x \in SlotTokens(S(s[1]))
      BY <3>1, <3>2 DEF SlotTokens
    <3> QED BY <3>2, <3>3
  <2> HIDE DEF part
  <2> QED BY <2>1, <2>2, <2>3
<1>4. SumOver(Classes, LAMBDA c : FastStats.classes[c].free_frames) = (CHOOSE f : R(f))[Classes]
  BY DEF SumOver, MapThenSumSet, MapThenFoldSet, First
<1>5. ASSUME NEW f PROVE R(f) <=> Sums(Classes, v, f)
  <2>1. \A s \in SUBSET Classes : s # {} => First(s) \in Classes
    BY DEF First
  <2>2. \A s \in SUBSET Classes : s # {} => v[First(s)] = FastStats.classes[First(s)].free_frames
    BY <2>1
  <2> HIDE DEF v
  <2> QED BY <2>2 DEF Sums
<1>6. part \in [Classes -> SUBSET AllTokens] /\ \A c \in Classes : v[c] = Cardinality(part[c])
  BY <1>1
<1> HIDE DEF v, part, R
<1>7. /\ \E f : Sums(Classes, v, f)
      /\ \A f : Sums(Classes, v, f) => f[Classes] = Cardinality(UNION {part[c] : c \in Classes})
  BY <1>2, <1>6, StatsFinite, PartsSum
<1>8. (CHOOSE f : R(f))[Classes] = Cardinality(UNION {part[c] : c \in Classes})
  <2>1. R(CHOOSE f : R(f))
    BY <1>5, <1>7
  <2> QED BY <1>5, <1>7, <2>1
<1>9. Cardinality(TreeTokens(Trees) \cup SlotTokens(Slots)) = FreeIn(Trees) + SlotFree(Slots)
  BY BothTokens
<1> QED BY <1>3, <1>4, <1>8, <1>9

\* What clients have of a tree is not free.
LEMMA HeldUsed ==
    ASSUME QInv, Between, NEW i \in Trees
    PROVE  held[i] \in Nat /\ trees[i].free \in Nat /\ trees[i].free + held[i] <= TREE_SIZE
<1>1. /\ P!Dues(i) \in [Threads -> 0 .. FramesOf(i)] /\ IsFiniteSet(P!Due(i))
      /\ room[i] + held[i] + Cardinality(P!Due(i)) <= FramesOf(i)
  BY SameCardinality DEF QInv, P!PInv, P!Balanced, P!Trees
<1>2. Cardinality(P!Due(i)) \in Nat
  BY <1>1, FS_CardinalityType
<1>3. FramesOf(i) \in 0 .. TREE_SIZE /\ TREE_SIZE \in Nat
  BY TreesExist, Constants
<1>4. /\ trees[i].free \in 0 .. TREE_SIZE /\ room[i] \in 0 .. TREE_SIZE /\ held[i] \in Nat
      /\ i \in offline => trees[i].free = 0
  BY BetweenCalls
<1>5. trees[i].free <= room[i]
  <2>1. CASE i \in offline
    BY <1>4, <2>1
  <2>2. CASE i \notin offline /\ \E s \in Present(Slots) : slots[s].tree = i
    <3>1. PICK s \in Present(Slots) : slots[s].tree = i
      BY <2>2
    <3>2. trees[i].free + slots[s].free = room[i] /\ slots[s].free \in 0 .. TREE_SIZE
      BY <3>1, BetweenCalls
    <3> QED BY <1>3, <1>4, <3>2
  <2>3. CASE i \notin offline /\ ~ \E s \in Present(Slots) : slots[s].tree = i
    <3>1. trees[i].free = room[i]
      BY <2>3, BetweenCalls
    <3> QED BY <1>4, <3>1
  <2> QED BY <2>1, <2>2, <2>3
<1>6. held[i] + room[i] <= TREE_SIZE
  BY <1>1, <1>2, <1>3, <1>4
<1> QED BY <1>3, <1>4, <1>5, <1>6

\* One token for each frame of trees I that the entries do not count.
Places(I)     == {<<"tree", i>> : i \in I} \X (1 .. TREE_SIZE)
UsedTokens(I) == Places(I) \ TreeTokens(I)

\* They are what trees_stats reports as allocated.
LEMMA UsedCount ==
    ASSUME Between, NEW I \in SUBSET Trees
    PROVE  /\ UsedTokens(I) \subseteq AllTokens /\ IsFiniteSet(UsedTokens(I))
           /\ Cardinality(UsedTokens(I)) = TREE_SIZE * Cardinality(I) - FreeIn(I)
<1> DEFINE H == {<<"tree", i>> : i \in I}
           N == 1 .. TREE_SIZE
           g == [i \in I |-> <<"tree", i>>]
           T == TreeTokens(I)
<1>1. TREE_SIZE \in Nat
  BY Constants
<1>2. IsFiniteSet(I)
  BY StatsFinite, FS_Subset
<1>3. IsFiniteSet(H) /\ Cardinality(H) = Cardinality(I)
  <2>1. g \in [I -> H]
    OBVIOUS
  <2>2. \A i, j \in I : g[i] = g[j] => i = j
    OBVIOUS
  <2>3. \A h \in H : \E i \in I : g[i] = h
    OBVIOUS
  <2> HIDE DEF g, H
  <2>4. g \in Bijection(I, H)
    BY <2>1, <2>2, <2>3 DEF Bijection, Injection, Surjection, IsInjective
  <2>5. ExistsBijection(I, H)
    BY <2>4 DEF ExistsBijection
  <2> QED BY <1>2, <2>5, FS_Bijection
<1>4. IsFiniteSet(N) /\ Cardinality(N) = TREE_SIZE
  BY <1>1, FS_Interval
<1>5. H \X N \subseteq AllTokens
  BY DEF AllTokens
<1>6. T \subseteq H \X N
  <2>1. ASSUME NEW x \in T PROVE x \in H \X N
    <3>1. PICK i \in I : x \in Units(<<"tree", i>>, trees[i].free)
      BY DEF TreeTokens
    <3>2. trees[i].free \in 0 .. TREE_SIZE
      BY BetweenCalls
    <3> QED BY <1>1, <3>1, <3>2 DEF Units
  <2> QED BY <2>1
<1>7. UsedTokens(I) = (H \X N) \ T
  BY DEF UsedTokens, Places
<1>8. Cardinality(T) = FreeIn(I)
  BY FreeInIs
<1> HIDE DEF H, N, T
<1>9. IsFiniteSet(H \X N) /\ Cardinality(H \X N) = Cardinality(H) * Cardinality(N)
  BY <1>3, <1>4, FS_Product
<1> DEFINE D == H \X N
<1>10. IsFiniteSet(D) /\ D \cap T = T /\ UsedTokens(I) = D \ T /\ D \subseteq AllTokens
  BY <1>5, <1>6, <1>7, <1>9
<1>11. Cardinality(D) = Cardinality(I) * TREE_SIZE
  BY <1>3, <1>4, <1>9
<1> HIDE DEF D
<1>12. IsFiniteSet(D \ T) /\ Cardinality(D \ T) = Cardinality(D) - Cardinality(D \cap T)
  BY <1>10, FS_Difference
<1>13. Cardinality(I) \in Nat
  BY <1>2, FS_CardinalityType
<1>14. Cardinality(I) * TREE_SIZE = TREE_SIZE * Cardinality(I)
  BY <1>1, <1>13
<1> QED BY <1>8, <1>10, <1>11, <1>12, <1>14

\* The classes account for all used frames.
LEMMA ClassesUsed ==
    ASSUME Between
    PROVE  SumOver(Classes, LAMBDA c : FastStats.classes[c].alloc_frames) = Cardinality(UsedTokens(Trees))
<1> DEFINE v == [c \in Classes |-> FastStats.classes[c].alloc_frames]
           part == [c \in Classes |-> UsedTokens(OfClass(c))]
           R(f) == f = [s \in SUBSET Classes |->
               IF s = {} THEN 0 ELSE FastStats.classes[First(s)].alloc_frames + f[s \ {First(s)}]]
<1>1. ASSUME NEW c \in Classes
      PROVE  part[c] \subseteq AllTokens /\ v[c] = Cardinality(part[c])
  <2>1. OfClass(c) \in SUBSET Trees
    BY DEF OfClass
  <2>2. v[c] = TREE_SIZE * Cardinality(OfClass(c)) - FreeIn(OfClass(c)) + 0
    BY ClassReport
  <2>3. part[c] = UsedTokens(OfClass(c))
    OBVIOUS
  <2> HIDE DEF v, part
  <2>4. /\ UsedTokens(OfClass(c)) \subseteq AllTokens
        /\ Cardinality(UsedTokens(OfClass(c))) = TREE_SIZE * Cardinality(OfClass(c)) - FreeIn(OfClass(c))
        /\ IsFiniteSet(UsedTokens(OfClass(c)))
    BY <2>1, UsedCount
  <2>5. Cardinality(UsedTokens(OfClass(c))) \in Nat
    BY <2>4, FS_CardinalityType
  <2>6. v[c] = Cardinality(UsedTokens(OfClass(c)))
    BY <2>2, <2>4, <2>5
  <2> QED BY <2>3, <2>4, <2>6
<1>2. ASSUME NEW I \in SUBSET Trees, NEW x
      PROVE  x \in UsedTokens(I) <=> \E i \in I : /\ x \in {<<"tree", i>>} \X (1 .. TREE_SIZE)
                                                 /\ x \notin Units(<<"tree", i>>, trees[i].free)
  <2>1. x \in UsedTokens(I) <=>
           /\ \E i \in I : x \in {<<"tree", i>>} \X (1 .. TREE_SIZE)
           /\ \A i \in I : x \notin Units(<<"tree", i>>, trees[i].free)
    BY DEF UsedTokens, Places, TreeTokens
  <2>2. ASSUME NEW i \in I, NEW j \in I, x \in {<<"tree", i>>} \X (1 .. TREE_SIZE),
               x \in Units(<<"tree", j>>, trees[j].free)
        PROVE  i = j
    BY <2>2 DEF Units
  <2> QED BY <2>1, <2>2
<1>3. \A c, d \in Classes : c # d => part[c] \cap part[d] = {}
  <2>1. ASSUME NEW c \in Classes, NEW x \in part[c] PROVE trees[x[1][2]].class = c
    <3>1. PICK i \in OfClass(c) : x \in {<<"tree", i>>} \X (1 .. TREE_SIZE)
      BY <1>2 DEF OfClass
    <3> QED BY <3>1 DEF OfClass
  <2> HIDE DEF part
  <2> QED BY <2>1
<1>4. UNION {part[c] : c \in Classes} = UsedTokens(Trees)
  <2>1. ASSUME NEW c \in Classes, NEW x \in part[c] PROVE x \in UsedTokens(Trees)
    <3>1. OfClass(c) \in SUBSET Trees /\ x \in UsedTokens(OfClass(c))
      BY DEF OfClass
    <3> HIDE DEF part
    <3> QED BY <1>2, <3>1
  <2>2. ASSUME NEW x \in UsedTokens(Trees) PROVE \E c \in Classes : x \in part[c]
    <3>1. PICK i \in Trees : /\ x \in {<<"tree", i>>} \X (1 .. TREE_SIZE)
                             /\ x \notin Units(<<"tree", i>>, trees[i].free)
      BY <1>2
    <3>2. /\ trees[i].class \in Classes /\ i \in OfClass(trees[i].class)
          /\ OfClass(trees[i].class) \in SUBSET Trees
      BY BetweenCalls DEF OfClass
    <3>3. x \in UsedTokens(OfClass(trees[i].class))
      BY <1>2, <3>1, <3>2
    <3> QED BY <3>2, <3>3
  <2> HIDE DEF part
  <2> QED BY <2>1, <2>2
<1>5. SumOver(Classes, LAMBDA c : FastStats.classes[c].alloc_frames) = (CHOOSE f : R(f))[Classes]
  BY DEF SumOver, MapThenSumSet, MapThenFoldSet, First
<1>6. ASSUME NEW f PROVE R(f) <=> Sums(Classes, v, f)
  <2>1. \A s \in SUBSET Classes : s # {} => First(s) \in Classes
    BY DEF First
  <2>2. \A s \in SUBSET Classes : s # {} => v[First(s)] = FastStats.classes[First(s)].alloc_frames
    BY <2>1
  <2> HIDE DEF v
  <2> QED BY <2>2 DEF Sums
<1>7. part \in [Classes -> SUBSET AllTokens] /\ \A c \in Classes : v[c] = Cardinality(part[c])
  BY <1>1
<1> HIDE DEF v, part, R
<1>8. /\ \E f : Sums(Classes, v, f)
      /\ \A f : Sums(Classes, v, f) => f[Classes] = Cardinality(UNION {part[c] : c \in Classes})
  BY <1>3, <1>7, StatsFinite, PartsSum
<1>9. (CHOOSE f : R(f))[Classes] = Cardinality(UNION {part[c] : c \in Classes})
  <2>1. R(CHOOSE f : R(f))
    BY <1>6, <1>8
  <2> QED BY <1>6, <1>8, <2>1
<1> QED BY <1>4, <1>5, <1>9

\* Clients have no more than that.
LEMMA HeldReported ==
    ASSUME QInv, Between
    PROVE  SumOf(Trees, held) <= Cardinality(UsedTokens(Trees))
<1> DEFINE low(i) == trees[i].free + 1
           high(i) == trees[i].free + held[i]
           part == [i \in Trees |-> {<<"tree", i>>} \X (low(i) .. high(i))]
           C == UNION {part[i] : i \in Trees}
<1>1. ASSUME NEW i \in Trees
      PROVE  /\ held[i] \in Nat /\ trees[i].free \in Nat /\ trees[i].free + held[i] <= TREE_SIZE
             /\ TREE_SIZE \in Nat
  BY HeldUsed, Constants
<1>2. ASSUME NEW i \in Trees
      PROVE  Cardinality(part[i]) = held[i]
  <2> DEFINE x == low(i)
             y == high(i)
             A == {<<"tree", i>>}
             B == x .. y
  <2>1. x \in Int /\ y \in Int /\ y - x + 1 = held[i] /\ (x > y => held[i] = 0)
    BY <1>1
  <2>2. part[i] = A \X B
    OBVIOUS
  <2>3. IsFiniteSet(A) /\ Cardinality(A) = 1
    BY FS_Singleton
  <2> HIDE DEF x, y, A, part
  <2>4. IsFiniteSet(B) /\ Cardinality(B) = IF x > y THEN 0 ELSE y - x + 1
    BY ONLY <2>1, FS_Interval
  <2>5. Cardinality(B) = held[i] /\ held[i] \in Nat
    BY <1>1, <2>1, <2>4
  <2> HIDE DEF B
  <2>6. Cardinality(A \X B) = Cardinality(A) * Cardinality(B)
    BY ONLY <2>3, <2>4, FS_Product
  <2> QED BY <2>2, <2>3, <2>5, <2>6
<1>3. ASSUME NEW i \in Trees PROVE part[i] \subseteq UsedTokens(Trees)
  <2>1. ASSUME NEW x \in part[i] PROVE x \in UsedTokens(Trees)
    <3>1. /\ x[1] = <<"tree", i>> /\ x = <<x[1], x[2]>>
          /\ x[2] \in 1 .. TREE_SIZE /\ x[2] > trees[i].free
      BY <1>1
    <3>2. x \in Places(Trees)
      BY <3>1 DEF Places
    <3>3. ASSUME NEW j \in Trees, x \in Units(<<"tree", j>>, trees[j].free) PROVE FALSE
      <4>1. x[1] = <<"tree", j>> /\ x[2] <= trees[j].free
        BY <1>1, <3>3 DEF Units
      <4>2. i = j
        BY <3>1, <4>1
      <4> QED BY <1>1, <3>1, <4>1, <4>2
    <3> QED BY <3>2, <3>3 DEF UsedTokens, TreeTokens
  <2> QED BY <2>1
<1>4. \A i, j \in Trees : i # j => part[i] \cap part[j] = {}
  <2>1. \A i \in Trees : \A x \in part[i] : x[1] = <<"tree", i>>
    OBVIOUS
  <2> HIDE DEF part
  <2> QED BY <2>1
<1> HIDE DEF part
<1>5. IsFiniteSet(Trees) /\ IsFiniteSet(UsedTokens(Trees))
  BY StatsFinite, UsedCount
<1>6. part \in [Trees -> SUBSET UsedTokens(Trees)]
  BY <1>3 DEF part
<1>7. \A i \in Trees : held[i] = Cardinality(part[i])
  BY <1>2
<1>8. SumOf(Trees, held) = Cardinality(C)
  BY ONLY <1>4, <1>5, <1>6, <1>7, SumOfIs
<1>9. C \in SUBSET UsedTokens(Trees)
  BY <1>3
<1> HIDE DEF C
<1> QED BY <1>5, <1>8, <1>9, FS_Subset

\* llfree_tree_stats reports between calls, from the entries and the slots alone, exactly the
\* frames that the lower allocator has free in trees that are not offline, no tree as free that is
\* not, and of each class what adds up to all free frames and to no less than the clients have.
THEOREM FastReportsExact ==
    ASSUME Clients
    PROVE  Spec => []FastStatsExact
<1>1. QInv => FastStatsExact
  <2> SUFFICES ASSUME QInv, \A t \in Threads : pc[t] = "idle"
               PROVE  /\ FastStats.free_frames = SumOver(Trees \ offline, LAMBDA i : room[i])
                      /\ FastStats.free_trees <= Cardinality({i \in Trees \ offline : room[i] = TREE_SIZE})
                      /\ SumOver(Classes, LAMBDA c : FastStats.classes[c].free_frames) = FastStats.free_frames
                      /\ SumOver(Classes, LAMBDA c : FastStats.classes[c].alloc_frames)
                            >= SumOver(Trees, LAMBDA i : held[i])
    BY DEF FastStatsExact
  <2>1. Between
    BY DEF Between, QInv
  <2>2. FastStats.free_frames = SumOf(Trees \ offline, room)
    BY <2>1, FreeReported, TotalReport
  <2>3. FastStats.free_trees <= Cardinality({i \in Trees \ offline : room[i] = TREE_SIZE})
    BY <2>1, WholeReported, TotalReport
  <2>4. SumOver(Classes, LAMBDA c : FastStats.classes[c].free_frames) = FastStats.free_frames
    BY <2>1, ClassesFree, TotalReport
  <2>5. SumOver(Classes, LAMBDA c : FastStats.classes[c].alloc_frames) = Cardinality(UsedTokens(Trees))
    BY <2>1, ClassesUsed
  <2>6. SumOf(Trees, held) <= Cardinality(UsedTokens(Trees)) /\ Cardinality(UsedTokens(Trees)) \in Nat
    BY <2>1, HeldReported, UsedCount, FS_CardinalityType
  <2>7. /\ SumOver(Trees \ offline, LAMBDA i : room[i]) = SumOf(Trees \ offline, room)
        /\ SumOver(Trees, LAMBDA i : held[i]) = SumOf(Trees, held)
    BY DEF SumOf
  <2>8. SumOver(Classes, LAMBDA c : FastStats.classes[c].alloc_frames) >= SumOver(Trees, LAMBDA i : held[i])
    BY <2>5, <2>6, <2>7
  <2> QED BY <2>2, <2>3, <2>4, <2>7, <2>8
<1>2. Init => QInv
  BY InitPool
<1>3. QInv /\ [Next]_vars => QInv'
  BY NextPool
<1> QED BY <1>1, <1>2, <1>3, PTL DEF Spec
=============================================================================
