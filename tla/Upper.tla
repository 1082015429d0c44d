------------------------------- MODULE Upper --------------------------------
(***************************************************************************)
(* The upper allocator (src/llfree.c, src/trees.c, src/local.c): the free  *)
(* frames of every tree are counted in the tree's entry and in the slot of *)
(* the core that has reserved the tree.  A call first takes frames out of  *)
(* such a counter and only then asks the lower allocator for them; what it *)
(* has taken and not used it gives back.  Every atomic update of an entry  *)
(* or of a slot is one action.                                             *)
(*                                                                         *)
(* The lower allocator is seen from outside: it knows how many frames of a *)
(* tree are free, and may refuse a request although there are enough if    *)
(* they are scattered or if another call interferes.                       *)
(***************************************************************************)
EXTENDS Tree, FiniteSets, Sequences

CONSTANTS
    Threads,
    FRAMES,      \* managed frames
    HUGE,        \* LLFREE_CHILD_SIZE: larger requests do not search nearby
    NEAR,        \* bound of the search nearby
    ALIGN,       \* the search starts at a multiple of ALIGN
    SEARCH_BEST, \* TREES_SEARCH_BEST: candidates a search remembers
    Locals,      \* the number of slots of each class
    Calls,       \* the requests that clients make
    Careful,     \* whether clients only take trees online that are offline
    Full,        \* whether the frames are initially free or allocated
    MaxRestarts  \* bound on the number of restarts

NoLocal == -1

ASSUME UpperAssumption ==
    /\ FRAMES \in Nat \ {0}
    /\ HUGE \in Nat /\ NEAR \in Nat /\ ALIGN \in Nat \ {0} 
    /\ SEARCH_BEST \in Nat \ {0}
    /\ Locals \in [Classes -> Nat]
    /\ Careful \in BOOLEAN
    /\ Full \subseteq BOOLEAN
    /\ MaxRestarts \in Nat

VARIABLES
    trees,     \* the entry of each tree
    slots,     \* the reservation of each core, by class
    room,      \* the frames of each tree that the lower allocator has free
    pc,
    call,      \* the request of each thread
    loc,       \* where a thread is in its searches and loops
    hand,      \* frames a thread has taken from the counters of a tree
    spare,     \* a reservation that a thread has replaced and must release
    held,      \* the number of frames of each tree that the clients have
    offline,   \* trees that the clients have taken offline
    restarts

counters == <<trees, slots, room>>
thread   == <<pc, call, loc, hand, spare>>
vars     == <<counters, thread, held, offline, restarts>>

TreeCount == (FRAMES + TREE_SIZE - 1) \div TREE_SIZE
Trees     == 0 .. TreeCount - 1

\* The last tree may be partial.
FramesOf(i) == IF FRAMES - i * TREE_SIZE < TREE_SIZE
               THEN FRAMES - i * TREE_SIZE ELSE TREE_SIZE

Slots == UNION {{c} \X (0 .. Locals[c] - 1) : c \in Classes}

\* A reservation, or the frames that a thread has in hand: frames of a tree,
\* with (present) or without the right to be the only one that reserved it.
Reservation(present, tree, free) ==
    [present |-> present, tree |-> tree, free |-> free]

Nothing == Reservation(FALSE, 0, 0)

\* One entry is read, searched or changed at a time.
NoLoc == [from |-> "local", sync |-> TRUE, start |-> 0, phase |-> "near", i |-> 0,
          best |-> <<>>, tree |-> 0, left |-> {}, class |-> DefaultClass,
          seen |-> Entry(FALSE, DefaultClass, 0), free |-> 0]

NoCall == [op |-> "drain", class |-> DefaultClass, local |-> NoLocal, n |-> 1, tree |-> 0]

NoTree == -1

\* A request names a class, a slot or none, a size and, except for a get of any
\* frames, a tree.  A change has an entry to match and what to make of it.
Requests ==
    [op : {"get", "get_at", "put"}, class : Nat, local : Nat \cup {NoLocal},
     n : Nat \ {0}, tree : Trees]

Changes ==
    [op : {"change"},
     match  : [id : Nat \cup {NoTree}, class : Classes \cup {NoClass}, free : Nat],
     change : [class : Classes \cup {NoClass}, operation : Operations]]

ASSUME CallsAssumption == Calls \subseteq Requests \cup Changes \cup {NoCall}

-----------------------------------------------------------------------------
(* Initialisation: llfree_init with INIT_FREE or INIT_ALLOC. *)

\* Mutant: the last tree is counted as complete.
InitEntryFull(i, free) == Entry(FALSE, DefaultClass, IF free = 0 THEN 0 ELSE TREE_SIZE)

\* trees_init with init_tree_cb: what the lower allocator has free.
InitEntry(i, free) == Entry(FALSE, DefaultClass, free)

Init ==
    \E full \in Full :
        /\ room  = [i \in Trees |-> IF full THEN FramesOf(i) ELSE 0]
        /\ trees = [i \in Trees |-> InitEntry(i, room[i])]
        /\ slots = [s \in Slots |-> Nothing]
        /\ held  = [i \in Trees |-> IF full THEN 0 ELSE FramesOf(i)]
        /\ pc    = [t \in Threads |-> "idle"]
        /\ call  = [t \in Threads |-> NoCall]
        /\ loc   = [t \in Threads |-> NoLoc]
        /\ hand  = [t \in Threads |-> Nothing]
        /\ spare = [t \in Threads |-> Nothing]
        /\ offline = {}
        /\ restarts = 0

-----------------------------------------------------------------------------
(* Threads. *)

\* A failed assertion aborts the process.
Aborted == \E t \in Threads : pc[t] = "abort"

At(t, label) == ~Aborted /\ pc[t] = label

Goto(t, label) == pc' = [pc EXCEPT ![t] = label]

SetLoc(t, l) == loc' = [loc EXCEPT ![t] = l]

Hold(t, r) == hand' = [hand EXCEPT ![t] = r]

\* The slot that the request names.
SlotOf(t) == <<call[t].class, call[t].local>>

\* Mutant: ll_reserved_dec does not compare the counter.
FitsUncounted(t, r) ==
    r.present /\ (call[t].op = "get_at" => r.tree = call[t].tree)

\* ll_reserved_dec: whether the frames for t can be taken from slot r, which for
\* a given frame has to be a reservation of the frame's tree.
Fits(t, r) ==
    /\ r.present /\ r.free >= call[t].n
    /\ call[t].op = "get_at" => r.tree = call[t].tree

\* The order in which loops over all classes and their slots visit a slot.
Rank(class, index, s) ==
    <<(s[1] - class) % MAX_CLASSES, (s[2] - index) % Locals[s[1]]>>

IsFirst(s, S, class, index) ==
    \A r \in S :
        LET a == Rank(class, index, s)
            b == Rank(class, index, r)
        IN a[1] < b[1] \/ (a[1] = b[1] /\ a[2] <= b[2])

\* Whether slot s is the one that t visits next in its loop over slots.
IsNext(t, s) ==
    IsFirst(s, loc[t].left, call[t].class,
            IF call[t].local = NoLocal THEN 0 ELSE call[t].local)

AnswerTo(t, class) == Policy(call[t].class, class, call[t].n).type

\* ll_local_steal and ll_local_demote_any: the slots whose class fits.
StealSlots(t) == {s \in Slots : AnswerTo(t, s[1]) \in {"match", "steal"}}

DemoteSlots(t) ==
    {s \in Slots : s[1] # call[t].class /\ AnswerTo(t, s[1]) = "demote"}

-----------------------------------------------------------------------------
(* Where a call goes on when one of its attempts has failed. *)

Aligned(start) == start - (start % ALIGN)

\* search_and_reserve: first nearby for small requests, then everywhere; or the
\* search of a request without a slot of its own.
SearchFrom(t, start, phase) ==
    /\ SetLoc(t, [NoLoc EXCEPT !.start = start, !.phase = phase,
                               !.i = IF phase = "near" THEN 1 ELSE 0])
    /\ Goto(t, "scan")

LocalMiss(t, start) ==
    IF call[t].op = "get"
    THEN SearchFrom(t, Aligned(start), IF call[t].n < HUGE THEN "near" ELSE "global")
    ELSE /\ SetLoc(t, [NoLoc EXCEPT !.from = "tree", !.tree = call[t].tree,
                                    !.class = call[t].class])
         /\ Goto(t, "load")

StealLocal(t) ==
    /\ SetLoc(t, [NoLoc EXCEPT !.from = "steal", !.left = StealSlots(t)])
    /\ Goto(t, "steal")

\* Mutant: out-of-memory handling stops after steal_local.
DemoteLocalNever(t) == SetLoc(t, NoLoc) /\ Goto(t, "memory")

DemoteLocal(t) ==
    /\ SetLoc(t, [NoLoc EXCEPT !.from = "demote", !.left = DemoteSlots(t)])
    /\ Goto(t, "demote")

\* The lower allocator refused, and the frames are back in the counters.
AfterFailure(t) ==
    CASE loc[t].from = "local"  -> LocalMiss(t, loc[t].tree)
      [] loc[t].from = "search" -> SetLoc(t, loc[t]) /\ Goto(t, "scan")
      [] loc[t].from = "steal"  -> DemoteLocal(t)
      [] loc[t].from \in {"tree", "demote"} -> SetLoc(t, NoLoc) /\ Goto(t, "memory")
      [] OTHER -> SetLoc(t, NoLoc) /\ Goto(t, "ok")  \* of a put

-----------------------------------------------------------------------------
(* Calls and returns. *)

\* validate_request.
Valid(r) ==
    /\ r.class \in Classes
    /\ r.local # NoLocal => r.local < Locals[r.class]
    /\ r.n <= TREE_SIZE /\ r.n <= FRAMES
    /\ r.op # "get" => r.n <= FramesOf(r.tree)

\* A get uses its slot only if there are fewer slots of the class than trees.
UsesLocal(r) ==
    r.local # NoLocal /\ Locals[r.class] # 0 /\ Locals[r.class] < TreeCount

StartOf(r) ==
    IF r.local # NoLocal /\ Locals[r.class] # 0
    THEN (TreeCount \div Locals[r.class]) * r.local ELSE 0

Begin(t, r) == At(t, "idle") /\ call' = [call EXCEPT ![t] = r]

UseLocal(t, start) == SetLoc(t, [NoLoc EXCEPT !.start = start]) /\ Goto(t, "local")

\* llfree_get without a frame.
Get(t, r) ==
    /\ r.op = "get" /\ Begin(t, r)
    /\ IF ~Valid(r) THEN Goto(t, "argument") /\ UNCHANGED loc
       ELSE IF UsesLocal(r) THEN UseLocal(t, StartOf(r))
       ELSE SearchFrom(t, StartOf(r), "any")
    /\ UNCHANGED <<counters, hand, spare, held, offline, restarts>>

\* llfree_get of a given frame of tree r.tree: llfree_get_at.
GetAt(t, r) ==
    /\ r.op = "get_at" /\ Begin(t, r)
    /\ IF ~Valid(r) THEN Goto(t, "argument") /\ UNCHANGED loc
       ELSE IF r.local # NoLocal THEN UseLocal(t, 0)
       ELSE /\ SetLoc(t, [NoLoc EXCEPT !.from = "tree", !.tree = r.tree,
                                       !.class = r.class])
            /\ Goto(t, "load")
    /\ UNCHANGED <<counters, hand, spare, held, offline, restarts>>

\* llfree_put of frames that the clients hold.
Put(t, r) ==
    /\ r.op = "put" /\ Begin(t, r)
    /\ held[r.tree] >= r.n
    /\ IF ~Valid(r) THEN Goto(t, "argument") /\ UNCHANGED held
       ELSE /\ held' = [held EXCEPT ![r.tree] = @ - r.n]
            /\ Goto(t, "put")
    /\ SetLoc(t, [NoLoc EXCEPT !.from = "put"])
    /\ UNCHANGED <<counters, hand, spare, offline, restarts>>

\* llfree_drain: release all reservations, class by class.
Drain(t, r) ==
    /\ r.op = "drain" /\ Begin(t, r)
    /\ SetLoc(t, [NoLoc EXCEPT !.left = Slots])
    /\ Goto(t, "drain")
    /\ UNCHANGED <<counters, hand, spare, held, offline, restarts>>

Done == {"ok", "memory", "argument"}

\* The frames of tree i that the clients get, or get back, from the call of t.
Given(t, i) ==
    LET got  == pc[t] = "ok" /\ call[t].op \in {"get", "get_at"} /\ i = hand[t].tree
        back == pc[t] = "memory" /\ call[t].op = "put" /\ i = call[t].tree
    IN  IF got \/ back THEN call[t].n ELSE 0

Return(t) ==
    /\ \E r \in Done : At(t, r)
    /\ held' = [i \in Trees |-> held[i] + Given(t, i)]
    /\ call' = [call EXCEPT ![t] = NoCall]
    /\ SetLoc(t, NoLoc) /\ Hold(t, Nothing)
    /\ Goto(t, "idle")
    /\ UNCHANGED <<counters, spare, offline, restarts>>

-----------------------------------------------------------------------------
(* get_local: the slot of the request, and its tree's own counter. *)

LocalGet(t) ==
    LET r == slots[SlotOf(t)] IN
    /\ At(t, "local")
    /\ IF Fits(t, r)
       THEN /\ slots' = [slots EXCEPT ![SlotOf(t)].free = @ - call[t].n]
            /\ Hold(t, Reservation(FALSE, r.tree, call[t].n))
            /\ SetLoc(t, [loc[t] EXCEPT !.tree = r.tree])
            /\ Goto(t, "lower")
       ELSE /\ IF loc[t].sync /\ r.present /\ r.free < call[t].n
               THEN /\ SetLoc(t, [loc[t] EXCEPT !.tree = r.tree, !.free = r.free])
                    /\ Goto(t, "sync")
               ELSE LocalMiss(t, IF r.present THEN r.tree ELSE loc[t].start)
            /\ UNCHANGED <<slots, hand>>
    /\ UNCHANGED <<trees, room, call, spare, held, offline, restarts>>

\* sync_with_global: take what was freed past the slot into the tree's counter.
SyncSteal(t) ==
    LET i == loc[t].tree IN
    /\ At(t, "sync")
    /\ IF CanSync(trees[i], call[t].n - loc[t].free)
       THEN /\ trees' = [trees EXCEPT ![i].free = 0]
            /\ Hold(t, Reservation(FALSE, i, trees[i].free))
            /\ Goto(t, "sync_put") /\ UNCHANGED loc
       ELSE LocalMiss(t, i) /\ UNCHANGED <<trees, hand>>
    /\ UNCHANGED <<slots, room, call, spare, held, offline, restarts>>

\* Mutant: ll_local_put does not compare the trees.
IsForAny(r, i) == r.present

\* ll_local_put: whether slot r is a reservation of tree i.
IsFor(r, i) == r.present /\ r.tree = i

\* ll_local_put of what t has in hand, at label; then continue with next.
PutInSlot(t, label, l, next) ==
    LET r == slots[SlotOf(t)] IN
    /\ At(t, label)
    /\ CASE ~IsFor(r, hand[t].tree) ->
              Goto(t, "give_back") /\ UNCHANGED <<slots, hand, loc>>
         [] IsFor(r, hand[t].tree) /\ r.free + hand[t].free > TREE_SIZE ->
              Goto(t, "abort") /\ UNCHANGED <<slots, hand, loc>>
         [] OTHER ->
              /\ slots' = [slots EXCEPT ![SlotOf(t)].free = @ + hand[t].free]
              /\ Hold(t, Nothing) /\ SetLoc(t, l) /\ Goto(t, next)
    /\ UNCHANGED <<trees, room, call, spare, held, offline, restarts>>

\* The slot may have been swapped meanwhile; otherwise try it again.
SyncPut(t) == PutInSlot(t, "sync_put", [NoLoc EXCEPT !.sync = FALSE,
                                                     !.start = loc[t].start], "local")

-----------------------------------------------------------------------------
(* The lower allocator. *)

\* A request that fits can be refused if the free frames are scattered or, for a
\* given frame, if it is not among them, or if another thread has taken or freed
\* frames of the tree while the request was looking for them.
MayRefuse(t, i) ==
    \/ room[i] < call[t].n
    \/ room[i] < FramesOf(i) /\ (call[t].n > 1 \/ call[t].op = "get_at")
    \/ Threads # {t}

Lower(t) ==
    LET i == hand[t].tree IN
    /\ At(t, "lower")
    /\ \/ /\ room[i] >= call[t].n
          /\ room' = [room EXCEPT ![i] = @ - call[t].n]
          /\ Hold(t, [hand[t] EXCEPT !.free = @ - call[t].n])
          /\ Goto(t, IF hand[t].present THEN "swap" ELSE "ok")
       \/ /\ MayRefuse(t, i)
          /\ Goto(t, "give_back")
          /\ UNCHANGED <<room, hand>>
    /\ UNCHANGED <<trees, slots, call, loc, spare, held, offline, restarts>>

\* Mutant: a refused reservation is given back without releasing the tree.
EntryWithKept(t) == TreePut(trees[hand[t].tree], hand[t].free)

\* trees_unreserve or trees_put of what t has in hand.
EntryWith(t) ==
    LET i == hand[t].tree IN
    IF hand[t].present THEN TreeUnreserve(trees[i], hand[t].free, call[t].class)
    ELSE TreePut(trees[i], hand[t].free)

\* trees_unreserve returns without doing anything if the tree is not reserved.
Ignored(t) == hand[t].present /\ ~trees[hand[t].tree].reserved

\* Put what t has in hand back into the tree's counter.
GiveBack(t) ==
    LET i == hand[t].tree IN
    /\ At(t, "give_back")
    /\ IF ~Ignored(t) /\ ~CanPut(trees[i], hand[t].free)
       THEN Goto(t, "abort") /\ UNCHANGED <<trees, hand, loc>>
       ELSE /\ trees' = IF Ignored(t) THEN trees
                        ELSE [trees EXCEPT ![i] = EntryWith(t)]
            /\ Hold(t, Nothing)
            /\ AfterFailure(t)
    /\ UNCHANGED <<slots, room, call, spare, held, offline, restarts>>

-----------------------------------------------------------------------------
(* trees_search_best. *)

\* Positions are visited to both sides of the start, alternately.
Position(start, i) ==
    (start + TreeCount + (IF i % 2 = 0 THEN i \div 2 ELSE -((i + 1) \div 2))) % TreeCount

SearchEnd(t) == IF loc[t].phase = "near" THEN NEAR ELSE TreeCount

\* rate_reserve_near_tree, rate_reserve_global_tree, rate_global_tree.
Rate(t, tree) ==
    LET p == Policy(call[t].class, tree.class, tree.free) IN
    CASE tree.free < call[t].n -> PolicyResult("invalid", 0)
      [] tree.free >= call[t].n /\ loc[t].phase = "any" -> p
      [] tree.free >= call[t].n /\ loc[t].phase # "any" /\ p.type = "demote"
            /\ tree.free = TREE_SIZE -> PolicyResult("match", PERFECT)
      [] tree.free >= call[t].n /\ loc[t].phase = "near" /\ p.type = "match" -> p
      [] tree.free >= call[t].n /\ loc[t].phase = "global" /\ p.type = "match" ->
            PolicyResult("match", PERFECT)
      [] tree.free >= call[t].n /\ loc[t].phase = "global" -> p
      [] OTHER -> PolicyResult("invalid", 0)

\* The candidates, by descending priority, with one more.
Insert(best, priority, i) ==
    LET k    == Cardinality({b \in DOMAIN best : best[b].priority >= priority})
        all  == SubSeq(best, 1, k) \o <<[priority |-> priority, tree |-> i]>>
                    \o SubSeq(best, k + 1, Len(best))
    IN  SubSeq(all, 1, IF Len(all) < SEARCH_BEST THEN Len(all) ELSE SEARCH_BEST)

\* What is done with a tree that is tried: the reserving searches take it over
\* (reserve_or_steal_cb), the search without a slot only steals (steal_cb).
Try(t, l, i) ==
    /\ SetLoc(t, [l EXCEPT !.from = "search", !.tree = i, !.class = call[t].class])
    /\ Goto(t, IF l.phase = "any" THEN "load" ELSE "reserve")

PastEnd(t) == loc[t].i >= SearchEnd(t)

\* A tree that the search passes over.  Candidates are remembered with their
\* priority + 1 in a uint8_t, which wraps to "no candidate" for the highest one.
PassedOver(tree, rate) ==
    \/ tree.reserved \/ rate.type = "invalid"
    \/ rate.type # "match" /\ (rate.priority + 1) % 256 = 0

\* Look at the next tree.
Scan(t) ==
    LET i    == Position(loc[t].start, loc[t].i)
        rate == Rate(t, trees[i])
        l    == [loc[t] EXCEPT !.i = @ + 1]
    IN
    /\ At(t, "scan") /\ ~PastEnd(t)
    /\ IF PassedOver(trees[i], rate)
       THEN SetLoc(t, l) /\ UNCHANGED pc
       ELSE IF rate = PolicyResult("match", PERFECT) THEN Try(t, l, i)
       ELSE /\ SetLoc(t, [l EXCEPT !.best = Insert(@, rate.priority, i)])
            /\ UNCHANGED pc
    /\ UNCHANGED <<counters, call, hand, spare, held, offline, restarts>>

\* Try the best of the remembered candidates, or end the search.
Pick(t) ==
    /\ At(t, "scan") /\ PastEnd(t)
    /\ IF loc[t].best # <<>>
       THEN Try(t, [loc[t] EXCEPT !.best = Tail(@)], Head(loc[t].best).tree)
       ELSE IF loc[t].phase = "near" THEN SearchFrom(t, loc[t].start, "global")
       ELSE StealLocal(t)
    /\ UNCHANGED <<counters, call, hand, spare, held, offline, restarts>>

-----------------------------------------------------------------------------
(* Taking frames of a tree that t has no slot for. *)

HasLocals(class) == Locals[class] # 0

\* trees_reserve_or_steal.  A class without slots cannot keep the tree.
Reserve(t) ==
    LET i == loc[t].tree
        tree == trees[i]
        class == call[t].class
    IN
    /\ At(t, "reserve")
    /\ \/ /\ CanReserve(tree, class, call[t].n)
          /\ trees' = [trees EXCEPT ![i] = Entry(TRUE, class, 0)]
          /\ Hold(t, Reservation(TRUE, i, tree.free))
          /\ Goto(t, IF HasLocals(class) THEN "lower" ELSE "give_back")
       \/ /\ CanOnlySteal(tree, class, call[t].n)
          /\ trees' = [trees EXCEPT ![i].free = @ - call[t].n]
          /\ Hold(t, Reservation(FALSE, i, call[t].n))
          /\ Goto(t, IF HasLocals(tree.class) THEN "lower" ELSE "give_back")
       \/ /\ ~CanReserve(tree, class, call[t].n) /\ ~CanOnlySteal(tree, class, call[t].n)
          /\ Goto(t, "scan")
          /\ UNCHANGED <<trees, hand>>
    /\ UNCHANGED <<slots, room, call, loc, spare, held, offline, restarts>>

\* trees_steal's atom_update: the function writes the class it found to the
\* variable from which the next attempt reads the class of the request.
StealFrom(t, tree) ==
    IF CanSteal(tree, loc[t].class, call[t].n)
    THEN /\ SetLoc(t, [loc[t] EXCEPT !.seen = tree,
                                     !.class = ClassAfterSteal(tree, loc[t].class)])
         /\ Goto(t, "steal_cas")
    ELSE IF loc[t].from = "search" THEN SetLoc(t, loc[t]) /\ Goto(t, "scan")
    ELSE StealLocal(t)

StealLoad(t) ==
    /\ At(t, "load")
    /\ StealFrom(t, trees[loc[t].tree])
    /\ UNCHANGED <<counters, call, hand, spare, held, offline, restarts>>

\* Mutant: the entry is stored instead of compared and exchanged.
SeenIgnored(t) == TRUE

\* Whether a compare-and-swap of the entry that t has loaded succeeds.
StillSeen(t) == trees[loc[t].tree] = loc[t].seen

StealCas(t) ==
    LET i == loc[t].tree
        l == loc[t]
    IN
    /\ At(t, "steal_cas")
    /\ IF StillSeen(t)
       THEN /\ trees' = [trees EXCEPT ![i] =
                  Entry(l.seen.reserved, l.class, l.seen.free - call[t].n)]
            /\ Hold(t, Reservation(FALSE, i, call[t].n))
            /\ SetLoc(t, [l EXCEPT !.seen = NoLoc.seen])
            /\ Goto(t, "lower")
       ELSE StealFrom(t, trees[i]) /\ UNCHANGED <<trees, hand>>
    /\ UNCHANGED <<slots, room, call, spare, held, offline, restarts>>

-----------------------------------------------------------------------------
(* Reservations change hands. *)

\* The reservation to release when slot r is overwritten.
Replaced(r) == IF r.present THEN r ELSE Nothing

\* swap_reserved: the slot gets the tree that t has reserved.
Swap(t) ==
    LET s == <<call[t].class, call[t].local % Locals[call[t].class]>> IN
    /\ At(t, "swap")
    /\ slots' = [slots EXCEPT ![s] = hand[t]]
    /\ spare' = [spare EXCEPT ![t] = Replaced(slots[s])]
    /\ Hold(t, Reservation(FALSE, hand[t].tree, 0))
    /\ Goto(t, IF Replaced(slots[s]).present THEN "unreserve" ELSE "ok")
    /\ UNCHANGED <<trees, room, call, loc, held, offline, restarts>>

\* Mutant: the frames of the replaced reservation are dropped.
SpareEntryDropped(t) == TreeUnreserve(trees[spare[t].tree], 0, call[t].class)

\* The class of the slot that the reservation comes from.
SpareClass(t) == IF call[t].op = "drain" THEN loc[t].class ELSE call[t].class

SpareEntry(t) == TreeUnreserve(trees[spare[t].tree], spare[t].free, SpareClass(t))

\* Mutant: a call that has its frames goes on as one that only took a tree.
AfterUnreserveAgain(t) == IF call[t].op = "drain" THEN "drain" ELSE "lower"

AfterUnreserve(t) ==
    IF call[t].op = "drain" THEN "drain"
    ELSE IF loc[t].from = "demote" THEN "lower" ELSE "ok"

\* Release the reservation that was replaced or drained.
Unreserve(t) ==
    LET i == spare[t].tree IN
    /\ At(t, "unreserve")
    /\ IF trees[i].reserved /\ ~CanPut(trees[i], spare[t].free)
       THEN Goto(t, "abort") /\ UNCHANGED <<trees, spare>>
       ELSE /\ trees' = IF trees[i].reserved
                        THEN [trees EXCEPT ![i] = SpareEntry(t)] ELSE trees
            /\ spare' = [spare EXCEPT ![t] = Nothing]
            /\ Goto(t, AfterUnreserve(t))
    /\ UNCHANGED <<slots, room, call, loc, hand, held, offline, restarts>>

\* ll_local_drain, slot by slot.
DrainSlot(t) ==
    /\ At(t, "drain")
    /\ \/ loc[t].left = {} /\ Goto(t, "ok") /\ UNCHANGED <<slots, spare, loc>>
       \/ \E s \in loc[t].left :
            /\ IsFirst(s, loc[t].left, 0, 0)
            /\ slots' = [slots EXCEPT ![s] = Nothing]
            /\ SetLoc(t, [loc[t] EXCEPT !.left = @ \ {s}, !.class = s[1]])
            /\ spare' = [spare EXCEPT ![t] = Replaced(slots[s])]
            /\ IF Replaced(slots[s]).present THEN Goto(t, "unreserve") ELSE UNCHANGED pc
    /\ UNCHANGED <<trees, room, call, hand, held, offline, restarts>>

-----------------------------------------------------------------------------
(* llfree_put. *)

\* lower_put of allocated frames: the free of a part of a huge page can fail if
\* another call has been splitting the page meanwhile.
LowerPut(t) ==
    LET i == call[t].tree IN
    /\ At(t, "put")
    /\ \/ /\ room[i] + call[t].n <= FramesOf(i)
          /\ room' = [room EXCEPT ![i] = @ + call[t].n]
          /\ Hold(t, Reservation(FALSE, i, call[t].n))
          /\ Goto(t, IF call[t].local # NoLocal THEN "put_slot" ELSE "give_back")
       \/ /\ Threads # {t} /\ call[t].n < HUGE
          /\ Goto(t, "memory")
          /\ UNCHANGED <<room, hand>>
    /\ UNCHANGED <<trees, slots, call, loc, spare, held, offline, restarts>>

\* Count the frames in the slot if it has reserved their tree.
PutSlot(t) == PutInSlot(t, "put_slot", NoLoc, "ok")

-----------------------------------------------------------------------------
(* Out of memory: the slots of other cores and classes. *)

\* The next slot does not have what t needs.
SkipSlot(t, s) ==
    /\ ~Fits(t, slots[s])
    /\ SetLoc(t, [loc[t] EXCEPT !.left = @ \ {s}])
    /\ UNCHANGED <<slots, pc, hand, spare>>

\* ll_local_steal: take frames from the next slot that has enough.
StealSlot(t) ==
    /\ At(t, "steal")
    /\ \/ loc[t].left = {} /\ DemoteLocal(t) /\ UNCHANGED <<slots, hand, spare>>
       \/ \E s \in loc[t].left : IsNext(t, s) /\
            \/ SkipSlot(t, s)
            \/ /\ Fits(t, slots[s])
               /\ slots' = [slots EXCEPT ![s].free = @ - call[t].n]
               /\ Hold(t, Reservation(FALSE, slots[s].tree, call[t].n))
               /\ Goto(t, "lower") /\ SetLoc(t, [loc[t] EXCEPT !.left = {}])
               /\ UNCHANGED spare
    /\ UNCHANGED <<trees, room, call, held, offline, restarts>>

\* ll_local_demote_any: a request with a slot of its own will put the tree there,
\* the others release it at once, except for what they asked for.
TakeTree(t, r) ==
    IF call[t].local # NoLocal
    THEN /\ Hold(t, r) /\ Goto(t, "demote_swap") /\ UNCHANGED spare
    ELSE /\ Hold(t, Reservation(FALSE, r.tree, call[t].n))
         /\ spare' = [spare EXCEPT ![t] = [r EXCEPT !.free = @ - call[t].n]]
         /\ Goto(t, "unreserve")

\* ll_local_demote_any: take the next reservation that has enough frames.
TakeSlot(t) ==
    /\ At(t, "demote")
    /\ \/ /\ loc[t].left = {} /\ Goto(t, "memory") /\ SetLoc(t, NoLoc)
          /\ UNCHANGED <<slots, hand, spare>>
       \/ \E s \in loc[t].left : IsNext(t, s) /\
            \/ SkipSlot(t, s)
            \/ /\ Fits(t, slots[s])
               /\ slots' = [slots EXCEPT ![s] = Nothing]
               /\ SetLoc(t, [loc[t] EXCEPT !.left = {}])
               /\ TakeTree(t, slots[s])
    /\ UNCHANGED <<trees, room, call, held, offline, restarts>>

\* ll_local_demote_any: the requesting slot gets the tree.
DemoteSwap(t) ==
    LET r == slots[SlotOf(t)] IN
    /\ At(t, "demote_swap")
    /\ slots' = [slots EXCEPT ![SlotOf(t)] = [hand[t] EXCEPT !.free = @ - call[t].n]]
    /\ Hold(t, Reservation(FALSE, hand[t].tree, call[t].n))
    /\ spare' = [spare EXCEPT ![t] = Replaced(r)]
    /\ Goto(t, IF Replaced(r).present THEN "unreserve" ELSE "lower")
    /\ UNCHANGED <<trees, room, call, loc, held, offline, restarts>>

-----------------------------------------------------------------------------
(* llfree_change_tree.  A call gives [id, class, free] to match and [class,   *)
(* operation] to apply; id NoTree means the first tree that matches.         *)

\* A careful client takes a tree online only if it is offline, and only once.
MayChange(r) ==
    Careful /\ r.change.operation = "online" =>
        /\ r.match.id \in offline
        /\ \A u \in Threads : ~(call[u].op = "change" /\ call[u].match.id = r.match.id
                                /\ call[u].change.operation = "online")

Change(t, r) ==
    /\ r.op = "change" /\ MayChange(r) /\ Begin(t, r)
    /\ IF r.match.free > TREE_SIZE \/ r.match.id >= TreeCount
       THEN Goto(t, "memory") /\ UNCHANGED loc
       ELSE /\ SetLoc(t, [NoLoc EXCEPT !.tree = IF r.match.id = NoTree
                                                THEN Position(0, 0) ELSE r.match.id])
            /\ Goto(t, "change")
    /\ UNCHANGED <<counters, hand, spare, held, offline, restarts>>

\* trees_change_at: load the entry.
ChangeLoad(t) ==
    /\ At(t, "change")
    /\ SetLoc(t, [loc[t] EXCEPT !.seen = trees[loc[t].tree]])
    /\ Goto(t, IF call[t].change.operation = "online" THEN "fetch" ELSE "change_cas")
    /\ UNCHANGED <<counters, call, hand, spare, held, offline, restarts>>

\* Ask the lower allocator how many frames of the tree are free.
ChangeFetch(t) ==
    /\ At(t, "fetch")
    /\ SetLoc(t, [loc[t] EXCEPT !.free = room[loc[t].tree]])
    /\ Goto(t, "change_cas")
    /\ UNCHANGED <<counters, call, hand, spare, held, offline, restarts>>

\* Mutant: the search for a tree to change does not advance.
ChangeNextSame(t) ==
    IF call[t].match.id = NoTree /\ loc[t].i + 1 < TreeCount
    THEN SetLoc(t, [NoLoc EXCEPT !.i = loc[t].i, !.tree = loc[t].tree]) /\ Goto(t, "change")
    ELSE SetLoc(t, NoLoc) /\ Goto(t, "memory")

\* The entry does not match: try the next tree if any will do.
ChangeNext(t) ==
    IF call[t].match.id = NoTree /\ loc[t].i + 1 < TreeCount
    THEN /\ SetLoc(t, [NoLoc EXCEPT !.i = loc[t].i + 1, !.tree = Position(0, loc[t].i + 1)])
         /\ Goto(t, "change")
    ELSE SetLoc(t, NoLoc) /\ Goto(t, "memory")

ChangeCas(t) ==
    LET i      == loc[t].tree
        change == call[t].change
    IN
    /\ At(t, "change_cas")
    /\ IF ~CanChange(loc[t].seen, call[t].match, change)
       THEN ChangeNext(t) /\ UNCHANGED <<trees, offline>>
       ELSE IF StillSeen(t)
       THEN /\ trees' = [trees EXCEPT ![i] = Changed(@, change, loc[t].free)]
            /\ offline' = CASE change.operation = "offline" -> offline \cup {i}
                             [] change.operation = "online"  -> offline \ {i}
                             [] OTHER -> offline
            /\ SetLoc(t, NoLoc) /\ Goto(t, "ok")
       ELSE /\ SetLoc(t, [loc[t] EXCEPT !.seen = trees[i]])
            /\ Goto(t, IF change.operation = "online" THEN "fetch" ELSE "change_cas")
            /\ UNCHANGED <<trees, offline>>
    /\ UNCHANGED <<slots, room, call, hand, spare, held, restarts>>

-----------------------------------------------------------------------------
(* llfree_init of memory that has been used before. *)

\* One token for each frame of tree i that a call is about to get from the lower
\* allocator (at "lower"), or to free there (at "put").
Pending(i, label) ==
    {d \in Threads \X (1 .. TREE_SIZE) :
        /\ pc[d[1]] = label /\ d[2] <= call[d[1]].n
        /\ i = IF label = "put" THEN call[d[1]].tree ELSE hand[d[1]].tree}

\* What recovery can find free of tree i: a call that was cut off in the lower
\* allocator may have marked or cleared a part of its frames.
Recovered(i) ==
    {n \in 0 .. FramesOf(i) :
        /\ n >= room[i] - Cardinality(Pending(i, "lower"))
        /\ n <= room[i] + Cardinality(Pending(i, "put"))}

\* After a crash, with INIT_RECOVER: the lower allocator is recovered, everything
\* else starts anew.
Restart ==
    /\ restarts < MaxRestarts
    /\ restarts' = restarts + 1
    /\ \E left \in [Trees -> 0 .. TREE_SIZE] :
          /\ \A i \in Trees : left[i] \in Recovered(i)
          /\ room'  = left
          /\ trees' = [i \in Trees |-> InitEntry(i, left[i])]
    /\ slots' = [s \in Slots |-> Nothing]
    /\ pc'    = [t \in Threads |-> "idle"]
    /\ call'  = [t \in Threads |-> NoCall]
    /\ loc'   = [t \in Threads |-> NoLoc]
    /\ hand'  = [t \in Threads |-> Nothing]
    /\ spare' = [t \in Threads |-> Nothing]
    /\ offline' = {}
    /\ UNCHANGED held

\* After a shutdown, with INIT_NONE: the trees are as they were left, the slots
\* start anew.  The client has drained them before it let go of the memory.
Attach ==
    /\ \A t \in Threads : pc[t] = "idle"
    /\ \A s \in Slots : ~slots[s].present
    /\ restarts < MaxRestarts
    /\ restarts' = restarts + 1
    /\ slots' = [s \in Slots |-> Nothing]
    /\ UNCHANGED <<trees, room, thread, held, offline>>

-----------------------------------------------------------------------------

\* A step inside a call, up to its return.
Step(t) ==
    \/ LocalGet(t) \/ SyncSteal(t) \/ SyncPut(t) \/ Lower(t) \/ GiveBack(t)
    \/ Scan(t) \/ Pick(t) \/ Reserve(t) \/ StealLoad(t) \/ StealCas(t)
    \/ Swap(t) \/ Unreserve(t) \/ DrainSlot(t) \/ LowerPut(t) \/ PutSlot(t)
    \/ StealSlot(t) \/ TakeSlot(t) \/ DemoteSwap(t)
    \/ ChangeLoad(t) \/ ChangeFetch(t) \/ ChangeCas(t)
    \/ Return(t)

Start(t) == \E r \in Calls : Get(t, r) \/ GetAt(t, r) \/ Put(t, r) \/ Drain(t, r) \/ Change(t, r)

Next == (\E t \in Threads : Start(t) \/ Step(t)) \/ Restart \/ Attach

Spec == Init /\ [][Next]_vars

-----------------------------------------------------------------------------
(* Properties. *)

Labels == {"idle", "local", "sync", "sync_put", "lower", "give_back", "scan",
           "reserve", "load", "steal_cas", "swap", "unreserve", "drain", "put",
           "put_slot", "steal", "demote", "demote_swap", "change", "fetch",
           "change_cas", "abort"} \cup Done

Reservations == [present : BOOLEAN, tree : Trees, free : 0 .. TREE_SIZE]

\* The type of every variable; no counter leaves 0 .. TREE_SIZE, so none of
\* their bit-fields wraps.
TypeOK ==
    /\ trees \in [Trees -> Entries]
    /\ slots \in [Slots -> Reservations]
    /\ room \in [Trees -> 0 .. TREE_SIZE]
    /\ pc \in [Threads -> Labels]
    /\ call \in [Threads -> Calls \cup {NoCall}]
    /\ hand \in [Threads -> Reservations]
    /\ spare \in [Threads -> Reservations]
    /\ held \in [Trees -> Nat]
    /\ offline \in SUBSET Trees
    /\ restarts \in 0 .. MaxRestarts

\* Everything that can have reserved a tree, or have frames of it in hand.
Holders ==
    ({"slot"} \X Slots) \cup ({"hand", "spare"} \X Threads)

HeldBy(h) ==
    CASE h[1] = "slot"  -> slots[h[2]]
      [] h[1] = "hand"  -> hand[h[2]]
      [] h[1] = "spare" -> spare[h[2]]

\* One token for each frame of tree i that some holder counts.
Tokens(i) ==
    {d \in Holders \X (1 .. TREE_SIZE) :
        HeldBy(d[1]).tree = i /\ d[2] <= HeldBy(d[1]).free}

\* No free frame is forgotten or counted twice: the entry of a tree, the slots
\* and the calls in progress together count what the lower allocator has free,
\* at every step and for every tree that is not offline.
Conserved ==
    \A i \in Trees \ offline : trees[i].free + Cardinality(Tokens(i)) = room[i]

\* A tree is reserved by at most one slot or call at a time, and is marked as
\* reserved exactly while there is one: none is stuck in that state for ever.
ReservedOnce ==
    /\ \A g, h \in Holders :
          g # h /\ HeldBy(g).present /\ HeldBy(h).present => HeldBy(g).tree # HeldBy(h).tree
    /\ \A i \in Trees :
          trees[i].reserved <=> \E h \in Holders : HeldBy(h).present /\ HeldBy(h).tree = i

\* No counter overflows: the assertions of tree_put and ll_reserved_inc hold.
NoAbort == ~Aborted

\* Nothing is allocated from a tree that was taken offline while it was entirely
\* free, also not by a call that saw it before.
OfflineUnused ==
    \A i \in offline :
        /\ room[i] = FramesOf(i) /\ Tokens(i) = {}
        /\ trees[i].free = 0 /\ ~trees[i].reserved

\* Without interference, a request for one frame fails only if all free frames
\* are counted in the entries of reserved trees, where only the core that has
\* reserved the tree looks; a request for a given frame of a tree that is
\* entirely free never fails.
OutOfMemoryExact ==
    \A t \in Threads : pc[t] = "memory" =>
        /\ call[t].op = "get" /\ call[t].n = 1 => \A i \in Trees :
              room[i] = 0 \/ (trees[i].reserved /\ trees[i].free = room[i])
        /\ call[t].op = "get_at" /\ call[t].n = 1 =>
              room[call[t].tree] < FramesOf(call[t].tree)

\* What a call has done so far, seen from its client: a request of frames is
\* served once the lower allocator has given or taken them.
State(t) ==
    LET op == call[t].op IN
    CASE pc[t] = "idle" -> "idle"
      [] pc[t] = "argument" /\ op = "put" -> "rejected"
      [] pc[t] = "ok" /\ op # "drain" -> "served"
      [] pc[t] \in {"swap", "put_slot"} -> "served"
      [] pc[t] = "give_back" /\ op = "put" -> "served"
      [] pc[t] = "unreserve" /\ op # "drain" /\ loc[t].from = "search" -> "served"
      [] OTHER -> "called"

From(t) ==
    IF State(t) # "served" \/ call[t].op = "change" THEN 0
    ELSE IF call[t].op = "put" THEN call[t].tree ELSE hand[t].tree

Pool == INSTANCE FramePool WITH
    Capacity <- [i \in Trees |-> FramesOf(i)],
    Calls    <- Calls \cup {NoCall},
    free     <- room,
    state    <- [t \in Threads |-> State(t)],
    from     <- [t \in Threads |-> From(t)]

\* Every call takes effect at most once, on one tree that has the frames and is
\* not offline, and reports what it has done, whatever detours it takes through
\* slots, trees and retries and whatever other calls do meanwhile.
ImplementsPool == Pool!Spec

\* A tree that a request takes frames from keeps its class or gets the class of
\* the request.
StolenForRequest ==
    [][\A t \in Threads : pc[t] = "steal_cas" /\ pc'[t] = "lower" =>
          LET i == loc[t].tree IN trees'[i].class \in {trees[i].class, call[t].class}]_vars
=============================================================================
