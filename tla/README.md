# LLFree in TLA+

A TLA+ development of LLFree, the page-frame allocator in this repository: the
specifications of its two layers, the TLC configurations that check them on
small instances, and proofs about them for every instance. File references such
as `src/src/lower.c:151` are relative to the repository's parent: `src/` is the
repository, and the allocator's own code is in `src/src/`.

## 1. Inventory

LLFree hands out blocks of `2^order` page frames to many threads without locks.
It has two layers.

| part | code | state | operations |
|---|---|---|---|
| geometry | `std/llfree_types.h`, `src/utils.h` | none | conversions, circular iteration |
| bitfield | `src/bitfield.c` | one bit per frame, 64 to an atomic word (row), 8 rows to a field | `field_set_next`, `field_toggle` |
| child | `src/child.c` | one atomic entry `[free:15, huge:1]` per field | `child_inc`, `child_dec` |
| lower allocator | `src/lower.c` | fields and children, possibly in persistent memory | `lower_get`, `lower_get_at`, `lower_put`, `lower_clear`, `lower_recover` |
| tree | `src/tree.c` | one atomic entry `[reserved, class, free]` per tree | put, steal, reserve or steal, unreserve, sync, change |
| trees | `src/trees.c` | the array of entries, volatile | atomic updates, `trees_search`, `trees_search_best`, `trees_change` |
| local | `src/local.c` | per class an array of slots `[present, free, start row]` | get, put, swap, steal, demote, drain |
| upper allocator | `src/llfree.c` | the three above | `llfree_init`, `_get`, `_put`, `_drain`, `_change_tree` |
| policies | `include/llfree.h` | none | how a request of one class may use a tree of another |
| metadata layout | `llfree.c`, `lower.c`, `local.c`, `trees.h` | none | sizes, offsets, `check_meta` |
| statistics | `lower.c`, `trees.c`, `local.c`, `llfree.c` | none | `lower_stats`, `lower_stats_at`, `llfree_tree_stats`, `llfree_validate` |

**Interaction.** Every call runs on the thread of its caller; threads share
memory and nothing else. A call first takes frames out of a *counter* (its
slot's, or a tree's), then asks the lower allocator for the *frames*, and
repairs the counter if it refuses. The lower allocator repeats the pattern one
level down: first the counter of a child, then the bits. Only the lower
allocator decides which frames are used; everything above it is a hint about
where to look, rebuilt from it after a crash. There are no locks, messages or
callbacks except two functions that the client supplies or that are passed
down: the policy, and `llfree_change_fetch_free`, which `trees_change` calls in
the middle of its compare-and-swap loop.

**What is hard here.**

* Counter and bits, and slot, tree counter and lower allocator, are changed by
  separate atomic operations, with every interleaving in between.
* An operation on several words undoes what it has done if a later word does
  not agree, while other threads see the intermediate values.
* Huge pages are split by the free of a part of them, which two threads can
  attempt at once; one waits for the other, a bounded number of times.
* A reservation passes through many hands: tree, call, slot, another call that
  swaps, drains or demotes it, tree. Values read before are used after.
* A compare-and-swap loop calls its update function again after a failed
  attempt, with whatever the function has done to its arguments.
* A crash can come between any two stores; recovery must not free what is used.
* The last child and the last tree may be partial.
* A word is searched with subtractions and masks whose borrows cross the blocks
  that they look for.
* The two levels never agree at one moment: a frame is free below before it is
  counted above, and may be taken again in between.
* Near exhaustion the free frames sit in other cores' slots.

**What makes each part correct.**

* Lower allocator: no frame has two owners; the metadata mark exactly the owned
  frames; counters and bits agree up to what calls are moving; a search that
  runs alone finds what is there; a valid free is not refused; no
  call waits for another thread, and of calls that disturb one another some return;
  recovery restores all that.
* Upper allocator: counters, slots and calls together count exactly the free
  frames; a tree is reserved by one slot or call, and never stuck reserved; no
  counter overflows; a tree that is offline is not used; memory is reported
  exhausted only if it is; retry loops do not starve everyone, and a thread that
  stops does not stop others.
* Both: a call takes effect at most once, entirely or not at all, and reports what
  it has done; when no call is in progress `llfree_validate` succeeds.
* Statistics: between calls they are exact. Layout: no two parts share memory.

`PROJECT.json` lists the hazards line by line with the properties that cover
each of them.

## 2. Modules

```
Geometry ── Lower ──┬── LowerStats, Words ──── MCLower
                    ├── LowerProofs ── LowerCounted (with LowerStats)
                    └── INSTANCE FrameOwnership

Tree ────── Upper ──┬── UpperStats, Layout, Policies ──── MCUpper
                    ├── UpperProofs (with UpperStats)
                    └── INSTANCE FramePool

FramePool ── PoolProofs, which UpperProofs instantiates
Tally: extended by LowerProofs, UpperProofs, PoolProofs and LLFreeProofs

LLFree: INSTANCE Lower, INSTANCE Upper (twice: its actions, and as the promise)
  ├── MCLLFree
  └── LLFreeProofs ── LLFreeSteps ── LLFreeCounted
        (INSTANCE LowerCounted, INSTANCE UpperProofs)
```

| module | models |
|---|---|
| `Geometry` | Frames, rows, children, trees and `for_offsetted`. |
| `Lower` | `lower.c`, `bitfield.c`, `child.c`: every atomic access is an action. |
| `FrameOwnership` | What the lower allocator promises, as a state machine over sets of frames; `Lower` implements it. |
| `LowerStats` | `lower_stats`, `lower_stats_at`. |
| `Words` | Rows as words: `first_zeros_aligned`, `row_toggle`, `init_field`, and the power-of-two arithmetic of `utils.h`. |
| `Tree` | What every atomic update makes of a tree's entry (`tree.c`). |
| `Upper` | `llfree.c`, `trees.c`, `local.c`: every atomic update is an action; the lower allocator is seen from outside. |
| `FramePool` | What the allocator promises its clients, tree by tree; `Upper` implements it. |
| `UpperStats` | `llfree_tree_stats`. |
| `Policies` | The two policies of `llfree.h`. |
| `LLFree` | Both levels together: the calls of `Upper`, each with its calls of `Lower`; `llfree_validate`. |
| `Layout` | Sizes and offsets of the metadata, `check_meta`. |
| `MCLower`, `MCUpper`, `MCLLFree` | Instances for TLC, fairness and the liveness properties. |
| `Tally` | Lemmas about counting with tokens, which both levels do, and about sums over finite sets. |
| `LowerProofs` | Theorems: types; no frame has two owners; `Lower` implements `FrameOwnership`; calls stay in their tree. |
| `LowerCounted` | Theorems: bits, counters and owners agree; no abort; frees are accepted; undisturbed searches are complete; reports are exact. |
| `UpperProofs` | Theorems: types, exclusive reservations; every free frame is counted once; no abort; offline trees are unused; `Upper` implements `FramePool`, and inherits its balance; fast statistics are exact. |
| `PoolProofs` | Theorem: `FramePool` never gives away more than a tree has. |
| `LLFreeProofs` | Theorems: the whole allocator uses `Lower` as `Lower` specifies, and inherits what holds of it. |
| `LLFreeSteps` | Lemmas: every step of a call in the whole allocator keeps the invariant that links both levels and maps to a step of `Upper`. |
| `LLFreeCounted` | Theorems: the whole allocator implements `Upper`; `llfree_validate` succeeds between calls. |

### State and code

`pc[t]` is a thread's position in the code; the labels are named after the
operation that comes next. `call[t]` holds the arguments, `loc[t]` the loop
counters and local variables.

**Lower.** `bits` is the set of frames whose bit is set, `children` the entries.
`own[t]`, `held` and `lost` are history variables: the frames that a call has
marked and not yet handed over, that clients have, and that a crash took from a
call. They let the properties speak of owners; no guard of the code reads them.
(The guard of `Put` does: it describes clients.)

| code | actions |
|---|---|
| `lower_get`, orders below a huge page | `Get`, `ChildDec`, `SearchRow` or `SetRow`/`UndoSetRow`, `UndoDec` |
| `lower_get_at` | `GetAt`, `ChildDec`, `Toggle("mark")`/`UndoToggle`, `UndoDec` |
| `lower_put` | `Put`, `PutInvalid`, `Load`, `Toggle("clear")`/`UndoToggle`, `ChildInc` |
| `split_huge` | `Toggle("split")`/`UndoToggle`, `SplitCas`, `SplitWait` |
| huge orders, `try_update_huge_n` | `HugeCas`, `UndoHuge` |
| `lower_clear`, `lower_recover` | `Init`, `Crash` with `RecoverChild` |

**Upper.** `trees` and `slots` are the code's. `room[i]` stands for the lower
allocator: how many frames of tree `i` it has free. `hand[t]` is what a call has
taken out of a counter, `spare[t]` a reservation it has pushed out of a slot and
must release; both live in C local variables. `held[i]` counts what clients have,
and `offline` is a history variable.

| code | actions |
|---|---|
| `get_local`, `sync_with_global` | `LocalGet`, `SyncSteal`, `SyncPut` |
| `trees_search_best`, `search_and_reserve` | `Scan`, `Pick` |
| `reserve_or_steal_cb`, `steal_cb` | `Reserve`, `StealLoad`, `StealCas` |
| `lower_get`, `lower_put` seen from outside | `Lower`, `LowerPut` |
| giving back after a refusal | `GiveBack` |
| `swap_reserved` | `Swap`, `Unreserve` |
| `steal_local`, `demote_local` | `StealSlot`, `TakeSlot`, `DemoteSwap` |
| `llfree_put` | `Put`, `LowerPut`, `PutSlot`, `GiveBack` |
| `llfree_drain` | `Drain`, `DrainSlot`, `Unreserve` |
| `llfree_change_tree` | `Change`, `ChangeLoad`, `ChangeFetch`, `ChangeCas` |
| `llfree_init` with `RECOVER` | `Restart` |
| `llfree_init` with `NONE` | `Attach` |

**LLFree** has the variables of both, those of `Lower` that clash renamed
(`lpc`, `lcall`, `lloc`, `lheld`). `room` and `held` of `Upper` are no variables here: they
are the definitions `Room` and `Held`, computed from the frames owned below.
`target[t]` is the frame a `get_at` or `put` names, `down` says that a crash is
being recovered from.

| code | actions |
|---|---|
| steps of `llfree.c`, `trees.c`, `local.c` | `Start`, `Put`, `UpperStep` |
| `lower_get` and `lower_put`: call, steps, return | `LowerGet` or `Put`, `LowerStep`, `GetSucceeds`, `GetRefused`, `PutSucceeds`, `PutRefused` |
| return to the client | `Return` |
| crash, `lower_recover`, then `trees_init` and `ll_local_init` | `Crash`, `Recover`, `Boot` |

### Abstractions

* *Atomic steps.* An `atom_update` loop is one action, in which its
  compare-and-swap succeeds or its function refuses: failed attempts change
  nothing. That they may go on for ever is left to the fairness of the liveness runs
  (section 3). Two loops are modelled attempt by attempt, because their failed
  attempts do have an effect: `trees_steal` (the function overwrites its
  argument) and `trees_change` (the counter is fetched again). Memory is
  sequentially consistent: the code uses acquire and release atomics
  (`std/llfree_platform.h:41`), and what these would allow beyond an interleaving
  of the accesses to different words is not modelled. Spurious failures of a weak compare-and-swap are not modelled.
* *Blocks have sizes, not orders.* Powers of two become constants, so small
  instances need not be powers of two.
* *`first_zeros_aligned`* is its result in `Lower`, the lowest aligned free block of
  a row; `Words` shows that its shifts and masks find that block.
* *Upper over lower.* `Lower` (the action) succeeds when `room` has enough, and
  may refuse where the real lower allocator can: the free frames are scattered, a
  given frame is not among them, or another thread exists at all. The last is as
  weak as it has to be: the composition shows refusals that another call has
  caused although it has returned by the time they are noticed. A put of less than
  a huge page may be refused likewise (`split_huge`). That `room` never exceeds
  the frames of a tree is the lower allocator's own invariant (`Accounted`), used
  as the guard of `LowerPut`. `LLFree!ImplementsUpper` checks all this.
* *A reservation's start row* is abstracted to its tree, the only part a counter
  depends on, so `ll_local_set_start` changes nothing.
* *`ChangeFetch`* reads the sum over the tree's children in one step; the code
  adds them up one after the other. The trees for which the clients below may ask
  for this are offline, where the sum does not change.
* *Clients* free only what they hold, at sizes that the documented interface
  allows; with `Split = FALSE` they do not free parts of huge pages. With
  `Careful = TRUE` they take a tree online only if it is offline, by one call per
  tree at a time.
* *Crashes.* All threads stop between two atomic accesses; the lower metadata
  survive with all stores that came before, in program order. `RecoverChild`
  repairs one child in one step; a crash between two children starts the recovery
  over. In `Upper` the counters are volatile and a restart rebuilds them from
  `room`; a call that was cut off in the lower allocator may have marked or cleared
  part of its frames (`Recovered`), and frames of calls that it had served remain
  allocated, as in `Lower`'s `lost`.
* *Frees* in `Lower` are those of careful clients (`MayFree`): a block of a huge page
  or more is freed while its children are still huge, so a huge page that was split goes
  back in parts. That `lower_put` refuses it as a whole is not exercised.
* *`Attach`* (`LLFREE_INIT_NONE`) has the precondition that the slots were drained:
  the header says "Assume the allocator is already initialized"
  (`src/include/llfree.h:105`), and the tree of a slot that is dropped would stay
  reserved. That clients meet it is assumed, not checked.
* *Words* are 16 bits wide in the run, 64 in the code; the masks that the code
  writes out are computed from the width.
* *Reports* of `LowerStats` and `UpperStats` are functions of one state. The code adds
  them up access by access, so they are claimed to be exact only between calls.

Operators marked *Mutant* are faulty variants of a definition, as a plausible
mistake in the code would produce it. No specification uses them; replacing
the definition by its variant makes TLC report the property that
`PROJECT.json` pairs with it, which shows that the property can fail.

## 3. Runs

States are distinct states of the complete search; violations stop early.

| run | instance | checks | states |
|---|---|---|---|
| `shared` | 2 threads; rows of 1 frame, 4 rows, 2 children, the last partial; crash | `TypeOK`, `Exclusive`, `Accounted`, `CounterExact`, `NoAbort`, `ImplementsOwnership` | 1.4 M |
| `solo` | 1 thread; rows of 2, 2 rows, 2 trees of 2 children, 9 frames; splits; both initial states; crash; words of 16 bits | `Accounted`, `CounterExact`, `NoAbort`, `GetComplete`, `PutAccepted`, `InTree`, `StatsExact`, `SearchExact`, `MasksExact` | 0.7 M |
| `split` | 2 threads freeing parts of huge pages | `Exclusive`, `PutRefusedOnlyInSplit` | 0.4 M |
| `progress` | 2 threads, sizes up to two huge pages | `SomeCallReturns` | 0.1 M |
| `undo_huge` | 1 thread, two huge pages at once | `Accounted` (violated) | |
| `undo_rows` | 1 thread, `lower_get_at` of two rows | `NoAbort` (violated) | |
| `upper_shared` | 2 threads; 2 trees of 2 frames, 2 classes with a slot each; get, get_at, put, drain | `TypeOK`, `Conserved`, `ReservedOnce`, `NoAbort` | 1.1 M |
| `upper_solo` | 1 thread; 3 trees, the last partial; 1 and 2 slots; both initial states; invalid requests; restart or attach | `Conserved`, `OutOfMemoryExact`, `MemoryApart`, `ImplementsPool` | 1.0 M |
| `upper_change` | 2 threads; change_tree with get and put; a class without slots | `Conserved`, `OfflineUnused`, `FastStatsExact`, `ImplementsPool`, `SomeCallReturns` | 0.4 M |
| `upper_online` | a tree taken online that is not offline | `NoAbort` (violated) | |
| `upper_class` | a steal that has to retry | `StolenForRequest` (violated) | |
| `composed` | both levels, 2 threads; 2 trees of 1 child of 1 row of 2 frames, the last partial; splits; both initial states; crash | `ValidWhenQuiet`, `ImplementsUpper` | 0.4 M |

### What they show

`shared` is the heart of the lower layer. With two threads, every order of the
atomic accesses of two calls, at every fill level, hands out no frame twice and
loses none; counters and bits agree up to the frames that calls owe; and seen as
sets of frames the lower allocator does only what `FrameOwnership` allows: a
call collects free frames and releases its own, and ends empty-handed or with
one aligned block of the requested size. `solo` needs only one thread because
its properties speak of calls that nobody disturbs: a search fails only when no
block fits, a free is always accepted, also after a crash in the middle of a
split. `InTree` is what the level above relies on without looking: it has taken the
frames from the counter of one tree, and the search, which wraps around, must not take
them from another. `split` and `progress` are about `split_huge`: the two threads' attempts
never free a frame that is held, a free is refused only while another thread is
splitting the same page, and nobody waits for a thread that has stopped.

`upper_shared` checks that no frame is forgotten: at *every* step, not only when
all is quiet, the tree's entry, the slots and the calls in progress add up to
what the lower allocator has free. `upper_solo` checks the end of memory: a
request for one frame fails only if all free frames are counted in the entries
of *reserved* trees. That exception is real: `sync_with_global` takes
such a counter only if it is *more* than the frames the slot lacks
(`src/src/tree.c:88`), and searches skip reserved trees, so the last
frame freed past a reservation stays out of reach until the slot is drained or replaced.
`upper_change` adds trees that go offline under the feet of searches that have seen
them, and reports that are added up from entries and slots.

`ImplementsPool` (in `upper_solo` and `upper_change`) looks at the same calls from
outside. Behind retries, refusals, stolen and demoted reservations, a call has one
effect on one tree, entirely or not at all, and returns what it has done; a get is
served from a tree that is not offline; after a crash only frames of calls that
were in progress can be missing or have come back.

`composed` closes the gap between the levels. Every atomic access of both, in
every order, is a step of `Upper` with `room` read as "frames of the tree that nobody
owns, minus those whose put has not returned", or no step of it. A frame that a put
has cleared can be found by another get before the put's caller has counted it; the
refinement mapping lets the put take effect when it returns, and the composition
shows that this order is always possible. A crash is one step of `Upper`, taken when
it happens: the mapping shows `trees` as the recovery is going to find them.
`ValidWhenQuiet` is `llfree_validate`: the tests call it at the end of each run, here
it holds in every state without calls in progress.

Three properties rest on formulas without variables, in `Words` and `Layout`, which TLC
evaluates once and for all states: `SearchExact` compares
the bit tricks of `first_zeros_aligned` with their purpose for all 65,536 words of 16
bits and all block sizes, `MasksExact` the masks, partial rows and power-of-two
arithmetic, `MemoryApart` the sizes and offsets of the metadata for frame counts around
the boundaries of children and trees, trees of 1 to 128 children, and all classings
of up to three classes. One detail came out of the last: `ll_local_mem_size` adds up the classes
`0 .. num_classes - 1`, while `ll_local_size` adds up the configured ones. They
agree, and `MemoryApart` says so, if the ids are exactly those.

### Bounds

* Two threads: each action touches one shared word, and each property relates at
  most two calls to one another or a call to the clients; `RETRIES = 2` lets a
  waiting thread see both outcomes. Three threads are beyond these runs' budget
  and in the plan; the theorems hold for any number.
* Rows of 1 or 2 frames, fields of 2 to 4 rows, 1 or 2 children: the smallest
  geometries that have blocks of part of a row, of one row, of several rows, of
  a huge page and of several huge pages, a partial last child and searches that
  wrap around.
* Trees of 2 frames make every fill level (none, some, all) reachable in few
  steps; three trees distinguish nearby from global search and give a wrap. The
  search bounds are `NEAR = 2`, `ALIGN = 4` where the code has
  `max(trees / 16, cache line / 4)` and the next power of two of twice that (4
  and 8 for small memories): with two or three trees larger values only repeat.
  `SEARCH_BEST = 2` is less than the number of trees, so candidates are dropped.
* `upper_solo` gives class 1 two slots, so a slot of the same class can be
  stolen from; class 0 of `upper_change` has none, which is the
  case in which a reserved tree cannot be kept.
* One crash or restart, at any step, and in `Lower` any number of further
  crashes during the recovery.
* `composed` has one row to a child. With several rows and a crash the late split
  (second path of the finding `undo_rows`) can be cut off after it has marked frames
  that are free; recovery then keeps them allocated although no call owns them and
  the refinement fails, as it should. With a single row there
  is no such state: the row holds the frame that the call itself is about to free, so
  a late split finds it marked and stops. Two trees, of which one is partial, let frames of one tree be
  freed while the other is searched.
* Words of 16 bits have all cases of the search: single bits, pairs, blocks inside
  a half (4 bits, the borrow), the half and the whole word.

`shared` uses `AtSizes = {1}` and `Split = FALSE`, `undo_rows` shows why: both
the multi-row `lower_get_at` and a late split run into the assertion that the
finding below is about. `split` therefore checks `Exclusive` and not `NoAbort`,
and the sizes of `shared` and `solo` end at one huge page, because `undo_huge`
needs two. The properties hold around the defects, not through them.

### Fairness

`progress` and `upper_change` watch one thread, which the operating system schedules;
the other may stop for ever between any two accesses. Scheduling a thread does not
make its compare-and-swap succeed: `child_dec`, `child_inc`, `row_toggle`,
`first_zeros_aligned` and all updates of trees and slots run inside `atom_update`,
which tries again whenever another access to the word came in between. The specification
of both runs (`ContendedSpec`) therefore assumes weak fairness of the watched thread's
steps *or* that the other thread changes memory again and again (`OthersInterfere`):
an action that stands for a whole loop may be starved, but only by accesses that
succeed. This is less than the code gives, which can only be disturbed in the same word
and not in its plain loads and its returns.

`SomeCallReturns` then is lock-freedom, for both levels: the watched thread
is idle again and again (or an assertion has failed), or calls of the other thread return
again and again. Threads that have stopped, at whichever access, delay nobody; a
thread can starve, but not because calls only undo one another's work.
Waiting for the splitting thread without a limit, or a search that does not advance,
violates it. No call is promised to return while others disturb it, and
neither run assumes that clients call again.

CHECK_DEADLOCK is off where a run may stop: a failed assertion ends the process
(`split`, `progress`, `composed`, violations). The other runs check for deadlock.

### Findings

* `undo_huge`: the undo of `try_update_huge_n` (`src/src/lower.c:151`) is off by
  one. It restores children `base+1 .. base+j` where it has changed
  `base .. base+j-1`: a huge page that a client holds is marked free.
* `undo_rows`: the undo of `field_toggle` (`src/src/bitfield.c:189`) compares
  with the value before its own change, so its assertion fails on the first use.
* `upper_online`: taking a tree online that is merely exhausted sets a counter
  that a free in flight increments again (`src/src/trees.c:219`).
* `upper_class`: `tree_steal` writes the class it found to the variable that a
  retry reads the request's class from (`src/src/tree.c:35`).

## 4. Theorems

| theorem | states | for |
|---|---|---|
| `LowerProofs!TypeCorrect` | `Spec => []TypeOK` | every instance |
| `LowerProofs!OwnersExclusive` | `Spec => []Exclusive` | `OneHuge` |
| `LowerProofs!LowerImplementsOwnership` | `Spec => ImplementsOwnership` | `OneHuge` |
| `LowerProofs!CallsStayInTree` | `Spec => []InTree` | `OneHuge` |
| `LowerCounted!FramesAccounted` | `Spec => []Accounted` | `Modest` |
| `LowerCounted!CountersExact` | `Spec => []CounterExact` | `Modest` |
| `LowerCounted!LowerNeverAborts` | `Spec => []NoAbort` | `Modest` |
| `LowerCounted!FreesAccepted` | `Spec => []PutAccepted` | `Modest` |
| `LowerCounted!SearchesComplete` | `Spec => []GetComplete` | `Modest`, `Alone` |
| `LowerCounted!ReportsExact` | `Spec => []StatsExact` | `Modest` |
| `UpperProofs!TypeCorrect` | `Spec => []TypeOK` | every instance |
| `UpperProofs!Exclusive` | `Spec => []ReservedOnce` | every instance |
| `UpperProofs!FramesConserved` | `Spec => []Conserved` | `Clients` |
| `UpperProofs!NeverAborts` | `Spec => []NoAbort` | `Clients` |
| `UpperProofs!OfflineStaysUnused` | `Spec => []OfflineUnused` | `Clients` |
| `UpperProofs!UpperImplementsPool` | `Spec => ImplementsPool` | `Clients` |
| `UpperProofs!ClientsBalanced` | `FramePool`'s balance holds of `Upper` | `Clients` |
| `UpperProofs!FastReportsExact` | `Spec => []FastStatsExact` | `Clients` |
| `PoolProofs!PoolBalanced` | `FramePool`'s balance holds of `FramePool` | `Sound` |
| `LLFreeProofs!UsesLower` | `Spec => LC!Spec`: the whole allocator is a use of `Lower` | every instance |
| `LLFreeProofs!FramesOwnedOnce` | `Spec => []L!Exclusive` | `LC!OneHuge` |
| `LLFreeProofs!FramesMarked` | `Spec => [](L!Accounted /\ L!NoAbort)` | `LC!Modest` |
| `LLFreeCounted!UpperIsImplemented` | `Spec => ImplementsUpper` | `LC!Modest` |
| `LLFreeCounted!CountersAgree` | `Spec => []ValidWhenQuiet` | `LC!Modest` |

"Every instance" means every geometry, number of threads, trees, classes and slots,
policy, set of requests and bound on crashes that satisfies the assumptions the
modules name: `GeometryAssumption`, `LowerAssumption`, `TreeAssumption`,
`UpperAssumption`, `CallsAssumption`, and for the composition `LLFreeAssumption`, which
implies those of its parts (`LowerParts`, `UpperParts`). TLC evaluates them for every instance it runs.
The number of threads is not bounded and may be infinite, except where a sum over
them is taken, which is finite because only finitely many of its terms are not zero.

### The hypotheses

The theorems with a third column exclude what the findings break, and nothing else
that the code would get right on its own:

* `OneHuge`: no call is for more than one huge page. The undo of
  `try_update_huge_n`, which only larger calls reach, frees a huge page that
  somebody holds (finding `undo_huge`), so `Exclusive` is false without it. Splits,
  `lower_get_at` of any size up to a huge page, and aborts are included.
* `Modest`: `OneHuge`, parts of huge pages are freed only if there is a single thread, and
  `lower_get_at` is asked for at most one row or for a huge page. Without it `NoAbort` is
  false (finding `undo_rows`, by both of its paths), and the late split of a second thread
  marks frames that nobody owns, so `Accounted` is false too. The run `shared` is an
  instance without splits; `solo` has one thread that splits.
* `LC!Modest` is `Modest` of the lower half of `LLFree`, where the sizes of `lower_get_at` are
  those of all calls: in the proofs about the composition no call is for several rows less than
  a huge page. The run `composed` is not bound by it: there two threads split huge pages.
* `Alone`: a single thread. With two, a search can miss a block that is freed behind it,
  and frames that another call has taken from the counter and not yet marked.
* `Clients`: `Careful`, and trees are taken offline only with all their frames in the
  entry (`OfflineWhole`). Without the first `NoAbort` is false (finding
  `upper_online`). Without the second a tree can go offline while a slot or a call
  still counts frames of it; when it comes online, its counter is set to all that the
  lower allocator has free and counts them again. The runs `upper_shared`,
  `upper_solo` and `upper_change` are instances.
* `Sound`: the capacities and sizes of requests are numbers.

### Lower

**`TypeCorrect`.** The interesting conjunct is that no child's counter
leaves `0 .. CHILD_SIZE`, which keeps the bit-field next to the huge flag from
overflowing. It holds because `child_dec` and `child_inc` check. What needs an
invariant is that the *positions* are numbers: loop bounds such as
`FIELD_N \div Parts(n)` are positive only for the sizes that reach the loop.
`PhaseOK` says which calls, of which sizes, are at which label; `TypeInv ==
TypeOK /\ PhaseOK` is inductive.

**`OwnersExclusive`.** Exclusiveness is not inductive: a thread that finds a bit clear
takes the frame, so a frame that is owned must be marked (`Marked`); a thread that
clears bits must own what it clears, so the proof has to know which frames a call
owns at each label and loop count (`OwnAt`), and that they lie in one child
(`AtChild`). A huge page is taken by comparing the *counter* with `CHILD_SIZE`, so
no frame of a child may be owned while its counter is full, and that
has to come from the counters: `CountOK` says that free frames, owned frames and frames that
calls owe add up to *at most* `CHILD_SIZE`. The inequality is what survives late
splits and aborts; the equality is `Modest`'s. `SplitAt` says what a split has marked
so far, without which `SplitCas` would open a child whose owned frames are not
marked. `XInv` is the conjunction, with what recovery needs (`RestOK`) and the children past
the end (`BeyondOK`).

A step is *calm* (`Calm`) if it changes no child's huge flag and the new owner had the
frames clear before; one lemma per action shows that it is, `CalmStep`
that calm steps keep `XInv`. The steps that do change a flag (`FlagStep`) and those at the edge of
a call (`Edge`), crash and recovery have their own lemmas. Sums over threads change by the
acting thread's term only, which is `SumStep`, from `Tally`: owed frames are counted as
a set of pairs `<<thread, k>>`, so that the lemmas about finite sets apply and nothing
has to be summed recursively.

**`LowerImplementsOwnership`.** `XInv` also carries the refinement. `FrameOwnership`'s own
guards (the frames it takes are free, the block it returns is aligned and of the
right size) are `Marked` and the last conjuncts of `OwnAt`. Every access is mapped to taking
frames, dropping frames or nothing (`MoveMaps`); begin and end of a call, crash and
stutter have a lemma each.

**`LowerCounted`.** `YInv` adds to `XInv` the other directions: every mark has an owner
(`BitsOK`), the field of a huge page has no set bits but those of a split that goes on, or
that a crash cut off and the recovery has not yet come to (`FieldsOK`), the sum is *exactly*
`CHILD_SIZE` (`SumOK`), a huge entry counts nothing (`FreeOK`), and `Plain`: calls never get
to the labels of a refused split, of the broken undo or of an abort, a free finds a huge
page if it is of one, and if it is not, none or one that it may split. So a split finds the
field clear, marks frames that are all owned, and its last compare-and-swap succeeds.
The last is not about one call: between the client's free and the load of the entry
other threads change entries; they cannot change *this* one because the call owns
frames of it. That a counter has room for what comes back
(`RoomFor`, hence `NoAbort`) is the exact sum and that the call's own debt is part of
it. `Accounted`, `CounterExact`, `NoAbort` and `PutAccepted` follow directly.

**`SearchesComplete`.** `Passed` says what a search has behind it: every child, row or group of
rows that it has visited has, in each aligned block of the size, a frame that clients hold or a
crash took (`Taken`), which stays so while the thread is inside its call. Children are passed
for two reasons. Either the counter was too low: since the sum is exact and nobody else is
in the middle of a call, a free block would be counted (`RoomCounted`, from `SumOK`). Or
all rows or groups of the child were looked at: a set bit is then of a frame that is held
(`SetBitHeld`, from `BitsOK`). What is left is arithmetic: `for_offsetted` visits every position
of a group, also when it starts in the middle (`VisitAll`), and every aligned block is among
what the loops look at (`RowsOfChild`, `GroupsOfChild`).

**`ReportsExact`.** Between calls a child counts the frames that nobody owns (`QuietCounts`), so
it is entirely free exactly if all of it can be got (`AllOf`): a last, partial child never is.
The report on a tree asks for more, that the *sum* of its children is the size of a tree,
which is so only if each of them is full (`QuietTree`), leftover entries behind the end
of memory included, which count nothing. Whole children and trees, found by number, are
then as many as the aligned blocks of free frames, found by their first frame (`Wholes`).
`FrameReport` is where the bits of a huge page, which are clear, and those of a child whose
recovery is complete are told apart by the counter.

### Upper

**`TypeCorrect`, `Exclusive`.** `ReservedOnce` says that a tree is reserved by at most
one slot or call, and marked as reserved *exactly* while there is one. A step
preserves it only if the call that acts has in hand what the label suggests:
`Swap` overwrites a slot with `hand[t]`, which must be the reservation, and loses
`spare[t]`, which must be empty; `Unreserve` clears the mark of a tree, which
must not be somebody else's. `Phase` states that, label by label:

* `OpAt`, `Origin`: which operation, from which part of the code, is here;
* `SlotNeeded`: where a call has to have named a slot, so that the slot exists;
* `InHand`: where a call may have a reservation in hand or one to release,
  and that it has as many frames as it will take (which keeps the differences
  in `TypeOK` from going below zero).

`IInv == TypeInv /\ PhaseOK /\ ReservedOnce` is inductive. How reservations pass
between holders is proved once, in `HandedOver` (one holder to another),
`Rotated` (a call's to the slot, the slot's to the call), `Acquired` (from the
tree) and `Released` (to the tree); there is one lemma per action above that, and
the mark of a tree needs the exact form, since `Acquired` starts from a tree that is
not marked and concludes that nobody else has it.

`ReservedOnce` is the reason that `trees_unreserve`'s silent return on a tree
that is not reserved (`src/src/trees.c:68`) never drops frames.

**`FramesConserved`, `NeverAborts`, `OfflineStaysUnused`.** `Conserved` says that a tree's entry, the slots and the calls count
its free frames exactly. `CInv` adds to `IInv`: where a call carries frames
(`Carried`), since a label at which `hand[t]` is overwritten must be one at which it is empty; that
an empty slot counts nothing (`SlotsOK`); and, for trees that go offline, that nothing of them is
counted anywhere while all of it is free (`CountOK`), that the call that takes one online has found
it offline (`ChangeAt`) and is the only one (`OnlineOnce`). The last two are why the
frames that `change` puts into the entry are not there already. From the exact
count, and `room[i] <= FramesOf(i)`, it follows that no counter exceeds its tree,
which is `NoAbort`. Frames are tokens `<<holder, k>>` again, and a step moves tokens of
at most two holders (`Tally!TwoAmounts`).

**`UpperImplementsPool`.** `FramePool` knows calls only as *called*, *served* or *rejected*, and changes a tree once
per call. The refinement needs that a label determines whether the call has had its
effect (`StateOf`, `DoingOK`): a call that gives back has either not been served, or is a put
that has. `QInv` is `CInv` with that. `PoolProofs` proves of `FramePool` alone that its promise rules
out giving frames away twice, and the refinement carries that to `Upper`.

**`FastReportsExact`.** Between calls only slots have reservations, so the entry of a tree and at
most one slot have all its room (`QuietEntries`); a tree that is offline has none. The totals
are numbers of tokens again: those of all entries and slots are, sorted by tree, the free
frames (`FreeReported`) and, sorted by class, what is reported of the classes (`ClassesFree`).
A tree whose slot has all its frames counts none in its entry, so no tree is reported twice
(`WholeReported`). That the frames reported as allocated are at least those that clients hold
needs the balance of `FramePool` (`HeldUsed`); they are more while slots have reservations.

### The composition

**`UsesLower`.** Every step of `LLFree` leaves rows, children and owners as a step of `Lower` or
does not touch them. All that has to be shown is that the requests which reach
`lower_get`, `lower_get_at` and `lower_put` are of sizes that `Lower` allows (`Asked`). So
every theorem about `Lower` is one about the lower half of `LLFree`: `FramesOwnedOnce` and
`FramesMarked` are instances, and the proofs below use `LowerCounted`'s invariant and
`GetComplete` as facts of every state (`LowerOK`, `LowerAlways`).

**`UpperIsImplemented`.** The refinement mapping computes `Upper`'s `room` from the owners of
frames below (`Room`): a call of `lower_get` takes its frames when it returns, and a call of
`lower_put` gives them back when it returns, although the frames may have been cleared, and
found by another call, before. So `Room` is the number of frames that are free or whose get
is in progress, minus what is being freed (`Freeing`), a difference that must not be negative.
That it is not, is part of `Upper`'s own invariant, applied to the mapped state:
`UInv` is `QInv` of `UpperProofs` under the mapping, with

* `Linked`: where a call of `Lower` is in progress, that it is the one which the call of
  `Upper` waits for, of its size, in the tree whose counter has been reduced or at the frame
  that the client has named; and where none is, that there is none to return;
* `DownOK`: after a crash nothing is left above but what `trees_init` will write.

One lemma per action shows that its step is one of `Upper` or none (`Follows` for steps
of a thread, `FollowsKeeps` that they keep `UInv`). Where `Upper` assumes something
of the lower allocator, a theorem about `Lower` supplies it:

| `Upper` assumes | supplied by |
|---|---|
| a get takes frames of the tree it was told to search, and as many as asked for | `CallsStayInTree`, `OwnAt` |
| a get finds nothing, with a single thread, only if no block of the size is free | `SearchesComplete` (`RefusedRightly`) |
| a put of what a client holds is accepted | `FreesAccepted` (`PutNotRefused`) |
| frames that a call has found belong to nobody else, and those of a put to its client | `OwnersExclusive` (`GivenIs`, `LowerPutTakes`) |
| a restart loses at most what calls that were cut off had asked for, or gives it back | `OwnsBlock`, `CutBounded`, `CrashRoom` |
| a recovered tree counts the frames that nobody owns | `FramesAccounted`, `CountersExact` (`QuietSum`) |

A crash is one step of `Upper` when it happens, so the mapping has to show `trees` as `trees_init`
will leave them (`Promised`). `BootKeeps` shows that it does: the sum of the
children's counters is what the promise says.

**`CountersAgree`.** When no call is in progress a child counts the frames that nobody owns
(`LowerCounted!QuietCounts`), and the entry of a tree and the slot that has reserved it count
all its room between them (`UpperProofs!QuietEntries`), which is the same number by
`QuietSum`. The totals that `llfree_validate` compares follow from the trees: every slot's frames are
part of one tree's. `lower_stats` and `trees_stats` are sums over finite sets; `Tally!PartsSum`
says that a sum of the sizes of disjoint sets is the size of their union. It is
proved by a least counterexample over the size of the set instead of by induction.

### Only model-checked

* `OutOfMemoryExact` speaks of what the three searches of the upper level have passed, each in
  its own order; `PutRefusedOnlyInSplit` needs an account of what late splits leave behind.
* `MemoryApart`, `SearchExact`, `MasksExact`: they depend on what recursive definitions over numbers
  and words compute for every input (induction over data), which is out of the prover's reach.
* The composition where two threads split huge pages or a call is for several rows: there the
  theorems about `Lower` that it rests on are false (findings), and `composed` checks the
  part of it that is true.
* The liveness properties (fairness and `ENABLED`), which are out of the prover's reach.

## 5. Not modelled

* Printing (`llfree_print`, `lower_print`, `trees_print`, `ll_local_print`): changes
  nothing.
* Statistics while calls run: sums of values read at different times, which the
  code promises nothing about. `lower_stats_at` of a tree is an exception where
  `llfree_change_tree` uses it (`ChangeFetch`).
* `ll_local_free_inc` (`LLFREE_ENABLE_FREE_RESERVE`): compiled out.
* The wrappers around atomics beyond what `atom_update` does, weak memory, the
  build, the tests.

## 6. Plan

1. *Done:* lower allocator, its promise, its type theorem; upper allocator, trees
   and slots, online and offline, all modes of `llfree_init`; its type and
   reservation theorems; its promise to clients; the composition of both
   levels; words, statistics, layout.
2. *Done:* proofs that `Upper` counts every frame once, implements its promise and
   leaves offline trees alone; that `Lower` gives no frame two owners, implements its
   promise, keeps bits, counters and owners in agreement, does not abort, and finds what
   there is when it is alone; that the statistics of both are exact between calls.
3. *Done:* proofs that the composition uses `Lower` as specified, implements `Upper`, and
   leaves counters that `llfree_validate` accepts.
4. *Open:* a proof of `OutOfMemoryExact` for a single thread, as for `GetComplete`; the
   composition with `llfree_change_tree`, whose `ChangeFetch` reads the children one by one.
5. *Open, larger instances*: three threads on a reduced set of operations, two children
   to a tree in `composed` without crashes.
