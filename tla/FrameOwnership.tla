--------------------------- MODULE FrameOwnership ---------------------------
(***************************************************************************)
(* What the lower allocator promises (src/lower.h): every frame belongs to *)
(* nobody, to the clients, to one call in progress or, after a crash, to a *)
(* call that was cut off.  A call may collect and release free frames in   *)
(* any order while it runs, but it ends with nothing in hand or with one   *)
(* aligned block of exactly the requested size, which it hands over whole. *)
(***************************************************************************)
EXTENDS Integers

CONSTANTS Threads, Frames, Requests

VARIABLES
    want,  \* the size each thread's call is about, 0 between calls
    hand,  \* the frames each call owns
    held,  \* the frames the clients own
    lost   \* the frames no one can free any more

vars == <<want, hand, held, lost>>

Owned == held \cup lost \cup UNION {hand[t] : t \in Threads}

IsBlock(B, n) == \E f \in Frames : f % n = 0 /\ B = f .. f + n - 1

Init ==
    /\ want = [t \in Threads |-> 0]
    /\ hand = [t \in Threads |-> {}]
    /\ held \in {{}, Frames}
    /\ lost = {}

\* A call for n frames begins, with nothing in hand.
Request(t, n) ==
    /\ want[t] = 0
    /\ want' = [want EXCEPT ![t] = n]
    /\ UNCHANGED <<hand, held, lost>>

\* A call begins that gives back the block B.
GiveBack(t, n, B) ==
    /\ want[t] = 0 /\ IsBlock(B, n) /\ B \subseteq held
    /\ want' = [want EXCEPT ![t] = n]
    /\ hand' = [hand EXCEPT ![t] = B]
    /\ held' = held \ B
    /\ UNCHANGED lost

\* A call takes frames that nobody owns.
Collect(t, S) ==
    /\ want[t] # 0 /\ S \cap Owned = {}
    /\ hand' = [hand EXCEPT ![t] = @ \cup S]
    /\ UNCHANGED <<want, held, lost>>

\* A call makes frames of its own free.
Release(t, S) ==
    /\ want[t] # 0
    /\ hand' = [hand EXCEPT ![t] = @ \ S]
    /\ UNCHANGED <<want, held, lost>>

\* A call ends: the clients own the block it has in hand, if any.
Finish(t) ==
    /\ want[t] # 0
    /\ hand[t] = {} \/ IsBlock(hand[t], want[t])
    /\ held' = held \cup hand[t]
    /\ hand' = [hand EXCEPT ![t] = {}]
    /\ want' = [want EXCEPT ![t] = 0]
    /\ UNCHANGED lost

Crash ==
    /\ lost' = lost \cup UNION {hand[t] : t \in Threads}
    /\ hand' = [t \in Threads |-> {}]
    /\ want' = [t \in Threads |-> 0]
    /\ UNCHANGED held

Next ==
    \/ \E t \in Threads :
          \/ \E n \in Requests : Request(t, n)
          \/ \E n \in Requests, B \in SUBSET held : GiveBack(t, n, B)
          \/ \E S \in SUBSET (Frames \ Owned) : Collect(t, S)
          \/ \E S \in SUBSET hand[t] : Release(t, S)
          \/ Finish(t)
    \/ Crash

Spec == Init /\ [][Next]_vars
=============================================================================
