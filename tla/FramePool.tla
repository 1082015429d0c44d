----------------------------- MODULE FramePool ------------------------------
(***************************************************************************)
(* What the allocator promises its clients (include/llfree.h), tree by     *)
(* tree: a call takes effect at most once, between its start and its       *)
(* return, and entirely or not at all.  A get takes its frames from one    *)
(* tree that has them and is not offline, a put returns them to their own  *)
(* tree, and what the call reports is what it has done.                    *)
(***************************************************************************)
EXTENDS Integers

CONSTANTS
    Threads,
    Capacity,  \* the number of frames of each tree
    Calls,     \* requests [op, n, tree], changes and others
    NoCall     \* what stands for the call of a thread that is idle

Trees == DOMAIN Capacity

VARIABLES
    free,      \* free frames of each tree
    held,      \* frames of each tree that the clients have
    offline,   \* trees that the clients have taken offline
    call,      \* the call of each thread
    state,     \* "idle", "called", "rejected" or, once in effect, "served"
    from       \* the tree whose frames a served call has taken or returned

vars == <<free, held, offline, call, state, from>>

\* No call is in progress.
Quiet ==
    /\ state = [t \in Threads |-> "idle"]
    /\ from = [t \in Threads |-> 0]
    /\ call = [t \in Threads |-> NoCall]

Init ==
    /\ \/ free = Capacity /\ held = [i \in Trees |-> 0]
       \/ held = Capacity /\ free = [i \in Trees |-> 0]
    /\ offline = {}
    /\ Quiet

IsGet(t) == call[t].op \in {"get", "get_at"}

\* A put takes the frames from the client, unless it is not a valid request.
Begin(t, r) ==
    /\ state[t] = "idle"
    /\ state' = [state EXCEPT ![t] = "called"]
    /\ call' = [call EXCEPT ![t] = r]
    /\ \/ r.op = "put" /\ held[r.tree] >= r.n
          /\ held' = [held EXCEPT ![r.tree] = @ - r.n]
       \/ r.op # "put" /\ UNCHANGED held
    /\ UNCHANGED <<free, offline, from>>

Reject(t, r) ==
    /\ state[t] = "idle" /\ r.op = "put"
    /\ state' = [state EXCEPT ![t] = "rejected"]
    /\ call' = [call EXCEPT ![t] = r]
    /\ UNCHANGED <<free, held, offline, from>>

\* The call takes effect.
Serve(t, i) ==
    /\ state[t] = "called"
    /\ state' = [state EXCEPT ![t] = "served"]
    /\ from' = [from EXCEPT ![t] = i]
    /\ \/ /\ IsGet(t) /\ i \notin offline
          /\ call[t].op = "get_at" => i = call[t].tree
          /\ free[i] >= call[t].n
          /\ free' = [free EXCEPT ![i] = @ - call[t].n]
       \/ /\ call[t].op = "put" /\ i = call[t].tree
          /\ free[i] + call[t].n <= Capacity[i]
          /\ free' = [free EXCEPT ![i] = @ + call[t].n]
    /\ UNCHANGED <<held, offline, call>>

\* A change of a tree takes effect: it goes offline entirely free, or online.
Change(t) ==
    /\ state[t] = "called" /\ call[t].op = "change"
    /\ state' = [state EXCEPT ![t] = "served"]
    /\ \/ \E i \in Trees : free[i] = Capacity[i] /\ offline' = offline \cup {i}
       \/ \E i \in offline : offline' = offline \ {i}
       \/ UNCHANGED offline
    /\ UNCHANGED <<free, held, call, from>>

\* The client gets the frames of a get that has been served, and those of a put
\* that has not.
Given(t, i) ==
    LET got  == IsGet(t) /\ state[t] = "served" /\ i = from[t]
        back == call[t].op = "put" /\ state[t] = "called" /\ i = call[t].tree
    IN  IF got \/ back THEN call[t].n ELSE 0

Return(t) ==
    /\ state[t] # "idle"
    /\ held' = [i \in Trees |-> held[i] + Given(t, i)]
    /\ state' = [state EXCEPT ![t] = "idle"]
    /\ call' = [call EXCEPT ![t] = NoCall]
    /\ from' = [from EXCEPT ![t] = 0]
    /\ UNCHANGED <<free, offline>>

\* All calls end.  Those that had not taken effect may have done so in part.
Called(op, i) ==
    \E t \in Threads : state[t] = "called" /\ call[t].op = op
                         /\ (op # "get" => call[t].tree = i)

Crash ==
    /\ free' \in [Trees -> Nat]
    /\ \A i \in Trees :
          /\ free'[i] < free[i] => Called("get", i) \/ Called("get_at", i)
          /\ free'[i] > free[i] => Called("put", i)
          /\ free'[i] + held[i] <= Capacity[i]
    /\ offline' = {}
    /\ Quiet'
    /\ UNCHANGED held

Next ==
    \/ \E t \in Threads :
          \/ \E r \in Calls : Begin(t, r) \/ Reject(t, r)
          \/ \E i \in Trees : Serve(t, i)
          \/ Change(t) \/ Return(t)
    \/ Crash

Spec == Init /\ [][Next]_vars
=============================================================================
