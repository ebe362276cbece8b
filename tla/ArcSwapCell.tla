---------------------------- MODULE ArcSwapCell ----------------------------
(***************************************************************************)
(* An ArcSwap that several tasks edit and read without a lock, the way     *)
(* LocalDiscovery (balance/discovery.rs) and LeastConnections              *)
(* (balance/selection.rs) use theirs:                                      *)
(*                                                                         *)
(*   - rcu(f) loads the pointer, makes a new value with f and swaps it in  *)
(*     if the cell still holds the pointer it loaded; otherwise it starts  *)
(*     again from the pointer it found;                                    *)
(*   - store(v) replaces the pointer whatever it is;                       *)
(*   - load() returns the pointer.                                         *)
(*                                                                         *)
(* Pointers are compared, not values.  A task that loaded one keeps it     *)
(* alive, so no later value can have it: `current` says whether it is      *)
(* still the cell's.                                                       *)
(***************************************************************************)

CONSTANTS
  Callers,      \* the tasks
  Edits,        \* the calls that go through rcu
  Stores,       \* the calls that go through store
  Read,         \* the call that loads
  Values,       \* the values the cell may hold
  Initial,      \* the value to begin with
  Apply(_, _)   \* Apply(o, v) is what edit o makes of v, or what store o puts in its place

Changes == Edits \cup Stores
Calls == Changes \cup {Read}

ASSUME CellAssumption ==
  /\ Initial \in Values
  /\ Read \notin Changes
  /\ \A o \in Stores, v, w \in Values : Apply(o, v) = Apply(o, w)

VARIABLES
  cell,     \* the value the pointer leads to
  call,     \* per caller: its call in progress or its last one
  phase,    \* per caller: "idle", "called", "loaded" (between load and swap) or "done"
  seen,     \* per caller: the value its rcu loaded last
  current,  \* per caller: whether the pointer it loaded last is still the cell's
  answer    \* per caller: what its last load() returned

vars == <<cell, call, phase, seen, current, answer>>

Init ==
  /\ cell = Initial
  /\ call = [c \in Callers |-> Read]
  /\ phase = [c \in Callers |-> "idle"]
  /\ seen = [c \in Callers |-> Initial]
  /\ current = [c \in Callers |-> FALSE]
  /\ answer = [c \in Callers |-> Initial]

Call(c, o) ==
  /\ phase[c] = "idle"
  /\ phase' = [phase EXCEPT ![c] = "called"]
  /\ call' = [call EXCEPT ![c] = o]
  /\ UNCHANGED <<cell, seen, current, answer>>

Load(c) ==
  /\ phase[c] = "called"
  /\ call[c] \in Edits
  /\ seen' = [seen EXCEPT ![c] = cell]
  /\ current' = [current EXCEPT ![c] = TRUE]
  /\ phase' = [phase EXCEPT ![c] = "loaded"]
  /\ UNCHANGED <<cell, call, answer>>

\* The cell gets a new pointer, which nobody has loaded.
Replace(v) ==
  /\ cell' = v
  /\ current' = [d \in Callers |-> FALSE]

\* Mutant: the new value is stored whatever the cell holds by now.
SwapBlindly(c) ==
  /\ phase[c] = "loaded"
  /\ Replace(Apply(call[c], seen[c]))
  /\ phase' = [phase EXCEPT ![c] = "done"]
  /\ UNCHANGED <<call, seen, answer>>

\* compare_and_swap finds the pointer it was given.
Swap(c) ==
  /\ phase[c] = "loaded"
  /\ current[c]
  /\ Replace(Apply(call[c], seen[c]))
  /\ phase' = [phase EXCEPT ![c] = "done"]
  /\ UNCHANGED <<call, seen, answer>>

\* Mutant: the loop tries again with the pointer it loaded at first.
RetryUnchanged(c) ==
  /\ phase[c] = "loaded"
  /\ ~current[c]
  /\ UNCHANGED vars

\* compare_and_swap finds another pointer, and the loop goes on from that one.
Retry(c) ==
  /\ phase[c] = "loaded"
  /\ ~current[c]
  /\ seen' = [seen EXCEPT ![c] = cell]
  /\ current' = [current EXCEPT ![c] = TRUE]
  /\ UNCHANGED <<cell, call, phase, answer>>

Store(c) ==
  /\ phase[c] = "called"
  /\ call[c] \in Stores
  /\ Replace(Apply(call[c], cell))
  /\ phase' = [phase EXCEPT ![c] = "done"]
  /\ UNCHANGED <<call, seen, answer>>

Observe(c) ==
  /\ phase[c] = "called"
  /\ call[c] = Read
  /\ answer' = [answer EXCEPT ![c] = cell]
  /\ phase' = [phase EXCEPT ![c] = "done"]
  /\ UNCHANGED <<cell, call, seen, current>>

Return(c) ==
  /\ phase[c] = "done"
  /\ phase' = [phase EXCEPT ![c] = "idle"]
  /\ UNCHANGED <<cell, call, seen, current, answer>>

-----------------------------------------------------------------------------

\* The steps in which a call takes effect, and those of a call in progress.
Effect(c) == Swap(c) \/ Store(c) \/ Observe(c)
Running(c) == Load(c) \/ Retry(c) \/ Effect(c)

Next ==
  \E c \in Callers : Running(c) \/ Return(c) \/ \E o \in Calls : Call(c, o)

\* A task inside a call does not stop running.
Fairness == \A c \in Callers : WF_vars(Running(c))

Spec == Init /\ [][Next]_vars /\ Fairness

-----------------------------------------------------------------------------
(* Properties.                                                             *)

\* Every variable keeps its type.
TypeOK ==
  /\ cell \in Values
  /\ call \in [Callers -> Calls]
  /\ phase \in [Callers -> {"idle", "called", "loaded", "done"}]
  /\ seen \in [Callers -> Values]
  /\ current \in [Callers -> BOOLEAN]
  /\ answer \in [Callers -> Values]

\* Concurrent edits do not lose or repeat each other, a store does not come undone,
\* and a read returns the set or the counts as they are at one instant: the rcu
\* loops, stores and loads are the calls of one atomic value.
Atomic == INSTANCE AtomicCell WITH
            value <- cell,
            phase <- [c \in Callers |-> IF phase[c] = "loaded" THEN "called" ELSE phase[c]]
ImplementsAtomic == Atomic!Spec

\* While calls are in progress some call takes effect: a swap fails only because
\* another one, or a store, succeeded.
LockFree ==
  <>[](\E c \in Callers : phase[c] \in {"called", "loaded"})
    => []<><<\E c \in Callers : Effect(c)>>_vars
=============================================================================
