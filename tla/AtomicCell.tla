----------------------------- MODULE AtomicCell -----------------------------
(***************************************************************************)
(* What a shared value promises to the tasks that edit and read it: every  *)
(* call takes effect as a whole, exactly once, at one instant between its  *)
(* start and its return.                                                   *)
(***************************************************************************)

CONSTANTS
  Callers,      \* the tasks
  Changes,      \* the calls that change the value
  Read,         \* the call that returns it
  Initial,      \* the value to begin with
  Apply(_, _)   \* Apply(o, v) is what change o makes of v

VARIABLES
  value,   \* the shared value
  call,    \* per caller: its call in progress or its last one
  phase,   \* per caller: "idle", "called" or "done"
  answer   \* per caller: what its last Read returned

cellVars == <<value, call, phase, answer>>

Init ==
  /\ value = Initial
  /\ call = [c \in Callers |-> Read]
  /\ phase = [c \in Callers |-> "idle"]
  /\ answer = [c \in Callers |-> Initial]

Call(c, o) ==
  /\ phase[c] = "idle"
  /\ phase' = [phase EXCEPT ![c] = "called"]
  /\ call' = [call EXCEPT ![c] = o]
  /\ UNCHANGED <<value, answer>>

Change(c) ==
  /\ phase[c] = "called"
  /\ call[c] # Read
  /\ value' = Apply(call[c], value)
  /\ phase' = [phase EXCEPT ![c] = "done"]
  /\ UNCHANGED <<call, answer>>

Observe(c) ==
  /\ phase[c] = "called"
  /\ call[c] = Read
  /\ answer' = [answer EXCEPT ![c] = value]
  /\ phase' = [phase EXCEPT ![c] = "done"]
  /\ UNCHANGED <<value, call>>

Return(c) ==
  /\ phase[c] = "done"
  /\ phase' = [phase EXCEPT ![c] = "idle"]
  /\ UNCHANGED <<value, call, answer>>

Next ==
  \E c \in Callers :
    \/ \E o \in Changes \cup {Read} : Call(c, o)
    \/ Change(c) \/ Observe(c) \/ Return(c)

Spec == Init /\ [][Next]_cellVars
=============================================================================
