------------------------- MODULE ArcSwapCellProofs -------------------------
(***************************************************************************)
(* Theorems about ArcSwapCell: for any callers, edits and stores, the rcu  *)
(* loops, stores and loads implement one atomic value.                     *)
(***************************************************************************)
EXTENDS ArcSwapCell, TLAPS

\* The functions among the variables have the callers as their domain, and a caller
\* that is about to swap is in an rcu call.
Shape ==
  /\ call \in [Callers -> Calls]
  /\ phase \in [Callers -> {"idle", "called", "loaded", "done"}]
  /\ DOMAIN seen = Callers
  /\ DOMAIN current = Callers
  /\ \A c \in Callers : phase[c] = "loaded" => call[c] \in Edits

\* The heart of the argument: a pointer that is still the cell's leads to the cell's
\* value, so comparing pointers is comparing values.
Inv ==
  /\ Shape
  /\ \A c \in Callers : phase[c] = "loaded" /\ current[c] => seen[c] = cell

\* The edits and stores lead from values of the cell to values of the cell.
CellClosed == \A o \in Changes, v \in Values : Apply(o, v) \in Values

-----------------------------------------------------------------------------

LEMMA InitInv == Init => Inv
BY DEF Init, Inv, Shape, Calls

\* Every step keeps Inv: a swap and a store leave no pointer current, a load and a
\* retry take the cell's own.
LEMMA NextInv == Inv /\ [Next]_vars => Inv'
<1> SUFFICES ASSUME Inv, [Next]_vars
             PROVE Inv'
  OBVIOUS
<1>1 CASE UNCHANGED vars
  BY <1>1 DEF Inv, Shape, vars
<1>2 ASSUME NEW c \in Callers, NEW o \in Calls, Call(c, o)
     PROVE Inv'
  BY <1>2 DEF Inv, Shape, Call
<1>3 ASSUME NEW c \in Callers, Load(c)
     PROVE Inv'
  BY <1>3 DEF Inv, Shape, Load
<1>4 ASSUME NEW c \in Callers, Retry(c)
     PROVE Inv'
  BY <1>4 DEF Inv, Shape, Retry
<1>5 ASSUME NEW c \in Callers, Swap(c)
     PROVE Inv'
  BY <1>5 DEF Inv, Shape, Swap, Replace
<1>6 ASSUME NEW c \in Callers, Store(c)
     PROVE Inv'
  BY <1>6 DEF Inv, Shape, Store, Replace
<1>7 ASSUME NEW c \in Callers, Observe(c)
     PROVE Inv'
  BY <1>7 DEF Inv, Shape, Observe
<1>8 ASSUME NEW c \in Callers, Return(c)
     PROVE Inv'
  BY <1>8 DEF Inv, Shape, Return
<1>9 QED
  BY <1>1, <1>2, <1>3, <1>4, <1>5, <1>6, <1>7, <1>8 DEF Next, Running, Effect

LEMMA Invariant == Spec => []Inv
BY InitInv, NextInv, PTL DEF Spec

-----------------------------------------------------------------------------

LEMMA TypeNext == CellClosed /\ Inv /\ TypeOK /\ [Next]_vars => TypeOK'
<1> SUFFICES ASSUME CellClosed, Inv, TypeOK, [Next]_vars
             PROVE TypeOK'
  OBVIOUS
<1>1 CASE UNCHANGED vars
  BY <1>1 DEF TypeOK, vars
<1>2 ASSUME NEW c \in Callers, NEW o \in Calls, Call(c, o)
     PROVE TypeOK'
  BY <1>2 DEF TypeOK, Call
<1>3 ASSUME NEW c \in Callers, Load(c)
     PROVE TypeOK'
  BY <1>3 DEF TypeOK, Load
<1>4 ASSUME NEW c \in Callers, Retry(c)
     PROVE TypeOK'
  BY <1>4 DEF TypeOK, Retry
<1>5 ASSUME NEW c \in Callers, Swap(c)
     PROVE TypeOK'
  BY <1>5 DEF TypeOK, Swap, Replace, Inv, Shape, CellClosed, Changes
<1>6 ASSUME NEW c \in Callers, Store(c)
     PROVE TypeOK'
  BY <1>6 DEF TypeOK, Store, Replace, CellClosed, Changes
<1>7 ASSUME NEW c \in Callers, Observe(c)
     PROVE TypeOK'
  BY <1>7 DEF TypeOK, Observe
<1>8 ASSUME NEW c \in Callers, Return(c)
     PROVE TypeOK'
  BY <1>8 DEF TypeOK, Return
<1>9 QED
  BY <1>1, <1>2, <1>3, <1>4, <1>5, <1>6, <1>7, <1>8 DEF Next, Running, Effect

\* Every variable keeps its type, if the edits and stores keep the type of the cell.
THEOREM TypeCorrect ==
  ASSUME CellClosed
  PROVE Spec => []TypeOK
<1>1 Init => TypeOK
  BY CellAssumption DEF Init, TypeOK, Calls
<1>2 CellClosed /\ Inv /\ TypeOK /\ [Next]_vars => TypeOK'
  BY TypeNext
<1>3 Inv /\ TypeOK /\ [Next]_vars => TypeOK'
  BY <1>2
<1>4 QED
  BY <1>1, <1>3, Invariant, PTL DEF Spec

-----------------------------------------------------------------------------

\* Every step of the cell is a step of the atomic one: a swap that succeeds and a
\* store change the value, a load observes it, the steps of the loop stutter.
LEMMA StepSimulation ==
  Inv /\ [Next]_vars => [Atomic!Next]_(Atomic!cellVars)
<1> SUFFICES ASSUME Inv, [Next]_vars
             PROVE [Atomic!Next]_(Atomic!cellVars)
  OBVIOUS
<1> USE DEF Inv, Shape
<1>1 CASE UNCHANGED vars
  BY <1>1 DEF vars, Atomic!cellVars
<1>2 ASSUME NEW c \in Callers, NEW o \in Calls, Call(c, o)
     PROVE Atomic!Call(c, o)
  BY <1>2 DEF Call, Atomic!Call
<1>3 ASSUME NEW c \in Callers, Load(c)
     PROVE UNCHANGED Atomic!cellVars
  BY <1>3 DEF Load, Atomic!cellVars
<1>4 ASSUME NEW c \in Callers, Retry(c)
     PROVE UNCHANGED Atomic!cellVars
  BY <1>4 DEF Retry, Atomic!cellVars
<1>5 ASSUME NEW c \in Callers, Swap(c)
     PROVE Atomic!Change(c)
  <2>1 seen[c] = cell
    BY <1>5 DEF Swap
  <2>2 call[c] # Read
    BY <1>5, CellAssumption DEF Swap, Changes
  <2>3 QED
    BY <1>5, <2>1, <2>2 DEF Swap, Replace, Atomic!Change
<1>6 ASSUME NEW c \in Callers, Store(c)
     PROVE Atomic!Change(c)
  <2>1 call[c] # Read
    BY <1>6, CellAssumption DEF Store, Changes
  <2>2 QED
    BY <1>6, <2>1 DEF Store, Replace, Atomic!Change
<1>7 ASSUME NEW c \in Callers, Observe(c)
     PROVE Atomic!Observe(c)
  BY <1>7 DEF Observe, Atomic!Observe
<1>8 ASSUME NEW c \in Callers, Return(c)
     PROVE Atomic!Return(c)
  BY <1>8 DEF Return, Atomic!Return
<1>9 QED
  BY <1>1, <1>2, <1>3, <1>4, <1>5, <1>6, <1>7, <1>8
     DEF Next, Running, Effect, Calls, Atomic!Next

\* The rcu loops, stores and loads are the calls of one atomic value: no edit of a
\* backend set or of the connection counts is lost, repeated or applied to a stale
\* value.
THEOREM ImplementsAtomicCell == Spec => ImplementsAtomic
<1>1 Init => Atomic!Init
  BY DEF Init, Atomic!Init
<1>2 Spec => Atomic!Init /\ [][Atomic!Next]_(Atomic!cellVars)
  BY <1>1, Invariant, StepSimulation, PTL DEF Spec
<1>3 QED
  BY <1>2 DEF ImplementsAtomic, Atomic!Spec
============================================================================
