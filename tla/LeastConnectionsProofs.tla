----------------------- MODULE LeastConnectionsProofs -----------------------
(***************************************************************************)
(* Theorems about LeastConnections: for any handlers and any set of        *)
(* backends the counts are exact, and select() is led to a backend whose   *)
(* load is the least, but for the handlers that are between two calls.     *)
(***************************************************************************)
EXTENDS LeastConnections, ArcSwapCellProofs, FiniteSetTheorems, WellFoundedInduction

-----------------------------------------------------------------------------
(* What min_by_key returns.                                                *)

LEMMA LeastNumber ==
  ASSUME NEW S \in SUBSET Nat, S # {}
  PROVE  \E n \in S : \A m \in S : n <= m
<1> DEFINE R == OpToRel(<, Nat)
<1>1. IsWellFoundedOn(R, Nat)
  BY NatLessThanWellFounded
<1>2. \A x, y \in Nat : <<y, x>> \in R <=> y < x
  BY DEF OpToRel
<1> HIDE DEF R
<1>3. PICK n \in S : \A m \in S : ~(<<m, n>> \in R)
  BY <1>1, WFMin
<1>4. ASSUME NEW m \in S PROVE n <= m
  <2>1. n \in Nat /\ m \in Nat
    OBVIOUS
  <2>2. ~(m < n)
    BY <1>2, <1>3, <2>1
  <2> QED
    BY <2>1, <2>2
<1> QED
  BY <1>4

\* The backend chosen is one of the set's, and no other one has a lower count.
LEMMA LeastIsLeast ==
  ASSUME NEW counts \in [Addr -> Nat]
  PROVE  /\ Least(counts) \in Addr
         /\ \A a \in Addr : counts[Least(counts)] <= counts[a]
<1> DEFINE D == DOMAIN Iter
           IsLeast(i) == \A j \in D : counts[Iter[i]] <= counts[Iter[j]]
           First(i) == IsLeast(i) /\ \A j \in 1..(i - 1) : ~IsLeast(j)
           Minima == {i \in D : IsLeast(i)}
<1>1. /\ D = 1..Len(Iter) /\ Len(Iter) \in Nat /\ 1 \in D
      /\ \A i \in D : Iter[i] \in Addr /\ counts[Iter[i]] \in Nat
  BY CountAssumption DEF Addr
<1>2. \E i \in D : IsLeast(i)
  <2> DEFINE V == {counts[Iter[i]] : i \in D}
  <2>1. V \in SUBSET Nat /\ V # {}
    BY <1>1
  <2>2. PICK n \in V : \A m \in V : n <= m
    BY <2>1, LeastNumber
  <2> QED
    BY <2>2
<1>3. PICK i \in Minima : \A j \in Minima : i <= j
  <2>1. Minima \in SUBSET Nat /\ Minima # {}
    BY <1>1, <1>2
  <2> HIDE DEF Minima
  <2> QED
    BY <2>1, LeastNumber
<1>4. i \in D /\ First(i)
  <2>1. i \in D /\ IsLeast(i)
    BY <1>3
  <2>2. i \in Nat /\ \A j \in 1..(i - 1) : j \in D /\ ~(i <= j)
    BY <1>1, <2>1
  <2> QED
    BY <1>3, <2>1, <2>2
<1>5. Least(counts) = Iter[CHOOSE k \in D : First(k)]
  BY DEF Least
<1>6. (CHOOSE k \in D : First(k)) \in D /\ IsLeast(CHOOSE k \in D : First(k))
  BY <1>4
<1> QED
  BY <1>1, <1>5, <1>6 DEF Addr

-----------------------------------------------------------------------------
(* The counts.                                                             *)

Stages == {"free", "selecting", "selected", "opening", "open", "closing"}

\* A stage says which call its handler is in, or that it is in none.
CountShape ==
  /\ stage \in [Callers -> Stages]
  /\ chosen \in [Callers -> Addr]
  /\ answer \in [Callers -> Counts]
  /\ \A c \in Callers :
       /\ stage[c] \in {"free", "selected", "open"} <=> phase[c] = "idle"
       /\ stage[c] = "selecting" => call[c] = Read
       /\ stage[c] = "opening" => call[c] = increment(chosen[c])
       /\ stage[c] = "closing" => call[c] = decrement(chosen[c])

Holders(a) == {c \in Callers : Counted(c) /\ chosen[c] = a}

CountInv ==
  /\ Inv
  /\ CountShape
  /\ cell \in Counts
  /\ CountsAreExact

LEMMA HoldersFinite ==
  ASSUME NEW a
  PROVE  /\ IsFiniteSet(Holders(a))
         /\ Cardinality(Holders(a)) \in 0..Cardinality(Callers)
<1>1. Holders(a) \in SUBSET Callers /\ IsFiniteSet(Callers)
  BY CountAssumption DEF Holders
<1> QED
  BY <1>1, FS_Subset, FS_CardinalityType

LEMMA CountInvInit == CountInit => CountInv
<1> SUFFICES ASSUME CountInit PROVE CountInv
  OBVIOUS
<1>1. Inv
  BY InitInv DEF CountInit
<1>2. Iter[1] \in Addr /\ NoConnections \in Counts
  <2>1. 1 \in DOMAIN Iter
    BY CountAssumption
  <2>2. Cardinality(Callers) \in Nat
    BY CountAssumption, FS_CardinalityType
  <2> QED
    BY <2>1, <2>2 DEF Addr, NoConnections, Counts
<1>3. CountShape /\ cell \in Counts
  BY <1>2, CountAssumption DEF CountInit, Init, CountShape, Stages
<1>4. ASSUME NEW a \in Addr
      PROVE  cell[a] = Cardinality({c \in Callers : Counted(c) /\ chosen[c] = a})
  <2>1. cell[a] = 0
    BY CountAssumption DEF CountInit, Init, NoConnections
  <2>2. {c \in Callers : Counted(c) /\ chosen[c] = a} = {}
    BY DEF CountInit, Counted
  <2> QED
    BY <2>1, <2>2, FS_EmptySet
<1> QED
  BY <1>1, <1>3, <1>4 DEF CountInv, CountsAreExact

\* The handlers make the calls of the cell.
LEMMA StepKeepsInv == CountInv /\ [CountNext]_<<vars, handlerVars>> => Inv'
<1> SUFFICES ASSUME CountInv, [CountNext]_<<vars, handlerVars>> PROVE Inv'
  OBVIOUS
<1>1. ASSUME NEW c \in Callers, Handler(c) PROVE Next
  <2>1. chosen[c] \in Addr
    BY DEF CountInv, CountShape
  <2>2. {Read, increment(chosen[c]), decrement(chosen[c])} \subseteq Calls
    BY <2>1, CountAssumption DEF Calls, Changes, CountEdits
  <2> QED
    BY <1>1, <2>2 DEF Handler, Starts, Returns, Selects, Next
<1>2. [Next]_vars
  BY <1>1 DEF CountNext, vars
<1> QED
  BY <1>2, NextInv DEF CountInv

\* A step in which the counts stay and nobody begins or ceases to be counted.
LEMMA CountsStay ==
  ASSUME CountInv, Inv', CountShape', cell' = cell,
         \A d \in Callers : /\ Counted(d)' <=> Counted(d)
                            /\ Counted(d) => chosen'[d] = chosen[d]
  PROVE  CountInv'
<1>1. \A a : {d \in Callers : Counted(d)' /\ chosen'[d] = a}
               = {d \in Callers : Counted(d) /\ chosen[d] = a}
  OBVIOUS
<1>2. CountsAreExact'
  BY <1>1 DEF CountInv, CountsAreExact
<1> QED
  BY <1>2 DEF CountInv

\* A swap of a handler applies its increment or its decrement to the counts.
LEMMA SwapCounts ==
  ASSUME CountInv, NEW c \in Callers, Swap(c)
  PROVE  /\ chosen[c] \in Addr
         /\ \/ /\ stage[c] = "opening"
               /\ cell' = [cell EXCEPT ![chosen[c]] = @ + 1]
            \/ /\ stage[c] = "closing"
               /\ cell' = [cell EXCEPT ![chosen[c]] = IF @ > 0 THEN @ - 1 ELSE @]
<1>1. phase[c] = "loaded" /\ seen[c] = cell /\ cell' = Apply(call[c], cell)
  BY DEF CountInv, Inv, Swap, Replace
<1>2. call[c] \in CountEdits /\ call[c] # Read
  BY <1>1, CountAssumption, CellAssumption DEF CountInv, Inv, Shape, Changes
<1>3. cell' = CountApply(call[c], cell)
  BY <1>1, <1>2, CountAssumption DEF CountInv
<1>4. chosen[c] \in Addr /\ stage[c] \in {"opening", "closing"}
  BY <1>1, <1>2 DEF CountInv, CountShape, Stages
<1>5. CASE stage[c] = "opening"
  <2>1. call[c] = increment(chosen[c])
    BY <1>5 DEF CountInv, CountShape
  <2> QED
    BY <1>3, <1>4, <1>5, <2>1 DEF CountApply, increment
<1>6. CASE stage[c] = "closing"
  <2>1. call[c] = decrement(chosen[c])
    BY <1>6 DEF CountInv, CountShape
  <2> QED
    BY <1>3, <1>4, <1>6, <2>1 DEF CountApply, decrement
<1> QED
  BY <1>4, <1>5, <1>6

\* An increment adds its handler to those that are counted for the backend, and a
\* decrement finds its handler among them: the count is not 0.
LEMMA SwapKeepsExact ==
  ASSUME CountInv, Inv', NEW c \in Callers, Swap(c), UNCHANGED handlerVars
  PROVE  CountInv'
<1> DEFINE b == chosen[c]
           counted(a) == {d \in Callers : Counted(d) /\ chosen[d] = a}
           counted2(a) == {d \in Callers : Counted(d)' /\ chosen'[d] = a}
<1>1. /\ phase[c] = "loaded" /\ phase' = [phase EXCEPT ![c] = "done"]
      /\ UNCHANGED <<call, answer, stage, chosen>>
  BY DEF Swap, handlerVars
<1>2. phase \in [Callers -> {"idle", "called", "loaded", "done"}]
  BY DEF CountInv, Inv, Shape
<1>3. CountShape'
  BY <1>1, <1>2 DEF CountInv, CountShape
<1>4. cell \in [Addr -> Nat] /\ Cardinality(Callers) \in Nat
  BY CountAssumption, FS_CardinalityType DEF CountInv, Counts
<1>5. \A a \in Addr : cell[a] = Cardinality(counted(a)) /\ IsFiniteSet(counted(a))
  BY HoldersFinite DEF CountInv, CountsAreExact, Holders
<1>6. \A a \in Addr \ {b} : counted2(a) = counted(a)
  BY <1>1, <1>2 DEF Counted
<1>7. b \in Addr
  BY SwapCounts
<1>8. cell' \in [Addr -> Nat] /\ \A a \in Addr : cell'[a] = Cardinality(counted2(a))
  <2>1. CASE /\ stage[c] = "opening"
             /\ cell' = [cell EXCEPT ![b] = @ + 1]
    <3>1. c \notin counted(b) /\ counted2(b) = counted(b) \cup {c}
      BY <1>1, <1>2, <2>1 DEF Counted
    <3>2. Cardinality(counted2(b)) = Cardinality(counted(b)) + 1
      BY <1>5, <1>7, <3>1, FS_AddElement
    <3> HIDE DEF counted, counted2, b
    <3> QED
      BY <1>4, <1>5, <1>6, <1>7, <2>1, <3>2
  <2>2. CASE /\ stage[c] = "closing"
             /\ cell' = [cell EXCEPT ![b] = IF @ > 0 THEN @ - 1 ELSE @]
    <3>1. c \in counted(b) /\ counted2(b) = counted(b) \ {c}
      BY <1>1, <1>2, <2>2 DEF Counted
    <3>2. Cardinality(counted2(b)) = Cardinality(counted(b)) - 1
      BY <1>5, <1>7, <3>1, FS_RemoveElement
    <3>3. cell[b] > 0
      <4>1. counted(b) # {} /\ cell[b] \in Nat
        BY <1>4, <1>7, <3>1
      <4> HIDE DEF counted, b
      <4> QED
        BY <1>5, <1>7, <4>1, FS_EmptySet
    <3> HIDE DEF counted, counted2, b
    <3> QED
      BY <1>4, <1>5, <1>6, <1>7, <2>2, <3>2, <3>3
  <2> QED
    BY <2>1, <2>2, SwapCounts
<1>9. CountsAreExact'
  BY <1>8 DEF CountsAreExact
<1>10. cell' \in Counts
  <2>1. IsFiniteSet(Callers)
    BY CountAssumption
  <2>2. ASSUME NEW a \in Addr PROVE cell'[a] <= Cardinality(Callers)
    <3>1. counted2(a) \in SUBSET Callers
      OBVIOUS
    <3> HIDE DEF counted2
    <3>2. Cardinality(counted2(a)) <= Cardinality(Callers)
      BY <2>1, <3>1, FS_Subset
    <3> QED
      BY <1>8, <3>2
  <2> QED
    BY <1>4, <1>8, <2>2 DEF Counts
<1> QED
  BY <1>3, <1>9, <1>10 DEF CountInv

LEMMA CountInvNext == CountInv /\ [CountNext]_<<vars, handlerVars>> => CountInv'
<1> SUFFICES ASSUME CountInv, [CountNext]_<<vars, handlerVars>> PROVE CountInv'
  OBVIOUS
<1>1. Inv'
  BY StepKeepsInv
<1>2. /\ stage \in [Callers -> Stages] /\ chosen \in [Callers -> Addr]
      /\ answer \in [Callers -> Counts] /\ cell \in Counts
      /\ phase \in [Callers -> {"idle", "called", "loaded", "done"}]
      /\ call \in [Callers -> Calls]
  BY DEF CountInv, CountShape, Inv, Shape
<1>3. CASE UNCHANGED <<vars, handlerVars>>
  BY <1>1, <1>3, CountsStay DEF CountInv, CountShape, Counted, vars, handlerVars
<1>4. ASSUME NEW c \in Callers, NEW from \in Stages, NEW to \in Stages, NEW o,
             Starts(c, from, to, o),
             \/ from = "free" /\ to = "selecting" /\ o = Read
             \/ from = "selected" /\ to = "opening" /\ o = increment(chosen[c])
             \/ from = "open" /\ to = "closing" /\ o = decrement(chosen[c])
      PROVE  CountInv'
  <2>1. /\ stage' = [stage EXCEPT ![c] = to] /\ stage[c] = from
        /\ phase' = [phase EXCEPT ![c] = "called"] /\ phase[c] = "idle"
        /\ call' = [call EXCEPT ![c] = o] /\ UNCHANGED <<cell, answer, chosen>>
    BY <1>4 DEF Starts, Call
  <2>2. CountShape'
    BY <1>2, <1>4, <2>1 DEF CountInv, CountShape, Stages
  <2> QED
    BY <1>1, <1>2, <1>4, <2>1, <2>2, CountsStay DEF Counted, Stages
<1>5. ASSUME NEW c \in Callers, NEW from \in Stages, NEW to \in Stages,
             Returns(c, from, to),
             \/ from = "opening" /\ to = "open"
             \/ from = "closing" /\ to = "free"
      PROVE  CountInv'
  <2>1. /\ stage' = [stage EXCEPT ![c] = to] /\ stage[c] = from
        /\ phase' = [phase EXCEPT ![c] = "idle"] /\ phase[c] = "done"
        /\ UNCHANGED <<cell, call, answer, chosen>>
    BY <1>5 DEF Returns, Return
  <2>2. CountShape'
    BY <1>2, <1>5, <2>1 DEF CountInv, CountShape, Stages
  <2> QED
    BY <1>1, <1>2, <1>5, <2>1, <2>2, CountsStay DEF Counted, Stages
<1>6. ASSUME NEW c \in Callers, Selects(c) PROVE CountInv'
  <2>1. /\ stage' = [stage EXCEPT ![c] = "selected"] /\ stage[c] = "selecting"
        /\ phase' = [phase EXCEPT ![c] = "idle"] /\ phase[c] = "done"
        /\ chosen' = [chosen EXCEPT ![c] = Least(answer[c])]
        /\ UNCHANGED <<cell, call, answer>>
    BY <1>6 DEF Selects, Return
  <2>2. Least(answer[c]) \in Addr
    <3>1. answer[c] \in [Addr -> Nat]
      BY <1>2, CountAssumption, FS_CardinalityType DEF Counts
    <3> QED
      BY <3>1, LeastIsLeast
  <2>3. CountShape'
    BY <1>2, <2>1, <2>2 DEF CountInv, CountShape, Stages
  <2> QED
    BY <1>1, <1>2, <2>1, <2>3, CountsStay DEF Counted, Stages
<1>7. ASSUME NEW c \in Callers, Running(c), UNCHANGED handlerVars PROVE CountInv'
  <2>1. CASE Load(c) \/ Retry(c)
    <3>1. /\ phase[c] \in {"called", "loaded"} /\ phase'[c] = "loaded"
          /\ \A d \in Callers \ {c} : phase'[d] = phase[d]
          /\ UNCHANGED <<cell, call, answer, stage, chosen>>
      BY <1>2, <1>7, <2>1 DEF Load, Retry, handlerVars
    <3>2. CountShape'
      BY <1>2, <3>1 DEF CountInv, CountShape, Stages
    <3> QED
      BY <1>1, <1>2, <3>1, <3>2, CountsStay DEF Counted
  <2>2. CASE Swap(c)
    BY <1>1, <1>7, <2>2, SwapKeepsExact
  <2>3. CASE Store(c)
    BY <2>3, CountAssumption DEF Store
  <2>4. CASE Observe(c)
    <3>1. /\ phase[c] = "called" /\ phase' = [phase EXCEPT ![c] = "done"]
          /\ answer' = [answer EXCEPT ![c] = cell] /\ call[c] = Read
          /\ UNCHANGED <<cell, call, stage, chosen>>
      BY <1>7, <2>4 DEF Observe, handlerVars
    <3>2. CountShape'
      BY <1>2, <3>1 DEF CountInv, CountShape, Stages
    <3>3. stage[c] = "selecting"
      <4>1. increment(chosen[c]) \in CountEdits /\ decrement(chosen[c]) \in CountEdits
        BY <1>2 DEF CountEdits
      <4>2. Read \notin CountEdits
        BY CountAssumption, CellAssumption DEF Changes
      <4> QED
        BY <1>2, <3>1, <4>1, <4>2 DEF CountInv, CountShape, Stages
    <3> QED
      BY <1>1, <1>2, <3>1, <3>2, <3>3, CountsStay DEF Counted
  <2> QED
    BY <1>7, <2>1, <2>2, <2>3, <2>4 DEF Running, Effect
<1> QED
  <2>1. ASSUME NEW c \in Callers, Handler(c) PROVE CountInv'
    BY <1>4, <1>5, <1>6, <1>7, <2>1 DEF Handler, Stages
  <2> QED
    BY <1>3, <2>1 DEF CountNext

LEMMA CountInvAlways == CountSpec => []CountInv
BY CountInvInit, CountInvNext, PTL DEF CountSpec

\* No increment and no decrement is lost, applied twice or swallowed, for any number
\* of handlers and backends.
THEOREM CountsExact == CountSpec => []CountsAreExact
<1>1. CountInv => CountsAreExact
  BY DEF CountInv
<1> QED
  BY <1>1, CountInvAlways, PTL

-----------------------------------------------------------------------------
(* The skew.                                                               *)

LEMMA DisjointUnion ==
  ASSUME NEW S, NEW T, IsFiniteSet(S), IsFiniteSet(T), S \cap T = {}
  PROVE  /\ IsFiniteSet(S \cup T)
         /\ Cardinality(S \cup T) = Cardinality(S) + Cardinality(T)
<1>1. Cardinality(S) \in Nat /\ Cardinality(T) \in Nat
  BY FS_CardinalityType
<1>2. Cardinality(S \cap T) = 0
  BY FS_EmptySet
<1>3. IsFiniteSet(S \cup T)
      /\ Cardinality(S \cup T) = Cardinality(S) + Cardinality(T) - Cardinality(S \cap T)
  BY FS_Union
<1> QED
  BY <1>1, <1>2, <1>3

\* A set has no more members than another one has, and those it has beyond it.
LEMMA CountBeyond ==
  ASSUME NEW S, NEW T, IsFiniteSet(S), IsFiniteSet(T)
  PROVE  Cardinality(S) <= Cardinality(T) + Cardinality(S \ T)
<1>1. IsFiniteSet(S \ T) /\ S \ T \in SUBSET S
  BY FS_Subset
<1>2. /\ IsFiniteSet(T \cup (S \ T))
      /\ Cardinality(T \cup (S \ T)) = Cardinality(T) + Cardinality(S \ T)
  <2>1. T \cap (S \ T) = {}
    OBVIOUS
  <2> QED
    BY <1>1, <2>1, DisjointUnion
<1>3. S \in SUBSET (T \cup (S \ T))
  OBVIOUS
<1> QED
  BY <1>2, <1>3, FS_Subset

\* Let select() load counts in which b has no more than a.  The handlers carried by b
\* and not counted for it, and those counted for a and not carried by it, are different
\* ones, and all of them are between two calls.
LEMMA SkewOfCounts ==
  ASSUME CountInv, NEW a \in Addr, NEW b \in Addr, cell[b] <= cell[a]
  PROVE  Carried(b) <= Carried(a) + Cardinality({d \in Callers : Uncounted(d)})
<1> DEFINE carriers(x) == {c \in Callers :
                             stage[c] \in {"selected", "opening", "open"} /\ chosen[c] = x}
           U == {d \in Callers : Uncounted(d)}
           P == carriers(b) \ Holders(b)
           Q == Holders(a) \ carriers(a)
<1>1. /\ \A x : IsFiniteSet(carriers(x)) /\ IsFiniteSet(Holders(x))
      /\ IsFiniteSet(U) /\ IsFiniteSet(P) /\ IsFiniteSet(Q)
  <2>1. /\ \A x : carriers(x) \in SUBSET Callers /\ Holders(x) \in SUBSET Callers
        /\ U \in SUBSET Callers /\ P \in SUBSET Callers /\ Q \in SUBSET Callers
    BY DEF Holders
  <2> HIDE DEF carriers, U, P, Q
  <2> QED
    BY <2>1, CountAssumption, FS_Subset
<1>2. P \cap Q = {} /\ P \cup Q \in SUBSET U
  BY DEF Holders, Uncounted, Counted
<1>3. Cardinality(P) + Cardinality(Q) <= Cardinality(U)
  <2> HIDE DEF P, Q, U
  <2>1. Cardinality(P \cup Q) = Cardinality(P) + Cardinality(Q)
    BY <1>1, <1>2, DisjointUnion
  <2>2. Cardinality(P \cup Q) <= Cardinality(U)
    BY <1>1, <1>2, FS_Subset
  <2> QED
    BY <2>1, <2>2
<1>4. cell[a] = Cardinality(Holders(a)) /\ cell[b] = Cardinality(Holders(b))
  BY DEF CountInv, CountsAreExact, Holders
<1>5. Carried(a) = Cardinality(carriers(a)) /\ Carried(b) = Cardinality(carriers(b))
  BY DEF Carried
<1>6. /\ Cardinality(carriers(b)) <= Cardinality(Holders(b)) + Cardinality(P)
      /\ Cardinality(Holders(a)) <= Cardinality(carriers(a)) + Cardinality(Q)
  <2> HIDE DEF carriers
  <2> QED
    BY <1>1, CountBeyond
<1>7. /\ Cardinality(carriers(a)) \in Nat /\ Cardinality(carriers(b)) \in Nat
      /\ Cardinality(Holders(a)) \in Nat /\ Cardinality(Holders(b)) \in Nat
      /\ Cardinality(P) \in Nat /\ Cardinality(Q) \in Nat /\ Cardinality(U) \in Nat
  <2> HIDE DEF carriers, P, Q, U
  <2> QED
    BY <1>1, FS_CardinalityType
<1> HIDE DEF carriers, P, Q, U
<1>8. Carried(b) <= Carried(a) + Cardinality(U)
  BY <1>3, <1>4, <1>5, <1>6, <1>7
<1> QED
  BY <1>8 DEF U

\* What select() loads leads it to a backend that carries no more than any other one,
\* but for the handlers between two calls, for any number of handlers and backends.
THEOREM SkewBounded == CountSpec => SkewIsBounded
<1> DEFINE A == \A c \in Callers :
                  stage[c] = "selecting" /\ phase[c] = "called" /\ phase'[c] = "done" =>
                    \A a \in Addr :
                      Carried(Least(answer'[c])) <=
                        Carried(a) + Cardinality({d \in Callers : Uncounted(d)})
<1>1. CountInv /\ [CountNext]_<<vars, handlerVars>> => A
  <2> SUFFICES ASSUME CountInv, [CountNext]_<<vars, handlerVars>>, NEW c \in Callers,
                      stage[c] = "selecting", phase[c] = "called", phase'[c] = "done",
                      NEW a \in Addr
               PROVE  Carried(Least(answer'[c])) <=
                        Carried(a) + Cardinality({d \in Callers : Uncounted(d)})
    OBVIOUS
  <2>1. phase \in [Callers -> {"idle", "called", "loaded", "done"}]
        /\ answer \in [Callers -> Counts]
    BY DEF CountInv, Inv, Shape, CountShape
  <2>2. Observe(c)
    <3>1. PICK d \in Callers : Handler(d)
      BY DEF CountNext, vars
    <3>2. d = c /\ ~(\E o : Call(d, o)) /\ ~Return(d)
      BY <2>1, <3>1 DEF Handler, Starts, Returns, Selects, Running, Effect, Call, Load, Retry,
                        Swap, Store, Observe, Return
    <3>3. Running(c) /\ ~Load(c) /\ ~Retry(c) /\ ~Swap(c)
      BY <2>1, <3>1, <3>2 DEF Handler, Starts, Returns, Selects, Load, Retry, Swap
    <3> QED
      BY <3>3, CountAssumption DEF Running, Effect, Store
  <2>3. answer'[c] = cell
    BY <2>1, <2>2 DEF Observe
  <2>4. cell \in [Addr -> Nat]
    BY CountAssumption, FS_CardinalityType DEF CountInv, Counts
  <2> QED
    BY <2>3, <2>4, LeastIsLeast, SkewOfCounts
<1>2. CountSpec => [][A]_<<vars, handlerVars>>
  BY <1>1, CountInvAlways, PTL DEF CountSpec
<1> QED
  BY <1>2 DEF SkewIsBounded
=============================================================================
