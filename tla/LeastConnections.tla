-------------------------- MODULE LeastConnections --------------------------
(***************************************************************************)
(* LeastConnections (balance/selection.rs): a count per address in an      *)
(* ArcSwap, with select, increment and decrement, under the use the three  *)
(* are made for: a handler counts the backend that select gave it, and     *)
(* counts it down when it ends.  Nothing in the program makes the last two *)
(* calls, so this use is external; Balancer has what the program does.     *)
(***************************************************************************)
EXTENDS ArcSwapCell, Naturals, Sequences, FiniteSets

CONSTANT Iter   \* the backends, in the order of the set

Addr == {Iter[i] : i \in DOMAIN Iter}

VARIABLES
  stage,   \* per handler: "free", "selecting", "selected", "opening", "open" or "closing"
  chosen   \* per handler: the backend its last select() returned

handlerVars == <<stage, chosen>>

increment(a) == [method |-> "increment", addr |-> a]
decrement(a) == [method |-> "decrement", addr |-> a]
CountEdits == {increment(a) : a \in Addr} \cup {decrement(a) : a \in Addr}

\* An address without an entry counts 0, and so do all of them at first.
NoConnections == [a \in Addr |-> 0]
Counts == [Addr -> 0..Cardinality(Callers)]

CountApply(o, counts) ==
  CASE o.method = "increment" -> [counts EXCEPT ![o.addr] = @ + 1]
    [] o.method = "decrement" -> [counts EXCEPT ![o.addr] = IF @ > 0 THEN @ - 1 ELSE @]

\* Mutant: the greatest count is kept.
LeastReversed(counts) ==
  LET i == CHOOSE i \in DOMAIN Iter :
             \A j \in DOMAIN Iter : counts[Iter[j]] <= counts[Iter[i]]
  IN  Iter[i]

\* min_by_key: the first backend with the least count.
Least(counts) ==
  LET IsLeast(i) == \A j \in DOMAIN Iter : counts[Iter[i]] <= counts[Iter[j]]
      i == CHOOSE i \in DOMAIN Iter : IsLeast(i) /\ \A j \in 1..(i - 1) : ~IsLeast(j)
  IN  Iter[i]

\* The cell is the one of the counts, and select() has a set to choose from.
ASSUME CountAssumption ==
  /\ IsFiniteSet(Callers)
  /\ Iter \in Seq(Addr) /\ Iter # <<>>
  /\ Edits = CountEdits /\ Stores = {} /\ Initial = NoConnections
  /\ \A o \in CountEdits, counts \in Counts : Apply(o, counts) = CountApply(o, counts)

CountInit ==
  /\ Init
  /\ stage = [c \in Callers |-> "free"]
  /\ chosen = [c \in Callers |-> Iter[1]]

\* A handler goes on from one stage to the next by a call, or by its return.
Starts(c, from, to, o) ==
  /\ stage[c] = from
  /\ stage' = [stage EXCEPT ![c] = to]
  /\ Call(c, o)
  /\ UNCHANGED chosen

Returns(c, from, to) ==
  /\ stage[c] = from
  /\ stage' = [stage EXCEPT ![c] = to]
  /\ Return(c)
  /\ UNCHANGED chosen

Selects(c) ==
  /\ stage[c] = "selecting"
  /\ stage' = [stage EXCEPT ![c] = "selected"]
  /\ Return(c)
  /\ chosen' = [chosen EXCEPT ![c] = Least(answer[c])]

Handler(c) ==
  \/ Starts(c, "free", "selecting", Read)
  \/ Selects(c)
  \/ Starts(c, "selected", "opening", increment(chosen[c]))
  \/ Returns(c, "opening", "open")
  \/ Starts(c, "open", "closing", decrement(chosen[c]))
  \/ Returns(c, "closing", "free")
  \/ Running(c) /\ UNCHANGED handlerVars

CountNext == \E c \in Callers : Handler(c)

CountSpec == CountInit /\ [][CountNext]_<<vars, handlerVars>>

-----------------------------------------------------------------------------
(* Properties.                                                             *)

\* A handler is counted from the instant its increment takes effect to the instant
\* its decrement does.
Counted(c) ==
  \/ stage[c] = "opening" /\ phase[c] = "done"
  \/ stage[c] = "open"
  \/ stage[c] = "closing" /\ phase[c] # "done"

\* No increment and no decrement is lost or applied twice, however the rcu loops of
\* the handlers interleave, and no decrement finds a count of 0 and is swallowed.
CountsAreExact ==
  \A a \in Addr : cell[a] = Cardinality({c \in Callers : Counted(c) /\ chosen[c] = a})

\* The connections a backend has: what select() gave to handlers that have not ended.
Carried(a) ==
  Cardinality({c \in Callers : stage[c] \in {"selected", "opening", "open"} /\ chosen[c] = a})

\* The handlers whose connection and whose count disagree: select() and increment()
\* are two calls, and so are the end of a connection and decrement().
Uncounted(c) ==
  \/ stage[c] = "selecting" /\ phase[c] = "done"
  \/ stage[c] \in {"selected", "opening"} /\ ~Counted(c)
  \/ stage[c] = "closing" /\ Counted(c)

\* The counts that select() loads lead it to a backend that carries no more than any
\* other one, but for the handlers that are between two calls at that moment.
SkewIsBounded ==
  [][\A c \in Callers :
       stage[c] = "selecting" /\ phase[c] = "called" /\ phase'[c] = "done" =>
         \A a \in Addr :
           Carried(Least(answer'[c])) <=
             Carried(a) + Cardinality({d \in Callers : Uncounted(d)})]_<<vars, handlerVars>>
=============================================================================
