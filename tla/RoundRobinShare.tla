--------------------------- MODULE RoundRobinShare ---------------------------
(***************************************************************************)
(* Balancer with the accounts an even share needs: how often each backend  *)
(* of the published set was drawn since that set was published, and what   *)
(* disturbed the draws meanwhile.  The accounts are history variables: no  *)
(* step of Balancer reads them.                                            *)
(***************************************************************************)
EXTENDS Balancer, Functions

CONSTANT MaxDraws   \* bound: the draws accounted for one published set

ASSUME MaxDrawsAssumption == MaxDraws \in Nat

VARIABLES
  tally,       \* draws of each address by calls that loaded the published set
  strays,      \* draws by calls that had loaded another set
  unevenWraps  \* times the index wrapped when the set's length does not divide IndexSize

accounts == <<tally, strays, unevenWraps>>

ShareInit ==
  /\ Init
  /\ tally = [a \in Addr |-> 0]
  /\ strays = 0
  /\ unevenWraps = 0

WrapsUnevenly ==
  /\ backends # {}
  /\ index' # index + 1
  /\ IndexSize % Cardinality(backends) # 0

AccountedChoose(c) ==
  /\ SumFunction(tally) + strays < MaxDraws
  /\ Choose(c)
  /\ IF view[c] = backends
     THEN /\ tally' = [tally EXCEPT ![answer'[c]] = @ + 1]
          /\ UNCHANGED strays
     ELSE /\ strays' = strays + 1
          /\ UNCHANGED tally
  /\ unevenWraps' = IF WrapsUnevenly THEN unevenWraps + 1 ELSE unevenWraps

\* The accounts run on over a refresh that finds the same set again.
AccountedPublish ==
  /\ Publish
  /\ IF backends' = backends
     THEN UNCHANGED accounts
     ELSE /\ tally' = [a \in Addr |-> 0]
          /\ strays' = 0
          /\ unevenWraps' = 0

Unaccounted ==
  /\ \/ ZoneChanges \/ Tick \/ LookupAnswers \/ LookupFails
     \/ \E c \in Callers : LoadEmpty(c) \/ Load(c) \/ Finish(c)
  /\ UNCHANGED accounts

ShareNext ==
  \/ AccountedPublish
  \/ Unaccounted
  \/ \E c \in Callers : AccountedChoose(c)

ShareSpec == ShareInit /\ [][ShareNext]_<<vars, accounts>>

-----------------------------------------------------------------------------

\* Round robin gives every backend of the published set the same number of
\* connections, give or take one, however the calls interleave.  Only two things
\* add to the difference, each by one at a time: a call that draws from a set
\* that is no longer published uses up a ticket, and the wrapped index restarts
\* in the middle of a round when the length does not divide 2^64.
EvenShare ==
  \A a, b \in backends : tally[a] <= tally[b] + 1 + strays + unevenWraps
=============================================================================
