-------------------------- MODULE OrderedCollection --------------------------
(***************************************************************************)
(* What a Map or a Set promises a script, without its storage: the items   *)
(* in insertion order, no key twice, and the loops that are running over   *)
(* them.  A loop is described by the keys it has passed; the next one it   *)
(* visits is the first item it has not.  An entry added during a loop is   *)
(* still to be visited, with one exception the code has: once the body     *)
(* clears the collection, what is added afterwards may be passed over.     *)
(***************************************************************************)
EXTENDS Sequences, SequencesExt

CONSTANTS
  Keys, Values,
  NoValue,  \* the value of every item of a Set
  Others    \* the sets that set algebra takes as its argument, as key sequences

VARIABLES
  items,    \* the items, in insertion order
  loops,    \* the running loops, innermost last
  outcome,  \* what the last step answered or how it ended a loop, else <<>>
  trapped   \* a failed allocation has stopped the script

vars == <<items, loops, outcome, trapped>>

KeysOf(s) == {s[i].key : i \in DOMAIN s}

Init ==
  /\ items = <<>>
  /\ loops = <<>>
  /\ outcome = <<>>
  /\ trapped = FALSE

\* The loops after `change` was applied to the keys each has passed.
Adjust(change(_)) == [i \in DOMAIN loops |-> [loops[i] EXCEPT !.seen = change(@)]]

Overwrite(k, v) ==
  /\ ~trapped
  /\ k \in KeysOf(items)
  /\ items' = [i \in DOMAIN items |-> IF items[i].key = k THEN [key |-> k, value |-> v]
                                                          ELSE items[i]]
  /\ outcome' = <<>>
  /\ UNCHANGED <<loops, trapped>>

\* Only a loop whose collection was cleared under it may pass over the item.
Add(k, v) ==
  /\ ~trapped
  /\ k \notin KeysOf(items)
  /\ items' = Append(items, [key |-> k, value |-> v])
  /\ \E missing \in SUBSET {i \in DOMAIN loops : loops[i].cleared} :
       loops' = [i \in DOMAIN loops |->
                   IF i \in missing THEN [loops[i] EXCEPT !.seen = @ \cup {k}] ELSE loops[i]]
  /\ outcome' = <<>>
  /\ UNCHANGED trapped

Erase(k) ==
  /\ ~trapped
  /\ items' = SelectSeq(items, LAMBDA item : item.key # k)
  /\ loops' = Adjust(LAMBDA seen : seen \ {k})
  /\ outcome' = <<>>
  /\ UNCHANGED trapped

Empty ==
  /\ ~trapped
  /\ items' = <<>>
  /\ loops' = [i \in DOMAIN loops |-> [seen |-> {}, cleared |-> TRUE]]
  /\ outcome' = <<>>
  /\ UNCHANGED trapped

\* A loop over nothing ends before its first round.
Start ==
  /\ ~trapped
  /\ \/ /\ items # <<>>
        /\ loops' = Append(loops, [seen |-> {Head(items).key}, cleared |-> FALSE])
        /\ outcome' = <<>>
     \/ /\ items = <<>>
        /\ outcome' = <<"exhausted">>
        /\ UNCHANGED loops
  /\ UNCHANGED <<items, trapped>>

KeySequence == [i \in DOMAIN items |-> items[i].key]

\* What set algebra makes of two key sequences without repetitions: the order
\* is the receiver's and then the argument's, for an intersection that of the
\* smaller operand.
Combined(op, s, t) ==
  LET Only(u, w) == SelectSeq(u, LAMBDA k : k \notin Range(w))
      Both(u, w) == SelectSeq(u, LAMBDA k : k \in Range(w))
  IN  CASE op = "union" -> s \o Only(t, s)
        [] op = "intersection" -> IF Len(s) <= Len(t) THEN Both(s, t) ELSE Both(t, s)
        [] op = "difference" -> Only(s, t)
        [] op = "symmetricDifference" -> Only(s, t) \o Only(t, s)

\* The script goes on with the new set in place of the receiver.
Combine(op, other) ==
  /\ ~trapped
  /\ loops = <<>>
  /\ LET keys == Combined(op, KeySequence, other)
     IN  items' = [i \in DOMAIN keys |-> [key |-> keys[i], value |-> NoValue]]
  /\ outcome' = <<op>>
  /\ UNCHANGED <<loops, trapped>>

Holds(op, S, T) ==
  CASE op = "isSubsetOf" -> S \subseteq T
    [] op = "isSupersetOf" -> T \subseteq S
    [] op = "isDisjointFrom" -> S \cap T = {}

Test(op, other) ==
  /\ ~trapped
  /\ outcome' = <<op, Holds(op, KeysOf(items), Range(other))>>
  /\ UNCHANGED <<items, loops, trapped>>

\* A copy has the same items in the same order.
Copy ==
  /\ ~trapped
  /\ outcome' = <<"copy">>
  /\ UNCHANGED <<items, loops, trapped>>

\* The innermost loop goes on to the first item it has not passed.
Visit ==
  /\ ~trapped
  /\ loops # <<>>
  /\ LET ahead == SelectSeq(items, LAMBDA item : item.key \notin Last(loops).seen)
     IN  /\ ahead # <<>>
         /\ loops' = [loops EXCEPT ![Len(loops)].seen = @ \cup {Head(ahead).key}]
  /\ outcome' = <<>>
  /\ UNCHANGED <<items, trapped>>

\* It ends by itself only when it has passed every item.
Finish ==
  /\ ~trapped
  /\ loops # <<>>
  /\ KeysOf(items) \subseteq Last(loops).seen
  /\ loops' = Front(loops)
  /\ outcome' = <<"exhausted">>
  /\ UNCHANGED <<items, trapped>>

Break ==
  /\ ~trapped
  /\ loops # <<>>
  /\ loops' = Front(loops)
  /\ outcome' = <<"left">>
  /\ UNCHANGED <<items, trapped>>

\* Storage ran out: nothing was added, and the script unwinds to its host.
Fail ==
  /\ ~trapped
  /\ trapped' = TRUE
  /\ loops' = <<>>
  /\ outcome' = <<>>
  /\ UNCHANGED items

Recover ==
  /\ trapped
  /\ trapped' = FALSE
  /\ outcome' = <<>>
  /\ UNCHANGED <<items, loops>>

Next ==
  \/ \E k \in Keys, v \in Values \cup {NoValue} : Overwrite(k, v) \/ Add(k, v)
  \/ \E k \in Keys : Erase(k)
  \/ \E other \in Others :
       \/ \E op \in {"union", "intersection", "difference", "symmetricDifference"} : Combine(op, other)
       \/ \E op \in {"isSubsetOf", "isSupersetOf", "isDisjointFrom"} : Test(op, other)
  \/ Copy
  \/ Empty \/ Start \/ Visit \/ Finish \/ Break \/ Fail \/ Recover

Spec == Init /\ [][Next]_vars

=============================================================================
