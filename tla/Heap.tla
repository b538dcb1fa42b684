--------------------------------- MODULE Heap ---------------------------------
(***************************************************************************)
(* What a Context promises about managed memory, without its storage: the  *)
(* live allocations, the one word each object holds, and the roots of the  *)
(* script.  An allocation never shares storage with a live one and starts  *)
(* empty; only a delete of that very allocation, or a collection that      *)
(* cannot reach it, ends its life.                                         *)
(***************************************************************************)
CONSTANTS Addr, Null

VARIABLES
  live,      \* the live allocations
  word,      \* what each live object holds: an address, or Null
  roots,     \* the addresses the script's globals and locals hold
  interned,  \* the string literal the Context keeps for the program, or Null
  trap       \* the pending trap, or "none"

vars == <<live, word, roots, interned, trap>>

Init ==
  /\ live = {}
  /\ word = [a \in {} |-> Null]
  /\ roots = {}
  /\ interned = Null
  /\ trap = "none"

\* A set of live allocations that holds the roots and, with every object, the
\* live allocation its word names.  Strings, outside DOMAIN word, hold none.
Closed(S) ==
  /\ (roots \cup {interned}) \cap live \subseteq S
  /\ \A a \in S \cap DOMAIN word : word[a] \in live => word[a] \in S

Reachable == {a \in live : \A S \in SUBSET live : Closed(S) => a \in S}

\* `a` is any address that is not in use.
Create(a, object) ==
  /\ live' = live \cup {a}
  /\ word' = [b \in DOMAIN word \cup (IF object THEN {a} ELSE {}) |->
                IF b = a THEN Null ELSE word[b]]

Allocate(a, object) ==
  /\ trap = "none"
  /\ roots' = roots \cup {a}
  /\ a \notin live
  /\ Create(a, object)
  /\ UNCHANGED <<interned, trap>>

Intern(a) ==
  /\ trap = "none"
  /\ \/ /\ interned # Null
        /\ roots' = roots \cup {interned}
        /\ UNCHANGED <<live, word, interned>>
     \/ /\ interned = Null
        /\ a \notin live
        /\ Create(a, FALSE)
        /\ interned' = a
        /\ roots' = roots \cup {a}
  /\ UNCHANGED trap

Store(a, b) ==
  /\ trap = "none"
  /\ a \in roots
  /\ b \in roots \cup {Null}
  /\ a \in DOMAIN word
  /\ word' = [word EXCEPT ![a] = b]
  /\ UNCHANGED <<live, roots, interned, trap>>

Load(a) ==
  /\ trap = "none"
  /\ a \in roots /\ a \in DOMAIN word
  /\ word[a] # Null
  /\ roots' = roots \cup {word[a]}
  /\ UNCHANGED <<live, word, interned, trap>>

Drop(a) ==
  /\ trap = "none"
  /\ roots' = roots \ {a}
  /\ UNCHANGED <<live, word, interned, trap>>

\* Only the allocation named ends; the literal is forgotten with its string.
Delete(a) ==
  /\ trap = "none"
  /\ a \in roots /\ a \in live
  /\ live' = live \ {a}
  /\ word' = [b \in DOMAIN word \ {a} |-> word[b]]
  /\ interned' = IF interned = a THEN Null ELSE interned
  /\ UNCHANGED <<roots, trap>>

Collect ==
  /\ trap = "none"
  /\ live' = Reachable
  /\ word' = [a \in DOMAIN word \cap Reachable |-> word[a]]
  /\ UNCHANGED <<roots, interned, trap>>

\* A failed allocation, or a diagnosed use of an address that is not live.
Fault(kind) ==
  /\ trap = "none"
  /\ kind # "AllocationFailure" => \E a \in roots : a \notin live
  /\ trap' = kind
  /\ UNCHANGED <<live, word, roots, interned>>

\* The script unwinds to its host, which clears the trap.
Recover ==
  /\ trap # "none"
  /\ trap' = "none"
  /\ roots' \in SUBSET roots
  /\ UNCHANGED <<live, word, interned>>

Next ==
  \/ \E a \in Addr, object \in BOOLEAN : Allocate(a, object)
  \/ \E a \in Addr : Intern(a) \/ Load(a) \/ Drop(a) \/ Delete(a)
  \/ \E a \in Addr, b \in Addr \cup {Null} : Store(a, b)
  \/ Collect
  \/ \E kind \in {"AllocationFailure", "DoubleDelete", "InvalidDelete", "UseAfterDelete"} :
       Fault(kind)
  \/ Recover

Spec == Init /\ [][Next]_vars

=============================================================================
