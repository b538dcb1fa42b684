----------------------------- MODULE Associations -----------------------------
(***************************************************************************)
(* Map and Set storage (runtime/src/assocops.rs) and the loops generated   *)
(* code runs over it (codegen/src/lower/func/iterator.rs).                 *)
(*                                                                         *)
(* A container has an entry vector in insertion order and a bucket index   *)
(* into it with linear probing.  A deleted entry leaves a hole in the      *)
(* vector and a tombstone in the index; holes are packed away only at the  *)
(* growth boundary and only when no loop has ever begun on the container,  *)
(* tombstones only by a rebuild.  `clear` drops both blocks.               *)
(*                                                                         *)
(* Entries are numbered from 1, as the buckets store them (the code's      *)
(* entry index plus one), and loop positions with them.  The code's        *)
(* iteration_depth is only ever compared with zero; `iterated` is that     *)
(* comparison.  Generated loops raise it at every bound they read and      *)
(* never lower it.                                                         *)
(***************************************************************************)
EXTENDS Integers, Sequences, FiniteSets, SequencesExt, FiniteSetsExt

CONSTANTS
  Keys, Values,
  NoValue,            \* the value of every entry of a Set
  Operands,           \* the sets that set algebra takes as its argument
  Hash,               \* the 64-bit hash of a key, as a function
  InitialOrderCap,    \* INITIAL_ORDER_CAP, 4 in the code
  InitialBucketCap,   \* INITIAL_BUCKET_CAP, 8 in the code: a power of two
  MaxEntries,         \* bound on the entry vector
  MaxLoops            \* bound on the loops nested at a time

ASSUME HashAssumption == Hash \in [Keys -> Nat]

VARIABLES
  kind,     \* CLASS_MAP or CLASS_SET: "map" or "set"
  assoc,    \* the AssocHeader with its two blocks
  loops,    \* cursors of the running loops, innermost last; `cleared` is a
            \* history: the container was cleared since the loop began
  outcome,  \* what the last step answered or how it ended a loop, else <<>>
  trapped   \* Context.trapped(): an allocation failed

vars == <<kind, assoc, loops, outcome, trapped>>

EMPTY == 0
TOMBSTONE == -1

\* A removed entry is zeroed; its active word is then 0.
Hole == [active |-> FALSE]
Entry(k, v) == [active |-> TRUE, key |-> k, value |-> v]

EmptyAssoc ==
  [entries |-> <<>>, order_cap |-> 0, buckets |-> <<>>, bucket_cap |-> 0,
   len |-> 0, tombstones |-> 0, iterated |-> FALSE]

Init ==
  /\ kind \in {"map", "set"}
  /\ assoc = EmptyAssoc
  /\ loops = <<>>
  /\ outcome = <<>>
  /\ trapped = FALSE

-----------------------------------------------------------------------------
(* The bucket index. *)

\* The probe sequence of key k, and the slot found at distance d.
Probe(k, cap, d) == (Hash[k] + d) % cap

\* Probing ends at a free bucket or at k's own; a new key goes to the first
\* tombstone met on the way, if any.  Entry 0 is the code's None.
lookup(c, k) ==
  IF c.bucket_cap = 0 THEN [bucket |-> 0, entry |-> 0]
  ELSE LET Slot(d) == c.buckets[Probe(k, c.bucket_cap, d)]
           Own(d) == /\ Slot(d) \notin {EMPTY, TOMBSTONE}
                     /\ c.entries[Slot(d)].key = k
           Distances == 0 .. c.bucket_cap - 1
           ends == {d \in Distances : Slot(d) = EMPTY \/ Own(d)}
           last == IF ends = {} THEN c.bucket_cap ELSE Min(ends)
           reusable == {d \in Distances : d < last /\ Slot(d) = TOMBSTONE}
           At(d) == Probe(k, c.bucket_cap, d)
       IN  IF ends # {} /\ Own(last)
           THEN [bucket |-> At(last), entry |-> Slot(last)]
           ELSE [bucket |-> IF reusable # {} THEN At(Min(reusable))
                            ELSE IF ends # {} THEN At(last) ELSE 0,
                 entry |-> 0]

\* The index over `entries` alone, rebuilt into cleared buckets.
bucket_insert(buckets, cap, k, entry) ==
  LET free == {d \in 0 .. cap - 1 : buckets[Probe(k, cap, d)] = EMPTY}
  IN  [buckets EXCEPT ![Probe(k, cap, Min(free))] = entry]

Reindex(entries, cap) ==
  FoldLeft(LAMBDA buckets, i : IF entries[i].active
                               THEN bucket_insert(buckets, cap, entries[i].key, i)
                               ELSE buckets,
           [b \in 0 .. cap - 1 |-> EMPTY],
           [i \in DOMAIN entries |-> i])

-----------------------------------------------------------------------------
(* Capacity. *)

Active(entries) == SelectSeq(entries, LAMBDA e : e.active)

AtGrowthBoundary(c) == Len(c.entries) = c.order_cap

\* Stable packing of the active entries over the holes.
compact_entries(c) ==
  LET packed == Active(c.entries)
  IN  [c EXCEPT !.entries = packed,
                !.buckets = Reindex(packed, c.bucket_cap),
                !.tombstones = 0]

\* Mutant: packing although a loop may hold a position in the vector.
PackedUnderLoops(c) ==
  IF AtGrowthBoundary(c) /\ c.len < Len(c.entries) THEN compact_entries(c) ELSE c

Packed(c) ==
  IF AtGrowthBoundary(c) /\ ~c.iterated /\ c.len < Len(c.entries)
  THEN compact_entries(c) ELSE c

grow_entries(c) ==
  [c EXCEPT !.order_cap = IF @ = 0 THEN InitialOrderCap ELSE 2 * @]

\* Three quarters of the buckets used or tombstoned, counting the new key.
IndexIsTight(c) ==
  c.bucket_cap = 0 \/ (c.len + c.tombstones + 1) * 4 >= c.bucket_cap * 3

\* The index doubles only when the active entries alone are that many.
rehash(c) ==
  LET cap == IF c.bucket_cap = 0 THEN InitialBucketCap
             ELSE IF (c.len + 1) * 4 >= c.bucket_cap * 3 THEN 2 * c.bucket_cap
             ELSE c.bucket_cap
  IN  [c EXCEPT !.buckets = Reindex(c.entries, cap),
                !.bucket_cap = cap,
                !.tombstones = 0]

\* Every way ensure_capacity can end: done, or stopped by either allocation.
ensure_capacity(c) ==
  LET packed == Packed(c)
      grown == IF AtGrowthBoundary(packed) THEN grow_entries(packed) ELSE packed
      ready == IF IndexIsTight(grown) THEN rehash(grown) ELSE grown
  IN  {[to |-> ready, done |-> TRUE]}
      \cup (IF AtGrowthBoundary(packed) THEN {[to |-> packed, done |-> FALSE]} ELSE {})
      \cup (IF IndexIsTight(grown) THEN {[to |-> grown, done |-> FALSE]} ELSE {})

-----------------------------------------------------------------------------
(* Operations of the script.  A failed allocation traps: the script unwinds  *)
(* to its host, out of every loop, and the host clears the trap.             *)

\* A new entry goes to the end of the vector and into the bucket looked up
\* after the storage was made ready.
Store(c, k, v) ==
  LET slot == lookup(c, k).bucket
      entry == Len(c.entries) + 1
  IN  [c EXCEPT !.entries = Append(@, Entry(k, v)),
                !.buckets = [@ EXCEPT ![slot] = entry],
                !.tombstones = IF c.buckets[slot] = TOMBSTONE THEN @ - 1 ELSE @,
                !.len = @ + 1]

insert(k, v) ==
  /\ ~trapped
  /\ v \in (IF kind = "map" THEN Values ELSE {NoValue})
  /\ LET found == lookup(assoc, k).entry
     IN  \/ /\ found # 0
            /\ assoc' = [assoc EXCEPT !.entries[found].value = v]
            /\ UNCHANGED <<loops, trapped>>
         \/ /\ found = 0
            /\ Len(Packed(assoc).entries) < MaxEntries
            /\ \E storage \in ensure_capacity(assoc) :
                 \/ /\ storage.done
                    /\ assoc' = Store(storage.to, k, v)
                    /\ UNCHANGED <<loops, trapped>>
                 \/ /\ ~storage.done
                    /\ assoc' = storage.to
                    /\ loops' = <<>>
                    /\ trapped' = TRUE
  /\ outcome' = <<>>
  /\ UNCHANGED kind

\* Mutant: the bucket of a removed entry ends the probe sequences over it.
ErasedFreesBucket(c, found) ==
  [c EXCEPT !.buckets[found.bucket] = EMPTY,
            !.entries[found.entry] = Hole,
            !.len = @ - 1]

\* Without allocation: the bucket becomes a tombstone, the entry a hole.
Erased(c, found) ==
  [c EXCEPT !.buckets[found.bucket] = TOMBSTONE,
            !.entries[found.entry] = Hole,
            !.len = @ - 1,
            !.tombstones = @ + 1]

delete(k) ==
  /\ ~trapped
  /\ LET found == lookup(assoc, k)
     IN  assoc' = IF found.entry = 0 THEN assoc ELSE Erased(assoc, found)
  /\ outcome' = <<>>
  /\ UNCHANGED <<kind, loops, trapped>>

\* Both blocks go; that loops have run over the container stays recorded.
clear ==
  /\ ~trapped
  /\ assoc' = [EmptyAssoc EXCEPT !.iterated = assoc.iterated]
  /\ loops' = [i \in DOMAIN loops |-> [loops[i] EXCEPT !.cleared = TRUE]]
  /\ outcome' = <<>>
  /\ UNCHANGED <<kind, trapped>>

-----------------------------------------------------------------------------
(* Set algebra and copies: fresh containers, filled by the same insertion.   *)
(* The script goes on with the fresh one; no loop runs over it.              *)

\* Insertion of a new key with the storage it asks for.
Inserted(c, e) ==
  IF lookup(c, e.key).entry # 0 THEN c
  ELSE Store((CHOOSE storage \in ensure_capacity(c) : storage.done).to, e.key, e.value)

has(c, k) == lookup(c, k).entry # 0

Members(c) == {k \in Keys : has(c, k)}

\* The keys of `source` that are wanted, in order.
set_insert_ordered(out, source, wanted) ==
  FoldLeft(Inserted, out, SelectSeq(source.entries, LAMBDA e : e.active /\ e.key \in wanted))

Fresh(op, left, right) ==
  LET Filled(source, wanted) == set_insert_ordered(EmptyAssoc, source, wanted)
  IN  CASE op = "union" ->
             set_insert_ordered(Filled(left, Keys), right, Keys)
        [] op = "intersection" ->
             IF left.len <= right.len THEN Filled(left, Members(right))
                                      ELSE Filled(right, Members(left))
        [] op = "difference" ->
             Filled(left, Keys \ Members(right))
        [] op = "symmetricDifference" ->
             set_insert_ordered(Filled(left, Keys \ Members(right)), right, Keys \ Members(left))

\* An allocation that fails leaves the operands alone and traps.
SetAlgebra(op, right) ==
  /\ ~trapped
  /\ kind = "set"
  /\ loops = <<>>
  /\ \/ /\ assoc' = Fresh(op, assoc, right)
        /\ outcome' = <<op>>
        /\ UNCHANGED trapped
     \/ /\ trapped' = TRUE
        /\ outcome' = <<>>
        /\ UNCHANGED assoc
  /\ UNCHANGED <<kind, loops>>

set_all_in(source, other) == \A i \in DOMAIN source.entries :
  source.entries[i].active => has(other, source.entries[i].key)

set_any_in(source, other) == \E i \in DOMAIN source.entries :
  source.entries[i].active /\ has(other, source.entries[i].key)

\* The lengths are compared before any key is.
SetTest(op, right) ==
  /\ ~trapped
  /\ kind = "set"
  /\ loops = <<>>
  /\ outcome' =
       <<op, CASE op = "isSubsetOf" -> assoc.len <= right.len /\ set_all_in(assoc, right)
               [] op = "isSupersetOf" -> assoc.len >= right.len /\ set_all_in(right, assoc)
               [] op = "isDisjointFrom" ->
                    IF assoc.len <= right.len THEN ~set_any_in(assoc, right)
                                              ELSE ~set_any_in(right, assoc)>>
  /\ UNCHANGED <<kind, assoc, loops, trapped>>

\* The traversal of the source is ended, so `iterated` is as it was.
copy_map ==
  /\ ~trapped
  /\ kind = "map"
  /\ loops = <<>>
  /\ \/ /\ assoc' = FoldLeft(Inserted, EmptyAssoc, Active(assoc.entries))
        /\ outcome' = <<"copy">>
        /\ UNCHANGED trapped
     \/ /\ trapped' = TRUE
        /\ outcome' = <<>>
        /\ UNCHANGED assoc
  /\ UNCHANGED <<kind, loops>>

-----------------------------------------------------------------------------
(* Loops.  A cursor is moved after each round of the body, to the next entry *)
(* that is active then; the bound is the length of the vector at that time.  *)

next_live_assoc_position(c, start) ==
  LET live == {i \in start .. Len(c.entries) : c.entries[i].active}
  IN  IF live # {} THEN Min(live)
      ELSE IF start > Len(c.entries) THEN start ELSE Len(c.entries) + 1

HasNext(c, position) == position <= Len(c.entries)

Iterated(c) == [c EXCEPT !.iterated = TRUE]

iterator_create ==
  /\ ~trapped
  /\ Len(loops) < MaxLoops
  /\ LET position == next_live_assoc_position(assoc, 1)
     IN  \/ /\ HasNext(assoc, position)
            /\ loops' = Append(loops, [position |-> position, cleared |-> FALSE])
            /\ outcome' = <<>>
         \/ /\ ~HasNext(assoc, position)
            /\ outcome' = <<"exhausted">>
            /\ UNCHANGED loops
  /\ assoc' = Iterated(assoc)
  /\ UNCHANGED <<kind, trapped>>

iterator_advance ==
  /\ ~trapped
  /\ loops # <<>>
  /\ LET position == next_live_assoc_position(assoc, Last(loops).position + 1)
     IN  \/ /\ HasNext(assoc, position)
            /\ loops' = [loops EXCEPT ![Len(loops)].position = position]
            /\ outcome' = <<>>
         \/ /\ ~HasNext(assoc, position)
            /\ loops' = Front(loops)
            /\ outcome' = <<"exhausted">>
  /\ assoc' = Iterated(assoc)
  /\ UNCHANGED <<kind, trapped>>

\* break, return and a thrown exception leave the innermost loop.
LeaveLoop ==
  /\ ~trapped
  /\ loops # <<>>
  /\ loops' = Front(loops)
  /\ outcome' = <<"left">>
  /\ UNCHANGED <<kind, assoc, trapped>>

HostClearTrap ==
  /\ trapped
  /\ trapped' = FALSE
  /\ outcome' = <<>>
  /\ UNCHANGED <<kind, assoc, loops>>

Next ==
  \/ \E k \in Keys, v \in Values \cup {NoValue} : insert(k, v)
  \/ \E k \in Keys : delete(k)
  \/ \E right \in Operands :
       \/ \E op \in {"union", "intersection", "difference", "symmetricDifference"} : SetAlgebra(op, right)
       \/ \E op \in {"isSubsetOf", "isSupersetOf", "isDisjointFrom"} : SetTest(op, right)
  \/ copy_map
  \/ clear \/ iterator_create \/ iterator_advance \/ LeaveLoop \/ HostClearTrap

Spec == Init /\ [][Next]_vars

-----------------------------------------------------------------------------
(* Properties. *)

\* The keys of the active entries up to a position.
KeysUpTo(entries, position) ==
  {entries[i].key : i \in {j \in DOMAIN entries : j <= position /\ entries[j].active}}

\* The keys a loop has passed: those at or before its position.
Seen(loop) == KeysUpTo(assoc.entries, loop.position)

\* Lookup is exact however the container came to be as it is: every key of an
\* active entry is found at that entry, every other key is not found, and the
\* bucket offered for a new key is never one that an active entry occupies.
LookupIsExact ==
  \A k \in Keys :
    LET found == lookup(assoc, k)
        at == {i \in DOMAIN assoc.entries : assoc.entries[i].active /\ assoc.entries[i].key = k}
    IN  /\ at = IF found.entry = 0 THEN {} ELSE {found.entry}
        /\ (found.entry = 0 /\ assoc.bucket_cap # 0)
             => assoc.buckets[found.bucket] \in {EMPTY, TOMBSTONE}

Items(c) ==
  LET active == Active(c.entries)
  IN  [i \in DOMAIN active |-> [key |-> active[i].key, value |-> active[i].value]]

OperandKeys == {[i \in DOMAIN Items(c) |-> Items(c)[i].key] : c \in Operands}

Ordered ==
  INSTANCE OrderedCollection
  WITH items <- Items(assoc),
       loops <- [i \in DOMAIN loops |->
                   [seen |-> Seen(loops[i]), cleared |-> loops[i].cleared]],
       Others <- OperandKeys

\* The storage with its loops behaves as an insertion-ordered collection:
\* packing, growth, rebuilds and failed allocations are invisible, every loop
\* visits each entry once, in order, and ends by itself only after the last.
IsOrderedCollection == Ordered!Spec
=============================================================================
