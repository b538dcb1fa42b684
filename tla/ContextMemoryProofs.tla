------------------------ MODULE ContextMemoryProofs ------------------------
(***************************************************************************)
(* The allocator and the collector implement Heap, for every number and    *)
(* size of chunks, every set of system addresses and every configuration.  *)
(*                                                                         *)
(* The first part is about allocation and release: what either may assume  *)
(* of the storage, leaves true of it, and does to the allocations it is    *)
(* not about.  The second adds the collector, whose marks stay within what *)
(* is reachable and, when the sweep begins, have reached all of it.        *)
(***************************************************************************)
EXTENDS ContextMemory, TLAPS

-----------------------------------------------------------------------------
(* Allocation and release. *)

\* What the steps need to know of the values they touch.
StorageTyped ==
  /\ state \in [Addr -> {"none", "live", "mark", "dead"}]
  /\ class \in [Addr -> Classified]
  /\ word \in [Addr -> AddrOrNull]
  /\ chunks \in [Chunks -> {0} \cup Classes]
  /\ bump \in [Chunks -> Nat]
  /\ open \in [Classes -> {0} \cup Chunks]
  /\ free_heads \in [Classes -> AddrOrNull]
  /\ retained \in Seq(System)

\* Blocks beyond the bump watermark, in chunks not made, or outside the ship
\* mode, were never used.
Watermarks ==
  /\ \A a \in ChunkBlocks : state[a] # "none" =>
       /\ config.mode = "ship"
       /\ a[2] <= bump[a[1]]
       /\ chunks[a[1]] \in Classes
  /\ \A k \in Classes : open[k] # 0 => chunks[open[k]] \in Classes

Dead(a) == a \in ChunkBlocks /\ state[a] = "dead"

\* The free lists, one link at a time: heads and links are dead blocks, and no
\* block is named twice.
FreeListShape ==
  /\ \A k \in Classes : free_heads[k] # Null => Dead(free_heads[k])
  /\ \A k, l \in Classes : free_heads[k] # Null /\ k # l => free_heads[k] # free_heads[l]
  /\ \A a \in ChunkBlocks : Dead(a) /\ word[a] # Null =>
       /\ Dead(word[a])
       /\ \A k \in Classes : word[a] # free_heads[k]
       /\ \A b \in ChunkBlocks : Dead(b) /\ b # a => word[a] # word[b]

\* The retained queue holds distinct allocations that are dead.
RetainedDead ==
  \A i \in 1 .. Len(retained) :
    /\ state[retained[i]] = "dead"
    /\ \A j \in 1 .. Len(retained) : i # j => retained[i] # retained[j]

Storage == StorageTyped /\ Watermarks /\ FreeListShape /\ RetainedDead

-----------------------------------------------------------------------------
(* Allocation and release, whatever their caller. *)

\* Class 0 marks a chunk not made, and every size but Large has a class.
LEMMA SizeClasses == 0 \notin Classes /\ (\A s \in Sizes : s # Large => s \in Classes)
BY ChunkAssumption DEF Classes, Large, Sizes

\* A chunk block is a pair, and never a system address.
LEMMA Blocked ==
  \A a \in ChunkBlocks : /\ a = <<a[1], a[2]>> /\ a[1] \in Chunks /\ a[2] \in Int
                         /\ a \in Addr /\ a \notin System /\ a # Null
<1>1. ChunkBlocks \subseteq Nat \X Nat
  <2>1. UNION {1 .. Blocks[k] : k \in Classes} \subseteq Nat
    OBVIOUS
  <2>2. \A I : I \subseteq Nat => Chunks \X I \subseteq Nat \X Nat
    BY ChunkAssumption, Zenon
  <2> QED
    BY <2>1, <2>2, Zenon DEF ChunkBlocks
<1> QED
  BY <1>1, AddressAssumption DEF ChunkBlocks, Addr

\* An allocation takes an address nobody lives at, and keeps the storage sound.
LEMMA AllocEffect ==
  ASSUME Storage, NEW a \in Addr, NEW s \in Sizes, NEW cl \in Classified, alloc(a, s, cl),
         config' = config
  PROVE  /\ Storage'
         /\ ~Live(a)
         /\ state' = [state EXCEPT ![a] = "live"]
         /\ class' = [class EXCEPT ![a] = cl]
         /\ \E bytes \in AddrOrNull :
              word' = [word EXCEPT ![a] = bytes] /\ (cl # "string" => bytes = Null)
<1> USE DEF Storage, AddrOrNull
<1>1. /\ state' = [state EXCEPT ![a] = "live"]
      /\ class' = [class EXCEPT ![a] = cl]
  BY DEF alloc, PopFree, BumpOpen, BumpNew, FromSystem, Arm
<1>2. PICK bytes \in AddrOrNull :
        word' = [word EXCEPT ![a] = bytes] /\ (cl # "string" => bytes = Null)
  BY NoiseAssumption DEF alloc, PopFree, BumpOpen, BumpNew, FromSystem, Arm, StorageTyped
<1>3. retained' = retained
  BY DEF alloc, devVars
<1>4. CASE config.mode = "ship" /\ s \in Classes /\ PopFree(a, s, cl)
  <2>1. /\ a = free_heads[s] /\ a # Null
        /\ free_heads' = [free_heads EXCEPT ![s] = word[a]]
        /\ UNCHANGED <<chunks, bump, open>>
    BY <1>4 DEF PopFree
  <2>2. Dead(a) /\ (word[a] # Null => Dead(word[a]) /\ word[a] # a)
    BY <1>4, <2>1 DEF FreeListShape, Dead
  <2>3. StorageTyped'
    BY <1>1, <1>2, <1>3, <2>1, Zenon DEF StorageTyped
  <2>4. Watermarks'
    BY <1>1, <2>1, <2>2 DEF Watermarks, StorageTyped, Dead
  <2>5. FreeListShape'
    BY <1>1, <1>2, <1>4, <2>1, <2>2, Blocked DEF FreeListShape, StorageTyped, Dead
  <2>6. RetainedDead'
    BY <1>1, <1>3, <2>2, Blocked DEF RetainedDead, StorageTyped, Dead
  <2> QED
    BY <1>1, <1>2, <2>2, <2>3, <2>4, <2>5, <2>6, Zenon DEF Live, Dead
<1>5. CASE config.mode = "ship" /\ s \in Classes /\ BumpOpen(a, s, cl)
  <2>1. /\ open[s] # 0 /\ a = <<open[s], bump[open[s]] + 1>>
        /\ bump' = [bump EXCEPT ![open[s]] = @ + 1]
        /\ UNCHANGED <<chunks, open, free_heads>>
    BY <1>5 DEF BumpOpen, HasRoom
  <2>2. open[s] \in Chunks /\ chunks[open[s]] \in Classes /\ bump[open[s]] \in Nat
    BY <1>5, <2>1 DEF Watermarks, StorageTyped
  <2>3. a \in ChunkBlocks /\ state[a] = "none"
    <3>1. a \in Nat \X Nat
      <4>1. open[s] \in Nat
        BY <2>2, ChunkAssumption, Zenon
      <4>2. bump[open[s]] + 1 \in Nat
        BY <2>2
      <4> QED
        BY <2>1, <4>1, <4>2
    <3>2. a \in ChunkBlocks
      BY <3>1, AddressAssumption DEF Addr
    <3> QED
      BY <2>1, <2>2, <3>2 DEF Watermarks
  <2>4. StorageTyped'
    BY <1>1, <1>2, <1>3, <2>1, <2>2 DEF StorageTyped
  <2>5. Watermarks'
    BY <1>1, <1>5, <2>1, <2>2, <2>3, Blocked DEF Watermarks, StorageTyped
  <2>6. FreeListShape'
    BY <1>1, <1>2, <2>1, <2>3, Blocked, Zenon DEF FreeListShape, StorageTyped, Dead
  <2>7. RetainedDead'
    BY <1>1, <1>3, <2>3, Blocked DEF RetainedDead, StorageTyped
  <2> QED
    BY <1>1, <1>2, <2>3, <2>4, <2>5, <2>6, <2>7, Zenon DEF Live
<1>6. CASE config.mode = "ship" /\ s \in Classes /\ BumpNew(a, s, cl)
  <2>1. PICK c \in Chunks :
          /\ chunks[c] = 0 /\ a = <<c, 1>>
          /\ chunks' = [chunks EXCEPT ![c] = s]
          /\ open' = [open EXCEPT ![s] = c]
          /\ bump' = [bump EXCEPT ![c] = 1]
          /\ free_heads' = free_heads
    BY <1>6, Zenon DEF BumpNew
  <2>2. \A b \in ChunkBlocks : b[1] = c => state[b] = "none"
    BY <2>1, SizeClasses DEF Watermarks
  <2>3. a \in ChunkBlocks /\ state[a] = "none"
    <3>1. a \in Nat \X Nat
      BY <2>1, ChunkAssumption
    <3>2. a \in ChunkBlocks
      BY <3>1, AddressAssumption DEF Addr
    <3> QED
      BY <2>1, <2>2, <3>2
  <2>4. StorageTyped'
    BY <1>1, <1>2, <1>3, <1>6, <2>1 DEF StorageTyped
  <2>5. Watermarks'
    BY <1>1, <1>6, <2>1, <2>2, <2>3, Blocked DEF Watermarks, StorageTyped
  <2>6. FreeListShape'
    BY <1>1, <1>2, <2>1, <2>3, Blocked, Zenon DEF FreeListShape, StorageTyped, Dead
  <2>7. RetainedDead'
    BY <1>1, <1>3, <2>3, Blocked DEF RetainedDead, StorageTyped
  <2> QED
    BY <1>1, <1>2, <2>3, <2>4, <2>5, <2>6, <2>7, Zenon DEF Live
<1>7. CASE FromSystem(a, s, cl)
  <2>1. /\ a \in System /\ state[a] = "none" /\ a \notin ChunkBlocks
        /\ UNCHANGED <<chunks, bump, open, free_heads>>
    BY <1>7, Blocked DEF FromSystem, arenaVars
  <2>2. StorageTyped'
    BY <1>1, <1>2, <1>3, <2>1 DEF StorageTyped
  <2>3. Watermarks'
    BY <1>1, <2>1, Blocked DEF Watermarks, StorageTyped
  <2>4. FreeListShape'
    BY <1>1, <1>2, <2>1, Blocked DEF FreeListShape, StorageTyped, Dead
  <2>5. RetainedDead'
    BY <1>1, <1>3, <2>1, Blocked DEF RetainedDead, StorageTyped
  <2> QED
    BY <1>1, <1>2, <2>1, <2>2, <2>3, <2>4, <2>5, Zenon DEF Live
<1> QED
  BY <1>1, <1>2, <1>4, <1>5, <1>6, <1>7, SizeClasses, Zenon DEF alloc

\* The queue without its oldest n, and with one more.
Rotated(q, n, a) == Append(SubSeq(q, n + 1, Len(q)), a)

\* Dropping the oldest n of a queue of distinct allocations and appending one
\* more leaves distinct allocations, none of them among those dropped.
LEMMA Rotate ==
  ASSUME NEW q \in Seq(System), NEW n \in 0 .. Len(q), NEW a \in System,
         \A i \in 1 .. Len(q) : q[i] # a /\ \A j \in 1 .. Len(q) : i # j => q[i] # q[j]
  PROVE  /\ Rotated(q, n, a) \in Seq(System)
         /\ \A i \in 1 .. Len(Rotated(q, n, a)) :
              /\ Rotated(q, n, a)[i] \in System
              /\ Rotated(q, n, a)[i] # a =>
                   /\ \A j \in 1 .. n : q[j] # Rotated(q, n, a)[i]
                   /\ \E j \in 1 .. Len(q) : q[j] = Rotated(q, n, a)[i]
              /\ \A j \in 1 .. Len(Rotated(q, n, a)) :
                   i # j => Rotated(q, n, a)[i] # Rotated(q, n, a)[j]
<1> DEFINE t == SubSeq(q, n + 1, Len(q))
           r == Rotated(q, n, a)
<1>0. r = Append(t, a)
  BY DEF Rotated
<1>1. /\ t \in Seq(System) /\ Len(t) = Len(q) - n
      /\ \A i \in 1 .. Len(t) : t[i] = q[i + n]
  OBVIOUS
<1>2. \A i \in 1 .. Len(t) : i + n \in 1 .. Len(q) /\ i + n \notin 1 .. n
  BY <1>1
<1>3. \A i \in 1 .. Len(t) :
        /\ t[i] \in System /\ t[i] # a
        /\ \A j \in 1 .. n : q[j] # t[i]
        /\ \E j \in 1 .. Len(q) : q[j] = t[i]
        /\ \A j \in 1 .. Len(t) : i # j => t[i] # t[j]
  <2> SUFFICES ASSUME NEW i \in 1 .. Len(t)
               PROVE  /\ t[i] \in System /\ t[i] # a
                      /\ \A j \in 1 .. n : q[j] # t[i]
                      /\ \E j \in 1 .. Len(q) : q[j] = t[i]
                      /\ \A j \in 1 .. Len(t) : i # j => t[i] # t[j]
    OBVIOUS
  <2> HIDE DEF t
  <2>1. t[i] = q[i + n] /\ i + n \in 1 .. Len(q)
    BY <1>1, <1>2
  <2>2. \A j \in 1 .. n : j \in 1 .. Len(q) /\ j # i + n
    OBVIOUS
  <2>3. \A j \in 1 .. Len(t) : i # j => t[i] # t[j]
    <3> SUFFICES ASSUME NEW j \in 1 .. Len(t), i # j PROVE t[i] # t[j]
      OBVIOUS
    <3>1. t[j] = q[j + n] /\ j + n \in 1 .. Len(q) /\ i + n # j + n
      BY <1>1, <1>2
    <3> QED
      BY <2>1, <3>1
  <2> QED
    BY <2>1, <2>2, <2>3
<1> HIDE DEF t
<1>4. /\ r \in Seq(System) /\ Len(r) = Len(t) + 1 /\ r[Len(t) + 1] = a
      /\ \A i \in 1 .. Len(t) : r[i] = t[i]
  BY <1>0, <1>1
<1>5. \A i \in 1 .. Len(r) : i = Len(t) + 1 \/ i \in 1 .. Len(t)
  BY <1>1, <1>4
<1> HIDE DEF r
<1>6. ASSUME NEW i \in 1 .. Len(r)
      PROVE  /\ r[i] \in System
             /\ r[i] # a => /\ \A j \in 1 .. n : q[j] # r[i]
                            /\ \E j \in 1 .. Len(q) : q[j] = r[i]
  BY <1>3, <1>4, <1>5
<1>7. ASSUME NEW i \in 1 .. Len(r), NEW j \in 1 .. Len(r), i # j
      PROVE  r[i] # r[j]
  BY <1>3, <1>4, <1>5, <1>7
<1> QED
  BY <1>4, <1>6, <1>7 DEF r

\* A release ends the life of its allocation and of no other, and changes the
\* contents and the class of no other.
LEMMA RetireEffect ==
  ASSUME Storage, NEW a \in Addr, Live(a), Retire(a), config' = config
  PROVE  /\ Storage'
         /\ ~Live(a)'
         /\ \A b \in Addr : b # a =>
              /\ Live(b) => state'[b] = state[b]
              /\ ~Live(b) => ~Live(b)'
              /\ word'[b] = word[b]
              /\ class'[b] = class[b]
<1> USE DEF Storage, AddrOrNull
<1>1. /\ class' = [class EXCEPT ![a] = "object"]
      /\ UNCHANGED <<chunks, bump, open>>
  BY DEF Retire
<1>2. CASE config.mode = "ship" /\ a \in ChunkBlocks
  <2>1. chunks[a[1]] \in Classes
    BY <1>2 DEF Watermarks, Live
  <2>2. PICK k \in Classes :
          /\ word' = [word EXCEPT ![a] = free_heads[k]]
          /\ free_heads' = [free_heads EXCEPT ![k] = a]
    BY <1>2, <2>1 DEF Retire, arena_release
  <2>3. state' = [state EXCEPT ![a] = "dead"] /\ retained' = retained
    BY <1>2 DEF Retire, arena_release, devVars
  <2>4. StorageTyped'
    BY <1>1, <2>2, <2>3 DEF StorageTyped, Classified
  <2>5. Watermarks'
    BY <1>1, <1>2, <2>1, <2>3 DEF Watermarks, StorageTyped, Live
  <2>6. FreeListShape'
    <3>1. \A b \in Addr : Dead(b) => b # a
      BY DEF Dead, Live
    <3> QED
      BY <1>2, <2>2, <2>3, <3>1, Blocked DEF FreeListShape, StorageTyped, Dead
  <2>7. RetainedDead'
    BY <2>3 DEF RetainedDead, StorageTyped, Live
  <2> QED
    BY <1>1, <2>2, <2>3, <2>4, <2>5, <2>6, <2>7 DEF StorageTyped, Live
<1>3. CASE ~(config.mode = "ship" /\ a \in ChunkBlocks)
  <2>1. a \in System /\ a \notin ChunkBlocks
    BY <1>3, Blocked DEF Watermarks, Live, Addr
  <2>2. word' = [word EXCEPT ![a] = Null] /\ free_heads' = free_heads
    BY <1>3, <2>1 DEF Retire, arena_release, dispose_dev_allocation
  <2>3. CASE state' = [state EXCEPT ![a] = "none"] /\ retained' = retained
    <3>1. StorageTyped'
      BY <1>1, <2>2, <2>3 DEF StorageTyped, Classified
    <3>2. Watermarks'
      BY <1>1, <2>1, <2>3 DEF Watermarks, StorageTyped
    <3>3. FreeListShape'
      BY <2>1, <2>2, <2>3, Blocked DEF FreeListShape, StorageTyped, Dead
    <3>4. RetainedDead'
      BY <2>3 DEF RetainedDead, StorageTyped, Live
    <3> QED
      BY <1>1, <2>2, <2>3, <3>1, <3>2, <3>3, <3>4 DEF StorageTyped, Live
  <2>4. CASE \E n \in 0 .. Len(retained) :
               /\ state' = [b \in Addr |-> IF b = a THEN "dead"
                                           ELSE IF \E i \in 1 .. n : retained[i] = b THEN "none"
                                           ELSE state[b]]
               /\ retained' = Append(SubSeq(retained, n + 1, Len(retained)), a)
    <3>1. PICK n \in 0 .. Len(retained) :
            /\ state' = [b \in Addr |-> IF b = a THEN "dead"
                                        ELSE IF \E i \in 1 .. n : retained[i] = b THEN "none"
                                        ELSE state[b]]
            /\ retained' = Append(SubSeq(retained, n + 1, Len(retained)), a)
      BY <2>4, Zenon
    <3>2. \A i \in 1 .. Len(retained) : retained[i] \in System /\ retained[i] # a
      BY DEF RetainedDead, StorageTyped, Live
    <3>3. /\ retained' \in Seq(System)
          /\ \A i \in 1 .. Len(retained') :
               /\ retained'[i] \in System
               /\ retained'[i] # a => /\ \A j \in 1 .. n : retained[j] # retained'[i]
                                      /\ \E j \in 1 .. Len(retained) : retained[j] = retained'[i]
               /\ \A j \in 1 .. Len(retained') : i # j => retained'[i] # retained'[j]
      <4>1. /\ retained \in Seq(System)
            /\ \A i \in 1 .. Len(retained) :
                 /\ retained[i] # a
                 /\ \A j \in 1 .. Len(retained) : i # j => retained[i] # retained[j]
        BY <3>2 DEF StorageTyped, RetainedDead
      <4>2. retained' = Rotated(retained, n, a)
        BY <3>1 DEF Rotated
      <4> QED
        BY <2>1, <4>1, <4>2, Rotate
    <3>4. StorageTyped'
      BY <1>1, <2>2, <3>1, <3>3 DEF StorageTyped, Classified
    <3>5. \A b \in ChunkBlocks : state'[b] = state[b]
      BY <2>1, <3>1, <3>2, Blocked
    <3>6. Watermarks'
      BY <1>1, <3>5 DEF Watermarks
    <3>7. FreeListShape'
      BY <2>1, <2>2, <3>5, Blocked DEF FreeListShape, StorageTyped, Dead
    <3>8. RetainedDead'
      <4>1. \A i \in 1 .. Len(retained') : state'[retained'[i]] = "dead"
        <5> SUFFICES ASSUME NEW i \in 1 .. Len(retained')
                     PROVE  state'[retained'[i]] = "dead"
          OBVIOUS
        <5>1. retained'[i] \in Addr
          BY <3>3 DEF Addr
        <5>2. CASE retained'[i] = a
          BY <3>1, <5>1, <5>2, Zenon
        <5>3. CASE retained'[i] # a
          <6>1. PICK j \in 1 .. Len(retained) : retained[j] = retained'[i]
            BY <3>3, <5>3
          <6>2. ~(\E k \in 1 .. n : retained[k] = retained'[i])
            BY <3>3, <5>3
          <6>3. state[retained'[i]] = "dead"
            BY <6>1 DEF RetainedDead
          <6> QED
            BY <3>1, <5>1, <5>3, <6>2, <6>3
        <5> QED
          BY <5>2, <5>3
      <4> QED
        BY <3>3, <4>1 DEF RetainedDead
    <3>9. \A b \in Addr : b # a => (Live(b) => state'[b] = state[b]) /\ (~Live(b) => ~Live(b)')
      BY <3>1 DEF RetainedDead, Live
    <3> QED
      BY <1>1, <2>2, <3>1, <3>4, <3>6, <3>7, <3>8, <3>9 DEF StorageTyped, Live
  <2>5. \/ state' = [state EXCEPT ![a] = "none"] /\ retained' = retained
        \/ retain_or_release_removed_allocation(a)
    BY <1>3, <2>1 DEF Retire, arena_release, dispose_dev_allocation, devVars
  <2> QED
    BY <2>3, <2>4, <2>5, Zenon DEF retain_or_release_removed_allocation, devVars
<1> QED
  BY <1>2, <1>3

-----------------------------------------------------------------------------
(* The collector. *)

\* What the collector needs to know of the values it touches.
ScriptTyped ==
  /\ roots \subseteq Addr
  /\ interned \in AddrOrNull
  /\ regex \subseteq Addr
  /\ phase \in {"run", "mark", "sweep"}
  /\ work \subseteq Addr
  /\ swept \subseteq Addr

Marked == {a \in Addr : state[a] = "mark"}

\* Marking in progress: whatever is reachable in one step from a marked block
\* or a root is marked or on the work list, and nothing else ever is.
Marking ==
  /\ phase = "run" => Marked = {}
  /\ phase # "mark" => work = {}
  /\ phase # "sweep" => swept = {}
  /\ phase # "run" => trap = "none"
  /\ phase = "mark" =>
       /\ \A a \in roots \cup {interned} : Live(a) => a \in Marked \cup work
       /\ \A a \in Marked : class[a] # "string" /\ Live(word[a]) => word[a] \in Marked \cup work
       /\ \A S \in SUBSET Survivors : TheHeap!Closed(S) =>
            \A a \in Marked \cup work : Live(a) => a \in S
  /\ phase = "sweep" => \A a \in swept : state[a] # "mark"

\* The side tables, in every phase.
Tables ==
  /\ interned # Null => interned \in Survivors /\ class[interned] = "string"
  /\ \A a \in Addr : Live(a) => (a \in regex <=> class[a] = "regex")
  /\ phase = "run" => \A a \in regex : Live(a)

IInv == Storage /\ ScriptTyped /\ Marking /\ Tables

-----------------------------------------------------------------------------
(* The inductive invariant and the step simulation, action by action. *)

\* A new Context satisfies the invariant and maps to an empty heap.
LEMMA InitInv == Init => IInv /\ TheHeap!Init
<1> SUFFICES ASSUME Init PROVE IInv /\ TheHeap!Init
  OBVIOUS
<1> USE DEF Init
<1>1. StorageTyped /\ ScriptTyped
  BY DEF StorageTyped, ScriptTyped, AddrOrNull, Classified
<1>2. Watermarks /\ FreeListShape /\ RetainedDead
  BY SizeClasses, Blocked DEF Watermarks, FreeListShape, RetainedDead, Dead
<1>3. Marking /\ Tables
  BY DEF Marking, Marked, Tables, Live
<1>4. Survivors = {} /\ Contents = [a \in {} |-> Null]
  BY DEF Survivors, Live, Contents
<1> QED
  BY <1>1, <1>2, <1>3, <1>4 DEF IInv, Storage, TheHeap!Init

HeapStep == [TheHeap!Next]_(TheHeap!vars)

\* A new allocation, with or without a table entry.
LEMMA AllocateStep ==
  ASSUME IInv, NEW a \in Addr, NEW s \in Sizes, NEW cl \in Classified, Allocate(a, s, cl)
  PROVE  IInv' /\ HeapStep
<1> USE DEF IInv
<1>1. /\ phase = "run" /\ trap = "none" /\ alloc(a, s, cl) /\ roots' = roots \cup {a}
      /\ regex' = (IF cl = "regex" THEN regex \cup {a} ELSE regex)
      /\ UNCHANGED <<config, interned, trap, phase, work, swept>>
  BY DEF Allocate, Running, Hold, collectVars
<1>2. /\ Storage'
      /\ ~Live(a)
      /\ state' = [state EXCEPT ![a] = "live"]
      /\ class' = [class EXCEPT ![a] = cl]
  BY <1>1, AllocEffect
<1>3. PICK bytes \in AddrOrNull :
        word' = [word EXCEPT ![a] = bytes] /\ (cl # "string" => bytes = Null)
  BY <1>1, AllocEffect
<1>4. \A b \in Addr : Live(b)' <=> (Live(b) \/ b = a)
  BY <1>2 DEF Live, Storage, StorageTyped
<1>5. Survivors = {b \in Addr : Live(b)} /\ Survivors' = Survivors \cup {a} /\ a \notin Survivors
  BY <1>1, <1>2, <1>4 DEF Survivors
<1>6. ScriptTyped'
  BY <1>1 DEF ScriptTyped, AddrOrNull
<1>7. Marking'
  BY <1>1, <1>2 DEF Marking, Marked, Storage, StorageTyped
<1>8. Tables'
  BY <1>1, <1>2, <1>4, <1>5 DEF Tables, Storage, StorageTyped, ScriptTyped, Survivors
<1>9. Contents' = [b \in DOMAIN Contents \cup (IF cl # "string" THEN {a} ELSE {}) |->
                     IF b = a THEN Null ELSE Contents[b]]
  BY <1>2, <1>3, <1>5 DEF Contents, Storage, StorageTyped, Survivors
<1>10. TheHeap!Allocate(a, cl # "string")
  BY <1>1, <1>5, <1>9 DEF TheHeap!Allocate, TheHeap!Create
<1> QED
  BY <1>2, <1>6, <1>7, <1>8, <1>10, Zenon DEF HeapStep, TheHeap!Next

\* A step of the script that leaves the storage and the tables alone.
LEMMA Quiet ==
  ASSUME IInv, phase = "run", roots' \subseteq Addr,
         UNCHANGED <<config, blockVars, arenaVars, devVars, interned, regex, collectVars>>
  PROVE  IInv' /\ Survivors' = Survivors /\ Contents' = Contents
<1> USE DEF IInv, Storage, blockVars, arenaVars, devVars, collectVars
<1>1. StorageTyped' /\ ScriptTyped'
  BY SMTT(20) DEF StorageTyped, ScriptTyped
<1>2. Watermarks' /\ FreeListShape' /\ RetainedDead'
  BY SMTT(20) DEF Watermarks, FreeListShape, RetainedDead, Dead
<1>3. Survivors' = Survivors /\ Contents' = Contents
  BY DEF Survivors, Contents, Live
<1>4. Marking'
  BY SMTT(20) DEF Marking, Marked
<1>5. Tables'
  BY <1>3 DEF Tables, Live
<1> QED
  BY <1>1, <1>2, <1>3, <1>4, <1>5

\* intern_literal is a step of Heap: it hands out the one string of a literal,
\* or allocates it.
LEMMA InternStep ==
  ASSUME IInv, NEW a \in Addr, NEW s \in Sizes, intern_literal(a, s)
  PROVE  IInv' /\ HeapStep
<1> USE DEF IInv
<1>1. /\ phase = "run" /\ trap = "none" /\ roots' = roots \cup {a}
      /\ UNCHANGED <<config, regex, trap, phase, work, swept>>
  BY DEF intern_literal, Running, Hold, collectVars
<1>2. CASE interned # Null
  <2>1. a = interned /\ UNCHANGED <<blockVars, arenaVars, devVars, interned>>
    BY <1>2 DEF intern_literal
  <2>2. IInv' /\ Survivors' = Survivors /\ Contents' = Contents
    BY <1>1, <2>1, Quiet DEF ScriptTyped, collectVars
  <2>3. TheHeap!Intern(a)
    BY <1>1, <1>2, <2>1, <2>2, Zenon DEF TheHeap!Intern
  <2> QED
    BY <2>2, <2>3 DEF HeapStep, TheHeap!Next
<1>3. CASE interned = Null
  <2>1. alloc(a, s, "string") /\ interned' = a
    BY <1>3 DEF intern_literal
  <2>2. /\ Storage'
        /\ ~Live(a)
        /\ state' = [state EXCEPT ![a] = "live"]
        /\ class' = [class EXCEPT ![a] = "string"]
    BY <1>1, <2>1, AllocEffect DEF Classified
  <2>3. PICK bytes \in AddrOrNull : word' = [word EXCEPT ![a] = bytes]
    BY <1>1, <2>1, AllocEffect DEF Classified
  <2>4. \A b \in Addr : Live(b)' <=> (Live(b) \/ b = a)
    BY <2>2 DEF Live, Storage, StorageTyped
  <2>5. Survivors = {b \in Addr : Live(b)} /\ Survivors' = Survivors \cup {a} /\ a \notin Survivors
    BY <1>1, <2>2, <2>4 DEF Survivors
  <2>6. ScriptTyped'
    BY <1>1, <2>1, SMTT(20) DEF ScriptTyped, AddrOrNull
  <2>7. Marking'
    BY <1>1, <2>2, SMTT(20) DEF Marking, Marked, Storage, StorageTyped
  <2>8. Tables'
    BY <1>1, <2>1, <2>2, <2>4, <2>5, SMTT(20) DEF Tables, Storage, StorageTyped, ScriptTyped, Survivors
  <2>9. Contents' = [b \in DOMAIN Contents \cup (IF FALSE THEN {a} ELSE {}) |->
                       IF b = a THEN Null ELSE Contents[b]]
    BY <2>2, <2>3, <2>5 DEF Contents, Storage, StorageTyped, Survivors
  <2>10. TheHeap!Intern(a)
    BY <1>1, <1>3, <2>1, <2>5, <2>9 DEF TheHeap!Intern, TheHeap!Create
  <2> QED
    BY <2>2, <2>6, <2>7, <2>8, <2>10 DEF HeapStep, TheHeap!Next
<1> QED
  BY <1>2, <1>3

\* An explicit delete, and the traps it raises instead.
LEMMA DeleteStep ==
  ASSUME IInv, NEW a \in Addr, delete(a)
  PROVE  IInv' /\ HeapStep
<1> USE DEF IInv
<1>1. /\ phase = "run" /\ trap = "none" /\ a \in roots
      /\ UNCHANGED <<config, roots, phase, work, swept>>
  BY DEF delete, Running, collectVars
<1>2. CASE ~Live(a)
  <2>1. /\ UNCHANGED <<blockVars, arenaVars, devVars, interned, regex>>
        /\ trap' \in {"DoubleDelete", "InvalidDelete"}
    BY <1>2 DEF delete
  <2>2. IInv' /\ Survivors' = Survivors /\ Contents' = Contents
    BY <1>1, <2>1, Quiet DEF ScriptTyped, collectVars
  <2>3. TheHeap!Fault(trap')
    BY <1>1, <1>2, <2>1, <2>2, SMTT(20) DEF TheHeap!Fault, Survivors
  <2> QED
    BY <2>1, <2>2, <2>3 DEF HeapStep, TheHeap!Next
<1>3. CASE Live(a)
  <2>1. Retire(a) /\ release_class_state(a) /\ trap' = trap
    BY <1>3 DEF delete
  <2>2. /\ Storage'
        /\ ~Live(a)'
        /\ \A b \in Addr : b # a =>
             /\ Live(b) => state'[b] = state[b]
             /\ ~Live(b) => ~Live(b)'
             /\ word'[b] = word[b]
             /\ class'[b] = class[b]
    BY <1>1, <1>3, <2>1, RetireEffect
  <2>3. \A b \in Addr : Live(b)' <=> (Live(b) /\ b # a)
    BY <2>2 DEF Live
  <2>4. Survivors = {b \in Addr : Live(b)} /\ Survivors' = Survivors \ {a}
    BY <1>1, <2>3 DEF Survivors
  <2>5. interned' = (IF interned = a THEN Null ELSE interned)
    BY <1>1, <2>1 DEF release_class_state, Tables, ScriptTyped, AddrOrNull
  <2>6. ScriptTyped'
    BY <1>1, <2>1, SMTT(20) DEF ScriptTyped, release_class_state, AddrOrNull
  <2>7. Marking'
    <3>1. Marked' = {}
      BY <1>1, <2>2 DEF Marking, Marked, Live
    <3> QED
      BY <1>1, <3>1, SMTT(20) DEF Marking
  <2>8. Tables'
    <3>1. interned' # Null => interned' \in Survivors' /\ class'[interned'] = "string"
      BY <2>2, <2>4, <2>5 DEF Tables, Survivors
    <3>2. regex' = regex \ {a}
      BY <1>3, <2>1, SMTT(20) DEF release_class_state, Tables
    <3> QED
      BY <1>1, <2>2, <2>3, <3>1, <3>2 DEF Tables, ScriptTyped
  <2>9. Contents' = [b \in DOMAIN Contents \ {a} |-> Contents[b]]
    BY <2>2, <2>4 DEF Contents, Survivors
  <2>10. TheHeap!Delete(a)
    BY <1>1, <1>3, <2>1, <2>4, <2>5, <2>9 DEF TheHeap!Delete
  <2> QED
    BY <2>2, <2>6, <2>7, <2>8, <2>10 DEF HeapStep, TheHeap!Next
<1> QED
  BY <1>2, <1>3

\* A store into a live object changes that word of the heap and nothing else.
LEMMA StoreStep ==
  ASSUME IInv, NEW a \in Addr, NEW b \in AddrOrNull, Store(a, b)
  PROVE  IInv' /\ HeapStep
<1> USE DEF IInv, Storage
<1>1. /\ phase = "run" /\ trap = "none"
      /\ a \in roots /\ Live(a) /\ class[a] = "object" /\ b \in roots \cup {Null}
      /\ word' = [word EXCEPT ![a] = b]
      /\ UNCHANGED <<config, state, class, chunks, bump, open, free_heads, retained,
                    roots, interned, regex, trap, phase, work, swept>>
  BY DEF Store, Running, arenaVars, devVars, scriptVars, collectVars
<1>2. StorageTyped' /\ ScriptTyped' /\ Watermarks' /\ RetainedDead'
  BY <1>1 DEF StorageTyped, ScriptTyped, Watermarks, RetainedDead
<1>3. FreeListShape'
  BY <1>1, Blocked DEF FreeListShape, Dead, Live, StorageTyped
<1>4. Survivors' = Survivors /\ a \in Survivors
  BY <1>1, SMTT(20) DEF Survivors, Live
<1>5. Marking' /\ Tables'
  BY <1>1, <1>4 DEF Marking, Marked, Tables, Live
<1>6. a \in DOMAIN Contents /\ Contents' = [Contents EXCEPT ![a] = b]
  BY <1>1, <1>4, Zenon DEF Contents, StorageTyped, Survivors
<1>7. TheHeap!Store(a, b)
  BY <1>1, <1>4, <1>6 DEF TheHeap!Store
<1> QED
  BY <1>2, <1>3, <1>5, <1>7 DEF HeapStep, TheHeap!Next, AddrOrNull

\* The other steps of the script and of its host.
LEMMA ScriptStep ==
  ASSUME IInv,
         \/ \E a \in Addr : Load(a) \/ Drop(a) \/ StaleUse(a)
         \/ HostClearTrap \/ AllocationFails
  PROVE  IInv' /\ HeapStep
<1> USE DEF IInv, ScriptTyped, Running, scriptVars
<1>1. ASSUME NEW a \in Addr, Load(a) PROVE IInv' /\ HeapStep
  <2>1. word[a] \in Addr /\ a \in DOMAIN Contents /\ Contents[a] = word[a]
    BY <1>1 DEF Load, Contents, Survivors, Storage, StorageTyped, AddrOrNull
  <2>2. IInv' /\ Survivors' = Survivors /\ Contents' = Contents
    BY <1>1, <2>1, Quiet DEF Load, Hold
  <2>3. TheHeap!Load(a)
    BY <1>1, <2>1, <2>2 DEF Load, Hold, TheHeap!Load
  <2> QED
    BY <2>2, <2>3 DEF HeapStep, TheHeap!Next
<1>2. ASSUME NEW a \in Addr, Drop(a) PROVE IInv' /\ HeapStep
  <2>1. IInv' /\ Survivors' = Survivors /\ Contents' = Contents
    BY <1>2, Quiet DEF Drop
  <2>2. TheHeap!Drop(a)
    BY <1>2, <2>1 DEF Drop, TheHeap!Drop
  <2> QED
    BY <2>1, <2>2 DEF HeapStep, TheHeap!Next
<1>3. ASSUME NEW a \in Addr, StaleUse(a) PROVE IInv' /\ HeapStep
  <2>1. IInv' /\ Survivors' = Survivors /\ Contents' = Contents
    BY <1>3, Quiet, SMTT(20) DEF StaleUse
  <2>2. TheHeap!Fault("UseAfterDelete")
    BY <1>3, <2>1 DEF StaleUse, TheHeap!Fault, Survivors
  <2> QED
    BY <2>1, <2>2 DEF HeapStep, TheHeap!Next
<1>4. CASE HostClearTrap
  <2>1. phase = "run"
    BY <1>4 DEF HostClearTrap, Marking
  <2>2. IInv' /\ Survivors' = Survivors /\ Contents' = Contents
    BY <1>4, <2>1, Quiet DEF HostClearTrap
  <2>3. TheHeap!Recover
    BY <1>4, <2>2 DEF HostClearTrap, TheHeap!Recover
  <2> QED
    BY <2>2, <2>3, SMTT(20) DEF HeapStep, TheHeap!Next
<1>5. CASE AllocationFails
  <2>1. IInv' /\ Survivors' = Survivors /\ Contents' = Contents
    BY <1>5, Quiet DEF AllocationFails
  <2>2. TheHeap!Fault("AllocationFailure")
    BY <1>5, <2>1 DEF AllocationFails, TheHeap!Fault
  <2> QED
    BY <2>1, <2>2 DEF HeapStep, TheHeap!Next
<1> QED
  BY <1>1, <1>2, <1>3, <1>4, <1>5

\* The roots go on the work list.
LEMMA PrepareStep ==
  ASSUME IInv, prepare_collection
  PROVE  IInv' /\ HeapStep
<1> USE DEF IInv, Storage
<1>1. /\ phase = "run" /\ trap = "none" /\ phase' = "mark" /\ swept' = {}
      /\ work' = (roots \cup {interned}) \ {Null}
      /\ UNCHANGED <<config, state, class, word, chunks, bump, open, free_heads, retained,
                    roots, interned, regex, trap>>
  BY SMTT(20) DEF prepare_collection, Running, blockVars, arenaVars, devVars, scriptVars
<1>2. StorageTyped' /\ ScriptTyped' /\ Watermarks' /\ FreeListShape' /\ RetainedDead'
  BY <1>1 DEF StorageTyped, ScriptTyped, Watermarks, FreeListShape, RetainedDead, Dead, AddrOrNull
<1>3. Survivors' = Survivors /\ Contents' = Contents
  BY <1>1, Zenon DEF Survivors, Contents, Live
<1>4. Marked' = {}
  BY Zenon, <1>1 DEF Marking, Marked
<1>5. Marking'
  <2>1. \A a \in roots \cup {interned} : Live(a) => a \in work'
    BY <1>1, AddressAssumption DEF Live
  <2>2. ASSUME NEW S \in SUBSET Survivors', TheHeap!Closed(S)', NEW a \in work', Live(a)'
        PROVE  a \in S
    <3>1. a \in Survivors'
      BY <1>1, <2>2 DEF Survivors, Live
    <3> QED
      BY <1>1, <2>2, <3>1 DEF TheHeap!Closed
  <2> QED
    BY <1>1, <1>4, <2>1, <2>2 DEF Marking, Live
<1>6. Tables'
  BY <1>1, <1>3 DEF Tables, Live
<1> QED
  BY <1>1, <1>2, <1>3, <1>5, <1>6 DEF HeapStep, TheHeap!vars

\* One word off the work list.
LEMMA MarkStep ==
  ASSUME IInv, NEW a \in Addr, mark(a)
  PROVE  IInv' /\ HeapStep
<1> USE DEF IInv, Storage
<1>1. /\ phase = "mark" /\ a \in work
      /\ UNCHANGED <<config, class, word, chunks, bump, open, free_heads, retained,
                    roots, interned, regex, trap, phase, swept>>
  BY DEF mark, arenaVars, devVars, scriptVars
<1>2. CASE state[a] # "live"
  <2>1. work' = work \ {a} /\ state' = state
    BY <1>2, SMTT(20) DEF mark, scan_payload
  <2>2. StorageTyped' /\ ScriptTyped' /\ Watermarks' /\ FreeListShape' /\ RetainedDead'
    BY <1>1, <2>1 DEF StorageTyped, ScriptTyped, Watermarks, FreeListShape, RetainedDead, Dead
  <2>3. Survivors' = Survivors /\ Contents' = Contents /\ Marked' = Marked
    BY <1>1, <2>1, Zenon DEF Survivors, Contents, Live, Marked
  <2>4. Live(a) => a \in Marked
    BY <1>2, SMTT(20) DEF Live, Marked
  <2>5. \A S : TheHeap!Closed(S)' <=> TheHeap!Closed(S)
    BY <1>1, <2>3, SMTT(20) DEF TheHeap!Closed
  <2>6. Marking'
    BY Zenon, <1>1, <2>1, <2>3, <2>4, <2>5 DEF Marking, Live
  <2>7. Tables'
    BY <1>1, <2>1, <2>3, Zenon DEF Tables, Live
  <2> QED
    BY <1>1, <2>2, <2>3, <2>6, <2>7 DEF HeapStep, TheHeap!vars
<1>3. CASE state[a] = "live"
  <2>1. /\ state' = [state EXCEPT ![a] = "mark"]
        /\ work' = (work \ {a}) \cup (IF class[a] = "string" THEN {} ELSE {word[a]} \ {Null})
    BY Zenon, <1>3 DEF mark, scan_payload
  <2>2. StorageTyped' /\ ScriptTyped'
    BY <1>1, <2>1 DEF StorageTyped, ScriptTyped, AddrOrNull
  <2>3. Watermarks' /\ FreeListShape' /\ RetainedDead'
    <3>1. Watermarks'
      BY <1>1, <1>3, <2>1, Blocked, SMTT(20) DEF Watermarks, StorageTyped
    <3>2. FreeListShape'
      BY <1>1, <1>3, <2>1, Blocked DEF FreeListShape, StorageTyped, Dead
    <3>3. RetainedDead'
      BY <1>1, <1>3, <2>1 DEF RetainedDead, StorageTyped
    <3> QED
      BY <3>1, <3>2, <3>3
  <2>4. \A b : Live(b)' <=> Live(b)
    BY <1>3, <2>1, SMTT(20) DEF Live, StorageTyped
  <2>5. Survivors' = Survivors /\ Contents' = Contents
    <3>1. Survivors' = Survivors
      BY <1>1, <2>4, Zenon DEF Survivors
    <3> QED
      BY <1>1, <3>1 DEF Contents
  <2>6. Marked' = Marked \cup {a}
    BY <2>1 DEF Marked, StorageTyped
  <2>7. \A S : TheHeap!Closed(S)' <=> TheHeap!Closed(S)
    BY <1>1, <2>5, SMTT(20) DEF TheHeap!Closed
  <2>8. Marking'
    <3>1. \A b \in roots \cup {interned} : Live(b) => b \in Marked' \cup work'
      BY <1>1, <2>1, <2>6, SMTT(20) DEF Marking
    <3>2. \A b \in Marked' : class[b] # "string" /\ Live(word[b]) => word[b] \in Marked' \cup work'
      BY <1>1, <2>1, <2>6, AddressAssumption, SMTT(20) DEF Marking, Live
    <3>3. ASSUME NEW S \in SUBSET Survivors, TheHeap!Closed(S), NEW b \in Marked' \cup work', Live(b)
          PROVE  b \in S
      <4>1. a \in S
        BY <1>1, <1>3, <3>3, Zenon DEF Marking, Live
      <4>2. CASE b \in Marked \cup work
        BY <1>1, <3>3, <4>2, Zenon DEF Marking
      <4>3. CASE class[a] # "string" /\ b = word[a]
        <5>1. a \in DOMAIN Contents /\ Contents[a] = word[a] /\ b \in Survivors
          BY Zenon, <1>1, <1>3, <3>3, <4>3 DEF Contents, Survivors, Live
        <5> QED
          BY <3>3, <4>1, <4>3, <5>1 DEF TheHeap!Closed
      <4> QED
        BY Zenon, <1>1, <2>1, <2>6, <3>3, <4>2, <4>3
    <3> QED
      BY <1>1, <2>4, <2>5, <2>7, <3>1, <3>2, <3>3, SMTT(20) DEF Marking
  <2>9. Tables'
    BY <1>1, <2>4, <2>5 DEF Tables
  <2> QED
    BY <1>1, <2>2, <2>3, <2>5, <2>8, <2>9 DEF HeapStep, TheHeap!vars
<1> QED
  BY <1>2, <1>3

\* When the work list is empty the marked allocations are the reachable ones,
\* no more and no fewer.
LEMMA MarkedIsReachable ==
  ASSUME IInv, phase = "mark", work = {}
  PROVE  Marked = TheHeap!Reachable
<1> USE DEF IInv
<1>1. Survivors = {a \in Addr : Live(a)} /\ Marked \subseteq Survivors
  BY DEF Survivors, Marked, Live
<1>2. TheHeap!Closed(Marked)
  <2>1. (roots \cup {interned}) \cap Survivors \subseteq Marked
    BY <1>1 DEF Marking
  <2>2. \A a \in Marked \cap DOMAIN Contents : Contents[a] \in Survivors => Contents[a] \in Marked
    BY <1>1 DEF Marking, Contents
  <2> QED
    BY <2>1, <2>2 DEF TheHeap!Closed
<1>3. \A S \in SUBSET Survivors : TheHeap!Closed(S) => Marked \subseteq S
  BY <1>1 DEF Marking
<1> QED
  BY <1>1, <1>2, <1>3 DEF TheHeap!Reachable

\* Marking ends: the abstract heap collects at this step.
LEMMA MarkedStep ==
  ASSUME IInv, marked
  PROVE  IInv' /\ HeapStep
<1> USE DEF IInv, Storage
<1>1. /\ phase = "mark" /\ work = {} /\ phase' = "sweep" /\ trap = "none" /\ swept = {}
      /\ UNCHANGED <<config, state, class, word, chunks, bump, open, free_heads, retained,
                    roots, interned, regex, trap, work, swept>>
  BY DEF marked, Marking, blockVars, arenaVars, devVars, scriptVars
<1>2. StorageTyped' /\ ScriptTyped' /\ Watermarks' /\ FreeListShape' /\ RetainedDead'
  BY <1>1, Zenon DEF StorageTyped, ScriptTyped, Watermarks, FreeListShape, RetainedDead, Dead
<1>3. Marking'
  BY <1>1, Zenon DEF Marking, Marked
<1>4. Survivors' = Marked /\ Marked = TheHeap!Reachable
  BY <1>1, MarkedIsReachable DEF Survivors, Marked
<1>5. Marked \subseteq Survivors /\ Contents' = [a \in DOMAIN Contents \cap Marked |-> Contents[a]]
  BY <1>1, <1>4 DEF Contents, Survivors, Marked, Live
<1>6. Tables'
  <2>1. interned # Null => interned \in Marked
    BY <1>1 DEF Tables, Marking, Survivors
  <2> QED
    BY <1>1, <1>4, <2>1 DEF Tables, Live
<1>7. TheHeap!Collect
  BY <1>1, <1>4, <1>5 DEF TheHeap!Collect
<1> QED
  BY <1>2, <1>3, <1>6, <1>7 DEF HeapStep, TheHeap!Next

\* The sweep changes nothing that the script can still see.
LEMMA SweepStep ==
  ASSUME IInv, NEW a \in Addr, sweep(a)
  PROVE  IInv' /\ HeapStep
<1> USE DEF IInv
<1>1. /\ phase = "sweep" /\ a \notin swept /\ Live(a) /\ swept' = swept \cup {a}
      /\ UNCHANGED <<config, roots, interned, regex, trap, phase, work>>
  BY DEF sweep, Unswept, Live, scriptVars
<1>2. ScriptTyped'
  BY <1>1 DEF ScriptTyped
<1>3. CASE state[a] = "mark"
  <2>1. /\ state' = [state EXCEPT ![a] = "live"]
        /\ UNCHANGED <<class, word, chunks, bump, open, free_heads, retained>>
    BY <1>3 DEF sweep, arenaVars, devVars
  <2>2. Storage'
    <3>1. StorageTyped'
      BY <2>1 DEF Storage, StorageTyped
    <3>2. Watermarks'
      BY <1>1, <1>3, <2>1, Blocked DEF Storage, Watermarks, StorageTyped
    <3>3. FreeListShape'
      BY <1>3, <2>1, Blocked DEF Storage, FreeListShape, StorageTyped, Dead
    <3>4. RetainedDead'
      BY <1>3, <2>1 DEF Storage, RetainedDead, StorageTyped
    <3> QED
      BY <3>1, <3>2, <3>3, <3>4 DEF Storage
  <2>3. Survivors' = Survivors
    BY <1>1, <1>3, <2>1 DEF Survivors, Storage, StorageTyped
  <2>4. Contents' = Contents
    BY <2>1, <2>3 DEF Contents
  <2>5. Marking'
    BY <1>1, <2>1 DEF Marking, Storage, StorageTyped, ScriptTyped
  <2>6. \A b : Live(b)' <=> Live(b)
    BY <1>3, <2>1 DEF Live, Storage, StorageTyped
  <2>7. Tables'
    BY <1>1, <2>1, <2>3, <2>6 DEF Tables
  <2> QED
    BY <1>1, <1>2, <2>2, <2>3, <2>4, <2>5, <2>7 DEF HeapStep, TheHeap!vars
<1>4. CASE state[a] # "mark"
  <2>1. Retire(a) /\ state[a] = "live"
    BY <1>4, SMTT(20) DEF sweep
  <2>2. /\ Storage'
        /\ ~Live(a)'
        /\ \A b \in Addr : b # a =>
             /\ Live(b) => state'[b] = state[b]
             /\ ~Live(b) => ~Live(b)'
             /\ word'[b] = word[b]
             /\ class'[b] = class[b]
    BY <1>1, <2>1, RetireEffect, SMTT(20)
  <2>3. a \notin Survivors /\ Survivors' = Survivors
    BY <1>1, <2>1, <2>2, SMTT(20) DEF Survivors, Live
  <2>4. Contents' = Contents
    <3>1. \A b \in Survivors : b \in Addr /\ b # a
      BY <2>3 DEF Survivors
    <3>2. \A b \in Survivors : word'[b] = word[b] /\ class'[b] = class[b]
      BY <2>2, <3>1
    <3>3. {b \in Survivors : class[b] # "string"}' = {b \in Survivors : class[b] # "string"}
      BY <2>3, <3>2
    <3> QED BY <3>2, <3>3 DEF Contents
  <2>5. Marking'
    BY <1>1, <2>2 DEF Marking, ScriptTyped, Live
  <2>6. Tables'
    <3>1. interned # Null => interned # a /\ interned \in Addr
      BY <2>3, Zenon DEF Tables, Survivors
    <3>2. \A b \in Addr : Live(b)' => Live(b) /\ b # a
      BY <2>2
    <3> QED
      BY <1>1, <2>2, <2>3, <3>1, <3>2, Zenon DEF Tables
  <2> QED
    BY <1>1, <1>2, <2>2, <2>3, <2>4, <2>5, <2>6 DEF HeapStep, TheHeap!vars
<1> QED
  BY <1>3, <1>4

\* The end of the collection drops the RegExp state of what was swept, and
\* is invisible in Heap.
LEMMA FinishStep ==
  ASSUME IInv, sweep_regex_values
  PROVE  IInv' /\ HeapStep
<1> USE DEF IInv, Storage
<1>1. /\ phase = "sweep" /\ phase' = "run" /\ swept' = {} /\ \A a \in Addr : ~Unswept(a)
      /\ regex' = {a \in regex : Live(a)}
      /\ UNCHANGED <<config, state, class, word, chunks, bump, open, free_heads, retained,
                    roots, interned, trap, work>>
  BY DEF sweep_regex_values, blockVars, arenaVars, devVars
<1>2. StorageTyped' /\ ScriptTyped' /\ Watermarks' /\ FreeListShape' /\ RetainedDead'
  BY <1>1, Zenon DEF StorageTyped, ScriptTyped, Watermarks, FreeListShape, RetainedDead, Dead
<1>3. \A a \in Addr : Live(a) => a \in swept /\ state[a] = "live"
  BY <1>1, Zenon DEF Unswept, Live, Marking
<1>4. Survivors' = Survivors
  BY <1>1, <1>3 DEF Survivors, Live
<1>5. Contents' = Contents
  BY <1>1, <1>4, SMTT(20) DEF Contents
<1>6. Marking'
  BY <1>1, <1>3, SMTT(20) DEF Marking, Marked, Live
<1>7. Tables'
  BY Zenon, <1>1, <1>4 DEF Tables, Live
<1> QED
  BY <1>1, <1>2, <1>4, <1>5, <1>6, <1>7 DEF HeapStep, TheHeap!vars

\* Every step keeps the invariant and maps to a step or a stutter of Heap.
LEMMA NextStep == IInv /\ [Next]_vars => IInv' /\ HeapStep
<1> SUFFICES ASSUME IInv, [Next]_vars PROVE IInv' /\ HeapStep
  OBVIOUS
<1>1. CASE UNCHANGED vars
  <2> USE <1>1 DEF vars, blockVars, arenaVars, devVars, scriptVars, collectVars, IInv, Storage
  <2>1. StorageTyped' /\ ScriptTyped' /\ Watermarks' /\ FreeListShape' /\ RetainedDead'
    BY Zenon DEF StorageTyped, ScriptTyped, Watermarks, FreeListShape, RetainedDead, Dead
  <2>2. Survivors' = Survivors /\ Contents' = Contents /\ Marked' = Marked
    BY DEF Survivors, Contents, Marked, Live
  <2>3. \A S : TheHeap!Closed(S)' <=> TheHeap!Closed(S)
    BY <2>2, SMTT(20) DEF TheHeap!Closed
  <2>4. Marking' /\ Tables'
    BY <2>2, <2>3 DEF Marking, Tables, Live
  <2> QED
    BY <2>1, <2>2, <2>4 DEF HeapStep, TheHeap!vars
<1>2. CASE \E a \in Addr, s \in Sizes, cl \in Classified : Allocate(a, s, cl)
  BY <1>2, AllocateStep
<1>3. CASE \E a \in Addr, s \in Sizes : intern_literal(a, s)
  BY <1>3, InternStep
<1>4. CASE \E a \in Addr : delete(a)
  BY <1>4, DeleteStep
<1>5. CASE \E a \in Addr : Load(a) \/ Drop(a) \/ StaleUse(a)
  BY <1>5, ScriptStep
<1>6. CASE \E a \in Addr, b \in AddrOrNull : Store(a, b)
  BY <1>6, StoreStep
<1>7. CASE \E a \in Addr : mark(a)
  BY <1>7, MarkStep
<1>8. CASE \E a \in Addr : sweep(a)
  BY <1>8, SweepStep
<1>9. CASE HostClearTrap \/ AllocationFails
  BY <1>9, ScriptStep
<1>10. CASE prepare_collection \/ marked \/ sweep_regex_values
  BY <1>10, PrepareStep, MarkedStep, FinishStep
<1> QED
  BY <1>1, <1>2, <1>3, <1>4, <1>5, <1>6, <1>7, <1>8, <1>9, <1>10 DEF Next, AddrOrNull

\* Chunks, free lists, retention, marking and sweeping implement the heap of
\* module Heap, whatever the chunk sizes, the budgets and the mode.
THEOREM Implements == Spec => IsHeap
<1>1. Spec => []IInv
  BY InitInv, NextStep, PTL DEF Spec
<1>2. Init => TheHeap!Init
  BY InitInv
<1>3. IInv /\ [Next]_vars => [TheHeap!Next]_(TheHeap!vars)
  BY NextStep DEF HeapStep
<1> QED
  BY <1>1, <1>2, <1>3, PTL DEF Spec, IsHeap, TheHeap!Spec

\* The literal table and the RegExp store always name live storage of their
\* own class, through deletes, sweeps and reuse of addresses.
THEOREM TablesSafe == Spec => []TablesFollowStorage
<1>1. Spec => []IInv
  BY InitInv, NextStep, PTL DEF Spec
<1>2. IInv => TablesFollowStorage
  BY DEF IInv, Tables, TablesFollowStorage, Survivors, Live, ScriptTyped
<1> QED
  BY <1>1, <1>2, PTL

=============================================================================
