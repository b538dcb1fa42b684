---------------------------- MODULE ContextMemory ----------------------------
(***************************************************************************)
(* The allocator and the collector of a Context                            *)
(* (runtime/src/context/lifecycle.rs and memory.rs) in their three modes:  *)
(*   "ship"         size-class chunks with free lists threaded through the *)
(*                  dead blocks, large allocations from the system         *)
(*   "release"      every allocation from the system, freed at once        *)
(*   "diagnostics"  freed allocations poisoned and retained, within a byte *)
(*                  budget, so that stale handles trap                     *)
(* An allocation is its payload address and is abstracted to one payload   *)
(* word.  In a dead chunk block that word is the free-list link.           *)
(*                                                                         *)
(* A use or a delete through a stale handle is undefined outside           *)
(* diagnostics; the script does neither there, except that a stale delete  *)
(* of a dead address is the no-op the code makes of it.                    *)
(***************************************************************************)
EXTENDS Integers, Sequences, FiniteSets, Functions

CONSTANTS
  Configs,       \* the configurations a Context may be created in: its mode,
                 \* the min_payload and max_retained of its diagnostics, and
                 \* the chunks and system blocks the instance gives it
  Chunks,        \* bound on the chunks: 1 .. n
  Blocks,        \* CHUNK_SIZE / block_size by size class, a sequence
  System,        \* the addresses the system allocator returns
  Null,
  Noise,         \* what the bytes of a string may look like, read as a word
  MaxLive,       \* bound on the live allocations
  MaxTabled,     \* bound on the entries of the literal table and the RegExp store
  MaxRoots       \* bound on the handles the script holds

VARIABLES
  config,          \* fixed before the first allocation
  state,           \* header word: "live", "mark", "dead"; "none" before and after
  class,           \* "object" and "regex" may hold a handle, "string" does not
  size,            \* payload_size of a system block
  word,            \* the payload word
  chunks,          \* size class of each chunk, 0 for one not made yet
  bump,            \* blocks of each chunk handed out so far
  open,            \* the chunk each size class bumps from, 0 for none
  free_heads,      \* head of each size class's free list
  retained,        \* retained_allocations: poisoned, oldest first
  retained_bytes,
  live_bytes,      \* live_bytes_counter
  roots,           \* root ranges and shadow frames: the handles they hold
  interned,        \* the string of the program's literal, or Null
  regex,           \* handles with per-RegExp state (RegexStore.values)
  trap,
  phase,           \* "run", and while Context.collect is on the stack "mark", "sweep"
  work,            \* the marker's work list
  swept            \* the allocations the sweep has passed

arenaVars == <<chunks, bump, open, free_heads>>
devVars == <<retained, retained_bytes>>
blockVars == <<state, class, size, word>>
scriptVars == <<roots, interned, regex>>
collectVars == <<phase, work, swept>>
vars == <<config, blockVars, arenaVars, devVars, live_bytes, scriptVars, trap, collectVars>>

Classes == DOMAIN Blocks
Large == Len(Blocks) + 1          \* the size class of what exceeds LARGEST_BLOCK
Sizes == 1 .. Large

ChunkBlocks == Chunks \X UNION {1 .. Blocks[k] : k \in Classes}
Addr == ChunkBlocks \cup System

ASSUME ChunkAssumption == Chunks \subseteq Nat \ {0} /\ Blocks \in Seq(Nat)
ASSUME AddressAssumption == System \cap (Nat \X Nat) = {} /\ Null \notin Addr
ASSUME NoiseAssumption == Noise \subseteq Addr \cup {Null}

Classified == {"object", "string", "regex"}

\* Block sizes are powers of two; a chunk block's payload is what its size
\* class holds.
Payload(s) == 2 ^ (s - 1)
SizeOf(a) == IF a \in System THEN size[a] ELSE Payload(chunks[a[1]])

Live(a) == a \in Addr /\ state[a] \in {"live", "mark"}

Init ==
  /\ config \in Configs
  /\ state = [a \in Addr |-> "none"]
  /\ class = [a \in Addr |-> "object"]
  /\ size = [a \in System |-> 0]
  /\ word = [a \in Addr |-> Null]
  /\ chunks = [c \in Chunks |-> 0]
  /\ bump = [c \in Chunks |-> 0]
  /\ open = [k \in Classes |-> 0]
  /\ free_heads = [k \in Classes |-> Null]
  /\ retained = <<>>
  /\ retained_bytes = 0
  /\ live_bytes = 0
  /\ roots = {}
  /\ interned = Null
  /\ regex = {}
  /\ trap = "none"
  /\ phase = "run"
  /\ work = {}
  /\ swept = {}

-----------------------------------------------------------------------------
(* Allocation. *)

\* Mutant: live_bytes_counter is not raised.
ArmUncounted(a, s, cl) ==
  /\ state' = [state EXCEPT ![a] = "live"]
  /\ class' = [class EXCEPT ![a] = cl]
  /\ size' = IF a \in System THEN [size EXCEPT ![a] = Payload(s)] ELSE size
  /\ word' = [word EXCEPT ![a] = Null]
  /\ UNCHANGED live_bytes

\* The header and the payload of a block handed out.  A string's bytes are
\* its writer's, or what a reused block held; every other payload is zero.
Arm(a, s, cl) ==
  /\ state' = [state EXCEPT ![a] = "live"]
  /\ class' = [class EXCEPT ![a] = cl]
  /\ size' = IF a \in System THEN [size EXCEPT ![a] = Payload(s)] ELSE size
  /\ \E bytes \in (IF cl = "string" THEN Noise \cup {word[a]} ELSE {Null}) :
       word' = [word EXCEPT ![a] = bytes]
  /\ live_bytes' = live_bytes + Payload(s)

\* arena_alloc: pop the free list ...
PopFree(a, s, cl) ==
  /\ free_heads[s] # Null
  /\ a = free_heads[s]
  /\ free_heads' = [free_heads EXCEPT ![s] = word[a]]
  /\ Arm(a, s, cl)
  /\ UNCHANGED <<chunks, bump, open>>

HasRoom(s) == open[s] # 0 /\ bump[open[s]] < Blocks[s]

\* ... else bump the open chunk ...
BumpOpen(a, s, cl) ==
  /\ free_heads[s] = Null
  /\ HasRoom(s)
  /\ a = <<open[s], bump[open[s]] + 1>>
  /\ bump' = [bump EXCEPT ![open[s]] = @ + 1]
  /\ Arm(a, s, cl)
  /\ UNCHANGED <<chunks, open, free_heads>>

\* ... else open a new chunk (arena_new_chunk) and bump that.
BumpNew(a, s, cl) ==
  /\ free_heads[s] = Null
  /\ ~HasRoom(s)
  /\ \E c \in Chunks :
       /\ c <= config.chunks
       /\ chunks[c] = 0
       /\ \A d \in Chunks : d < c => chunks[d] # 0
       /\ a = <<c, 1>>
       /\ chunks' = [chunks EXCEPT ![c] = s]
       /\ open' = [open EXCEPT ![s] = c]
       /\ bump' = [bump EXCEPT ![c] = 1]
  /\ Arm(a, s, cl)
  /\ UNCHANGED free_heads

\* alloc_system_block, outside the arena or above its largest class.
FromSystem(a, s, cl) ==
  /\ a \in System
  /\ state[a] = "none"
  /\ Cardinality({b \in System : state[b] # "none"}) < config.system
  /\ Arm(a, s, cl)
  /\ UNCHANGED arenaVars

\* The memory of the instance.
Exhausted == Cardinality({b \in Addr : Live(b)}) >= MaxLive

\* Context::alloc, when it returns `a`.
alloc(a, s, cl) ==
  /\ ~Exhausted
  /\ IF config.mode = "ship" /\ s # Large
     THEN PopFree(a, s, cl) \/ BumpOpen(a, s, cl) \/ BumpNew(a, s, cl)
     ELSE FromSystem(a, s, cl)
  /\ UNCHANGED devVars

Running == phase = "run" /\ trap = "none"

Hold(a) ==
  /\ roots' = roots \cup {a}
  /\ Cardinality(roots') <= MaxRoots

\* A RegExp keeps its compiled program and last match in the store, under
\* its handle.  Its two strings are ordinary allocations and are left out.
Allocate(a, s, cl) ==
  /\ Running
  /\ alloc(a, s, cl)
  /\ Hold(a)
  /\ regex' = IF cl = "regex" THEN regex \cup {a} ELSE regex
  /\ Cardinality(regex' \cup ({interned} \ {Null})) <= MaxTabled
  /\ UNCHANGED <<config, interned, trap, collectVars>>

\* A request that the system refuses.
AllocationFails ==
  /\ Running
  /\ Exhausted
  /\ trap' = "AllocationFailure"
  /\ UNCHANGED <<config, blockVars, arenaVars, devVars, live_bytes, scriptVars, collectVars>>

intern_literal(a, s) ==
  /\ Running
  /\ \/ /\ interned # Null
        /\ a = interned
        /\ UNCHANGED <<blockVars, arenaVars, devVars, live_bytes, interned>>
     \/ /\ interned = Null
        /\ Cardinality(regex) < MaxTabled
        /\ alloc(a, s, "string")
        /\ interned' = a
  /\ Hold(a)
  /\ UNCHANGED <<config, regex, trap, collectVars>>

-----------------------------------------------------------------------------
(* Release. *)

\* Mutant: the block becomes the free list instead of joining it.
arena_releaseUnlinked(a) ==
  /\ \/ /\ a \in ChunkBlocks
        /\ word' = [word EXCEPT ![a] = Null]
        /\ free_heads' = [free_heads EXCEPT ![chunks[a[1]]] = a]
        /\ state' = [state EXCEPT ![a] = "dead"]
     \/ /\ a \notin ChunkBlocks
        /\ state' = [state EXCEPT ![a] = "none"]
        /\ word' = [word EXCEPT ![a] = Null]
        /\ UNCHANGED free_heads
  /\ UNCHANGED devVars

\* A chunk block joins the free list of its size class; a large one goes back.
arena_release(a) ==
  /\ \/ /\ a \in ChunkBlocks
        /\ LET k == chunks[a[1]]
           IN  /\ word' = [word EXCEPT ![a] = free_heads[k]]
               /\ free_heads' = [free_heads EXCEPT ![k] = a]
        /\ state' = [state EXCEPT ![a] = "dead"]
     \/ /\ a \notin ChunkBlocks
        /\ state' = [state EXCEPT ![a] = "none"]
        /\ word' = [word EXCEPT ![a] = Null]
        /\ UNCHANGED free_heads
  /\ UNCHANGED devVars

Layout(a) == size[a] + 1          \* HEADER_SIZE is one unit
LayoutBytes(q) == FoldFunction(+, 0, [i \in DOMAIN q |-> Layout(q[i])])

\* Oldest records go until the new one fits; one over the budget is not kept.
retain_or_release_removed_allocation(a) ==
  IF Layout(a) > config.max_retained
  THEN /\ state' = [state EXCEPT ![a] = "none"]
       /\ UNCHANGED devVars
  ELSE LET Fits(n) == retained_bytes - LayoutBytes(SubSeq(retained, 1, n))
                        <= config.max_retained - Layout(a)
       IN  \E n \in 0 .. Len(retained) :
             /\ Fits(n)
             /\ \A m \in 0 .. n - 1 : ~Fits(m)
             /\ state' = [b \in Addr |-> IF b = a THEN "dead"
                                         ELSE IF \E i \in 1 .. n : retained[i] = b THEN "none"
                                         ELSE state[b]]
             /\ retained' = Append(SubSeq(retained, n + 1, Len(retained)), a)
             /\ retained_bytes' = retained_bytes - LayoutBytes(SubSeq(retained, 1, n)) + Layout(a)

dispose_dev_allocation(a) ==
  /\ IF config.mode = "diagnostics" /\ size[a] >= config.min_payload
     THEN retain_or_release_removed_allocation(a)
     ELSE /\ state' = [state EXCEPT ![a] = "none"]
          /\ UNCHANGED devVars
  /\ word' = [word EXCEPT ![a] = Null]
  /\ UNCHANGED free_heads

Retire(a) ==
  /\ IF config.mode = "ship" THEN arena_release(a) ELSE dispose_dev_allocation(a)
  /\ live_bytes' = live_bytes - SizeOf(a)
  /\ class' = [class EXCEPT ![a] = "object"]
  /\ UNCHANGED <<size, chunks, bump, open>>

\* Mutant: the literal table keeps a deleted string.
release_class_stateOfRegex(a) ==
  /\ regex' = IF class[a] = "regex" THEN regex \ {a} ELSE regex
  /\ UNCHANGED interned

\* release_class_state: a string leaves the literal table, a RegExp the store,
\* before the storage goes.
release_class_state(a) ==
  /\ interned' = IF class[a] = "string" /\ interned = a THEN Null ELSE interned
  /\ regex' = IF class[a] = "regex" THEN regex \ {a} ELSE regex

delete(a) ==
  /\ Running
  /\ a \in roots
  /\ \/ /\ Live(a)
        /\ Retire(a)
        /\ release_class_state(a)
        /\ UNCHANGED trap
     \/ /\ ~Live(a)
        /\ config.mode = "diagnostics"
        /\ trap' = IF state[a] = "dead" THEN "DoubleDelete" ELSE "InvalidDelete"
        /\ UNCHANGED <<blockVars, arenaVars, devVars, live_bytes, interned, regex>>
  /\ UNCHANGED <<config, roots, collectVars>>

-----------------------------------------------------------------------------
(* The script. *)

Store(a, b) ==
  /\ Running
  /\ a \in roots /\ Live(a) /\ class[a] = "object"
  /\ b \in roots \cup {Null}
  /\ word' = [word EXCEPT ![a] = b]
  /\ UNCHANGED <<config, state, class, size, arenaVars, devVars, live_bytes, scriptVars, trap, collectVars>>

Load(a) ==
  /\ Running
  /\ a \in roots /\ Live(a) /\ class[a] = "object"
  /\ word[a] # Null
  /\ Hold(word[a])
  /\ UNCHANGED <<config, blockVars, arenaVars, devVars, live_bytes, interned, regex, trap, collectVars>>

Drop(a) ==
  /\ Running
  /\ a \in roots
  /\ roots' = roots \ {a}
  /\ UNCHANGED <<config, blockVars, arenaVars, devVars, live_bytes, interned, regex, trap, collectVars>>

\* require_live_handle on a receiver that is not live.
StaleUse(a) ==
  /\ Running
  /\ config.mode = "diagnostics"
  /\ a \in roots /\ ~Live(a)
  /\ trap' = "UseAfterDelete"
  /\ UNCHANGED <<config, blockVars, arenaVars, devVars, live_bytes, scriptVars, collectVars>>

\* The script unwinds: its shadow frames are gone, its globals stay.
HostClearTrap ==
  /\ trap # "none"
  /\ trap' = "none"
  /\ roots' \in SUBSET roots
  /\ UNCHANGED <<config, blockVars, arenaVars, devVars, live_bytes, interned, regex, collectVars>>

-----------------------------------------------------------------------------
(* Context.collect: no script runs before it returns. *)

\* Mutant: the literal table is not among the roots.
prepare_collectionFromScript ==
  /\ Running
  /\ phase' = "mark"
  /\ work' = roots
  /\ swept' = {}
  /\ UNCHANGED <<config, blockVars, arenaVars, devVars, live_bytes, scriptVars, trap>>

prepare_collection ==
  /\ Running
  /\ phase' = "mark"
  /\ work' = (roots \cup {interned}) \ {Null}
  /\ swept' = {}
  /\ UNCHANGED <<config, blockVars, arenaVars, devVars, live_bytes, scriptVars, trap>>

\* The words that a marked payload puts on the work list.
scan_payload(a) == IF class[a] = "string" THEN {} ELSE {word[a]} \ {Null}

\* One word off the list: only an exact live payload that is not marked yet
\* counts, and only a class that can hold a handle is scanned.
mark(a) ==
  /\ phase = "mark"
  /\ a \in work
  /\ IF state[a] = "live"
     THEN /\ state' = [state EXCEPT ![a] = "mark"]
          /\ work' = (work \ {a}) \cup scan_payload(a)
     ELSE /\ work' = work \ {a}
          /\ UNCHANGED state
  /\ UNCHANGED <<config, class, size, word, arenaVars, devVars, live_bytes, scriptVars, trap, phase, swept>>

marked ==
  /\ phase = "mark"
  /\ work = {}
  /\ phase' = "sweep"
  /\ UNCHANGED <<config, blockVars, arenaVars, devVars, live_bytes, scriptVars, trap, work, swept>>

\* The arena is swept chunk by chunk in block order, then the large records;
\* the allocation map outside the arena in no order.
Before(b, a) ==
  /\ b \in ChunkBlocks
  /\ a \in ChunkBlocks => b[1] < a[1] \/ (b[1] = a[1] /\ b[2] < a[2])

Unswept(a) == state[a] \in {"live", "mark"} /\ a \notin swept

sweep(a) ==
  /\ phase = "sweep"
  /\ Unswept(a)
  /\ \A b \in Addr : Unswept(b) => ~(config.mode = "ship" /\ Before(b, a))
  /\ \/ /\ state[a] = "mark"
        /\ state' = [state EXCEPT ![a] = "live"]
        /\ UNCHANGED <<class, size, word, arenaVars, devVars, live_bytes>>
     \/ /\ state[a] = "live"
        /\ Retire(a)
  /\ swept' = swept \cup {a}
  /\ UNCHANGED <<config, scriptVars, trap, phase, work>>

\* sweep_regex_values, once the storage is swept.
sweep_regex_values ==
  /\ phase = "sweep"
  /\ \A a \in Addr : ~Unswept(a)
  /\ regex' = {a \in regex : Live(a)}
  /\ phase' = "run"
  /\ swept' = {}
  /\ UNCHANGED <<config, blockVars, arenaVars, devVars, live_bytes, roots, interned, trap, work>>

Next ==
  \/ \E a \in Addr, s \in Sizes, cl \in Classified : Allocate(a, s, cl)
  \/ \E a \in Addr, s \in Sizes : intern_literal(a, s)
  \/ AllocationFails
  \/ \E a \in Addr : delete(a) \/ Load(a) \/ Drop(a) \/ StaleUse(a) \/ mark(a) \/ sweep(a)
  \/ \E a \in Addr, b \in Addr \cup {Null} : Store(a, b)
  \/ HostClearTrap \/ prepare_collection \/ marked \/ sweep_regex_values

Spec == Init /\ [][Next]_vars

-----------------------------------------------------------------------------
(* Properties. *)

AddrOrNull == Addr \cup {Null}

\* Every variable has its type.
TypeOK ==
  /\ config \in Configs
  /\ state \in [Addr -> {"none", "live", "mark", "dead"}]
  /\ class \in [Addr -> Classified]
  /\ size \in [System -> Nat]
  /\ word \in [Addr -> AddrOrNull]
  /\ chunks \in [Chunks -> {0} \cup Classes]
  /\ bump \in [Chunks -> Nat]
  /\ open \in [Classes -> {0} \cup Chunks]
  /\ free_heads \in [Classes -> AddrOrNull]
  /\ retained \in Seq(Addr)
  /\ retained_bytes \in Nat
  /\ live_bytes \in Nat
  /\ roots \subseteq Addr
  /\ interned \in AddrOrNull
  /\ regex \subseteq Addr
  /\ trap \in {"none", "AllocationFailure", "DoubleDelete", "InvalidDelete", "UseAfterDelete"}
  /\ phase \in {"run", "mark", "sweep"}
  /\ work \subseteq Addr
  /\ swept \subseteq Addr

\* The free list of size class k, link by link.
FreeList(k, n) ==
  LET At[i \in 0 .. n] == IF i = 0 THEN free_heads[k]
                          ELSE IF At[i - 1] = Null THEN Null ELSE word[At[i - 1]]
  IN  At

\* The books balance through every mix of deletes, collections and reuse: each
\* dead chunk block is on the free list of its size class exactly once and
\* nothing else is, the retained queue is exactly the poisoned allocations
\* within its byte budget, and live_bytes_counter is the sum over the live set.
BooksBalance ==
  /\ \A k \in Classes :
       LET dead == {a \in ChunkBlocks : state[a] = "dead" /\ chunks[a[1]] = k}
           n == Cardinality(dead)
       IN  /\ {FreeList(k, n)[i] : i \in 0 .. n - 1} = dead
           /\ FreeList(k, n)[n] = Null
  /\ Range(retained) = {a \in System : state[a] = "dead"}
  /\ IsInjective(retained)
  /\ retained_bytes = LayoutBytes(retained) /\ retained_bytes <= config.max_retained
  /\ live_bytes = FoldFunction(+, 0, [a \in {b \in Addr : Live(b)} |-> SizeOf(a)])

\* The literal table and the RegExp store never name storage that was freed
\* or handed out again, and no live RegExp has lost its entry.
TablesFollowStorage ==
  /\ interned # Null => Live(interned) /\ class[interned] = "string"
  /\ phase = "run" => regex = {a \in Addr : Live(a) /\ class[a] = "regex"}

\* The live allocations as the script sees them: once marking is over the
\* condemned are gone, though the sweep has not reached them yet.
Survivors ==
  {a \in Addr : IF phase = "sweep" THEN IF a \in swept THEN state[a] = "live" ELSE state[a] = "mark"
                                   ELSE Live(a)}

Contents == [a \in {b \in Survivors : class[b] # "string"} |-> word[a]]

TheHeap == INSTANCE Heap WITH live <- Survivors, word <- Contents

\* Chunks, free lists, retention, marking and sweeping implement a heap: no
\* allocation overlaps a live one or shows old contents, and a collection
\* frees the unreachable allocations, all of them, and nothing else.
IsHeap == TheHeap!Spec

=============================================================================
