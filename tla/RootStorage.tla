----------------------------- MODULE RootStorage -----------------------------
(***************************************************************************)
(* The root slots of one compiled function.  Every managed value of a LIR   *)
(* function lives in a slot of the shadow frame: the development tier       *)
(* stores a value there when it is defined, and every read loads it from    *)
(* there.  The storage plan lets values of one type share a slot when their *)
(* live ranges do not meet, and says where a slot is zeroed.                *)
(*                                                                          *)
(* Init picks a function that the verifier accepts and plans its storage;   *)
(* the steps run the function over its slots.  `env' is the value each SSA  *)
(* name has by the meaning of the LIR, `slots' what the frame holds.        *)
(*                                                                          *)
(* A function is a record: parameters, a sequence of values; types, the     *)
(* type of each value ("raw" has no managed words, "agg" is an aggregate    *)
(* held by address); blocks, of which the first is the entry.  A block has  *)
(* parameters, instructions and a terminator with its operands `uses' and   *)
(* its edges `targets' (no edge: return).  An instruction has a kind, a     *)
(* result (0: none), operands, and the handler of its raise edge (0: none). *)
(***************************************************************************)
EXTENDS Integers, Sequences, FiniteSets, SequencesExt

CONSTANT LirFunctions   \* the functions a run starts from

VARIABLES
  function,   \* the function that runs
  plan,       \* its RootStoragePlan
  at,         \* the block and the instruction to run next
  env,        \* the value of each SSA name
  slots       \* the words of the shadow frame, one entry for each slot

vars == <<function, plan, at, env, slots>>

-----------------------------------------------------------------------------
(* The form: edges, operands and definitions. *)

Null == <<>>
Blocks(f) == DOMAIN f.blocks
Values(f) == DOMAIN f.types
Managed(f) == {v \in Values(f) : f.types[v] # "raw"}
Exit(block) == Len(block.instructions) + 1

handlers(block) == {block.instructions[i].handler : i \in DOMAIN block.instructions} \ {0}
terminator_successors(block) == {block.targets[t].block : t \in DOMAIN block.targets}
successors(block) == handlers(block) \cup terminator_successors(block)

value_uses(block) ==
  ToSet(block.uses) \cup UNION {ToSet(block.targets[t].arguments) : t \in DOMAIN block.targets}

\* The values read at a point of a block: the operands of an instruction or of the terminator.
Reads(block, point) ==
  IF point = Exit(block) THEN value_uses(block) ELSE ToSet(block.instructions[point].operands)

Definitions(block) ==
  ToSet(block.parameters)
    \cup ({block.instructions[i].result : i \in DOMAIN block.instructions} \ {0})

\* The value that an element address or the address of a value points into.
Pointees(f, v) ==
  LET Sources(kinds) ==
        {Head(i.operands) : i \in {j \in UNION {ToSet(f.blocks[b].instructions) : b \in Blocks(f)} :
                                     j.result = v /\ j.kind \in kinds}}
  IN  [element |-> Sources({"element"}), any |-> Sources({"element", "address"})]

-----------------------------------------------------------------------------
(* The verifier: definitions dominate uses, and a handler reads no value    *)
(* that its raising block defines at or after the raise site.               *)

RECURSIVE dominators(_, _)
dominators(f, sets) ==
  LET preds(b) == {p \in Blocks(f) : b \in successors(f.blocks[p])}
      next == [b \in Blocks(f) |->
                 IF b = 1 THEN {1}
                 ELSE {b} \cup IF preds(b) = {} THEN {}
                               ELSE {d \in Blocks(f) : \A p \in preds(b) : d \in sets[p]}]
  IN  IF next = sets THEN sets ELSE dominators(f, next)

check_dominates(f, doms, v, b, point) ==
  \/ v \in ToSet(f.parameters)
  \/ \E d \in doms[b] : v \in ToSet(f.blocks[d].parameters)
  \/ \E d \in doms[b] \ {b} :
       \E i \in DOMAIN f.blocks[d].instructions : f.blocks[d].instructions[i].result = v
  \/ \E i \in DOMAIN f.blocks[b].instructions :
       i < point /\ f.blocks[b].instructions[i].result = v

verify_dominance(f) ==
  LET doms == dominators(f, [b \in Blocks(f) |-> Blocks(f)])
  IN  \A b \in Blocks(f) : \A point \in 1..Exit(f.blocks[b]) :
        \A v \in Reads(f.blocks[b], point) : check_dominates(f, doms, v, b, point)

verify_handler(f) ==
  \A b \in Blocks(f) : \A i \in DOMAIN f.blocks[b].instructions :
    LET h == f.blocks[b].instructions[i].handler
    IN  h # 0 =>
          /\ f.blocks[h].parameters = <<>>
          /\ f.blocks[h].instructions # <<>> /\ f.blocks[h].instructions[1].kind = "catch"
          /\ \A c \in Blocks(f) : \A j \in DOMAIN f.blocks[c].instructions :
               f.blocks[c].instructions[j].handler = h => <<c, j>> = <<b, i>>
          /\ \A point \in 1..Exit(f.blocks[h]) : \A v \in Reads(f.blocks[h], point) :
               \A j \in i..Len(f.blocks[b].instructions) : f.blocks[b].instructions[j].result # v

-----------------------------------------------------------------------------
(* Liveness, as the form carries it. *)

\* The values a block reads before it defines them.
Exposed(block) ==
  {v \in UNION {Reads(block, point) : point \in 1..Exit(block)} \ ToSet(block.parameters) :
     \E point \in 1..Exit(block) :
       /\ v \in Reads(block, point)
       /\ \A i \in 1..(point - 1) : block.instructions[i].result # v}

RECURSIVE lir_live_ins(_, _)
lir_live_ins(f, live) ==
  LET next == [b \in Blocks(f) |->
                 Exposed(f.blocks[b])
                   \cup (UNION {live[s] : s \in successors(f.blocks[b])}
                           \ Definitions(f.blocks[b]))]
  IN  IF next = live THEN live ELSE lir_live_ins(f, next)

-----------------------------------------------------------------------------
(* Interference: inclusive live intervals inside each block.  Point 0 is    *)
(* the entry, 1 to n are the instructions, n + 1 is the terminator.         *)

address_taken_values(f) ==
  {Head(i.operands) : i \in {j \in UNION {ToSet(f.blocks[b].instructions) : b \in Blocks(f)} :
                               j.kind = "address"}}

\* A mention of an element address is a mention of its array.
record_value(f, v) == {v} \cup Pointees(f, v).element
Recorded(f, values) == UNION {record_value(f, v) : v \in values}

live_ins(f) ==
  LET live == lir_live_ins(f, [b \in Blocks(f) |-> {}])
  IN  [b \in Blocks(f) |-> address_taken_values(f) \cup Recorded(f, live[b])]

\* Mutant: the edges of raise sites are forgotten.
LiveAtExitWithoutHandlers(f, live_in) ==
  [b \in Blocks(f) |->
     UNION {live_in[s] : s \in terminator_successors(f.blocks[b])}
       \cup address_taken_values(f) \cup Recorded(f, value_uses(f.blocks[b]))]

\* A handler edge keeps the live-ins of the handler live through the whole block.
LiveAtExit(f, live_in) ==
  [b \in Blocks(f) |->
     UNION {live_in[s] : s \in successors(f.blocks[b])}
       \cup address_taken_values(f) \cup Recorded(f, value_uses(f.blocks[b]))]

\* The intervals of one value in one block: from its definition to its last
\* mention after it, and from the entry to the last mention before it.
IntervalsIn(f, exit, b, v) ==
  LET block == f.blocks[b]
      mentions == {i \in DOMAIN block.instructions :
                     v \in Recorded(f, ToSet(block.instructions[i].operands))}
                    \cup (IF v \in exit[b] THEN {Exit(block)} ELSE {})
      defined == {i \in DOMAIN block.instructions : block.instructions[i].result = v}
      after(d) == {m \in mentions : m > d}
      entry == {m \in mentions : \A d \in defined : m <= d}
      LiveInterval(start, end) == [value |-> v, block |-> b, start |-> start, end |-> end]
  IN  {LiveInterval(d, Max({d} \cup after(d))) : d \in defined}
        \cup (IF entry = {} THEN {} ELSE {LiveInterval(0, Max(entry))})

Interference(f) ==
  LET live_in == live_ins(f)
      exit == LiveAtExit(f, live_in)
      intervals == UNION {IntervalsIn(f, exit, b, v) : b \in Blocks(f), v \in Values(f)}
      starts(b) == {r.value : r \in {q \in intervals : q.block = b /\ q.start = 0}}
  IN  [intervals |-> intervals,
       parameter_rules |->
         {<<ToSet(f.blocks[b].parameters), starts(b)>> : b \in Blocks(f)}
           \cup {<<ToSet(f.parameters), live_in[1]>>}]

Overlap(intervals, a, b) ==
  \E r \in intervals : \E s \in intervals :
    /\ r.value = a /\ s.value = b /\ r.block = s.block
    /\ r.start <= s.end /\ s.start <= r.end

parameter_conflict(rules, a, b) ==
  \E rule \in rules : a \in rule[1] /\ b \in rule[1] \cup rule[2]

interferes(interference, a, b) ==
  /\ a # b
  /\ \/ Overlap(interference.intervals, a, b)
     \/ parameter_conflict(interference.parameter_rules, a, b)
     \/ parameter_conflict(interference.parameter_rules, b, a)

\* A group keeps the union of its members' ranges and parameter rules, so it
\* interferes with a value when one of its members does.
GroupInterferes(interference, group, v) ==
  \E u \in ToSet(group) : interferes(interference, u, v)

-----------------------------------------------------------------------------
(* The plan: each managed value takes the first slot of its type whose      *)
(* values it does not interfere with, or a new one.                         *)

Place(f, interference, placed, v) ==
  LET reusable == {s \in DOMAIN placed :
                     /\ f.types[Head(placed[s])] = f.types[v]
                     /\ ~GroupInterferes(interference, placed[s], v)}
  IN  IF v \notin Managed(f) THEN placed
      ELSE IF reusable = {} THEN Append(placed, <<v>>)
      ELSE [placed EXCEPT ![Min(reusable)] = Append(@, v)]

\* The ranges of a block, and the slots whose values have some of the ranges.
RangesIn(interference, b) == {r \in interference.intervals : r.block = b}
SlotsOf(groups, ranges) ==
  {s \in DOMAIN groups : \E r \in ranges : r.value \in ToSet(groups[s])}

BlockEnds(f, interference, groups, b) ==
  SlotsOf(groups, {r \in RangesIn(interference, b) : r.end = Exit(f.blocks[b])})

\* Mutant: a handler edge is taken for an edge that leaves at the end of its block.
CarriedIntoAtEnds(f, interference, groups, b) ==
  UNION {BlockEnds(f, interference, groups, p) :
           p \in {q \in Blocks(f) : b \in successors(f.blocks[q])}}

\* The slots that can hold a value when a block starts.  A handler edge leaves
\* in the middle of its block, so any slot of that block may be in use.
CarriedInto(f, interference, groups, b) ==
  UNION {BlockEnds(f, interference, groups, p) :
           p \in {q \in Blocks(f) : b \in terminator_successors(f.blocks[q])}}
    \cup UNION {SlotsOf(groups, RangesIn(interference, p)) :
                  p \in {q \in Blocks(f) : b \in handlers(f.blocks[q])}}

RootStoragePlan(f) ==
  LET interference == Interference(f)
      groups == FoldLeft(LAMBDA placed, v : Place(f, interference, placed, v),
                         <<>>, [v \in 1..Len(f.types) |-> v])
      value_slots == [v \in Values(f) |->
                        {s \in DOMAIN groups : v \in ToSet(groups[s])}]
      occupied(values) == UNION {value_slots[v] : v \in values}
      block_starts(b) == SlotsOf(groups, {r \in RangesIn(interference, b) : r.start = 0})
      candidates(b) ==
        CarriedInto(f, interference, groups, b)
          \cup occupied(ToSet(f.blocks[b].parameters))
          \cup (IF b = 1 THEN occupied(ToSet(f.parameters)) ELSE {})
  IN  [slots |-> Len(groups),
       value_slots |-> value_slots,
       clear_at_block_entry |-> [b \in Blocks(f) |-> candidates(b) \ block_starts(b)],
       clear_after_instruction |->
         [b \in Blocks(f) |-> [i \in DOMAIN f.blocks[b].instructions |->
            SlotsOf(groups, {r \in RangesIn(interference, b) : r.end = i})]]]

-----------------------------------------------------------------------------
(* Running the function over its slots. *)

Block == function.blocks[at.block]
SlotOf(p, v) == CHOOSE s \in p.value_slots[v] : TRUE

clear_root_slots(frame, cleared) ==
  [s \in DOMAIN frame |-> IF s \in cleared THEN Null ELSE frame[s]]

set_value(p, frame, v, content) ==
  IF p.value_slots[v] = {} THEN frame ELSE [frame EXCEPT ![SlotOf(p, v)] = content]

\* The parameters of a block are stored one after the other.  The words of an
\* argument were loaded at the branch; an aggregate argument is the address of
\* its slot, and is copied from there when its own turn comes.
StoreParameters(f, p, frame, parameters, arguments) ==
  FoldLeft(LAMBDA stored, k :
             IF p.value_slots[parameters[k]] = {} THEN stored
             ELSE set_value(p, stored, parameters[k],
                            IF f.types[arguments[k]] = "agg" THEN stored[SlotOf(p, arguments[k])]
                            ELSE frame[SlotOf(p, arguments[k])]),
           frame, [k \in 1..Len(parameters) |-> k])

\* Every run of a definition makes a value that differs from the one before.
Fresh(v, previous) == IF previous = <<v, 0>> THEN <<v, 1>> ELSE <<v, 0>>

\* The entry of the function: a zeroed frame, the parameters, the entry clears.
Init ==
  /\ function \in {f \in LirFunctions : verify_dominance(f) /\ verify_handler(f)}
  /\ plan = RootStoragePlan(function)
  /\ at = [block |-> 1, index |-> 1]
  /\ env = [v \in Values(function) |->
              IF v \in ToSet(function.parameters) THEN <<v, 0>> ELSE Null]
  /\ slots = clear_root_slots(
               FoldLeft(LAMBDA frame, v : set_value(plan, frame, v, <<v, 0>>),
                        [s \in 1..plan.slots |-> Null], function.parameters),
               plan.clear_at_block_entry[1])

\* An instruction that completes: its result, then the clears behind it.
Execute ==
  LET instruction == Block.instructions[at.index]
      result == instruction.result
      content == IF instruction.kind \in {"element", "address"}
                 THEN env[Head(instruction.operands)]
                 ELSE Fresh(result, env[result])
      stored == IF result = 0 THEN slots ELSE set_value(plan, slots, result, content)
  IN  /\ at.block # 0 /\ at.index < Exit(Block)
      /\ env' = IF result = 0 THEN env ELSE [env EXCEPT ![result] = content]
      /\ slots' = clear_root_slots(stored, plan.clear_after_instruction[at.block][at.index])
      /\ at' = [at EXCEPT !.index = @ + 1]
      /\ UNCHANGED <<function, plan>>

\* A raise site that raises: its check takes the handler edge before the result is stored.
Raise ==
  /\ at.block # 0 /\ at.index < Exit(Block)
  /\ LET handler == Block.instructions[at.index].handler
     IN  /\ handler # 0
         /\ slots' = clear_root_slots(slots, plan.clear_at_block_entry[handler])
         /\ at' = [block |-> handler, index |-> 1]
  /\ UNCHANGED <<function, plan, env>>

\* An edge of the terminator: the arguments become the parameters, then the entry clears.
Branch ==
  /\ at.block # 0 /\ at.index = Exit(Block)
  /\ \E t \in DOMAIN Block.targets :
       LET target == Block.targets[t]
           parameters == function.blocks[target.block].parameters
           argument(v) == target.arguments[CHOOSE k \in DOMAIN parameters : parameters[k] = v]
       IN  /\ env' = [v \in Values(function) |->
                        IF v \in ToSet(parameters) THEN env[argument(v)] ELSE env[v]]
           /\ slots' = clear_root_slots(
                         StoreParameters(function, plan, slots, parameters, target.arguments),
                         plan.clear_at_block_entry[target.block])
           /\ at' = [block |-> target.block, index |-> 1]
  /\ UNCHANGED <<function, plan>>

pop_shadow ==
  /\ at' = [block |-> 0, index |-> 0]
  /\ slots' = [s \in DOMAIN slots |-> Null]
  /\ UNCHANGED <<function, plan, env>>

Return == at.block # 0 /\ at.index = Exit(Block) /\ Block.targets = <<>> /\ pop_shadow

\* A trap, or an exception with no handler around it, leaves through the unwind block.
Unwind == at.block # 0 /\ at.index < Exit(Block) /\ pop_shadow

Next == Execute \/ Raise \/ Branch \/ Return \/ Unwind

Spec == Init /\ [][Next]_vars

-----------------------------------------------------------------------------
(* Properties. *)

\* Every read finds the value that the LIR gives it: value() loads a managed
\* operand from its slot, which another value may have used in between, and
\* the storage an address points into still holds what it held when the
\* address was taken.
ReadsAreRight ==
  at.block # 0 =>
    \A v \in Reads(Block, at.index) :
      /\ env[v] # Null
      /\ \A s \in plan.value_slots[v] : slots[s] = env[v]
      /\ \A u \in Pointees(function, v).any : slots[SlotOf(plan, u)] = env[v]

\* On entry to a block each parameter holds the argument of the edge taken
\* (or was cleared, unread): an assignment between value classes copies, and
\* the edge hands over all its arguments at once.
ParametersTakeArguments ==
  (at.block # 0 /\ at.index = 1) =>
    \A v \in ToSet(Block.parameters) :
      \A s \in plan.value_slots[v] : slots[s] \in {env[v], Null}

\* A point that reads v (or an address into v) can be reached from a point
\* without passing another definition of v.
RECURSIVE NeededFrom(_, _, _, _, _)
NeededFrom(f, b, point, v, seen) ==
  LET block == f.blocks[b]
      enter(c) == /\ v \notin ToSet(f.blocks[c].parameters)
                  /\ <<c, 1>> \notin seen
                  /\ NeededFrom(f, c, 1, v, seen \cup {<<c, 1>>})
  IN  \/ v \in Recorded(f, Reads(block, point))
      \/ IF point = Exit(block)
         THEN \E c \in terminator_successors(block) : enter(c)
         ELSE \/ block.instructions[point].handler # 0 /\ enter(block.instructions[point].handler)
              \/ /\ block.instructions[point].result # v
                 /\ NeededFrom(f, b, point + 1, v, seen)

\* No slot keeps a value the program is done with: what a slot holds is read
\* later on some path, or in the handler of the running block, or had its
\* address taken.  A collection frees the value as soon as its last read is past.
RootsAreNeeded ==
  at.block # 0 =>
    \A s \in DOMAIN slots :
      slots[s] # Null =>
        \E v \in Managed(function) :
          /\ s \in plan.value_slots[v]
          /\ env[v] = slots[s]
          /\ \/ NeededFrom(function, at.block, at.index, v, {})
             \/ \E h \in handlers(Block) : NeededFrom(function, h, 1, v, {})
             \/ v \in address_taken_values(function)
=============================================================================
