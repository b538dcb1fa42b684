---------------------------- MODULE MCRootStorage ----------------------------
(* Small functions: a join, a loop, a protected call in straight code and   *)
(* in a loop, and an address that is used later.  Operands and arguments    *)
(* range over the values in scope; the verifier drops what it rejects.      *)
EXTENDS RootStorage

Op(result, operands) == [kind |-> "op", result |-> result, operands |-> operands, handler |-> 0]
Call(result, operands, handler) == [Op(result, operands) EXCEPT !.handler = handler]
Catch(result) == [Op(result, <<>>) EXCEPT !.kind = "catch"]
AddressOf(kind, result, source) == [Op(result, <<source>>) EXCEPT !.kind = kind]
Edge(block, arguments) == [block |-> block, arguments |-> arguments]
BasicBlock(parameters, instructions, uses, targets) ==
  [parameters |-> parameters, instructions |-> instructions, uses |-> uses, targets |-> targets]
Function(parameters, types, blocks) ==
  [parameters |-> parameters, types |-> types, blocks |-> blocks]

\* An argument has the type of its parameter.
WellTyped(f) ==
  \A b \in Blocks(f) : \A t \in DOMAIN f.blocks[b].targets :
    LET edge == f.blocks[b].targets[t]
    IN  \A k \in DOMAIN edge.arguments :
          f.types[edge.arguments[k]] = f.types[f.blocks[edge.block].parameters[k]]

Refs(n) == [v \in 1..n |-> "ref"]

Joins ==
  {Function(<<1>>, types, <<
     BasicBlock(<<>>, <<Op(2, <<1>>), Op(3, <<x>>)>>, <<c>>, <<Edge(2, <<>>), Edge(3, <<>>)>>),
     BasicBlock(<<>>, <<Op(4, <<y>>)>>, <<>>, <<Edge(4, <<a>>)>>),
     BasicBlock(<<>>, <<>>, <<>>, <<Edge(4, <<b>>)>>),
     BasicBlock(<<5>>, <<Op(6, <<z>>)>>, <<w>>, <<>>)>>) :
   types \in {Refs(6), <<"ref", "ref", "agg", "ref", "ref", "agg">>,
              <<"ref", "agg", "ref", "agg", "agg", "ref">>},
   c \in {1, 3}, x \in {1, 2}, y \in 1..3, a \in 1..4, b \in 1..3, z \in {1, 2, 5}, w \in {3, 5, 6}}

Loops ==
  {Function(<<1, 2>>, types, <<
     BasicBlock(<<>>, <<>>, <<>>, <<Edge(2, <<1, b>>)>>),
     BasicBlock(<<3, 4>>, <<>>, <<>>, <<Edge(3, <<>>), Edge(4, <<>>)>>),
     BasicBlock(<<>>, <<Op(5, <<x>>), Op(6, <<y>>)>>, <<>>, <<Edge(2, <<c, d>>)>>),
     BasicBlock(<<>>, <<Op(0, <<z>>)>>, <<>>, <<>>)>>) :
   types \in {Refs(6), <<"ref", "agg", "ref", "agg", "agg", "ref">>},
   b \in 1..2, x \in 1..4, y \in {2, 3, 5}, c \in 3..6, d \in 3..6, z \in {1, 3, 4}}

Handlers ==
  {Function(<<1>>, types, <<
     BasicBlock(<<>>, <<Op(2, <<1>>)>>, <<>>, <<Edge(2, <<>>)>>),
     BasicBlock(<<>>, <<Op(3, <<x>>), Call(4, <<y>>, 3), Op(5, <<z>>)>>, <<>>, <<Edge(4, <<a>>)>>),
     BasicBlock(<<>>, <<Catch(6), Op(0, <<w>>)>>, <<>>, <<Edge(4, <<b>>)>>),
     BasicBlock(<<7>>, <<Op(0, <<7>>), Op(0, <<u>>)>>, <<>>, <<>>)>>) :
   types \in {Refs(7), <<"ref", "ref", "agg", "agg", "ref", "ref", "ref">>},
   x \in 1..2, y \in 1..3, z \in {2, 3, 4}, a \in {2, 4, 5}, w \in {1, 3, 4, 6},
   b \in {1, 3, 6}, u \in {1, 2, 3, 7}}

\* Two raise sites of one block, each with its landing block.
Landings ==
  {Function(<<1>>, Refs(7), <<
     BasicBlock(<<>>, <<Op(2, <<1>>)>>, <<>>, <<Edge(2, <<>>)>>),
     BasicBlock(<<>>, <<Call(3, <<x>>, 3), Call(4, <<y>>, 4)>>, <<>>, <<Edge(5, <<a>>)>>),
     BasicBlock(<<>>, <<Catch(5)>>, <<>>, <<Edge(5, <<b>>)>>),
     BasicBlock(<<>>, <<Catch(6)>>, <<>>, <<Edge(5, <<c>>)>>),
     BasicBlock(<<7>>, <<Op(0, <<7>>), Op(0, <<u>>)>>, <<>>, <<>>)>>) :
   x \in 1..2, y \in 1..3, a \in 1..4, b \in {1, 2, 5}, c \in {1, 3, 6}, u \in {1, 2, 7}}

Retries ==
  {Function(<<1>>, Refs(6), <<
     BasicBlock(<<>>, <<>>, <<>>, <<Edge(2, <<1>>)>>),
     BasicBlock(<<2>>, <<Op(3, <<x>>), Call(4, <<y>>, 3), Op(5, <<z>>)>>, <<>>,
                <<Edge(2, <<a>>), Edge(4, <<>>)>>),
     BasicBlock(<<>>, <<Catch(6)>>, <<>>, <<Edge(2, <<b>>)>>),
     BasicBlock(<<>>, <<Op(0, <<w>>)>>, <<>>, <<>>)>>) :
   x \in 1..2, y \in 1..3, z \in {2, 3, 4}, a \in 2..5, b \in {1, 2, 3, 6}, w \in {1, 2, 4, 5}}

Addresses ==
  {Function(<<1>>, <<"ref", t, "raw", t, t>>, <<
     BasicBlock(<<>>, <<Op(2, <<1>>), AddressOf(kind, 3, 2), Op(4, <<x>>)>>, <<>>, <<Edge(2, <<>>)>>),
     BasicBlock(<<>>, <<Op(5, <<y>>), Op(0, <<z>>)>>, <<3>>, <<>>)>>) :
   t \in {"ref", "agg"}, kind \in {"element", "address"}, x \in 1..3, y \in 1..4, z \in 1..5}

\* No block takes two aggregates.
ScalarEdges ==
  {f \in Joins \cup Loops \cup Handlers \cup Landings \cup Retries \cup Addresses : WellTyped(f)}

\* Two aggregates that trade places around a loop.
AggregateLoops ==
  {Function(<<1, 2>>, [v \in 1..4 |-> "agg"], <<
     BasicBlock(<<>>, <<>>, <<>>, <<Edge(2, <<1, 2>>)>>),
     BasicBlock(<<3, 4>>, <<>>, <<>>, <<Edge(3, <<>>), Edge(4, <<>>)>>),
     BasicBlock(<<>>, <<>>, <<>>, <<Edge(2, <<4, 3>>)>>),
     BasicBlock(<<>>, <<Op(0, <<3, 4>>)>>, <<>>, <<>>)>>)}
=============================================================================
