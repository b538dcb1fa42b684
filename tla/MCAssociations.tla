--------------------------- MODULE MCAssociations ---------------------------
(* Associations on three colliding keys. *)
EXTENDS Associations, TLC

CONSTANTS a, b, c, v1, v2

\* Two keys share a probe sequence and run into the third's.
Colliding == a :> 2 @@ b :> 2 @@ c :> 3

\* The empty set, and one with a hole in its middle.
Member(k) == [key |-> k, value |-> NoValue]
Holed ==
  LET all == Inserted(Inserted(Inserted(EmptyAssoc, Member(b)), Member(a)), Member(c))
  IN  Erased(all, lookup(all, a))
SmallOperands == {EmptyAssoc, Holed}

SameValues == Permutations({v1, v2})

=============================================================================
