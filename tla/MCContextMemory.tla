-------------------------- MODULE MCContextMemory --------------------------
(* ContextMemory with two size classes, of two blocks and one block a chunk. *)
EXTENDS ContextMemory, TLC

CONSTANTS s1, s2, s3

TwoClasses == <<2, 1>>

Config(mode, min, max, c, s) ==
  [mode |-> mode, min_payload |-> min, max_retained |-> max, chunks |-> c, system |-> s]

\* Small chunks alone, a chunk beside a large block, and the two exact-size
\* modes; one diagnostics budget refuses the large block and holds two small
\* ones, the other ignores small payloads.
SmallConfigs ==
  {Config("ship", 0, 0, 2, 0), Config("ship", 0, 0, 1, 1), Config("release", 0, 0, 0, 2),
   Config("diagnostics", 1, 4, 0, 3), Config("diagnostics", 2, 8, 0, 2)}

ZeroBytes == {Null}

Alike == Permutations({s1, s2, s3})

=============================================================================
