--------------------------- MODULE MCHostBoundary ---------------------------
(* Two registrations and two userdata objects; a stack of five frames lets *)
(* a callback be fired inside a callback inside an entry.                  *)
EXTENDS HostBoundary, TLC

CONSTANTS r1, r2, d1, d2
OneRecord == {r1}
TwoRecords == {r1, r2}
OnePayload == {d1}
TwoPayloads == {d1, d2}
Symmetry == Permutations(Records) \cup Permutations(Payloads)
=============================================================================
