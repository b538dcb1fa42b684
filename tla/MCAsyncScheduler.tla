-------------------------- MODULE MCAsyncScheduler --------------------------
(* AsyncScheduler on a few frames. *)
EXTENDS AsyncScheduler, TLC

CONSTANTS f1, f2, f3

TwoFrames == {f1, f2}
ThreeFrames == {f1, f2, f3}
NoGroups == {}
StepLimits == {Unlimited, 1}

Symmetry == Permutations(Frames)
=============================================================================
