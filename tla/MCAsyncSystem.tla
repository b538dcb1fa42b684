---------------------------- MODULE MCAsyncSystem ----------------------------
(* Small instances of AsyncSystem. *)
EXTENDS AsyncSystem, TLC

CONSTANTS f1, f2, f3, g1

TwoFrames == {f1, f2}
ThreeFrames == {f1, f2, f3}
OneGroup == {g1}
NoGroups == {}
FullSteps == {Unlimited}
StepLimits == {Unlimited, 1}
TaskPrograms ==
  {{"group", "raise", "export", "drain"},
   {"all", "raise", "export", "drain"}, {"all", "copy", "export", "drain"},
   {"operation", "raise", "fault", "export", "drain"}, {"operation", "root", "reload", "drain"}}
FairPrograms ==
  {{"group", "raise", "export"}, {"group", "export", "drain"},
   {"raise", "fault", "root", "export", "drain"}}
Symmetry == Permutations(Frames)
=============================================================================
