---------------------------- MODULE MCFetchFlow ----------------------------
(***************************************************************************)
(* Instances of FetchFlow for TLC: which user and timer events occur in    *)
(* which run.                                                              *)
(***************************************************************************)
EXTENDS FetchFlow, TLC

(* Everything.                                                             *)
AllOps == OpKind

(* What interferes with a pass and moves cursors, without maintenance and  *)
(* without the cursor's reset.                                             *)
PassOps == {"refreshAll", "close", "rename", "refresh", "more"}

(* What leaves the tab that a pass is fetching alone.                      *)
LiveOps == {"refreshAll", "credentials", "add", "maintenance"}

(* The events of the three counterexamples.                                *)
BarrierOps == {"refresh", "close", "maintenance"}
StallOps == {"refreshAll", "close"}
ResetOps == {"more", "resetCursor"}

TabSymmetry == Permutations(Keyword)
=============================================================================
