---------------------------- MODULE MCTabLoading ----------------------------
(***************************************************************************)
(* Instances of TabLoading for TLC.                                        *)
(***************************************************************************)
EXTENDS TabLoading, TLC

CONSTANTS s1, s2, t1

(* Everything but renaming, which alone makes three quarters of the states.*)
OpsOfOneName == EventKinds \ {"rename"}

(* What a user does with the list of one tab.                              *)
ListOps == {"switch", "reload", "filter", "append"}

(* What does not take a tab out of the queue for good.                     *)
LiveOps == {"switch", "add", "rename", "fetch", "reload", "sync", "maintenance"}

OnePage == s1 :> 1
TwoPages == s1 :> 2
UnequalPages == s1 :> 2 @@ s2 :> 1
=============================================================================
