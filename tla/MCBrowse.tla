------------------------------ MODULE MCBrowse ------------------------------
(***************************************************************************)
(* Two windows for TLC.  They are alike, so the first operation is always  *)
(* one of w1: half of the states, and every behaviour up to renaming.      *)
(***************************************************************************)
EXTENDS Browse

CONSTANTS w1, w2

FirstInWindow1 == starts = 0 /\ starts' = 1 => stack'[1].w = w1
=============================================================================
