----------------------------- MODULE MCViewEdit -----------------------------
(***************************************************************************)
(* Two files viewed or edited, beside an ssh of a connection, for TLC.     *)
(* The tasks are alike, so the first one is always t1.                     *)
(***************************************************************************)
EXTENDS ViewEdit

CONSTANTS t1, t2

\* Nothing set but an editor, and a program for everything.
FewAndMany == {[view |-> FALSE, ext |-> FALSE], [view |-> TRUE, ext |-> TRUE]}

FirstIsT1 == task'[t2].kind # "none" => task'[t1].kind # "none"
=============================================================================
