--------------------------- MODULE TransferQueue ---------------------------
(***************************************************************************)
(* What the transfer queue promises, with connections, windows, threads    *)
(* and nested main loops left out: a transfer waits, is active, is gone,   *)
(* in that order and once; and with one_transfer it is not started while   *)
(* another is active.                                                      *)
(***************************************************************************)
CONSTANTS Jobs, OneTransfer

VARIABLES waiting, active, gone

queueVars == <<waiting, active, gone>>

Init == waiting = {} /\ active = {} /\ gone = {}

\* gftpui_common_add_file_transfer()
Submit(j) ==
  /\ j \notin waiting \cup active \cup gone
  /\ waiting' = waiting \cup {j} /\ UNCHANGED <<active, gone>>

\* A transfer that is given up before it is queued, or joins another one.
Reject(j) ==
  /\ j \notin waiting \cup active \cup gone
  /\ gone' = gone \cup {j} /\ UNCHANGED <<waiting, active>>

\* create_transfer()
Start(j) ==
  /\ j \in waiting /\ (OneTransfer => active = {})
  /\ waiting' = waiting \ {j} /\ active' = active \cup {j} /\ gone' = gone

\* Stop Transfer on a transfer that waits.
Withdraw(j) ==
  /\ j \in waiting
  /\ waiting' = waiting \ {j} /\ gone' = gone \cup {j} /\ active' = active

\* transfer_done()
Finish(j) ==
  /\ j \in active
  /\ active' = active \ {j} /\ gone' = gone \cup {j} /\ waiting' = waiting

Next == \E j \in Jobs : Submit(j) \/ Reject(j) \/ Start(j) \/ Withdraw(j) \/ Finish(j)

Spec == Init /\ [][Next]_queueVars
=============================================================================
