--------------------------- MODULE MCTransferJob ---------------------------
(* Small instances of TransferJob: the queues the configurations choose from. *)
EXTENDS TransferJob

CONSTANTS a, b, c

QueueOfTwo == <<a, b>>
QueueOfThree == <<a, b, c>>
=============================================================================
