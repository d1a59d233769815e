------------------------- MODULE MCTransactionWorker -------------------------
(* Two tasks on two workers: either may draw its worker first, and either may   *)
(* run both transactions.                                                       *)
EXTENDS TransactionWorker

CONSTANTS a, b, Get, Query
=============================================================================
