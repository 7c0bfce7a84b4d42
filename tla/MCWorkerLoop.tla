---------------------------- MODULE MCWorkerLoop ----------------------------
(* One tenant with two symbols. *)
EXTENDS WorkerLoop

CONSTANT alice

MCOrder == <<<<alice, "BTC-USDT">>, <<alice, "ETH-USDT">>>>
=============================================================================
