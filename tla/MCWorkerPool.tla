----------------------------- MODULE MCWorkerPool -----------------------------
(***************************************************************************)
(* Bounds for TLC: three workers and two runs on one pool, so that         *)
(* responses of one run could reach the next; jobs may fail or panic.      *)
(***************************************************************************)
EXTENDS WorkerPool
==============================================================================
