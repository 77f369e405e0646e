---------------------------- MODULE MCThreadPool ----------------------------
(* ThreadPool with a few workers and pushes. *)
EXTENDS ThreadPool, TLC

CONSTANTS w1, w2, t1, t2, t3

MCWorkers == {w1, w2}
MCTasks == {t1, t2, t3}
=============================================================================
