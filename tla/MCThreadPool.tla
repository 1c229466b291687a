---------------------------- MODULE MCThreadPool ----------------------------
(* ThreadPool with three workers and three tasks.                        *)
EXTENDS ThreadPool

CONSTANTS W1, W2, W3, T1, T2, T3

MCWorkers == {W1, W2, W3}
MCTasks == {T1, T2, T3}
=============================================================================
