---- MODULE MCThreadPool ----
(* Two workers, two or three calls of t_pool_add_work.                     *)
EXTENDS ThreadPool

CONSTANTS w1, w2, j1, j2, j3

MCWorkers == {w1, w2}
MCJobs == {j1, j2, j3}
MCTwoJobs == {j1, j2}

(* 0 is the instant of a new request, in the past; the clock goes past 4.  *)
MCWaitTimes == {0, 2, 4}
MCNormalised == {}
MCUnnormalised == {4}
====
