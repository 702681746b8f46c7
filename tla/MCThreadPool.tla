---------------------------- MODULE MCThreadPool ----------------------------
(* Small instances of ThreadPool for TLC. *)
EXTENDS ThreadPool

CONSTANTS c1, c2, t1, t2, t3, t4

TwoCallers == {c1, c2}
ThreeTasks == {t1, t2, t3}
FourTasks == {t1, t2, t3, t4}
=============================================================================
