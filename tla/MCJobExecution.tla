---------------------------- MODULE MCJobExecution ----------------------------
(* Small instances of JobExecution for TLC.                                  *)
EXTENDS JobExecution, TLC

CONSTANTS j1, j2, w1, w2

OneJob == {j1}
TwoWorkers == {w1, w2}
===============================================================================
