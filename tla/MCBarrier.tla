------------------------------- MODULE MCBarrier -------------------------------
(* Three threads that meet up to four times, with a generation of one bit. *)
EXTENDS Barrier

CONSTANTS t1, t2, t3

MCThreads == {t1, t2, t3}

================================================================================
