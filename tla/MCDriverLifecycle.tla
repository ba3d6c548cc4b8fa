---- MODULE MCDriverLifecycle ----
(***************************************************************************)
(* Small instance of DriverLifecycle for TLC.                              *)
(***************************************************************************)
EXTENDS DriverLifecycle, TLC

CONSTANTS t1, t2, t3

====
