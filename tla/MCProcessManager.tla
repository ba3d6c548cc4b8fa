---- MODULE MCProcessManager ----
(***************************************************************************)
(* Small instances of ProcessManager for TLC.                              *)
(***************************************************************************)
EXTENDS ProcessManager

CONSTANTS r1, r2, root, pid1, pid2
====
