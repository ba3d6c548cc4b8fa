---- MODULE MCRulesManager ----
(***************************************************************************)
(* Small instances of RulesManager for TLC.                                *)
(***************************************************************************)
EXTENDS RulesManager, TLC

CONSTANTS a1, a2, f1, k1, k2, k3, n1, n2, n3, v1, v2, v3, p1, p2

\* Two values that prepare to one path (a DOS and an NT spelling of a file),
\* and one on a drive that is not mapped.
MCPrepared == v1 :> p1 @@ v2 :> p1 @@ v3 :> NoPath

\* Two values, two paths.
MCPreparedApart == [v \in Values |-> IF v = v1 THEN p1 ELSE p2]

\* One administrator works on every key.
MCAllNames == [a \in Admins |-> Names]

\* Two administrators, each with names of its own.
MCOwnNames == a1 :> {n1, n2} @@ a2 :> {n3}

\* Exact names and exact paths: a process is called like its rules.
MCSameName == {<<n, n>> : n \in Procs}
MCSamePath == {<<p, p>> : p \in Files}

\* n2 is a pattern that matches every process.
MCPattern == MCSameName \union {<<n, n2>> : n \in Procs}
====
