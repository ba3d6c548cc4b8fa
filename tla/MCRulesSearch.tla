---- MODULE MCRulesSearch ----
(***************************************************************************)
(* Small instances of RulesSearch for TLC.                                 *)
(***************************************************************************)
EXTENDS RulesSearch, TLC

CONSTANTS a1, a2, f1, k1, k2, n1, n2, n3, v1, v2, v3, p1, p2

\* Two values that prepare to one path (a DOS and an NT spelling of a file),
\* and one on a drive that is not mapped.
MCPrepared == v1 :> p1 @@ v2 :> p1 @@ v3 :> NoPath

\* Two administrators, each with names of its own.
MCOwnNames == a1 :> {n1, n2} @@ a2 :> {n3}

\* Exact names and exact paths: a process is called like its rules.
MCSameName == {<<n, n>> : n \in Procs}
MCSamePath == {<<p, p>> : p \in Files}
====
