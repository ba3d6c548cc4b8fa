---- MODULE MCRulesLoading ----
(***************************************************************************)
(* Small instances of RulesLoading for TLC.                                *)
(***************************************************************************)
EXTENDS RulesLoading, TLC

CONSTANTS n1, n2, v1, v2, p1, p2

MCPrepared == v1 :> p1 @@ v2 :> p2

\* A registry with these subkeys, and these processes and values below Deny and
\* ReadOnly.
Holding(types, deny, readOnly) ==
    [root |-> TRUE, types |-> types,
     procs |-> [t \in Types |-> CASE t = "Deny" -> deny.procs
                                  [] t = "ReadOnly" -> readOnly.procs
                                  [] OTHER -> << >>],
     values |-> [t \in Types |-> CASE t = "Deny" -> deny.values
                                   [] t = "ReadOnly" -> readOnly.values
                                   [] OTHER -> [n \in Names |-> << >>]]]

Nothing == [procs |-> << >>, values |-> [n \in Names |-> << >>]]
OneProcess == [procs |-> <<n1>>, values |-> n1 :> <<v1>> @@ n2 :> << >>]
TwoProcesses == [procs |-> <<n1, n2>>, values |-> n1 :> <<v1, v2>> @@ n2 :> <<v1>>]

NoRulesKey == [Holding(<< >>, Nothing, Nothing) EXCEPT !.root = FALSE]

\* No rules key; two processes of one type; a type that the driver
\* does not know.
MCRegistries ==
    {NoRulesKey, Holding(<<"Deny">>, TwoProcesses, Nothing),
     Holding(<<"ReadOnly", "Other">>, Nothing, OneProcess)}
====
