---- MODULE MCRulesFaults ----
(***************************************************************************)
(* Small instances of RulesFaults for TLC.                                 *)
(***************************************************************************)
EXTENDS RulesFaults, MCRulesManager
====
