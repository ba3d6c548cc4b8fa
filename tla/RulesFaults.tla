---- MODULE RulesFaults ----
(***************************************************************************)
(* What a failed callback leaves behind.  A callback of RulesManager that  *)
(* runs out of memory, or cannot prepare a path, updates nothing, and the  *)
(* registry operation is done already: the error that registry_callback of *)
(* src/src/registry_manager.rs returns undoes nothing.                     *)
(* From then on the store differs from the registry, and `harmed` has the  *)
(* processes for which it may: those the failed callbacks were about, and  *)
(* those a later rename carries their entries to.                          *)
(***************************************************************************)
EXTENDS RulesManager

VARIABLE harmed     \* for properties: <<type, name>> of such processes

faultVars == <<vars, harmed>>

FaultsInit == Init /\ harmed = {}

\* The entries that the callback is about, when its key was called so.
Concerned(a, name) ==
    {TypeOf(a)} \X ({name} \union (IF calls[a].op = "rename" THEN {calls[a].target} ELSE {}))

HarmEarly(a) ==
    /\ FailCallback(a)
    /\ harmed' = harmed \union (IF Ignored(a) THEN {} ELSE Concerned(a, ResolvedName(a)))

HarmUnderLock(a) ==
    /\ FailUpdate(a)
    /\ harmed' = harmed \union Concerned(a, calls[a].name)

\* An entry that is wrong is so under its new name.
CarryHarm(a) ==
    /\ UpdateRules(a)
    /\ harmed' = harmed \union (IF <<TypeOf(a), calls[a].name>> \in harmed
                                THEN Concerned(a, calls[a].name) ELSE {})

FaultsNext ==
    \/ \E a \in Admins : HarmEarly(a) \/ HarmUnderLock(a) \/ CarryHarm(a)
    \/ /\ \/ \E k \in Keys, folder \in Folders, name \in Names : CreateKey(k, folder, name)
          \/ \E a \in Admins :
               Operate(a) \/ RenameKey(a) \/ PostCallback(a) \/ LockRules(a)
          \/ \E f \in Filters : SearchStep(f)
       /\ UNCHANGED harmed

FaultsSpec == FaultsInit /\ [][FaultsNext]_faultVars

\* The callbacks and the searches run on, as in RulesManager.
FaultsFairSpec == FaultsSpec /\ Fairness

----------------------------------------------------------------------------
(* Properties.                                                             *)

\* A failed callback harms the processes it was about, and no other: with no
\* callback pending, each other process has one entry at most, and in it exactly
\* the paths its keys ask for, also after the entries that failures left were
\* renamed, deleted and made anew (the *_impl functions pick an entry by its name).
\* Setting a value that is there, and administrators who work on the same names,
\* do harm without a failure, and are left out.
FailureIsContained ==
    Quiet => \A t \in RuleTypes, n \in Names : <<t, n>> \notin harmed =>
        /\ Cardinality({i \in DOMAIN vecs[t].entries :
                          vecs[t].entries[i].process = n}) <= 1
        /\ \A p \in Paths : Listed(t, n, p) <=>
             \E k \in Keys : keys[k].folder = t /\ Asks(k, n, p)
====
