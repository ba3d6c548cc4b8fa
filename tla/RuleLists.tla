---- MODULE RuleLists ----
(***************************************************************************)
(* What the rule store promises of its two lists, without locks, slices    *)
(* and steps in between: a list changes only by one whole update at a      *)
(* time, made at the entry that comes first under the name, whatever the   *)
(* list is at that moment.  The four updates are those that                *)
(* src/src/rules_manager.rs documents.  The promise may break, once and    *)
(* for good: from then on a list may be anything.                          *)
(***************************************************************************)
EXTENDS Naturals, SequencesExt

CONSTANTS RuleTypes, Names, Paths

VARIABLES
    lists,      \* rule type -> entries, each a process and its file paths
    broken      \* memory that is not the list's own was used for the list's

Init ==
    /\ lists = [t \in RuleTypes |-> << >>]
    /\ broken = FALSE

\* Position i holds the first entry of this name.
First(list, name, i) ==
    /\ i \in DOMAIN list /\ list[i].process = name
    /\ \A j \in DOMAIN list : list[j].process = name => i <= j

Missing(list, name) == \A i \in DOMAIN list : list[i].process # name

\* "Add the `file_path` to the `process_name` rules in the `rules` array."
AddFile(t, name, path) ==
    \/ \E i \in DOMAIN lists[t] :
        /\ First(lists[t], name, i)
        /\ lists' = [lists EXCEPT ![t][i].paths = Append(@, path)]
    \/ /\ Missing(lists[t], name)
       /\ lists' = [lists EXCEPT ![t] = Append(@, [process |-> name, paths |-> <<path>>])]

\* "Remove the `file_path` from the `process_name` rules in the `rules` array."
RemoveFile(t, name, path) ==
    \E i \in DOMAIN lists[t] :
        /\ First(lists[t], name, i)
        /\ lists' = [lists EXCEPT ![t][i].paths = RemoveFirst(@, path)]

\* "Remove the `process_name` from the `rules` array."
ClearRules(t, name) ==
    \E i \in DOMAIN lists[t] :
        /\ First(lists[t], name, i)
        /\ lists' = [lists EXCEPT ![t] = RemoveAt(@, i)]

\* "Rename the `old_process_name` to the `new_process_name` in the `rules` array."
RenameRules(t, name, new) ==
    \E i \in DOMAIN lists[t] :
        /\ First(lists[t], name, i)
        /\ lists' = [lists EXCEPT ![t][i].process = new]

Update ==
    \E t \in RuleTypes, name \in Names :
        \/ \E path \in Paths : AddFile(t, name, path) \/ RemoveFile(t, name, path)
        \/ ClearRules(t, name)
        \/ \E new \in Names : RenameRules(t, name, new)

Break == broken' = TRUE

Next == (~broken /\ Update /\ UNCHANGED broken) \/ Break

Spec == Init /\ [][Next]_<<lists, broken>>
====
