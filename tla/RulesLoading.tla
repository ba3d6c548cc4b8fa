---- MODULE RulesLoading ----
(***************************************************************************)
(* The start of the rule store: RulesManager::init of                      *)
(* src/src/rules_manager.rs reads the rules from the registry through      *)
(* src/src/registry.rs, then the driver registers its registry callback.   *)
(* From there on the callback keeps the store in step, which is the        *)
(* subject of RulesManager; this module ends there.                        *)
(*                                                                         *)
(* The loader makes the keys that are missing and walks a tree of three    *)
(* levels (rule types, processes, values), one system call per step: it    *)
(* opens a key, asks for its children by index until there are none, and   *)
(* goes on with each of them.  Administrators change the registry at any   *)
(* time, and nobody tells the driver.  Values name files, some of them on  *)
(* a drive that comes and goes.                                            *)
(***************************************************************************)
EXTENDS RuleStore

CONSTANTS
    Types,          \* names of subkeys of the rules key
    Names,          \* process names
    Values,         \* value names: rule paths as administrators write them
    Prepared,       \* prepare_rule_file_path, when the drive is there
    Removable,      \* the values on the drive that comes and goes
    Registries,     \* what the registry may hold when the driver starts
    MaxOps,         \* bound on changes to the registry and the drive
    Faults,         \* may memory run out
    NoName

RuleTypes == {"Deny", "ReadOnly"}
Paths == {Prepared[v] : v \in Values}

\* The rules key, if there is one, with its subkeys, theirs, and the values,
\* each in the order of the enumeration indices.
Registry == [root : BOOLEAN, types : Seq(Types), procs : [Types -> Seq(Names)],
             values : [Types -> [Names -> Seq(Values)]]]

\* Sibling keys differ in name, and values are values of a key that is there.
WellFormed(r) ==
    \A t \in Types :
        /\ IsInjective(r.procs[t])
        /\ \A n \in Names :
             r.values[t][n] # << >> => t \in Range(r.types) /\ n \in Range(r.procs[t])

ASSUME RulesLoadingAssumption ==
    /\ RuleTypes \subseteq Types /\ NoName \notin Names \union Types
    /\ Removable \subseteq Values /\ Registries \subseteq Registry
    /\ \A r \in Registries : WellFormed(r)
    /\ Prepared \in [Values -> Paths]
    /\ MaxOps \in Nat /\ Faults \in BOOLEAN

VARIABLES
    reg,        \* the registry below the rules key
    drive,      \* the removable drive is mapped
    vecs,       \* deny_rules and readonly_rules
    loader,     \* RulesManager::init, then RegistryManager::init
    ops,        \* changes so far
    history     \* for properties: the rules there were during the load, the kinds
                \* of changes during it, and if there was one after it

vars == <<reg, drive, vecs, loader, ops, history>>

Rules == RuleTypes \X Names \X Paths

\* The rules, of a type for a process and a path, that the registry asks for.
Asked(r) ==
    {rule \in Rules : \E v \in Range(r.values[rule[1]][rule[2]]) : Prepared[v] = rule[3]}

Init ==
    /\ reg \in Registries /\ drive \in BOOLEAN
    /\ vecs = [t \in RuleTypes |-> EmptyVec]
    /\ loader = [pc |-> "prepare", found |-> << >>, types |-> << >>, procs |-> << >>,
                 rules |-> << >>, type |-> NoName, key |-> NoName, lost |-> {},
                 outcome |-> "none"]
    /\ ops = 0
    /\ history = [always |-> Asked(reg), ever |-> Asked(reg), changes |-> {},
                  late |-> FALSE]

----------------------------------------------------------------------------
(* The loader.                                                             *)

\* The handles open at each stage, named for what is enumerated on them.
OpenHandles ==
    CASE loader.pc \in {"prepare", "create"}   -> {}
      [] loader.pc \in {"types", "type"}       -> {"types"}
      [] loader.pc \in {"procs", "proc"}       -> {"types", "procs"}
      [] loader.pc = "values"                  -> {"types", "procs", "values"}
      [] OTHER                                 -> {}

Loading == loader.pc \notin {"loaded", "failed", "registered"}

Walk(next) == loader' = next /\ UNCHANGED <<reg, drive, vecs, ops, history>>

\* Mutant: the status is taken for the outcome.
FailedStatus(status) == [loader EXCEPT !.pc = "failed", !.outcome = status]

\* init_rules returns an error; init lets one of them pass for success.
Failed(status) ==
    IF status = "OBJECT_NAME_NOT_FOUND"
    THEN [loader EXCEPT !.pc = "loaded", !.outcome = "absent"]
    ELSE [loader EXCEPT !.pc = "failed", !.outcome = "error"]

\* Where an element may come to stand among others.
Insertions(seq, e) == {InsertAt(seq, i, e) : i \in 1 .. Len(seq) + 1}

\* prepare_registry_keys makes the rules key, then the keys of the two rule types,
\* where they are missing.
CreateRoot ==
    /\ loader.pc = "prepare"
    /\ reg' = [reg EXCEPT !.root = TRUE]
    /\ loader' = [loader EXCEPT !.pc = "create", !.types = <<"Deny", "ReadOnly">>]
    /\ UNCHANGED <<drive, vecs, ops, history>>

WithType(type) ==
    IF type \in Range(reg.types) THEN {reg.types} ELSE Insertions(reg.types, type)

\* A key is made below one that is there.
CreateRuleType ==
    /\ loader.pc = "create" /\ loader.types # << >>
    /\ IF reg.root
       THEN /\ \E types \in WithType(Head(loader.types)) :
                 reg' = [reg EXCEPT !.types = types]
            /\ loader' = [loader EXCEPT !.types = Tail(@)]
       ELSE loader' = Failed("OBJECT_NAME_NOT_FOUND") /\ UNCHANGED reg
    /\ UNCHANGED <<drive, vecs, ops, history>>

OpenRoot ==
    /\ loader.pc = "create" /\ loader.types = << >>
    /\ Walk(IF reg.root THEN [loader EXCEPT !.pc = "types"]
                        ELSE Failed("OBJECT_NAME_NOT_FOUND"))

\* The children of the key the loader enumerates, wherever it was moved to.
Listing ==
    CASE loader.pc = "types"  -> reg.types
      [] loader.pc = "procs"  -> reg.procs[loader.type]
      [] loader.pc = "values" -> reg.values[loader.type][loader.key]

\* enumerate_names_by_index on a handle whose key is there.
Enumerating(level) == loader.pc = level /\ level \notin loader.lost

\* Mutant: the index stays.
EnumerateAgain ==
    \E level \in {"types", "procs", "values"} :
        /\ Enumerating(level) /\ Len(loader.found) < Len(Listing) /\ Walk(loader)

\* The next child by index, which is the number of names found so far.
Enumerate ==
    \E level \in {"types", "procs", "values"} :
        /\ Enumerating(level)
        /\ Len(loader.found) < Len(Listing)
        /\ Walk([loader EXCEPT !.found = Append(@, Listing[Len(@) + 1])])

\* Mutant: the last child is taken for the end.
ExhaustedEarly(level) == Enumerating(level) /\ Len(loader.found) + 1 >= Len(Listing)

\* STATUS_NO_MORE_ENTRIES.
Exhausted(level) == Enumerating(level) /\ Len(loader.found) >= Len(Listing)

EndTypes ==
    /\ Exhausted("types")
    /\ Walk([loader EXCEPT !.types = loader.found, !.found = << >>, !.pc = "type"])

OpenType ==
    /\ loader.pc = "type" /\ loader.types # << >>
    /\ Walk(IF "types" \in loader.lost THEN Failed("KEY_DELETED")
            ELSE IF Head(loader.types) \notin Range(reg.types)
            THEN Failed("OBJECT_NAME_NOT_FOUND")
            ELSE [loader EXCEPT !.pc = "procs", !.type = Head(loader.types),
                                !.lost = @ \ {"procs"}])

\* Mutant: the entries of the type before are kept.
EndProcsKeeping ==
    /\ Exhausted("procs")
    /\ Walk(IF Head(loader.types) \in RuleTypes
            THEN [loader EXCEPT !.procs = loader.found, !.found = << >>, !.pc = "proc"]
            ELSE Failed("INVALID_PARAMETER"))

\* The processes are known, and now the type is looked at.
EndProcs ==
    /\ Exhausted("procs")
    /\ Walk(IF Head(loader.types) \in RuleTypes
            THEN [loader EXCEPT !.procs = loader.found, !.found = << >>,
                                !.rules = << >>, !.pc = "proc"]
            ELSE Failed("INVALID_PARAMETER"))

OpenProc ==
    /\ loader.pc = "proc" /\ loader.procs # << >>
    /\ Walk(IF "procs" \in loader.lost THEN Failed("KEY_DELETED")
            ELSE IF Head(loader.procs) \notin Range(reg.procs[loader.type])
            THEN Failed("OBJECT_NAME_NOT_FOUND")
            ELSE [loader EXCEPT !.pc = "values", !.key = Head(loader.procs),
                                !.lost = @ \ {"values"}])

\* prepare_rule_file_path finds the drive of the value.
Convertible(v) == v \in Removable => drive

EntryOfFound ==
    [process |-> Head(loader.procs),
     paths |-> [i \in DOMAIN loader.found |-> Prepared[loader.found[i]]]]

\* Mutant: an entry for every value.
EndValuesApart ==
    /\ Exhausted("values")
    /\ Walk(IF \A v \in Range(loader.found) : Convertible(v)
            THEN [loader EXCEPT
                    !.rules = @ \o
                      [i \in DOMAIN loader.found |->
                         NewEntry(Head(loader.procs), Prepared[loader.found[i]])],
                    !.found = << >>, !.procs = Tail(@), !.pc = "proc"]
            ELSE Failed("OBJECT_NAME_NOT_FOUND"))

EndValues ==
    /\ Exhausted("values")
    /\ Walk(IF \A v \in Range(loader.found) : Convertible(v)
            THEN [loader EXCEPT !.rules = Append(@, EntryOfFound), !.found = << >>,
                                !.procs = Tail(@), !.pc = "proc"]
            ELSE Failed("OBJECT_NAME_NOT_FOUND"))

\* The key of the handle was deleted while it was open.
EnumerateDeleted ==
    /\ loader.pc \in loader.lost
    /\ Walk(Failed("KEY_DELETED"))

Replaced(vec, entries) ==
    [entries |-> entries, buffer |-> vec.buffer + 1,
     capacity |-> IF Len(entries) > MinCapacity THEN Len(entries) ELSE MinCapacity]

\* All processes of a type are read: the new list replaces the old one.
AssignRules ==
    /\ loader.pc = "proc" /\ loader.procs = << >>
    /\ vecs' = [vecs EXCEPT ![Head(loader.types)] = Replaced(@, loader.rules)]
    /\ loader' = [loader EXCEPT !.types = Tail(@), !.pc = "type"]
    /\ UNCHANGED <<reg, drive, ops, history>>

InitDone ==
    /\ loader.pc = "type" /\ loader.types = << >>
    /\ Walk([loader EXCEPT !.pc = "loaded", !.outcome = "complete"])

\* An allocation fails, or a call for want of memory.
LoaderOutOfMemory ==
    /\ Faults /\ Loading
    /\ Walk(Failed("INSUFFICIENT_RESOURCES"))

\* RegistryManager::init.
RegisterCallback ==
    /\ loader.pc = "loaded"
    /\ Walk([loader EXCEPT !.pc = "registered"])

LoaderStep ==
    \/ CreateRoot \/ CreateRuleType \/ OpenRoot \/ Enumerate \/ EndTypes
    \/ OpenType \/ EndProcs \/ OpenProc \/ EndValues \/ EnumerateDeleted
    \/ AssignRules \/ InitDone

----------------------------------------------------------------------------
(* Changes to the registry, which nobody tells the driver.                 *)

Counted == ops < MaxOps /\ ops' = ops + 1

Recorded(kinds) ==
    IF Loading
    THEN [history EXCEPT !.always = @ \intersect Asked(reg'),
                         !.ever = @ \union Asked(reg'), !.changes = @ \union kinds]
    ELSE [history EXCEPT !.late = TRUE]

Change(kinds) ==
    /\ loader.pc \notin {"failed", "registered"}
    /\ Counted
    /\ history' = Recorded(kinds)
    /\ UNCHANGED <<drive, vecs>>

CreateKey(t, n) ==
    /\ t \in Range(reg.types) /\ n \notin Range(reg.procs[t])
    /\ \E procs \in Insertions(reg.procs[t], n) :
         reg' = [reg EXCEPT !.procs[t] = procs, !.values[t][n] = << >>]
    /\ Change({"added"})
    /\ UNCHANGED loader

\* A handle to the key that the loader has is lost.
Lost(level, concerned) ==
    loader' = [loader EXCEPT !.lost = @ \union (IF concerned /\ level \in OpenHandles
                                                THEN {level} ELSE {})]

DeleteKey(t, n) ==
    /\ n \in Range(reg.procs[t])
    /\ reg' = [reg EXCEPT !.procs[t] = RemoveFirst(@, n), !.values[t][n] = << >>]
    /\ Change({"removed"})
    /\ Lost("values", loader.type = t /\ loader.key = n)

\* Only names are read: setting a value that is there again changes nothing.
SetValue(t, n, v) ==
    /\ n \in Range(reg.procs[t]) /\ v \notin Range(reg.values[t][n])
    /\ \E values \in Insertions(reg.values[t][n], v) :
         reg' = [reg EXCEPT !.values[t][n] = values]
    /\ Change({"added"})
    /\ UNCHANGED loader

DeleteValue(t, n, v) ==
    /\ v \in Range(reg.values[t][n])
    /\ reg' = [reg EXCEPT !.values[t][n] = RemoveFirst(@, v)]
    /\ Change({"removed"})
    /\ UNCHANGED loader

RenameKey(t, n, new) ==
    /\ n \in Range(reg.procs[t]) /\ new \notin Range(reg.procs[t])
    /\ \E procs \in Insertions(RemoveFirst(reg.procs[t], n), new) :
         reg' = [reg EXCEPT !.procs[t] = procs, !.values[t][n] = << >>,
                            !.values[t][new] = reg.values[t][n]]
    /\ Change({"added", "removed", "renamed"})
    /\ loader' = IF loader.type = t /\ loader.key = n
                 THEN [loader EXCEPT !.key = new] ELSE loader

CreateType(t) ==
    /\ reg.root /\ t \notin Range(reg.types)
    /\ \E types \in Insertions(reg.types, t) : reg' = [reg EXCEPT !.types = types]
    /\ Change({"added"})
    /\ UNCHANGED loader

\* Only a key without subkeys can be deleted.
DeleteType(t) ==
    /\ t \in Range(reg.types) /\ reg.procs[t] = << >>
    /\ reg' = [reg EXCEPT !.types = RemoveFirst(@, t)]
    /\ Change({"removed"})
    /\ Lost("procs", loader.type = t)

\* The processes move with their type key.
RenameType(t, new) ==
    /\ t \in Range(reg.types) /\ new \notin Range(reg.types)
    /\ \E types \in Insertions(RemoveFirst(reg.types, t), new) :
         reg' = [reg EXCEPT !.types = types,
                   !.procs[t] = << >>, !.procs[new] = reg.procs[t],
                   !.values[t] = [n \in Names |-> << >>], !.values[new] = reg.values[t]]
    /\ Change({"added", "removed", "renamed"})
    /\ loader' = IF loader.type = t THEN [loader EXCEPT !.type = new] ELSE loader

DeleteRoot ==
    /\ reg.root /\ reg.types = << >>
    /\ reg' = [reg EXCEPT !.root = FALSE]
    /\ Change({"removed"})
    /\ Lost("types", TRUE)

RemapDrive ==
    /\ Removable # {} /\ loader.pc \notin {"failed", "registered"}
    /\ Counted
    /\ drive' = ~drive
    /\ UNCHANGED <<reg, vecs, loader, history>>

Administer ==
    \/ DeleteRoot \/ RemapDrive
    \/ \E t \in Types :
        \/ CreateType(t) \/ DeleteType(t) \/ \E new \in Types : RenameType(t, new)
        \/ \E n \in Names :
            \/ CreateKey(t, n) \/ DeleteKey(t, n) \/ \E new \in Names : RenameKey(t, n, new)
            \/ \E v \in Values : SetValue(t, n, v) \/ DeleteValue(t, n, v)

Next == LoaderStep \/ LoaderOutOfMemory \/ RegisterCallback \/ Administer

Spec == Init /\ [][Next]_vars

\* The driver's thread runs on while it loads.
FairSpec == Spec /\ WF_vars(LoaderStep)

----------------------------------------------------------------------------
(* Properties.                                                             *)

Entry == [process : Names, paths : Seq(Paths)]
Vec == [entries : Seq(Entry), capacity : Nat, buffer : Nat]
Loader ==
    [pc : {"prepare", "create", "types", "type", "procs", "proc", "values",
           "loaded", "failed", "registered"},
     found : Seq(Types \union Names \union Values), types : Seq(Types),
     procs : Seq(Names), rules : Seq(Entry), type : Types \union {NoName},
     key : Names \union {NoName}, lost : SUBSET {"types", "procs", "values"},
     outcome : {"none", "complete", "absent", "error"}]
History ==
    [always : SUBSET Rules, ever : SUBSET Rules,
     changes : SUBSET {"added", "removed", "renamed"}, late : BOOLEAN]

TypeOK ==
    /\ reg \in Registry /\ drive \in BOOLEAN /\ ops \in 0 .. MaxOps
    /\ vecs \in [RuleTypes -> Vec] /\ loader \in Loader /\ history \in History

Listed ==
    {rule \in Rules : \E e \in Range(vecs[rule[1]].entries) :
        e.process = rule[2] /\ rule[3] \in Range(e.paths)}

\* Every rule that is loaded was asked for by the registry at some moment of
\* the load, whatever is deleted and made again under the loader: no path gets
\* into the entry of another process or type (init_rules).  A key renamed while
\* it is open is read on under its old name, and is the exception.
LoadedWasThere == "renamed" \notin history.changes => Listed \subseteq history.ever

\* A load that ran to its end has every rule that stood all through it, unless a
\* key or a value was removed under it: additions shift the enumeration, but
\* skip nothing (enumerate_names_impl, init_rules).
StandingIsLoaded ==
    loader.outcome = "complete" /\ "removed" \notin history.changes
        => history.always \subseteq Listed

\* A load makes one entry for a process, unless a key was added under it and
\* shifted a process to an index that comes again.
LoadedOnce ==
    "added" \notin history.changes =>
        \A t \in RuleTypes : \A i, j \in DOMAIN vecs[t].entries :
            vecs[t].entries[i].process = vecs[t].entries[j].process => i = j

PathsFor(t, n) ==
    [i \in DOMAIN reg.values[t][n] |-> Prepared[reg.values[t][n][i]]]

ListFor(t) ==
    [i \in DOMAIN reg.procs[t] |->
        [process |-> reg.procs[t][i], paths |-> PathsFor(t, reg.procs[t][i])]]

InStep == \A t \in RuleTypes : vecs[t].entries = ListFor(t)

\* What a load leaves when nobody changed a key or a value under it: every list is
\* the registry's, a process for a process and a path for a value.  The drive may
\* come and go, memory may run out, and keys the loader makes shift those it found
\* (prepare_registry_keys, init_rules).
LoadIsExact ==
    loader.outcome = "complete" /\ history.changes = {} /\ ~history.late => InStep

\* When init reports success and no key or value was removed meanwhile, the
\* rules that stood all the time and whose drive is there are loaded: only an
\* absent rules key is passed over (the comment on RulesManager::init).
SuccessMeansLoaded ==
    loader.pc = "loaded" /\ "removed" \notin history.changes =>
        \A r \in history.always : r[3] \notin {Prepared[v] : v \in Removable}
                                     => r \in Listed

\* The load ends, unless administrators never stop to change the registry under it:
\* the index only grows, a key that goes away ends the walk, and nothing makes the
\* loader begin anew (the loops of init_rules and enumerate_names_impl).
LoadEnds == []<><<Administer>>_vars \/ <>~Loading
====
