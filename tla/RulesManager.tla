---- MODULE RulesManager ----
(***************************************************************************)
(* The rule store of src/src/rules_manager.rs, kept in step with the       *)
(* registry by the callback of src/src/registry_manager.rs and searched by *)
(* the minifilter.                                                         *)
(*                                                                         *)
(* Administrators perform registry operations.  The configuration manager  *)
(* runs the callback in the thread of the operation: before a rename, and  *)
(* after the operation is done, when nothing orders it against the         *)
(* callbacks of other operations.  A callback resolves the key's path,     *)
(* then waits for the lock of one of the two lists, searches its entry and *)
(* updates it.  Filters are the threads of file operations: they search    *)
(* the deny list and then the read-only list, each under its own lock.     *)
(***************************************************************************)
EXTENDS FltResource, RuleStore

CONSTANTS
    Admins, Filters,        \* threads of registry and of file operations
    Keys,                   \* key objects, each created at most once
    Folders,                \* parents of keys: RuleTypes, or anything else
    Names,                  \* process names of rule keys
    Values,                 \* registry value names
    Prepared,               \* prepare_rule_file_path, NoPath when it fails
    Procs, Files,           \* requestors and files of searches
    NameMatches,            \* <<proc, name>>: the name, a pattern, matches
    PathMatches,            \* <<file, path>>: the path, or its folder, does
    Territory,              \* the names of keys an administrator works on
    MaxOps,                 \* bound on registry operations
    Overwrites, Faults,     \* may values be set again, may callbacks fail
    NoKey, NoName, NoPath

RuleTypes == {"Deny", "ReadOnly"}
Operations == {"set", "deleteValue", "deleteKey", "rename"}
SliceOperations == {"deleteValue", "rename"}
Threads == Admins \union Filters
Paths == {Prepared[v] : v \in Values} \ {NoPath}

ASSUME RulesManagerAssumption ==
    /\ Admins \intersect Filters = {}
    /\ NoKey \notin Keys /\ NoName \notin Names
    /\ NameMatches \subseteq Procs \X Names
    /\ PathMatches \subseteq Files \X Paths
    /\ Territory \in [Admins -> SUBSET Names]
    /\ MaxOps \in Nat
    /\ Overwrites \in BOOLEAN /\ Faults \in BOOLEAN

VARIABLES
    keys,       \* the registry: key object -> its state
    vecs,       \* deny_rules and readonly_rules
    locks,      \* deny_rules_lock and readonly_rules_lock
    calls,      \* administrator -> its registry operation and callback
    searches,   \* filter thread -> its search_rule_action
    ops,        \* registry operations so far
    corrupt     \* some slice was used past the elements of its vector

vars == <<keys, vecs, locks, calls, searches, ops, corrupt>>

Absent == [state |-> "absent", folder |-> "none", name |-> NoName, values |-> {}]

NoCall == [pc |-> "idle", op |-> "none", key |-> NoKey, name |-> NoName,
           target |-> NoName, path |-> NoPath, slice |-> NoSlice, pos |-> 0]

NoSearch == [pc |-> "idle", type |-> "Deny", proc |-> NoName, file |-> NoPath,
             slice |-> NoSlice, pos |-> 0, verdict |-> "none"]

Init ==
    /\ keys = [k \in Keys |-> Absent]
    /\ vecs = [t \in RuleTypes |-> EmptyVec]
    /\ locks = [t \in RuleTypes |-> Unlocked]
    /\ calls = [a \in Admins |-> NoCall]
    /\ searches = [f \in Filters |-> NoSearch]
    /\ ops = 0
    /\ corrupt = FALSE

----------------------------------------------------------------------------
(* Registry operations, up to the post callback.                           *)

Live(k) == keys[k].state = "live"

\* A live key of the same folder has this name.
Taken(folder, name) ==
    \E k \in Keys : Live(k) /\ keys[k].folder = folder /\ keys[k].name = name

\* The callback's class switch has no case for a created key.
CreateKey(k, folder, name) ==
    /\ keys[k].state = "absent" /\ ~Taken(folder, name)
    /\ keys' = [keys EXCEPT ![k] = [state |-> "live", folder |-> folder,
                                    name |-> name, values |-> {}]]
    /\ UNCHANGED <<vecs, locks, calls, searches, ops, corrupt>>

MayOperate(a, k) ==
    /\ calls[a].pc = "idle" /\ ops < MaxOps
    /\ Live(k) /\ keys[k].name \in Territory[a]

Begin(a, call) ==
    /\ calls' = [calls EXCEPT ![a] = call]
    /\ ops' = ops + 1
    /\ UNCHANGED <<vecs, locks, searches, corrupt>>

SetValue(a, k, v) ==
    /\ MayOperate(a, k) /\ (Overwrites \/ v \notin keys[k].values)
    /\ keys' = [keys EXCEPT ![k].values = @ \union {v}]
    /\ Begin(a, [NoCall EXCEPT !.pc = "post", !.op = "set", !.key = k,
                               !.path = Prepared[v]])

DeleteValue(a, k, v) ==
    /\ MayOperate(a, k) /\ v \in keys[k].values
    /\ keys' = [keys EXCEPT ![k].values = @ \ {v}]
    /\ Begin(a, [NoCall EXCEPT !.pc = "post", !.op = "deleteValue", !.key = k,
                               !.path = Prepared[v]])

DeleteKey(a, k) ==
    /\ MayOperate(a, k)
    /\ keys' = [keys EXCEPT ![k].state = "deleted"]
    /\ Begin(a, [NoCall EXCEPT !.pc = "post", !.op = "deleteKey", !.key = k])

\* pre_rename_key keeps the path the key has before the rename.
PreRenameKey(a, k, new) ==
    /\ MayOperate(a, k) /\ new \in Territory[a] \ {keys[k].name}
    /\ Begin(a, [NoCall EXCEPT !.pc = "rename", !.op = "rename", !.key = k,
                               !.name = keys[k].name, !.target = new])
    /\ UNCHANGED keys

\* The rename itself: it fails when the key is gone or the new name is taken,
\* and post_rename_key then only releases the path.
RenameKey(a) ==
    LET k == calls[a].key
        new == calls[a].target
        fails == ~Live(k) \/ Taken(keys[k].folder, new)
    IN  /\ calls[a].pc = "rename"
        /\ IF fails
           THEN calls' = [calls EXCEPT ![a] = NoCall] /\ UNCHANGED keys
           ELSE /\ calls' = [calls EXCEPT ![a].pc = "post"]
                /\ keys' = [keys EXCEPT ![k].name = new]
        /\ UNCHANGED <<vecs, locks, searches, ops, corrupt>>

----------------------------------------------------------------------------
(* The post callback.                                                      *)

\* Mutant: the path is resolved after the rename.
ResolvedNameLate(a) == keys[calls[a].key].name

\* The key's path when the callback looks: the one kept before a rename, the
\* present one otherwise.
ResolvedName(a) ==
    IF calls[a].op = "rename" THEN calls[a].name ELSE keys[calls[a].key].name

\* Not a protection key, or a path that cannot be prepared: nothing to do.
Ignored(a) ==
    \/ keys[calls[a].key].folder \notin RuleTypes
    \/ calls[a].op \in {"set", "deleteValue"} /\ calls[a].path = NoPath

\* The list the callback works on.
TypeOf(a) == keys[calls[a].key].folder

\* Two of the updates take the list as a slice, before they lock it.
TakenSlice(a) ==
    IF calls[a].op \in SliceOperations THEN SliceOf(vecs[TypeOf(a)]) ELSE NoSlice

PostCallback(a) ==
    /\ calls[a].pc = "post"
    /\ IF Ignored(a)
       THEN calls' = [calls EXCEPT ![a] = NoCall]
       ELSE calls' = [calls EXCEPT ![a].pc = "lock", ![a].name = ResolvedName(a),
                                   ![a].slice = TakenSlice(a)]
    /\ UNCHANGED <<keys, vecs, locks, searches, ops, corrupt>>

\* What the search for the entry runs over: the vector as it is once the lock
\* is held, or the slice taken before.
Searched(a) ==
    IF calls[a].op \in SliceOperations THEN calls[a].slice
                                       ELSE SliceOf(vecs[TypeOf(a)])

EntryOf(vec, slice, name) == FirstIn(vec, slice, LAMBDA e : e.process = name)

\* Mutant: a process that is not found is taken for the first entry.
PositionOrFirst(a) ==
    LET pos == EntryOf(vecs[TypeOf(a)], Searched(a), calls[a].name)
    IN  IF pos = 0 /\ vecs[TypeOf(a)].entries # << >> THEN 1 ELSE pos

Position(a) == EntryOf(vecs[TypeOf(a)], Searched(a), calls[a].name)

\* The search leaves the live elements of the list, and may find a copy of an
\* entry that was removed, moved or is in the buffer that was freed.
Strays(a) == RunsPast(vecs[TypeOf(a)], Searched(a), Position(a))

LockRules(a) ==
    LET t == TypeOf(a)
    IN  /\ calls[a].pc = "lock" /\ CanAcquireExclusive(locks[t], a)
        /\ locks' = [locks EXCEPT ![t] = AcquireExclusive(@, a)]
        /\ calls' = [calls EXCEPT ![a].pc = "update", ![a].pos = Position(a)]
        /\ corrupt' = (corrupt \/ Strays(a))
        /\ UNCHANGED <<keys, vecs, searches, ops>>

Updated(call, vec) ==
    CASE call.op = "set"         -> AddFile(vec, call.pos, call.name, call.path)
      [] call.op = "deleteValue" -> RemoveFile(vec, call.pos, call.path)
      [] call.op = "deleteKey"   -> ClearRules(vec, call.pos)
      [] call.op = "rename"      -> RenameRules(vec, call.pos, call.target)

\* A write through such a copy frees or moves texts that a live entry shares with
\* it, its name or its paths: the entry then reads otherwise.
NameOverwritten(vec) ==
    {[vec EXCEPT !.entries[i].process = name] : i \in DOMAIN vec.entries, name \in Names}

PathsOverwritten(vec, i) ==
    {[vec EXCEPT !.entries[i].paths = paths] :
        paths \in [DOMAIN vec.entries[i].paths -> Paths]}

Damaged(vec) ==
    {vec} \union NameOverwritten(vec)
          \union UNION {PathsOverwritten(vec, i) : i \in DOMAIN vec.entries}

Outcomes(a) ==
    IF Strays(a) THEN Damaged(vecs[TypeOf(a)]) ELSE {Updated(calls[a], vecs[TypeOf(a)])}

Finish(a) ==
    /\ locks' = [locks EXCEPT ![TypeOf(a)] = Release(@, a)]
    /\ calls' = [calls EXCEPT ![a] = NoCall]
    /\ UNCHANGED <<keys, searches, ops, corrupt>>

UpdateRules(a) ==
    /\ calls[a].pc = "update"
    /\ \E vec \in Outcomes(a) : vecs' = [vecs EXCEPT ![TypeOf(a)] = vec]
    /\ Finish(a)

\* A callback that fails early, for the path or for memory, changes nothing.
FailCallback(a) ==
    /\ Faults /\ calls[a].pc = "post"
    /\ calls' = [calls EXCEPT ![a] = NoCall]
    /\ UNCHANGED <<keys, vecs, locks, searches, ops, corrupt>>

\* try_push fails under the lock.
FailUpdate(a) ==
    /\ Faults /\ calls[a].pc = "update" /\ calls[a].op = "set"
    /\ UNCHANGED vecs
    /\ Finish(a)

----------------------------------------------------------------------------
(* search_rule_action.                                                     *)

StartSearch(f, proc, file) ==
    /\ searches[f].pc = "idle"
    /\ searches' = [searches EXCEPT ![f] =
         [NoSearch EXCEPT !.pc = "lookup", !.proc = proc, !.file = file,
                          !.slice = SliceOf(vecs["Deny"])]]
    /\ UNCHANGED <<keys, vecs, locks, calls, ops, corrupt>>

MatchOf(vec, slice, proc) ==
    FirstIn(vec, slice, LAMBDA e : <<proc, e.process>> \in NameMatches)

\* A search that runs past its vector may find anything.
LookupProcess(f) ==
    LET s == searches[f]
        t == s.type
        pos == MatchOf(vecs[t], s.slice, s.proc)
        wild == RunsPast(vecs[t], s.slice, pos)
    IN  /\ s.pc = "lookup" /\ CanAcquireShared(locks[t], f)
        /\ locks' = [locks EXCEPT ![t] = AcquireShared(@, f)]
        /\ \E found \in IF wild THEN 0 .. Len(vecs[t].entries) ELSE {pos} :
             searches' = [searches EXCEPT ![f].pc = "scan", ![f].pos = found]
        /\ corrupt' = (corrupt \/ wild)
        /\ UNCHANGED <<keys, vecs, calls, ops>>

PathListed(vec, pos, file) ==
    /\ pos \in DOMAIN vec.entries
    /\ \E i \in DOMAIN vec.entries[pos].paths :
         <<file, vec.entries[pos].paths[i]>> \in PathMatches

\* Mutant: only the deny list is searched.
AfterScanDenyOnly(s) ==
    [s EXCEPT !.pc = "idle", !.slice = NoSlice, !.pos = 0,
              !.verdict = IF PathListed(vecs[s.type], s.pos, s.file)
                          THEN s.type ELSE "Bypass"]

\* Mutant: a hit in either list is a denial.
AfterScanDeny(s) ==
    CASE PathListed(vecs[s.type], s.pos, s.file) ->
           [s EXCEPT !.pc = "idle", !.slice = NoSlice, !.pos = 0, !.verdict = "Deny"]
      [] OTHER ->
           IF s.type = "Deny"
           THEN [s EXCEPT !.pc = "lookup", !.type = "ReadOnly", !.pos = 0,
                          !.slice = SliceOf(vecs["ReadOnly"])]
           ELSE [s EXCEPT !.pc = "idle", !.slice = NoSlice, !.pos = 0,
                          !.verdict = "Bypass"]

AfterScan(s) ==
    CASE PathListed(vecs[s.type], s.pos, s.file) ->
           [s EXCEPT !.pc = "idle", !.slice = NoSlice, !.pos = 0, !.verdict = s.type]
      [] OTHER ->
           IF s.type = "Deny"
           THEN [s EXCEPT !.pc = "lookup", !.type = "ReadOnly", !.pos = 0,
                          !.slice = SliceOf(vecs["ReadOnly"])]
           ELSE [s EXCEPT !.pc = "idle", !.slice = NoSlice, !.pos = 0,
                          !.verdict = "Bypass"]

ScanPaths(f) ==
    /\ searches[f].pc = "scan"
    /\ locks' = [locks EXCEPT ![searches[f].type] = Release(@, f)]
    /\ searches' = [searches EXCEPT ![f] = AfterScan(@)]
    /\ UNCHANGED <<keys, vecs, calls, ops, corrupt>>

----------------------------------------------------------------------------
Operate(a) ==
    \E k \in Keys :
        \/ \E v \in Values : SetValue(a, k, v) \/ DeleteValue(a, k, v)
        \/ DeleteKey(a, k)
        \/ \E new \in Names : PreRenameKey(a, k, new)

Callback(a) ==
    \/ RenameKey(a) \/ PostCallback(a) \/ LockRules(a) \/ UpdateRules(a)
    \/ FailCallback(a) \/ FailUpdate(a)

SearchStep(f) ==
    \/ \E proc \in Procs, file \in Files : StartSearch(f, proc, file)
    \/ LookupProcess(f) \/ ScanPaths(f)

Next ==
    \/ \E k \in Keys, folder \in Folders, name \in Names : CreateKey(k, folder, name)
    \/ \E a \in Admins : Operate(a) \/ Callback(a)
    \/ \E f \in Filters : SearchStep(f)

Spec == Init /\ [][Next]_vars

(***************************************************************************)
(* A callback and a search, once begun, run on.  Strong fairness because   *)
(* of the waits for a lock: readers come and go, but ERESOURCE queues the  *)
(* waiters, so every wait ends.                                            *)
(***************************************************************************)
Fairness ==
    /\ \A a \in Admins : SF_vars(Callback(a))
    /\ \A f \in Filters : SF_vars(LookupProcess(f) \/ ScanPaths(f))

FairSpec == Spec /\ Fairness

----------------------------------------------------------------------------
(* Properties.                                                             *)

Slice == [buffer : Nat, len : Nat]

Key == [state : {"absent", "live", "deleted"}, folder : Folders \union {"none"},
        name : Names \union {NoName}, values : SUBSET Values]

Entry == [process : Names, paths : Seq(Paths)]
Vec == [entries : Seq(Entry), capacity : Nat, buffer : Nat]

Call == [pc : {"idle", "rename", "post", "lock", "update"},
         op : Operations \union {"none"}, key : Keys \union {NoKey},
         name : Names \union {NoName}, target : Names \union {NoName},
         path : Paths \union {NoPath}, slice : Slice, pos : Nat]

Search == [pc : {"idle", "lookup", "scan"}, type : RuleTypes,
           proc : Procs \union {NoName}, file : Files \union {NoPath},
           slice : Slice, pos : Nat, verdict : RuleTypes \union {"none", "Bypass"}]

TypeOK ==
    /\ keys \in [Keys -> Key]
    /\ vecs \in [RuleTypes -> Vec]
    /\ locks \in [RuleTypes -> Lock(Threads)]
    /\ calls \in [Admins -> Call]
    /\ searches \in [Filters -> Search]
    /\ ops \in 0 .. MaxOps
    /\ corrupt \in BOOLEAN

Quiet == ~corrupt /\ \A a \in Admins : calls[a].pc = "idle"

\* The value of the key stands for a rule on this path.
Asks(k, name, path) ==
    /\ Live(k) /\ keys[k].name = name
    /\ \E v \in keys[k].values : Prepared[v] = path

\* The entry a search for exactly this name finds lists the path.
Listed(type, name, path) ==
    LET pos == EntryOf(vecs[type], SliceOf(vecs[type]), name)
    IN  pos # 0 /\ path \in Range(vecs[type].entries[pos].paths)

\* With no callback pending, the path of every value of every live rule key is
\* in the entry of its process: no update of the registry was lost on the way
\* through the callbacks (registry_manager.rs, rules_manager.rs set_key_value_rule).
NoLostRule ==
    Quiet => \A k \in Keys, p \in Paths :
        keys[k].folder \in RuleTypes /\ Asks(k, keys[k].name, p)
            => Listed(keys[k].folder, keys[k].name, p)

\* With no callback pending, every path in the store is still asked for by a
\* value of a live key: deleting or renaming left nothing behind
\* (delete_key_rules, delete_key_value_rule, rename_key_rules).
NoGhostRule ==
    Quiet => \A t \in RuleTypes : \A i \in DOMAIN vecs[t].entries :
        LET e == vecs[t].entries[i]
        IN  \A p \in Range(e.paths) :
              \E k \in Keys : keys[k].folder = t /\ Asks(k, e.process, p)

\* A process has one entry in a list.  All searches stop at the first entry,
\* so the paths of a second one would be dead (search_rule_impl, find).
UniqueEntries ==
    ~corrupt => \A t \in RuleTypes : \A i, j \in DOMAIN vecs[t].entries :
        vecs[t].entries[i].process = vecs[t].entries[j].process => i = j

\* When a callback updates the entry it found, the entry is still where the
\* search under the exclusive lock found it (the *_impl functions use the
\* position, or a reference, after the search).
UpdateIsCurrent ==
    \A a \in Admins : ~corrupt /\ calls[a].pc = "update" =>
        calls[a].pos = Position(a)

\* When a search scans the paths of the entry it found, that entry is still
\* the first that matches: nobody changed the list since (search_rule_impl).
ScanIsCurrent ==
    \A f \in Filters : ~corrupt /\ searches[f].pc = "scan" =>
        searches[f].pos =
            MatchOf(vecs[searches[f].type], searches[f].slice, searches[f].proc)

\* No search and no callback follows a slice past the elements of its vector.
NoStaleSlice == ~corrupt

\* The lists alone, as the abstract specification sees them.
Lists == [t \in RuleTypes |-> vecs[t].entries]

Abstract == INSTANCE RuleLists WITH lists <- Lists, broken <- corrupt

\* Callbacks that find their entry in one step and update it in another, on a
\* list that others work on and searches read, implement whole updates of the
\* first entry of a name, one after the other, until a slice that is out of date
\* is followed past the list (the *_impl functions and their locks).
ListsChangeWhole == Abstract!Spec

\* Every registry operation returns: its callback gets the lock and ends
\* (registry_callback runs in the thread of the operation).
CallbackCompletes == \A a \in Admins : calls[a].pc # "idle" ~> calls[a].pc = "idle"

\* Every search reaches a verdict, whatever the administrators do.
SearchCompletes == \A f \in Filters : searches[f].pc # "idle" ~> searches[f].pc = "idle"
====
