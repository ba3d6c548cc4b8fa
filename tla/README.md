# A TLA+ model of the filesystem filter driver

The driver is a Windows minifilter written in Rust: it denies or restricts file
operations of chosen processes.  Its rules are registry keys and values.  This
directory holds TLA+ modules for its components, TLC configurations that check
them on small instances, and TLAPS proofs of what should hold on every instance.
Paths such as `rules_manager.rs` are relative to `src/src/`.

## 1. Inventory

| Component | State | Operations | What makes it correct |
|---|---|---|---|
| Rules manager (`rules_manager.rs`) | two lists of entries (process name, file paths), each with a lock | load at start; add a path, remove a path, clear a process, rename a process; search both lists | the lists mirror the registry; a search's verdict follows the rules there are; a list changes only under its lock |
| Registry manager (`registry_manager.rs`) | the cookie of the registration | post handlers for set value, delete value, delete key, rename key; a pre handler that keeps the old path of a rename | each registry change reaches the right list and entry once |
| Process manager (`process_manager.rs`, `process.rs`) | map from pid to a shared info (name, parent pid), and its lock | get or add a process, get or add its parent, exit notification | an entry is about the present user of the pid; a parent link leads to the parent or is cut |
| Minifilter (`minifilter.rs`, `flt_utils.rs`) | the filter handle | pre-create, pre-set-information (rename) | an operation passes only with effects the rules allow, and is refused only for a rule |
| Driver (`driver.rs`, `lib.rs`) | the four components, each an `Option` | init, deinit, unload | no callback runs without the managers it needs; nothing is left registered |
| Resource lock (`kernel_objects/flt_resource.rs`) | a kernel ERESOURCE | acquire shared, acquire exclusive, release by destructor | one writer or many readers; an owner may acquire again |
| Registry access (`registry.rs`) | a key handle | open, create, enumerate by index, full path of a key object | what is there throughout is enumerated; the enumeration ends |
| Paths and strings (`path_utils.rs`, `string_utils.rs`, text functions of `rules_manager.rs` and `process.rs`) | none | DOS path to NT path; comparison, matching, cutting; parsing of key paths | a text means the files, the process and the rule type it names, and no neighbour |
| Wrappers (`kernel_objects/`, `utils.rs`, `err_map/`, `log_utils.rs`, `constants.rs`) | none, or one handle | allocation, release, error conversion, logging | - |

How they interact.  The system calls three kinds of callback, each in the thread
of the operation it is about, so any number at once:

- a **registry operation** calls the registry manager, which calls the rules
  manager; the callback of a finished operation runs after it, unordered against
  the callbacks of other operations;
- a **file operation** calls the minifilter, which asks the process manager for
  the requestor and later for its parent, and the rules manager for an action for
  each of them;
- a **process exit** calls the process manager in the exiting process.

The managers are global and are reached through `instance_mut`, a mutable
reference for every thread; only the resource locks order what the threads do.
The driver's own thread creates the components in one order and drops them in the
reverse order, with the callbacks coming and going meanwhile.  Between creating the
rules manager and registering the registry callback it reads the rules from the
registry, key by key, while others may change it unseen.

The hard parts: lists changed and searched concurrently, with slices taken before
the lock; two lists searched one after the other; callbacks applied out of order;
rules read one name at a time from a registry that changes; texts cut at fixed
lengths; a process table filled on demand while processes exit and pids are used
again; nested acquisition of a lock; failures half way through; initialisation and
unloading with callbacks in progress.  `PROJECT.json` lists them line by line
under "hazards", with the properties that cover each.

## 2. Modules

| Module | Models | Uses |
|---|---|---|
| `FltResource` | the lock, as operators on a lock value | - |
| `RuleStore` | one rule list: a vector with capacity and buffer generation, slices, the four updates | - |
| `RuleLists` | abstract: two lists that change by whole updates, without locks or slices | - |
| `RulesManager` | the two lists, registry callbacks, searches; implements `RuleLists` | `FltResource`, `RuleStore`, `RuleLists` |
| `RulesSearch` | `RulesManager` with a witness of the rules that stood during each search | `RulesManager` |
| `RulesFaults` | `RulesManager` with the processes that failed callbacks harmed | `RulesManager` |
| `RulesLoading` | `RulesManager::init`: the load from the registry, up to the registration | `RuleStore` |
| `RulePaths` | key paths, rule paths, images and new names, character by character | - |
| `ProcessManager` | the process table, the requests of file operations, exits, reuse of pids | `FltResource` |
| `Minifilter` | the decision on opens and renames, and the effect of what passes | - |
| `DriverLifecycle` | init, deinit, unload, registration | - |
| `RuleStoreProofs` | lemmas on what the updates make of any list (types, entries by name, how often an entry has a path), which the proofs of the store and of the load rest on | `RuleStore` |
| `RulesManagerProofs` | theorems: locks, positions, the refinement of `RuleLists`; the store mirrors the registry | `RulesManager`, `RuleStoreProofs` |
| `RulesSearchProofs` | theorems: verdicts have rules, standing rules apply | `RulesSearch`, `RulesManagerProofs` |
| `RulePathsProofs` | theorems: the texts mean what they say | `RulePaths` |
| `RulesLoadingProofs` | theorems: what a load leaves in the lists | `RulesLoading`, `RuleStoreProofs` |
| `ProcessManagerProofs`, `MinifilterProofs`, `DriverLifecycleProofs` | theorems | their module |
| `MC...` | instances for TLC | their module |

### RulesManager

`vecs[t]` is `deny_rules` or `readonly_rules`, `locks[t]` its lock.  `keys` is the
registry, external: key objects that are created, get values, are renamed and are
deleted.  `calls[a]` is the registry operation thread `a` is in.  Its steps:

| Action | Code |
|---|---|
| `SetValue`, `DeleteValue`, `DeleteKey` | the operation itself, done when its post callback begins |
| `PreRenameKey`, `RenameKey` | `pre_rename_key` keeps the path; the rename; a failed one ends in `post_rename_key` |
| `PostCallback` | `registry_callback_impl` and the handler up to the update: the key's path, `is_protection_key`, `parse_protection_rule_key`, `prepare_rule_file_path`, and for two updates the slice of the list |
| `LockRules` | `acquire_exclusive` and the search for the entry |
| `UpdateRules` | the change of the entry or the list, and the release |
| `FailCallback`, `FailUpdate` | an error before the lock; `try_push` failing under it |
| `StartSearch`, `LookupProcess`, `ScanPaths` | `search_rule_action`: the slice; `acquire_shared` and `find`; the scan of the entry's paths, the release, and the next list or the verdict |

A key's path is resolved when the callback looks, not when the operation was made
(`ResolvedName`), except for a rename.  A Rust slice is a pointer and a length.  A
vector therefore has a buffer generation that a growing push advances, and `RunsPast`
says when a search of a slice leaves the live elements.  What happens then is
undefined in the code, and `corrupt` records it: a search may find any entry or none.  An
update may find the copy of an entry that was removed, moved, or is in the buffer that was
freed (`Strays`).  The copy has the same heap addresses as the entry itself, so that
the write through it may leave a live entry with another name or other paths, or nothing may
come of it (`Damaged`).  The other properties are stated for states where this has not
happened.  Names and paths are values that are equal when `equals_no_case` holds;
`mathes_no_case` and the folder postfix are given as the relations `NameMatches` and
`PathMatches`, `prepare_rule_file_path` as the function `Prepared`, which may map two
spellings to one path or fail.

### RuleLists

Two variables, the lists and whether their promise is `broken`.  An update is one step: it
works on the entry that comes first under the name, adding an entry when `AddFile` finds none.
`RulesManager!Lists` forgets capacities, buffers, locks and callbacks; under it `UpdateRules` is
one of the four updates and every other action a stutter.  The promise breaks when a slice
is followed past its list (`broken` is `corrupt`), and from then on the lists may be anything;
`rules_stale_slice` shows that the code gets there.

### RulesFaults

`harmed` has the processes for which the store may differ from the registry: those that a failed
callback was about, and those a later rename carries their entries to.  The callback that fails
is `FailCallback` or `FailUpdate` of `RulesManager`, late, and unordered against the others as
there; nothing undoes the registry operation.

### RulesLoading

`reg` is the registry below the rules key, external: whether the key is there, its
subkeys, theirs, and the values, each a sequence in the order of the enumeration
indices, in which a new name may come anywhere.  `loader` is the driver's thread in
`init_rules`; `loader.pc` says what it does next:

| `pc` | Action | Code |
|---|---|---|
| `prepare`, `create` | `CreateRoot`, `CreateRuleType` | `prepare_registry_keys`, one key per step |
| `create` | `OpenRoot` | `root_rules_key.open` |
| `types`, `procs`, `values` | `Enumerate`, one call per step | `enumerate_names_by_index`; the index is the number of names found |
| | `EndTypes`, `EndProcs`, `EndValues` | `STATUS_NO_MORE_ENTRIES`, and what `init_rules` does with the names |
| | `EnumerateDeleted` | the key of the open handle was deleted |
| `type`, `proc` | `OpenType`, `OpenProc` | opening the next subkey by its name |
| `proc` | `AssignRules` | `self.deny_rules = rules` |
| `type` | `InitDone` | the end of `init_rules` |
| `loaded` | `RegisterCallback` | `RegistryManager::init` |

`Failed` is `RulesManager::init`: one status counts as success.  `loader.type` and
`loader.key` are the names of the keys behind the open handles, which follow a
rename; `lost` are the handles whose key was deleted.  `Change` is a registry operation of
which nobody hears; rule-type keys are made, renamed and deleted as well.  The drive of some values
can be unmapped and mapped again.  The module ends at the registration, where the callbacks
of `RulesManager` begin.  `history` serves the properties: rules that stood all through the
load, rules that stood at some time of it, kinds of change during it, and whether there was a change between
its end and the registration.

### RulePaths

Texts are sequences of characters; the model cuts, compares and matches them as the
code does.  One value of one key is set (`SetValue`: `is_protection_key`,
`prepare_rule_file_path`, `parse_protection_rule_key`), then one open or rename is
judged against the entry, if any.  The properties speak of sequences of names instead
(`IsRuleKey`, `NamesProcess`, `Means`), which is how an administrator thinks of keys and files, so
each is a comparison of two definitions made apart.  A rename has its new name in one of three
forms: with a drive, as an object name with a drive (`Rename` has these two), or without a drive, in
the directory of the file or in the `RootDirectory` of the request (`RenameRelative`).  The last
one fails the conversion, and the callback lets the rename pass unjudged, whatever rule covers the file it names.  External are the
wildcard match, upper case, and the links of drives.  `SpellingAssumption` says what a spelling
may be: names are not empty and have no separator, but for an empty last name, which is
the path of a root directory; the path of a device is one or more names without wildcards; upper
case makes no letter a separator, a wildcard or a colon.

Rules may have wildcards anywhere, as the documentation has it.  What a rule means exactly, both
what it decides and what it leaves alone, is stated for rules without them but a `*` at the start of the
process (`Exact`).  For all rules `WildcardsApply` says that they decide at least what they
spell name by name (`Fits`).  The converse would not be true: the code matches whole paths, so a `*`
goes on over separators, and `\a*` covers the file `b` in the folder `a` too.

### ProcessManager

`os` is the system, external: a process starts under a parent, exits (its
notification runs in the exiting process), can be looked up for as long as something
refers to it (`Visible`, as `PsLookupProcessByProcessId` has it), and releases its pid.  A serial number tells the users of a pid
apart; in the table it stands for the name.  A request goes through `ProcessInfo`,
`FromPid`, `AddProcess` for itself, may be decided by its own rules (`DecideOwn`), and
then takes the lock exclusively in `GetParent` around the same three steps for the
parent.  `shared` says that the request holds the map's own `Arc`, in which case the
child's parent pid is what the map says at that time.  The fields `parent`, `timely` and
`late` of an entry are for the properties: the parent's serial number, whether the entry was
in the map before its parent exited, and whether it was read after the notification of its own process.
A late entry is one that
nobody removes, so that it names the next user of the pid.

### Minifilter

The rules are a table of which of the two lists has a rule, and `ChangeRule` is whatever
the rule store does meanwhile.  A search is a step per list, `SearchDeny` and
`SearchReadOnly`, since each list has a lock of its own (what happens inside one is
`RulesSearch`).  A rule moved from the read-only to the deny list between the two steps is
in neither when it is looked for, so that `WasFree` has a moment for each list, not one
for both: with one for both, `RuledFilesUntouched` does not hold.  In the store it is the same: no single rule
stood throughout such a search, and `StandingRuleApplies` says nothing of it.
`op.checks` are the searches still to make: own rules before the parent's, the old name
of a rename before the new one.  `Perform` is the file system: `Affected` says what
an operation that passed may change, with the disposition the callback left in it.
`op.seen` collects, for the properties, which list had a rule and which had none at some
moment of the operation.
Access sets are rights asked for explicitly; the right to whatever is allowed
(MAXIMUM_ALLOWED), whose meaning depends on the file's own access list, is not
modelled, nor are information classes other than rename, which the callback leaves
alone.  How a new name becomes a path is in `RulePaths`.

### DriverLifecycle

`InitPlan` and `DeinitPlan` are the steps of `init` and `deinit`.  Any step that can
fail may fail, and `driver_entry` then calls `deinit`.  `Uses` says which managers each
callback reaches through `instance_mut(..).expect`, or through its context pointer.

## 3. What the runs check

| Run | Distinct states | Shows |
|---|---|---|
| `rules_mirrored` | 4,832,260 | two administrators on keys of their own names and a search: with no callback pending the store mirrors the registry exactly (`NoLostRule`, `NoGhostRule`), one entry per name (`UniqueEntries`), and a callback updates the entry where it found it (`UpdateIsCurrent`); the search follows every rule that stood throughout it, and its verdict has a rule (`StandingRuleApplies`, `VerdictHasRule`) |
| `rules_locks` | 197,918 | two administrators, a search, callbacks that may fail at every point: the entry a search found under a lock is the first match until its paths are scanned (`ScanIsCurrent`); the lists change as `RuleLists` says, until a slice is followed past its list (`ListsChangeWhole`); only the processes a failed callback was about are out of step (`FailureIsContained`); every callback and search ends (`CallbackCompletes`, `SearchCompletes`) |
| `rules_loaded` | 2,016,900 | loading while the registry and a drive change, with failures: what is loaded was there (`LoadedWasThere`), what stood is loaded unless something was removed (`StandingIsLoaded`), entries are single unless something was added (`LoadedOnce`), a load without changes leaves the lists as the registry has them (`LoadIsExact`), and the load ends unless the changes never do (`LoadEnds`) |
| `rule_texts` | 245,701 | every key, value, image, file and new name of a small alphabet: only keys of the rules key make rules, with one exception (`OnlyRuleKeysCount`); a rule without wildcards decides exactly the opens and renames it names (`RuleMeansWhatItSays`, `RenameIsJudgedByItsTarget`), one with wildcards at least those it spells (`WildcardsApply`) |
| `processes` | 201,120 | but for entries read after an exit notification, entries are about the present user of a pid, own names are right, and a parent linked in time is the parent; entries are never replaced, an `Arc` shared with the map stays the map's; no request or notification waits for ever |
| `lifecycle` | 574 | every failure point, unload, three threads: no callback without its managers, nothing left behind, deinit ends |
| `callbacks` | 9,260,744 | every content of the two lists, two rule changes, parent exit or failed lookup: what passes leaves ruled files alone and opens no denied one, what is refused had a rule |
| `rules_overwrite` | - | **violation**: a value set twice and deleted once leaves its rule in the store |
| `rules_concurrent` | - | **violation**: a key deleted and made again; the late callback removes the new key's rules |
| `rules_stale_slice` | - | **violation**: the slice taken before the lock is searched after the list changed |
| `rules_unloaded` | - | **violation**: one value on a missing drive ends the load, and init reports success without the other rules |
| `rule_sibling` | - | **violation**: a key beside the rules key whose name continues its name makes rules |

The five violations are disagreements of the code with its documentation; the lines
are quoted under "findings" in `PROJECT.json`.  Each positive run states the condition
under which the property does hold: `rules_mirrored` excludes setting a value again
(`Overwrites`), two administrators on one name (`Territory`) and patterns
(`NameMatches`: the search stops at the first entry that matches, so a pattern inserted before an exact name hides it),
and its `StandingRuleApplies` is about one rule in one list; `rules_locks` excludes the first two, which do harm without any failure; the
properties of `rules_loaded` name the kinds of change they exclude, those between the load and the
registration among them, of which nobody ever hears.  `EntryIsCurrent`, `OwnNameUnlessLate` and
`TimelyParentIsGenuine` exclude `late` entries, the last one also
children first looked up after their parent exited, which are linked to whatever process
uses the parent's pid then.  `OnlyRuleKeysCount` names its
exception, which `rule_sibling` shows: the prefix test asks for no separator, so a key `Rules?Deny` beside `Rules`, with
any character in the place of `?` and a value in it, passes for a key of a process of its own name.
`RenameIsJudgedByItsTarget` is about the two forms with a drive that is mapped.

**Bounds.**  `MaxOps` (registry operations), `MaxStarts` (processes started) and
`MaxChanges` (rule changes) are the only caps on behaviour.  `rules_mirrored` has two keys,
three names, the two rule types and three values, two of which prepare to one path and
one to none, and five operations: enough to create, fill, empty, rename, delete and
re-create a key with another thread in between, and for an entry before the one searched
for to go and another to come.  `rules_locks` has capacity 1, so that the second push
already reallocates, and three operations on two keys: the third one can follow a stale
slice into a list with a live entry, be made on what a failure left, or carry that to another
name.
`rules_loaded` starts from no rules
key, from two processes of one type with up to two values, and from a type the driver
does not know; three changes delete a key, make it again and fill it under the loader,
or move one name before and one behind the index.  `rule_texts` has keys below, at, above and beside
the rules key, names of which one continues another, files in, at and beside a
folder, two drives of which one device name continues the other's, and names with a wildcard
in them and of nothing else, in keys and in values.  Four starts with three
pids (one the root's) give a parent, a child, a second use of a pid and one more.  Three
threads in `lifecycle` put one in each kind of callback.  `callbacks` has two files, so that a
rename has a source and a target, and starts from every content of the lists; two changes
move a rule from one list to the other, between the steps of a search or around them.

**Deadlock** is checked where the system never stops; the rules runs reach `MaxOps` with
no search to make, a load and a judgement end, and so does the driver's life, so those say
`CHECK_DEADLOCK FALSE`.  In `rules_locks`, `processes` and `callbacks` there is always a
next step.

**Fairness.**  A thread that is in a callback runs on; nothing obliges anyone to begin an
operation.  Steps that wait for a lock get strong fairness, since readers may come and
go and the lock is not continuously free; ERESOURCE queues its waiters, so each gets its
turn.  The loader gets weak fairness: it is one thread that waits for nothing.  `LoadEnds`
is a promise for administrators who stop some day, and says so: one who adds a name for every name
that is read keeps the enumeration going, which the code does nothing about.  That the changes of
the run are counted adds nothing to it.  The
driver's own steps and the return of a callback get weak fairness: once
possible they stay possible.

**Assumed of the system** (external definitions): unregistering a callback waits for the
calls in progress; a process does not finish exiting under one of its own file
operations; the exit notification comes once, before the pid is used again; names of
live keys of one folder are unique, and a deleted key holds no values; reading a process's name and parent sees one process,
because it is referenced; a handle follows its key through a rename and fails once the
key is deleted; only a key without subkeys can be deleted.

## 4. What is proved

For every value of the constants that satisfies the named assumptions of the modules.

*RulesManagerProofs.*  `TypeCorrect`, `UpdatesAreCurrent`, `ScansAreCurrent`,
`ListsAreRefined`.  That a list does not change between a thread's search and its use of
the result is not inductive: it rests on mutual exclusion.  The inductive invariant `Inv`
adds `LockOK` (the owners and readers of a lock are exactly the threads between
acquisition and release, and a writer is alone), `KeyOK` and `CallOK` (a callback past its
early returns has a list, a name and a path, and a position within the list).  Each action
has a lemma; the lemmas about the updates (`AddFileType` and so on) are in
*RuleStoreProofs*, for any sets of names and paths.  `ListsAreRefined` is
`Spec => ListsChangeWhole`, the refinement, initial states to initial states and each
action to a whole update, a stutter, or, from the moment a slice is followed past its list,
the broken promise.  The position a callback holds has to be that of
the first entry with its name in the list as it is when it is updated, and 0 when it adds
an entry only if there is none; and a callback that strayed has broken the promise before it
writes.  `ListInv` says so.

The second part of the module is about the registry.  `EntriesAreUnique`, `NoRuleIsLost`, `NoRuleIsAGhost`: the store mirrors
the registry whenever no callback is pending (and no search has read outside its slice).  All three assume `Apart` (no name is in two
administrators' territories; `rules_concurrent` shows what happens otherwise) and `~Faults` (a
callback that fails leaves the store behind for good); the last one also assumes `~Overwrites`
(`rules_overwrite` shows why).  The first two hold when values are set again, which no run
checks: every push adds a path and one deletion removes one, so an overwritten value leaves
too much, never too little.

The invariant `MirrorInv` has to say how far a store is behind the registry.  The `Source` of
an entry is the key with a pending callback about its name, be that key deleted or renamed
already, and otherwise the live key of that name.  `AccountsOK` counts: an entry has a path
as many times as values of its source prepare to it, less one if a set is `Pending`, plus one
if a deletion is.  `BackedOK` gives every entry its source, `Single` makes it the only one of its name, and
`ReachOK` lets a callback that took its slice before it had the lock still find it: entries move
only to the front, and only this administrator adds one of this name.  `FreshOK` covers the hand-over
of a name: a key created or renamed to a name whose callback is pending has no values
until that callback is done.  The lemmas come in two parts, the registry and the calls
(`RegistryInv`), then the store, one per action and, for `UpdateRules`, one per kind of
update.  The invariant was model-checked on the instance of `rules_mirrored` without its search,
with and without values set again, before it was proved.

*RulesSearchProofs.*  `VerdictsHaveRules`, `StandingRulesApply`.  The entry is found in one step and its path in the
next; that both are about one entry is `ScanIsCurrent`, proved from the locks.  So the
list in which the last step finds the file rules at that step, and the witness of a
search that is over does not change.

`StandingRulesApply` is about the other direction, and needs `MirrorInv` and its assumptions,
and `OneName`: no process has rules under two names, as by a pattern, whose entry would
hide another.  `OwesRules` is what a running search has to keep: a list that ruled all the time still
has the rule, the deny list was not passed over if it is such a list, and the matching entry
is within the slice the search took before it had the lock (`InReach`).  An update cannot move
the entry out of reach, since it moves entries only to the front and adds one only for a name
that has none; a second entry cannot hide it, since entries are unique.

*RulesLoadingProofs.*  `TypeCorrect`, `LoadsWereThere`, `ProcessesAreLoadedOnce`,
`StandingRulesAreLoaded`, `LoadsAreExact`, for registries that are `WellFormed` at the start: siblings
differ in name, and only keys that exist hold values.  `Inv` says what the loader
holds at each depth of the walk (`StageOK`), that the history of what stood always and what stood ever encloses the registry
(`LedgerOK`), that its handles are of the keys it asked for unless keys were renamed (`NamedOK`), and that
every name and value found so far stood at some moment (`ThereOK`).  An administrator moves names
under the index, and `StandingRulesAreLoaded` and `ProcessesAreLoadedOnce` rest on which way.  What adds moves the
rest to later indices, so what stands and is not found yet stays ahead of the loader
(`StandingOK`); what removes moves it to earlier ones, so nothing found
comes again (`OnceOK`).  `Effects` sums up the administrators' actions as such
insertions and removals (`Grown`, `Shrunk`), so that the loader's lemmas need not know them one by one.

`LoadsAreExact` is about a complete load under which nothing changed but what the loader makes itself.
`SiblingsOK` is `WellFormed` for the present registry.  `CopyOK` follows such a load: what was found
is the beginning of the level that is read, and the entries made so far are those of the first
keys, path by path, so that at the end each list is the registry's.

*RulePathsProofs.*  `TypeCorrect`, `OnlyRuleKeysMakeRules`, `RulesMeanWhatTheySay`,
`RenamesAreJudgedByTheirTarget`, `WildcardsAreApplied`, for keys, values, images and files of any number of names of any length.  The
invariant `StoredIsAsked` is simple (the entry is what `set_key_value_rule` makes of the value that
was set, and the verdict is its verdict); the work is in the two sides of each equivalence, one
about characters and one about names.  `Laid(F, to, f)` ties them together: the names `f` are in the text
`F`, the n-th one behind the separator at `to[n - 1] + 1`.  A path that occurs in another, case
aside, brings its separators to separators (`SeparatorsMeet`), so an occurrence that ends where a
name ends is a sequence of whole names (`OccurrenceIsWhole`), and the other way round
(`NamesOccur`).  That is what keeps `\Work` from covering `\Workshop` in `CoversTheMeant`, and what
`KeyMakesRule` uses for keys.  The expressions of a rule without wildcards have stars at
their ends only; `StarsMatch` says that such a match is an occurrence at one place of the text, at the start
without the first star and at the end without the last.  `DosPath` is the conversion of both forms
of a name, `Prepared` what is stored of a value.  For rules with wildcards the match itself is followed:
the lengths a name's own expression reaches in the name are reached, from where the name begins, by the same
characters inside the expression of the path (`ReachedInside`), so the names are passed one after the
other (`NamesReached`), from the start or from wherever a leading star ends (`FitReached`).

These proofs are inductions, over the names of a path or the characters of an expression.  The
induction theorems of the library cannot be instantiated here, since they take an operator; `Induction`
gets the same from well-foundedness, by taking the least number outside a set.  The
model defines the text of a path and the wildcard match as recursive functions;
`UptoExists` and `ReachedExists` show that the functions exist, which is what allows to unfold them.

*MinifilterProofs.*  `TypeCorrect`, `RuledFilesStay`, `DeniedStaysClosed`,
`DenialsHaveRules`.  The invariant says what a running callback has learnt: every target it
has yet to search is in `checks`, every other one was found without a rule in each list at
some moment, the parent's come last, and between the two steps of a search the deny list
lacked a rule.

*ProcessManagerProofs.*  `TypeCorrect`, `EntriesAreCurrent`, `OwnNamesUnlessLate`,
`TimelyParentsAreGenuine`, `SharedEntriesStay`, `EntriesStay`, from no assumption on how long an exited process can
be looked up.  The invariant is about the gap between reading a process
and inserting it: at the own level the requestor is pinned by its own operation; at the
parent level the lock, which `LockOK` says is held, keeps the notification out, so that what was read
before the notification is in the map before it too.  An entry read later is `late`, and
nothing is said of it.

*DriverLifecycleProofs.*  `TypeCorrect`, `ManagersAlwaysPresent`, `NothingStaysBehind`.  The
invariant `UsesHeld` extends `ManagersPresent` from the callbacks that run to those that
may be called, and adds that the component which will unregister a callback is there;
`PlanFollowed` says what each phase has created or dropped.

Only model-checked: `FailureIsContained` of `RulesFaults`, which needs the accounts of `MirrorInv` with
failures, and liveness, that is `CallbackCompletes`, `SearchCompletes`, `LoadEnds`,
`RequestCompletes`, `NotificationCompletes` and `DeinitCompletes`.  Proofs under fairness need
ENABLED, which is beyond the prover.

## 5. What is not modelled

- The signs `<`, `>` and `"` in rules: the wildcard match takes them for wildcards of DOS names.  No
  file has them in its name, and `WildcardAssumption` leaves them out of texts.
- The bits of `CreateOptions`, and the layout of the buffers the system fills.
- The growth of the buffer of an enumeration: the call is repeated until the name fits.
- Overflow of the 16-bit lengths of texts: `try_from` turns it into an error, which is one of the
  failures of a callback.
- What a process does after a search ran outside its list: memory is not modelled.
- A rule-type key that is renamed after the registration: the callback ignores it (`rules_manager.rs:597`), and
  the lists keep the rules under the old type.  `RulesManager` has no operations on type keys.
- A drive that goes after the load: a deletion of its value then fails early, as any callback may.
- Handles, object attributes, the logger, error conversion, `DriverEntry`'s logging setup:
  no state that threads share.

## 6. Plan

Done: the store, its callbacks and searches; the load; the texts; the process table; the
lifecycle; the callbacks; the abstract lists and the refinement; failed callbacks; and a proof of every safety
property of the passing runs except `FailureIsContained`.  Next, in this order:

1. **A proof of `FailureIsContained`**: `MirrorInv` for the names that are not harmed.
2. **Composition.**  `Minifilter` with the searches of `RulesSearch` in place of its table, so that
   `RuledFilesUntouched` is about the rules in the registry.
3. **Several administrators on one name** whose callbacks come in the order of their operations:
   the mirror without `Apart`, under an order that the system does not promise.
