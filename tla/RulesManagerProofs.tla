---- MODULE RulesManagerProofs ----
(***************************************************************************)
(* Proofs about RulesManager, for any number of administrators, filters,   *)
(* keys, names, values and paths.                                          *)
(*                                                                         *)
(* First what holds with failing callbacks, too.  UpdateIsCurrent and      *)
(* ScanIsCurrent are not inductive by themselves: that nobody changes a    *)
(* list between the search of a thread and its use rests on the locks.     *)
(* Inv says which threads each lock holds, and that a callback past its    *)
(* early returns has a list and the arguments for it.                      *)
(*                                                                         *)
(* Then the store mirrors the registry, provided that no two               *)
(* administrators work on keys of one name (Apart) and that no callback    *)
(* fails.  The store is behind the registry by the callbacks that are      *)
(* pending, and MirrorInv says how far: an entry lists the paths of the    *)
(* values of one key, its Source, as many times as values prepare to them, *)
(* but for the one path of a value whose callback is still to come.  The   *)
(* source of a name is the key with a pending callback about that name, be *)
(* it deleted or renamed already, and otherwise the live key of that name. *)
(***************************************************************************)
EXTENDS RulesManager, RuleStoreProofs

\* What a search of a slice for a name returns: 0, or the position of an
\* element of the vector.
LEMMA EntryOfBounds ==
    ASSUME NEW vec \in Vec, NEW slice \in Slice, NEW name
    PROVE  EntryOf(vec, slice, name) \in 0 .. Len(vec.entries)
<1> DEFINE n == Len(vec.entries)
           Hits(m) == {i \in 1 .. m : vec.entries[i].process = name}
           First(m) == IF Hits(m) # {} THEN Min(Hits(m)) ELSE 0
<1>1. n \in Nat /\ slice.len \in Nat
  BY DEF Vec, Slice
<1>2. EntryOf(vec, slice, name) = IF slice.len <= n THEN First(slice.len) ELSE First(n)
  BY Zenon DEF EntryOf, FirstIn, SelectInSubSeq
<1>3. \A m \in Nat : First(m) \in 0 .. m
  <2> SUFFICES ASSUME NEW m \in Nat PROVE First(m) \in 0 .. m
    OBVIOUS
  <2>1. Hits(m) \in SUBSET (1 .. m)
    OBVIOUS
  <2> HIDE DEF Hits
  <2> QED  BY <2>1, FirstBounds
<1> HIDE DEF First, n
<1>4. First(slice.len) \in 0 .. slice.len /\ First(n) \in 0 .. n
  BY <1>1, <1>3
<1> QED  BY <1>1, <1>2, <1>4 DEF n

\* What a search of a slice for a match of a process returns: 0, or the position of an
\* element of the vector.
LEMMA MatchOfBounds ==
    ASSUME NEW vec \in Vec, NEW slice \in Slice, NEW proc
    PROVE  MatchOf(vec, slice, proc) \in 0 .. Len(vec.entries)
<1> DEFINE n == Len(vec.entries)
           Hits(m) == {i \in 1 .. m : <<proc, vec.entries[i].process>> \in NameMatches}
           First(m) == IF Hits(m) # {} THEN Min(Hits(m)) ELSE 0
<1>1. n \in Nat /\ slice.len \in Nat
  BY DEF Vec, Slice
<1>2. MatchOf(vec, slice, proc) = IF slice.len <= n THEN First(slice.len) ELSE First(n)
  BY Zenon DEF MatchOf, FirstIn, SelectInSubSeq
<1>3. \A m \in Nat : First(m) \in 0 .. m
  <2> SUFFICES ASSUME NEW m \in Nat PROVE First(m) \in 0 .. m
    OBVIOUS
  <2>1. Hits(m) \in SUBSET (1 .. m)
    OBVIOUS
  <2> HIDE DEF Hits
  <2> QED  BY <2>1, FirstBounds
<1> HIDE DEF First, n
<1>4. First(slice.len) \in 0 .. slice.len /\ First(n) \in 0 .. n
  BY <1>1, <1>3
<1> QED  BY <1>1, <1>2, <1>4 DEF n

----------------------------------------------------------------------------
\* What a callback that has found its place does to the vector.
LEMMA UpdatedType ==
    ASSUME NEW vec \in Vec, NEW call \in Call, call.op \in Operations,
           call.pos \in 0 .. Len(vec.entries), call.name \in Names,
           call.op = "set" => call.path \in Paths,
           call.op = "rename" => call.target \in Names
    PROVE  Updated(call, vec) \in Vec
<1>1. CASE call.op = "set"
  BY <1>1, AddFileType DEF Updated, Vec, Entry, Vectors, Entries
<1>2. CASE call.op = "deleteValue"
  BY <1>2, RemoveFileType DEF Updated, Vec, Entry, Vectors, Entries
<1>3. CASE call.op = "deleteKey"
  BY <1>3, ClearRulesType DEF Updated, Vec, Entry, Vectors, Entries
<1>4. CASE call.op = "rename"
  BY <1>4, RenameRulesType DEF Updated, Vec, Entry, Vectors, Entries
<1> QED  BY <1>1, <1>2, <1>3, <1>4 DEF Operations

----------------------------------------------------------------------------
(* The invariant.                                                          *)

\* Every key that was ever created has a folder and a name.
KeyOK(key) == key.state # "absent" => key.folder \in Folders /\ key.name \in Names

\* A call in progress works on a created key.  Once it has gone past the
\* early returns of the post callback it knows its list and its arguments,
\* and once it has the lock its position is one of the list.
CallOK(call) ==
    call.pc # "idle" =>
        /\ call.key \in Keys /\ keys[call.key].state # "absent"
        /\ call.op \in Operations /\ (call.pc = "rename" => call.op = "rename")
        /\ call.op = "rename" => call.name \in Names /\ call.target \in Names
        /\ call.pc \in {"lock", "update"} =>
             /\ keys[call.key].folder \in RuleTypes
             /\ call.name \in Names
             /\ call.op = "set" => call.path \in Paths
        /\ call.pc = "update" =>
             call.pos \in 0 .. Len(vecs[keys[call.key].folder].entries)

\* The threads that are between the acquisition and the release of a lock.
Writers(t) == {a \in Admins : calls[a].pc = "update" /\ TypeOf(a) = t}
Scanners(t) == {f \in Filters : searches[f].pc = "scan" /\ searches[f].type = t}

\* A lock knows who is inside, and lets in one writer or any readers.
LockOK(t) ==
    /\ locks[t].owners = Writers(t) /\ locks[t].readers = Scanners(t)
    /\ \A a, b \in Writers(t) : a = b
    /\ Writers(t) # {} => Scanners(t) = {} /\ locks[t].depth = 1
    /\ Writers(t) = {} => locks[t].depth = 0

Inv ==
    /\ TypeOK
    /\ \A k \in Keys : KeyOK(keys[k])
    /\ \A a \in Admins : CallOK(calls[a])
    /\ \A t \in RuleTypes : LockOK(t)
    /\ UpdateIsCurrent
    /\ ScanIsCurrent

\* The empty store, with no callback and no search, satisfies the invariant.
LEMMA InitInv == Init => Inv
<1> SUFFICES ASSUME Init PROVE Inv
  OBVIOUS
<1>1. TypeOK
  <2>1. keys \in [Keys -> Key]
    BY DEF Init, Absent, Key
  <2>2. vecs \in [RuleTypes -> Vec]
    BY DEF Init, EmptyVec, Vec
  <2>3. locks \in [RuleTypes -> Lock(Threads)]
    BY DEF Init, Unlocked, Lock
  <2>4. calls \in [Admins -> Call]
    BY DEF Init, NoCall, NoSlice, Call, Slice
  <2>5. searches \in [Filters -> Search]
    BY DEF Init, NoSearch, NoSlice, Search, Slice, RuleTypes
  <2>6. MaxOps \in Nat
    BY RulesManagerAssumption
  <2>7. ops \in 0 .. MaxOps
    BY <2>6 DEF Init
  <2>8. corrupt \in BOOLEAN
    BY DEF Init
  <2> QED  BY <2>1, <2>2, <2>3, <2>4, <2>5, <2>7, <2>8 DEF TypeOK
<1>2. \A k \in Keys : KeyOK(keys[k])
  BY DEF Init, Absent, KeyOK
<1>3. \A a \in Admins : calls[a].pc = "idle"
  BY DEF Init, NoCall
<1>4. \A f \in Filters : searches[f].pc = "idle"
  BY DEF Init, NoSearch
<1>5. \A a \in Admins : CallOK(calls[a])
  BY <1>3 DEF CallOK
<1>6. \A t \in RuleTypes : LockOK(t)
  <2> SUFFICES ASSUME NEW t \in RuleTypes PROVE LockOK(t)
    OBVIOUS
  <2>1. Writers(t) = {} /\ Scanners(t) = {}
    BY <1>3, <1>4 DEF Writers, Scanners
  <2> QED  BY <2>1 DEF Init, Unlocked, LockOK
<1>7. UpdateIsCurrent /\ ScanIsCurrent
  BY <1>3, <1>4 DEF UpdateIsCurrent, ScanIsCurrent
<1> QED  BY <1>1, <1>2, <1>5, <1>6, <1>7 DEF Inv

\* A step outside the locks: one administrator's call, outside a lock before
\* and after, may move on, keys may change but keep their folders, and filters
\* may start to search.
LEMMA OutsideLocks ==
    ASSUME Inv, TypeOK', UNCHANGED <<vecs, locks, corrupt>>,
           \A k \in Keys : KeyOK(keys[k])',
           \A k \in Keys : keys[k].state # "absent" =>
               keys'[k].state # "absent" /\ keys'[k].folder = keys[k].folder,
           \A a \in Admins : calls'[a] # calls[a] =>
               calls[a].pc # "update" /\ calls'[a].pc # "update" /\ CallOK(calls[a])',
           \A f \in Filters : searches'[f] # searches[f] =>
               searches[f].pc # "scan" /\ searches'[f].pc # "scan"
    PROVE  Inv'
<1>1. \A a \in Admins : calls[a].pc # "idle" =>
          TypeOf(a)' = TypeOf(a) \/ calls'[a] # calls[a]
  BY DEF Inv, CallOK, TypeOf
<1>2. \A a \in Admins : CallOK(calls[a])'
  <2> SUFFICES ASSUME NEW a \in Admins, calls'[a] = calls[a] PROVE CallOK(calls[a])'
    OBVIOUS
  <2>1. CallOK(calls[a])
    BY DEF Inv
  <2> QED  BY <2>1 DEF CallOK
<1>3. \A t \in RuleTypes : Writers(t)' = Writers(t) /\ Scanners(t)' = Scanners(t)
  BY <1>1 DEF Writers, Scanners
<1>4. \A t \in RuleTypes : LockOK(t)'
  BY <1>3 DEF Inv, LockOK
<1>5. UpdateIsCurrent'
  <2> SUFFICES ASSUME NEW a \in Admins, ~corrupt, calls'[a].pc = "update"
               PROVE  calls'[a].pos = Position(a)'
    BY DEF UpdateIsCurrent
  <2>1. calls'[a] = calls[a] /\ TypeOf(a)' = TypeOf(a)
    BY <1>1
  <2>2. calls[a].pos = Position(a)
    BY <2>1 DEF Inv, UpdateIsCurrent
  <2>3. Searched(a)' = Searched(a)
    BY <2>1 DEF Searched
  <2> QED  BY <2>1, <2>2, <2>3 DEF Position
<1>6. ScanIsCurrent'
  BY DEF Inv, ScanIsCurrent
<1> QED  BY <1>2, <1>4, <1>5, <1>6 DEF Inv

----------------------------------------------------------------------------
(* The steps.  First those outside the locks.                              *)

\* A created key is in no callback yet.
LEMMA CreateKeyInv ==
    ASSUME Inv, NEW k \in Keys, NEW folder \in Folders, NEW name \in Names,
           CreateKey(k, folder, name)
    PROVE  Inv'
<1>1. keys' \in [Keys -> Key]
  BY DEF Inv, TypeOK, CreateKey, Key
<1>2. TypeOK'
  BY <1>1 DEF Inv, TypeOK, CreateKey
<1>3. \A j \in Keys : KeyOK(keys[j])'
  BY DEF Inv, TypeOK, KeyOK, CreateKey
<1> QED  BY <1>2, <1>3, OutsideLocks DEF Inv, TypeOK, CreateKey

\* The operations that call Begin, whose effect on the keys they share.
LEMMA BeginInv ==
    ASSUME Inv, NEW a \in Admins, NEW k \in Keys, NEW call \in Call,
           MayOperate(a, k), Begin(a, call), keys' \in [Keys -> Key],
           \A j \in Keys : keys[j].state # "absent" =>
               /\ keys'[j].state # "absent"
               /\ keys'[j].folder = keys[j].folder /\ keys'[j].name = keys[j].name,
           \A j \in Keys : keys[j].state = "absent" => keys'[j].state = "absent",
           call.pc \in {"post", "rename"}, call.key = k, call.op \in Operations,
           call.pc = "rename" => call.op = "rename",
           call.op = "rename" => call.name \in Names /\ call.target \in Names
    PROVE  Inv'
<1>1. calls' \in [Admins -> Call] /\ \A b \in Admins : calls'[b] # calls[b] => b = a
  BY DEF Inv, TypeOK, Begin
<1>2. ops' \in 0 .. MaxOps
  BY RulesManagerAssumption DEF Inv, TypeOK, Begin, MayOperate
<1>3. TypeOK'
  BY <1>1, <1>2 DEF Inv, TypeOK, Begin
<1>4. \A j \in Keys : KeyOK(keys[j])'
  BY DEF Inv, KeyOK
<1>5. calls[a].pc = "idle" /\ calls'[a] = call
  BY DEF MayOperate, Begin, Inv, TypeOK
<1>6. CallOK(calls[a])'
  BY <1>5 DEF CallOK, MayOperate, Live
<1> QED  BY <1>1, <1>3, <1>4, <1>5, <1>6, OutsideLocks DEF Begin

\* A path that a value stands for, or none.
LEMMA PreparedType == \A v \in Values : Prepared[v] \in Paths \union {NoPath}
BY DEF Paths

\* The operation begins its callback with the value's path.
LEMMA SetValueInv ==
    ASSUME Inv, NEW a \in Admins, NEW k \in Keys, NEW v \in Values, SetValue(a, k, v)
    PROVE  Inv'
<1> DEFINE call == [NoCall EXCEPT !.pc = "post", !.op = "set", !.key = k,
                                  !.path = Prepared[v]]
<1>1. call \in Call
  BY PreparedType DEF NoCall, NoSlice, Call, Slice, Operations
<1>2. call.pc = "post" /\ call.key = k /\ call.op = "set"
  BY DEF NoCall
<1>3. MayOperate(a, k) /\ Begin(a, call)
  BY DEF SetValue
<1>4. keys' \in [Keys -> Key]
  BY DEF Inv, TypeOK, SetValue, Key
<1>5. \A j \in Keys : keys'[j].state = keys[j].state
                      /\ keys'[j].folder = keys[j].folder /\ keys'[j].name = keys[j].name
  BY DEF Inv, TypeOK, SetValue, Key
<1> HIDE DEF call
<1> QED  BY <1>1, <1>2, <1>3, <1>4, <1>5, BeginInv DEF Operations

\* The operation begins its callback with the value's path.
LEMMA DeleteValueInv ==
    ASSUME Inv, NEW a \in Admins, NEW k \in Keys, NEW v \in Values, DeleteValue(a, k, v)
    PROVE  Inv'
<1> DEFINE call == [NoCall EXCEPT !.pc = "post", !.op = "deleteValue", !.key = k,
                                  !.path = Prepared[v]]
<1>1. call \in Call
  BY PreparedType DEF NoCall, NoSlice, Call, Slice, Operations
<1>2. call.pc = "post" /\ call.key = k /\ call.op = "deleteValue"
  BY DEF NoCall
<1>3. MayOperate(a, k) /\ Begin(a, call)
  BY DEF DeleteValue
<1>4. keys' \in [Keys -> Key]
  BY DEF Inv, TypeOK, DeleteValue, Key
<1>5. \A j \in Keys : keys'[j].state = keys[j].state
                      /\ keys'[j].folder = keys[j].folder /\ keys'[j].name = keys[j].name
  BY DEF Inv, TypeOK, DeleteValue, Key
<1> HIDE DEF call
<1> QED  BY <1>1, <1>2, <1>3, <1>4, <1>5, BeginInv DEF Operations

\* The operation begins its callback; the key keeps its folder and name.
LEMMA DeleteKeyInv ==
    ASSUME Inv, NEW a \in Admins, NEW k \in Keys, DeleteKey(a, k)
    PROVE  Inv'
<1> DEFINE call == [NoCall EXCEPT !.pc = "post", !.op = "deleteKey", !.key = k]
<1>1. call \in Call
  BY DEF NoCall, NoSlice, Call, Slice, Operations
<1>2. call.pc = "post" /\ call.key = k /\ call.op = "deleteKey"
  BY DEF NoCall
<1>3. MayOperate(a, k) /\ Begin(a, call)
  BY DEF DeleteKey
<1>4. keys' \in [Keys -> Key]
  BY DEF Inv, TypeOK, DeleteKey, Key
<1>5. \A j \in Keys : /\ keys'[j].state = IF j = k THEN "deleted" ELSE keys[j].state
                      /\ keys'[j].folder = keys[j].folder /\ keys'[j].name = keys[j].name
  BY DEF Inv, TypeOK, DeleteKey, Key
<1>6. keys[k].state = "live"
  BY <1>3 DEF MayOperate, Live
<1> HIDE DEF call
<1> QED  BY <1>1, <1>2, <1>3, <1>4, <1>5, <1>6, BeginInv DEF Operations

\* The rename keeps the present name for its callback.
LEMMA PreRenameKeyInv ==
    ASSUME Inv, NEW a \in Admins, NEW k \in Keys, NEW new \in Names,
           PreRenameKey(a, k, new)
    PROVE  Inv'
<1> DEFINE call == [NoCall EXCEPT !.pc = "rename", !.op = "rename", !.key = k,
                                  !.name = keys[k].name, !.target = new]
<1>1. keys[k].name \in Names
  BY DEF PreRenameKey, MayOperate, Live, Inv, KeyOK
<1>2. call \in Call
  BY <1>1 DEF NoCall, NoSlice, Call, Slice, Operations
<1>3. /\ call.pc = "rename" /\ call.key = k /\ call.op = "rename"
      /\ call.name = keys[k].name /\ call.target = new
  BY DEF NoCall
<1>4. MayOperate(a, k) /\ Begin(a, call) /\ keys' = keys
  BY DEF PreRenameKey
<1>5. keys' \in [Keys -> Key]
  BY <1>4 DEF Inv, TypeOK
<1> HIDE DEF call
<1> QED  BY <1>1, <1>2, <1>3, <1>4, <1>5, BeginInv DEF Operations

\* The key has its new name, or the callback ends.
LEMMA RenameKeyInv ==
    ASSUME Inv, NEW a \in Admins, RenameKey(a)
    PROVE  Inv'
<1> DEFINE k == calls[a].key
           new == calls[a].target
<1>1. k \in Keys /\ keys[k].state # "absent" /\ calls[a].op \in Operations
      /\ (calls[a].op = "rename" => calls[a].name \in Names /\ new \in Names)
  BY DEF Inv, CallOK, RenameKey
<1>2. new \in Names \union {NoName}
  BY DEF Inv, TypeOK, Call
<1>3. CASE keys' = keys /\ calls' = [calls EXCEPT ![a] = NoCall]
  <2>1. TypeOK'
    BY <1>3 DEF Inv, TypeOK, RenameKey, NoCall, NoSlice, Call, Slice
  <2>2. \A b \in Admins : calls'[b] # calls[b] => b = a
    BY <1>3 DEF Inv, TypeOK
  <2>3. calls'[a].pc = "idle"
    BY <1>3 DEF Inv, TypeOK, NoCall
  <2> QED
    BY <1>3, <2>1, <2>2, <2>3, OutsideLocks DEF RenameKey, Inv, KeyOK, CallOK
<1>4. CASE keys' = [keys EXCEPT ![k].name = new] /\ calls' = [calls EXCEPT ![a].pc = "post"]
           /\ calls[a].op = "rename"
  <2>1. keys' \in [Keys -> Key]
    BY <1>1, <1>2, <1>4 DEF Inv, TypeOK, Key
  <2>8. calls' \in [Admins -> Call]
    BY <1>4 DEF Inv, TypeOK, Call
  <2>2. TypeOK'
    BY <2>1, <2>8 DEF Inv, TypeOK, RenameKey
  <2>3. \A j \in Keys : /\ keys'[j].state = keys[j].state /\ keys'[j].folder = keys[j].folder
                        /\ keys'[j].name = IF j = k THEN new ELSE keys[j].name
    BY <1>4 DEF Inv, TypeOK, Key
  <2>4. \A j \in Keys : KeyOK(keys[j])'
    BY <1>1, <1>4, <2>3 DEF Inv, KeyOK
  <2>5. \A b \in Admins : calls'[b] # calls[b] => b = a
    BY <1>4 DEF Inv, TypeOK
  <2>6. calls'[a].pc = "post" /\ calls'[a].op = calls[a].op /\ calls'[a].key = k
        /\ calls'[a].name = calls[a].name /\ calls'[a].target = new
    BY <1>4 DEF Inv, TypeOK, Call
  <2>7. CallOK(calls[a])'
    BY <1>1, <2>3, <2>6 DEF CallOK
  <2> QED
    BY <2>2, <2>3, <2>4, <2>5, <2>6, <2>7, OutsideLocks DEF RenameKey
<1>5. calls[a].op = "rename"
  BY DEF RenameKey, Inv, CallOK
<1> QED  BY <1>3, <1>4, <1>5 DEF RenameKey

\* Past its early returns the callback has a list and its arguments.
LEMMA PostCallbackInv ==
    ASSUME Inv, NEW a \in Admins, PostCallback(a)
    PROVE  Inv'
<1>1. CallOK(calls[a]) /\ calls[a].pc = "post" /\ calls[a] \in Call
  BY DEF Inv, TypeOK, PostCallback
<1>2. \A b \in Admins : calls'[b] # calls[b] => b = a
  BY DEF Inv, TypeOK, PostCallback
<1>3. CASE Ignored(a)
  <2>1. calls'[a].pc = "idle"
    BY <1>3 DEF Inv, TypeOK, PostCallback, NoCall
  <2>2. TypeOK'
    BY <1>3 DEF Inv, TypeOK, PostCallback, NoCall, NoSlice, Call, Slice
  <2> QED
    BY <1>1, <1>2, <2>1, <2>2, OutsideLocks DEF PostCallback, Inv, KeyOK, CallOK
<1>4. CASE ~Ignored(a)
  <2>1. /\ calls[a].key \in Keys
        /\ keys[calls[a].key].folder \in RuleTypes
        /\ keys[calls[a].key].name \in Names
    BY <1>1, <1>4 DEF Ignored, CallOK, Inv, KeyOK
  <2>2. ResolvedName(a) \in Names
    BY <1>1, <2>1 DEF ResolvedName, CallOK
  <2>3. TakenSlice(a) \in Slice
    <3>1. vecs[TypeOf(a)] \in Vec
      BY <2>1 DEF Inv, TypeOK, TypeOf
    <3>2. Len(vecs[TypeOf(a)].entries) \in Nat /\ vecs[TypeOf(a)].buffer \in Nat
      BY <3>1 DEF Vec
    <3> QED  BY <3>2 DEF TakenSlice, SliceOf, NoSlice, Slice
  <2>4. calls' = [calls EXCEPT ![a].pc = "lock", ![a].name = ResolvedName(a),
                               ![a].slice = TakenSlice(a)]
    BY <1>4 DEF PostCallback
  <2>5. calls' \in [Admins -> Call]
    BY <1>1, <2>2, <2>3, <2>4 DEF Inv, TypeOK, Call
  <2>6. TypeOK'
    BY <2>5 DEF Inv, TypeOK, PostCallback
  <2>7. /\ calls'[a].pc = "lock" /\ calls'[a].name = ResolvedName(a)
        /\ calls'[a].key = calls[a].key /\ calls'[a].op = calls[a].op
        /\ calls'[a].path = calls[a].path /\ calls'[a].target = calls[a].target
    BY <1>1, <2>4 DEF Inv, TypeOK, Call
  <2>8. calls[a].op = "set" => calls[a].path \in Paths
    BY <1>1, <1>4 DEF Ignored, Call
  <2>9. CallOK(calls[a])'
    BY <1>1, <2>1, <2>2, <2>7, <2>8 DEF CallOK, PostCallback
  <2> QED
    BY <1>1, <1>2, <2>6, <2>7, <2>9, OutsideLocks DEF PostCallback, Inv, KeyOK
<1> QED  BY <1>3, <1>4

\* A callback that fails early holds no lock.
LEMMA FailCallbackInv ==
    ASSUME Inv, NEW a \in Admins, FailCallback(a)
    PROVE  Inv'
<1>1. TypeOK'
  BY DEF Inv, TypeOK, FailCallback, NoCall, NoSlice, Call, Slice
<1>2. \A b \in Admins : calls'[b] # calls[b] => b = a
  BY DEF Inv, TypeOK, FailCallback
<1>3. calls'[a].pc = "idle" /\ calls[a].pc = "post"
  BY DEF Inv, TypeOK, FailCallback, NoCall
<1> QED
  BY <1>1, <1>2, <1>3, OutsideLocks DEF FailCallback, Inv, KeyOK, CallOK

\* A search that begins holds no lock.
LEMMA StartSearchInv ==
    ASSUME Inv, NEW f \in Filters, NEW proc \in Procs, NEW file \in Files,
           StartSearch(f, proc, file)
    PROVE  Inv'
<1> DEFINE slice == SliceOf(vecs["Deny"])
           search == [NoSearch EXCEPT !.pc = "lookup", !.proc = proc, !.file = file,
                                      !.slice = slice]
<1>1. slice \in Slice
  <2>1. vecs["Deny"] \in Vec
    BY DEF Inv, TypeOK, RuleTypes
  <2>2. Len(vecs["Deny"].entries) \in Nat /\ vecs["Deny"].buffer \in Nat
    BY <2>1 DEF Vec
  <2> QED  BY <2>2 DEF SliceOf, Slice
<1>2. search \in Search
  BY <1>1 DEF NoSearch, Search, RuleTypes
<1>3. search.pc = "lookup"
  BY DEF NoSearch
<1>4. searches' = [searches EXCEPT ![f] = search]
  BY DEF StartSearch
<1> HIDE DEF search, slice
<1>5. TypeOK'
  BY <1>2, <1>4 DEF Inv, TypeOK, StartSearch
<1>6. \A g \in Filters : searches'[g] # searches[g] => g = f
  BY <1>4 DEF Inv, TypeOK
<1>7. searches'[f].pc = "lookup" /\ searches[f].pc = "idle"
  BY <1>3, <1>4 DEF Inv, TypeOK, StartSearch
<1> QED
  BY <1>5, <1>6, <1>7, OutsideLocks DEF StartSearch, Inv, KeyOK

----------------------------------------------------------------------------
(* The steps that acquire or release a lock.                               *)

\* The lock is free when it is acquired, and what is found is current.
LEMMA LockRulesInv ==
    ASSUME Inv, NEW a \in Admins, LockRules(a)
    PROVE  Inv'
<1> DEFINE t == TypeOf(a)
           pos == Position(a)
           wild == Strays(a)
<1>1. CallOK(calls[a]) /\ calls[a].pc = "lock" /\ calls[a] \in Call
  BY DEF Inv, TypeOK, LockRules
<1>2. t \in RuleTypes /\ vecs[t] \in Vec /\ locks[t] \in Lock(Threads) /\ LockOK(t)
  BY <1>1 DEF CallOK, TypeOf, Inv, TypeOK
<1>3. Searched(a) \in Slice
  <2>1. Len(vecs[t].entries) \in Nat /\ vecs[t].buffer \in Nat
    BY <1>2 DEF Vec
  <2> QED  BY <1>1, <2>1 DEF Searched, SliceOf, Slice, Call
<1>4. pos \in 0 .. Len(vecs[t].entries)
  BY <1>2, <1>3, EntryOfBounds DEF Position
<1>5. pos \in Nat
  BY <1>4
<1>6. /\ calls' = [calls EXCEPT ![a].pc = "update", ![a].pos = pos]
      /\ locks' = [locks EXCEPT ![t] = AcquireExclusive(@, a)]
      /\ corrupt' = (corrupt \/ wild)
      /\ CanAcquireExclusive(locks[t], a)
      /\ UNCHANGED <<keys, vecs, searches, ops>>
  BY DEF LockRules
<1> HIDE DEF pos, wild
<1>7. /\ calls'[a].pc = "update" /\ calls'[a].pos = pos
      /\ calls'[a].key = calls[a].key /\ calls'[a].op = calls[a].op
      /\ calls'[a].path = calls[a].path /\ calls'[a].target = calls[a].target
      /\ calls'[a].name = calls[a].name /\ calls'[a].slice = calls[a].slice
      /\ \A b \in Admins \ {a} : calls'[b] = calls[b]
  BY <1>1, <1>6 DEF Inv, TypeOK, Call
<1>8. \A b \in Admins : TypeOf(b)' = TypeOf(b)
  BY <1>6, <1>7 DEF TypeOf
<1>9. locks[t].owners = {} /\ locks[t].readers = {} /\ locks[t].depth = 0
  BY <1>1, <1>2, <1>6 DEF CanAcquireExclusive, LockOK, Writers
<1>10. /\ locks'[t].owners = {a} /\ locks'[t].depth = 1 /\ locks'[t].readers = {}
       /\ locks'[t] \in Lock(Threads)
       /\ \A s \in RuleTypes \ {t} : locks'[s] = locks[s]
  <2>1. locks'[t] = AcquireExclusive(locks[t], a)
        /\ \A s \in RuleTypes \ {t} : locks'[s] = locks[s]
    BY <1>2, <1>6 DEF Inv, TypeOK
  <2>2. AcquireExclusive(locks[t], a) = [locks[t] EXCEPT !.owners = {a}, !.depth = 1]
    BY <1>9 DEF AcquireExclusive
  <2>3. {a} \in SUBSET Threads
    BY DEF Threads
  <2>4. LET new == [locks[t] EXCEPT !.owners = {a}, !.depth = 1]
        IN  /\ new.owners = {a} /\ new.depth = 1 /\ new.readers = {}
            /\ new \in Lock(Threads)
    BY <1>2, <1>9, <2>3 DEF Lock
  <2> QED  BY <2>1, <2>2, <2>4
<1>11. TypeOK'
  <2>1. calls' \in [Admins -> Call]
    <3>1. calls'[a] \in Call
      BY <1>1, <1>5, <1>6 DEF Inv, TypeOK, Call
    <3> QED  BY <1>6, <3>1 DEF Inv, TypeOK
  <2>2. locks' \in [RuleTypes -> Lock(Threads)]
    BY <1>6, <1>10 DEF Inv, TypeOK
  <2>3. corrupt' \in BOOLEAN
    BY <1>6 DEF Inv, TypeOK, wild
  <2> QED  BY <1>6, <2>1, <2>2, <2>3 DEF Inv, TypeOK
<1>12. \A k \in Keys : KeyOK(keys[k])'
  BY <1>6 DEF Inv, KeyOK
<1>13. \A b \in Admins : CallOK(calls[b])'
  <2>1. CallOK(calls[a])'
    BY <1>1, <1>4, <1>6, <1>7 DEF CallOK, TypeOf
  <2>2. ASSUME NEW b \in Admins \ {a} PROVE CallOK(calls[b])'
    BY <1>6, <1>7 DEF Inv, CallOK
  <2> QED  BY <2>1, <2>2
<1>14. \A s \in RuleTypes : LockOK(s)'
  <2> SUFFICES ASSUME NEW s \in RuleTypes PROVE LockOK(s)'
    OBVIOUS
  <2>1. Scanners(s)' = Scanners(s)
    BY <1>6 DEF Scanners
  <2>2. CASE s = t
    <3>1. Writers(s) = {} /\ Scanners(s) = {}
      BY <1>2, <1>9, <2>2 DEF LockOK
    <3>2. Writers(s)' = {a}
      BY <1>7, <1>8, <2>2, <3>1 DEF Writers
    <3> QED  BY <1>10, <2>1, <2>2, <3>1, <3>2 DEF LockOK
  <2>3. CASE s # t
    <3>1. Writers(s)' = Writers(s)
      BY <1>1, <1>7, <1>8, <2>3 DEF Writers
    <3> QED  BY <1>10, <2>1, <2>3, <3>1 DEF LockOK, Inv
  <2> QED  BY <2>2, <2>3
<1>15. UpdateIsCurrent'
  <2> SUFFICES ASSUME NEW b \in Admins, ~corrupt', calls'[b].pc = "update"
               PROVE  calls'[b].pos = Position(b)'
    BY DEF UpdateIsCurrent
  <2>1. Position(b)' = Position(b)
    <3>1. /\ calls'[b].op = calls[b].op /\ calls'[b].slice = calls[b].slice
          /\ calls'[b].name = calls[b].name
      BY <1>7
    <3>2. Searched(b)' = Searched(b)
      BY <1>6, <1>8, <3>1 DEF Searched
    <3> QED  BY <1>6, <1>8, <3>1, <3>2 DEF Position
  <2>2. CASE b = a
    BY <1>7, <2>1, <2>2 DEF pos
  <2>3. CASE b # a
    <3>1. calls'[b] = calls[b] /\ ~corrupt
      BY <1>6, <1>7, <2>3
    <3>2. calls[b].pos = Position(b)
      BY <3>1 DEF Inv, UpdateIsCurrent
    <3> QED  BY <2>1, <3>1, <3>2
  <2> QED  BY <2>2, <2>3
<1>16. ScanIsCurrent'
  BY <1>6 DEF Inv, ScanIsCurrent
<1> QED  BY <1>11, <1>12, <1>13, <1>14, <1>15, <1>16 DEF Inv

\* The end of an update, with a vector that is a vector again: the writer was
\* alone inside, so nobody else's position is touched.
LEMMA FinishInv ==
    ASSUME Inv, NEW a \in Admins, calls[a].pc = "update", Finish(a),
           NEW vec \in Vec, vecs' = [vecs EXCEPT ![TypeOf(a)] = vec]
    PROVE  Inv'
<1> DEFINE t == TypeOf(a)
<1>1. CallOK(calls[a]) /\ t \in RuleTypes
  BY DEF Inv, CallOK, TypeOf
<1>2. LockOK(t) /\ a \in Writers(t)
  BY <1>1 DEF Inv, Writers
<1>3. Writers(t) = {a} /\ Scanners(t) = {} /\ locks[t].depth = 1
      /\ locks[t].owners = {a} /\ locks[t].readers = {}
  BY <1>2 DEF LockOK
<1>4. /\ calls'[a].pc = "idle" /\ \A b \in Admins \ {a} : calls'[b] = calls[b]
      /\ UNCHANGED <<keys, searches, ops, corrupt>>
  BY DEF Finish, Inv, TypeOK, NoCall
<1>5. /\ locks'[t].owners = {} /\ locks'[t].depth = 0 /\ locks'[t].readers = {}
      /\ locks'[t] \in Lock(Threads)
      /\ \A s \in RuleTypes \ {t} : locks'[s] = locks[s] /\ vecs'[s] = vecs[s]
  <2>1. /\ locks'[t] = Release(locks[t], a)
        /\ \A s \in RuleTypes \ {t} : locks'[s] = locks[s] /\ vecs'[s] = vecs[s]
    BY <1>1 DEF Finish, Inv, TypeOK
  <2>2. locks[t] \in Lock(Threads)
    BY <1>1 DEF Inv, TypeOK
  <2>3. Release(locks[t], a) = [locks[t] EXCEPT !.owners = {}, !.depth = 0]
    BY <1>3 DEF Release
  <2>4. LET new == [locks[t] EXCEPT !.owners = {}, !.depth = 0]
        IN  /\ new.owners = {} /\ new.depth = 0 /\ new.readers = {}
            /\ new \in Lock(Threads)
    BY <1>3, <2>2 DEF Lock
  <2> QED  BY <2>1, <2>3, <2>4
<1>6. TypeOK'
  <2>1. calls' \in [Admins -> Call]
    BY DEF Finish, Inv, TypeOK, NoCall, NoSlice, Call, Slice
  <2>2. locks' \in [RuleTypes -> Lock(Threads)]
    BY <1>5 DEF Finish, Inv, TypeOK
  <2>3. vecs' \in [RuleTypes -> Vec]
    BY DEF Inv, TypeOK
  <2> QED  BY <1>4, <2>1, <2>2, <2>3 DEF Inv, TypeOK
<1>7. \A k \in Keys : KeyOK(keys[k])'
  BY <1>4 DEF Inv, KeyOK
<1>8. \A b \in Admins \ {a} : calls[b].pc = "update" =>
          TypeOf(b) \in RuleTypes \ {t} /\ vecs'[TypeOf(b)] = vecs[TypeOf(b)]
  <2> SUFFICES ASSUME NEW b \in Admins \ {a}, calls[b].pc = "update"
               PROVE  TypeOf(b) \in RuleTypes \ {t}
    BY <1>5
  <2>1. TypeOf(b) \in RuleTypes
    BY DEF Inv, CallOK, TypeOf
  <2>2. b \notin Writers(t)
    BY <1>3
  <2> QED  BY <2>1, <2>2 DEF Writers
<1>9. \A b \in Admins : CallOK(calls[b])'
  <2>1. CallOK(calls[a])'
    BY <1>4 DEF CallOK
  <2>2. ASSUME NEW b \in Admins \ {a} PROVE CallOK(calls[b])'
    <3>1. CallOK(calls[b])
      BY DEF Inv
    <3> QED  BY <1>4, <1>8, <3>1 DEF CallOK, TypeOf
  <2> QED  BY <2>1, <2>2
<1>10. \A b \in Admins \ {a} : TypeOf(b)' = TypeOf(b)
  BY <1>4 DEF TypeOf
<1>11. \A s \in RuleTypes : LockOK(s)'
  <2> SUFFICES ASSUME NEW s \in RuleTypes PROVE LockOK(s)'
    OBVIOUS
  <2>1. Scanners(s)' = Scanners(s)
    BY <1>4 DEF Scanners
  <2>2. Writers(s)' = Writers(s) \ {a}
    BY <1>4, <1>10 DEF Writers
  <2>3. CASE s = t
    BY <1>3, <1>5, <2>1, <2>2, <2>3 DEF LockOK
  <2>4. CASE s # t
    <3>1. a \notin Writers(s)
      BY <2>4 DEF Writers
    <3> QED  BY <1>5, <2>1, <2>2, <2>4, <3>1 DEF LockOK, Inv
  <2> QED  BY <2>3, <2>4
<1>12. UpdateIsCurrent'
  <2> SUFFICES ASSUME NEW b \in Admins, ~corrupt, calls'[b].pc = "update"
               PROVE  calls'[b].pos = Position(b)'
    BY <1>4 DEF UpdateIsCurrent
  <2>1. b \in Admins \ {a} /\ calls'[b] = calls[b]
    BY <1>4
  <2>2. vecs'[TypeOf(b)] = vecs[TypeOf(b)] /\ TypeOf(b)' = TypeOf(b)
    BY <1>8, <1>10, <2>1
  <2>3. Searched(b)' = Searched(b)
    BY <2>1, <2>2 DEF Searched
  <2>4. calls[b].pos = Position(b)
    BY <2>1 DEF Inv, UpdateIsCurrent
  <2> QED  BY <2>1, <2>2, <2>3, <2>4 DEF Position
<1>13. ScanIsCurrent'
  <2> SUFFICES ASSUME NEW f \in Filters, ~corrupt, searches[f].pc = "scan"
               PROVE  searches[f].pos =
                        MatchOf(vecs'[searches[f].type], searches[f].slice, searches[f].proc)
    BY <1>4 DEF ScanIsCurrent
  <2>1. searches[f].type \in RuleTypes \ {t}
    <3>1. f \notin Scanners(t) /\ searches[f].type \in RuleTypes
      BY <1>3 DEF Inv, TypeOK, Search
    <3> QED  BY <3>1 DEF Scanners
  <2> QED  BY <1>5, <2>1 DEF Inv, ScanIsCurrent
<1> QED  BY <1>6, <1>7, <1>9, <1>11, <1>12, <1>13 DEF Inv

\* A write through a stale copy leaves a vector of entries.
LEMMA DamagedType ==
    ASSUME NEW vec \in Vec
    PROVE  Damaged(vec) \subseteq Vec
<1>1. ASSUME NEW i \in DOMAIN vec.entries, NEW name \in Names
      PROVE  [vec EXCEPT !.entries[i].process = name] \in Vec
  <2>1. vec.entries[i] \in Entry /\ i \in 1 .. Len(vec.entries) /\ vec.entries \in Seq(Entry)
    BY <1>1 DEF Vec
  <2>2. [vec.entries[i] EXCEPT !.process = name] \in Entry
    BY <2>1 DEF Entry
  <2>3. [vec.entries EXCEPT ![i] = [vec.entries[i] EXCEPT !.process = name]] \in Seq(Entry)
    BY <2>1, <2>2
  <2> QED  BY <2>3 DEF Vec
<1>2. ASSUME NEW i \in DOMAIN vec.entries,
             NEW paths \in [DOMAIN vec.entries[i].paths -> Paths]
      PROVE  [vec EXCEPT !.entries[i].paths = paths] \in Vec
  <2>1. vec.entries[i] \in Entry /\ i \in 1 .. Len(vec.entries) /\ vec.entries \in Seq(Entry)
    BY <1>2 DEF Vec
  <2>2. Len(vec.entries[i].paths) \in Nat
        /\ paths \in [1 .. Len(vec.entries[i].paths) -> Paths]
    BY <1>2, <2>1 DEF Entry
  <2>3. paths \in Seq(Paths)
    BY <2>2
  <2>4. [vec.entries[i] EXCEPT !.paths = paths] \in Entry
    BY <2>1, <2>3 DEF Entry
  <2>5. [vec.entries EXCEPT ![i] = [vec.entries[i] EXCEPT !.paths = paths]] \in Seq(Entry)
    BY <2>1, <2>4
  <2> QED  BY <2>5 DEF Vec
<1>3. NameOverwritten(vec) \subseteq Vec
  BY <1>1 DEF NameOverwritten
<1>4. ASSUME NEW i \in DOMAIN vec.entries PROVE PathsOverwritten(vec, i) \subseteq Vec
  BY <1>2 DEF PathsOverwritten
<1> QED  BY <1>3, <1>4 DEF Damaged

\* The update is made by the one owner of the lock, with no reader.
LEMMA UpdateRulesInv ==
    ASSUME Inv, NEW a \in Admins, UpdateRules(a)
    PROVE  Inv'
<1> DEFINE t == TypeOf(a)
<1>1. CallOK(calls[a]) /\ calls[a].pc = "update" /\ calls[a] \in Call
  BY DEF Inv, TypeOK, UpdateRules
<1>2. t \in RuleTypes /\ vecs[t] \in Vec /\ calls[a].pos \in 0 .. Len(vecs[t].entries)
  BY <1>1 DEF CallOK, TypeOf, Inv, TypeOK
<1>3. Updated(calls[a], vecs[t]) \in Vec
  BY <1>1, <1>2, UpdatedType DEF CallOK
<1>4. Damaged(vecs[t]) \subseteq Vec
  BY <1>2, DamagedType
<1>5. PICK vec \in Outcomes(a) : vecs' = [vecs EXCEPT ![t] = vec]
  BY DEF UpdateRules
<1>6. vec \in Vec
  BY <1>3, <1>4 DEF Outcomes
<1> QED  BY <1>1, <1>5, <1>6, FinishInv DEF UpdateRules

\* A failed update leaves the list and releases the lock.
LEMMA FailUpdateInv ==
    ASSUME Inv, NEW a \in Admins, FailUpdate(a)
    PROVE  Inv'
<1> DEFINE t == TypeOf(a)
<1>1. calls[a].pc = "update" /\ Finish(a) /\ vecs' = vecs
  BY DEF FailUpdate
<1>2. t \in RuleTypes /\ vecs[t] \in Vec
  BY <1>1 DEF CallOK, TypeOf, Inv, TypeOK
<1>3. vecs' = [vecs EXCEPT ![t] = vecs[t]]
  BY <1>1, <1>2 DEF Inv, TypeOK
<1> QED  BY <1>1, <1>2, <1>3, FinishInv

\* No callback owns the lock, and what is found is current.
LEMMA LookupProcessInv ==
    ASSUME Inv, NEW f \in Filters, LookupProcess(f)
    PROVE  Inv'
<1> DEFINE s == searches[f]
           t == s.type
           pos == MatchOf(vecs[t], s.slice, s.proc)
           wild == RunsPast(vecs[t], s.slice, pos)
<1>1. t \in RuleTypes /\ s \in Search /\ vecs[t] \in Vec /\ s.pc = "lookup"
  BY DEF Inv, TypeOK, Search, LookupProcess
<1>2. pos \in 0 .. Len(vecs[t].entries)
  BY <1>1, MatchOfBounds DEF Search
<1>3. /\ locks' = [locks EXCEPT ![t] = AcquireShared(@, f)]
      /\ CanAcquireShared(locks[t], f)
      /\ corrupt' = (corrupt \/ wild)
      /\ UNCHANGED <<keys, vecs, calls, ops>>
  BY DEF LookupProcess
<1>4. PICK found \in IF wild THEN 0 .. Len(vecs[t].entries) ELSE {pos} :
          searches' = [searches EXCEPT ![f].pc = "scan", ![f].pos = found]
  BY DEF LookupProcess
<1> HIDE DEF pos, wild
<1>5. found \in Nat /\ (~wild => found = pos)
  <2>1. Len(vecs[t].entries) \in Nat
    BY <1>1 DEF Vec
  <2> QED  BY <1>2, <1>4, <2>1
<1>6. /\ searches'[f].pc = "scan" /\ searches'[f].pos = found
      /\ searches'[f].type = t /\ searches'[f].slice = s.slice /\ searches'[f].proc = s.proc
      /\ \A g \in Filters \ {f} : searches'[g] = searches[g]
  BY <1>1, <1>4 DEF Inv, TypeOK, Search
<1>7. locks[t] \in Lock(Threads) /\ LockOK(t)
  BY <1>1 DEF Inv, TypeOK
<1>8. locks[t].owners = {} /\ Writers(t) = {}
  BY <1>3, <1>7, RulesManagerAssumption DEF CanAcquireShared, LockOK, Writers
<1>9. /\ locks'[t].owners = {} /\ locks'[t].readers = locks[t].readers \union {f}
      /\ locks'[t].depth = locks[t].depth /\ locks'[t] \in Lock(Threads)
      /\ \A u \in RuleTypes \ {t} : locks'[u] = locks[u]
  <2>1. locks'[t] = AcquireShared(locks[t], f)
        /\ \A u \in RuleTypes \ {t} : locks'[u] = locks[u]
    BY <1>1, <1>3 DEF Inv, TypeOK
  <2>2. AcquireShared(locks[t], f) = [locks[t] EXCEPT !.readers = @ \union {f}]
    BY <1>8 DEF AcquireShared
  <2>3. {f} \in SUBSET Threads
    BY DEF Threads
  <2>4. LET new == [locks[t] EXCEPT !.readers = @ \union {f}]
        IN  /\ new.owners = locks[t].owners /\ new.depth = locks[t].depth
            /\ new.readers = locks[t].readers \union {f} /\ new \in Lock(Threads)
    BY <1>7, <2>3 DEF Lock
  <2> QED  BY <1>8, <2>1, <2>2, <2>4
<1>10. TypeOK'
  <2>1. searches' \in [Filters -> Search]
    <3>1. searches'[f] \in Search
      BY <1>1, <1>4, <1>5 DEF Inv, TypeOK, Search
    <3> QED  BY <1>4, <3>1 DEF Inv, TypeOK
  <2>2. locks' \in [RuleTypes -> Lock(Threads)]
    BY <1>3, <1>9 DEF Inv, TypeOK
  <2>3. corrupt' \in BOOLEAN
    BY <1>3
  <2> QED  BY <1>3, <2>1, <2>2, <2>3 DEF Inv, TypeOK
<1>11. \A k \in Keys : KeyOK(keys[k])'
  BY <1>3 DEF Inv, KeyOK
<1>12. \A a \in Admins : CallOK(calls[a])'
  BY <1>3 DEF Inv, CallOK
<1>13. \A u \in RuleTypes : LockOK(u)'
  <2> SUFFICES ASSUME NEW u \in RuleTypes PROVE LockOK(u)'
    OBVIOUS
  <2>1. Writers(u)' = Writers(u)
    BY <1>3 DEF Writers, TypeOf
  <2>2. Scanners(u)' = IF u = t THEN Scanners(u) \union {f} ELSE Scanners(u)
    BY <1>1, <1>6 DEF Scanners
  <2>3. CASE u = t
    BY <1>7, <1>8, <1>9, <2>1, <2>2, <2>3 DEF LockOK
  <2>4. CASE u # t
    BY <1>9, <2>1, <2>2, <2>4 DEF LockOK, Inv
  <2> QED  BY <2>3, <2>4
<1>14. UpdateIsCurrent'
  BY <1>3 DEF Inv, UpdateIsCurrent, Position, TypeOf, Searched
<1>15. ScanIsCurrent'
  <2> SUFFICES ASSUME NEW g \in Filters, ~corrupt', searches'[g].pc = "scan"
               PROVE  (searches[g].pos =
                         MatchOf(vecs[searches[g].type], searches[g].slice, searches[g].proc))'
    BY DEF ScanIsCurrent
  <2>1. CASE g = f
    BY <1>3, <1>5, <1>6, <2>1 DEF pos
  <2>2. CASE g # f
    BY <1>3, <1>6, <2>2 DEF Inv, ScanIsCurrent
  <2> QED  BY <2>1, <2>2
<1> QED  BY <1>10, <1>11, <1>12, <1>13, <1>14, <1>15 DEF Inv

\* A search goes on to the other list or ends, in either case outside a lock.
LEMMA AfterScanType ==
    ASSUME Inv, NEW s \in Search
    PROVE  AfterScan(s) \in Search /\ AfterScan(s).pc # "scan"
<1>1. NoSlice \in Slice
  BY DEF NoSlice, Slice
<1>2. SliceOf(vecs["ReadOnly"]) \in Slice
  <2>1. vecs["ReadOnly"] \in Vec
    BY DEF Inv, TypeOK, RuleTypes
  <2>2. Len(vecs["ReadOnly"].entries) \in Nat /\ vecs["ReadOnly"].buffer \in Nat
    BY <2>1 DEF Vec
  <2> QED  BY <2>2 DEF SliceOf, Slice
<1>3. CASE PathListed(vecs[s.type], s.pos, s.file)
  BY <1>1, <1>3 DEF AfterScan, Search
<1>4. CASE ~PathListed(vecs[s.type], s.pos, s.file) /\ s.type = "Deny"
  BY <1>2, <1>4 DEF AfterScan, Search, RuleTypes
<1>5. CASE ~PathListed(vecs[s.type], s.pos, s.file) /\ s.type # "Deny"
  BY <1>1, <1>5 DEF AfterScan, Search
<1> QED  BY <1>3, <1>4, <1>5

\* The reader releases the lock and goes on to the other list or ends.
LEMMA ScanPathsInv ==
    ASSUME Inv, NEW f \in Filters, ScanPaths(f)
    PROVE  Inv'
<1> DEFINE t == searches[f].type
<1>1. t \in RuleTypes /\ searches[f] \in Search /\ searches[f].pc = "scan"
  BY DEF Inv, TypeOK, Search, ScanPaths
<1>2. locks[t] \in Lock(Threads) /\ LockOK(t) /\ f \in Scanners(t)
  BY <1>1 DEF Inv, TypeOK, Scanners
<1>3. Writers(t) = {} /\ locks[t].owners = {}
  BY <1>2 DEF LockOK
<1>4. /\ locks' = [locks EXCEPT ![t] = Release(@, f)]
      /\ searches' = [searches EXCEPT ![f] = AfterScan(searches[f])]
      /\ UNCHANGED <<keys, vecs, calls, ops, corrupt>>
  BY DEF ScanPaths
<1>5. /\ searches'[f].pc # "scan" /\ searches'[f] \in Search
      /\ \A g \in Filters \ {f} : searches'[g] = searches[g]
  BY <1>1, <1>4, AfterScanType DEF Inv, TypeOK
<1>6. /\ locks'[t].owners = {} /\ locks'[t].readers = locks[t].readers \ {f}
      /\ locks'[t].depth = locks[t].depth /\ locks'[t] \in Lock(Threads)
      /\ \A u \in RuleTypes \ {t} : locks'[u] = locks[u]
  <2>1. locks'[t] = Release(locks[t], f)
        /\ \A u \in RuleTypes \ {t} : locks'[u] = locks[u]
    BY <1>1, <1>4 DEF Inv, TypeOK
  <2>2. Release(locks[t], f) = [locks[t] EXCEPT !.readers = @ \ {f}]
    BY <1>3 DEF Release
  <2>3. LET new == [locks[t] EXCEPT !.readers = @ \ {f}]
        IN  /\ new.owners = locks[t].owners /\ new.depth = locks[t].depth
            /\ new.readers = locks[t].readers \ {f} /\ new \in Lock(Threads)
    BY <1>2 DEF Lock
  <2> QED  BY <1>3, <2>1, <2>2, <2>3
<1>7. TypeOK'
  <2>1. searches' \in [Filters -> Search]
    BY <1>4, <1>5 DEF Inv, TypeOK
  <2>2. locks' \in [RuleTypes -> Lock(Threads)]
    BY <1>4, <1>6 DEF Inv, TypeOK
  <2> QED  BY <1>4, <2>1, <2>2 DEF Inv, TypeOK
<1>8. \A k \in Keys : KeyOK(keys[k])'
  BY <1>4 DEF Inv, KeyOK
<1>9. \A a \in Admins : CallOK(calls[a])'
  BY <1>4 DEF Inv, CallOK
<1>10. \A u \in RuleTypes : LockOK(u)'
  <2> SUFFICES ASSUME NEW u \in RuleTypes PROVE LockOK(u)'
    OBVIOUS
  <2>1. Writers(u)' = Writers(u)
    BY <1>4 DEF Writers, TypeOf
  <2>2. Scanners(u)' = IF u = t THEN Scanners(u) \ {f} ELSE Scanners(u)
    BY <1>1, <1>5 DEF Scanners
  <2>3. CASE u = t
    BY <1>2, <1>3, <1>6, <2>1, <2>2, <2>3 DEF LockOK
  <2>4. CASE u # t
    BY <1>6, <2>1, <2>2, <2>4 DEF LockOK, Inv
  <2> QED  BY <2>3, <2>4
<1>11. UpdateIsCurrent'
  BY <1>4 DEF Inv, UpdateIsCurrent, Position, TypeOf, Searched
<1>12. ScanIsCurrent'
  BY <1>4, <1>5 DEF Inv, ScanIsCurrent
<1> QED  BY <1>7, <1>8, <1>9, <1>10, <1>11, <1>12 DEF Inv

----------------------------------------------------------------------------
\* Inv is inductive.
LEMMA StepInv == Inv /\ [Next]_vars => Inv'
<1> SUFFICES ASSUME Inv, [Next]_vars PROVE Inv'
  OBVIOUS
<1>1. ASSUME NEW k \in Keys, NEW folder \in Folders, NEW name \in Names,
             CreateKey(k, folder, name)
      PROVE  Inv'
  BY <1>1, CreateKeyInv
<1>2. ASSUME NEW a \in Admins, Operate(a) PROVE Inv'
  BY <1>2, SetValueInv, DeleteValueInv, DeleteKeyInv, PreRenameKeyInv DEF Operate
<1>3. ASSUME NEW a \in Admins, Callback(a) PROVE Inv'
  BY <1>3, RenameKeyInv, PostCallbackInv, LockRulesInv, UpdateRulesInv,
     FailCallbackInv, FailUpdateInv DEF Callback
<1>4. ASSUME NEW f \in Filters, SearchStep(f) PROVE Inv'
  BY <1>4, StartSearchInv, LookupProcessInv, ScanPathsInv DEF SearchStep
<1>5. CASE UNCHANGED vars
  <2>1. \A a \in Admins : TypeOf(a)' = TypeOf(a) /\ Searched(a)' = Searched(a)
    BY <1>5 DEF vars, TypeOf, Searched
  <2>2. TypeOK' /\ (\A k \in Keys : KeyOK(keys[k])')
    BY <1>5 DEF vars, Inv, TypeOK, KeyOK
  <2> QED  BY <1>5, <2>2, OutsideLocks DEF vars
<1> QED  BY <1>1, <1>2, <1>3, <1>4, <1>5 DEF Next

\* Inv holds in every state.
LEMMA Invariance == Spec => []Inv
BY InitInv, StepInv, PTL DEF Spec

\* The state of the rule store, its locks and its callers stays within its
\* types: in particular every update leaves lists of entries behind.
THEOREM TypeCorrect == Spec => []TypeOK
<1>1. Inv => TypeOK
  BY DEF Inv
<1> QED  BY <1>1, Invariance, PTL

\* However many administrators and searches there are, the entry a callback
\* updates is the one its search under the exclusive lock found.
THEOREM UpdatesAreCurrent == Spec => []UpdateIsCurrent
<1>1. Inv => UpdateIsCurrent
  BY DEF Inv
<1> QED  BY <1>1, Invariance, PTL

\* However many administrators and searches there are, the entry whose paths a
\* search scans is still the first that matches the requestor.
THEOREM ScansAreCurrent == Spec => []ScanIsCurrent
<1>1. Inv => ScanIsCurrent
  BY DEF Inv
<1> QED  BY <1>1, Invariance, PTL

----------------------------------------------------------------------------
(***************************************************************************)
(* The store implements RuleLists: every change of a list is one whole     *)
(* update, at the first entry of a name, until the promise breaks.         *)
(*                                                                         *)
(* Inv is not enough.  It knows the position of a callback only as the     *)
(* result of a search, and only while no slice was out of date.  ListInv   *)
(* adds what the position means: the entry there is the first of its name, *)
(* no position means no entry when one is about to be added, and a search  *)
(* that left its list has broken the promise.                              *)
(***************************************************************************)

\* Where the call stands in its list, and that it has a path to remove.
Placed(a) ==
    /\ calls[a].pc = "update" /\ calls[a].pos # 0 =>
         Abstract!First(vecs[TypeOf(a)].entries, calls[a].name, calls[a].pos)
    /\ calls[a].pc = "update" /\ calls[a].pos = 0 /\ calls[a].op = "set" =>
         Abstract!Missing(vecs[TypeOf(a)].entries, calls[a].name)
    /\ calls[a].pc \in {"lock", "update"} /\ calls[a].op = "deleteValue" =>
         calls[a].path \in Paths
    /\ calls[a].pc = "update" /\ Strays(a) => corrupt

ListInv == Inv /\ \A a \in Admins : Placed(a)

----------------------------------------------------------------------------
\* What a search for a name finds is the first entry of the name.
LEMMA EntryIsFirst ==
    ASSUME NEW vec \in Vec, NEW slice \in Slice, NEW name,
           EntryOf(vec, slice, name) # 0
    PROVE  Abstract!First(vec.entries, name, EntryOf(vec, slice, name))
<1> DEFINE n == Len(vec.entries)
           Hits(m) == {i \in 1 .. m : vec.entries[i].process = name}
           Found(m) == IF Hits(m) # {} THEN Min(Hits(m)) ELSE 0
<1>1. n \in Nat /\ slice.len \in Nat /\ DOMAIN vec.entries = 1 .. n
  BY DEF Vec, Slice
<1>2. EntryOf(vec, slice, name) = IF slice.len <= n THEN Found(slice.len) ELSE Found(n)
  BY Zenon DEF EntryOf, FirstIn, SelectInSubSeq
<1>3. ASSUME NEW m \in Nat, m <= n, EntryOf(vec, slice, name) = Found(m)
      PROVE  Abstract!First(vec.entries, name, EntryOf(vec, slice, name))
  <2> DEFINE pos == EntryOf(vec, slice, name)
  <2>1. Hits(m) # {} /\ pos = Min(Hits(m))
    BY <1>3, Zenon
  <2>2. Hits(m) \in SUBSET Nat
    OBVIOUS
  <2>3. pos \in Hits(m) /\ \A j \in Hits(m) : pos <= j
    <3> HIDE DEF Hits, pos
    <3> QED  BY <2>1, <2>2, MinOfNats
  <2>4. pos \in 1 .. m /\ vec.entries[pos].process = name
    BY <2>3
  <2>5. ASSUME NEW j \in 1 .. n, vec.entries[j].process = name PROVE pos <= j
    <3>1. CASE j \in 1 .. m
      BY <2>3, <2>5, <3>1
    <3>2. CASE j \notin 1 .. m
      <4> HIDE DEF pos, n
      <4> QED  BY <1>1, <2>4, <3>2
    <3> QED  BY <3>1, <3>2
  <2> HIDE DEF pos, n
  <2>6. pos \in 1 .. n
    BY <1>1, <1>3, <2>4
  <2> QED  BY <1>1, <2>4, <2>5, <2>6 DEF Abstract!First, pos
<1> HIDE DEF Found, n
<1> QED
  <2>1. CASE slice.len <= n
    BY <1>1, <1>2, <1>3, <2>1
  <2>2. CASE ~(slice.len <= n)
    BY <1>1, <1>2, <1>3, <2>2
  <2> QED  BY <2>1, <2>2

\* A search of the whole list that finds nothing: there is no entry of the name.
LEMMA NoEntryIsMissing ==
    ASSUME NEW vec \in Vec, NEW name, EntryOf(vec, SliceOf(vec), name) = 0
    PROVE  Abstract!Missing(vec.entries, name)
<1> DEFINE n == Len(vec.entries)
           Hits == {i \in 1 .. n : vec.entries[i].process = name}
<1>1. n \in Nat /\ DOMAIN vec.entries = 1 .. n /\ SliceOf(vec).len = n
  BY DEF Vec, SliceOf
<1>2. n <= n
  BY <1>1
<1>3. 0 = IF Hits # {} THEN Min(Hits) ELSE 0
  BY <1>1, <1>2, Zenon DEF EntryOf, FirstIn, SelectInSubSeq
<1>4. Hits \in SUBSET Nat /\ 0 \notin Hits
  OBVIOUS
<1>5. Hits = {}
  <2> HIDE DEF Hits
  <2> QED  BY <1>3, <1>4, MinOfNats
<1> QED  BY <1>1, <1>5 DEF Abstract!Missing

----------------------------------------------------------------------------
\* A call that no step touches, on a list that no step touches, stays placed.
LEMMA StaysPlaced ==
    ASSUME ListInv, NEW a \in Admins, calls'[a] = calls[a],
           calls[a].pc \in {"lock", "update"} => TypeOf(a)' = TypeOf(a),
           calls[a].pc = "update" => vecs'[TypeOf(a)] = vecs[TypeOf(a)],
           corrupt => corrupt'
    PROVE  Placed(a)'
<1>1. ASSUME calls[a].pc = "update" PROVE Strays(a)' <=> Strays(a)
  <2>1. TypeOf(a)' = TypeOf(a) /\ vecs'[TypeOf(a)] = vecs[TypeOf(a)]
    BY <1>1
  <2>2. Searched(a)' = Searched(a)
    BY <2>1 DEF Searched
  <2>3. Position(a)' = Position(a)
    BY <2>1, <2>2 DEF Position
  <2> QED  BY <2>1, <2>2, <2>3 DEF Strays
<1> QED  BY <1>1 DEF ListInv, Placed

\* Most steps leave the lists alone, and leave no call past its early returns
\* that was not there before.
LEMMA OutsideStaysPlaced ==
    ASSUME ListInv, UNCHANGED vecs, corrupt => corrupt',
           \A k \in Keys : keys[k].state # "absent" => keys'[k].folder = keys[k].folder,
           \A a \in Admins : calls'[a] = calls[a]
                             \/ calls'[a].pc \in {"idle", "rename", "post"}
    PROVE  \A a \in Admins : Placed(a)'
<1> SUFFICES ASSUME NEW a \in Admins PROVE Placed(a)'
  OBVIOUS
<1>1. CASE calls'[a] = calls[a]
  <2>1. calls[a].pc \in {"lock", "update"} => TypeOf(a)' = TypeOf(a)
    BY <1>1 DEF ListInv, Inv, CallOK, TypeOf
  <2> QED  BY <1>1, <2>1, StaysPlaced
<1>2. CASE calls'[a].pc \in {"idle", "rename", "post"}
  BY <1>2 DEF Placed
<1> QED  BY <1>1, <1>2

\* Registry operations and searches.
LEMMA OperationStaysPlaced ==
    ASSUME ListInv,
           \/ \E k \in Keys, folder \in Folders, name \in Names : CreateKey(k, folder, name)
           \/ \E a \in Admins : Operate(a)
           \/ \E f \in Filters : SearchStep(f)
    PROVE  \A a \in Admins : Placed(a)'
<1>1. ASSUME NEW k \in Keys, NEW folder \in Folders, NEW name \in Names,
             CreateKey(k, folder, name)
      PROVE  \A a \in Admins : Placed(a)'
  BY <1>1, OutsideStaysPlaced DEF CreateKey, ListInv, Inv, TypeOK
<1>2. ASSUME NEW a \in Admins, NEW k \in Keys, NEW call, Begin(a, call),
             call.pc \in {"post", "rename"},
             \A j \in Keys : keys'[j].folder = keys[j].folder
      PROVE  \A b \in Admins : Placed(b)'
  <2>1. UNCHANGED <<vecs, corrupt>>
    BY <1>2 DEF Begin
  <2>2. \A b \in Admins : calls'[b] = calls[b] \/ calls'[b].pc \in {"idle", "rename", "post"}
    BY <1>2 DEF Begin, ListInv, Inv, TypeOK
  <2> QED  BY <1>2, <2>1, <2>2, OutsideStaysPlaced
<1>3. ASSUME NEW a \in Admins, NEW k \in Keys, NEW v \in Values, SetValue(a, k, v)
      PROVE  \A b \in Admins : Placed(b)'
  <2>1. \A j \in Keys : keys'[j].folder = keys[j].folder
    BY <1>3 DEF SetValue, ListInv, Inv, TypeOK, Key
  <2> QED  BY <1>2, <1>3, <2>1 DEF SetValue, NoCall
<1>4. ASSUME NEW a \in Admins, NEW k \in Keys, NEW v \in Values, DeleteValue(a, k, v)
      PROVE  \A b \in Admins : Placed(b)'
  <2>1. \A j \in Keys : keys'[j].folder = keys[j].folder
    BY <1>4 DEF DeleteValue, ListInv, Inv, TypeOK, Key
  <2> QED  BY <1>2, <1>4, <2>1 DEF DeleteValue, NoCall
<1>5. ASSUME NEW a \in Admins, NEW k \in Keys, DeleteKey(a, k)
      PROVE  \A b \in Admins : Placed(b)'
  <2>1. \A j \in Keys : keys'[j].folder = keys[j].folder
    BY <1>5 DEF DeleteKey, ListInv, Inv, TypeOK, Key
  <2> QED  BY <1>2, <1>5, <2>1 DEF DeleteKey, NoCall
<1>6. ASSUME NEW a \in Admins, NEW k \in Keys, NEW new \in Names, PreRenameKey(a, k, new)
      PROVE  \A b \in Admins : Placed(b)'
  BY <1>2, <1>6 DEF PreRenameKey, NoCall
<1>7. ASSUME NEW f \in Filters, SearchStep(f) PROVE \A a \in Admins : Placed(a)'
  <2>1. UNCHANGED <<keys, vecs, calls>>
    BY <1>7 DEF SearchStep, StartSearch, LookupProcess, ScanPaths
  <2>2. corrupt => corrupt'
    BY <1>7 DEF SearchStep, StartSearch, LookupProcess, ScanPaths
  <2> QED  BY <2>1, <2>2, OutsideStaysPlaced
<1> QED  BY <1>1, <1>3, <1>4, <1>5, <1>6, <1>7 DEF Operate

\* The steps of a callback before it has a lock, and those that give up.
LEMMA EarlyStaysPlaced ==
    ASSUME ListInv, NEW a \in Admins, RenameKey(a) \/ FailCallback(a)
    PROVE  \A b \in Admins : Placed(b)'
<1>1. UNCHANGED <<vecs, corrupt>>
  BY DEF RenameKey, FailCallback
<1>2. \A j \in Keys : keys'[j].folder = keys[j].folder
  BY DEF RenameKey, FailCallback, ListInv, Inv, TypeOK, Key
<1>3. \A b \in Admins : calls'[b] = calls[b] \/ calls'[b].pc \in {"idle", "rename", "post"}
  BY DEF RenameKey, FailCallback, NoCall, ListInv, Inv, TypeOK, Call
<1> QED  BY <1>1, <1>2, <1>3, OutsideStaysPlaced

\* Past its early returns, the deletion of a value has a path.
LEMMA PostCallbackPlaces ==
    ASSUME ListInv, NEW a \in Admins, PostCallback(a)
    PROVE  \A b \in Admins : Placed(b)'
<1>1. UNCHANGED <<keys, vecs, corrupt>> /\ calls[a] \in Call /\ calls[a].pc = "post"
      /\ \A b \in Admins \ {a} : calls'[b] = calls[b]
  BY DEF PostCallback, ListInv, Inv, TypeOK
<1>2. \A b \in Admins \ {a} : Placed(b)'
  BY <1>1, StaysPlaced DEF TypeOf
<1>3. Placed(a)'
  <2>1. CASE Ignored(a)
    BY <2>1 DEF PostCallback, NoCall, Placed, ListInv, Inv, TypeOK
  <2>2. CASE ~Ignored(a)
    <3>1. /\ calls'[a].pc = "lock" /\ calls'[a].op = calls[a].op
          /\ calls'[a].path = calls[a].path
      BY <1>1, <2>2 DEF PostCallback, ListInv, Inv, TypeOK, Call
    <3>2. calls[a].op = "deleteValue" => calls[a].path \in Paths
      BY <1>1, <2>2 DEF Ignored, Call
    <3> QED  BY <3>1, <3>2 DEF Placed
  <2> QED  BY <2>1, <2>2
<1> QED  BY <1>2, <1>3

\* The search under the lock finds the first entry of the name, or, for an
\* addition, that there is none; and it is known to have left the list if it has.
LEMMA LockRulesPlaces ==
    ASSUME ListInv, NEW a \in Admins, LockRules(a)
    PROVE  \A b \in Admins : Placed(b)'
<1> DEFINE t == TypeOf(a)
           pos == Position(a)
<1>1. CallOK(calls[a]) /\ calls[a].pc = "lock" /\ calls[a] \in Call
  BY DEF ListInv, Inv, TypeOK, LockRules
<1>2. t \in RuleTypes /\ vecs[t] \in Vec
  BY <1>1 DEF CallOK, TypeOf, ListInv, Inv, TypeOK
<1>3. SliceOf(vecs[t]) \in Slice
  <2>1. Len(vecs[t].entries) \in Nat /\ vecs[t].buffer \in Nat
    BY <1>2 DEF Vec
  <2> QED  BY <2>1 DEF SliceOf, Slice
<1>4. Searched(a) \in Slice
  BY <1>1, <1>3 DEF Searched, Call
<1>5. pos # 0 => Abstract!First(vecs[t].entries, calls[a].name, pos)
  BY <1>2, <1>4, EntryIsFirst DEF Position
<1>6. calls[a].op = "set" /\ pos = 0 => Abstract!Missing(vecs[t].entries, calls[a].name)
  <2> SUFFICES ASSUME calls[a].op = "set", pos = 0
               PROVE  Abstract!Missing(vecs[t].entries, calls[a].name)
    OBVIOUS
  <2>1. Searched(a) = SliceOf(vecs[t])
    BY DEF Searched, SliceOperations
  <2> QED  BY <1>2, <2>1, NoEntryIsMissing DEF Position
<1>7. /\ calls' = [calls EXCEPT ![a].pc = "update", ![a].pos = pos]
      /\ corrupt' = (corrupt \/ Strays(a))
      /\ UNCHANGED <<keys, vecs>>
  BY DEF LockRules
<1> HIDE DEF pos
<1>8. /\ calls'[a].pc = "update" /\ calls'[a].pos = pos
      /\ calls'[a].key = calls[a].key /\ calls'[a].op = calls[a].op
      /\ calls'[a].path = calls[a].path /\ calls'[a].name = calls[a].name
      /\ calls'[a].slice = calls[a].slice
      /\ \A b \in Admins \ {a} : calls'[b] = calls[b]
  BY <1>1, <1>7 DEF ListInv, Inv, TypeOK, Call
<1>9. TypeOf(a)' = t /\ (Strays(a)' => corrupt')
  <2>1. TypeOf(a)' = t
    BY <1>7, <1>8 DEF TypeOf
  <2>2. Searched(a)' = Searched(a)
    BY <1>7, <1>8, <2>1 DEF Searched
  <2>3. Position(a)' = Position(a)
    BY <1>7, <1>8, <2>1, <2>2 DEF Position
  <2> QED  BY <1>7, <2>1, <2>2, <2>3 DEF Strays
<1>10. calls[a].op = "deleteValue" => calls[a].path \in Paths
  BY <1>1 DEF ListInv, Placed
<1> HIDE DEF t
<1>11. Placed(a)'
  BY <1>5, <1>6, <1>7, <1>8, <1>9, <1>10 DEF Placed
<1>12. \A b \in Admins \ {a} : Placed(b)'
  BY <1>7, <1>8, StaysPlaced DEF TypeOf
<1> QED  BY <1>11, <1>12

\* An update, made or not, is on the list of its own lock alone.
LEMMA UpdateStaysPlaced ==
    ASSUME ListInv, NEW a \in Admins, UpdateRules(a) \/ FailUpdate(a)
    PROVE  \A b \in Admins : Placed(b)'
<1> DEFINE t == TypeOf(a)
<1>1. calls[a].pc = "update" /\ Finish(a) /\ t \in RuleTypes /\ LockOK(t)
  BY DEF UpdateRules, FailUpdate, ListInv, Inv, CallOK, TypeOf
<1>2. /\ calls'[a].pc = "idle" /\ keys' = keys /\ corrupt' = corrupt
      /\ \A b \in Admins \ {a} : calls'[b] = calls[b]
      /\ \A s \in RuleTypes \ {t} : vecs'[s] = vecs[s]
  BY <1>1 DEF Finish, UpdateRules, FailUpdate, ListInv, Inv, TypeOK, NoCall
<1>3. Placed(a)'
  BY <1>2 DEF Placed
<1>4. ASSUME NEW b \in Admins \ {a} PROVE Placed(b)'
  <2>1. TypeOf(b)' = TypeOf(b)
    BY <1>2 DEF TypeOf
  <2>2. calls[b].pc = "update" => TypeOf(b) \in RuleTypes \ {t}
    BY <1>1 DEF LockOK, Writers, ListInv, Inv, CallOK, TypeOf
  <2> QED  BY <1>2, <2>1, <2>2, StaysPlaced
<1> QED  BY <1>3, <1>4

\* ListInv is inductive.
LEMMA ListStepInv == ListInv /\ [Next]_vars => ListInv'
<1> SUFFICES ASSUME ListInv, [Next]_vars PROVE ListInv'
  OBVIOUS
<1>1. Inv'
  BY StepInv DEF ListInv
<1>2. CASE UNCHANGED vars
  BY <1>2, OutsideStaysPlaced, <1>1 DEF vars, ListInv
<1>3. CASE Next
  <2>1. ASSUME NEW a \in Admins, Callback(a) PROVE \A b \in Admins : Placed(b)'
    BY <2>1, EarlyStaysPlaced, PostCallbackPlaces, LockRulesPlaces, UpdateStaysPlaced
       DEF Callback
  <2> QED  BY <1>1, <1>3, <2>1, OperationStaysPlaced DEF Next, ListInv
<1> QED  BY <1>2, <1>3

\* ListInv holds at first: no call is in progress.
LEMMA ListInitInv == Init => ListInv
<1>1. Init => \A a \in Admins : Placed(a)
  BY DEF Init, NoCall, Placed
<1> QED  BY <1>1, InitInv DEF ListInv

----------------------------------------------------------------------------
(* The refinement.                                                         *)

\* Both stores begin empty.
LEMMA InitIsAbstract == Init => Abstract!Init
BY DEF Init, EmptyVec, Abstract!Init, Lists

\* The two modules take their removals from the same library.
LEMMA SameRemovals ==
    ASSUME NEW s, NEW e, NEW i
    PROVE  /\ Abstract!RemoveAt(s, i) = RemoveAt(s, i)
           /\ Abstract!RemoveFirst(s, e) = RemoveFirst(s, e)
<1>1. \A x, j : Abstract!RemoveAt(x, j) = RemoveAt(x, j)
  BY DEF Abstract!RemoveAt, RemoveAt
<1>2. Abstract!RemoveFirst(s, e) = RemoveFirst(s, e)
  <2> DEFINE Hits == {j \in 1 .. Len(s) : s[j] = e}
             pos == IF Hits # {} THEN CHOOSE x \in Hits : \A y \in Hits : x <= y ELSE 0
  <2>1. RemoveFirst(s, e) = IF \E j \in 1 .. Len(s) : s[j] = e THEN RemoveAt(s, pos) ELSE s
    BY Zenon DEF RemoveFirst, SelectInSeq, Min
  <2>2. Abstract!RemoveFirst(s, e) =
          IF \E j \in 1 .. Len(s) : s[j] = e THEN Abstract!RemoveAt(s, pos) ELSE s
    BY Zenon DEF Abstract!RemoveFirst, Abstract!SelectInSeq, Abstract!Min
  <2> HIDE DEF pos
  <2>3. Abstract!RemoveAt(s, pos) = RemoveAt(s, pos)
    BY <1>1
  <2> QED  BY <2>1, <2>2, <2>3
<1> QED  BY <1>1, <1>2

\* The update is the one of the operation unless the search left the list.
LEMMA UpdateIsMade ==
    ASSUME ListInv, ~corrupt, NEW a \in Admins, UpdateRules(a)
    PROVE  vecs' = [vecs EXCEPT ![TypeOf(a)] = Updated(calls[a], @)]
<1>1. ~Strays(a)
  BY DEF ListInv, Placed, UpdateRules
<1> QED  BY <1>1 DEF UpdateRules, Outcomes

\* An update of a vector is an update of its list.
LEMMA UpdateIsAbstract ==
    ASSUME ListInv, ~corrupt, NEW a \in Admins, UpdateRules(a)
    PROVE  Abstract!Update \/ UNCHANGED Lists
<1> DEFINE t == TypeOf(a)
           c == calls[a]
           list == vecs[t].entries
<1>1. c.pc = "update" /\ CallOK(c) /\ Placed(a) /\ c \in Call
  BY DEF UpdateRules, ListInv, Inv, TypeOK
<1>2. t \in RuleTypes /\ vecs[t] \in Vec /\ c.name \in Names
  BY <1>1 DEF CallOK, TypeOf, ListInv, Inv, TypeOK
<1>3. vecs' = [vecs EXCEPT ![t] = Updated(c, vecs[t])]
  BY UpdateIsMade
<1>4. Lists' = [Lists EXCEPT ![t] = Updated(c, vecs[t]).entries] /\ Lists[t] = list
  BY <1>2, <1>3 DEF Lists, ListInv, Inv, TypeOK
<1>5. c.pos # 0 => Abstract!First(list, c.name, c.pos) /\ c.pos \in DOMAIN list
  BY <1>1 DEF Placed, Abstract!First
<1>6. c.op \in Operations /\ (c.op = "set" => c.path \in Paths)
      /\ (c.op = "deleteValue" => c.path \in Paths)
      /\ (c.op = "rename" => c.target \in Names)
  BY <1>1 DEF CallOK, Placed
<1>7. CASE c.op = "set" /\ c.pos # 0
  <2>1. Updated(c, vecs[t]).entries = [list EXCEPT ![c.pos].paths = Append(@, c.path)]
    BY <1>2, <1>7 DEF Updated, AddFile, Vec
  <2>2. Abstract!AddFile(t, c.name, c.path)
    BY <1>4, <1>5, <1>7, <2>1 DEF Abstract!AddFile
  <2> QED  BY <1>2, <1>6, <1>7, <2>2 DEF Abstract!Update
<1>8. CASE c.op = "set" /\ c.pos = 0
  <2>1. Updated(c, vecs[t]).entries =
          Append(list, [process |-> c.name, paths |-> <<c.path>>])
    BY <1>2, <1>8 DEF Updated, AddFile, Push, NewEntry, Vec
  <2>2. Abstract!Missing(list, c.name)
    BY <1>1, <1>8 DEF Placed
  <2>3. Abstract!AddFile(t, c.name, c.path)
    BY <1>4, <2>1, <2>2 DEF Abstract!AddFile
  <2> QED  BY <1>2, <1>6, <1>8, <2>3 DEF Abstract!Update
<1>9. CASE c.op = "deleteValue" /\ c.pos # 0
  <2>1. Updated(c, vecs[t]).entries = [list EXCEPT ![c.pos].paths = RemoveFirst(@, c.path)]
    BY <1>2, <1>9 DEF Updated, RemoveFile, Vec
  <2>2. Abstract!RemoveFirst(list[c.pos].paths, c.path) = RemoveFirst(list[c.pos].paths, c.path)
    BY SameRemovals, Zenon
  <2>3. Lists' = [Lists EXCEPT ![t] =
          [list EXCEPT ![c.pos].paths = Abstract!RemoveFirst(list[c.pos].paths, c.path)]]
    BY <1>4, <2>1, <2>2
  <2>4. Abstract!RemoveFile(t, c.name, c.path)
    BY <1>4, <1>5, <1>9, <2>3, Zenon DEF Abstract!RemoveFile
  <2> QED  BY <1>2, <1>6, <1>9, <2>4 DEF Abstract!Update
<1>10. CASE c.op = "deleteKey" /\ c.pos # 0
  <2>1. Updated(c, vecs[t]).entries = RemoveAt(list, c.pos)
    BY <1>2, <1>10 DEF Updated, ClearRules, Vec
  <2>2. Abstract!ClearRules(t, c.name)
    BY <1>4, <1>5, <1>10, <2>1, SameRemovals DEF Abstract!ClearRules
  <2> QED  BY <1>2, <2>2 DEF Abstract!Update
<1>11. CASE c.op = "rename" /\ c.pos # 0
  <2>1. Updated(c, vecs[t]).entries = [list EXCEPT ![c.pos].process = c.target]
    BY <1>2, <1>11 DEF Updated, RenameRules, Vec
  <2>2. Abstract!RenameRules(t, c.name, c.target)
    BY <1>4, <1>5, <1>11, <2>1 DEF Abstract!RenameRules
  <2> QED  BY <1>2, <1>6, <1>11, <2>2 DEF Abstract!Update
<1>12. CASE c.op # "set" /\ c.pos = 0
  <2>1. Updated(c, vecs[t]) = vecs[t]
    BY <1>6, <1>12 DEF Updated, RemoveFile, ClearRules, RenameRules, Operations
  <2> QED  BY <1>2, <1>4, <2>1 DEF Lists
<1> QED  BY <1>6, <1>7, <1>8, <1>9, <1>10, <1>11, <1>12 DEF Operations

\* Memory that was corrupted stays so.
LEMMA OnceCorrupt == ASSUME [Next]_vars, corrupt PROVE corrupt'
<1>1. ASSUME NEW a \in Admins, Operate(a) \/ Callback(a) PROVE corrupt'
  BY <1>1 DEF Operate, SetValue, DeleteValue, DeleteKey, PreRenameKey, Begin, Callback,
              RenameKey, PostCallback, LockRules, UpdateRules, FailCallback, FailUpdate,
              Finish
<1>2. ASSUME NEW f \in Filters, SearchStep(f) PROVE corrupt'
  BY <1>2 DEF SearchStep, StartSearch, LookupProcess, ScanPaths
<1> QED  BY <1>1, <1>2 DEF Next, CreateKey, vars

\* Every step is a step of the abstract store, or leaves the lists alone.
LEMMA StepIsAbstract == ListInv /\ [Next]_vars => [Abstract!Next]_<<Lists, corrupt>>
<1> SUFFICES ASSUME ListInv, [Next]_vars
             PROVE  Abstract!Next \/ UNCHANGED <<Lists, corrupt>>
  OBVIOUS
<1>1. CASE corrupt'
  BY <1>1 DEF Abstract!Next, Abstract!Break
<1>2. CASE ~corrupt' /\ UNCHANGED vecs
  <2>1. ~corrupt
    BY <1>2, OnceCorrupt
  <2>2. corrupt \in BOOLEAN /\ corrupt' \in BOOLEAN
    BY StepInv DEF ListInv, Inv, TypeOK
  <2>3. UNCHANGED corrupt
    BY <1>2, <2>1, <2>2, Zenon
  <2> QED  BY <1>2, <2>3 DEF Lists
<1>3. ASSUME ~corrupt', NEW a \in Admins, UpdateRules(a)
      PROVE  Abstract!Next \/ UNCHANGED <<Lists, corrupt>>
  <2>1. ~corrupt /\ UNCHANGED corrupt
    BY <1>3 DEF UpdateRules, Finish
  <2> QED  BY <1>3, <2>1, UpdateIsAbstract DEF Abstract!Next
<1>4. UNCHANGED vecs \/ \E a \in Admins : UpdateRules(a)
  <2>1. ASSUME NEW a \in Admins, Operate(a) PROVE UNCHANGED vecs
    BY <2>1 DEF Operate, SetValue, DeleteValue, DeleteKey, PreRenameKey, Begin
  <2>2. ASSUME NEW a \in Admins, Callback(a) PROVE UNCHANGED vecs \/ UpdateRules(a)
    BY <2>2 DEF Callback, RenameKey, PostCallback, LockRules, FailCallback, FailUpdate
  <2>3. ASSUME NEW f \in Filters, SearchStep(f) PROVE UNCHANGED vecs
    BY <2>3 DEF SearchStep, StartSearch, LookupProcess, ScanPaths
  <2> QED  BY <2>1, <2>2, <2>3 DEF Next, CreateKey, vars
<1> QED  BY <1>1, <1>2, <1>3, <1>4

\* The rule store with its locks, slices and steps implements lists that change
\* by whole updates of the first entry of a name, for any number of threads,
\* keys, names and paths, with failing callbacks, until a slice that is out of
\* date is followed past its list.
THEOREM ListsAreRefined == Spec => ListsChangeWhole
<1>1. Spec => []ListInv
  BY ListInitInv, ListStepInv, PTL DEF Spec
<1>2. Init => Abstract!Init
  BY InitIsAbstract
<1>3. ListInv /\ [Next]_vars => [Abstract!Next]_<<Lists, corrupt>>
  BY StepIsAbstract
<1> QED
  BY <1>1, <1>2, <1>3, PTL DEF Spec, ListsChangeWhole, Abstract!Spec

----------------------------------------------------------------------------
(* The mirror: its condition and its invariant.                            *)

\* No name is in two territories.
Apart == \A a, b \in Admins : a # b => Territory[a] \intersect Territory[b] = {}

----------------------------------------------------------------------------
(* The invariant: the registry and the callbacks.                          *)

Active(a) == calls[a].pc # "idle"

\* The registry is ahead of the store by this callback.
Behind(a) == calls[a].pc \in {"post", "lock", "update"}

\* The callback of a is about the rules of n in the list t.
On(a, t, n) == Behind(a) /\ TypeOf(a) = t /\ ResolvedName(a) = n

\* The names of live keys of a folder differ, and their values are finitely many.
KeysOK ==
    /\ \A k, j \in Keys :
         Live(k) /\ Live(j) /\ keys[k].folder = keys[j].folder /\ keys[k].name = keys[j].name
            => k = j
    /\ \A k \in Keys : IsFiniteSet(keys[k].values)

\* What an operation knows of its key until its callback is done.
OwnOK(a) ==
    LET call == calls[a]
        key == keys[call.key]
    IN  call.pc # "idle" =>
          /\ key.name \in Territory[a] /\ ResolvedName(a) \in Territory[a]
          /\ key.state = IF call.op = "deleteKey" THEN "deleted" ELSE "live"
          /\ call.op = "rename" =>
               /\ call.name # call.target /\ call.target \in Territory[a]
               /\ key.name = IF call.pc = "rename" THEN call.name ELSE call.target
          /\ call.pc \in {"lock", "update"} => call.name = ResolvedName(a)

\* A key that took over the name of a key with a pending callback is empty.
FreshOK ==
    \A k \in Keys, a \in Admins :
        Live(k) /\ calls[a].key # k /\ On(a, keys[k].folder, keys[k].name)
            => keys[k].values = {}

RegistryInv == ListInv /\ KeysOK /\ (\A a \in Admins : OwnOK(a)) /\ FreshOK

----------------------------------------------------------------------------
(* The invariant: the store.                                               *)

\* The slice that will be searched reaches the entry, and nothing found means
\* that there is none.
ReachOK(a) ==
    LET list == vecs[TypeOf(a)].entries
    IN  /\ calls[a].pc = "lock" /\ calls[a].op \in SliceOperations =>
             \A i \in DOMAIN list :
                 list[i].process = calls[a].name => i <= calls[a].slice.len
        /\ calls[a].pc = "update" /\ calls[a].pos = 0 => ~Has(list, calls[a].name)

\* The key whose values the entry of n in the list t stands for.
Source(k, t, n) ==
    /\ keys[k].folder = t
    /\ \/ \E a \in Admins : calls[a].key = k /\ On(a, t, n)
       \/ /\ Live(k) /\ keys[k].name = n
          /\ \A a \in Admins : ~On(a, t, n) /\ ~(Behind(a) /\ calls[a].key = k)

ValuesFor(k, p) == {v \in keys[k].values : Prepared[v] = p}

\* One if such an operation on the path of a value of the key is pending.
Pending(op, k, p) ==
    IF \E a \in Admins :
        Behind(a) /\ calls[a].key = k /\ calls[a].op = op /\ calls[a].path = p
    THEN 1 ELSE 0

\* The entry has a path as many times as the values of the key, but for the
\* pending callback; more often, if a value may be set again.
Accounts(k, t, n, p) ==
    LET asked == Cardinality(ValuesFor(k, p)) + Pending("deleteValue", k, p)
        listed == Count(PathsOf(vecs[t].entries, n), p) + Pending("set", k, p)
    IN  asked <= listed /\ (~Overwrites => asked = listed)

AccountsOK ==
    \A t \in RuleTypes, k \in Keys, n \in Names, p \in Paths :
        Source(k, t, n) => Accounts(k, t, n, p)

\* Every entry, and be it empty, has its source.
BackedOK ==
    \A t \in RuleTypes, n \in Names :
        Has(vecs[t].entries, n) => \E k \in Keys : Source(k, t, n)

StoreOK ==
    /\ \A t \in RuleTypes : Single(vecs[t].entries)
    /\ \A a \in Admins : ReachOK(a)
    /\ AccountsOK /\ BackedOK

MirrorInv == RegistryInv /\ (~corrupt => StoreOK)

----------------------------------------------------------------------------
(* The registry and the callbacks.                                         *)

\* No two administrators are on one key, or about one name.
LEMMA OwnersApart ==
    ASSUME Apart, \A a \in Admins : OwnOK(a), NEW a \in Admins, NEW b \in Admins,
           Active(a), Active(b),
           calls[a].key = calls[b].key \/ ResolvedName(a) = ResolvedName(b)
    PROVE  a = b
BY DEF Apart, OwnOK, Active

\* No other administrator is on the key of an operation that begins, or about its name.
LEMMA OwnerAlone ==
    ASSUME Apart, \A a \in Admins : OwnOK(a), NEW a \in Admins, NEW k \in Keys,
           keys[k].name \in Territory[a], NEW b \in Admins, b # a, Active(b)
    PROVE  calls[b].key # k /\ ResolvedName(b) # keys[k].name
BY DEF Apart, OwnOK, Active

\* What the invariant of the lists says of a call.
LEMMA CallFacts ==
    ASSUME ListInv, NEW a \in Admins
    PROVE  /\ calls[a] \in Call
           /\ Active(a) => /\ calls[a].key \in Keys /\ keys[calls[a].key].state # "absent"
                           /\ calls[a].op \in Operations
                           /\ calls[a].pc = "rename" => calls[a].op = "rename"
           /\ calls[a].pc \in {"lock", "update"} =>
                TypeOf(a) \in RuleTypes /\ calls[a].name \in Names
BY DEF ListInv, Inv, TypeOK, CallOK, Active, TypeOf

\* Keys stay as they are, and callbacks move on or end.
LEMMA CallbackRegistry ==
    ASSUME RegistryInv, ListInv', UNCHANGED keys,
           \A b \in Admins :
               \/ calls'[b] = calls[b]
               \/ calls'[b].pc = "idle"
               \/ /\ calls[b].pc \in {"post", "lock"} /\ calls'[b].pc \in {"lock", "update"}
                  /\ calls'[b].key = calls[b].key /\ calls'[b].op = calls[b].op
                  /\ calls'[b].target = calls[b].target
                  /\ calls'[b].name = ResolvedName(b)
    PROVE  RegistryInv'
<1>1. KeysOK'
  BY DEF RegistryInv, KeysOK, Live
<1>2. ASSUME NEW b \in Admins, Active(b)'
      PROVE  /\ Active(b) /\ ResolvedName(b)' = ResolvedName(b) /\ TypeOf(b)' = TypeOf(b)
             /\ calls'[b].key = calls[b].key /\ (Behind(b)' => Behind(b))
  BY <1>2 DEF Active, Behind, ResolvedName, TypeOf
<1>3. \A b \in Admins : OwnOK(b)'
  BY <1>2 DEF RegistryInv, OwnOK, ResolvedName, Active
<1>4. FreshOK'
  BY <1>2 DEF RegistryInv, FreshOK, On, Behind, Active, Live
<1> QED  BY <1>1, <1>3, <1>4 DEF RegistryInv

\* A created key is empty, and the only live one of its name.
LEMMA CreateKeyRegistry ==
    ASSUME RegistryInv, ListInv', NEW k \in Keys, NEW folder \in Folders, NEW name \in Names,
           CreateKey(k, folder, name)
    PROVE  RegistryInv'
<1>1. /\ keys' = [keys EXCEPT ![k] = [state |-> "live", folder |-> folder,
                                      name |-> name, values |-> {}]]
      /\ keys[k].state = "absent" /\ ~Taken(folder, name) /\ UNCHANGED calls
  BY DEF CreateKey
<1>2. /\ \A j \in Keys : j # k => keys'[j] = keys[j]
      /\ keys'[k].folder = folder /\ keys'[k].name = name /\ keys'[k].values = {}
  BY <1>1 DEF RegistryInv, ListInv, Inv, TypeOK
<1>3. KeysOK'
  BY <1>1, <1>2, FS_EmptySet DEF RegistryInv, KeysOK, Live, Taken
<1>4. ASSUME NEW b \in Admins, Active(b)
      PROVE  keys'[calls[b].key] = keys[calls[b].key]
  BY <1>1, <1>2, <1>4, CallFacts DEF RegistryInv
<1>5. \A b \in Admins : OwnOK(b)'
  BY <1>1, <1>4 DEF RegistryInv, OwnOK, ResolvedName, Active
<1>6. \A b \in Admins : \A t, n : On(b, t, n)' => On(b, t, n)
  BY <1>1, <1>4 DEF On, Behind, Active, TypeOf, ResolvedName
<1>7. FreshOK'
  BY <1>1, <1>2, <1>6 DEF RegistryInv, FreshOK, Live
<1> QED  BY <1>3, <1>5, <1>7 DEF RegistryInv

\* An operation begins on a key, which keeps its folder and name.
LEMMA BeginRegistry ==
    ASSUME Apart, RegistryInv, ListInv', NEW a \in Admins, NEW k \in Keys,
           MayOperate(a, k), NEW call \in Call, Begin(a, call), call.key = k,
           \/ call.pc = "post" /\ call.op # "rename"
           \/ /\ call.pc = "rename" /\ call.op = "rename" /\ call.name = keys[k].name
              /\ call.target \in Territory[a] \ {keys[k].name},
           \A j \in Keys : j # k => keys'[j] = keys[j],
           keys'[k].folder = keys[k].folder, keys'[k].name = keys[k].name,
           keys'[k].state = IF call.op = "deleteKey" THEN "deleted" ELSE "live",
           IsFiniteSet(keys'[k].values)
    PROVE  RegistryInv'
<1>1. /\ calls'[a] = call /\ \A b \in Admins : b # a => calls'[b] = calls[b]
  BY DEF Begin, RegistryInv, ListInv, Inv, TypeOK
<1>2. keys[k].name \in Territory[a] /\ Live(k)
  BY DEF MayOperate
<1>3. KeysOK'
  BY <1>2 DEF RegistryInv, KeysOK, Live
<1>4. \A b \in Admins : b # a /\ Active(b) =>
          calls[b].key # k /\ ResolvedName(b) # keys[k].name
  BY <1>2, OwnerAlone DEF RegistryInv
<1>5. ASSUME NEW b \in Admins, b # a, Active(b)
      PROVE  keys'[calls[b].key] = keys[calls[b].key] /\ ResolvedName(b)' = ResolvedName(b)
             /\ TypeOf(b)' = TypeOf(b)
  <2>1. calls[b].key \in Keys
    BY <1>5, CallFacts DEF RegistryInv
  <2> QED  BY <1>1, <1>4, <1>5, <2>1 DEF ResolvedName, TypeOf
<1>6. ResolvedName(a)' = keys[k].name /\ TypeOf(a)' = keys[k].folder
  BY <1>1 DEF ResolvedName, TypeOf
<1>7. OwnOK(a)'
  BY <1>1, <1>2, <1>6 DEF OwnOK
<1>8. \A b \in Admins : b # a => OwnOK(b)'
  BY <1>1, <1>5 DEF RegistryInv, OwnOK, Active
<1>9. FreshOK'
  <2> SUFFICES ASSUME NEW j \in Keys, NEW b \in Admins, Live(j)', calls'[b].key # j,
                      On(b, keys[j].folder, keys[j].name)'
               PROVE  keys'[j].values = {}
    BY DEF FreshOK
  <2>1. CASE b = a
    <3>1. j # k /\ keys'[j] = keys[j]
      BY <1>1, <2>1
    <3>2. keys[j].folder = keys[k].folder /\ keys[j].name = keys[k].name
      BY <1>6, <2>1, <3>1 DEF On
    <3> QED  BY <1>2, <3>1, <3>2 DEF RegistryInv, KeysOK, Live
  <2>2. CASE b # a
    <3>1. Active(b) /\ calls'[b] = calls[b]
      BY <1>1, <2>2 DEF On, Behind, Active
    <3>2. On(b, keys'[j].folder, keys'[j].name)
      BY <1>5, <2>2, <3>1 DEF On, Behind
    <3>3. j # k
      BY <1>4, <2>2, <3>1, <3>2 DEF On
    <3> QED  BY <3>1, <3>2, <3>3 DEF RegistryInv, FreshOK, Live
  <2> QED  BY <2>1, <2>2
<1> QED  BY <1>3, <1>7, <1>8, <1>9 DEF RegistryInv

\* The key has its new name, which no live key of its folder had.
LEMMA RenameRegistry ==
    ASSUME Apart, RegistryInv, ListInv', NEW a \in Admins, RenameKey(a)
    PROVE  RegistryInv'
<1> DEFINE k == calls[a].key
           new == calls[a].target
<1>1. CASE UNCHANGED keys /\ calls' = [calls EXCEPT ![a] = NoCall]
  <2>1. \A b \in Admins : calls'[b] = calls[b] \/ calls'[b].pc = "idle"
    BY <1>1 DEF NoCall, RegistryInv, ListInv, Inv, TypeOK
  <2> QED  BY <1>1, <2>1, CallbackRegistry
<1>2. CASE /\ Live(k) /\ ~Taken(keys[k].folder, new)
           /\ calls' = [calls EXCEPT ![a].pc = "post"]
           /\ keys' = [keys EXCEPT ![k].name = new]
  <2>1. calls[a].pc = "rename" /\ calls[a].op = "rename" /\ k \in Keys /\ Active(a)
    BY CallFacts DEF RenameKey, RegistryInv, Active
  <2>2. /\ calls'[a].pc = "post" /\ calls'[a].op = "rename" /\ calls'[a].key = k
        /\ calls'[a].name = calls[a].name /\ calls'[a].target = new
        /\ \A b \in Admins : b # a => calls'[b] = calls[b]
    BY <1>2, <2>1 DEF RegistryInv, ListInv, Inv, TypeOK, Call
  <2>3. /\ keys'[k].folder = keys[k].folder /\ keys'[k].name = new
        /\ keys'[k].state = keys[k].state /\ keys'[k].values = keys[k].values
        /\ \A j \in Keys : j # k => keys'[j] = keys[j]
    BY <1>2, <2>1 DEF RegistryInv, ListInv, Inv, TypeOK, Key
  <2>4. /\ keys[k].name = calls[a].name /\ keys[k].name \in Territory[a]
        /\ keys[k].state = "live" /\ calls[a].name # new /\ new \in Territory[a]
    BY <2>1 DEF RegistryInv, OwnOK
  <2>5. KeysOK'
    BY <1>2, <2>3 DEF RegistryInv, KeysOK, Live, Taken
  <2>6. \A b \in Admins : b # a /\ Active(b) => calls[b].key # k /\ ResolvedName(b) # new
    BY <2>1, <2>4 DEF RegistryInv, OwnOK, Active, Apart
  <2>7. ASSUME NEW b \in Admins, b # a, Active(b)
        PROVE  keys'[calls[b].key] = keys[calls[b].key] /\ ResolvedName(b)' = ResolvedName(b)
               /\ TypeOf(b)' = TypeOf(b)
    <3>1. calls[b].key \in Keys
      BY <2>7, CallFacts DEF RegistryInv
    <3> QED  BY <2>2, <2>3, <2>6, <2>7, <3>1 DEF ResolvedName, TypeOf
  <2>8. ResolvedName(a)' = keys[k].name /\ TypeOf(a)' = keys[k].folder
    BY <2>2, <2>3, <2>4 DEF ResolvedName, TypeOf
  <2>9. OwnOK(a)'
    BY <2>2, <2>3, <2>4, <2>8 DEF OwnOK
  <2>10. \A b \in Admins : b # a => OwnOK(b)'
    BY <2>2, <2>7 DEF RegistryInv, OwnOK, Active
  <2>11. FreshOK'
    <3> SUFFICES ASSUME NEW j \in Keys, NEW b \in Admins, Live(j)', calls'[b].key # j,
                        On(b, keys[j].folder, keys[j].name)'
                 PROVE  keys'[j].values = {}
      BY DEF FreshOK
    <3>1. CASE b = a
      <4>1. j # k /\ keys'[j] = keys[j]
        BY <2>2, <2>3, <3>1
      <4>2. keys[j].folder = keys[k].folder /\ keys[j].name = keys[k].name
        BY <2>8, <3>1, <4>1 DEF On
      <4> QED  BY <1>2, <2>1, <4>1, <4>2 DEF RegistryInv, KeysOK, Live
    <3>2. CASE b # a
      <4>1. Active(b) /\ calls'[b] = calls[b]
        BY <2>2, <3>2 DEF On, Behind, Active
      <4>2. On(b, keys'[j].folder, keys'[j].name)
        BY <2>7, <3>2, <4>1 DEF On, Behind
      <4>3. j # k
        BY <2>3, <2>6, <3>2, <4>1, <4>2 DEF On
      <4> QED  BY <2>3, <4>1, <4>2, <4>3 DEF RegistryInv, FreshOK, Live
    <3> QED  BY <3>1, <3>2
  <2> QED  BY <2>5, <2>9, <2>10, <2>11 DEF RegistryInv
<1> QED  BY <1>1, <1>2 DEF RenameKey

\* The operations that call Begin.
LEMMA OperateRegistry ==
    ASSUME Apart, RegistryInv, ListInv', NEW a \in Admins, Operate(a)
    PROVE  RegistryInv'
<1>1. \A k \in Keys : keys[k] \in Key /\ IsFiniteSet(keys[k].values)
  BY DEF RegistryInv, KeysOK, ListInv, Inv, TypeOK
<1>2. ASSUME NEW k \in Keys, NEW v \in Values, SetValue(a, k, v) PROVE RegistryInv'
  <2> DEFINE call == [NoCall EXCEPT !.pc = "post", !.op = "set", !.key = k,
                                    !.path = Prepared[v]]
  <2>1. call \in Call
    BY PreparedType DEF NoCall, NoSlice, Call, Slice, Operations
  <2>2. call.pc = "post" /\ call.op = "set" /\ call.key = k
    BY DEF NoCall
  <2>3. MayOperate(a, k) /\ Begin(a, call)
    BY <1>2 DEF SetValue
  <2>4. /\ \A j \in Keys : j # k => keys'[j] = keys[j]
        /\ keys'[k].folder = keys[k].folder /\ keys'[k].name = keys[k].name
        /\ keys'[k].state = keys[k].state
        /\ keys'[k].values = keys[k].values \union {v}
    BY <1>2 DEF SetValue, RegistryInv, ListInv, Inv, TypeOK, Key
  <2>5. IsFiniteSet(keys'[k].values)
    BY <1>1, <2>4, FS_AddElement
  <2> HIDE DEF call
  <2> QED  BY <2>1, <2>2, <2>3, <2>4, <2>5, BeginRegistry DEF MayOperate, Live
<1>3. ASSUME NEW k \in Keys, NEW v \in Values, DeleteValue(a, k, v) PROVE RegistryInv'
  <2> DEFINE call == [NoCall EXCEPT !.pc = "post", !.op = "deleteValue", !.key = k,
                                    !.path = Prepared[v]]
  <2>1. call \in Call
    BY PreparedType DEF NoCall, NoSlice, Call, Slice, Operations
  <2>2. call.pc = "post" /\ call.op = "deleteValue" /\ call.key = k
    BY DEF NoCall
  <2>3. MayOperate(a, k) /\ Begin(a, call)
    BY <1>3 DEF DeleteValue
  <2>4. /\ \A j \in Keys : j # k => keys'[j] = keys[j]
        /\ keys'[k].folder = keys[k].folder /\ keys'[k].name = keys[k].name
        /\ keys'[k].state = keys[k].state
        /\ keys'[k].values = keys[k].values \ {v}
    BY <1>3 DEF DeleteValue, RegistryInv, ListInv, Inv, TypeOK, Key
  <2>5. IsFiniteSet(keys'[k].values)
    BY <1>1, <2>4, FS_RemoveElement
  <2> HIDE DEF call
  <2> QED  BY <2>1, <2>2, <2>3, <2>4, <2>5, BeginRegistry DEF MayOperate, Live
<1>4. ASSUME NEW k \in Keys, DeleteKey(a, k) PROVE RegistryInv'
  <2> DEFINE call == [NoCall EXCEPT !.pc = "post", !.op = "deleteKey", !.key = k]
  <2>1. call \in Call
    BY DEF NoCall, NoSlice, Call, Slice, Operations
  <2>2. call.pc = "post" /\ call.op = "deleteKey" /\ call.key = k
    BY DEF NoCall
  <2>3. MayOperate(a, k) /\ Begin(a, call)
    BY <1>4 DEF DeleteKey
  <2>4. /\ \A j \in Keys : j # k => keys'[j] = keys[j]
        /\ keys'[k].folder = keys[k].folder /\ keys'[k].name = keys[k].name
        /\ keys'[k].state = "deleted" /\ keys'[k].values = keys[k].values
    BY <1>4 DEF DeleteKey, RegistryInv, ListInv, Inv, TypeOK, Key
  <2> HIDE DEF call
  <2> QED  BY <1>1, <2>1, <2>2, <2>3, <2>4, BeginRegistry
<1>5. ASSUME NEW k \in Keys, NEW new \in Names, PreRenameKey(a, k, new) PROVE RegistryInv'
  <2> DEFINE call == [NoCall EXCEPT !.pc = "rename", !.op = "rename", !.key = k,
                                    !.name = keys[k].name, !.target = new]
  <2>1. keys[k].name \in Names
    BY <1>5 DEF PreRenameKey, MayOperate, Live, RegistryInv, ListInv, Inv, KeyOK
  <2>2. call \in Call
    BY <2>1 DEF NoCall, NoSlice, Call, Slice, Operations
  <2>3. /\ call.pc = "rename" /\ call.op = "rename" /\ call.key = k
        /\ call.name = keys[k].name /\ call.target = new
    BY DEF NoCall
  <2>4. MayOperate(a, k) /\ Begin(a, call) /\ keys' = keys
        /\ new \in Territory[a] \ {keys[k].name}
    BY <1>5 DEF PreRenameKey
  <2> HIDE DEF call
  <2> QED  BY <1>1, <2>2, <2>3, <2>4, BeginRegistry DEF MayOperate, Live
<1> QED  BY <1>2, <1>3, <1>4, <1>5 DEF Operate

\* The steps of a callback after the operation is done, and no step at all.
LEMMA CallbackStepRegistry ==
    ASSUME RegistryInv, ListInv', NEW a \in Admins,
           \/ PostCallback(a) \/ LockRules(a) \/ UpdateRules(a)
           \/ FailCallback(a) \/ FailUpdate(a)
    PROVE  RegistryInv'
<1>1. UNCHANGED keys
  BY DEF PostCallback, LockRules, UpdateRules, FailCallback, FailUpdate, Finish
<1>2. calls[a] \in Call /\ OwnOK(a)
      /\ (\A b \in Admins : b # a => calls'[b] = calls[b])
  BY DEF PostCallback, LockRules, UpdateRules, FailCallback, FailUpdate, Finish,
         RegistryInv, ListInv, Inv, TypeOK
<1>3. CASE PostCallback(a) /\ ~Ignored(a)
  <2>1. /\ calls[a].pc = "post" /\ calls'[a].pc = "lock"
        /\ calls'[a].key = calls[a].key /\ calls'[a].op = calls[a].op
        /\ calls'[a].target = calls[a].target /\ calls'[a].name = ResolvedName(a)
    BY <1>2, <1>3 DEF PostCallback, RegistryInv, ListInv, Inv, TypeOK, Call
  <2> QED  BY <1>1, <1>2, <2>1, CallbackRegistry
<1>4. CASE LockRules(a)
  <2>1. /\ calls[a].pc = "lock" /\ calls'[a].pc = "update"
        /\ calls'[a].key = calls[a].key /\ calls'[a].op = calls[a].op
        /\ calls'[a].target = calls[a].target /\ calls'[a].name = calls[a].name
    BY <1>2, <1>4 DEF LockRules, RegistryInv, ListInv, Inv, TypeOK, Call
  <2>2. calls'[a].name = ResolvedName(a)
    BY <1>2, <2>1 DEF OwnOK
  <2> QED  BY <1>1, <1>2, <2>1, <2>2, CallbackRegistry
<1>5. CASE \/ PostCallback(a) /\ Ignored(a)
           \/ UpdateRules(a) \/ FailCallback(a) \/ FailUpdate(a)
  <2>1. calls'[a].pc = "idle"
    BY <1>5 DEF PostCallback, UpdateRules, FailCallback, FailUpdate, Finish, NoCall,
                RegistryInv, ListInv, Inv, TypeOK
  <2> QED  BY <1>1, <1>2, <2>1, CallbackRegistry
<1> QED  BY <1>3, <1>4, <1>5

\* RegistryInv is inductive, and holds at first.
LEMMA RegistryStep == ASSUME Apart, RegistryInv, [Next]_vars PROVE RegistryInv'
<1>1. ListInv'
  BY ListStepInv DEF RegistryInv
<1>2. ASSUME UNCHANGED <<keys, calls>> PROVE RegistryInv'
  BY <1>1, <1>2, CallbackRegistry
<1>3. ASSUME NEW f \in Filters, SearchStep(f) PROVE RegistryInv'
  BY <1>2, <1>3 DEF SearchStep, StartSearch, LookupProcess, ScanPaths
<1>4. ASSUME NEW a \in Admins, Callback(a) PROVE RegistryInv'
  BY <1>1, <1>4, RenameRegistry, CallbackStepRegistry DEF Callback
<1>5. ASSUME UNCHANGED vars PROVE RegistryInv'
  BY <1>2, <1>5 DEF vars
<1> QED  BY <1>1, <1>3, <1>4, <1>5, CreateKeyRegistry, OperateRegistry DEF Next

\* No key, and no callback.
LEMMA RegistryInit == ASSUME Init PROVE RegistryInv
<1>1. ListInv
  BY ListInitInv
<1>2. \A a \in Admins : calls[a].pc = "idle"
  BY DEF Init, NoCall
<1>3. \A k \in Keys : keys[k].state = "absent" /\ keys[k].values = {}
  BY DEF Init, Absent
<1>4. KeysOK
  BY <1>3, FS_EmptySet DEF KeysOK, Live
<1>5. (\A a \in Admins : OwnOK(a)) /\ FreshOK
  BY <1>2, <1>3 DEF OwnOK, FreshOK, Live
<1> QED  BY <1>1, <1>4, <1>5 DEF RegistryInv

----------------------------------------------------------------------------
(* The store, while the lists stay as they are.                            *)

\* No callback begins, ends or changes its subject: every entry keeps its source.
LEMMA SourcesStay ==
    ASSUME RegistryInv, UNCHANGED keys,
           \A b \in Admins :
               /\ Behind(b)' <=> Behind(b)
               /\ Behind(b) => /\ calls'[b].key = calls[b].key /\ calls'[b].op = calls[b].op
                               /\ calls'[b].path = calls[b].path
                               /\ ResolvedName(b)' = ResolvedName(b)
    PROVE  /\ \A k, t, n : Source(k, t, n)' <=> Source(k, t, n)
           /\ \A op, k, p : Pending(op, k, p)' = Pending(op, k, p)
           /\ \A k, p : ValuesFor(k, p)' = ValuesFor(k, p)
<1>1. ASSUME NEW b \in Admins, NEW t, NEW n PROVE On(b, t, n)' <=> On(b, t, n)
  BY DEF On, TypeOf
<1>2. ASSUME NEW b \in Admins, NEW k
      PROVE  Behind(b)' /\ calls'[b].key = k <=> Behind(b) /\ calls[b].key = k
  OBVIOUS
<1>3. \A k, t, n : Source(k, t, n)' <=> Source(k, t, n)
  <2> SUFFICES ASSUME NEW k, NEW t, NEW n PROVE Source(k, t, n)' <=> Source(k, t, n)
    OBVIOUS
  <2>1. ASSUME NEW b \in Admins
        PROVE  calls'[b].key = k /\ On(b, t, n)' <=> calls[b].key = k /\ On(b, t, n)
    BY <1>1, <1>2 DEF On
  <2> QED  BY <1>1, <1>2, <2>1 DEF Source, Live
<1>4. \A op, k, p : Pending(op, k, p)' = Pending(op, k, p)
  <2> SUFFICES ASSUME NEW op, NEW k, NEW p PROVE Pending(op, k, p)' = Pending(op, k, p)
    OBVIOUS
  <2>1. ASSUME NEW b \in Admins
        PROVE  Behind(b)' /\ calls'[b].key = k /\ calls'[b].op = op /\ calls'[b].path = p
               <=> Behind(b) /\ calls[b].key = k /\ calls[b].op = op /\ calls[b].path = p
    OBVIOUS
  <2> QED  BY <2>1 DEF Pending
<1>5. \A k, p : ValuesFor(k, p)' = ValuesFor(k, p)
  BY DEF ValuesFor
<1> QED  BY <1>3, <1>4, <1>5

\* So the lists, if they stay too, still account for the values.
LEMMA StoreStays ==
    ASSUME RegistryInv, StoreOK, UNCHANGED <<keys, vecs>>,
           \A b \in Admins :
               /\ Behind(b)' <=> Behind(b)
               /\ Behind(b) => /\ calls'[b].key = calls[b].key /\ calls'[b].op = calls[b].op
                               /\ calls'[b].path = calls[b].path
                               /\ ResolvedName(b)' = ResolvedName(b),
           \A b \in Admins : calls'[b] = calls[b] \/ ReachOK(b)'
    PROVE  StoreOK'
<1>1. /\ \A k, t, n : Source(k, t, n)' <=> Source(k, t, n)
      /\ \A op, k, p : Pending(op, k, p)' = Pending(op, k, p)
      /\ \A k, p : ValuesFor(k, p)' = ValuesFor(k, p)
  BY SourcesStay
<1>2. \A k, t, n, p : Accounts(k, t, n, p)' <=> Accounts(k, t, n, p)
  BY <1>1 DEF Accounts
<1>3. AccountsOK' /\ BackedOK'
  BY <1>1, <1>2 DEF StoreOK, AccountsOK, BackedOK
<1>4. \A b \in Admins : ReachOK(b)'
  BY DEF StoreOK, ReachOK, TypeOf
<1> QED  BY <1>3, <1>4 DEF StoreOK

\* A created key takes a name that no live key and no pending callback has, so
\* there is no entry that it should account for.
LEMMA CreateKeyStore ==
    ASSUME RegistryInv, StoreOK, NEW k \in Keys, NEW folder \in Folders, NEW name \in Names,
           CreateKey(k, folder, name)
    PROVE  StoreOK'
<1>1. /\ keys' = [keys EXCEPT ![k] = [state |-> "live", folder |-> folder,
                                      name |-> name, values |-> {}]]
      /\ keys[k].state = "absent" /\ ~Taken(folder, name) /\ UNCHANGED <<calls, vecs>>
  BY DEF CreateKey
<1>2. /\ \A j \in Keys : j # k => keys'[j] = keys[j]
      /\ keys'[k].folder = folder /\ keys'[k].name = name /\ keys'[k].values = {}
  BY <1>1 DEF RegistryInv, ListInv, Inv, TypeOK
<1>3. ASSUME NEW b \in Admins, Active(b)
      PROVE  calls[b].key \in Keys /\ calls[b].key # k
             /\ keys'[calls[b].key] = keys[calls[b].key]
  BY <1>1, <1>2, <1>3, CallFacts DEF RegistryInv
<1>4. \A b \in Admins : \A t, n : On(b, t, n)' <=> On(b, t, n)
  BY <1>1, <1>3 DEF On, Behind, Active, TypeOf, ResolvedName
<1>5. \A b \in Admins : ~(Behind(b) /\ calls[b].key = k)
  BY <1>3 DEF Behind, Active
<1>6. \A j \in Keys : \A t, n : j # k => (Source(j, t, n)' <=> Source(j, t, n))
  BY <1>1, <1>2, <1>4 DEF Source, Behind, Live
<1>7. \A t, n : ~Source(k, t, n)
  BY <1>1, <1>5 DEF Source, On, Live
<1>8. ASSUME NEW t, NEW n, Source(k, t, n)'
      PROVE  t = folder /\ n = name /\ \A b \in Admins : ~On(b, t, n)
  BY <1>1, <1>2, <1>4, <1>5, <1>8 DEF Source, On
<1>9. BackedOK'
  BY <1>1, <1>6, <1>7 DEF StoreOK, BackedOK
<1>10. AccountsOK'
  <2> SUFFICES ASSUME NEW t \in RuleTypes, NEW j \in Keys, NEW n \in Names, NEW p \in Paths,
                      Source(j, t, n)'
               PROVE  Accounts(j, t, n, p)'
    BY DEF AccountsOK
  <2>1. \A op : Pending(op, j, p)' = Pending(op, j, p)
    BY <1>1 DEF Pending, Behind
  <2>2. CASE j # k
    <3>1. ValuesFor(j, p)' = ValuesFor(j, p)
      BY <1>2, <2>2 DEF ValuesFor
    <3>2. Accounts(j, t, n, p)
      BY <1>6, <2>2 DEF StoreOK, AccountsOK
    <3> QED  BY <1>1, <2>1, <3>1, <3>2 DEF Accounts
  <2>3. CASE j = k
    <3>1. t = folder /\ n = name /\ \A b \in Admins : ~On(b, t, n)
      BY <1>8, <2>3
    <3>2. \A i \in Keys : ~Source(i, t, n)
      BY <1>1, <3>1 DEF Source, Taken
    <3>3. ~Has(vecs[t].entries, n)
      BY <3>2 DEF StoreOK, BackedOK
    <3>4. Count(PathsOf(vecs[t].entries, n), p) = 0
      BY <3>3, CountOfNone DEF PathsOf
    <3>5. ValuesFor(k, p)' = {}
      BY <1>2 DEF ValuesFor
    <3>6. \A op : Pending(op, k, p) = 0
      BY <1>5 DEF Pending
    <3>7. Cardinality(ValuesFor(k, p)') = 0
      BY <3>5, FS_EmptySet
    <3> HIDE DEF Count
    <3> QED  BY <1>1, <2>1, <2>3, <3>4, <3>6, <3>7 DEF Accounts
  <2> QED  BY <2>2, <2>3
<1>11. \A b \in Admins : ReachOK(b)'
  <2> SUFFICES ASSUME NEW b \in Admins PROVE ReachOK(b)'
    OBVIOUS
  <2>1. ReachOK(b)
    BY DEF StoreOK
  <2>2. Active(b) => TypeOf(b)' = TypeOf(b)
    BY <1>1, <1>3 DEF TypeOf
  <2> QED  BY <1>1, <2>1, <2>2 DEF ReachOK, Active
<1> QED  BY <1>1, <1>9, <1>10, <1>11 DEF StoreOK

\* The registry gets ahead of the store: a callback is pending about the name that its
\* key, live until then, had.  Every entry keeps its source.
LEMMA SourcesBegin ==
    ASSUME RegistryInv, NEW a \in Admins, NEW k \in Keys, ~Behind(a), Behind(a)',
           calls'[a].key = k, Live(k), ResolvedName(a)' = keys[k].name,
           keys'[k].folder = keys[k].folder,
           \A j \in Keys : j # k => keys'[j] = keys[j],
           \A b \in Admins : b # a => calls'[b] = calls[b],
           \A b \in Admins : b # a /\ Active(b) =>
               calls[b].key # k /\ ResolvedName(b) # keys[k].name
    PROVE  \A j \in Keys : \A t, n : Source(j, t, n)' <=> Source(j, t, n)
<1>1. ASSUME NEW b \in Admins, b # a, NEW t, NEW n
      PROVE  On(b, t, n)' <=> On(b, t, n)
  <2>1. Active(b) => calls[b].key \in Keys /\ calls[b].key # k
    BY <1>1, CallFacts DEF RegistryInv
  <2> QED  BY <1>1, <2>1 DEF On, Behind, Active, TypeOf, ResolvedName
<1>2. \A t, n : /\ ~On(a, t, n)
                /\ On(a, t, n)' <=> t = keys[k].folder /\ n = keys[k].name
  BY DEF On, TypeOf
<1>3. \A b \in Admins : ~(Behind(b) /\ calls[b].key = k)
                        /\ ~On(b, keys[k].folder, keys[k].name)
  BY DEF On, Behind, Active
<1>4. \A t, n : Source(k, t, n)' <=> t = keys[k].folder /\ n = keys[k].name
  BY <1>1, <1>2, <1>3 DEF Source, On
<1>5. \A t, n : Source(k, t, n) <=> t = keys[k].folder /\ n = keys[k].name
  BY <1>3 DEF Source, On
<1>6. ASSUME NEW j \in Keys, j # k, NEW t, NEW n PROVE Source(j, t, n)' <=> Source(j, t, n)
  <2>1. \A b \in Admins : calls'[b].key = j /\ On(b, t, n)' <=> calls[b].key = j /\ On(b, t, n)
    BY <1>1, <1>2, <1>6
  <2>2. \A b \in Admins : Behind(b)' /\ calls'[b].key = j <=> Behind(b) /\ calls[b].key = j
    BY <1>6 DEF Behind
  <2>3. Live(j) /\ keys[j].folder = t /\ keys[j].name = n =>
            \A b \in Admins : On(b, t, n)' <=> On(b, t, n)
    BY <1>1, <1>2, <1>6 DEF RegistryInv, KeysOK
  <2> QED  BY <1>6, <2>1, <2>2, <2>3 DEF Source, Live
<1> QED  BY <1>4, <1>5, <1>6

\* What the operation did to the values of the key makes up for its callback, which
\* is pending now.
LEMMA BeginStore ==
    ASSUME RegistryInv, StoreOK, UNCHANGED vecs,
           NEW a \in Admins, NEW k \in Keys, ~Behind(a), calls'[a].pc = "post",
           calls'[a].key = k, Live(k), ResolvedName(a)' = keys[k].name,
           keys'[k].folder = keys[k].folder,
           \A j \in Keys : j # k => keys'[j] = keys[j],
           \A b \in Admins : b # a => calls'[b] = calls[b],
           \A b \in Admins : b # a /\ Active(b) =>
               calls[b].key # k /\ ResolvedName(b) # keys[k].name,
           \A p \in Paths :
               LET old == Cardinality(ValuesFor(k, p))
                   new == Cardinality(ValuesFor(k, p)')
                   added == IF calls'[a].op = "set" /\ calls'[a].path = p THEN 1 ELSE 0
                   gone == IF calls'[a].op = "deleteValue" /\ calls'[a].path = p THEN 1 ELSE 0
               IN  /\ old \in Nat /\ new \in Nat /\ new + gone <= old + added
                   /\ ~Overwrites => new + gone = old + added
    PROVE  StoreOK'
<1>1. \A j \in Keys : \A t, n : Source(j, t, n)' <=> Source(j, t, n)
  BY SourcesBegin DEF Behind
<1>2. \A b \in Admins : ~(Behind(b) /\ calls[b].key = k)
  BY DEF Behind, Active
<1>3. ASSUME NEW op, NEW p
      PROVE  /\ Pending(op, k, p) = 0
             /\ Pending(op, k, p)' = IF calls'[a].op = op /\ calls'[a].path = p THEN 1 ELSE 0
             /\ \A j \in Keys : j # k => Pending(op, j, p)' = Pending(op, j, p)
  <2>1. Pending(op, k, p) = 0
    BY <1>2 DEF Pending
  <2>2. Pending(op, k, p)' = IF calls'[a].op = op /\ calls'[a].path = p THEN 1 ELSE 0
    BY <1>2 DEF Pending, Behind
  <2>3. ASSUME NEW j \in Keys, j # k PROVE Pending(op, j, p)' = Pending(op, j, p)
    <3>1. ASSUME NEW b \in Admins
          PROVE  Behind(b)' /\ calls'[b].key = j /\ calls'[b].op = op /\ calls'[b].path = p
                 <=> Behind(b) /\ calls[b].key = j /\ calls[b].op = op /\ calls[b].path = p
      BY <2>3 DEF Behind
    <3> QED  BY <3>1 DEF Pending
  <2> QED  BY <2>1, <2>2, <2>3
<1>4. AccountsOK'
  <2> SUFFICES ASSUME NEW t \in RuleTypes, NEW j \in Keys, NEW n \in Names, NEW p \in Paths,
                      Source(j, t, n)'
               PROVE  Accounts(j, t, n, p)'
    BY DEF AccountsOK
  <2>1. Accounts(j, t, n, p)
    BY <1>1 DEF StoreOK, AccountsOK
  <2>2. CASE j # k
    <3>1. ValuesFor(j, p)' = ValuesFor(j, p)
      BY <2>2 DEF ValuesFor
    <3> QED  BY <1>3, <2>1, <2>2, <3>1 DEF Accounts
  <2>3. CASE j = k
    <3>1. Count(PathsOf(vecs[t].entries, n), p) \in Nat
      <4>1. vecs[t].entries \in Seq(Entries(Names, Paths))
        BY DEF RegistryInv, ListInv, Inv, TypeOK, Vec, Entry, Entries
      <4> QED  BY <4>1, PathsOfType, CountOfSeq
    <3> HIDE DEF Count
    <3> QED  BY <1>3, <2>1, <2>3, <3>1 DEF Accounts
  <2> QED  BY <2>2, <2>3
<1>5. BackedOK'
  BY <1>1 DEF StoreOK, BackedOK
<1>6. \A b \in Admins : ReachOK(b)'
  <2> SUFFICES ASSUME NEW b \in Admins PROVE ReachOK(b)'
    OBVIOUS
  <2>1. CASE b = a
    BY <2>1 DEF ReachOK
  <2>2. CASE b # a
    <3>1. ReachOK(b)
      BY DEF StoreOK
    <3>2. Active(b) => TypeOf(b)' = TypeOf(b)
      BY <2>2, CallFacts DEF TypeOf, RegistryInv
    <3> QED  BY <2>2, <3>1, <3>2 DEF ReachOK, Active
  <2> QED  BY <2>1, <2>2
<1> QED  BY <1>4, <1>5, <1>6 DEF StoreOK

\* The operations that call Begin.
LEMMA OperateStore ==
    ASSUME Apart, RegistryInv, StoreOK, NEW a \in Admins, Operate(a)
    PROVE  StoreOK'
<1>1. ASSUME NEW k \in Keys, NEW p
      PROVE  IsFiniteSet(ValuesFor(k, p)) /\ Cardinality(ValuesFor(k, p)) \in Nat
  <2>1. IsFiniteSet(ValuesFor(k, p))
    BY FS_Subset DEF RegistryInv, KeysOK, ValuesFor
  <2> QED  BY <2>1, FS_CardinalityType
<1>2. ASSUME NEW k \in Keys, MayOperate(a, k)
      PROVE  /\ ~Behind(a) /\ Live(k)
             /\ \A b \in Admins : b # a /\ Active(b) =>
                    calls[b].key # k /\ ResolvedName(b) # keys[k].name
  BY <1>2, OwnerAlone DEF MayOperate, Behind, RegistryInv
<1>3. ASSUME NEW k \in Keys, NEW call, Begin(a, call), call.key = k, call.op # "rename",
             keys'[k].name = keys[k].name
      PROVE  /\ calls'[a] = call /\ UNCHANGED vecs /\ ResolvedName(a)' = keys[k].name
             /\ \A b \in Admins : b # a => calls'[b] = calls[b]
  BY <1>3 DEF Begin, ResolvedName, RegistryInv, ListInv, Inv, TypeOK
<1>4. ASSUME NEW k \in Keys, NEW v \in Values, SetValue(a, k, v) PROVE StoreOK'
  <2> DEFINE call == [NoCall EXCEPT !.pc = "post", !.op = "set", !.key = k,
                                    !.path = Prepared[v]]
  <2>1. call.pc = "post" /\ call.op = "set" /\ call.key = k /\ call.path = Prepared[v]
    BY DEF NoCall
  <2>2. MayOperate(a, k) /\ Begin(a, call) /\ (Overwrites \/ v \notin keys[k].values)
    BY <1>4 DEF SetValue
  <2> HIDE DEF call
  <2>3. /\ \A j \in Keys : j # k => keys'[j] = keys[j]
        /\ keys'[k].folder = keys[k].folder /\ keys'[k].name = keys[k].name
        /\ keys'[k].values = keys[k].values \union {v}
    BY <1>4 DEF SetValue, RegistryInv, ListInv, Inv, TypeOK, Key
  <2>4. /\ calls'[a] = call /\ UNCHANGED vecs /\ ResolvedName(a)' = keys[k].name
        /\ \A b \in Admins : b # a => calls'[b] = calls[b]
    BY <1>3, <2>1, <2>2, <2>3
  <2>5. ASSUME NEW p \in Paths
        PROVE  LET old == Cardinality(ValuesFor(k, p))
                   new == Cardinality(ValuesFor(k, p)')
                   added == IF call.path = p THEN 1 ELSE 0
               IN  /\ old \in Nat /\ new \in Nat /\ new <= old + added
                   /\ ~Overwrites => new = old + added
    <3>1. ValuesFor(k, p)' = IF Prepared[v] = p THEN ValuesFor(k, p) \union {v}
                                                ELSE ValuesFor(k, p)
      BY <2>3 DEF ValuesFor
    <3>2. v \in ValuesFor(k, p) => Overwrites
      BY <2>2 DEF ValuesFor
    <3>3. Cardinality(ValuesFor(k, p) \union {v}) =
            IF v \in ValuesFor(k, p) THEN Cardinality(ValuesFor(k, p))
                                     ELSE Cardinality(ValuesFor(k, p)) + 1
      BY <1>1, FS_AddElement
    <3>4. Cardinality(ValuesFor(k, p)) \in Nat
      BY <1>1
    <3>5. CASE Prepared[v] = p
      BY <2>1, <3>1, <3>2, <3>3, <3>4, <3>5
    <3>6. CASE Prepared[v] # p
      BY <2>1, <3>1, <3>4, <3>6
    <3> QED  BY <3>5, <3>6
  <2> QED  BY <1>2, <2>1, <2>2, <2>3, <2>4, <2>5, BeginStore
<1>5. ASSUME NEW k \in Keys, NEW v \in Values, DeleteValue(a, k, v) PROVE StoreOK'
  <2> DEFINE call == [NoCall EXCEPT !.pc = "post", !.op = "deleteValue", !.key = k,
                                    !.path = Prepared[v]]
  <2>1. call.pc = "post" /\ call.op = "deleteValue" /\ call.key = k /\ call.path = Prepared[v]
    BY DEF NoCall
  <2>2. MayOperate(a, k) /\ Begin(a, call) /\ v \in keys[k].values
    BY <1>5 DEF DeleteValue
  <2> HIDE DEF call
  <2>3. /\ \A j \in Keys : j # k => keys'[j] = keys[j]
        /\ keys'[k].folder = keys[k].folder /\ keys'[k].name = keys[k].name
        /\ keys'[k].values = keys[k].values \ {v}
    BY <1>5 DEF DeleteValue, RegistryInv, ListInv, Inv, TypeOK, Key
  <2>4. /\ calls'[a] = call /\ UNCHANGED vecs /\ ResolvedName(a)' = keys[k].name
        /\ \A b \in Admins : b # a => calls'[b] = calls[b]
    BY <1>3, <2>1, <2>2, <2>3
  <2>5. ASSUME NEW p \in Paths
        PROVE  LET old == Cardinality(ValuesFor(k, p))
                   new == Cardinality(ValuesFor(k, p)')
                   gone == IF call.path = p THEN 1 ELSE 0
               IN  old \in Nat /\ new \in Nat /\ new + gone = old
    <3>1. ValuesFor(k, p)' = IF Prepared[v] = p THEN ValuesFor(k, p) \ {v}
                                                ELSE ValuesFor(k, p)
      BY <2>3 DEF ValuesFor
    <3>2. v \in ValuesFor(k, p) <=> Prepared[v] = p
      BY <2>2 DEF ValuesFor
    <3>3. IsFiniteSet(ValuesFor(k, p) \ {v}) /\ Cardinality(ValuesFor(k, p) \ {v}) \in Nat
      BY <1>1, FS_RemoveElement, FS_CardinalityType
    <3> QED  BY <1>1, <2>1, <3>1, <3>2, <3>3, FS_RemoveElement
  <2> QED  BY <1>2, <2>1, <2>2, <2>3, <2>4, <2>5, BeginStore
<1>6. ASSUME NEW k \in Keys, DeleteKey(a, k) PROVE StoreOK'
  <2> DEFINE call == [NoCall EXCEPT !.pc = "post", !.op = "deleteKey", !.key = k]
  <2>1. call.pc = "post" /\ call.op = "deleteKey" /\ call.key = k
    BY DEF NoCall
  <2>2. MayOperate(a, k) /\ Begin(a, call)
    BY <1>6 DEF DeleteKey
  <2> HIDE DEF call
  <2>3. /\ \A j \in Keys : j # k => keys'[j] = keys[j]
        /\ keys'[k].folder = keys[k].folder /\ keys'[k].name = keys[k].name
        /\ keys'[k].values = keys[k].values
    BY <1>6 DEF DeleteKey, RegistryInv, ListInv, Inv, TypeOK, Key
  <2>4. /\ calls'[a] = call /\ UNCHANGED vecs /\ ResolvedName(a)' = keys[k].name
        /\ \A b \in Admins : b # a => calls'[b] = calls[b]
    BY <1>3, <2>1, <2>2, <2>3
  <2>5. ASSUME NEW p
        PROVE  /\ ValuesFor(k, p)' = ValuesFor(k, p)
               /\ Cardinality(ValuesFor(k, p)) \in Nat
    BY <1>1, <2>3 DEF ValuesFor
  <2> QED  BY <1>2, <2>1, <2>2, <2>3, <2>4, <2>5, BeginStore
<1>7. ASSUME NEW k \in Keys, NEW new \in Names, PreRenameKey(a, k, new) PROVE StoreOK'
  <2>1. calls[a].pc = "idle" /\ calls'[a].pc = "rename" /\ UNCHANGED <<keys, vecs>>
        /\ \A b \in Admins : b # a => calls'[b] = calls[b]
    BY <1>7 DEF PreRenameKey, MayOperate, Begin, NoCall, RegistryInv, ListInv, Inv, TypeOK
  <2>2. ~Behind(a) /\ ~Behind(a)' /\ ReachOK(a)'
    BY <2>1 DEF Behind, ReachOK
  <2>3. \A b \in Admins : b # a =>
            /\ Behind(b)' <=> Behind(b)
            /\ ResolvedName(b)' = ResolvedName(b)
    BY <2>1 DEF Behind, ResolvedName
  <2> QED  BY <2>1, <2>2, <2>3, StoreStays
<1> QED  BY <1>4, <1>5, <1>6, <1>7 DEF Operate

\* The rename itself: its callback is pending, or, if it fails, nothing is.
LEMMA RenameStore ==
    ASSUME Apart, RegistryInv, StoreOK, NEW a \in Admins, RenameKey(a)
    PROVE  StoreOK'
<1>0. PICK k \in Keys : k = calls[a].key
  BY CallFacts DEF RenameKey, RegistryInv, Active
<1> DEFINE new == calls[a].target
<1>1. /\ calls[a].pc = "rename" /\ calls[a].op = "rename" /\ calls[a] \in Call
      /\ Active(a) /\ ~Behind(a) /\ UNCHANGED vecs
  BY CallFacts DEF RenameKey, RegistryInv, Active, Behind
<1>2. CASE UNCHANGED keys /\ calls' = [calls EXCEPT ![a] = NoCall]
  <2>1. calls'[a].pc = "idle" /\ \A b \in Admins : b # a => calls'[b] = calls[b]
    BY <1>2 DEF NoCall, RegistryInv, ListInv, Inv, TypeOK
  <2>2. ~Behind(a)' /\ ReachOK(a)'
    BY <2>1 DEF Behind, ReachOK
  <2>3. \A b \in Admins : b # a =>
            /\ Behind(b)' <=> Behind(b)
            /\ ResolvedName(b)' = ResolvedName(b)
    BY <1>2, <2>1 DEF Behind, ResolvedName
  <2> QED  BY <1>1, <1>2, <2>1, <2>2, <2>3, StoreStays
<1>3. CASE /\ Live(k) /\ calls' = [calls EXCEPT ![a].pc = "post"]
           /\ keys' = [keys EXCEPT ![k].name = new]
  <2>1. /\ calls'[a].pc = "post" /\ calls'[a].op = "rename" /\ calls'[a].key = k
        /\ calls'[a].name = calls[a].name
        /\ \A b \in Admins : b # a => calls'[b] = calls[b]
    BY <1>0, <1>1, <1>3 DEF RegistryInv, ListInv, Inv, TypeOK, Call
  <2>2. /\ keys'[k].folder = keys[k].folder /\ keys'[k].values = keys[k].values
        /\ \A j \in Keys : j # k => keys'[j] = keys[j]
    BY <1>1, <1>3 DEF RegistryInv, ListInv, Inv, TypeOK, Key
  <2>3. keys[k].name = calls[a].name /\ keys[k].name \in Territory[a]
    BY <1>0, <1>1 DEF RegistryInv, OwnOK
  <2>4. ResolvedName(a)' = keys[k].name
    BY <2>1, <2>3 DEF ResolvedName
  <2>5. \A b \in Admins : b # a /\ Active(b) =>
            calls[b].key # k /\ ResolvedName(b) # keys[k].name
    BY <1>1, <2>3, OwnerAlone DEF RegistryInv
  <2>6. ASSUME NEW p
        PROVE  /\ ValuesFor(k, p)' = ValuesFor(k, p)
               /\ Cardinality(ValuesFor(k, p)) \in Nat
    <3>1. IsFiniteSet(ValuesFor(k, p))
      BY <1>1, FS_Subset DEF RegistryInv, KeysOK, ValuesFor
    <3> QED  BY <2>2, <3>1, FS_CardinalityType DEF ValuesFor
  <2> QED  BY <1>1, <1>3, <2>1, <2>2, <2>4, <2>5, <2>6, BeginStore
<1> QED  BY <1>0, <1>2, <1>3 DEF RenameKey

----------------------------------------------------------------------------
(* The callback before its update.                                         *)

\* The slice is taken while it reaches every entry.
LEMMA PostCallbackGoesOn ==
    ASSUME RegistryInv, StoreOK, NEW a \in Admins, PostCallback(a), ~Ignored(a)
    PROVE  StoreOK'
<1> DEFINE t == TypeOf(a)
<1>1. /\ calls[a].pc = "post" /\ calls[a] \in Call /\ UNCHANGED <<keys, vecs>>
      /\ calls' = [calls EXCEPT ![a].pc = "lock", ![a].name = ResolvedName(a),
                                ![a].slice = TakenSlice(a)]
  BY DEF PostCallback, RegistryInv, ListInv, Inv, TypeOK
<1>2. /\ calls'[a].pc = "lock" /\ calls'[a].key = calls[a].key /\ calls'[a].op = calls[a].op
      /\ calls'[a].path = calls[a].path /\ calls'[a].name = ResolvedName(a)
      /\ calls'[a].slice = TakenSlice(a)
      /\ \A b \in Admins : b # a => calls'[b] = calls[b]
  BY <1>1 DEF RegistryInv, ListInv, Inv, TypeOK, Call
<1>3. t \in RuleTypes /\ vecs[t] \in Vec
  BY <1>1 DEF Ignored, TypeOf, RegistryInv, ListInv, Inv, TypeOK
<1>4. \A b \in Admins : /\ Behind(b)' <=> Behind(b)
                        /\ ResolvedName(b)' = ResolvedName(b)
  <2> SUFFICES ASSUME NEW b \in Admins
               PROVE  (Behind(b)' <=> Behind(b)) /\ ResolvedName(b)' = ResolvedName(b)
    OBVIOUS
  <2>1. CASE b = a
    BY <1>1, <1>2, <2>1 DEF Behind, ResolvedName
  <2>2. CASE b # a
    <3>1. calls'[b] = calls[b] /\ UNCHANGED keys
      BY <1>1, <1>2, <2>2
    <3> QED  BY <3>1 DEF Behind, ResolvedName
  <2> QED  BY <2>1, <2>2
<1>5. ReachOK(a)'
  <2>1. \A i \in DOMAIN vecs[t].entries : i <= Len(vecs[t].entries)
    BY <1>3 DEF Vec
  <2>2. TypeOf(a)' = t
    BY <1>1, <1>2 DEF TypeOf
  <2>3. calls[a].op \in SliceOperations => calls'[a].slice.len = Len(vecs[t].entries)
    BY <1>2 DEF TakenSlice, SliceOf
  <2> QED  BY <1>1, <1>2, <2>1, <2>2, <2>3 DEF ReachOK
<1> QED  BY <1>1, <1>2, <1>4, <1>5, StoreStays

\* A search of a slice of the list that finds nothing: no entry of the slice has the name.
LEMMA NothingInSlice ==
    ASSUME NEW vec \in Vec, NEW slice \in Slice, NEW name,
           slice.len <= Len(vec.entries), EntryOf(vec, slice, name) = 0
    PROVE  \A i \in 1 .. slice.len : vec.entries[i].process # name
<1> DEFINE Hits == {i \in 1 .. slice.len : vec.entries[i].process = name}
<1>1. 0 = IF Hits # {} THEN Min(Hits) ELSE 0
  BY Zenon DEF EntryOf, FirstIn, SelectInSubSeq
<1>2. Hits \in SUBSET Nat /\ 0 \notin Hits
  OBVIOUS
<1>3. Hits = {}
  <2> HIDE DEF Hits
  <2> QED  BY <1>1, <1>2, MinOfNats
<1> QED  BY <1>3

\* With the lock, a callback that finds nothing has nothing to find.
LEMMA LockRulesStore ==
    ASSUME RegistryInv, StoreOK, NEW a \in Admins, LockRules(a), ~corrupt'
    PROVE  StoreOK'
<1> DEFINE t == TypeOf(a)
           list == vecs[t].entries
           pos == Position(a)
<1>1. /\ calls[a].pc = "lock" /\ calls[a] \in Call /\ UNCHANGED <<keys, vecs>>
      /\ OwnOK(a) /\ calls[a].op \in Operations /\ ReachOK(a)
  BY CallFacts DEF LockRules, RegistryInv, StoreOK, Active
<1>2. ~RunsPast(vecs[t], Searched(a), pos)
  BY DEF LockRules, Strays
<1>3. calls' = [calls EXCEPT ![a].pc = "update", ![a].pos = pos]
  BY DEF LockRules
<1>4. /\ calls'[a].pc = "update" /\ calls'[a].key = calls[a].key /\ calls'[a].op = calls[a].op
      /\ calls'[a].path = calls[a].path /\ calls'[a].name = calls[a].name
      /\ calls'[a].pos = pos
      /\ \A b \in Admins : b # a => calls'[b] = calls[b]
  <2> HIDE DEF pos
  <2> QED  BY <1>1, <1>3 DEF RegistryInv, ListInv, Inv, TypeOK, Call
<1>5. t \in RuleTypes /\ vecs[t] \in Vec
  BY <1>1, CallFacts DEF RegistryInv, ListInv, Inv, TypeOK
<1>6. \A b \in Admins : b # a => /\ Behind(b)' <=> Behind(b)
                                 /\ ResolvedName(b)' = ResolvedName(b)
  BY <1>1, <1>4 DEF Behind, ResolvedName
<1>7. Behind(a) /\ Behind(a)' /\ ResolvedName(a)' = ResolvedName(a)
  BY <1>1, <1>4 DEF Behind, ResolvedName
<1>8. ASSUME pos = 0 PROVE ~Has(list, calls[a].name)
  <2>1. Len(list) \in Nat /\ DOMAIN list = 1 .. Len(list)
    BY <1>5 DEF Vec
  <2>2. CASE calls[a].op \in SliceOperations
    <3>1. Searched(a) = calls[a].slice /\ calls[a].slice \in Slice /\ calls[a].slice.len \in Nat
      BY <1>1, <2>2 DEF Searched, Call, Slice
    <3>2. calls[a].slice.len <= Len(list)
      <4> HIDE DEF pos
      <4> QED  BY <1>2, <1>8, <2>1, <3>1 DEF RunsPast
    <3>3. \A i \in 1 .. calls[a].slice.len : list[i].process # calls[a].name
      BY <1>5, <1>8, <3>1, <3>2, NothingInSlice DEF Position
    <3>4. \A i \in DOMAIN list : list[i].process = calls[a].name => i <= calls[a].slice.len
      BY <1>1, <2>2 DEF ReachOK
    <3> QED  BY <2>1, <3>1, <3>3, <3>4 DEF Has
  <2>3. CASE calls[a].op \notin SliceOperations
    <3>1. EntryOf(vecs[t], SliceOf(vecs[t]), calls[a].name) = 0
      BY <1>8, <2>3 DEF Searched, Position
    <3> QED  BY <1>5, <3>1, NoEntryIsMissing DEF Has, Abstract!Missing
  <2> QED  BY <2>2, <2>3
<1>9. ReachOK(a)'
  <2>1. TypeOf(a)' = t
    BY <1>1, <1>4 DEF TypeOf
  <2> HIDE DEF pos
  <2> QED  BY <1>1, <1>4, <1>8, <2>1 DEF ReachOK
<1> HIDE DEF pos
<1> QED  BY <1>1, <1>4, <1>6, <1>7, <1>9, StoreStays

----------------------------------------------------------------------------
(* The end of a callback.                                                  *)

\* Whose rules the entries are once the call c, on the key k about the name n of the list
\* t, is done: those of other names keep their source, and the name of a key that is
\* deleted or renamed is free for a key without values.
Settles(c, k, t, n) ==
    /\ \A j \in Keys : Source(j, t, n) <=> j = k
    /\ \A u, m : Source(k, u, m) <=> u = t /\ m = n
    /\ \A j \in Keys : \A u, m : u # t => (Source(j, u, m)' <=> Source(j, u, m))
    /\ c.op \in {"set", "deleteValue"} =>
         \A j \in Keys : \A m : Source(j, t, m)' <=> Source(j, t, m)
    /\ c.op \in {"deleteKey", "rename"} =>
         \A j \in Keys : Source(j, t, n)' =>
             keys[j].values = {} /\ \A b \in Admins : ~(Behind(b) /\ calls[b].key = j)
    /\ c.op = "deleteKey" =>
         \A j \in Keys : \A m : m # n => (Source(j, t, m)' <=> Source(j, t, m))
    /\ c.op = "rename" =>
         \A j \in Keys :
             /\ Source(j, t, c.target)' <=> j = k
             /\ ~Source(j, t, c.target)
             /\ \A m : m \notin {n, c.target} => (Source(j, t, m)' <=> Source(j, t, m))

\* The end of a callback settles it.
LEMMA SourcesEnd ==
    ASSUME Apart, RegistryInv, UNCHANGED keys, NEW a \in Admins, NEW k \in Keys,
           NEW t, NEW n, NEW c,
           c = calls[a], k = c.key, t = TypeOf(a), n = ResolvedName(a),
           Behind(a), ~Behind(a)', \A b \in Admins : b # a => calls'[b] = calls[b]
    PROVE  Settles(c, k, t, n)
<1> DEFINE new == c.target
<1>1. Active(a) /\ OwnOK(a) /\ calls[a].pc # "rename" /\ keys[k].folder = t
      /\ c.op \in Operations
  BY CallFacts DEF RegistryInv, Behind, Active, TypeOf
<1>2. \A b \in Admins : b # a /\ Active(b) => calls[b].key # k /\ ResolvedName(b) # n
  BY <1>1, OwnersApart DEF RegistryInv
<1>3. c.op = "rename" => \A b \in Admins : b # a /\ Active(b) => ResolvedName(b) # new
  BY <1>1 DEF RegistryInv, OwnOK, Active, Apart
<1>4. \A b \in Admins : \A u, m : On(b, u, m)' <=> b # a /\ On(b, u, m)
  BY DEF On, Behind, TypeOf, ResolvedName
<1>5. \A u, m : On(a, u, m) <=> u = t /\ m = n
  BY DEF On
<1>6. \A b \in Admins : b # a => ~On(b, t, n) /\ ~(Behind(b) /\ calls[b].key = k)
                              /\ (c.op = "rename" => ~On(b, t, new))
  BY <1>2, <1>3 DEF On, Behind, Active
<1>7. \A b \in Admins : Behind(b)' <=> b # a /\ Behind(b)
  BY DEF Behind
<1>8. \A u, m : Source(k, u, m) <=> u = t /\ m = n
  BY <1>1, <1>5, <1>6 DEF Source, On
<1>9. \A u, m : Source(k, u, m)' <=>
          u = t /\ Live(k) /\ keys[k].name = m /\ \A b \in Admins : ~(b # a /\ On(b, t, m))
  BY <1>1, <1>4, <1>6, <1>7 DEF Source, Live, On
<1>10. ASSUME NEW j \in Keys, j # k, NEW u, NEW m, u # t \/ m # n
       PROVE  Source(j, u, m)' <=> Source(j, u, m)
  <2>1. \A b \in Admins : On(b, u, m)' <=> On(b, u, m)
    BY <1>4, <1>5, <1>10
  <2>2. \A b \in Admins : calls'[b].key = j /\ On(b, u, m)' <=> calls[b].key = j /\ On(b, u, m)
    BY <1>4, <1>5, <1>10
  <2>3. \A b \in Admins : Behind(b)' /\ calls'[b].key = j <=> Behind(b) /\ calls[b].key = j
    BY <1>7, <1>10
  <2> QED  BY <2>1, <2>2, <2>3 DEF Source, Live
<1>11. ASSUME NEW j \in Keys, j # k PROVE ~Source(j, t, n)
  BY <1>5, <1>6, <1>11 DEF Source
<1>12. ASSUME NEW j \in Keys, j # k
       PROVE  Source(j, t, n)' =>
                /\ Live(j) /\ keys[j].name = n /\ keys[j].folder = t
                /\ \A b \in Admins : ~(Behind(b) /\ calls[b].key = j)
  BY <1>4, <1>6, <1>7, <1>12 DEF Source, Live
<1>13. c.op \in {"set", "deleteValue"} =>
           \A j \in Keys : \A m : Source(j, t, m)' <=> Source(j, t, m)
  <2> SUFFICES ASSUME c.op \in {"set", "deleteValue"}, NEW j \in Keys, NEW m
               PROVE  Source(j, t, m)' <=> Source(j, t, m)
    OBVIOUS
  <2>1. Live(k) /\ keys[k].name = n
    BY <1>1 DEF OwnOK, Active, Live, ResolvedName
  <2>2. CASE j = k
    BY <1>6, <1>8, <1>9, <2>1, <2>2
  <2>3. CASE j # k /\ m # n
    BY <1>10, <2>3
  <2>4. CASE j # k /\ m = n
    BY <1>1, <1>11, <1>12, <2>1, <2>4 DEF RegistryInv, KeysOK
  <2> QED  BY <2>2, <2>3, <2>4
<1>14. c.op = "deleteKey" =>
         /\ ~Live(k)
         /\ \A j \in Keys : \A m : m # n => (Source(j, t, m)' <=> Source(j, t, m))
  <2>1. c.op = "deleteKey" => ~Live(k)
    BY <1>1 DEF OwnOK, Active, Live
  <2> QED  BY <1>8, <1>9, <1>10, <2>1
<1>15. c.op = "rename" => Live(k) /\ keys[k].name = new /\ new # n
  BY <1>1 DEF OwnOK, Active, Live, ResolvedName
<1>16. c.op \in {"deleteKey", "rename"} =>
         \A j \in Keys : Source(j, t, n)' =>
             keys[j].values = {} /\ \A b \in Admins : ~(Behind(b) /\ calls[b].key = j)
  <2> SUFFICES ASSUME c.op \in {"deleteKey", "rename"}, NEW j \in Keys, Source(j, t, n)'
               PROVE  /\ keys[j].values = {}
                      /\ \A b \in Admins : ~(Behind(b) /\ calls[b].key = j)
    OBVIOUS
  <2>1. j # k
    BY <1>9, <1>14, <1>15
  <2>2. /\ Live(j) /\ keys[j].name = n /\ keys[j].folder = t
        /\ \A b \in Admins : ~(Behind(b) /\ calls[b].key = j)
    BY <1>12, <2>1
  <2> QED  BY <1>5, <2>1, <2>2 DEF RegistryInv, FreshOK
<1>17. c.op = "rename" =>
         \A j \in Keys : /\ Source(j, t, new)' <=> j = k
                         /\ ~Source(j, t, new)
                         /\ \A m : m \notin {n, new} => (Source(j, t, m)' <=> Source(j, t, m))
  <2> SUFFICES ASSUME c.op = "rename", NEW j \in Keys
               PROVE  /\ Source(j, t, new)' <=> j = k
                      /\ ~Source(j, t, new)
                      /\ \A m : m \notin {n, new} => (Source(j, t, m)' <=> Source(j, t, m))
    OBVIOUS
  <2>1. CASE j = k
    BY <1>6, <1>8, <1>9, <1>15, <2>1
  <2>2. CASE j # k
    <3>1. ~Source(j, t, new)
      BY <1>1, <1>5, <1>6, <1>15, <2>2 DEF Source, RegistryInv, KeysOK
    <3> QED  BY <1>10, <1>15, <2>2, <3>1
  <2> QED  BY <2>1, <2>2
<1>18. \A j \in Keys : \A u, m : u # t => (Source(j, u, m)' <=> Source(j, u, m))
  BY <1>8, <1>9, <1>10
<1>19. \A j \in Keys : Source(j, t, n) <=> j = k
  BY <1>8, <1>11
<1> QED  BY <1>8, <1>13, <1>14, <1>16, <1>17, <1>18, <1>19 DEF Settles

\* What an update of the entry that was found, or of none if there is none, makes of a
\* list with one entry for a name.
LEMMA UpdateEffect ==
    ASSUME NEW vec \in Vec, Single(vec.entries), NEW call \in Call, call.op \in Operations,
           call.name \in Names,
           call.pos = 0 => ~Has(vec.entries, call.name),
           call.pos # 0 => call.pos \in DOMAIN vec.entries
                           /\ vec.entries[call.pos].process = call.name,
           call.op = "set" => call.path \in Paths,
           call.op = "rename" => /\ call.target \in Names /\ call.target # call.name
                                 /\ ~Has(vec.entries, call.target)
    PROVE  LET old == vec.entries
               new == Updated(call, vec).entries
           IN  /\ Single(new)
               /\ \A m : m # call.name /\ (call.op = "rename" => m # call.target) =>
                    (Has(new, m) <=> Has(old, m)) /\ PathsOf(new, m) = PathsOf(old, m)
               /\ call.op = "set" => \A p :
                    Count(PathsOf(new, call.name), p) =
                      IF call.path = p THEN Count(PathsOf(old, call.name), p) + 1
                                       ELSE Count(PathsOf(old, call.name), p)
               /\ call.op = "deleteValue" =>
                    /\ Has(new, call.name) => Has(old, call.name)
                    /\ \A p : Count(PathsOf(new, call.name), p) =
                         IF call.path = p /\ Count(PathsOf(old, call.name), p) # 0
                         THEN Count(PathsOf(old, call.name), p) - 1
                         ELSE Count(PathsOf(old, call.name), p)
               /\ call.op \in {"deleteKey", "rename"} => ~Has(new, call.name)
               /\ call.op = "rename" =>
                    /\ Has(new, call.target) <=> Has(old, call.name)
                    /\ PathsOf(new, call.target) = PathsOf(old, call.name)
               /\ \A i \in DOMAIN new : Has(old, new[i].process) =>
                    \E j \in DOMAIN old : i <= j /\ old[j].process = new[i].process
<1> DEFINE old == vec.entries
           new == Updated(call, vec).entries
           n == Len(old)
           pos == call.pos
           name == call.name
           target == call.target
           path == call.path
<1>0. /\ Single(old) /\ name \in Names /\ call.op \in Operations
      /\ pos = 0 => ~Has(old, name)
      /\ pos # 0 => pos \in DOMAIN old /\ old[pos].process = name
      /\ call.op = "set" => path \in Paths
      /\ call.op = "rename" => target \in Names /\ target # name /\ ~Has(old, target)
  OBVIOUS
<1>1. /\ old \in Seq(Entries(Names, Paths)) /\ n \in Nat /\ DOMAIN old = 1 .. n
      /\ \A i \in DOMAIN old : i <= i
  BY DEF Vec, Entry, Entries
<1> HIDE DEF old, pos, name, target, path
<1>2. \A i \in DOMAIN old : old[i] \in Entries(Names, Paths) /\ old[i].paths \in Seq(Paths)
  <2>1. \A i \in DOMAIN old : old[i] \in Entries(Names, Paths)
    BY <1>1
  <2> QED  BY <2>1 DEF Entries
<1>3. ~Has(old, name) => PathsOf(old, name) = << >>
  BY DEF PathsOf
<1>4. CASE call.op = "set" /\ pos = 0
  <2> DEFINE e == NewEntry(name, path)
  <2>1. e \in Entries(Names, Paths) /\ e.process = name /\ e.paths = Append(<< >>, path)
    BY <1>0, <1>4 DEF NewEntry, Entries, e
  <2>2. new = Append(old, e)
    BY <1>4 DEF Updated, AddFile, Push, Vec, old, pos, name, target, path
  <2> HIDE DEF e, new
  <2>3. /\ Single(new) /\ PathsOf(new, name) = Append(<< >>, path)
        /\ \A m : m # name => (Has(new, m) <=> Has(old, m)) /\ PathsOf(new, m) = PathsOf(old, m)
    BY <1>0, <1>1, <1>4, <2>1, <2>2, EntryAppended
  <2>4. \A p : Count(Append(<< >>, path), p) = IF path = p THEN Count(<< >>, p) + 1
                                                          ELSE Count(<< >>, p)
    <3>1. << >> \in Seq(Paths) /\ path \in Paths
      BY <1>0, <1>4
    <3> QED  BY <3>1, CountOfAppend
  <2>5. \A p : Count(PathsOf(new, name), p) =
               IF path = p THEN Count(PathsOf(old, name), p) + 1
                                ELSE Count(PathsOf(old, name), p)
    BY <1>0, <1>3, <1>4, <2>3, <2>4
  <2>6. \A i \in DOMAIN new : (i \in DOMAIN old /\ new[i] = old[i]) \/ new[i] = e
    BY <1>1, <2>2
  <2>7. \A i \in DOMAIN new : Has(old, new[i].process) =>
            \E j \in DOMAIN old : i <= j /\ old[j].process = new[i].process
    BY <1>0, <1>1, <1>4, <2>1, <2>6
  <2> QED  BY <1>4, <2>3, <2>5, <2>7 DEF new, old, pos, name, target, path
<1>5. CASE call.op = "set" /\ pos # 0
  <2> DEFINE list == Append(old[pos].paths, path)
  <2>1. list \in Seq(Paths)
    BY <1>0, <1>2, <1>5
  <2>2. new = [old EXCEPT ![pos].paths = list]
    BY <1>5 DEF Updated, AddFile, Vec, old, pos, name, target, path
  <2> HIDE DEF list, new
  <2>3. /\ DOMAIN new = DOMAIN old /\ new[pos].process = name /\ new[pos].paths = list
         /\ \A j \in DOMAIN old : j # pos => new[j] = old[j]
    BY <1>0, <1>1, <1>2, <1>5, <2>2 DEF Entries
  <2>4. Single(old) /\ pos \in DOMAIN old /\ old[pos].process = name
    BY <1>0, <1>5
  <2>5. /\ Single(new) /\ PathsOf(new, name) = list
        /\ \A m : m # name => (Has(new, m) <=> Has(old, m)) /\ PathsOf(new, m) = PathsOf(old, m)
    BY <1>1, <2>1, <2>3, <2>4, EntryChanged
  <2>6. PathsOf(old, name) = old[pos].paths
    BY <1>0, <1>5, PathsOfEntry
  <2>7. \A p : Count(PathsOf(new, name), p) =
               IF path = p THEN Count(PathsOf(old, name), p) + 1
                                ELSE Count(PathsOf(old, name), p)
    BY <1>0, <1>2, <1>5, <2>5, <2>6, CountOfAppend DEF list
  <2>8. DOMAIN new = DOMAIN old /\ \A i \in DOMAIN new : new[i].process = old[i].process
    BY <1>1, <1>2, <2>2 DEF Entries
  <2> QED  BY <1>0, <1>1, <1>5, <2>5, <2>7, <2>8 DEF new, old, pos, name, target, path
<1>6. CASE call.op = "deleteValue" /\ pos # 0
  <2> DEFINE list == RemoveFirst(old[pos].paths, path)
  <2>1. list \in Seq(Paths)
    BY <1>0, <1>2, <1>6, RemoveFirstType
  <2>2. new = [old EXCEPT ![pos].paths = list]
    BY <1>6 DEF Updated, RemoveFile, Vec, old, pos, name, target, path
  <2> HIDE DEF list, new
  <2>3. /\ DOMAIN new = DOMAIN old /\ new[pos].process = name /\ new[pos].paths = list
         /\ \A j \in DOMAIN old : j # pos => new[j] = old[j]
    BY <1>0, <1>1, <1>2, <1>6, <2>2 DEF Entries
  <2>4. Single(old) /\ pos \in DOMAIN old /\ old[pos].process = name
    BY <1>0, <1>6
  <2>5. /\ Single(new) /\ PathsOf(new, name) = list
        /\ \A m : m # name => (Has(new, m) <=> Has(old, m)) /\ PathsOf(new, m) = PathsOf(old, m)
    BY <1>1, <2>1, <2>3, <2>4, EntryChanged
  <2>6. PathsOf(old, name) = old[pos].paths /\ Has(old, name)
    BY <1>0, <1>6, PathsOfEntry
  <2>7. \A p : Count(PathsOf(new, name), p) =
               IF path = p /\ Count(PathsOf(old, name), p) # 0
               THEN Count(PathsOf(old, name), p) - 1
               ELSE Count(PathsOf(old, name), p)
    BY <1>0, <1>2, <1>6, <2>5, <2>6, CountOfRemoveFirst DEF list
  <2>8. DOMAIN new = DOMAIN old /\ \A i \in DOMAIN new : new[i].process = old[i].process
    BY <1>1, <1>2, <2>2 DEF Entries
  <2> QED  BY <1>0, <1>1, <1>6, <2>5, <2>6, <2>7, <2>8 DEF new, old, pos, name, target, path
<1>7. CASE call.op = "deleteKey" /\ pos # 0
  <2>1. new = RemoveAt(old, pos)
    BY <1>7 DEF Updated, ClearRules, Vec, old, pos, name, target, path
  <2> HIDE DEF new
  <2>2. /\ Single(new) /\ ~Has(new, name)
        /\ \A m : m # name => (Has(new, m) <=> Has(old, m)) /\ PathsOf(new, m) = PathsOf(old, m)
    BY <1>0, <1>1, <1>7, <2>1, EntryRemoved
  <2>3. /\ DOMAIN new = 1 .. n - 1
        /\ \A i \in 1 .. n - 1 : new[i] = IF i < pos THEN old[i] ELSE old[i + 1]
    <3>1. new \in Seq(Entries(Names, Paths)) /\ Len(new) = n - 1
          /\ \A i \in 1 .. n - 1 : new[i] = IF i < pos THEN old[i] ELSE old[i + 1]
      BY <1>0, <1>1, <1>7, <2>1, RemoveAtType, RemoveAtShape
    <3> QED  BY <3>1
  <2>4. ASSUME NEW i \in DOMAIN new
        PROVE  \E j \in DOMAIN old : i <= j /\ old[j].process = new[i].process
    <3>1. i \in 1 .. n /\ i + 1 \in 1 .. n /\ i <= i + 1 /\ i <= i
      BY <1>1, <2>3
    <3>2. new[i] = old[i] \/ new[i] = old[i + 1]
      BY <2>3
    <3> QED  BY <1>1, <3>1, <3>2
  <2> QED  BY <1>7, <2>2, <2>4 DEF new, old, pos, name, target, path
<1>8. CASE call.op = "rename" /\ pos # 0
  <2>1. new = [old EXCEPT ![pos].process = target]
    BY <1>8 DEF Updated, RenameRules, Vec, old, pos, name, target, path
  <2> HIDE DEF new
  <2>2. /\ DOMAIN new = DOMAIN old /\ new[pos].process = target
         /\ new[pos].paths = old[pos].paths
         /\ \A j \in DOMAIN old : j # pos => new[j] = old[j]
    BY <1>0, <1>1, <1>2, <1>8, <2>1 DEF Entries
  <2>3. /\ Single(new) /\ ~Has(new, name) /\ Has(new, target)
        /\ PathsOf(new, target) = PathsOf(old, name)
        /\ \A m : m \notin {name, target} =>
             (Has(new, m) <=> Has(old, m)) /\ PathsOf(new, m) = PathsOf(old, m)
    BY <1>0, <1>1, <1>8, <2>2, EntryRenamed
  <2>4. Has(old, name)
    BY <1>0, <1>8, PathsOfEntry
  <2>5. /\ DOMAIN new = DOMAIN old
        /\ \A i \in DOMAIN new : new[i].process \in {old[i].process, target}
    BY <1>1, <1>2, <2>1 DEF Entries
  <2> QED  BY <1>0, <1>1, <1>8, <2>3, <2>4, <2>5 DEF new, old, pos, name, target, path
<1>9. CASE call.op # "set" /\ pos = 0
  <2>1. new = old
    BY <1>0, <1>9 DEF Updated, RemoveFile, ClearRules, RenameRules, Operations, old, pos
  <2>2. \A p : Count(PathsOf(old, name), p) = 0
    BY <1>0, <1>3, <1>9, CountOfNone
  <2>3. call.op = "rename" => PathsOf(old, target) = PathsOf(old, name)
    BY <1>0, <1>9 DEF PathsOf
  <2> HIDE DEF new
  <2> QED  BY <1>0, <1>1, <1>9, <2>1, <2>2, <2>3 DEF new, old, pos, name, target, path
<1> QED  BY <1>0, <1>4, <1>5, <1>6, <1>7, <1>8, <1>9 DEF Operations

\* A callback that is not about a list, or whose value stands for no path, leaves the
\* store as it is.
LEMMA IgnoredStore ==
    ASSUME Apart, RegistryInv, StoreOK, NEW a \in Admins, PostCallback(a), Ignored(a)
    PROVE  StoreOK'
<1>1. PICK c, k, t, n : /\ c = calls[a] /\ k = c.key /\ k \in Keys
                        /\ t = TypeOf(a) /\ n = ResolvedName(a)
  BY CallFacts DEF RegistryInv, Active, PostCallback
<1>2. /\ calls[a].pc = "post" /\ calls'[a].pc = "idle" /\ UNCHANGED <<keys, vecs>>
      /\ Behind(a) /\ ~Behind(a)' /\ \A b \in Admins : b # a => calls'[b] = calls[b]
  BY DEF PostCallback, NoCall, Behind, RegistryInv, ListInv, Inv, TypeOK
<1>3. Settles(c, k, t, n)
  BY <1>1, <1>2, SourcesEnd
<1>4. \A j \in Keys, u \in RuleTypes : \A m : Source(j, u, m)' <=> Source(j, u, m)
  BY <1>1, <1>3 DEF Settles, Ignored, TypeOf
<1>5. ASSUME NEW j \in Keys, NEW u \in RuleTypes, NEW m, Source(j, u, m), NEW p \in Paths, NEW op
      PROVE  op \in {"set", "deleteValue"} => Pending(op, j, p)' = Pending(op, j, p)
  <2>1. keys[j].folder = u
    BY <1>5 DEF Source
  <2>2. ~(calls[a].key = j /\ calls[a].op \in {"set", "deleteValue"} /\ calls[a].path = p)
    BY <2>1 DEF Ignored, Paths
  <2>3. \A b \in Admins : b # a => (Behind(b)' <=> Behind(b))
    BY <1>2 DEF Behind
  <2> QED  BY <1>2, <2>2, <2>3 DEF Pending
<1>6. AccountsOK'
  <2> SUFFICES ASSUME NEW u \in RuleTypes, NEW j \in Keys, NEW m \in Names, NEW p \in Paths,
                      Source(j, u, m)'
               PROVE  Accounts(j, u, m, p)'
    BY DEF AccountsOK
  <2>1. Source(j, u, m) /\ Accounts(j, u, m, p)
    BY <1>4 DEF StoreOK, AccountsOK
  <2>2. ValuesFor(j, p)' = ValuesFor(j, p)
    BY <1>2 DEF ValuesFor
  <2> QED  BY <1>2, <1>5, <2>1, <2>2 DEF Accounts
<1>7. \A b \in Admins : ReachOK(b)'
  BY <1>2 DEF StoreOK, ReachOK, TypeOf
<1> QED  BY <1>2, <1>4, <1>6, <1>7 DEF StoreOK, BackedOK

\* Before an update the list is as UpdateEffect wants it.
LEMMA UpdateApplies ==
    ASSUME Apart, RegistryInv, ~corrupt, StoreOK, NEW a \in Admins, UpdateRules(a)
    PROVE  /\ TypeOf(a) \in RuleTypes /\ vecs[TypeOf(a)] \in Vec
           /\ vecs'[TypeOf(a)].entries = Updated(calls[a], vecs[TypeOf(a)]).entries
           /\ \A u \in RuleTypes : u # TypeOf(a) => vecs'[u] = vecs[u]
           /\ calls[a] \in Call /\ calls[a].op \in Operations /\ calls[a].name \in Names
           /\ calls[a].op = "set" => calls[a].path \in Paths
           /\ calls[a].op = "rename" =>
                /\ calls[a].target \in Names /\ calls[a].target # calls[a].name
                /\ ~Has(vecs[TypeOf(a)].entries, calls[a].target)
           /\ Single(vecs[TypeOf(a)].entries)
           /\ calls[a].pos = 0 => ~Has(vecs[TypeOf(a)].entries, calls[a].name)
           /\ calls[a].pos # 0 =>
                /\ calls[a].pos \in DOMAIN vecs[TypeOf(a)].entries
                /\ vecs[TypeOf(a)].entries[calls[a].pos].process = calls[a].name
<1>1. PICK c, k, t, vec : /\ c = calls[a] /\ k = c.key /\ t = TypeOf(a) /\ vec = vecs[t]
                          /\ k \in Keys /\ t \in RuleTypes
  BY CallFacts DEF RegistryInv, Active, UpdateRules
<1>2. c.name = ResolvedName(a) /\ c \in Call
  BY <1>1, CallFacts DEF RegistryInv, OwnOK, Active, UpdateRules
<1>3. /\ calls[a].pc = "update" /\ calls'[a].pc = "idle" /\ UNCHANGED keys
      /\ Behind(a) /\ ~Behind(a)' /\ \A b \in Admins : b # a => calls'[b] = calls[b]
  BY DEF UpdateRules, Finish, NoCall, Behind, RegistryInv, ListInv, Inv, TypeOK
<1>4. /\ c.name \in Names /\ c.op \in Operations
      /\ (c.op = "set" => c.path \in Paths)
      /\ (c.op = "rename" => c.target \in Names /\ c.target # c.name)
  <2>1. OwnOK(a) /\ CallOK(calls[a])
    BY DEF RegistryInv, ListInv, Inv
  <2> QED  BY <1>1, <1>3, <2>1 DEF OwnOK, CallOK, ResolvedName
<1>5. /\ vec \in Vec /\ vecs'[t].entries = Updated(c, vec).entries
      /\ \A u \in RuleTypes : u # t => vecs'[u] = vecs[u]
  BY <1>1, <1>2, UpdateIsMade DEF RegistryInv, ListInv, Inv, TypeOK
<1>6. Settles(c, k, t, c.name)
  BY <1>1, <1>2, <1>3, SourcesEnd
<1>7. /\ Single(vec.entries) /\ (c.pos = 0 => ~Has(vec.entries, c.name))
      /\ (c.pos # 0 => c.pos \in DOMAIN vec.entries /\ vec.entries[c.pos].process = c.name)
      /\ (c.op = "rename" => ~Has(vec.entries, c.target))
  <2>1. ReachOK(a) /\ Placed(a)
    BY DEF StoreOK, RegistryInv, ListInv
  <2>2. c.op = "rename" => ~Has(vec.entries, c.target)
    BY <1>1, <1>4, <1>6 DEF StoreOK, BackedOK, Settles
  <2> QED  BY <1>1, <1>2, <1>3, <1>4, <2>1, <2>2 DEF StoreOK, ReachOK, Placed, Abstract!First
<1> QED  BY <1>1, <1>2, <1>4, <1>5, <1>7

\* The entry of a name moves towards the front of its list, if at all.
LEMMA UpdateKeepsPlaces ==
    ASSUME Apart, RegistryInv, ~corrupt, StoreOK, NEW a \in Admins, UpdateRules(a),
           NEW u \in RuleTypes,
           NEW i \in DOMAIN vecs'[u].entries,
           Has(vecs[u].entries, vecs'[u].entries[i].process)
    PROVE  \E j \in DOMAIN vecs[u].entries :
               i <= j /\ vecs[u].entries[j].process = vecs'[u].entries[i].process
<1>1. CASE u # TypeOf(a)
  <2>1. vecs'[u] = vecs[u] /\ vecs[u] \in Vec
    BY <1>1, UpdateApplies DEF RegistryInv, ListInv, Inv, TypeOK
  <2>2. i \in Nat /\ i \in DOMAIN vecs[u].entries
    BY <2>1 DEF Vec
  <2> QED  BY <2>1, <2>2
<1>2. CASE u = TypeOf(a)
  <2>1. PICK c, vec : c = calls[a] /\ vec = vecs[u] /\ vecs'[u].entries = Updated(c, vec).entries
    BY <1>2, UpdateApplies
  <2>2. \A p \in DOMAIN Updated(c, vec).entries :
          Has(vec.entries, Updated(c, vec).entries[p].process) =>
            \E j \in DOMAIN vec.entries :
              p <= j /\ vec.entries[j].process = Updated(c, vec).entries[p].process
    BY <1>2, <2>1, UpdateApplies, UpdateEffect
  <2> QED  BY <2>1, <2>2
<1> QED  BY <1>1, <1>2

\* The update catches up with the registry: the entry of the name has the path more or
\* less, or is gone, or has the new name.
LEMMA UpdateStore ==
    ASSUME Apart, RegistryInv, ~corrupt, StoreOK, NEW a \in Admins, UpdateRules(a)
    PROVE  StoreOK'
<1>1. PICK c, k, t, vec : /\ c = calls[a] /\ k = c.key /\ t = TypeOf(a) /\ vec = vecs[t]
                          /\ k \in Keys /\ t \in RuleTypes
  BY CallFacts DEF RegistryInv, Active, UpdateRules
<1> DEFINE n == c.name
           new == c.target
           op == c.op
           path == c.path
           old == vec.entries
           list == Updated(c, vec).entries
<1>2. n = ResolvedName(a)
  BY <1>1, CallFacts DEF RegistryInv, OwnOK, Active, UpdateRules
<1>3. /\ calls[a].pc = "update" /\ calls'[a].pc = "idle" /\ UNCHANGED keys
      /\ Behind(a) /\ ~Behind(a)' /\ \A b \in Admins : b # a => calls'[b] = calls[b]
  BY DEF UpdateRules, Finish, NoCall, Behind, RegistryInv, ListInv, Inv, TypeOK
<1>4. /\ n \in Names /\ op \in Operations
      /\ (op = "set" => path \in Paths)
      /\ (op = "rename" => new \in Names /\ new # n)
  BY <1>1, UpdateApplies
<1>5. /\ vec \in Vec /\ vecs'[t].entries = list
      /\ \A u \in RuleTypes : u # t => vecs'[u] = vecs[u]
  BY <1>1, UpdateApplies
<1>6. Settles(c, k, t, n)
  BY <1>1, <1>2, <1>3, SourcesEnd
<1>7. /\ Single(old) /\ (c.pos = 0 => ~Has(old, n))
      /\ (c.pos # 0 => c.pos \in DOMAIN old /\ old[c.pos].process = n)
      /\ (op = "rename" => ~Has(old, new))
  BY <1>1, UpdateApplies
<1>8. /\ Single(list)
      /\ \A m : m # n /\ (op = "rename" => m # new) =>
           (Has(list, m) <=> Has(old, m)) /\ PathsOf(list, m) = PathsOf(old, m)
      /\ op = "set" => \A p :
           Count(PathsOf(list, n), p) = IF path = p THEN Count(PathsOf(old, n), p) + 1
                                                    ELSE Count(PathsOf(old, n), p)
      /\ op = "deleteValue" =>
           /\ Has(list, n) => Has(old, n)
           /\ \A p : Count(PathsOf(list, n), p) =
                IF path = p /\ Count(PathsOf(old, n), p) # 0
                THEN Count(PathsOf(old, n), p) - 1 ELSE Count(PathsOf(old, n), p)
      /\ op \in {"deleteKey", "rename"} => ~Has(list, n)
      /\ op = "rename" =>
           (Has(list, new) <=> Has(old, n)) /\ PathsOf(list, new) = PathsOf(old, n)
      /\ \A i \in DOMAIN list : Has(old, list[i].process) =>
           \E j \in DOMAIN old : i <= j /\ old[j].process = list[i].process
  <2>1. c \in Call
    BY <1>1, CallFacts DEF RegistryInv
  <2> QED  BY <1>4, <1>5, <1>7, <2>1, UpdateEffect
<1>9. ASSUME NEW act, NEW p
      PROVE  /\ Pending(act, k, p) = IF op = act /\ path = p THEN 1 ELSE 0
             /\ Pending(act, k, p)' = 0
             /\ \A j \in Keys : j # k => Pending(act, j, p)' = Pending(act, j, p)
  <2>1. \A b \in Admins : b # a => ~(Behind(b) /\ calls[b].key = k)
    BY <1>1, <1>3, OwnersApart DEF RegistryInv, Behind, Active
  <2>2. \A b \in Admins : b # a => (Behind(b)' <=> Behind(b))
    BY <1>3 DEF Behind
  <2> QED  BY <1>1, <1>3, <2>1, <2>2 DEF Pending
<1>10. \A p \in Paths : Count(PathsOf(old, n), p) \in Nat
  <2>1. old \in Seq(Entries(Names, Paths))
    BY <1>5 DEF Vec, Entry, Entries
  <2> QED  BY <2>1, PathsOfType, CountOfSeq
<1> HIDE DEF n, new, op, path, old, list
<1>11. ASSUME NEW u \in RuleTypes, NEW m, ~(u = t /\ m = n), ~(u = t /\ op = "rename" /\ m = new)
       PROVE  /\ \A j \in Keys : Source(j, u, m)' <=> Source(j, u, m)
              /\ ~Source(k, u, m)
              /\ Has(vecs'[u].entries, m) <=> Has(vecs[u].entries, m)
              /\ PathsOf(vecs'[u].entries, m) = PathsOf(vecs[u].entries, m)
  <2>1. CASE u # t
    BY <1>5, <1>6, <1>11, <2>1 DEF Settles
  <2>2. CASE u = t
    <3>1. \A j \in Keys : Source(j, t, m)' <=> Source(j, t, m)
      BY <1>4, <1>6, <1>11, <2>2 DEF Settles, Operations, op, new
    <3>2. vecs[t].entries = old
      BY <1>1 DEF old
    <3>3. /\ Has(list, m) <=> Has(old, m)
          /\ PathsOf(list, m) = PathsOf(old, m)
      BY <1>8, <1>11, <2>2
    <3>4. ~Source(k, t, m)
      BY <1>6, <1>11, <2>2 DEF Settles
    <3> QED  BY <1>5, <2>2, <3>1, <3>2, <3>3, <3>4
  <2> QED  BY <2>1, <2>2
<1>12. BackedOK'
  <2> SUFFICES ASSUME NEW u \in RuleTypes, NEW m \in Names, Has(vecs'[u].entries, m)
               PROVE  \E j \in Keys : Source(j, u, m)'
    BY DEF BackedOK
  <2>1. CASE ~(u = t /\ m = n) /\ ~(u = t /\ op = "rename" /\ m = new)
    BY <1>11, <2>1 DEF StoreOK, BackedOK
  <2>2. CASE u = t /\ m = n
    <3>1. op \in {"set", "deleteValue"}
      BY <1>4, <1>5, <1>8, <2>2 DEF Operations
    <3>2. Source(k, t, n)'
      BY <1>1, <1>6, <3>1 DEF Settles, op
    <3> QED  BY <1>1, <2>2, <3>2
  <2>3. CASE u = t /\ op = "rename" /\ m = new
    BY <1>1, <1>6, <2>3 DEF Settles, op, new
  <2> QED  BY <2>1, <2>2, <2>3
<1>13. AccountsOK'
  <2> SUFFICES ASSUME NEW u \in RuleTypes, NEW j \in Keys, NEW m \in Names, NEW p \in Paths,
                      Source(j, u, m)'
               PROVE  Accounts(j, u, m, p)'
    BY DEF AccountsOK
  <2>1. ValuesFor(j, p)' = ValuesFor(j, p)
    BY <1>3 DEF ValuesFor
  <2>2. CASE ~(u = t /\ m = n) /\ ~(u = t /\ op = "rename" /\ m = new)
    <3>1. Source(j, u, m) /\ j # k
      BY <1>11, <2>2
    <3>2. Accounts(j, u, m, p)
      BY <3>1 DEF StoreOK, AccountsOK
    <3>3. PathsOf(vecs'[u].entries, m) = PathsOf(vecs[u].entries, m)
      BY <1>11, <2>2
    <3> QED  BY <1>9, <2>1, <3>1, <3>2, <3>3 DEF Accounts
  <2>3. CASE u = t /\ m = n /\ op \in {"set", "deleteValue"}
    <3>1. j = k /\ Accounts(k, t, n, p)
      BY <1>1, <1>4, <1>6, <2>3 DEF Settles, op, StoreOK, AccountsOK
    <3>2. vecs[t].entries = old /\ vecs'[t].entries = list
      BY <1>1, <1>5 DEF old
    <3>3. Cardinality(ValuesFor(k, p)) \in Nat
      <4>1. IsFiniteSet(ValuesFor(k, p))
        BY <1>1, FS_Subset DEF RegistryInv, KeysOK, ValuesFor
      <4> QED  BY <4>1, FS_CardinalityType
    <3>4. /\ op = "set" => Count(PathsOf(list, n), p)
                            = Count(PathsOf(old, n), p) + Pending("set", k, p)
          /\ Pending("set", k, p) \in {0, 1} /\ Pending("deleteValue", k, p) \in {0, 1}
          /\ op = "set" => Pending("deleteValue", k, p) = 0
          /\ op = "deleteValue" =>
               /\ Pending("set", k, p) = 0
               /\ Count(PathsOf(list, n), p) =
                    IF Count(PathsOf(old, n), p) # 0
                    THEN Count(PathsOf(old, n), p) - Pending("deleteValue", k, p)
                    ELSE Count(PathsOf(old, n), p)
          /\ Pending("set", k, p)' = 0 /\ Pending("deleteValue", k, p)' = 0
      <4>1. /\ Pending("set", k, p) = IF op = "set" /\ path = p THEN 1 ELSE 0
            /\ Pending("deleteValue", k, p) = IF op = "deleteValue" /\ path = p THEN 1 ELSE 0
            /\ Pending("set", k, p)' = 0 /\ Pending("deleteValue", k, p)' = 0
        BY <1>9
      <4>2. Count(PathsOf(old, n), p) \in Nat
        BY <1>10
      <4> HIDE DEF Count
      <4> QED  BY <1>8, <4>1, <4>2
    <3>5. Count(PathsOf(old, n), p) \in Nat
      BY <1>10
    <3> HIDE DEF Count
    <3> QED  BY <2>1, <2>3, <3>1, <3>2, <3>3, <3>4, <3>5 DEF Accounts
  <2>4. CASE u = t /\ m = n /\ op \in {"deleteKey", "rename"}
    <3>1. keys[j].values = {} /\ \A b \in Admins : ~(Behind(b) /\ calls[b].key = j)
      BY <1>6, <2>4 DEF Settles, op
    <3>2. ValuesFor(j, p) = {} /\ Cardinality(ValuesFor(j, p)) = 0
      BY <3>1, FS_EmptySet DEF ValuesFor
    <3>3. \A act : Pending(act, j, p)' = 0
      <4>1. \A act : Pending(act, j, p) = 0
        BY <3>1 DEF Pending
      <4> QED  BY <1>1, <1>9, <4>1
    <3>4. Count(PathsOf(list, n), p) = 0
      BY <1>8, <2>4, CountOfNone DEF PathsOf
    <3> QED  BY <1>5, <2>1, <2>4, <3>2, <3>3, <3>4 DEF Accounts
  <2>5. CASE u = t /\ op = "rename" /\ m = new
    <3>1. j = k /\ Accounts(k, t, n, p)
      BY <1>1, <1>4, <1>6, <2>5 DEF Settles, op, new, StoreOK, AccountsOK
    <3>2. vecs[t].entries = old /\ PathsOf(vecs'[t].entries, new) = PathsOf(old, n)
      BY <1>1, <1>5, <1>8, <2>5 DEF old
    <3>3. \A act \in {"set", "deleteValue"} : Pending(act, k, p) = 0 /\ Pending(act, k, p)' = 0
      BY <1>9, <2>5
    <3> QED  BY <2>1, <2>5, <3>1, <3>2, <3>3 DEF Accounts
  <2> QED  BY <1>4, <2>2, <2>3, <2>4, <2>5 DEF Operations
<1>14. \A b \in Admins : ReachOK(b)'
  <2> SUFFICES ASSUME NEW b \in Admins, b # a, Behind(b) PROVE ReachOK(b)'
    BY <1>3 DEF ReachOK, Behind
  <2>1. ReachOK(b) /\ calls'[b] = calls[b] /\ TypeOf(b)' = TypeOf(b)
    BY <1>3 DEF StoreOK, TypeOf
  <2>2. CASE TypeOf(b) # t
    <3>1. calls[b].pc \in {"lock", "update"} => vecs'[TypeOf(b)] = vecs[TypeOf(b)]
      BY <1>5, <2>2, CallFacts DEF RegistryInv
    <3> QED  BY <2>1, <3>1 DEF ReachOK
  <2>3. CASE TypeOf(b) = t /\ calls[b].pc \in {"lock", "update"}
    <3>1. calls[b].name = ResolvedName(b) /\ ResolvedName(b) # n
          /\ (op = "rename" => ResolvedName(b) # new)
      BY <1>1, <1>2, <1>3, <2>3, OwnersApart
      DEF RegistryInv, OwnOK, Active, Behind, Apart, op, new
    <3>2. vecs[t].entries = old /\ vecs'[t].entries = list
      BY <1>1, <1>5 DEF old
    <3>3. Has(list, calls[b].name) <=> Has(old, calls[b].name)
      BY <1>8, <3>1
    <3>4. ASSUME NEW i \in DOMAIN list, list[i].process = calls[b].name,
                 calls[b].pc = "lock", calls[b].op \in SliceOperations
          PROVE  i <= calls[b].slice.len
      <4>1. Has(old, list[i].process)
        BY <3>3, <3>4 DEF Has
      <4>2. PICK j \in DOMAIN old : i <= j /\ old[j].process = calls[b].name
        BY <1>8, <3>4, <4>1
      <4>3. j <= calls[b].slice.len
        BY <2>1, <2>3, <3>2, <3>4, <4>2 DEF ReachOK
      <4>4. i \in Nat /\ j \in Nat /\ calls[b].slice.len \in Nat
        <5>1. vecs'[t] \in Vec /\ calls[b] \in Call
          BY <1>1, UpdateRulesInv, CallFacts DEF RegistryInv, ListInv, Inv, TypeOK
        <5>2. DOMAIN list \subseteq Nat /\ DOMAIN old \subseteq Nat
          BY <1>5, <3>2, <5>1 DEF Vec, old
        <5> QED  BY <5>1, <5>2 DEF Call, Slice
      <4> QED  BY <4>2, <4>3, <4>4
    <3> QED  BY <2>1, <2>3, <3>2, <3>3, <3>4 DEF ReachOK
  <2>4. CASE calls[b].pc \notin {"lock", "update"}
    BY <2>1, <2>4 DEF ReachOK
  <2> QED  BY <2>2, <2>3, <2>4
<1>15. \A u \in RuleTypes : Single(vecs'[u].entries)
  BY <1>5, <1>8 DEF StoreOK
<1> QED  BY <1>12, <1>13, <1>14, <1>15 DEF StoreOK

----------------------------------------------------------------------------
(* MirrorInv is inductive.                                                 *)

\* Nothing to account for at first.
LEMMA MirrorInit == ASSUME Init PROVE MirrorInv
<1>1. /\ \A a \in Admins : calls[a].pc = "idle"
      /\ \A t \in RuleTypes : vecs[t].entries = << >>
      /\ \A k \in Keys : ~Live(k)
  BY DEF Init, NoCall, EmptyVec, Absent, Live
<1>2. \A t \in RuleTypes : Single(vecs[t].entries) /\ \A n : ~Has(vecs[t].entries, n)
  <2>1. DOMAIN << >> = {}
    OBVIOUS
  <2>2. \A t \in RuleTypes : DOMAIN vecs[t].entries = {}
    BY <1>1, <2>1
  <2> QED  BY <2>2 DEF Single, Has
<1>3. \A a \in Admins : ~Behind(a) /\ ReachOK(a)
  BY <1>1 DEF Behind, ReachOK
<1>4. \A k \in Keys : \A t, n : ~Source(k, t, n)
  BY <1>1, <1>3 DEF Source, On
<1>5. AccountsOK /\ BackedOK
  BY <1>2, <1>4 DEF AccountsOK, BackedOK
<1> QED  BY <1>2, <1>3, <1>5, RegistryInit DEF MirrorInv, StoreOK

\* Every step keeps MirrorInv, as long as no callback fails.
LEMMA MirrorStep == ASSUME Apart, ~Faults, MirrorInv, [Next]_vars PROVE MirrorInv'
<1>1. RegistryInv /\ RegistryInv'
  BY RegistryStep DEF MirrorInv
<1>2. SUFFICES ASSUME ~corrupt' PROVE StoreOK'
  BY <1>1 DEF MirrorInv
<1>3. ~corrupt
  BY <1>2, OnceCorrupt
<1>4. StoreOK
  BY <1>3 DEF MirrorInv
<1>5. ASSUME UNCHANGED <<keys, vecs, calls>> PROVE StoreOK'
  <2>1. \A b \in Admins : (Behind(b)' <=> Behind(b)) /\ ResolvedName(b)' = ResolvedName(b)
    BY <1>5 DEF Behind, ResolvedName
  <2> QED  BY <1>1, <1>4, <1>5, <2>1, StoreStays
<1>6. ASSUME NEW f \in Filters, SearchStep(f) PROVE StoreOK'
  BY <1>5, <1>6 DEF SearchStep, StartSearch, LookupProcess, ScanPaths
<1>7. ASSUME NEW a \in Admins, Callback(a) PROVE StoreOK'
  <2>1. CASE PostCallback(a)
    BY <1>1, <1>4, <2>1, IgnoredStore, PostCallbackGoesOn
  <2> QED
    BY <1>1, <1>2, <1>3, <1>4, <1>7, <2>1, RenameStore, LockRulesStore, UpdateStore
    DEF Callback, FailCallback, FailUpdate
<1>8. ASSUME NEW k \in Keys, NEW folder \in Folders, NEW name \in Names,
             CreateKey(k, folder, name)
      PROVE  StoreOK'
  BY <1>1, <1>4, <1>8, CreateKeyStore
<1>9. ASSUME NEW a \in Admins, Operate(a) PROVE StoreOK'
  BY <1>1, <1>4, <1>9, OperateStore
<1> QED  BY <1>5, <1>6, <1>7, <1>8, <1>9 DEF Next, vars

\* MirrorInv holds throughout.
LEMMA MirrorHolds == ASSUME Apart, ~Faults PROVE Spec => []MirrorInv
<1>1. Init => MirrorInv
  BY MirrorInit
<1>2. MirrorInv /\ [Next]_vars => MirrorInv'
  BY MirrorStep
<1> QED  BY <1>1, <1>2, PTL DEF Spec

----------------------------------------------------------------------------
(* The theorems.                                                           *)

\* A process has at most one entry in a list, for any number of administrators who keep
\* to names of their own, also when values are set again: an addition never misses an
\* entry that is there, and a rename never meets one of the new name.
THEOREM EntriesAreUnique == ASSUME Apart, ~Faults PROVE Spec => []UniqueEntries
<1>1. MirrorInv => UniqueEntries
  BY DEF MirrorInv, StoreOK, Single, UniqueEntries
<1> QED  BY <1>1, MirrorHolds, PTL

\* With no callback pending, a live key is the source of the entry of its name.
LEMMA QuietSource ==
    ASSUME MirrorInv, Quiet, NEW k \in Keys, NEW t, NEW n
    PROVE  /\ Source(k, t, n) <=> Live(k) /\ keys[k].folder = t /\ keys[k].name = n
           /\ \A op, p : Pending(op, k, p) = 0
<1>1. \A a \in Admins : ~Behind(a)
  BY DEF Quiet, Behind
<1> QED  BY <1>1 DEF Source, On, Pending

\* A list of the store is a list of entries, and the values that ask for a path are
\* finitely many.
LEMMA MirrorTypes ==
    ASSUME MirrorInv
    PROVE  /\ \A t \in RuleTypes :
                vecs[t] \in Vec /\ vecs[t].entries \in Seq(Entries(Names, Paths))
           /\ \A k \in Keys : \A p :
                IsFiniteSet(ValuesFor(k, p)) /\ Cardinality(ValuesFor(k, p)) \in Nat
           /\ \A k \in Keys : Live(k) => keys[k].name \in Names
<1>1. Inv /\ KeysOK
  BY DEF MirrorInv, RegistryInv, ListInv
<1>2. \A t \in RuleTypes : vecs[t] \in Vec /\ vecs[t].entries \in Seq(Entries(Names, Paths))
  BY <1>1 DEF Inv, TypeOK, Vec, Entry, Entries
<1>3. ASSUME NEW k \in Keys, NEW p PROVE IsFiniteSet(ValuesFor(k, p))
  BY <1>1, FS_Subset DEF KeysOK, ValuesFor
<1>4. \A k \in Keys : Live(k) => keys[k].name \in Names
  BY <1>1 DEF Inv, KeyOK, Live
<1> QED  BY <1>2, <1>3, <1>4, FS_CardinalityType

\* With no callback pending, every path that a value of a live rule key stands for is in
\* the entry of its process, whatever the interleaving of the callbacks was.
THEOREM NoRuleIsLost == ASSUME Apart, ~Faults PROVE Spec => []NoLostRule
<1>1. MirrorInv => NoLostRule
  <2> SUFFICES ASSUME MirrorInv, Quiet, NEW k \in Keys, NEW p \in Paths,
                      keys[k].folder \in RuleTypes, Asks(k, keys[k].name, p)
               PROVE  Listed(keys[k].folder, keys[k].name, p)
    BY DEF NoLostRule
  <2> DEFINE t == keys[k].folder
             n == keys[k].name
             list == vecs[t].entries
             pos == EntryOf(vecs[t], SliceOf(vecs[t]), n)
  <2>1. StoreOK /\ Live(k) /\ n \in Names /\ ValuesFor(k, p) # {}
    BY MirrorTypes DEF Quiet, MirrorInv, Asks, ValuesFor
  <2>2. Accounts(k, t, n, p) /\ \A op : Pending(op, k, p) = 0
    BY <2>1, QuietSource DEF StoreOK, AccountsOK
  <2>3. Cardinality(ValuesFor(k, p)) \in Nat /\ Cardinality(ValuesFor(k, p)) # 0
    BY <2>1, MirrorTypes, FS_EmptySet
  <2>4. Count(PathsOf(list, n), p) # 0 /\ PathsOf(list, n) \in Seq(Paths)
    <3>1. PathsOf(list, n) \in Seq(Paths)
      BY MirrorTypes, PathsOfType
    <3>2. Count(PathsOf(list, n), p) \in Nat
      BY <3>1, CountOfSeq
    <3> HIDE DEF Count
    <3> QED  BY <2>2, <2>3, <3>1, <3>2 DEF Accounts
  <2>5. p \in Range(PathsOf(list, n))
    BY <2>4, CountOfSeq
  <2>6. Has(list, n)
    BY <2>4, CountOfNone DEF PathsOf
  <2>7. pos # 0
    BY <2>6, MirrorTypes, NoEntryIsMissing DEF Has, Abstract!Missing
  <2>8. pos \in DOMAIN list /\ list[pos].process = n
    <3>1. SliceOf(vecs[t]) \in Slice
      <4>1. Len(list) \in Nat /\ vecs[t].buffer \in Nat
        BY MirrorTypes DEF Vec
      <4> QED  BY <4>1 DEF SliceOf, Slice
    <3> QED  BY <2>7, <3>1, MirrorTypes, EntryIsFirst DEF Abstract!First
  <2>9. PathsOf(list, n) = list[pos].paths
    <3> HIDE DEF pos, list, n
    <3>1. Single(list)
      BY <2>1 DEF StoreOK, list
    <3> QED  BY <2>8, <3>1, PathsOfEntry
  <2> QED  BY <2>5, <2>7, <2>9 DEF Listed
<1> QED  BY <1>1, MirrorHolds, PTL

\* With no callback pending, every path of every entry is still asked for by a value of a
\* live key, unless values are set again: a callback has removed, cleared or renamed all
\* that its operation took away.
THEOREM NoRuleIsAGhost == ASSUME Apart, ~Faults, ~Overwrites PROVE Spec => []NoGhostRule
<1>1. MirrorInv => NoGhostRule
  <2> SUFFICES ASSUME MirrorInv, Quiet, NEW t \in RuleTypes, NEW i \in DOMAIN vecs[t].entries,
                      NEW p \in Range(vecs[t].entries[i].paths)
               PROVE  \E k \in Keys :
                        keys[k].folder = t /\ Asks(k, vecs[t].entries[i].process, p)
    BY DEF NoGhostRule
  <2> DEFINE list == vecs[t].entries
             n == list[i].process
  <2>1. StoreOK /\ Single(list) /\ list \in Seq(Entries(Names, Paths))
    BY MirrorTypes DEF Quiet, MirrorInv, StoreOK
  <2>2. Has(list, n) /\ PathsOf(list, n) = list[i].paths
    <3> HIDE DEF list
    <3> QED  BY <2>1, PathsOfEntry DEF list
  <2>3. n \in Names /\ list[i].paths \in Seq(Paths) /\ p \in Paths
    <3>1. list[i] \in Entries(Names, Paths)
      BY <2>1
    <3> QED  BY <3>1 DEF Entries, Range
  <2>4. PICK k \in Keys : Source(k, t, n)
    BY <2>1, <2>2, <2>3 DEF StoreOK, BackedOK
  <2>5. /\ Accounts(k, t, n, p) /\ Live(k) /\ keys[k].folder = t /\ keys[k].name = n
        /\ \A op : Pending(op, k, p) = 0
    BY <2>1, <2>3, <2>4, QuietSource DEF StoreOK, AccountsOK
  <2>6. Count(PathsOf(list, n), p) \in Nat /\ Count(PathsOf(list, n), p) # 0
    BY <2>2, <2>3, CountOfSeq
  <2>7. Cardinality(ValuesFor(k, p)) # 0
    <3>1. Cardinality(ValuesFor(k, p)) \in Nat
      BY MirrorTypes
    <3> HIDE DEF Count
    <3> QED  BY <2>5, <2>6, <3>1 DEF Accounts
  <2>8. ValuesFor(k, p) # {}
    BY <2>7, FS_EmptySet
  <2> QED  BY <2>5, <2>8 DEF Asks, ValuesFor
<1> QED  BY <1>1, MirrorHolds, PTL
====
