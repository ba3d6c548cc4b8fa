---- MODULE RuleStore ----
(***************************************************************************)
(* One list of protection rules of src/src/rules_manager.rs: a             *)
(* Vec<FileAccessEntry> with the operations on it, without their locks.    *)
(*                                                                         *)
(* An entry pairs a process name with its file paths.  Names and paths     *)
(* are values that compare equal exactly when equals_no_case does.  The    *)
(* vector keeps its capacity and the generation of its buffer, because     *)
(* some callers read it through a slice taken earlier: a push into a full  *)
(* vector frees the buffer such a slice still points to.                   *)
(***************************************************************************)
EXTENDS Naturals, SequencesExt

CONSTANT MinCapacity    \* capacity of the first allocation of a Vec

ASSUME MinCapacityAssumption == MinCapacity \in Nat \ {0}

EmptyVec == [entries |-> << >>, capacity |-> 0, buffer |-> 0]

NewEntry(name, path) == [process |-> name, paths |-> <<path>>]

\* try_push: reserve room for one more element, then push.
Push(vec, entry) ==
    IF Len(vec.entries) < vec.capacity
    THEN [vec EXCEPT !.entries = Append(@, entry)]
    ELSE [entries  |-> Append(vec.entries, entry),
          capacity |-> IF vec.capacity = 0 THEN MinCapacity ELSE 2 * vec.capacity,
          buffer   |-> vec.buffer + 1]

(***************************************************************************)
(* Slices: a pointer into a buffer and a length.                           *)
(***************************************************************************)
NoSlice == [buffer |-> 0, len |-> 0]

SliceOf(vec) == [buffer |-> vec.buffer, len |-> Len(vec.entries)]

\* Does the slice still point into the vector's buffer?
Attached(vec, slice) == slice.len = 0 \/ slice.buffer = vec.buffer

\* Position of the first entry of the slice that satisfies Test, 0 if none,
\* among the elements that are still elements of the vector.
FirstIn(vec, slice, Test(_)) ==
    IF slice.len <= Len(vec.entries)
    THEN SelectInSubSeq(vec.entries, 1, slice.len, Test)
    ELSE SelectInSubSeq(vec.entries, 1, Len(vec.entries), Test)

\* A search of the slice leaves the live elements of the vector: its buffer
\* was freed, or no live element stops it before the end of a longer slice.
RunsPast(vec, slice, pos) ==
    \/ ~Attached(vec, slice)
    \/ pos = 0 /\ slice.len > Len(vec.entries)

(***************************************************************************)
(* The updates, at the position their search returned (0: not found).      *)
(***************************************************************************)
ClearRules(vec, pos) ==
    IF pos = 0 THEN vec ELSE [vec EXCEPT !.entries = RemoveAt(@, pos)]

RenameRules(vec, pos, new) ==
    IF pos = 0 THEN vec ELSE [vec EXCEPT !.entries[pos].process = new]

\* Mutant: the last path or not, the whole entry goes.
RemoveFileEntry(vec, pos, path) == ClearRules(vec, pos)

RemoveFile(vec, pos, path) ==
    IF pos = 0 THEN vec
    ELSE [vec EXCEPT !.entries[pos].paths = RemoveFirst(@, path)]

\* Mutant: an entry for every path.
AddFileEntry(vec, pos, name, path) == Push(vec, NewEntry(name, path))

AddFile(vec, pos, name, path) ==
    IF pos = 0 THEN Push(vec, NewEntry(name, path))
    ELSE [vec EXCEPT !.entries[pos].paths = Append(@, path)]
====
