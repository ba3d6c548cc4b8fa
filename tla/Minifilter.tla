---- MODULE Minifilter ----
(***************************************************************************)
(* The file callbacks of src/src/minifilter.rs: pre_create and             *)
(* pre_set_info decide whether an operation of a process goes on to the    *)
(* file system, from the rules for the process and for its parent.         *)
(*                                                                         *)
(* The rules change and the parent exits while a callback runs, also       *)
(* between the two lists of one search; RulesSearch has what happens       *)
(* inside a list.  The file system is external: an operation that passes   *)
(* takes its effect, and an open with a right that allows modification     *)
(* counts as one.                                                          *)
(***************************************************************************)
EXTENDS Naturals, Sequences

CONSTANTS
    Files,
    Accesses,           \* sets of access rights that opens ask for
    MaxChanges,         \* bound on rule changes
    Faults,             \* may a lookup of a process or of a name fail
    NoFile

ASSUME MinifilterAssumption ==
    /\ NoFile \notin Files
    /\ MaxChanges \in Nat /\ Faults \in BOOLEAN

Roles == {"own", "parent"}
Lists == {"Deny", "ReadOnly"}
Dispositions == {"SUPERSEDE", "OPEN", "CREATE", "OPEN_IF", "OVERWRITE", "OVERWRITE_IF"}

VARIABLES
    rules,      \* the lists with a rule for a role and a file
    changes,    \* rule changes so far
    parentRuns, \* the requestor's parent is running
    op,         \* the operation in progress
    exists      \* the files there are

vars == <<rules, changes, parentRuns, op, exists>>

Targets == Roles \X Files

NoOp == [pc |-> "idle", kind |-> "none", file |-> NoFile, newFile |-> NoFile,
         access |-> {}, disposition |-> "OPEN", checks |-> << >>,
         seen |-> {}, failed |-> FALSE]

Init ==
    /\ rules \in [Targets -> SUBSET Lists]
    /\ changes = 0
    /\ parentRuns \in BOOLEAN
    /\ op = NoOp
    /\ exists \in SUBSET Files

----------------------------------------------------------------------------
(* flt_utils.rs.                                                           *)

\* FILE_ADD_FILE and FILE_ADD_SUBDIRECTORY are FILE_WRITE_DATA and
\* FILE_APPEND_DATA on a directory.
WriteRights ==
    {"FILE_WRITE_DATA", "FILE_WRITE_ATTRIBUTES", "FILE_WRITE_EA", "WRITE_DAC",
     "WRITE_OWNER", "FILE_APPEND_DATA", "FILE_DELETE_CHILD", "DELETE"}

IsWriteAccess(access) == access \intersect WriteRights # {}

IsModifyDisposition(disposition) ==
    disposition \in {"CREATE", "SUPERSEDE", "OVERWRITE", "OVERWRITE_IF", "OPEN_IF"}

----------------------------------------------------------------------------
(* The environment.  op.seen, for properties alone, collects which lists   *)
(* had a rule, and which had none, at some moment of the operation.        *)

Standing(table) ==
    {<<target, list, list \in table[target]>> : target \in Targets, list \in Lists}

ChangeRule(target, list) ==
    LET added == list \notin rules[target]
    IN  /\ changes < MaxChanges /\ changes' = changes + 1
        /\ rules' = [rules EXCEPT ![target] = IF added THEN @ \union {list} ELSE @ \ {list}]
        /\ op' = IF op.pc = "idle" THEN op
                 ELSE [op EXCEPT !.seen = @ \union {<<target, list, added>>}]
        /\ UNCHANGED <<parentRuns, exists>>

ParentExits ==
    /\ parentRuns /\ parentRuns' = FALSE
    /\ UNCHANGED <<rules, changes, op, exists>>

\* The searches of a callback in order, the requestor's before its parent's.
ChecksOf(files) ==
    [i \in 1 .. 2 * Len(files) |->
        IF i <= Len(files) THEN <<"own", files[i]>>
                           ELSE <<"parent", files[i - Len(files)]>>]

Create(file, access, disposition) ==
    /\ op.pc = "idle"
    /\ op' = [NoOp EXCEPT !.pc = "denyList", !.kind = "create", !.file = file,
                          !.access = access, !.disposition = disposition,
                          !.checks = ChecksOf(<<file>>), !.seen = Standing(rules)]
    /\ UNCHANGED <<rules, changes, parentRuns, exists>>

Rename(file, newFile) ==
    /\ op.pc = "idle" /\ file \in exists /\ newFile # file
    /\ op' = [NoOp EXCEPT !.pc = "denyList", !.kind = "rename", !.file = file,
                          !.newFile = newFile, !.checks = ChecksOf(<<file, newFile>>),
                          !.seen = Standing(rules)]
    /\ UNCHANGED <<rules, changes, parentRuns, exists>>

----------------------------------------------------------------------------
(* The callbacks.                                                          *)

Pass(o) == [o EXCEPT !.pc = "passed"]
DenyAccess(o) == [o EXCEPT !.pc = "denied"]

\* Mutants: the new disposition does not reach the file system, or is none.
OpenOnlyNotDirty(o) == o
OpenOnlyInvalid(o) == [o EXCEPT !.disposition = "OPENED"]

\* set_create_file_disposition, FltSetCallbackDataDirty.
OpenOnly(o) == [o EXCEPT !.disposition = "OPEN"]

\* Mutant: no reading either.
CreateReadOnlyNever(o) == DenyAccess(o)

CreateReadOnly(o) ==
    IF IsWriteAccess(o.access) THEN DenyAccess(o)
    ELSE IF o.disposition = "OPEN_IF" THEN Pass(OpenOnly(o))
    ELSE IF IsModifyDisposition(o.disposition) THEN DenyAccess(o)
    ELSE Pass(o)

\* The match on a search's result; the operation passes after the last one.
Apply(o, action) ==
    LET rest == Tail(o.checks)
    IN  CASE action = "Deny" -> DenyAccess(o)
          [] action = "ReadOnly" ->
               IF o.kind = "create" THEN CreateReadOnly(o) ELSE DenyAccess(o)
          [] action = "Bypass" ->
               IF rest = << >> THEN Pass(o)
               ELSE [o EXCEPT !.checks = rest,
                              !.pc = IF Head(o.checks)[1] # Head(rest)[1]
                                     THEN "parent" ELSE "denyList"]

Finds(list) == list \in rules[Head(op.checks)]

\* Mutant: the lists the other way round.
SearchDenyLast ==
    /\ op.pc = "denyList"
    /\ op' = IF Finds("ReadOnly") THEN Apply(op, "ReadOnly")
             ELSE IF Finds("Deny") THEN Apply(op, "Deny")
             ELSE [op EXCEPT !.pc = "readOnlyList"]
    /\ UNCHANGED <<rules, changes, parentRuns, exists>>

\* search_rule_action, a list and its lock at a time.
SearchDeny ==
    /\ op.pc = "denyList"
    /\ op' = IF Finds("Deny") THEN Apply(op, "Deny")
                              ELSE [op EXCEPT !.pc = "readOnlyList"]
    /\ UNCHANGED <<rules, changes, parentRuns, exists>>

SearchReadOnly ==
    /\ op.pc = "readOnlyList"
    /\ op' = Apply(op, IF Finds("ReadOnly") THEN "ReadOnly" ELSE "Bypass")
    /\ UNCHANGED <<rules, changes, parentRuns, exists>>

\* get_or_add_parent_process_info finds the parent while it runs.
GetParent ==
    /\ op.pc = "parent"
    /\ op' = IF parentRuns THEN [op EXCEPT !.pc = "denyList"] ELSE Pass(op)
    /\ UNCHANGED <<rules, changes, parentRuns, exists>>

\* The lookup of the requestor or of a name fails before the first search, or
\* the lookup of the parent after the requestor's: the operation passes.
FailLookup ==
    /\ Faults
    /\ \/ op.pc = "denyList" /\ Head(op.checks) = <<"own", op.file>>
       \/ op.pc = "parent"
    /\ op' = [Pass(op) EXCEPT !.failed = TRUE]
    /\ UNCHANGED <<rules, changes, parentRuns, exists>>

----------------------------------------------------------------------------
(* The file system.                                                        *)

\* A handle with one of these rights can change the file or its attributes.
ModifyingRights ==
    {"FILE_WRITE_DATA", "FILE_APPEND_DATA", "FILE_WRITE_EA", "FILE_WRITE_ATTRIBUTES",
     "FILE_DELETE_CHILD", "DELETE", "WRITE_DAC", "WRITE_OWNER"}

\* The files that the operation, having passed, creates or may change.
Affected(o) ==
    IF o.kind = "rename" THEN {o.file, o.newFile}
    ELSE LET there == o.file \in exists
             opened == CASE o.disposition = "OPEN"      -> there
                         [] o.disposition = "CREATE"    -> ~there
                         [] o.disposition = "OVERWRITE" -> there
                         [] OTHER                       -> TRUE
             modified == \/ ~there
                         \/ o.disposition \in {"SUPERSEDE", "OVERWRITE", "OVERWRITE_IF"}
                         \/ o.access \intersect ModifyingRights # {}
         IN  IF opened /\ modified THEN {o.file} ELSE {}

Perform ==
    /\ op.pc = "passed"
    /\ exists' = IF op.kind = "rename" THEN (exists \ {op.file}) \union {op.newFile}
                                       ELSE exists \union Affected(op)
    /\ op' = NoOp
    /\ UNCHANGED <<rules, changes, parentRuns>>

Refuse ==
    /\ op.pc = "denied" /\ op' = NoOp
    /\ UNCHANGED <<rules, changes, parentRuns, exists>>

Next ==
    \/ \E target \in Targets, list \in Lists : ChangeRule(target, list)
    \/ ParentExits
    \/ \E f \in Files, a \in Accesses, d \in Dispositions : Create(f, a, d)
    \/ \E f, g \in Files : Rename(f, g)
    \/ SearchDeny \/ SearchReadOnly \/ GetParent \/ FailLookup \/ Perform \/ Refuse

Spec == Init /\ [][Next]_vars

----------------------------------------------------------------------------
(* Properties.                                                             *)

Operation ==
    [pc : {"idle", "denyList", "readOnlyList", "parent", "passed", "denied"},
     kind : {"none", "create", "rename"},
     file : Files \union {NoFile}, newFile : Files \union {NoFile},
     access : Accesses \union {{}}, disposition : Dispositions,
     checks : Seq(Targets), seen : SUBSET (Targets \X Lists \X BOOLEAN),
     failed : BOOLEAN]

TypeOK ==
    /\ rules \in [Targets -> SUBSET Lists] /\ changes \in 0 .. MaxChanges
    /\ parentRuns \in BOOLEAN /\ exists \subseteq Files
    /\ op \in Operation

\* At some moment of the operation the list had, or had not, a rule for this.
Had(list, role, file) == <<<<role, file>>, list, TRUE>> \in op.seen
Lacked(list, role, file) == <<<<role, file>>, list, FALSE>> \in op.seen

\* Each of the lists was without a rule for this, if not both at one moment.
WasFree(role, file) == \A list \in Lists : Lacked(list, role, file)

\* An operation passes only with effects the rules leave free: whatever file it
\* would create, change or rename was, at some moment of the operation for each
\* of the lists, without a rule for the requestor, and for the parent if that
\* still runs.  A read-only rule lets an open pass that can no longer change
\* anything (pre_create, create_read_only with the rewritten disposition,
\* pre_set_info).
RuledFilesUntouched ==
    op.pc = "passed" /\ ~op.failed => \A file \in Affected(op) :
        WasFree("own", file) /\ (parentRuns => WasFree("parent", file))

Concerned == {op.file, op.newFile} \ {NoFile}

\* What a deny rule of the requestor covers all the time is not even opened for
\* reading, and so for the parent's deny rules, unless a read-only rule of the
\* requestor decided before them (search_rule_action, pre_create).
DeniedFilesStayClosed ==
    op.pc = "passed" /\ ~op.failed => \A file \in Concerned :
        /\ Lacked("Deny", "own", file)
        /\ parentRuns => Lacked("Deny", "parent", file) \/ Had("ReadOnly", "own", file)

Stood(list) == \E role \in Roles, file \in Concerned : Had(list, role, file)

\* The open asks to change the file, or to create it and nothing else.
WantsToModify ==
    \/ op.access \intersect ModifyingRights # {}
    \/ op.disposition \notin {"OPEN", "OPEN_IF"}

\* An operation is refused only for a rule that stood: a deny rule, or a
\* read-only rule on what is not a mere read; reading stays possible
\* (create_read_only).
DenialHasRule ==
    op.pc = "denied" =>
        \/ Stood("Deny")
        \/ Stood("ReadOnly") /\ (op.kind = "rename" \/ WantsToModify)
====
