---- MODULE MinifilterProofs ----
(***************************************************************************)
(* Proofs about Minifilter, for any files, any sets of access rights and   *)
(* any number of rule changes, and with failing lookups.                   *)
(*                                                                         *)
(* What a callback lets pass or refuses depends on searches it made at     *)
(* different moments.  Inv says, while the callback runs, what it has      *)
(* learnt: every target it has yet to search is in checks, every other one *)
(* was found free in each list at some moment, the parent's come after the *)
(* requestor's, and between the lists the first one lacked a rule.         *)
(***************************************************************************)
EXTENDS Minifilter, SequenceTheorems, TLAPS

Running == op.pc \in {"denyList", "readOnlyList", "parent"}

\* What is left to be searched.
Left(o) == {o.checks[i] : i \in DOMAIN o.checks}

\* An operation has its files, and concerns nothing else.
FilesOK ==
    /\ op.kind \in {"create", "rename"} /\ op.file \in Files
    /\ op.kind = "create" => op.newFile = NoFile
    /\ op.kind = "rename" => op.newFile \in Files

\* What the lists have at present is among what was seen.
SeenOK == Standing(rules) \subseteq op.seen

\* What was searched was free; the parent's rules come last.
ChecksOK ==
    /\ op.checks # << >>
    /\ Left(op) \subseteq Roles \X Concerned
    /\ \A role \in Roles, file \in Concerned :
         <<role, file>> \in Left(op) \/ WasFree(role, file)
    /\ \A i, j \in DOMAIN op.checks :
         i <= j /\ op.checks[i][1] = "parent" => op.checks[j][1] = "parent"
    /\ op.pc = "parent" => op.checks[1][1] = "parent"
    /\ op.pc = "readOnlyList" => Lacked("Deny", op.checks[1][1], op.checks[1][2])

Inv ==
    /\ TypeOK
    /\ op.pc # "idle" => FilesOK
    /\ Running => SeenOK /\ ChecksOK
    /\ RuledFilesUntouched
    /\ DeniedFilesStayClosed
    /\ DenialHasRule

----------------------------------------------------------------------------
\* The searches an operation begins with.
LEMMA ChecksOfType ==
    ASSUME NEW n \in {1, 2}, NEW files \in [1 .. n -> Files]
    PROVE  /\ ChecksOf(files) \in Seq(Targets)
           /\ Len(ChecksOf(files)) = 2 * n
           /\ \A i \in 1 .. 2 * n :
                ChecksOf(files)[i] = IF i <= n THEN <<"own", files[i]>>
                                               ELSE <<"parent", files[i - n]>>
<1>1. files \in Seq(Files) /\ Len(files) = n
  OBVIOUS
<1>2. ChecksOf(files) = [i \in 1 .. 2 * n |-> IF i <= n THEN <<"own", files[i]>>
                                                        ELSE <<"parent", files[i - n]>>]
  BY <1>1 DEF ChecksOf
<1>3. \A i \in 1 .. 2 * n : ChecksOf(files)[i] \in Targets
  BY <1>2 DEF Targets, Roles
<1>4. ChecksOf(files) \in [1 .. 2 * n -> Targets]
  BY <1>2, <1>3
<1> QED  BY <1>2, <1>4

\* What the lists have at present, as facts.
LEMMA StandingType == Standing(rules) \in SUBSET (Targets \X Lists \X BOOLEAN)
<1> SUFFICES ASSUME NEW x \in Standing(rules) PROVE x \in Targets \X Lists \X BOOLEAN
  OBVIOUS
<1>1. PICK target \in Targets, list \in Lists : x = <<target, list, list \in rules[target]>>
  BY DEF Standing
<1> DEFINE there == list \in rules[target]
<1>2. there \in BOOLEAN /\ x = <<target, list, there>>
  BY <1>1
<1> HIDE DEF there
<1> QED  BY <1>2

\* The first state: no operation runs.
LEMMA InitInv == Init => Inv
<1> SUFFICES ASSUME Init PROVE Inv
  OBVIOUS
<1>1. op \in Operation
  BY DEF Init, NoOp, Operation, Dispositions
<1>2. MaxChanges \in Nat
  BY MinifilterAssumption
<1>3. TypeOK
  BY <1>1, <1>2 DEF Init, TypeOK
<1> QED  BY <1>3 DEF Init, NoOp, Inv, Running, RuledFilesUntouched,
     DeniedFilesStayClosed, DenialHasRule

\* What was learnt stays learnt while the searches ahead stay the same.
LEMMA ChecksStay ==
    ASSUME op \in Operation, ChecksOK, op'.checks = op.checks, op'.file = op.file,
           op'.newFile = op.newFile, op.seen \subseteq op'.seen,
           op'.pc = "parent" => op.pc = "parent",
           op'.pc = "readOnlyList" =>
               op.pc = "readOnlyList" \/ Lacked("Deny", op.checks[1][1], op.checks[1][2])
    PROVE  ChecksOK'
<1>1. Left(op)' = Left(op) /\ Concerned' = Concerned
  BY DEF Left, Concerned
<1>2. \A list, role, file : Lacked(list, role, file) => Lacked(list, role, file)'
  BY DEF Lacked
<1>3. \A role, file : WasFree(role, file) => WasFree(role, file)'
  BY <1>2 DEF WasFree
<1>4. op'.pc = "readOnlyList" => Lacked("Deny", op.checks[1][1], op.checks[1][2])'
  BY <1>2 DEF ChecksOK
<1> QED  BY <1>1, <1>3, <1>4 DEF ChecksOK

----------------------------------------------------------------------------
(* The environment.                                                        *)

\* Verdicts that were seen stay seen, and the files of an operation stay.
LEMMA ChangeRuleInv ==
    ASSUME Inv, NEW target \in Targets, NEW list \in Lists, ChangeRule(target, list)
    PROVE  Inv'
<1> DEFINE added == list \notin rules[target]
<1>1. rules' \in [Targets -> SUBSET Lists] /\ changes' \in 0 .. MaxChanges
  BY MinifilterAssumption DEF Inv, TypeOK, ChangeRule
<1>2. CASE op.pc = "idle"
  <2>1. op' = op /\ UNCHANGED <<parentRuns, exists>>
    BY <1>2 DEF ChangeRule
  <2> QED
    BY <1>1, <1>2, <2>1 DEF Inv, TypeOK, Running, RuledFilesUntouched,
     DeniedFilesStayClosed, DenialHasRule
<1>3. CASE op.pc # "idle"
  <2>1. /\ op' = [op EXCEPT !.seen = @ \union {<<target, list, added>>}]
        /\ UNCHANGED <<parentRuns, exists>>
    BY <1>3 DEF ChangeRule
  <2>2. op' \in Operation
    <3>1. <<target, list, added>> \in Targets \X Lists \X BOOLEAN
      OBVIOUS
    <3> HIDE DEF added
    <3> QED  BY <2>1, <3>1 DEF Inv, TypeOK, Operation
  <2>3. /\ op'.pc = op.pc /\ op'.kind = op.kind /\ op'.file = op.file
        /\ op'.newFile = op.newFile /\ op'.access = op.access
        /\ op'.disposition = op.disposition /\ op'.checks = op.checks
        /\ op'.failed = op.failed /\ op'.seen = op.seen \union {<<target, list, added>>}
    BY <2>1 DEF Inv, TypeOK, Operation
  <2>4. TypeOK'
    BY <1>1, <2>1, <2>2 DEF Inv, TypeOK
  <2>5. FilesOK' /\ (Running => SeenOK' /\ ChecksOK')
    <3>1. FilesOK' /\ (Running => ChecksOK')
      BY <1>3, <2>3, ChecksStay DEF Inv, TypeOK, FilesOK
    <3>2. Running => SeenOK'
      BY <2>3 DEF Inv, TypeOK, SeenOK, Standing, ChangeRule
    <3> QED  BY <3>1, <3>2
  <2>6. Affected(op)' = Affected(op)
    BY <2>1, <2>3 DEF Affected
  <2>7. RuledFilesUntouched'
    BY <2>1, <2>3, <2>6 DEF Inv, RuledFilesUntouched, WasFree, Lacked
  <2>8. DeniedFilesStayClosed'
    BY <2>1, <2>3 DEF Inv, DeniedFilesStayClosed, Concerned, Lacked, Had
  <2>9. DenialHasRule'
    BY <2>3 DEF Inv, DenialHasRule, Stood, Had, Concerned, WantsToModify
  <2> QED  BY <2>3, <2>4, <2>5, <2>7, <2>8, <2>9 DEF Inv, Running
<1> QED  BY <1>2, <1>3

\* A parent that exits asks less of an operation that passed.
LEMMA ParentExitsInv == ASSUME Inv, ParentExits PROVE Inv'
<1>1. parentRuns' = FALSE /\ UNCHANGED <<rules, changes, op, exists>>
  BY DEF ParentExits
<1>2. TypeOK' /\ (op'.pc # "idle" => FilesOK') /\ (Running' => SeenOK' /\ ChecksOK')
  <2>1. TypeOK' /\ (op'.pc # "idle" => FilesOK')
    BY <1>1 DEF Inv, TypeOK, FilesOK
  <2>2. Running' => SeenOK'
    BY <1>1 DEF Inv, Running, SeenOK, Standing
  <2>3. Running' => ChecksOK'
    BY <1>1, ChecksStay DEF Inv, TypeOK, Running
  <2> QED  BY <2>1, <2>2, <2>3
<1>3. RuledFilesUntouched'
  BY <1>1 DEF Inv, RuledFilesUntouched, Affected, WasFree, Lacked
<1>4. DeniedFilesStayClosed'
  BY <1>1 DEF Inv, DeniedFilesStayClosed, Concerned, Lacked, Had
<1>5. DenialHasRule'
  BY <1>1 DEF Inv, DenialHasRule, Stood, Had, Concerned, WantsToModify
<1> QED  BY <1>2, <1>3, <1>4, <1>5 DEF Inv

\* An operation begins with all of its searches ahead.
LEMMA BeginInv ==
    ASSUME Inv, NEW n \in {1, 2}, NEW files \in [1 .. n -> Files],
           UNCHANGED <<rules, changes, parentRuns, exists>>,
           op' \in Operation, op'.pc = "denyList", op'.checks = ChecksOf(files),
           op'.seen = Standing(rules), FilesOK',
           Concerned' = {files[i] : i \in 1 .. n}
    PROVE  Inv'
<1> DEFINE c == ChecksOf(files)
<1>1. /\ c \in Seq(Targets) /\ Len(c) = 2 * n
      /\ \A i \in 1 .. 2 * n : c[i] = IF i <= n THEN <<"own", files[i]>>
                                                ELSE <<"parent", files[i - n]>>
  BY ChecksOfType
<1> HIDE DEF c
<1>2. c # << >> /\ DOMAIN c = 1 .. 2 * n
  BY <1>1
<1>3. ASSUME NEW i \in 1 .. 2 * n PROVE c[i] \in Roles \X Concerned'
  BY <1>1 DEF Roles
<1>4. ASSUME NEW role \in Roles, NEW file \in Concerned'
      PROVE  \E i \in 1 .. 2 * n : c[i] = <<role, file>>
  <2>1. PICK i \in 1 .. n : file = files[i]
    OBVIOUS
  <2>2. c[i] = <<"own", file>> /\ c[i + n] = <<"parent", file>>
    BY <1>1, <2>1
  <2>3. i \in 1 .. 2 * n /\ i + n \in 1 .. 2 * n
    OBVIOUS
  <2> QED  BY <2>2, <2>3 DEF Roles
<1>5. ChecksOK'
  <2>1. op'.checks = c
    BY DEF c
  <2>2. Left(op)' \subseteq Roles \X Concerned'
    BY <1>2, <1>3, <2>1 DEF Left
  <2>3. \A role \in Roles, file \in Concerned' : <<role, file>> \in Left(op)'
    BY <1>2, <1>4, <2>1 DEF Left
  <2>4. \A i, j \in DOMAIN c : i <= j /\ c[i][1] = "parent" => c[j][1] = "parent"
    BY <1>1, <1>2
  <2> QED  BY <1>2, <2>1, <2>2, <2>3, <2>4 DEF ChecksOK
<1>6. SeenOK'
  BY DEF SeenOK, Standing
<1>7. TypeOK'
  BY DEF Inv, TypeOK
<1> QED  BY <1>5, <1>6, <1>7 DEF Inv, RuledFilesUntouched, DeniedFilesStayClosed,
     DenialHasRule

\* pre_create.
LEMMA CreateInv ==
    ASSUME Inv, NEW file \in Files, NEW access \in Accesses,
           NEW disposition \in Dispositions, Create(file, access, disposition)
    PROVE  Inv'
<1> DEFINE files == <<file>>
<1>1. files \in [1 .. 1 -> Files] /\ files[1] = file
  OBVIOUS
<1>2. ChecksOf(files) \in Seq(Targets)
  BY <1>1, ChecksOfType
<1>3. Standing(rules) \in SUBSET (Targets \X Lists \X BOOLEAN)
  BY StandingType
<1>4. /\ op' = [NoOp EXCEPT !.pc = "denyList", !.kind = "create", !.file = file,
                          !.access = access, !.disposition = disposition,
                          !.checks = ChecksOf(files), !.seen = Standing(rules)]
      /\ UNCHANGED <<rules, changes, parentRuns, exists>>
  BY DEF Create
<1> HIDE DEF files
<1>5. op' \in Operation
  BY <1>2, <1>3, <1>4 DEF NoOp, Operation
<1>6. /\ op'.pc = "denyList" /\ op'.kind = "create" /\ op'.file = file
      /\ op'.newFile = NoFile
      /\ op'.checks = ChecksOf(files) /\ op'.seen = Standing(rules)
  BY <1>4 DEF NoOp
<1>7. FilesOK'
  BY <1>6 DEF FilesOK
<1>8. Concerned' = {files[i] : i \in 1 .. 1}
  BY <1>1, <1>6, MinifilterAssumption DEF Concerned
<1> QED  BY <1>1, <1>4, <1>5, <1>6, <1>7, <1>8, BeginInv

\* pre_set_info.
LEMMA RenameInv ==
    ASSUME Inv, NEW file \in Files, NEW newFile \in Files, Rename(file, newFile)
    PROVE  Inv'
<1> DEFINE files == <<file, newFile>>
<1>1. files \in [1 .. 2 -> Files] /\ files[1] = file /\ files[2] = newFile
  OBVIOUS
<1>2. ChecksOf(files) \in Seq(Targets)
  BY <1>1, ChecksOfType
<1>3. Standing(rules) \in SUBSET (Targets \X Lists \X BOOLEAN)
  BY StandingType
<1>4. /\ op' = [NoOp EXCEPT !.pc = "denyList", !.kind = "rename", !.file = file,
                          !.newFile = newFile, !.checks = ChecksOf(files),
                          !.seen = Standing(rules)]
      /\ UNCHANGED <<rules, changes, parentRuns, exists>>
  BY DEF Rename
<1> HIDE DEF files
<1>5. op' \in Operation
  BY <1>2, <1>3, <1>4 DEF NoOp, Operation, Dispositions
<1>6. /\ op'.pc = "denyList" /\ op'.kind = "rename" /\ op'.file = file
      /\ op'.newFile = newFile
      /\ op'.checks = ChecksOf(files) /\ op'.seen = Standing(rules)
  BY <1>4 DEF NoOp
<1>7. FilesOK'
  BY <1>6 DEF FilesOK
<1>8. Concerned' = {files[i] : i \in 1 .. 2}
  <2>1. {files[i] : i \in 1 .. 2} = {files[1], files[2]}
    OBVIOUS
  <2> QED  BY <1>1, <1>6, <2>1, MinifilterAssumption DEF Concerned
<1> QED  BY <1>1, <1>4, <1>5, <1>6, <1>7, <1>8, BeginInv

----------------------------------------------------------------------------
(* The callbacks.                                                          *)

\* A denial, and a pass, change nothing else of the operation.
LEMMA OutcomeType ==
    ASSUME NEW o \in Operation
    PROVE  /\ Pass(o) \in Operation /\ DenyAccess(o) \in Operation
           /\ OpenOnly(o) \in Operation
BY DEF Pass, DenyAccess, OpenOnly, Operation, Dispositions

\* A read-only rule lets an open pass that cannot change the file, and refuses
\* one that asks to.
LEMMA CreateReadOnlyLeaves ==
    ASSUME NEW o \in Operation, o.kind = "create", NEW r, r = CreateReadOnly(o)
    PROVE  /\ r \in Operation /\ r.pc \in {"passed", "denied"}
           /\ r.pc = "passed" => Affected(r) = {}
           /\ r.pc = "denied" => \/ o.access \intersect ModifyingRights # {}
                                 \/ o.disposition \notin {"OPEN", "OPEN_IF"}
           /\ r.pc = "denied" => r = [o EXCEPT !.pc = "denied"]
           /\ r.kind = o.kind /\ r.file = o.file /\ r.newFile = o.newFile /\ r.seen = o.seen
<1>1. WriteRights = ModifyingRights
  BY DEF WriteRights, ModifyingRights
<1>2. CASE IsWriteAccess(o.access)
  <2>1. r = [o EXCEPT !.pc = "denied"]
    BY <1>2 DEF CreateReadOnly, DenyAccess
  <2>2. r \in Operation /\ r.pc = "denied"
        /\ r.kind = o.kind /\ r.file = o.file /\ r.newFile = o.newFile /\ r.seen = o.seen
    BY <2>1 DEF Operation
  <2> QED  BY <1>1, <1>2, <2>1, <2>2 DEF IsWriteAccess
<1>3. CASE ~IsWriteAccess(o.access) /\ o.disposition \in {"OPEN", "OPEN_IF"}
  <2>1. r = [o EXCEPT !.disposition = "OPEN", !.pc = "passed"]
    BY <1>3 DEF CreateReadOnly, Pass, OpenOnly, IsModifyDisposition, Operation
  <2>2. /\ r \in Operation /\ r.pc = "passed" /\ r.kind = "create"
        /\ r.disposition = "OPEN" /\ r.access = o.access
        /\ r.file = o.file /\ r.newFile = o.newFile /\ r.seen = o.seen
    BY <2>1 DEF Operation, Dispositions
  <2>3. r.access \intersect ModifyingRights = {}
    BY <1>1, <1>3, <2>2 DEF IsWriteAccess
  <2>4. Affected(r) = {}
    BY <2>2, <2>3 DEF Affected
  <2> QED  BY <1>3, <2>2, <2>4
<1>4. CASE ~IsWriteAccess(o.access) /\ o.disposition \notin {"OPEN", "OPEN_IF"}
  <2>1. r = [o EXCEPT !.pc = "denied"]
    BY <1>4 DEF CreateReadOnly, DenyAccess, IsModifyDisposition, Operation, Dispositions
  <2>2. r \in Operation /\ r.pc = "denied"
        /\ r.kind = o.kind /\ r.file = o.file /\ r.newFile = o.newFile /\ r.seen = o.seen
    BY <2>1 DEF Operation
  <2> QED  BY <1>4, <2>1, <2>2
<1> QED  BY <1>2, <1>3, <1>4

\* An operation that passed concerns the files it affects.
LEMMA AffectedConcerned ==
    ASSUME Inv, FilesOK
    PROVE  Affected(op) \subseteq Concerned
BY MinifilterAssumption DEF Affected, Concerned, FilesOK

\* Where no rule covers any file of the operation, it passes as it should.
LEMMA FreePasses ==
    ASSUME Inv, Running, op' = Pass(op), UNCHANGED <<rules, changes, exists, parentRuns>>,
           \A file \in Concerned :
               WasFree("own", file) /\ (parentRuns => WasFree("parent", file))
    PROVE  Inv'
<1>1. op \in Operation /\ FilesOK
  BY DEF Inv, TypeOK, Running
<1>2. /\ op' \in Operation /\ op'.pc = "passed" /\ op'.seen = op.seen
      /\ op'.kind = op.kind /\ op'.file = op.file /\ op'.newFile = op.newFile
      /\ op'.access = op.access /\ op'.disposition = op.disposition
  BY <1>1 DEF Pass, Operation
<1>3. Affected(op)' = Affected(op)
  BY <1>2 DEF Affected
<1>4. \A file \in Affected(op) :
          WasFree("own", file) /\ (parentRuns => WasFree("parent", file))
  BY <1>1, AffectedConcerned
<1>5. RuledFilesUntouched'
  BY <1>2, <1>3, <1>4 DEF RuledFilesUntouched, WasFree, Lacked
<1>6. FilesOK'
  BY <1>1, <1>2 DEF FilesOK
<1>7. DeniedFilesStayClosed'
  BY <1>2 DEF DeniedFilesStayClosed, WasFree, Lacked, Concerned, Lists
<1> QED  BY <1>2, <1>5, <1>6, <1>7 DEF Inv, TypeOK, Running, DenialHasRule

\* Once the requestor's rules are searched, its files were free.
LEMMA OwnSearched ==
    ASSUME op \in Operation, ChecksOK, op.checks[1][1] = "parent"
    PROVE  \A file \in Concerned : WasFree("own", file)
<1> SUFFICES ASSUME NEW file \in Concerned PROVE WasFree("own", file)
  OBVIOUS
<1>1. 1 \in DOMAIN op.checks /\ \A i \in DOMAIN op.checks : 1 <= i
  BY DEF Operation, ChecksOK
<1>2. \A i \in DOMAIN op.checks : op.checks[i][1] = "parent"
  BY <1>1 DEF ChecksOK
<1>3. <<"own", file>> \notin Left(op)
  BY <1>2 DEF Left
<1> QED  BY <1>3 DEF ChecksOK, Roles

\* A denial that a rule stood for.
LEMMA DeniedForRule ==
    ASSUME Inv, Running, op' = DenyAccess(op),
           UNCHANGED <<rules, changes, parentRuns, exists>>,
           NEW role \in Roles, NEW file \in Concerned,
           \/ Had("Deny", role, file)
           \/ Had("ReadOnly", role, file) /\ (op.kind = "rename" \/ WantsToModify)
    PROVE  Inv'
<1>1. op \in Operation /\ FilesOK
  BY DEF Inv, TypeOK, Running
<1>2. /\ op' \in Operation /\ op'.pc = "denied" /\ op'.seen = op.seen
      /\ op'.kind = op.kind /\ op'.file = op.file /\ op'.newFile = op.newFile
      /\ op'.access = op.access /\ op'.disposition = op.disposition
  BY <1>1 DEF DenyAccess, Operation
<1>3. DenialHasRule'
  BY <1>2 DEF DenialHasRule, Stood, Had, Concerned, WantsToModify
<1>4. FilesOK'
  BY <1>1, <1>2 DEF FilesOK
<1> QED  BY <1>2, <1>3, <1>4 DEF Inv, TypeOK, Running, RuledFilesUntouched,
     DeniedFilesStayClosed

\* What a search in progress is about.
LEMMA SearchTarget ==
    ASSUME Inv, op.pc \in {"denyList", "readOnlyList"}
    PROVE  /\ op \in Operation /\ FilesOK /\ SeenOK /\ ChecksOK /\ Running
           /\ op.checks \in Seq(Targets) /\ op.checks # << >>
           /\ Head(op.checks) = op.checks[1] /\ op.checks[1] \in Targets
           /\ \E role \in Roles, file \in Concerned :
                /\ op.checks[1] = <<role, file>>
                /\ \A list \in Lists : Finds(list) => Had(list, role, file)
                /\ \A list \in Lists : ~Finds(list) => Lacked(list, role, file)
<1>1. op \in Operation /\ FilesOK /\ SeenOK /\ ChecksOK /\ Running
  BY DEF Inv, TypeOK, Running
<1>2. /\ op.checks \in Seq(Targets) /\ op.checks # << >>
      /\ Head(op.checks) = op.checks[1] /\ op.checks[1] \in Targets
  BY <1>1 DEF Operation, ChecksOK
<1>3. PICK role \in Roles, file \in Concerned : op.checks[1] = <<role, file>>
  BY <1>1, <1>2 DEF ChecksOK, Left
<1>4. \A list \in Lists : <<op.checks[1], list, Finds(list)>> \in op.seen
  BY <1>1, <1>2 DEF SeenOK, Standing, Finds
<1>5. ASSUME NEW list \in Lists
      PROVE  /\ Finds(list) => Had(list, role, file)
             /\ ~Finds(list) => Lacked(list, role, file)
  <2>1. CASE Finds(list) = TRUE
    BY <1>3, <1>4, <2>1 DEF Had
  <2>2. CASE Finds(list) = FALSE
    BY <1>3, <1>4, <2>2 DEF Lacked
  <2>3. Finds(list) \in BOOLEAN
    BY DEF Finds
  <2> QED  BY <2>1, <2>2, <2>3
<1> QED  BY <1>1, <1>2, <1>3, <1>5

\* The first list: a rule of it denies, without one the other list is searched.
LEMMA SearchDenyInv == ASSUME Inv, SearchDeny PROVE Inv'
<1>1. UNCHANGED <<rules, changes, parentRuns, exists>> /\ op.pc = "denyList"
  BY DEF SearchDeny
<1>2. op \in Operation /\ FilesOK /\ SeenOK /\ ChecksOK /\ Running
  BY <1>1, SearchTarget
<1>3. PICK role \in Roles, file \in Concerned :
        /\ op.checks[1] = <<role, file>>
        /\ Finds("Deny") => Had("Deny", role, file)
        /\ ~Finds("Deny") => Lacked("Deny", role, file)
  BY <1>1, SearchTarget DEF Lists
<1>4. CASE Finds("Deny")
  <2>1. op' = DenyAccess(op)
    BY <1>4 DEF SearchDeny, Apply
  <2> QED  BY <1>1, <1>2, <1>3, <1>4, <2>1, DeniedForRule
<1>5. CASE ~Finds("Deny")
  <2>1. op' = [op EXCEPT !.pc = "readOnlyList"]
    BY <1>5 DEF SearchDeny
  <2>2. /\ op' \in Operation /\ op'.pc = "readOnlyList" /\ op'.seen = op.seen
        /\ op'.kind = op.kind /\ op'.file = op.file /\ op'.newFile = op.newFile
        /\ op'.checks = op.checks
    BY <1>2, <2>1 DEF Operation
  <2>3. Lacked("Deny", op.checks[1][1], op.checks[1][2])
    BY <1>3, <1>5
  <2>4. FilesOK' /\ SeenOK' /\ ChecksOK'
    <3>1. FilesOK' /\ SeenOK'
      BY <1>1, <1>2, <2>2 DEF FilesOK, SeenOK, Standing
    <3> QED  BY <1>2, <2>2, <2>3, <3>1, ChecksStay
  <2> QED  BY <1>1, <2>2, <2>4 DEF Inv, TypeOK, RuledFilesUntouched, DeniedFilesStayClosed,
              DenialHasRule
<1> QED  BY <1>4, <1>5

\* The second list, with what the searches before it have found.
LEMMA SearchReadOnlyInv == ASSUME Inv, SearchReadOnly PROVE Inv'
<1> DEFINE c == op.checks
           target == c[1]
           rest == Tail(c)
<1>1. /\ op \in Operation /\ FilesOK /\ SeenOK /\ ChecksOK /\ Running
      /\ op.pc = "readOnlyList"
  BY SearchTarget DEF SearchReadOnly
<1>2. c \in Seq(Targets) /\ c # << >> /\ Head(c) = target /\ target \in Targets
  BY <1>1, SearchTarget
<1>3. /\ op' = Apply(op, IF Finds("ReadOnly") THEN "ReadOnly" ELSE "Bypass")
      /\ UNCHANGED <<rules, changes, parentRuns, exists>>
  BY DEF SearchReadOnly
<1>4. PICK role \in Roles, file \in Concerned :
        /\ target = <<role, file>>
        /\ Finds("ReadOnly") => Had("ReadOnly", role, file)
        /\ ~Finds("ReadOnly") => Lacked("ReadOnly", role, file)
  BY <1>1, SearchTarget DEF Lists
<1>5. Lacked("Deny", role, file)
  BY <1>1, <1>4 DEF ChecksOK
<1>6. CASE Finds("ReadOnly") /\ op.kind # "create"
  <2>1. op' = DenyAccess(op)
    BY <1>3, <1>6 DEF Apply
  <2> QED  BY <1>1, <1>3, <1>4, <1>6, <2>1, DeniedForRule DEF FilesOK
<1>7. CASE Finds("ReadOnly") /\ op.kind = "create"
  <2>1. op' = CreateReadOnly(op)
    BY <1>3, <1>7 DEF Apply
  <2>2. /\ op' \in Operation /\ op'.pc \in {"passed", "denied"}
        /\ op'.pc = "passed" => Affected(op') = {}
        /\ op'.pc = "denied" => \/ op.access \intersect ModifyingRights # {}
                                \/ op.disposition \notin {"OPEN", "OPEN_IF"}
        /\ op'.pc = "denied" => op' = [op EXCEPT !.pc = "denied"]
        /\ op'.kind = op.kind /\ op'.file = op.file /\ op'.newFile = op.newFile
        /\ op'.seen = op.seen
    BY <1>1, <1>7, <2>1, CreateReadOnlyLeaves
  <2>3. CASE op'.pc = "denied"
    <3>1. op' = DenyAccess(op) /\ WantsToModify
      BY <2>2, <2>3 DEF DenyAccess, WantsToModify
    <3> QED  BY <1>1, <1>3, <1>4, <1>7, <3>1, DeniedForRule
  <2>4. CASE op'.pc = "passed"
    <3>1. Affected(op)' = {}
      BY <1>3, <2>2, <2>4 DEF Affected
    <3>2. Concerned = {file} /\ Concerned' = {file}
      BY <1>1, <1>7, <2>2, MinifilterAssumption DEF Concerned, FilesOK
    <3>3. /\ Lacked("Deny", "own", file)
          /\ Lacked("Deny", "parent", file) \/ Had("ReadOnly", "own", file)
      <4>1. CASE role = "own"
        BY <1>4, <1>5, <1>7, <4>1
      <4>2. CASE role = "parent"
        <5>1. WasFree("own", file)
          BY <1>1, <1>4, <4>2, OwnSearched
        <5> QED  BY <1>5, <4>2, <5>1 DEF WasFree, Lists
      <4> QED  BY <4>1, <4>2 DEF Roles
    <3>4. DeniedFilesStayClosed'
      BY <2>2, <3>2, <3>3 DEF DeniedFilesStayClosed, Lacked, Had
    <3>5. FilesOK'
      BY <1>1, <2>2 DEF FilesOK
    <3> QED  BY <1>3, <2>2, <2>4, <3>1, <3>4, <3>5
             DEF Inv, TypeOK, Running, RuledFilesUntouched, DenialHasRule
  <2> QED  BY <2>2, <2>3, <2>4
<1>8. CASE ~Finds("ReadOnly")
  <2>1. WasFree(role, file)
    BY <1>4, <1>5, <1>8 DEF WasFree, Lists
  <2>2. /\ rest \in Seq(Targets) /\ Len(rest) = Len(c) - 1
        /\ \A i \in 1 .. Len(rest) : rest[i] = c[i + 1]
    BY <1>2, HeadTailProperties
  <2>3. DOMAIN c = 1 .. Len(c) /\ DOMAIN rest = 1 .. Len(rest) /\ Len(c) \in Nat \ {0}
    BY <1>2, <2>2
  <2> HIDE DEF c, rest
  <2>4. \A x : x = target \/ (\E i \in 1 .. Len(rest) : x = rest[i])
               \/ \A i \in 1 .. Len(c) : x # c[i]
    <3> SUFFICES ASSUME NEW i \in 1 .. Len(c), i # 1
                 PROVE  i - 1 \in 1 .. Len(rest) /\ rest[i - 1] = c[i]
      OBVIOUS
    <3> QED  BY <2>2, <2>3
  <2>5. \A r \in Roles, g \in Concerned :
          (\E i \in 1 .. Len(rest) : rest[i] = <<r, g>>) \/ WasFree(r, g)
    BY <1>1, <1>4, <2>1, <2>3, <2>4 DEF ChecksOK, Left, c
  <2>6. CASE rest = << >>
    <3>1. op' = Pass(op)
      BY <1>2, <1>3, <1>8, <2>6 DEF Apply, c, rest
    <3>2. Len(rest) = 0
      BY <2>6
    <3>3. \A r \in Roles, g \in Concerned : WasFree(r, g)
      BY <2>5, <3>2
    <3> QED  BY <1>1, <1>3, <3>1, <3>3, FreePasses DEF Roles
  <2>7. CASE rest # << >>
    <3>1. op' = [op EXCEPT !.checks = rest,
                           !.pc = IF Head(c)[1] # Head(rest)[1]
                                  THEN "parent" ELSE "denyList"]
      BY <1>2, <1>3, <1>8, <2>7 DEF Apply, c, rest
    <3>2. Head(rest) = rest[1] /\ rest[1] = c[2] /\ Len(rest) >= 1
      BY <2>2, <2>3, <2>7
    <3>3. /\ op' \in Operation /\ op'.checks = rest /\ op'.seen = op.seen
          /\ op'.pc = (IF target[1] # rest[1][1] THEN "parent" ELSE "denyList")
          /\ op'.kind = op.kind /\ op'.file = op.file /\ op'.newFile = op.newFile
      BY <1>1, <1>2, <2>2, <3>1, <3>2 DEF Operation, c
    <3>4. FilesOK' /\ SeenOK' /\ Concerned' = Concerned
      BY <1>1, <1>3, <3>3 DEF FilesOK, SeenOK, Standing, Concerned
    <3>5. Left(op)' \subseteq Roles \X Concerned
      <4>1. \A i \in 1 .. Len(rest) : i + 1 \in 1 .. Len(c)
        BY <2>2, <2>3
      <4>2. \A j \in 1 .. Len(c) : c[j] \in Roles \X Concerned
        BY <1>1, <2>3 DEF ChecksOK, Left, c
      <4>3. Left(op)' = {rest[i] : i \in 1 .. Len(rest)}
        BY <2>3, <3>3 DEF Left
      <4>4. \A i \in 1 .. Len(rest) : rest[i] \in Roles \X Concerned
        BY <2>2, <4>1, <4>2
      <4> QED  BY <3>4, <4>3, <4>4
    <3>6. \A r \in Roles, g \in Concerned : <<r, g>> \in Left(op)' \/ WasFree(r, g)'
      BY <2>3, <2>5, <3>3 DEF Left, WasFree, Lacked
    <3>7. \A i, j \in DOMAIN rest :
            i <= j /\ rest[i][1] = "parent" => rest[j][1] = "parent"
      <4>1. \A i \in 1 .. Len(rest) : i + 1 \in 1 .. Len(c)
        BY <2>2, <2>3
      <4>2. \A i, j \in 1 .. Len(c) : i <= j /\ c[i][1] = "parent" => c[j][1] = "parent"
        BY <1>1, <2>3 DEF ChecksOK, c
      <4> QED  BY <2>2, <2>3, <4>1, <4>2
    <3>8. op'.pc = "parent" => rest[1][1] = "parent"
      <4>1. target[1] = "parent" => rest[1][1] = "parent"
        <5>1. 1 \in DOMAIN c /\ 2 \in DOMAIN c
          BY <2>2, <2>3, <3>2
        <5> QED  BY <1>1, <3>2, <5>1 DEF ChecksOK, c
      <4>2. rest[1] \in Targets
        BY <2>2, <3>2
      <4> QED  BY <1>4, <3>3, <4>1, <4>2 DEF Targets, Roles
    <3>9. ChecksOK'
      BY <2>7, <3>3, <3>4, <3>5, <3>6, <3>7, <3>8 DEF ChecksOK
    <3> QED
      BY <1>3, <3>3, <3>4, <3>9 DEF Inv, TypeOK, RuledFilesUntouched, DeniedFilesStayClosed,
     DenialHasRule
  <2> QED  BY <2>6, <2>7
<1> QED  BY <1>6, <1>7, <1>8

\* The parent's rules are searched while it runs; without it the operation
\* passes, the requestor's own rules having been searched.
LEMMA GetParentInv == ASSUME Inv, GetParent PROVE Inv'
<1>1. op \in Operation /\ op.pc = "parent" /\ FilesOK /\ SeenOK /\ ChecksOK /\ Running
  BY DEF Inv, TypeOK, GetParent, Running
<1>2. UNCHANGED <<rules, changes, parentRuns, exists>>
  BY DEF GetParent
<1>3. CASE parentRuns
  <2>1. op' = [op EXCEPT !.pc = "denyList"]
    BY <1>3 DEF GetParent
  <2>2. /\ op' \in Operation /\ op'.pc = "denyList" /\ op'.seen = op.seen
        /\ op'.kind = op.kind /\ op'.file = op.file /\ op'.newFile = op.newFile
        /\ op'.checks = op.checks
    BY <1>1, <2>1 DEF Operation
  <2>3. FilesOK' /\ SeenOK' /\ ChecksOK'
    <3>1. FilesOK' /\ SeenOK'
      BY <1>1, <1>2, <2>2 DEF FilesOK, SeenOK, Standing
    <3> QED  BY <1>1, <2>2, <3>1, ChecksStay
  <2> QED  BY <1>2, <2>2, <2>3 DEF Inv, TypeOK, RuledFilesUntouched, DeniedFilesStayClosed,
     DenialHasRule
<1>4. CASE ~parentRuns
  <2>1. op' = Pass(op)
    BY <1>4 DEF GetParent
  <2>2. \A file \in Concerned : WasFree("own", file)
    BY <1>1, OwnSearched DEF ChecksOK
  <2> QED  BY <1>1, <1>2, <1>4, <2>1, <2>2, FreePasses
<1> QED  BY <1>3, <1>4

\* Nothing is promised of an operation whose lookup failed.
LEMMA FailLookupInv == ASSUME Inv, FailLookup PROVE Inv'
<1>1. /\ op' = [Pass(op) EXCEPT !.failed = TRUE] /\ op \in Operation
      /\ UNCHANGED <<rules, changes, parentRuns, exists>>
  BY DEF FailLookup, Inv, TypeOK
<1>2. /\ op' \in Operation /\ op'.pc = "passed" /\ op'.failed = TRUE
      /\ op'.kind = op.kind /\ op'.file = op.file /\ op'.newFile = op.newFile
  BY <1>1 DEF Pass, Operation
<1>3. FilesOK'
  BY <1>2 DEF FilesOK, FailLookup, Inv
<1> QED  BY <1>1, <1>2, <1>3 DEF Inv, TypeOK, Running, RuledFilesUntouched,
     DeniedFilesStayClosed, DenialHasRule

\* The operation ends.
LEMMA EndInv == ASSUME Inv, Perform \/ Refuse PROVE Inv'
<1>1. op' = NoOp /\ UNCHANGED <<rules, changes, parentRuns>>
  BY DEF Perform, Refuse
<1>2. op' \in Operation /\ op'.pc = "idle"
  BY <1>1 DEF NoOp, Operation, Dispositions
<1>3. exists' \subseteq Files
  <2>1. CASE Perform
    <3>1. FilesOK /\ exists \subseteq Files
      BY <2>1 DEF Inv, TypeOK, Perform
    <3>2. op.kind = "create" => Affected(op) \subseteq Files
      BY <3>1 DEF Affected, FilesOK
    <3> QED  BY <2>1, <3>1, <3>2 DEF Perform, FilesOK
  <2>2. CASE Refuse
    BY <2>2 DEF Refuse, Inv, TypeOK
  <2> QED  BY <2>1, <2>2
<1> QED  BY <1>1, <1>2, <1>3 DEF Inv, TypeOK, Running, RuledFilesUntouched,
     DeniedFilesStayClosed, DenialHasRule

----------------------------------------------------------------------------
\* Inv is inductive.
LEMMA StepInv == Inv /\ [Next]_vars => Inv'
<1> SUFFICES ASSUME Inv, [Next]_vars PROVE Inv'
  OBVIOUS
<1>1. CASE UNCHANGED vars
  <2>1. UNCHANGED <<rules, changes, parentRuns, op, exists>>
    BY <1>1 DEF vars
  <2>2. TypeOK' /\ (op'.pc # "idle" => FilesOK') /\ (Running' => SeenOK')
    BY <2>1 DEF Inv, TypeOK, Running, FilesOK, SeenOK, Standing
  <2>3. Running' => ChecksOK'
    BY <2>1, ChecksStay DEF Inv, TypeOK, Running
  <2>4. RuledFilesUntouched' /\ DeniedFilesStayClosed' /\ DenialHasRule'
    BY <2>1 DEF Inv, RuledFilesUntouched, Affected, WasFree, Lacked, Had,
       DeniedFilesStayClosed, Concerned, DenialHasRule, Stood, WantsToModify
  <2> QED  BY <2>2, <2>3, <2>4 DEF Inv
<1>2. CASE Next
  BY <1>2, ChangeRuleInv, ParentExitsInv, CreateInv, RenameInv, SearchDenyInv,
     SearchReadOnlyInv, GetParentInv, FailLookupInv, EndInv DEF Next
<1> QED  BY <1>1, <1>2

\* Inv holds in every state.
LEMMA Invariance == Spec => []Inv
BY InitInv, StepInv, PTL DEF Spec

\* The state of the callbacks stays within its types.
THEOREM TypeCorrect == Spec => []TypeOK
<1>1. Inv => TypeOK
  BY DEF Inv
<1> QED  BY <1>1, Invariance, PTL

\* For any files and access rights, and however often the rules change, an
\* operation passes only with effects the rules left free.
THEOREM RuledFilesStay == Spec => []RuledFilesUntouched
<1>1. Inv => RuledFilesUntouched
  BY DEF Inv
<1> QED  BY <1>1, Invariance, PTL

\* For any files and access rights, and however often the rules change, what a
\* deny rule covers all the time is not opened, nor renamed or overwritten by a
\* rename.
THEOREM DeniedStaysClosed == Spec => []DeniedFilesStayClosed
<1>1. Inv => DeniedFilesStayClosed
  BY DEF Inv
<1> QED  BY <1>1, Invariance, PTL

\* For any files and access rights, and however often the rules change, an
\* operation is refused only for a rule that stood.
THEOREM DenialsHaveRules == Spec => []DenialHasRule
<1>1. Inv => DenialHasRule
  BY DEF Inv
<1> QED  BY <1>1, Invariance, PTL
====
