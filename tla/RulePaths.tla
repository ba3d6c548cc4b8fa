---- MODULE RulePaths ----
(***************************************************************************)
(* What the texts of the registry come to mean: from the path of a key and *)
(* the name of a value to an entry of the rule store, and from the image   *)
(* of a process and the path of a file, or the new name of a renamed one,  *)
(* to the verdict of that entry.  The algorithms are those of              *)
(* src/src/rules_manager.rs, path_utils.rs, string_utils.rs and            *)
(* process.rs, character by character: they cut texts at fixed lengths and *)
(* look for single separators, so their hazards are at the boundaries.     *)
(*                                                                         *)
(* One value of one key is a rule at a time, and one operation is judged.  *)
(* The system's functions that the code calls are external: the wildcard   *)
(* match, upper case, prefixes, and the symbolic links of drives.          *)
(***************************************************************************)
EXTENDS Naturals, SequencesExt

CONSTANTS
    Upcased,        \* character -> character in upper case
    Root,           \* RULES_REGISTRY_KEY_PATH, as a sequence of names
    TypeNames,      \* rule type -> name of its key
    Devices,        \* letter of a mapped drive -> path of its device, as names
    KeyPaths,       \* paths of keys, as sequences of names
    Written,        \* rule paths, as administrators mean them
    Images, Files,  \* images of processes and files, as sequences of names
    NewNames,       \* new names of files, the same without their drives
    Directories     \* where a new name may be that has no drive, as names

Chars == DOMAIN Upcased
Text == Seq(Chars)
RuleTypes == DOMAIN TypeNames
Anywhere == "*"

ASSUME RulePathsAssumption ==
    /\ {"\\", "*", "?", ":"} \subseteq Chars /\ "error" \notin Chars
    /\ Upcased \in [Chars -> Chars]
    /\ \A c \in Chars : Upcased[Upcased[c]] = Upcased[c]
    /\ DOMAIN Devices \subseteq Chars \ {Anywhere}
    /\ \A v \in Written : v.drive \in Chars

\* The signs that are wildcards of DOS names only are in no text.
ASSUME WildcardAssumption == {"<", ">", "\""} \intersect Chars = {}

\* A name of a key or a file, with no separator in it.
Name == Seq(Chars \ {"\\"}) \ {<< >>}

Plain(name) == Range(name) \intersect {"*", "?"} = {}

\* The full path of these names, as the system spells it.
PathText(names) ==
    LET upto[n \in 0 .. Len(names)] ==
            IF n = 0 THEN << >> ELSE upto[n - 1] \o <<"\\">> \o names[n]
    IN  upto[Len(names)]

\* A value's name: a drive or `*`, names, and `\` at the end of a folder.
ValueText(v) ==
    (IF v.drive = Anywhere THEN <<"*">> ELSE <<v.drive, ":">>)
        \o PathText(v.names) \o (IF v.folder THEN <<"\\">> ELSE << >>)

VARIABLES
    stored,     \* the entry in the rule store, if any
    asked,      \* the key and the value that were set
    judged      \* the last operation and its verdict

vars == <<stored, asked, judged>>

Nothing == [type |-> "none"]
Init == stored = Nothing /\ asked = << >> /\ judged = << >>

----------------------------------------------------------------------------
(* Functions of the system.                                                *)

Upper(text) == [i \in DOMAIN text |-> Upcased[text[i]]]

\* FsRtlIsNameInExpression.  The expression has to be in upper case already
\* when case is ignored.  `reached[i]` are the lengths that the first i
\* characters of the expression can match.
IsNameInExpression(expression, name, ignoreCase) ==
    LET n == IF ignoreCase THEN Upper(name) ELSE name
        reached[i \in 0 .. Len(expression)] ==
            IF i = 0 THEN {0}
            ELSE LET before == reached[i - 1]
                 IN  {j \in 0 .. Len(n) :
                         IF expression[i] = "*" THEN \E k \in before : k <= j
                         ELSE j - 1 \in before /\ expression[i] \in {"?", n[j]}}
    IN  Len(n) \in reached[Len(expression)]

\* obj_man_dos_drive_to_nt: the link `\??\X:`, whatever the case of X.
LinkTargets ==
    LET letters == {c \in Chars : Upcased[c] \in DOMAIN Devices}
    IN  [link \in {<<"\\", "?", "?", "\\", c, ":">> : c \in letters} |->
            PathText(Devices[Upcased[link[5]]])]

----------------------------------------------------------------------------
(* string_utils.rs.                                                        *)

mathes(string, regex) == IsNameInExpression(regex, string, FALSE)
mathes_no_case(string, regex) == IsNameInExpression(regex, string, TRUE)

starts_with_no_case(string, str) == IsPrefix(Upper(str), Upper(string))
ends_with(string, str) == IsSuffix(str, string)
equals_no_case(string, str) == Upper(string) = Upper(str)

\* Upper case turns nothing into a sign.  The path of a file may end in an empty
\* name, for a root directory.
ASSUME SpellingAssumption ==
    /\ \A c \in Chars, sign \in {"\\", "*", "?", ":"} : Upcased[c] = sign <=> c = sign
    /\ {"none", "Bypass", "Passed"} \intersect RuleTypes = {}
    /\ Root \in Seq(Name) \ {<< >>}
    /\ TypeNames \in [RuleTypes -> Name]
    /\ \A t, u \in RuleTypes :
         equals_no_case(TypeNames[t], TypeNames[u]) => t = u
    /\ \A d \in DOMAIN Devices :
         /\ Devices[d] \in Seq(Name) \ {<< >>}
         /\ \A i \in DOMAIN Devices[d] : Plain(Devices[d][i])
    /\ KeyPaths \subseteq Seq(Name) \ {<< >>}
    /\ \A v \in Written : v.folder \in BOOLEAN /\ v.names \in Seq(Name)
    /\ Images \union Files \subseteq Seq(Name \union {<< >>}) \ {<< >>}
    /\ NewNames \subseteq Seq(Name \union {<< >>})
    /\ Directories \subseteq Seq(Name) \ {<< >>}

\* Indices count from 0; -1 stands for None.
last_index_of(string, ch) == SelectLastInSeq(string, LAMBDA c : c = ch) - 1

\* A text that no operation makes.
Error == <<"error">>

substr(string, idx) ==
    IF idx > Len(string) THEN Error ELSE SubSeq(string, idx + 1, Len(string))

slice(string, start, end) ==
    IF start > end \/ end > Len(string) THEN Error ELSE SubSeq(string, start + 1, end)

\* The first part of split_at; substr is the second.
head_of(string, mid) ==
    IF mid > Len(string) THEN Error ELSE SubSeq(string, 1, mid)

----------------------------------------------------------------------------
(* path_utils.rs.                                                          *)

ObjManagerPathPrefix == <<"\\", "?", "?", "\\">>

\* Mutant: the prefix of the object manager is not taken for one.
dos_path_to_nt_plain(path) ==
    LET link == ObjManagerPathPrefix \o head_of(path, 2)
    IN  IF Len(path) < 2 \/ link \notin DOMAIN LinkTargets THEN Error
        ELSE LinkTargets[link] \o substr(path, 2)

\* The drive is what stands before index `mid`.
dos_path_to_nt(path) ==
    LET prefixed == starts_with_no_case(path, ObjManagerPathPrefix)
        mid == IF prefixed THEN Len(ObjManagerPathPrefix) + 2 ELSE 2
        drive == head_of(path, mid)
        link == IF prefixed THEN drive ELSE ObjManagerPathPrefix \o drive
    IN  IF mid > Len(path) \/ link \notin DOMAIN LinkTargets THEN Error
        ELSE LinkTargets[link] \o substr(path, mid)

----------------------------------------------------------------------------
(* rules_manager.rs.                                                       *)

\* Mutant: the path stays in its case.
prepare_rule_file_path_cased(path) ==
    LET nt == IF mathes(path, <<"?", ":", "*">>) THEN dos_path_to_nt(path) ELSE path
    IN  IF ends_with(nt, <<"\\">>) THEN Append(nt, "*") ELSE nt

prepare_rule_file_path(path) ==
    LET nt == IF mathes(path, <<"?", ":", "*">>) THEN dos_path_to_nt(path) ELSE path
    IN  IF nt = Error THEN Error
        ELSE Upper(IF ends_with(nt, <<"\\">>) THEN Append(nt, "*") ELSE nt)

\* Mutant: the case counts.
is_protection_key_cased(key) == IsPrefix(PathText(Root), key)

is_protection_key(key) == starts_with_no_case(key, PathText(Root))

\* FileSystemRuleAction::try_from.
ActionsNamed(name) == {t \in RuleTypes : equals_no_case(name, TypeNames[t])}

\* The type and the process of a key, Nothing where it has not both: the callers
\* do not tell a key of less from an error.
parse_protection_rule_key(key) ==
    LET below == substr(key, Len(PathText(Root)))
        last == last_index_of(below, "\\")
        types == ActionsNamed(slice(below, 1, last))
    IN  IF below = << >> \/ last <= 0 THEN Nothing
        ELSE IF types = {} THEN Nothing
        ELSE [type |-> CHOOSE t \in types : TRUE,
              process |-> substr(key, Len(PathText(Root)) + last + 1)]

\* Mutant: a path that cannot be prepared is stored all the same.
set_key_value_rule_anyway(key, value) ==
    LET rule == parse_protection_rule_key(key)
    IN  IF ~is_protection_key(key) \/ rule = Nothing THEN Nothing
        ELSE [type |-> rule.type, process |-> Upper(rule.process),
              path |-> prepare_rule_file_path(value)]

\* post_set_value, then set_key_value_rule: the entry that is added.
set_key_value_rule(key, value) ==
    LET path == prepare_rule_file_path(value)
        rule == parse_protection_rule_key(key)
    IN  IF ~is_protection_key(key) \/ path = Error \/ rule = Nothing THEN Nothing
        ELSE [type |-> rule.type, process |-> Upper(rule.process), path |-> path]

FolderRulePostfix == <<"\\", "*">>

\* Mutant: the separator stays at the end of the folder's own path.
path_covers_inside(rule, file) ==
    \/ mathes_no_case(file, rule)
    \/ /\ ends_with(rule, FolderRulePostfix)
       /\ mathes_no_case(file, head_of(rule, Len(rule) - 1))

\* The test of one path in search_rule_impl.
path_covers(rule, file) ==
    \/ mathes_no_case(file, rule)
    \/ /\ ends_with(rule, FolderRulePostfix)
       /\ mathes_no_case(file, head_of(rule, Len(rule) - Len(FolderRulePostfix)))

search_rule_action(process, file) ==
    IF /\ stored # Nothing
       /\ mathes_no_case(process, stored.process) /\ path_covers(stored.path, file)
    THEN stored.type ELSE "Bypass"

\* Process::name.
process_name(image) == substr(image, last_index_of(image, "\\") + 1)

----------------------------------------------------------------------------
SetValue(key, v) ==
    /\ asked = << >>
    /\ asked' = [key |-> key, value |-> v]
    /\ stored' = set_key_value_rule(PathText(key), ValueText(v))
    /\ UNCHANGED judged

Open(image, file) ==
    /\ asked # << >> /\ judged = << >>
    /\ judged' = [kind |-> "open", image |-> image, file |-> file,
                  verdict |-> search_rule_action(process_name(PathText(image)),
                                                 PathText(file))]
    /\ UNCHANGED <<stored, asked>>

\* A new name that cannot be converted passes (pre_set_info).
renamed_to(image, text) ==
    LET target == dos_path_to_nt(text)
    IN  IF target = Error THEN "Passed"
        ELSE search_rule_action(process_name(PathText(image)), target)

\* A file is renamed to these names on a drive.
Rename(image, prefix, drive, names) ==
    /\ asked # << >> /\ judged = << >>
    /\ judged' = [kind |-> "rename", image |-> image, drive |-> drive, names |-> names,
                  verdict |-> renamed_to(image, prefix \o <<drive, ":">> \o PathText(names))]
    /\ UNCHANGED <<stored, asked>>

\* To these names in a directory: the one that is the RootDirectory of the rename,
\* or the file's own.
RenameRelative(image, directory, names) ==
    /\ asked # << >> /\ judged = << >> /\ names \in Seq(Name) \ {<< >>}
    /\ judged' = [kind |-> "relative", image |-> image, file |-> directory \o names,
                  verdict |-> renamed_to(image, Tail(PathText(names)))]
    /\ UNCHANGED <<stored, asked>>

Drives == {v.drive : v \in Written} \ {Anywhere}

Next ==
    \/ \E key \in KeyPaths, v \in Written : SetValue(key, v)
    \/ \E image \in Images, file \in Files : Open(image, file)
    \/ \E image \in Images, prefix \in {<< >>, ObjManagerPathPrefix}, drive \in Drives :
          \E names \in NewNames : Rename(image, prefix, drive, names)
    \/ \E image \in Images, directory \in Directories, names \in NewNames :
          RenameRelative(image, directory, names)

Spec == Init /\ [][Next]_vars

----------------------------------------------------------------------------
(* Properties: the texts mean what they say, name by name.                 *)

TypeOK ==
    /\ stored = Nothing \/ stored \in [type : RuleTypes, process : Text, path : Text]
    /\ asked = << >> \/ asked \in [key : KeyPaths, value : Written]
    /\ judged = << >> \/ judged.verdict \in RuleTypes \union {"Bypass", "Passed"}

Alike(names, others) ==
    Len(names) = Len(others) /\ \A i \in DOMAIN names : equals_no_case(names[i], others[i])

Upto(names, n) == SubSeq(names, 1, n)

\* The key <rules key>\<type>\<process>.
IsRuleKey(key, type) ==
    /\ Len(key) = Len(Root) + 2
    /\ Alike(Upto(key, Len(Root) + 1), Append(Root, TypeNames[type]))

\* A key beside the rules key whose name continues its name: the character after
\* it is taken for the separator, and what follows for a type.
IsTakenForRuleKey(key, type) ==
    LET n == Len(Root)
    IN  /\ Len(key) = n + 1 /\ Alike(Upto(key, n - 1), Upto(Root, n - 1))
        /\ \E c \in Chars : equals_no_case(key[n], Root[n] \o <<c>> \o TypeNames[type])

Mapped(drive) == Upcased[drive] \in DOMAIN Devices

\* A value becomes a rule exactly if its key is one for a process of a type and
\* its drive is there, and the rule is of that type and for the process that the
\* last name of the key names; the one exception are keys whose name continues
\* the name of the rules key (is_protection_key, parse_protection_rule_key).
OnlyRuleKeysCount ==
    asked # << >> =>
        \A t \in RuleTypes :
            (stored.type = t) <=>
                /\ IsRuleKey(asked.key, t) \/ IsTakenForRuleKey(asked.key, t)
                /\ asked.value.drive = Anywhere \/ Mapped(asked.value.drive)

\* The rule keys are those below the two types, and no others: without the exception.
NoOtherKeyCounts ==
    asked # << >> =>
        \A t \in RuleTypes : stored.type = t => IsRuleKey(asked.key, t)

\* The process of the rule is the last name of the key.
NamesProcess(image) ==
    LET pattern == Last(asked.key)
    IN  IF Head(pattern) = "*"
        THEN IsSuffix(Upper(Tail(pattern)), Upper(Last(image)))
        ELSE equals_no_case(Last(image), pattern)

\* The names that a value spells, and the places of a file's path where they may be:
\* with a drive at its start and, but for a folder, at its end.
MeantNames(v) ==
    IF v.drive = Anywhere THEN v.names ELSE Devices[Upcased[v.drive]] \o v.names

Places(v, file) ==
    {i \in IF v.drive = Anywhere THEN 0 .. Len(file) ELSE {0} :
        LET end == i + Len(MeantNames(v))
        IN  end <= Len(file) /\ (v.folder \/ end = Len(file))}

NamesAt(v, file, i) == SubSeq(file, i + 1, i + Len(MeantNames(v)))

\* The value means this file: exactly it or, for a folder, what is in it too.
Means(v, file) == \E i \in Places(v, file) : Alike(NamesAt(v, file, i), MeantNames(v))

\* Its wildcards, if any, stand for characters of the file's names.
Fits(v, file) ==
    \E i \in Places(v, file) : \A m \in DOMAIN MeantNames(v) :
        mathes_no_case(NamesAt(v, file, i)[m], Upper(MeantNames(v)[m]))

\* The names of the rule say exactly what they mean: its path has no wildcards,
\* and its process has none but a `*` at its start.
Exact ==
    /\ \A i \in DOMAIN asked.value.names : Plain(asked.value.names[i])
    /\ Plain(Tail(Last(asked.key))) /\ Head(Last(asked.key)) # "?"

\* A rule without further wildcards decides an open exactly if the image's own name
\* fits its process and the file is the one meant, or in the folder meant or that
\* folder itself; no case counts and no neighbour whose name only starts alike
\* (search_rule_impl, prepare_rule_file_path, Process::name).
RuleMeansWhatItSays ==
    judged # << >> /\ stored # Nothing /\ judged.kind = "open" /\ Exact =>
        (judged.verdict = stored.type) <=>
            NamesProcess(judged.image) /\ Means(asked.value, judged.file)

\* The file that a rename to a name on a mapped drive is about.
Target == Devices[Upcased[judged.drive]] \o judged.names

\* The new name of a rename, with a drive, is judged like the file it names, with the
\* prefix of the object manager or without (dos_path_to_nt in pre_set_info).
RenameIsJudgedByItsTarget ==
    /\ judged # << >> /\ stored # Nothing
    /\ judged.kind = "rename" /\ Mapped(judged.drive) /\ Exact
    => (judged.verdict = stored.type) <=>
            NamesProcess(judged.image) /\ Means(asked.value, Target)

\* Wildcards apply within the names where they stand, in those of processes and of
\* files, in folders and at any end: such a rule decides at least what it spells
\* name by name (prepare_rule_file_path, search_rule_impl).
WildcardsApply ==
    /\ judged # << >> /\ stored # Nothing
    /\ judged.kind = "open" \/ (judged.kind = "rename" /\ Mapped(judged.drive))
    /\ mathes_no_case(Last(judged.image), Upper(Last(asked.key)))
    /\ Fits(asked.value, IF judged.kind = "open" THEN judged.file ELSE Target)
    => judged.verdict = stored.type
====
