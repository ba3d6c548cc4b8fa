---- MODULE RulesLoadingProofs ----
(***************************************************************************)
(* Proofs about RulesLoading, for any names, values, registry to start     *)
(* with and number of changes, and with failing allocations.               *)
(*                                                                         *)
(* The argument is about an enumeration by index of a sequence that        *)
(* others change.  Insertions move the elements to come to later indices,  *)
(* so that none is passed over; removals move them to earlier ones, so     *)
(* that none comes twice.  StandingOK and OnceOK carry these two facts     *)
(* from the enumeration of a level to the lists that are built from it.    *)
(*                                                                         *)
(* CopyOK has what a load makes of a registry that nobody changes: what    *)
(* was read at a level is what comes first in it, and the entries built    *)
(* are those of the first keys.                                            *)
(***************************************************************************)
EXTENDS RulesLoading, RuleStoreProofs

----------------------------------------------------------------------------
(* Enumerations by index.                                                  *)

\* An element was found, or is at an index still to come.
Ahead(seq, found, x) ==
    x \in Range(found) \/ \E j \in Len(found) + 1 .. Len(seq) : seq[j] = x

\* No element was found twice, and none of those found is still to come.
Fresh(seq, found) ==
    /\ IsInjective(found)
    /\ \A i \in 1 .. Len(found), j \in Len(found) + 1 .. Len(seq) : found[i] # seq[j]

\* Elements only moved to later positions.
Extension(seq, longer) ==
    \A i \in 1 .. Len(seq) : \E j \in i .. Len(longer) : longer[j] = seq[i]

\* Elements only moved to earlier positions.
Reduction(seq, shorter) ==
    \A j \in 1 .. Len(shorter) : \E i \in j .. Len(seq) : seq[i] = shorter[j]

\* The elements of a sequence.
LEMMA ElementsOfSeq ==
    ASSUME NEW S, NEW s \in Seq(S)
    PROVE  /\ Len(s) \in Nat /\ DOMAIN s = 1 .. Len(s)
           /\ \A x : x \in Range(s) <=> \E i \in 1 .. Len(s) : s[i] = x
           /\ \A i \in 1 .. Len(s) : s[i] \in S
           /\ Range(s) \subseteq S
<1>1. DOMAIN s = 1 .. Len(s) /\ Len(s) \in Nat
  BY LenProperties
<1>2. \A x : x \in Range(s) <=> \E i \in 1 .. Len(s) : s[i] = x
  BY <1>1 DEF Range
<1>3. \A i \in 1 .. Len(s) : s[i] \in S
  BY ElementOfSeq
<1> QED  BY <1>1, <1>2, <1>3

\* The elements of a sequence with one more.
LEMMA AppendShape ==
    ASSUME NEW S, NEW s \in Seq(S), NEW x \in S
    PROVE  /\ Append(s, x) \in Seq(S) /\ Len(Append(s, x)) = Len(s) + 1
           /\ \A y : y \in Range(Append(s, x)) <=> y \in Range(s) \/ y = x
           /\ \A i \in 1 .. Len(s) : Append(s, x)[i] = s[i]
           /\ Append(s, x)[Len(s) + 1] = x
<1> DEFINE longer == Append(s, x)
<1>1. /\ longer \in Seq(S) /\ Len(longer) = Len(s) + 1
      /\ \A i \in 1 .. Len(s) : longer[i] = s[i]
      /\ longer[Len(s) + 1] = x
  BY AppendProperties
<1> HIDE DEF longer
<1>2. \A y : y \in Range(longer) <=> \E i \in 1 .. Len(longer) : longer[i] = y
  BY <1>1, ElementsOfSeq
<1>3. Len(s) \in Nat /\ \A y : y \in Range(s) <=> \E i \in 1 .. Len(s) : s[i] = y
  BY ElementsOfSeq
<1>4. \A i : i \in 1 .. Len(s) + 1 <=> i \in 1 .. Len(s) \/ i = Len(s) + 1
  BY <1>3
<1> QED  BY <1>1, <1>2, <1>3, <1>4 DEF longer

\* At the start of an enumeration everything is ahead.
LEMMA AheadStart ==
    ASSUME NEW S, NEW s \in Seq(S), NEW x \in Range(s)
    PROVE  Ahead(s, << >>, x)
<1>1. PICK i \in 1 .. Len(s) : s[i] = x
  BY ElementsOfSeq
<1>2. Len(<< >>) = 0 /\ Len(s) \in Nat
  BY LenProperties
<1> QED  BY <1>1, <1>2 DEF Ahead

\* A step of the enumeration passes over nothing.
LEMMA AheadStep ==
    ASSUME NEW S, NEW s \in Seq(S), NEW T, NEW found \in Seq(T), NEW x,
           Len(found) < Len(s), s[Len(found) + 1] \in T, Ahead(s, found, x)
    PROVE  Ahead(s, Append(found, s[Len(found) + 1]), x)
<1> DEFINE n == Len(found)
           more == Append(found, s[n + 1])
<1>1. n \in Nat /\ Len(s) \in Nat
  BY LenProperties
<1>2. Len(more) = n + 1 /\ \A y : y \in Range(more) <=> y \in Range(found) \/ y = s[n + 1]
  BY AppendShape
<1> HIDE DEF n, more
<1>3. CASE x \in Range(found)
  BY <1>2, <1>3 DEF Ahead, more, n
<1>4. CASE \E j \in n + 1 .. Len(s) : s[j] = x
  <2>1. PICK j \in n + 1 .. Len(s) : s[j] = x
    BY <1>4
  <2>2. CASE j = n + 1
    BY <1>2, <2>1, <2>2 DEF Ahead, more, n
  <2>3. CASE j # n + 1
    <3>1. j \in (n + 1) + 1 .. Len(s)
      BY <1>1, <2>3
    <3> QED  BY <1>2, <2>1, <3>1 DEF Ahead, more, n
  <2> QED  BY <2>2, <2>3
<1> QED  BY <1>3, <1>4 DEF Ahead, n

\* At the end everything was found.
LEMMA AheadEnd ==
    ASSUME NEW S, NEW s \in Seq(S), NEW T, NEW found \in Seq(T), NEW x,
           Len(found) >= Len(s), Ahead(s, found, x)
    PROVE  x \in Range(found)
<1>1. Len(found) \in Nat /\ Len(s) \in Nat
  BY LenProperties
<1>2. Len(found) + 1 .. Len(s) = {}
  BY <1>1
<1> QED  BY <1>2 DEF Ahead

\* What is ahead stays ahead when elements only move to later positions.
LEMMA AheadExtends ==
    ASSUME NEW S, NEW s \in Seq(S), NEW longer \in Seq(S), NEW T, NEW found \in Seq(T), NEW x,
           Extension(s, longer), Ahead(s, found, x)
    PROVE  Ahead(longer, found, x)
<1>1. Len(found) \in Nat /\ Len(s) \in Nat /\ Len(longer) \in Nat
  BY LenProperties
<1>2. CASE \E j \in Len(found) + 1 .. Len(s) : s[j] = x
  <2>1. PICK j \in Len(found) + 1 .. Len(s) : s[j] = x
    BY <1>2
  <2>2. j \in 1 .. Len(s)
    BY <1>1
  <2>3. PICK k \in j .. Len(longer) : longer[k] = s[j]
    BY <2>2 DEF Extension
  <2>4. k \in Len(found) + 1 .. Len(longer)
    BY <1>1, <2>1
  <2> QED  BY <2>1, <2>3, <2>4 DEF Ahead
<1> QED  BY <1>2 DEF Ahead

\* A sequence is an extension of itself.
LEMMA ExtensionItself ==
    ASSUME NEW S, NEW s \in Seq(S)
    PROVE  Extension(s, s)
<1>1. Len(s) \in Nat
  BY LenProperties
<1>2. \A i \in 1 .. Len(s) : i \in i .. Len(s)
  BY <1>1
<1> QED  BY <1>2 DEF Extension

\* An extension has the elements there were.
LEMMA ExtensionRange ==
    ASSUME NEW S, NEW s \in Seq(S), NEW longer \in Seq(S), Extension(s, longer)
    PROVE  Range(s) \subseteq Range(longer)
<1>1. /\ Len(s) \in Nat /\ \A y \in Range(s) : \E i \in 1 .. Len(s) : s[i] = y
      /\ Len(longer) \in Nat /\ \A i \in 1 .. Len(longer) : longer[i] \in Range(longer)
  BY ElementsOfSeq
<1>2. ASSUME NEW i \in 1 .. Len(s) PROVE s[i] \in Range(longer)
  <2>1. PICK j \in i .. Len(longer) : longer[j] = s[i]
    BY DEF Extension
  <2>2. j \in 1 .. Len(longer)
    BY <1>1
  <2> QED  BY <1>1, <2>1, <2>2
<1> QED  BY <1>1, <1>2

\* An insertion extends, and brings its element.
LEMMA InsertExtends ==
    ASSUME NEW S, NEW s \in Seq(S), NEW e \in S, NEW longer \in Insertions(s, e)
    PROVE  longer \in Seq(S) /\ Extension(s, longer) /\ e \in Range(longer)
<1>1. PICK k \in 1 .. Len(s) + 1 : longer = InsertAt(s, k, e)
  BY DEF Insertions
<1>2. /\ longer \in Seq(S) /\ Len(longer) = Len(s) + 1
      /\ \A j \in 1 .. Len(s) + 1 :
           longer[j] = IF j < k THEN s[j] ELSE IF j = k THEN e ELSE s[j - 1]
  BY <1>1, InsertAtShape
<1>3. Len(s) \in Nat
  BY LenProperties
<1>4. ASSUME NEW i \in 1 .. Len(s)
      PROVE  \E j \in i .. Len(longer) : longer[j] = s[i]
  <2>1. CASE i < k
    <3>1. i \in i .. Len(longer) /\ i \in 1 .. Len(s) + 1
      BY <1>2, <1>3
    <3>2. longer[i] = s[i]
      BY <1>2, <2>1, <3>1
    <3> QED  BY <3>1, <3>2
  <2>2. CASE ~(i < k)
    <3>1. i + 1 \in i .. Len(longer) /\ i + 1 \in 1 .. Len(s) + 1
      BY <1>2, <1>3
    <3>2. ~(i + 1 < k) /\ i + 1 # k /\ (i + 1) - 1 = i
      BY <1>1, <1>3, <2>2
    <3>3. longer[i + 1] = s[i]
      BY <1>2, <3>1, <3>2
    <3> QED  BY <3>1, <3>3
  <2> QED  BY <2>1, <2>2
<1>5. k \in 1 .. Len(longer) /\ longer[k] = e
  <2>1. ~(k < k)
    BY <1>3
  <2> QED  BY <1>2, <2>1
<1>6. e \in Range(longer)
  BY <1>2, <1>5, ElementsOfSeq
<1> QED  BY <1>2, <1>4, <1>6 DEF Extension

\* The head and the tail.
LEMMA HeadTailShape ==
    ASSUME NEW S, NEW s \in Seq(S), s # << >>
    PROVE  /\ Head(s) \in S /\ Tail(s) \in Seq(S)
           /\ \A x : x \in Range(s) <=> x = Head(s) \/ x \in Range(Tail(s))
           /\ IsInjective(s) => IsInjective(Tail(s)) /\ Head(s) \notin Range(Tail(s))
<1> DEFINE rest == Tail(s)
<1>1. /\ Head(s) \in S /\ rest \in Seq(S) /\ Len(rest) = Len(s) - 1
      /\ \A i \in 1 .. Len(rest) : rest[i] = s[i + 1]
  BY HeadTailProperties
<1>2. Head(s) = s[1] /\ Len(s) \in Nat \ {0}
  BY EmptySeq
<1> HIDE DEF rest
<1>3. DOMAIN s = 1 .. Len(s) /\ \A x : x \in Range(s) <=> \E i \in 1 .. Len(s) : s[i] = x
  BY ElementsOfSeq
<1>4. /\ DOMAIN rest = 1 .. Len(rest)
      /\ \A x : x \in Range(rest) <=> \E i \in 1 .. Len(rest) : rest[i] = x
  BY <1>1, ElementsOfSeq
<1>5. \A i \in 1 .. Len(rest) : i + 1 \in 1 .. Len(s) /\ i + 1 # 1
  BY <1>1, <1>2
<1>6. \A i \in 1 .. Len(s) : i = 1 \/ (i - 1 \in 1 .. Len(rest) /\ (i - 1) + 1 = i)
  BY <1>1, <1>2
<1>7. ASSUME NEW x PROVE x \in Range(s) <=> x = Head(s) \/ x \in Range(rest)
  <2>1. 1 \in 1 .. Len(s)
    BY <1>2
  <2>2. x \in Range(rest) => x \in Range(s)
    BY <1>1, <1>3, <1>4, <1>5
  <2>3. ASSUME NEW i \in 1 .. Len(s), s[i] = x PROVE x = Head(s) \/ x \in Range(rest)
    BY <1>1, <1>2, <1>4, <1>6, <2>3
  <2> QED  BY <1>2, <1>3, <2>1, <2>2, <2>3
<1>8. ASSUME IsInjective(s) PROVE IsInjective(rest) /\ Head(s) \notin Range(rest)
  <2>1. ASSUME NEW i \in 1 .. Len(rest), NEW j \in 1 .. Len(rest), rest[i] = rest[j]
        PROVE  i = j
    <3>1. s[i + 1] = s[j + 1]
      BY <1>1, <2>1
    <3>2. i + 1 = j + 1
      BY <1>3, <1>5, <1>8, <3>1 DEF IsInjective
    <3> QED  BY <3>2
  <2>2. ASSUME NEW i \in 1 .. Len(rest) PROVE rest[i] # Head(s)
    <3>1. i + 1 \in 1 .. Len(s) /\ 1 \in 1 .. Len(s) /\ i + 1 # 1
      BY <1>2, <1>5
    <3>2. s[i + 1] # s[1]
      BY <1>3, <1>8, <3>1 DEF IsInjective
    <3> QED  BY <1>1, <1>2, <3>2
  <2> QED  BY <1>4, <2>1, <2>2 DEF IsInjective
<1> QED  BY <1>1, <1>7, <1>8 DEF rest

\* Before the enumeration of distinct elements nothing was found twice.
LEMMA FreshStart ==
    ASSUME NEW S, NEW s \in Seq(S)
    PROVE  Fresh(s, << >>)
<1>1. Len(<< >>) = 0 /\ DOMAIN << >> = {}
  OBVIOUS
<1> QED  BY <1>1 DEF Fresh, IsInjective

\* A step of the enumeration of distinct elements finds a new one.
LEMMA FreshStep ==
    ASSUME NEW S, NEW s \in Seq(S), NEW T, NEW found \in Seq(T), IsInjective(s),
           Len(found) < Len(s), s[Len(found) + 1] \in T, Fresh(s, found)
    PROVE  Fresh(s, Append(found, s[Len(found) + 1]))
<1> DEFINE n == Len(found)
           e == s[n + 1]
           more == Append(found, e)
<1>1. n \in Nat /\ Len(s) \in Nat /\ DOMAIN s = 1 .. Len(s)
  BY LenProperties
<1>2. /\ more \in Seq(T) /\ Len(more) = n + 1 /\ more[n + 1] = e
      /\ \A i \in 1 .. n : more[i] = found[i]
  BY AppendShape
<1>3. /\ \A i, j \in 1 .. n : found[i] = found[j] => i = j
      /\ \A i \in 1 .. n, j \in n + 1 .. Len(s) : found[i] # s[j]
  <2>1. DOMAIN found = 1 .. n
    BY LenProperties
  <2> QED  BY <2>1 DEF Fresh, IsInjective
<1>4. DOMAIN more = 1 .. n + 1
  BY <1>2, LenProperties
<1>5. n + 1 \in n + 1 .. Len(s) /\ n + 1 \in 1 .. Len(s)
  BY <1>1
<1>6. \A i \in 1 .. n + 1 : i \in 1 .. n \/ i = n + 1
  BY <1>1
<1>7. \A i \in 1 .. n : found[i] # e
  BY <1>3, <1>5
<1>8. ASSUME NEW j \in (n + 1) + 1 .. Len(s)
      PROVE  s[j] # e /\ j \in n + 1 .. Len(s)
  <2>1. j \in 1 .. Len(s) /\ j # n + 1 /\ j \in n + 1 .. Len(s)
    BY <1>1
  <2> QED  BY <1>1, <1>5, <2>1 DEF IsInjective
<1> HIDE DEF n, e, more
<1>9. IsInjective(more)
  BY <1>2, <1>3, <1>4, <1>6, <1>7 DEF IsInjective
<1>10. \A i \in 1 .. n + 1, j \in (n + 1) + 1 .. Len(s) : more[i] # s[j]
  BY <1>2, <1>3, <1>6, <1>8
<1> QED  BY <1>2, <1>9, <1>10 DEF Fresh, more, e, n

\* Where elements only move to earlier positions, none that was found comes again.
LEMMA FreshReduces ==
    ASSUME NEW S, NEW s \in Seq(S), NEW shorter \in Seq(S), NEW T, NEW found \in Seq(T),
           Reduction(s, shorter), Fresh(s, found)
    PROVE  Fresh(shorter, found)
<1>1. Len(found) \in Nat /\ Len(s) \in Nat /\ Len(shorter) \in Nat
  BY LenProperties
<1>2. ASSUME NEW i \in 1 .. Len(found), NEW j \in Len(found) + 1 .. Len(shorter)
      PROVE  found[i] # shorter[j]
  <2>1. j \in 1 .. Len(shorter)
    BY <1>1
  <2>2. PICK k \in j .. Len(s) : s[k] = shorter[j]
    BY <2>1 DEF Reduction
  <2>3. k \in Len(found) + 1 .. Len(s)
    BY <1>1, <2>2
  <2> QED  BY <2>2, <2>3 DEF Fresh
<1> QED  BY <1>2 DEF Fresh

\* A sequence is a reduction of itself.
LEMMA ReductionItself ==
    ASSUME NEW S, NEW s \in Seq(S)
    PROVE  Reduction(s, s)
<1>1. Len(s) \in Nat
  BY LenProperties
<1>2. \A i \in 1 .. Len(s) : i \in i .. Len(s)
  BY <1>1
<1> QED  BY <1>2 DEF Reduction

\* A removal reduces, and leaves distinct elements distinct.
LEMMA RemoveFirstReduces ==
    ASSUME NEW S, NEW s \in Seq(S), NEW x \in Range(s)
    PROVE  /\ Reduction(s, RemoveFirst(s, x))
           /\ IsInjective(s) => IsInjective(RemoveFirst(s, x))
<1> DEFINE shorter == RemoveFirst(s, x)
<1>1. PICK k \in 1 .. Len(s) : s[k] = x /\ shorter = RemoveAt(s, k)
  BY RemoveFirstIsRemoveAt
<1>2. shorter \in Seq(S)
  BY RemoveFirstType
<1>3. /\ Len(shorter) = Len(s) - 1
      /\ \A j \in 1 .. Len(s) - 1 : shorter[j] = IF j < k THEN s[j] ELSE s[j + 1]
  BY <1>1, RemoveAtShape
<1> HIDE DEF shorter
<1>4. Len(s) \in Nat /\ DOMAIN s = 1 .. Len(s) /\ DOMAIN shorter = 1 .. Len(s) - 1
  BY <1>2, <1>3, LenProperties
<1> DEFINE from(j) == IF j < k THEN j ELSE j + 1
<1>5. \A j \in 1 .. Len(s) - 1 : from(j) \in j .. Len(s) /\ from(j) \in 1 .. Len(s)
  BY <1>4
<1>6. \A j \in 1 .. Len(s) - 1 : shorter[j] = s[from(j)]
  BY <1>3
<1>7. \A i, j \in 1 .. Len(s) - 1 : from(i) = from(j) => i = j
  BY <1>4
<1> HIDE DEF from
<1>8. Reduction(s, shorter)
  BY <1>3, <1>5, <1>6 DEF Reduction
<1>9. IsInjective(s) => IsInjective(shorter)
  BY <1>4, <1>5, <1>6, <1>7 DEF IsInjective
<1> QED  BY <1>8, <1>9 DEF shorter

----------------------------------------------------------------------------
(* The invariant.                                                          *)

\* What is found at a level, and what the stages past it know.
StageOK ==
    /\ loader.pc = "types" => loader.found \in Seq(Types)
    /\ loader.pc = "procs" => loader.found \in Seq(Names)
    /\ loader.pc = "values" =>
         loader.found \in Seq(Values) /\ loader.procs # << >> /\ loader.key \in Names
    /\ loader.pc \in {"prepare", "create", "type", "proc"} => loader.found = << >>
    /\ loader.pc \in {"procs", "proc", "values"} =>
         loader.types # << >> /\ loader.type \in Types
    /\ loader.pc \in {"proc", "values"} => Head(loader.types) \in RuleTypes

\* The history is one of the registry while the load goes on.
LedgerOK ==
    Loading => history.always \subseteq Asked(reg) /\ Asked(reg) \subseteq history.ever

\* A change under the load was no renaming of a key.
Unnamed(kinds) == ~({"added", "removed", "renamed"} \subseteq kinds)

\* The handles are those of the keys the loader asked for.
NamedOK ==
    Unnamed(history.changes) =>
        /\ loader.pc \in {"procs", "proc", "values"} => loader.type = Head(loader.types)
        /\ loader.pc = "values" => loader.key = Head(loader.procs)

\* Every path in an entry of the type was asked for once.
Were(type, entries) ==
    \A i \in DOMAIN entries : \A p \in Range(entries[i].paths) :
        <<type, entries[i].process, p>> \in history.ever

\* What was read was there.
ThereOK ==
    Unnamed(history.changes) =>
        /\ \A t \in RuleTypes : Were(t, vecs[t].entries)
        /\ loader.pc \in {"proc", "values"} => Were(Head(loader.types), loader.rules)
        /\ loader.pc = "values" => \A v \in Range(loader.found) :
             <<Head(loader.types), Head(loader.procs), Prepared[v]>> \in history.ever

Inv == TypeOK /\ StageOK /\ LedgerOK /\ NamedOK /\ ThereOK

\* There are two types of rules, and both may be subkeys.
LEMMA RuleTypesAreTypes == RuleTypes \subseteq Types
BY RulesLoadingAssumption

\* What the registry holds.
LEMMA Holdings ==
    ASSUME NEW r \in Registry, NEW t \in Types, NEW n \in Names
    PROVE  /\ r.types \in Seq(Types) /\ r.procs[t] \in Seq(Names)
           /\ r.values[t][n] \in Seq(Values)
BY DEF Registry

\* A path of a value is a path.
LEMMA PreparedPaths == \A v \in Values : Prepared[v] \in Paths
BY RulesLoadingAssumption

----------------------------------------------------------------------------
(* The initial state.                                                      *)

\* The loader has read nothing.
LEMMA InitInv == Init => Inv
<1> SUFFICES ASSUME Init PROVE Inv
  OBVIOUS
<1>1. reg \in Registry
  BY RulesLoadingAssumption DEF Init
<1>2. TypeOK
  <2>1. ops \in 0 .. MaxOps
    BY RulesLoadingAssumption DEF Init
  <2>2. EmptyVec \in Vec
    BY DEF EmptyVec, Vec
  <2>3. vecs \in [RuleTypes -> Vec]
    BY <2>2 DEF Init
  <2>4. loader \in Loader
    BY DEF Init, Loader
  <2>5. history \in History
    BY DEF Init, History, Asked
  <2> QED  BY <1>1, <2>1, <2>3, <2>4, <2>5 DEF TypeOK, Init
<1>3. StageOK /\ LedgerOK /\ NamedOK
  BY DEF Init, StageOK, LedgerOK, NamedOK
<1>4. ThereOK
  BY DEF Init, ThereOK, Were, EmptyVec
<1> QED  BY <1>2, <1>3, <1>4 DEF Inv

----------------------------------------------------------------------------
(* The steps of the loader.                                                *)

\* The types with one that may have been missing.
LEMMA WithTypeShape ==
    ASSUME reg \in Registry, NEW t \in Types, NEW types \in WithType(t)
    PROVE  types \in Seq(Types) /\ Extension(reg.types, types) /\ t \in Range(types)
<1> DEFINE old == reg.types
<1>1. old \in Seq(Types)
  BY DEF Registry
<1>2. types \in (IF t \in Range(old) THEN {old} ELSE Insertions(old, t))
  BY DEF WithType
<1> HIDE DEF old
<1>3. CASE t \in Range(old)
  BY <1>1, <1>2, <1>3, ExtensionItself DEF old
<1>4. CASE t \notin Range(old)
  BY <1>1, <1>2, <1>4, InsertExtends DEF old
<1> QED  BY <1>3, <1>4

\* A walk leaves the registry, the lists and the history alone.
LEMMA WalkInv ==
    ASSUME Inv, NEW next \in Loader, Walk(next), Loading \/ next.pc = "registered"
    PROVE  /\ TypeOK' /\ LedgerOK' /\ loader' = next
           /\ reg' = reg /\ vecs' = vecs /\ history' = history
<1>1. /\ loader' = next /\ reg' = reg /\ vecs' = vecs /\ history' = history
      /\ drive' = drive /\ ops' = ops
  BY DEF Walk
<1>2. TypeOK'
  BY <1>1 DEF Inv, TypeOK
<1>3. LedgerOK'
  BY <1>1 DEF Inv, LedgerOK, Asked, Loading
<1> QED  BY <1>1, <1>2, <1>3

\* A failure.
LEMMA FailedInv ==
    ASSUME Inv, Loading, NEW status, Walk(Failed(status))
    PROVE  Inv'
<1>1. Failed(status) \in Loader /\ Failed(status).pc \in {"loaded", "failed"}
  <2>1. loader \in Loader
    BY DEF Inv, TypeOK
  <2> QED  BY <2>1 DEF Failed, Loader
<1>2. /\ TypeOK' /\ LedgerOK' /\ loader'.pc \in {"loaded", "failed"}
      /\ reg' = reg /\ vecs' = vecs /\ history' = history
  BY <1>1, WalkInv
<1>3. StageOK' /\ NamedOK'
  BY <1>2 DEF StageOK, NamedOK
<1>4. ThereOK'
  BY <1>2 DEF Inv, ThereOK, Were
<1> QED  BY <1>2, <1>3, <1>4 DEF Inv

\* The rules key is made.
LEMMA CreateRootInv == Inv /\ CreateRoot => Inv'
<1> SUFFICES ASSUME Inv, CreateRoot PROVE Inv'
  OBVIOUS
<1>1. /\ loader.pc = "prepare" /\ reg' = [reg EXCEPT !.root = TRUE]
      /\ loader' = [loader EXCEPT !.pc = "create", !.types = <<"Deny", "ReadOnly">>]
      /\ drive' = drive /\ vecs' = vecs /\ ops' = ops /\ history' = history
  BY DEF CreateRoot
<1>2. TypeOK /\ StageOK /\ LedgerOK /\ ThereOK
  BY DEF Inv
<1>3. reg' \in Registry /\ reg'.values = reg.values
  BY <1>1, <1>2 DEF TypeOK, Registry
<1>4. <<"Deny", "ReadOnly">> \in Seq(Types)
  <2>1. "Deny" \in Types /\ "ReadOnly" \in Types
    BY RuleTypesAreTypes DEF RuleTypes
  <2> QED  BY <2>1
<1>5. loader' \in Loader /\ loader'.pc = "create" /\ loader'.found = loader.found
  BY <1>1, <1>2, <1>4 DEF TypeOK, Loader
<1>6. TypeOK'
  BY <1>1, <1>2, <1>3, <1>5 DEF TypeOK
<1>7. StageOK' /\ NamedOK'
  BY <1>1, <1>2, <1>5 DEF StageOK, NamedOK
<1>8. LedgerOK'
  BY <1>1, <1>2, <1>3 DEF LedgerOK, Asked, Loading
<1>9. ThereOK'
  BY <1>1, <1>2, <1>5 DEF ThereOK, Were
<1> QED  BY <1>6, <1>7, <1>8, <1>9 DEF Inv

\* The key of a rule type is made, if the rules key is there.
LEMMA CreateRuleTypeInv == Inv /\ CreateRuleType => Inv'
<1> SUFFICES ASSUME Inv, CreateRuleType PROVE Inv'
  OBVIOUS
<1>1. /\ loader.pc = "create" /\ loader.types # << >> /\ loader.found = << >>
      /\ drive' = drive /\ vecs' = vecs /\ ops' = ops /\ history' = history
      /\ TypeOK /\ StageOK /\ LedgerOK /\ ThereOK
  BY DEF CreateRuleType, Inv, StageOK
<1>2. loader \in Loader /\ reg \in Registry /\ loader.types \in Seq(Types)
  BY <1>1 DEF TypeOK, Loader
<1>3. CASE reg.root
  <2>1. PICK types \in WithType(Head(loader.types)) : reg' = [reg EXCEPT !.types = types]
    BY <1>3 DEF CreateRuleType
  <2>2. loader' = [loader EXCEPT !.types = Tail(loader.types)]
    BY <1>3 DEF CreateRuleType
  <2>3. Head(loader.types) \in Types /\ Tail(loader.types) \in Seq(Types)
    BY <1>1, <1>2, HeadTailProperties
  <2>4. types \in Seq(Types)
    BY <1>2, <2>3, WithTypeShape
  <2>5. reg' \in Registry /\ reg'.values = reg.values
    BY <1>2, <2>1, <2>4 DEF Registry
  <2>6. loader' \in Loader /\ loader'.pc = "create" /\ loader'.found = loader.found
    BY <1>1, <1>2, <2>2, <2>3 DEF Loader
  <2>7. TypeOK'
    BY <1>1, <2>5, <2>6 DEF TypeOK
  <2>8. StageOK' /\ NamedOK'
    BY <1>1, <2>6 DEF StageOK, NamedOK
  <2>9. LedgerOK'
    BY <1>1, <2>5 DEF LedgerOK, Asked, Loading
  <2>10. ThereOK'
    BY <1>1, <2>6 DEF ThereOK, Were
  <2> QED  BY <2>7, <2>8, <2>9, <2>10 DEF Inv
<1>4. CASE ~reg.root
  <2>1. Walk(Failed("OBJECT_NAME_NOT_FOUND"))
    BY <1>4 DEF CreateRuleType, Walk
  <2> QED  BY <1>1, <2>1, FailedInv DEF Loading
<1> QED  BY <1>3, <1>4

\* The next child of a level is one of the level.
LEMMA EnumerateInv == Inv /\ Enumerate => Inv'
<1> SUFFICES ASSUME Inv, Enumerate PROVE Inv'
  OBVIOUS
<1> DEFINE next == Listing[Len(loader.found) + 1]
<1>1. PICK level \in {"types", "procs", "values"} :
        /\ loader.pc = level /\ Len(loader.found) < Len(Listing)
        /\ Walk([loader EXCEPT !.found = Append(@, next)])
  BY DEF Enumerate, Enumerating
<1>2. TypeOK /\ StageOK /\ LedgerOK /\ NamedOK /\ ThereOK /\ reg \in Registry /\ loader \in Loader
  BY DEF Inv, TypeOK
<1>3. ASSUME NEW S, S \subseteq Types \union Names \union Values,
             loader.found \in Seq(S), Listing \in Seq(S)
      PROVE  /\ next \in Range(Listing) /\ next \in S
             /\ Append(loader.found, next) \in Seq(S)
             /\ \A y : y \in Range(Append(loader.found, next))
                         <=> y \in Range(loader.found) \/ y = next
             /\ TypeOK' /\ LedgerOK'
             /\ loader' = [loader EXCEPT !.found = Append(loader.found, next)]
             /\ reg' = reg /\ vecs' = vecs /\ history' = history
  <2>1. Len(loader.found) + 1 \in 1 .. Len(Listing)
    BY <1>1, <1>3, LenProperties
  <2>2. next \in Range(Listing) /\ next \in S
    BY <1>3, <2>1, ElementsOfSeq
  <2>3. /\ Append(loader.found, next) \in Seq(S)
        /\ \A y : y \in Range(Append(loader.found, next))
                    <=> y \in Range(loader.found) \/ y = next
    BY <1>3, <2>2, AppendShape
  <2>4. Append(loader.found, next) \in Seq(Types \union Names \union Values)
    BY <1>3, <2>3
  <2>5. [loader EXCEPT !.found = Append(@, next)] \in Loader
    BY <1>2, <2>4 DEF Loader
  <2> QED  BY <1>1, <2>2, <2>3, <2>5, WalkInv DEF Loading
<1>4. CASE level = "types"
  <2>1. Listing = reg.types /\ Listing \in Seq(Types) /\ loader.found \in Seq(Types)
    BY <1>1, <1>2, <1>4 DEF Listing, Registry, StageOK
  <2>2. /\ TypeOK' /\ LedgerOK' /\ Append(loader.found, next) \in Seq(Types)
        /\ loader' = [loader EXCEPT !.found = Append(loader.found, next)]
        /\ vecs' = vecs /\ history' = history
    BY <1>3, <2>1
  <2> HIDE DEF next
  <2>3. loader'.pc = "types" /\ loader'.found = Append(loader.found, next)
    BY <1>1, <1>2, <1>4, <2>2 DEF Loader
  <2> QED  BY <1>1, <1>2, <1>4, <2>2, <2>3 DEF Inv, StageOK, NamedOK, ThereOK, Were
<1>5. CASE level = "procs"
  <2>1. Listing = reg.procs[loader.type] /\ loader.type \in Types
    BY <1>1, <1>2, <1>5 DEF Listing, StageOK
  <2>2. Listing \in Seq(Names) /\ loader.found \in Seq(Names)
    BY <1>1, <1>2, <1>5, <2>1 DEF Registry, StageOK
  <2>3. /\ TypeOK' /\ LedgerOK' /\ Append(loader.found, next) \in Seq(Names)
        /\ loader' = [loader EXCEPT !.found = Append(loader.found, next)]
        /\ vecs' = vecs /\ history' = history
    BY <1>3, <2>2
  <2> HIDE DEF next
  <2>4. /\ loader'.pc = "procs" /\ loader'.found = Append(loader.found, next)
        /\ loader'.types = loader.types /\ loader'.type = loader.type
    BY <1>1, <1>2, <1>5, <2>3 DEF Loader
  <2> QED  BY <1>1, <1>2, <1>5, <2>3, <2>4 DEF Inv, StageOK, NamedOK, ThereOK, Were
<1>6. CASE level = "values"
  <2>1. /\ Listing = reg.values[loader.type][loader.key] /\ Head(loader.types) \in RuleTypes
        /\ loader.type \in Types /\ loader.key \in Names /\ loader.found \in Seq(Values)
    BY <1>1, <1>2, <1>6 DEF Listing, StageOK
  <2>2. Listing \in Seq(Values)
    BY <1>2, <2>1 DEF Registry
  <2>3. /\ next \in Range(Listing) /\ next \in Values
        /\ TypeOK' /\ LedgerOK' /\ Append(loader.found, next) \in Seq(Values)
        /\ \A y : y \in Range(Append(loader.found, next))
                    <=> y \in Range(loader.found) \/ y = next
        /\ loader' = [loader EXCEPT !.found = Append(loader.found, next)]
        /\ vecs' = vecs /\ history' = history
    BY <1>3, <2>1, <2>2
  <2> HIDE DEF next
  <2>4. /\ loader'.pc = "values" /\ loader'.found = Append(loader.found, next)
        /\ loader'.types = loader.types /\ loader'.type = loader.type
        /\ loader'.procs = loader.procs /\ loader'.key = loader.key
        /\ loader'.rules = loader.rules
    BY <1>1, <1>2, <1>6, <2>3 DEF Loader
  <2>5. StageOK' /\ NamedOK'
    BY <1>1, <1>2, <1>6, <2>3, <2>4 DEF StageOK, NamedOK
  <2>6. ASSUME Unnamed(history.changes)
        PROVE  <<Head(loader.types), Head(loader.procs), Prepared[next]>> \in history.ever
    <3>1. loader.type = Head(loader.types) /\ loader.key = Head(loader.procs)
      BY <1>1, <1>2, <1>6, <2>6 DEF NamedOK
    <3>2. next \in Range(reg.values[loader.type][loader.key])
      BY <2>1, <2>3
    <3>3. <<loader.type, loader.key, Prepared[next]>> \in Rules
      BY <2>1, <2>3, <3>1, PreparedPaths DEF Rules
    <3>4. <<loader.type, loader.key, Prepared[next]>> \in Asked(reg)
      BY <3>2, <3>3 DEF Asked
    <3> QED  BY <1>1, <1>2, <3>1, <3>4 DEF LedgerOK, Loading
  <2>7. ThereOK'
    BY <1>1, <1>2, <1>6, <2>3, <2>4, <2>6 DEF ThereOK, Were
  <2> QED  BY <2>3, <2>5, <2>7 DEF Inv
<1> QED  BY <1>1, <1>4, <1>5, <1>6

\* The empty sequence of names found, and that of entries.
LEMMA NothingFound ==
    << >> \in Seq(Types \union Names \union Values) /\ << >> \in Seq(Entry)
BY EmptySeq

\* Opening the rules key.
LEMMA OpenRootInv == Inv /\ OpenRoot => Inv'
<1> SUFFICES ASSUME Inv, OpenRoot PROVE Inv'
  OBVIOUS
<1>1. loader.pc = "create" /\ loader \in Loader /\ loader.found = << >> /\ ThereOK
  BY DEF OpenRoot, Inv, TypeOK, StageOK
<1>2. CASE Walk(Failed("OBJECT_NAME_NOT_FOUND"))
  BY <1>1, <1>2, FailedInv DEF Loading
<1>3. CASE Walk([loader EXCEPT !.pc = "types"])
  <2> DEFINE next == [loader EXCEPT !.pc = "types"]
  <2>1. next \in Loader /\ next.pc = "types" /\ next.found = << >>
    BY <1>1 DEF Loader
  <2> HIDE DEF next
  <2>2. TypeOK' /\ LedgerOK' /\ loader' = next /\ vecs' = vecs /\ history' = history
    BY <1>1, <1>3, <2>1, WalkInv DEF next, Loading
  <2>3. << >> \in Seq(Types)
    OBVIOUS
  <2> QED  BY <1>1, <2>1, <2>2, <2>3 DEF Inv, StageOK, NamedOK, ThereOK, Were
<1> QED  BY <1>2, <1>3 DEF OpenRoot

\* All types are found.
LEMMA EndTypesInv == Inv /\ EndTypes => Inv'
<1> SUFFICES ASSUME Inv, EndTypes PROVE Inv'
  OBVIOUS
<1>1. /\ loader.pc = "types" /\ loader \in Loader /\ loader.found \in Seq(Types) /\ ThereOK
  BY DEF EndTypes, Exhausted, Enumerating, Inv, TypeOK, StageOK
<1> DEFINE next == [loader EXCEPT !.types = loader.found, !.found = << >>, !.pc = "type"]
<1>2. next \in Loader /\ next.pc = "type" /\ next.found = << >>
  BY <1>1, NothingFound DEF Loader
<1>3. Walk(next)
  BY DEF EndTypes
<1> HIDE DEF next
<1>4. TypeOK' /\ LedgerOK' /\ loader' = next /\ vecs' = vecs /\ history' = history
  BY <1>1, <1>2, <1>3, WalkInv DEF Loading
<1> QED  BY <1>1, <1>2, <1>4 DEF Inv, StageOK, NamedOK, ThereOK, Were

\* Opening a type.
LEMMA OpenTypeInv == Inv /\ OpenType => Inv'
<1> SUFFICES ASSUME Inv, OpenType PROVE Inv'
  OBVIOUS
<1>1. /\ loader.pc = "type" /\ loader.types # << >> /\ loader \in Loader
      /\ loader.found = << >> /\ ThereOK
  BY DEF OpenType, Inv, TypeOK, StageOK
<1>2. CASE Walk(Failed("KEY_DELETED")) \/ Walk(Failed("OBJECT_NAME_NOT_FOUND"))
  BY <1>1, <1>2, FailedInv DEF Loading
<1> DEFINE next == [loader EXCEPT !.pc = "procs", !.type = Head(loader.types),
                                  !.lost = @ \ {"procs"}]
<1>3. CASE Walk(next)
  <2>1. Head(loader.types) \in Types
    BY <1>1, HeadTailProperties DEF Loader
  <2>2. /\ next \in Loader /\ next.pc = "procs" /\ next.found = << >>
        /\ next.type = Head(loader.types) /\ next.types = loader.types
    BY <1>1, <2>1 DEF Loader
  <2> HIDE DEF next
  <2>3. TypeOK' /\ LedgerOK' /\ loader' = next /\ vecs' = vecs /\ history' = history
    BY <1>1, <1>3, <2>2, WalkInv DEF Loading
  <2>4. << >> \in Seq(Names)
    OBVIOUS
  <2> QED  BY <1>1, <2>1, <2>2, <2>3, <2>4 DEF Inv, StageOK, NamedOK, ThereOK, Were
<1> QED  BY <1>2, <1>3 DEF OpenType

\* All processes of a type are found.
LEMMA EndProcsInv == Inv /\ EndProcs => Inv'
<1> SUFFICES ASSUME Inv, EndProcs PROVE Inv'
  OBVIOUS
<1>1. /\ loader.pc = "procs" /\ loader \in Loader /\ loader.found \in Seq(Names)
      /\ loader.types # << >> /\ loader.type \in Types /\ NamedOK /\ ThereOK
  BY DEF EndProcs, Exhausted, Enumerating, Inv, TypeOK, StageOK
<1>2. CASE Walk(Failed("INVALID_PARAMETER"))
  BY <1>1, <1>2, FailedInv DEF Loading
<1> DEFINE next == [loader EXCEPT !.procs = loader.found, !.found = << >>,
                                  !.rules = << >>, !.pc = "proc"]
<1>3. CASE Walk(next) /\ Head(loader.types) \in RuleTypes
  <2>1. /\ next \in Loader /\ next.pc = "proc" /\ next.found = << >> /\ next.rules = << >>
        /\ next.type = loader.type /\ next.types = loader.types
    BY <1>1, NothingFound DEF Loader
  <2> HIDE DEF next
  <2>2. TypeOK' /\ LedgerOK' /\ loader' = next /\ vecs' = vecs /\ history' = history
    BY <1>1, <1>3, <2>1, WalkInv DEF Loading
  <2>3. DOMAIN << >> = {}
    OBVIOUS
  <2> QED  BY <1>1, <1>3, <2>1, <2>2, <2>3 DEF Inv, StageOK, NamedOK, ThereOK, Were
<1> QED  BY <1>2, <1>3 DEF EndProcs

\* Opening a process.
LEMMA OpenProcInv == Inv /\ OpenProc => Inv'
<1> SUFFICES ASSUME Inv, OpenProc PROVE Inv'
  OBVIOUS
<1>1. /\ loader.pc = "proc" /\ loader.procs # << >> /\ loader \in Loader
      /\ loader.found = << >> /\ loader.types # << >> /\ loader.type \in Types
      /\ Head(loader.types) \in RuleTypes /\ NamedOK /\ ThereOK
  BY DEF OpenProc, Inv, TypeOK, StageOK
<1>2. CASE Walk(Failed("KEY_DELETED")) \/ Walk(Failed("OBJECT_NAME_NOT_FOUND"))
  BY <1>1, <1>2, FailedInv DEF Loading
<1> DEFINE next == [loader EXCEPT !.pc = "values", !.key = Head(loader.procs),
                                  !.lost = @ \ {"values"}]
<1>3. CASE Walk(next)
  <2>1. Head(loader.procs) \in Names
    BY <1>1, HeadTailProperties DEF Loader
  <2>2. /\ next \in Loader /\ next.pc = "values" /\ next.found = << >>
        /\ next.type = loader.type /\ next.types = loader.types
        /\ next.key = Head(loader.procs) /\ next.procs = loader.procs
        /\ next.rules = loader.rules
    BY <1>1, <2>1 DEF Loader
  <2> HIDE DEF next
  <2>3. TypeOK' /\ LedgerOK' /\ loader' = next /\ vecs' = vecs /\ history' = history
    BY <1>1, <1>3, <2>2, WalkInv DEF Loading
  <2>4. << >> \in Seq(Values) /\ Range(<< >>) = {}
    BY DEF Range
  <2> QED  BY <1>1, <2>1, <2>2, <2>3, <2>4 DEF Inv, StageOK, NamedOK, ThereOK, Were
<1> QED  BY <1>2, <1>3 DEF OpenProc

\* The entry that the values of a key make.
LEMMA EntryOfFoundType ==
    ASSUME loader.found \in Seq(Values), loader.procs \in Seq(Names), loader.procs # << >>
    PROVE  /\ EntryOfFound \in Entry /\ EntryOfFound.process = Head(loader.procs)
           /\ \A p : p \in Range(EntryOfFound.paths)
                       <=> \E v \in Range(loader.found) : Prepared[v] = p
<1> DEFINE paths == [i \in DOMAIN loader.found |-> Prepared[loader.found[i]]]
<1>1. /\ DOMAIN loader.found = 1 .. Len(loader.found) /\ Len(loader.found) \in Nat
      /\ \A i \in 1 .. Len(loader.found) : loader.found[i] \in Values
  BY ElementsOfSeq
<1>2. paths \in [1 .. Len(loader.found) -> Paths]
  BY <1>1, PreparedPaths
<1>3. paths \in Seq(Paths)
  BY <1>1, <1>2
<1>4. Head(loader.procs) \in Names
  BY HeadTailProperties
<1>5. \A p : p \in Range(paths) <=> \E v \in Range(loader.found) : Prepared[v] = p
  BY DEF Range
<1> HIDE DEF paths
<1>6. EntryOfFound = [process |-> Head(loader.procs), paths |-> paths]
  BY DEF EntryOfFound, paths
<1> QED  BY <1>3, <1>4, <1>5, <1>6 DEF Entry

\* The entry of a process is built.
LEMMA EndValuesInv == Inv /\ EndValues => Inv'
<1> SUFFICES ASSUME Inv, EndValues PROVE Inv'
  OBVIOUS
<1>1. /\ loader.pc = "values" /\ loader \in Loader /\ loader.found \in Seq(Values)
      /\ loader.procs # << >> /\ loader.types # << >> /\ loader.type \in Types
      /\ Head(loader.types) \in RuleTypes /\ NamedOK /\ ThereOK
      /\ loader.rules \in Seq(Entry) /\ loader.procs \in Seq(Names)
  BY DEF EndValues, Exhausted, Enumerating, Inv, TypeOK, StageOK, Loader
<1>2. CASE Walk(Failed("OBJECT_NAME_NOT_FOUND"))
  BY <1>1, <1>2, FailedInv DEF Loading
<1> DEFINE next == [loader EXCEPT !.rules = Append(@, EntryOfFound), !.found = << >>,
                                  !.procs = Tail(@), !.pc = "proc"]
<1>3. CASE Walk(next)
  <2>1. /\ EntryOfFound \in Entry /\ EntryOfFound.process = Head(loader.procs)
        /\ \A p \in Range(EntryOfFound.paths) :
             \E v \in Range(loader.found) : Prepared[v] = p
    BY <1>1, EntryOfFoundType
  <2> DEFINE more == Append(loader.rules, EntryOfFound)
  <2>2. /\ more \in Seq(Entry) /\ Len(more) = Len(loader.rules) + 1
        /\ \A i \in 1 .. Len(loader.rules) : more[i] = loader.rules[i]
        /\ more[Len(loader.rules) + 1] = EntryOfFound
    BY <1>1, <2>1, AppendShape
  <2> HIDE DEF more
  <2>3. Tail(loader.procs) \in Seq(Names)
    BY <1>1, HeadTailProperties
  <2>4. next = [loader EXCEPT !.rules = more, !.found = << >>,
                              !.procs = Tail(loader.procs), !.pc = "proc"]
    BY DEF more
  <2>5. /\ next \in Loader /\ next.pc = "proc" /\ next.found = << >>
        /\ next.type = loader.type /\ next.types = loader.types /\ next.rules = more
    BY <1>1, <2>2, <2>3, <2>4, NothingFound DEF Loader
  <2> HIDE DEF next
  <2>6. TypeOK' /\ LedgerOK' /\ loader' = next /\ vecs' = vecs /\ history' = history
    BY <1>1, <1>3, <2>5, WalkInv DEF Loading
  <2>7. StageOK' /\ NamedOK'
    BY <1>1, <2>5, <2>6 DEF StageOK, NamedOK
  <2>8. ASSUME Unnamed(history.changes) PROVE Were(Head(loader.types), more)
    <3>1. DOMAIN more = 1 .. Len(loader.rules) + 1 /\ Len(loader.rules) \in Nat
          /\ DOMAIN loader.rules = 1 .. Len(loader.rules)
      BY <1>1, <2>2, LenProperties
    <3>2. \A i \in DOMAIN more : i \in DOMAIN loader.rules \/ i = Len(loader.rules) + 1
      BY <3>1
    <3>3. Were(Head(loader.types), loader.rules)
      BY <1>1, <2>8 DEF ThereOK
    <3>4. \A p \in Range(EntryOfFound.paths) :
            <<Head(loader.types), EntryOfFound.process, p>> \in history.ever
      BY <1>1, <2>1, <2>8 DEF ThereOK
    <3> QED  BY <2>2, <3>1, <3>2, <3>3, <3>4 DEF Were
  <2>9. ThereOK'
    BY <1>1, <2>5, <2>6, <2>8 DEF ThereOK, Were
  <2> QED  BY <2>6, <2>7, <2>9 DEF Inv
<1> QED  BY <1>2, <1>3 DEF EndValues

\* The key of the handle is gone, or memory is.
LEMMA DeletedInv == Inv /\ (EnumerateDeleted \/ LoaderOutOfMemory) => Inv'
<1> SUFFICES ASSUME Inv, EnumerateDeleted \/ LoaderOutOfMemory PROVE Inv'
  OBVIOUS
<1>1. Loading
  <2>1. loader.lost \subseteq {"types", "procs", "values"}
    BY DEF Inv, TypeOK, Loader
  <2> QED  BY <2>1 DEF EnumerateDeleted, LoaderOutOfMemory, Loading
<1> QED  BY <1>1, FailedInv DEF EnumerateDeleted, LoaderOutOfMemory

\* The list that replaces another.
LEMMA ReplacedType ==
    ASSUME NEW vec \in Vec, NEW entries \in Seq(Entry)
    PROVE  Replaced(vec, entries) \in Vec /\ Replaced(vec, entries).entries = entries
<1>1. Len(entries) \in Nat
  BY LenProperties
<1> QED  BY <1>1, MinCapacityAssumption DEF Replaced, Vec

\* A list of rules is done.
LEMMA AssignInv == Inv /\ AssignRules => Inv'
<1> SUFFICES ASSUME Inv, AssignRules PROVE Inv'
  OBVIOUS
<1> DEFINE t == Head(loader.types)
           vec == Replaced(vecs[t], loader.rules)
<1>1. /\ loader.pc = "proc" /\ loader \in Loader /\ loader.types # << >> /\ t \in RuleTypes
      /\ loader.found = << >> /\ loader.rules \in Seq(Entry) /\ loader.types \in Seq(Types)
      /\ vecs \in [RuleTypes -> Vec] /\ ThereOK /\ LedgerOK
  BY DEF AssignRules, Inv, TypeOK, StageOK, Loader
<1>2. /\ vecs' = [vecs EXCEPT ![t] = vec]
      /\ loader' = [loader EXCEPT !.types = Tail(@), !.pc = "type"]
      /\ reg' = reg /\ drive' = drive /\ ops' = ops /\ history' = history
  BY DEF AssignRules
<1>3. vec \in Vec /\ vec.entries = loader.rules
  BY <1>1, ReplacedType
<1> HIDE DEF t, vec
<1>4. Tail(loader.types) \in Seq(Types)
  BY <1>1, HeadTailProperties
<1>5. loader' \in Loader /\ loader'.pc = "type" /\ loader'.found = << >>
  BY <1>1, <1>2, <1>4 DEF Loader
<1>6. /\ vecs' \in [RuleTypes -> Vec] /\ vecs'[t] = vec
      /\ \A u \in RuleTypes \ {t} : vecs'[u] = vecs[u]
  BY <1>1, <1>2, <1>3
<1>7. TypeOK' /\ StageOK' /\ NamedOK' /\ LedgerOK'
  BY <1>1, <1>2, <1>5, <1>6 DEF Inv, TypeOK, StageOK, NamedOK, LedgerOK, Asked, Loading
<1>8. ThereOK'
  <2> SUFFICES ASSUME Unnamed(history.changes), NEW u \in RuleTypes
               PROVE  Were(u, vecs[u].entries)'
    BY <1>2, <1>5 DEF ThereOK
  <2>1. CASE u = t
    <3>1. Were(u, loader.rules)
      BY <1>1, <2>1 DEF ThereOK, t
    <3> QED  BY <1>2, <1>3, <1>6, <2>1, <3>1 DEF Were
  <2>2. CASE u # t
    <3>1. Were(u, vecs[u].entries)
      BY <1>1 DEF ThereOK
    <3> QED  BY <1>2, <1>6, <2>2, <3>1 DEF Were
  <2> QED  BY <2>1, <2>2
<1> QED  BY <1>7, <1>8 DEF Inv

\* The load is done, and the callback registered.
LEMMA DoneInv == Inv /\ (InitDone \/ RegisterCallback) => Inv'
<1> SUFFICES ASSUME Inv, InitDone \/ RegisterCallback PROVE Inv'
  OBVIOUS
<1>1. loader \in Loader /\ ThereOK
  BY DEF Inv, TypeOK
<1>2. PICK next \in {[loader EXCEPT !.pc = "loaded", !.outcome = "complete"],
                     [loader EXCEPT !.pc = "registered"]} :
        Walk(next) /\ loader.pc \in {"type", "loaded"}
  BY DEF InitDone, RegisterCallback
<1>3. /\ next \in Loader /\ next.pc \in {"loaded", "registered"}
      /\ loader.pc = "type" \/ next.pc = "registered"
  <2>1. InitDone \/ RegisterCallback =>
          loader.pc = "type" \/ Walk([loader EXCEPT !.pc = "registered"])
    BY DEF InitDone, RegisterCallback
  <2> QED  BY <1>1, <1>2, <2>1 DEF Loader, Walk
<1>4. TypeOK' /\ LedgerOK' /\ loader' = next /\ vecs' = vecs /\ history' = history
  BY <1>2, <1>3, WalkInv DEF Loading
<1> QED  BY <1>1, <1>2, <1>3, <1>4 DEF Inv, StageOK, NamedOK, ThereOK, Were

----------------------------------------------------------------------------
(* The administrators' steps.                                              *)

\* Nothing went from a level, and nothing moved to an earlier index.
Grown ==
    /\ Extension(reg.types, reg'.types)
    /\ \A t \in Types :
         /\ Extension(reg.procs[t], reg'.procs[t])
         /\ \A n \in Range(reg.procs[t]) : Extension(reg.values[t][n], reg'.values[t][n])

\* Nothing came to the processes of a type, nor moved to a later index.
Shrunk ==
    \A t \in Types :
        /\ Reduction(reg.procs[t], reg'.procs[t])
        /\ IsInjective(reg.procs[t]) => IsInjective(reg'.procs[t])

\* The stage of the loader, and what it has read.
SameStage ==
    /\ loader'.pc = loader.pc /\ loader'.outcome = loader.outcome
    /\ loader'.found = loader.found /\ loader'.types = loader.types
    /\ loader'.procs = loader.procs /\ loader'.rules = loader.rules

SameNames == loader'.type = loader.type /\ loader'.key = loader.key

\* What a change does, as far as the loader is concerned.
Effects ==
    /\ TypeOK' /\ SameStage /\ vecs' = vecs
    /\ loader.type \in Types => loader'.type \in Types
    /\ loader.key \in Names => loader'.key \in Names
    /\ history.changes \subseteq history'.changes /\ history.ever \subseteq history'.ever
    /\ history'.always \subseteq history.always
    /\ Loading =>
         /\ history'.always \subseteq Asked(reg') /\ Asked(reg') \subseteq history'.ever
         /\ Unnamed(history'.changes) => SameNames
         /\ "removed" \notin history'.changes => Grown
         /\ "added" \notin history'.changes => Shrunk

\* The changes that are counted stay within their bound.
LEMMA CountedOps ==
    ASSUME Inv, Counted
    PROVE  ops' \in 0 .. MaxOps
<1>1. ops \in 0 .. MaxOps /\ MaxOps \in Nat
  BY RulesLoadingAssumption DEF Inv, TypeOK
<1>2. ops' = ops \/ (ops < MaxOps /\ ops' = ops + 1)
  BY DEF Counted
<1> QED  BY <1>1, <1>2

\* The common part of the changes.
LEMMA ChangeEffects ==
    ASSUME Inv, NEW kinds \in SUBSET {"added", "removed", "renamed"},
           Change(kinds), reg' \in Registry, loader' \in Loader, SameStage,
           loader.type \in Types => loader'.type \in Types,
           loader.key \in Names => loader'.key \in Names,
           Unnamed(kinds) => SameNames,
           "removed" \notin kinds => Grown, "added" \notin kinds => Shrunk
    PROVE  Effects
<1>1. vecs \in [RuleTypes -> Vec] /\ history \in History /\ drive \in BOOLEAN
  BY DEF Inv, TypeOK
<1>2. drive' = drive /\ vecs' = vecs /\ ops' \in 0 .. MaxOps /\ history' = Recorded(kinds)
  BY CountedOps DEF Change
<1>3. CASE ~Loading
  <2>1. history' = [history EXCEPT !.late = TRUE]
    BY <1>2, <1>3 DEF Recorded
  <2>2. /\ history' \in History /\ history'.always = history.always
        /\ history'.ever = history.ever /\ history'.changes = history.changes
    BY <1>1, <2>1 DEF History
  <2>3. TypeOK'
    BY <1>1, <1>2, <2>2 DEF TypeOK
  <2> QED  BY <1>2, <1>3, <2>2, <2>3 DEF Effects
<1>4. CASE Loading
  <2>1. history' = [history EXCEPT !.always = @ \intersect Asked(reg'),
                                   !.ever = @ \union Asked(reg'), !.changes = @ \union kinds]
    BY <1>2, <1>4 DEF Recorded
  <2>2. Asked(reg') \subseteq Rules
    BY DEF Asked
  <2>3. /\ history' \in History /\ history'.always = history.always \intersect Asked(reg')
        /\ history'.ever = history.ever \union Asked(reg')
        /\ history'.changes = history.changes \union kinds
    BY <1>1, <2>1, <2>2 DEF History
  <2>4. TypeOK'
    BY <1>1, <1>2, <2>3 DEF TypeOK
  <2>5. Unnamed(history'.changes) => Unnamed(kinds)
    BY <2>3 DEF Unnamed
  <2> QED  BY <1>2, <1>4, <2>3, <2>4, <2>5 DEF Effects
<1> QED  BY <1>3, <1>4

\* Changes that leave the loader alone.
LEMMA LoaderKept ==
    ASSUME Inv, UNCHANGED loader
    PROVE  /\ loader' \in Loader /\ SameStage /\ SameNames
           /\ loader.type \in Types => loader'.type \in Types
           /\ loader.key \in Names => loader'.key \in Names
BY DEF Inv, TypeOK, SameStage, SameNames

\* A handle is lost, and nothing else of the loader changes.
LEMMA HandleLost ==
    ASSUME Inv, NEW level \in {"types", "procs", "values"}, NEW concerned, Lost(level, concerned)
    PROVE  /\ loader' \in Loader /\ SameStage /\ SameNames
           /\ loader.type \in Types => loader'.type \in Types
           /\ loader.key \in Names => loader'.key \in Names
<1>1. loader \in Loader
  BY DEF Inv, TypeOK
<1> DEFINE more == loader.lost \union (IF concerned /\ level \in OpenHandles THEN {level} ELSE {})
<1>2. more \in SUBSET {"types", "procs", "values"}
  BY <1>1 DEF Loader
<1>3. loader' = [loader EXCEPT !.lost = more]
  BY DEF Lost
<1> HIDE DEF more
<1> QED  BY <1>1, <1>2, <1>3 DEF Loader, SameStage, SameNames

\* The processes of a type are names, and each has values.
LEMMA ProcessNames ==
    ASSUME NEW r \in Registry, NEW t \in Types, NEW n \in Range(r.procs[t])
    PROVE  n \in Names /\ r.values[t][n] \in Seq(Values)
<1>1. r.procs[t] \in Seq(Names)
  BY DEF Registry
<1>2. n \in Names
  BY <1>1, ElementsOfSeq
<1> QED  BY <1>2, Holdings

\* A process key is made.
LEMMA CreateKeyEffects ==
    ASSUME Inv, NEW t \in Types, NEW n \in Names, CreateKey(t, n)
    PROVE  Effects
<1>1. PICK procs \in Insertions(reg.procs[t], n) :
        reg' = [reg EXCEPT !.procs[t] = procs, !.values[t][n] = << >>]
  BY DEF CreateKey
<1>2. reg \in Registry /\ vecs \in [RuleTypes -> Vec] /\ n \notin Range(reg.procs[t])
  BY DEF Inv, TypeOK, CreateKey
<1>3. procs \in Seq(Names) /\ Extension(reg.procs[t], procs)
  BY <1>2, InsertExtends, Holdings
<1>4. << >> \in Seq(Values)
  BY EmptySeq
<1>5. /\ reg' \in Registry /\ reg'.types = reg.types /\ reg'.procs[t] = procs
      /\ \A u \in Types : u # t => reg'.procs[u] = reg.procs[u]
      /\ \A u \in Types, m \in Names : u # t \/ m # n => reg'.values[u][m] = reg.values[u][m]
  BY <1>1, <1>2, <1>3, <1>4 DEF Registry
<1>6. Grown
  <2>1. Extension(reg.types, reg'.types)
    BY <1>2, <1>5, ExtensionItself DEF Registry
  <2>2. \A u \in Types : Extension(reg.procs[u], reg'.procs[u])
    BY <1>2, <1>3, <1>5, ExtensionItself DEF Registry
  <2>3. ASSUME NEW u \in Types, NEW m \in Range(reg.procs[u])
        PROVE  Extension(reg.values[u][m], reg'.values[u][m])
    <3>1. m \in Names /\ reg.values[u][m] \in Seq(Values)
      BY <1>2, ProcessNames
    <3>2. reg'.values[u][m] = reg.values[u][m]
      BY <1>2, <1>5, <3>1
    <3> QED  BY <3>1, <3>2, ExtensionItself
  <2> QED  BY <2>1, <2>2, <2>3 DEF Grown
<1>7. Change({"added"}) /\ UNCHANGED loader
  BY DEF CreateKey
<1> QED  BY <1>5, <1>6, <1>7, LoaderKept, ChangeEffects

\* A process key is deleted.
LEMMA DeleteKeyEffects ==
    ASSUME Inv, NEW t \in Types, NEW n \in Names, DeleteKey(t, n)
    PROVE  Effects
<1> DEFINE fewer == RemoveFirst(reg.procs[t], n)
<1>1. reg' = [reg EXCEPT !.procs[t] = fewer, !.values[t][n] = << >>]
  BY DEF DeleteKey
<1>2. reg \in Registry /\ vecs \in [RuleTypes -> Vec] /\ n \in Range(reg.procs[t])
  BY DEF Inv, TypeOK, DeleteKey
<1>3. /\ fewer \in Seq(Names) /\ Reduction(reg.procs[t], fewer)
      /\ IsInjective(reg.procs[t]) => IsInjective(fewer)
  BY <1>2, RemoveFirstType, RemoveFirstReduces, Holdings
<1>4. << >> \in Seq(Values)
  BY EmptySeq
<1>5. Change({"removed"}) /\ Lost("values", loader.type = t /\ loader.key = n)
  BY DEF DeleteKey
<1> HIDE DEF fewer
<1>6. /\ reg' \in Registry /\ reg'.procs[t] = fewer
      /\ \A u \in Types : u # t => reg'.procs[u] = reg.procs[u]
  BY <1>1, <1>2, <1>3, <1>4 DEF Registry
<1>7. Shrunk
  BY <1>2, <1>3, <1>6, ReductionItself, Holdings DEF Shrunk
<1> QED  BY <1>5, <1>6, <1>7, HandleLost, ChangeEffects

\* A value is set.
LEMMA SetValueEffects ==
    ASSUME Inv, NEW t \in Types, NEW n \in Names, NEW v \in Values, SetValue(t, n, v)
    PROVE  Effects
<1>1. PICK values \in Insertions(reg.values[t][n], v) :
        reg' = [reg EXCEPT !.values[t][n] = values]
  BY DEF SetValue
<1>2. reg \in Registry /\ vecs \in [RuleTypes -> Vec]
  BY DEF Inv, TypeOK
<1>3. values \in Seq(Values) /\ Extension(reg.values[t][n], values)
  BY <1>2, InsertExtends, Holdings
<1>5. Change({"added"}) /\ UNCHANGED loader
  BY DEF SetValue
<1>6. /\ reg' \in Registry /\ reg'.types = reg.types /\ reg'.procs = reg.procs
      /\ reg'.values[t][n] = values
      /\ \A u \in Types, m \in Names : u # t \/ m # n => reg'.values[u][m] = reg.values[u][m]
  BY <1>1, <1>2, <1>3 DEF Registry
<1>7. Grown
  <2>1. Extension(reg.types, reg'.types)
    BY <1>2, <1>6, ExtensionItself DEF Registry
  <2>2. \A u \in Types : Extension(reg.procs[u], reg'.procs[u])
    BY <1>2, <1>6, ExtensionItself DEF Registry
  <2>3. ASSUME NEW u \in Types, NEW m \in Range(reg.procs[u])
        PROVE  Extension(reg.values[u][m], reg'.values[u][m])
    <3>1. m \in Names /\ reg.values[u][m] \in Seq(Values)
      BY <1>2, ProcessNames
    <3> QED  BY <1>3, <1>6, <3>1, ExtensionItself
  <2> QED  BY <2>1, <2>2, <2>3 DEF Grown
<1> QED  BY <1>5, <1>6, <1>7, LoaderKept, ChangeEffects

\* The processes of all types stay.
LEMMA SameProcsShrunk ==
    ASSUME reg \in Registry, \A t \in Types : reg'.procs[t] = reg.procs[t]
    PROVE  Shrunk
BY ReductionItself DEF Shrunk, Registry

\* A value is deleted.
LEMMA DeleteValueEffects ==
    ASSUME Inv, NEW t \in Types, NEW n \in Names, NEW v \in Values, DeleteValue(t, n, v)
    PROVE  Effects
<1> DEFINE fewer == RemoveFirst(reg.values[t][n], v)
<1>1. reg' = [reg EXCEPT !.values[t][n] = fewer]
  BY DEF DeleteValue
<1>2. reg \in Registry /\ vecs \in [RuleTypes -> Vec]
  BY DEF Inv, TypeOK
<1>3. fewer \in Seq(Values)
  BY <1>2, RemoveFirstType, Holdings
<1>5. Change({"removed"}) /\ UNCHANGED loader
  BY DEF DeleteValue
<1> HIDE DEF fewer
<1>6. reg' \in Registry /\ reg'.procs = reg.procs
  BY <1>1, <1>2, <1>3 DEF Registry
<1>7. Shrunk
  BY <1>2, <1>6, SameProcsShrunk
<1> QED  BY <1>5, <1>6, <1>7, LoaderKept, ChangeEffects

\* A process key is renamed.
LEMMA RenameKeyEffects ==
    ASSUME Inv, NEW t \in Types, NEW n \in Names, NEW new \in Names, RenameKey(t, n, new)
    PROVE  Effects
<1> DEFINE rest == RemoveFirst(reg.procs[t], n)
<1>1. PICK procs \in Insertions(rest, new) :
        reg' = [reg EXCEPT !.procs[t] = procs, !.values[t][n] = << >>,
                           !.values[t][new] = reg.values[t][n]]
  BY DEF RenameKey
<1>2. reg \in Registry /\ vecs \in [RuleTypes -> Vec] /\ loader \in Loader
  BY DEF Inv, TypeOK
<1>3. rest \in Seq(Names)
  BY <1>2, RemoveFirstType, Holdings
<1>5. /\ Change({"added", "removed", "renamed"})
      /\ loader' = IF loader.type = t /\ loader.key = n
                   THEN [loader EXCEPT !.key = new] ELSE loader
  BY DEF RenameKey
<1> HIDE DEF rest
<1>6. procs \in Seq(Names) /\ << >> \in Seq(Values) /\ reg.values[t][n] \in Seq(Values)
  BY <1>2, <1>3, InsertExtends, EmptySeq, Holdings
<1>7. reg' \in Registry
  BY <1>1, <1>2, <1>6 DEF Registry
<1>8. /\ loader' \in Loader /\ SameStage
      /\ loader.type \in Types => loader'.type \in Types
      /\ loader.key \in Names => loader'.key \in Names
  BY <1>2, <1>5 DEF Loader, SameStage
<1>9. ~Unnamed({"added", "removed", "renamed"})
  BY DEF Unnamed
<1> QED  BY <1>5, <1>7, <1>8, <1>9, ChangeEffects

\* A type key is made.
LEMMA CreateTypeEffects ==
    ASSUME Inv, NEW t \in Types, CreateType(t)
    PROVE  Effects
<1>1. PICK types \in Insertions(reg.types, t) : reg' = [reg EXCEPT !.types = types]
  BY DEF CreateType
<1>2. reg \in Registry /\ vecs \in [RuleTypes -> Vec]
  BY DEF Inv, TypeOK
<1>3. types \in Seq(Types) /\ Extension(reg.types, types)
  BY <1>2, InsertExtends DEF Registry
<1>4. /\ reg' \in Registry /\ reg'.types = types
      /\ reg'.procs = reg.procs /\ reg'.values = reg.values
  BY <1>1, <1>2, <1>3 DEF Registry
<1>5. Grown
  <2>1. ASSUME NEW u \in Types, NEW m \in Range(reg.procs[u])
        PROVE  Extension(reg.values[u][m], reg'.values[u][m])
    <3>1. reg.values[u][m] \in Seq(Values)
      BY <1>2, ProcessNames
    <3> QED  BY <1>4, <3>1, ExtensionItself
  <2>2. \A u \in Types : Extension(reg.procs[u], reg'.procs[u])
    BY <1>2, <1>4, ExtensionItself DEF Registry
  <2> QED  BY <1>3, <1>4, <2>1, <2>2 DEF Grown
<1>6. Change({"added"}) /\ UNCHANGED loader
  BY DEF CreateType
<1> QED  BY <1>2, <1>4, <1>5, <1>6, LoaderKept, ChangeEffects

\* A type key is deleted.
LEMMA DeleteTypeEffects ==
    ASSUME Inv, NEW t \in Types, DeleteType(t)
    PROVE  Effects
<1> DEFINE fewer == RemoveFirst(reg.types, t)
<1>1. /\ reg' = [reg EXCEPT !.types = fewer] /\ Lost("procs", loader.type = t)
      /\ Change({"removed"})
  BY DEF DeleteType
<1>2. reg \in Registry /\ vecs \in [RuleTypes -> Vec]
  BY DEF Inv, TypeOK
<1>3. fewer \in Seq(Types)
  BY <1>2, RemoveFirstType DEF Registry
<1> HIDE DEF fewer
<1>4. reg' \in Registry /\ reg'.procs = reg.procs
  BY <1>1, <1>2, <1>3 DEF Registry
<1>5. Shrunk
  BY <1>2, <1>4, SameProcsShrunk
<1> QED  BY <1>1, <1>2, <1>4, <1>5, HandleLost, ChangeEffects

\* A type key is renamed.
LEMMA RenameTypeEffects ==
    ASSUME Inv, NEW t \in Types, NEW new \in Types, RenameType(t, new)
    PROVE  Effects
<1> DEFINE rest == RemoveFirst(reg.types, t)
<1>1. PICK types \in Insertions(rest, new) :
        reg' = [reg EXCEPT !.types = types,
                  !.procs[t] = << >>, !.procs[new] = reg.procs[t],
                  !.values[t] = [n \in Names |-> << >>], !.values[new] = reg.values[t]]
  BY DEF RenameType
<1>2. reg \in Registry /\ vecs \in [RuleTypes -> Vec] /\ loader \in Loader
  BY DEF Inv, TypeOK
<1>3. rest \in Seq(Types)
  BY <1>2, RemoveFirstType DEF Registry
<1> HIDE DEF rest
<1>4. types \in Seq(Types) /\ << >> \in Seq(Values) /\ << >> \in Seq(Names)
  BY <1>3, InsertExtends, EmptySeq
<1>5. reg' \in Registry
  BY <1>1, <1>2, <1>4 DEF Registry
<1>6. /\ Change({"added", "removed", "renamed"})
      /\ loader' = IF loader.type = t THEN [loader EXCEPT !.type = new] ELSE loader
  BY DEF RenameType
<1>7. /\ loader' \in Loader /\ SameStage
      /\ loader.type \in Types => loader'.type \in Types
      /\ loader.key \in Names => loader'.key \in Names
  BY <1>2, <1>6 DEF Loader, SameStage
<1> QED  BY <1>2, <1>5, <1>6, <1>7, ChangeEffects DEF Unnamed

\* The rules key is deleted.
LEMMA DeleteRootEffects == Inv /\ DeleteRoot => Effects
<1> SUFFICES ASSUME Inv, DeleteRoot PROVE Effects
  OBVIOUS
<1>1. /\ reg' = [reg EXCEPT !.root = FALSE] /\ Lost("types", TRUE)
      /\ Change({"removed"})
  BY DEF DeleteRoot
<1>2. reg \in Registry /\ vecs \in [RuleTypes -> Vec]
  BY DEF Inv, TypeOK
<1>3. reg' \in Registry /\ reg'.procs = reg.procs
  BY <1>1, <1>2 DEF Registry
<1>4. Shrunk
  BY <1>2, <1>3, SameProcsShrunk
<1> QED  BY <1>1, <1>2, <1>3, <1>4, HandleLost, ChangeEffects

\* The drive comes or goes.
LEMMA RemapDriveEffects == Inv /\ RemapDrive => Effects
<1> SUFFICES ASSUME Inv, RemapDrive PROVE Effects
  OBVIOUS
<1>1. /\ ops' \in 0 .. MaxOps /\ drive' = ~drive
      /\ reg' = reg /\ vecs' = vecs /\ loader' = loader /\ history' = history
  BY CountedOps DEF RemapDrive
<1>2. TypeOK /\ LedgerOK /\ reg \in Registry
  BY DEF Inv, TypeOK
<1>3. TypeOK'
  BY <1>1, <1>2 DEF TypeOK
<1>4. SameStage /\ SameNames
  BY <1>1 DEF SameStage, SameNames
<1>5. Shrunk
  BY <1>1, <1>2, SameProcsShrunk
<1>6. Grown
  <2>1. ASSUME NEW u \in Types, NEW m \in Range(reg.procs[u])
        PROVE  Extension(reg.values[u][m], reg'.values[u][m])
    <3>1. reg.values[u][m] \in Seq(Values)
      BY <1>2, ProcessNames
    <3> QED  BY <1>1, <3>1, ExtensionItself
  <2>2. Extension(reg.types, reg'.types) /\ \A u \in Types : Extension(reg.procs[u], reg'.procs[u])
    BY <1>1, <1>2, ExtensionItself DEF Registry
  <2> QED  BY <2>1, <2>2 DEF Grown
<1>7. Loading =>
        history.always \subseteq Asked(reg') /\ Asked(reg') \subseteq history.ever
  BY <1>1, <1>2 DEF LedgerOK, Asked
<1> QED  BY <1>1, <1>3, <1>4, <1>5, <1>6, <1>7 DEF Effects

\* All of them.
LEMMA AdministerEffects == Inv /\ Administer => Effects
BY CreateKeyEffects, DeleteKeyEffects, SetValueEffects, DeleteValueEffects,
   RenameKeyEffects, CreateTypeEffects, DeleteTypeEffects, RenameTypeEffects,
   DeleteRootEffects, RemapDriveEffects DEF Administer

\* The invariant survives them.
LEMMA AdministerInv == Inv /\ Administer => Inv'
<1> SUFFICES ASSUME Inv, Administer PROVE Inv'
  OBVIOUS
<1>1. Effects
  BY AdministerEffects
<1>2. TypeOK' /\ LedgerOK'
  BY <1>1 DEF Effects, SameStage, LedgerOK, Loading
<1>3. StageOK' /\ NamedOK'
  BY <1>1 DEF Effects, SameStage, SameNames, Inv, StageOK, NamedOK, Unnamed, Loading
<1>4. ThereOK'
  BY <1>1 DEF Effects, SameStage, Inv, ThereOK, Were, Unnamed
<1> QED  BY <1>2, <1>3, <1>4 DEF Inv

----------------------------------------------------------------------------
(* The first theorems.                                                     *)

\* The invariant is one.
LEMMA Invariance == Spec => []Inv
<1>1. Inv /\ [Next]_vars => Inv'
  <2> SUFFICES ASSUME Inv, [Next]_vars PROVE Inv'
    OBVIOUS
  <2>1. CASE LoaderStep
    BY <2>1, CreateRootInv, CreateRuleTypeInv, OpenRootInv, EnumerateInv, EndTypesInv, OpenTypeInv, EndProcsInv,
       OpenProcInv, EndValuesInv, DeletedInv, AssignInv, DoneInv DEF LoaderStep
  <2>2. CASE LoaderOutOfMemory \/ RegisterCallback
    BY <2>2, DeletedInv, DoneInv
  <2>3. CASE Administer
    BY <2>3, AdministerInv
  <2>4. CASE UNCHANGED vars
    BY <2>4 DEF vars, Inv, TypeOK, StageOK, LedgerOK, NamedOK, ThereOK, Asked, Were, Loading
  <2> QED  BY <2>1, <2>2, <2>3, <2>4 DEF Next
<1> QED  BY <1>1, InitInv, PTL DEF Spec

\* The state of the load always has its type, and so every index into a list,
\* a level or a stage of the loader is a good one.
THEOREM TypeCorrect == Spec => []TypeOK
<1>1. Inv => TypeOK
  BY DEF Inv
<1> QED  BY <1>1, Invariance, PTL

\* No load invents a rule: whatever is deleted and made again under the loader,
\* each rule it loads was asked for by the registry at some moment of the load.
THEOREM LoadsWereThere == Spec => []LoadedWasThere
<1>1. Inv => LoadedWasThere
  <2> SUFFICES ASSUME Inv, "renamed" \notin history.changes, NEW rule \in Listed
               PROVE  rule \in history.ever
    BY DEF LoadedWasThere
  <2>1. /\ rule \in Rules /\ vecs \in [RuleTypes -> Vec]
        /\ Were(rule[1], vecs[rule[1]].entries)
    BY DEF Inv, TypeOK, Listed, Rules, ThereOK, Unnamed
  <2>2. PICK e \in Range(vecs[rule[1]].entries) : e.process = rule[2] /\ rule[3] \in Range(e.paths)
    BY DEF Listed
  <2>3. PICK i \in DOMAIN vecs[rule[1]].entries : vecs[rule[1]].entries[i] = e
    BY DEF Range
  <2>4. <<rule[1], rule[2], rule[3]>> \in history.ever
    BY <2>1, <2>2, <2>3 DEF Were
  <2> QED  BY <2>1, <2>4 DEF Rules
<1> QED  BY <1>1, Invariance, PTL

----------------------------------------------------------------------------
(* A load without additions makes one entry for a process.                 *)

OnceOK ==
    "added" \notin history.changes =>
        /\ Loading => \A t \in Types : IsInjective(reg.procs[t])
        /\ \A t \in RuleTypes : Single(vecs[t].entries)
        /\ loader.pc = "procs" => Fresh(reg.procs[loader.type], loader.found)
        /\ loader.pc \in {"proc", "values"} =>
             /\ IsInjective(loader.procs) /\ Single(loader.rules)
             /\ \A i \in DOMAIN loader.rules : loader.rules[i].process \notin Range(loader.procs)

\* Nothing is loaded, and sibling keys differ in name.
LEMMA InitOnce == Init => OnceOK
<1> SUFFICES ASSUME Init PROVE OnceOK
  OBVIOUS
<1>1. \A t \in Types : IsInjective(reg.procs[t])
  BY RulesLoadingAssumption DEF Init, WellFormed
<1>2. \A t \in RuleTypes : vecs[t].entries = << >>
  BY DEF Init, EmptyVec
<1>3. loader.pc = "prepare"
  BY DEF Init
<1> QED  BY <1>1, <1>2, <1>3 DEF OnceOK, Single

\* The steps that leave the lists and the entries built alone.
LEMMA PlainOnce ==
    ASSUME Inv, OnceOK,
           \/ CreateRoot \/ CreateRuleType \/ OpenRoot \/ EndTypes \/ OpenType
           \/ EnumerateDeleted \/ InitDone \/ LoaderOutOfMemory \/ RegisterCallback
    PROVE  OnceOK'
<1>1. loader \in Loader /\ reg \in Registry /\ (Loading \/ RegisterCallback)
  <2>1. TypeOK
    BY DEF Inv
  <2> QED
    BY <2>1 DEF TypeOK, Loader, CreateRoot, CreateRuleType, OpenRoot, EndTypes, Exhausted,
       Enumerating, OpenType, EnumerateDeleted, InitDone, LoaderOutOfMemory, Loading
<1>2. ASSUME NEW status, Walk(Failed(status)) PROVE OnceOK'
  <2>1. Failed(status).pc \in {"loaded", "failed"}
    BY <1>1 DEF Failed, Loader
  <2> QED  BY <1>1, <1>2, <2>1 DEF OnceOK, Single, Walk, Loading
<1>3. CASE CreateRoot \/ CreateRuleType
  <2>1. ASSUME reg'.procs = reg.procs, vecs' = vecs, history' = history, Loading,
               loader'.pc = "create"
        PROVE  OnceOK'
    BY <2>1 DEF OnceOK, Single
  <2>2. CASE CreateRoot
    BY <1>1, <2>1, <2>2 DEF CreateRoot, Registry, Loader, Loading
  <2>3. CASE CreateRuleType /\ reg.root
    BY <1>1, <2>1, <2>3 DEF CreateRuleType, Registry, Loader, Loading
  <2>4. CASE CreateRuleType /\ ~reg.root
    BY <1>2, <2>4 DEF CreateRuleType, Walk
  <2> QED  BY <1>3, <2>2, <2>3, <2>4
<1>4. CASE OpenRoot \/ EndTypes \/ InitDone \/ RegisterCallback
  <2>1. ASSUME NEW next, Walk(next), next.pc \in {"types", "type", "loaded", "registered"},
               Loading \/ next.pc = "registered"
        PROVE  OnceOK'
    BY <2>1 DEF OnceOK, Single, Walk, Loading
  <2>2. /\ [loader EXCEPT !.pc = "types"].pc = "types"
        /\ [loader EXCEPT !.types = loader.found, !.found = << >>, !.pc = "type"].pc = "type"
        /\ [loader EXCEPT !.pc = "loaded", !.outcome = "complete"].pc = "loaded"
        /\ [loader EXCEPT !.pc = "registered"].pc = "registered"
    BY <1>1 DEF Loader
  <2> QED  BY <1>1, <1>2, <1>4, <2>1, <2>2 DEF OpenRoot, EndTypes, InitDone, RegisterCallback
<1>5. CASE OpenType
  <2> DEFINE next == [loader EXCEPT !.pc = "procs", !.type = Head(loader.types),
                                    !.lost = @ \ {"procs"}]
  <2>1. CASE Walk(next)
    <3>1. loader.found = << >> /\ loader.types # << >> /\ loader.types \in Seq(Types)
      BY <1>1, <1>5 DEF OpenType, Inv, StageOK, Loader
    <3>2. Head(loader.types) \in Types
      BY <3>1, HeadTailProperties
    <3>3. next.pc = "procs" /\ next.type = Head(loader.types) /\ next.found = << >>
      BY <1>1, <3>1 DEF Loader
    <3> HIDE DEF next
    <3>4. reg.procs[Head(loader.types)] \in Seq(Names)
      BY <1>1, <3>2 DEF Registry
    <3>5. Fresh(reg.procs[Head(loader.types)], << >>)
      BY <3>4, FreshStart
    <3> QED  BY <1>1, <1>5, <2>1, <3>3, <3>5 DEF OnceOK, Single, Walk, Loading, OpenType
  <2> QED  BY <1>2, <1>5, <2>1 DEF OpenType
<1>6. CASE EnumerateDeleted \/ LoaderOutOfMemory
  BY <1>2, <1>6 DEF EnumerateDeleted, LoaderOutOfMemory
<1> QED  BY <1>3, <1>4, <1>5, <1>6

\* A name that is found is a new one.
LEMMA EnumerateOnce ==
    ASSUME Inv, OnceOK, Enumerate
    PROVE  OnceOK'
<1> DEFINE next == Listing[Len(loader.found) + 1]
<1>1. PICK level \in {"types", "procs", "values"} :
        /\ loader.pc = level /\ Len(loader.found) < Len(Listing)
        /\ Walk([loader EXCEPT !.found = Append(@, next)])
  BY DEF Enumerate, Enumerating
<1>2. loader \in Loader /\ reg \in Registry
  BY DEF Inv, TypeOK
<1>3. /\ loader'.pc = loader.pc /\ loader'.type = loader.type /\ loader'.procs = loader.procs
      /\ loader'.rules = loader.rules /\ loader'.found = Append(loader.found, next)
      /\ reg' = reg /\ vecs' = vecs /\ history' = history
  BY <1>1, <1>2 DEF Walk, Loader
<1>4. ASSUME loader.pc = "procs", "added" \notin history.changes
      PROVE  Fresh(reg.procs[loader.type], Append(loader.found, next))
  <2>1. /\ Listing = reg.procs[loader.type] /\ loader.type \in Types
        /\ loader.found \in Seq(Names)
    BY <1>4 DEF Listing, Inv, StageOK
  <2>2. Listing \in Seq(Names)
    BY <1>2, <2>1 DEF Registry
  <2>3. IsInjective(Listing) /\ Fresh(Listing, loader.found)
    BY <1>4, <2>1 DEF OnceOK, Loading
  <2>4. Len(loader.found) + 1 \in 1 .. Len(Listing)
    BY <1>1, <2>1, <2>2, LenProperties
  <2>5. next \in Names
    BY <2>2, <2>4, ElementsOfSeq
  <2> QED  BY <1>1, <2>1, <2>2, <2>3, <2>5, FreshStep
<1> HIDE DEF next
<1> QED  BY <1>3, <1>4 DEF OnceOK, Single, Loading

\* The names found become the processes to read.
LEMMA EndProcsOnce ==
    ASSUME Inv, OnceOK, EndProcs
    PROVE  OnceOK'
<1> DEFINE next == [loader EXCEPT !.procs = loader.found, !.found = << >>,
                                  !.rules = << >>, !.pc = "proc"]
<1>1. loader \in Loader /\ loader.pc = "procs"
  BY DEF Inv, TypeOK, EndProcs, Exhausted, Enumerating
<1>2. CASE Walk(Failed("INVALID_PARAMETER"))
  <2>1. Failed("INVALID_PARAMETER").pc \in {"loaded", "failed"}
    BY <1>1 DEF Failed, Loader
  <2> QED  BY <1>1, <1>2, <2>1 DEF OnceOK, Single, Walk, Loading
<1>3. CASE Walk(next)
  <2>1. next.pc = "proc" /\ next.procs = loader.found /\ next.rules = << >>
    BY <1>1 DEF Loader
  <2> HIDE DEF next
  <2>2. "added" \notin history.changes => IsInjective(loader.found)
    BY <1>1 DEF OnceOK, Fresh
  <2>3. DOMAIN << >> = {}
    OBVIOUS
  <2> QED  BY <1>1, <1>3, <2>1, <2>2, <2>3 DEF OnceOK, Single, Walk, Loading
<1> QED  BY <1>2, <1>3 DEF EndProcs

\* Opening a process.
LEMMA OpenProcOnce ==
    ASSUME Inv, OnceOK, OpenProc
    PROVE  OnceOK'
<1> DEFINE next == [loader EXCEPT !.pc = "values", !.key = Head(loader.procs),
                                  !.lost = @ \ {"values"}]
<1>1. loader \in Loader /\ loader.pc = "proc"
  BY DEF Inv, TypeOK, OpenProc
<1>2. ASSUME NEW status, Walk(Failed(status)) PROVE OnceOK'
  <2>1. Failed(status).pc \in {"loaded", "failed"}
    BY <1>1 DEF Failed, Loader
  <2> QED  BY <1>1, <1>2, <2>1 DEF OnceOK, Single, Walk, Loading
<1>3. CASE Walk(next)
  <2>1. next.pc = "values" /\ next.procs = loader.procs /\ next.rules = loader.rules
    BY <1>1 DEF Loader
  <2> HIDE DEF next
  <2> QED  BY <1>1, <1>3, <2>1 DEF OnceOK, Single, Walk, Loading
<1> QED  BY <1>2, <1>3 DEF OpenProc

\* The entry of the first process to read joins those built.
LEMMA EndValuesOnce ==
    ASSUME Inv, OnceOK, EndValues
    PROVE  OnceOK'
<1> DEFINE more == Append(loader.rules, EntryOfFound)
           next == [loader EXCEPT !.rules = more, !.found = << >>,
                                  !.procs = Tail(loader.procs), !.pc = "proc"]
<1>1. /\ loader \in Loader /\ loader.pc = "values" /\ loader.found \in Seq(Values)
      /\ loader.procs \in Seq(Names) /\ loader.procs # << >> /\ loader.rules \in Seq(Entry)
  BY DEF Inv, TypeOK, StageOK, EndValues, Exhausted, Enumerating, Loader
<1>2. CASE Walk(Failed("OBJECT_NAME_NOT_FOUND"))
  <2>1. Failed("OBJECT_NAME_NOT_FOUND").pc \in {"loaded", "failed"}
    BY <1>1 DEF Failed, Loader
  <2> QED  BY <1>1, <1>2, <2>1 DEF OnceOK, Single, Walk, Loading
<1>3. CASE Walk(next)
  <2>1. EntryOfFound \in Entry /\ EntryOfFound.process = Head(loader.procs)
    BY <1>1, EntryOfFoundType
  <2>2. /\ more \in Seq(Entry) /\ Len(more) = Len(loader.rules) + 1
        /\ \A i \in 1 .. Len(loader.rules) : more[i] = loader.rules[i]
        /\ more[Len(loader.rules) + 1] = EntryOfFound
    BY <1>1, <2>1, AppendShape
  <2>3. next.pc = "proc" /\ next.procs = Tail(loader.procs) /\ next.rules = more
    BY <1>1 DEF Loader
  <2> HIDE DEF next, more
  <2>4. /\ DOMAIN more = 1 .. Len(loader.rules) + 1 /\ Len(loader.rules) \in Nat
        /\ DOMAIN loader.rules = 1 .. Len(loader.rules)
    BY <1>1, <2>2, LenProperties
  <2>5. \A i \in DOMAIN more : i \in DOMAIN loader.rules \/ i = Len(loader.rules) + 1
    BY <2>4
  <2>6. ASSUME "added" \notin history.changes
        PROVE  /\ IsInjective(Tail(loader.procs)) /\ Single(more)
               /\ \A i \in DOMAIN more : more[i].process \notin Range(Tail(loader.procs))
    <3>1. /\ IsInjective(loader.procs) /\ Single(loader.rules)
          /\ \A i \in DOMAIN loader.rules : loader.rules[i].process \notin Range(loader.procs)
      BY <1>1, <2>6 DEF OnceOK
    <3>2. /\ IsInjective(Tail(loader.procs)) /\ Head(loader.procs) \notin Range(Tail(loader.procs))
          /\ Head(loader.procs) \in Range(loader.procs)
          /\ \A x \in Range(Tail(loader.procs)) : x \in Range(loader.procs)
      BY <1>1, <3>1, HeadTailShape
    <3>3. Single(more)
      BY <2>1, <2>2, <2>4, <2>5, <3>1, <3>2 DEF Single
    <3>4. \A i \in DOMAIN more : more[i].process \notin Range(Tail(loader.procs))
      BY <2>1, <2>2, <2>4, <2>5, <3>1, <3>2
    <3> QED  BY <3>2, <3>3, <3>4
  <2> QED  BY <1>1, <1>3, <2>3, <2>6 DEF OnceOK, Single, Walk, Loading
<1> QED  BY <1>2, <1>3 DEF EndValues

\* The entries built become a list.
LEMMA AssignOnce ==
    ASSUME Inv, OnceOK, AssignRules
    PROVE  OnceOK'
<1> DEFINE t == Head(loader.types)
           vec == Replaced(vecs[t], loader.rules)
<1>1. /\ loader \in Loader /\ loader.pc = "proc" /\ t \in RuleTypes
      /\ vecs \in [RuleTypes -> Vec] /\ loader.rules \in Seq(Entry)
  BY DEF AssignRules, Inv, TypeOK, StageOK, Loader
<1>2. /\ vecs' = [vecs EXCEPT ![t] = vec] /\ reg' = reg /\ history' = history
      /\ loader' = [loader EXCEPT !.types = Tail(@), !.pc = "type"]
  BY DEF AssignRules
<1>3. vec.entries = loader.rules
  BY <1>1, ReplacedType
<1> HIDE DEF t, vec
<1>4. loader'.pc = "type"
  BY <1>1, <1>2 DEF Loader
<1>5. vecs'[t] = vec /\ \A u \in RuleTypes \ {t} : vecs'[u] = vecs[u]
  BY <1>1, <1>2
<1>6. "added" \notin history.changes => \A u \in RuleTypes : Single(vecs'[u].entries)
  BY <1>1, <1>3, <1>5 DEF OnceOK
<1> QED  BY <1>1, <1>2, <1>4, <1>6 DEF OnceOK, Single, Loading

\* Removals bring no name back.
LEMMA AdministerOnce ==
    ASSUME Inv, OnceOK, Effects
    PROVE  OnceOK'
<1> SUFFICES ASSUME "added" \notin history'.changes
             PROVE  OnceOK'
  BY DEF OnceOK
<1>1. "added" \notin history.changes /\ SameStage /\ vecs' = vecs
  BY DEF Effects
<1>2. /\ Loading => \A t \in Types : IsInjective(reg.procs[t])
      /\ \A t \in RuleTypes : Single(vecs[t].entries)
      /\ loader.pc = "procs" => Fresh(reg.procs[loader.type], loader.found)
      /\ loader.pc \in {"proc", "values"} =>
           /\ IsInjective(loader.procs) /\ Single(loader.rules)
           /\ \A i \in DOMAIN loader.rules : loader.rules[i].process \notin Range(loader.procs)
  BY <1>1 DEF OnceOK
<1>3. Loading' <=> Loading
  BY <1>1 DEF Loading, SameStage
<1>4. CASE ~Loading
  BY <1>1, <1>2, <1>3, <1>4 DEF OnceOK, SameStage, Loading
<1>5. CASE Loading
  <2>1. SameNames /\ Shrunk
    BY <1>5 DEF Effects, Unnamed
  <2>2. \A t \in Types : IsInjective(reg'.procs[t])
    BY <1>2, <1>5, <2>1 DEF Shrunk
  <2>3. ASSUME loader.pc = "procs"
        PROVE  Fresh(reg'.procs[loader.type], loader.found)
    <3>1. /\ loader.type \in Types /\ loader.found \in Seq(Names)
          /\ reg \in Registry /\ reg' \in Registry
      BY <2>3 DEF Inv, TypeOK, StageOK, Effects
    <3>2. reg.procs[loader.type] \in Seq(Names) /\ reg'.procs[loader.type] \in Seq(Names)
      BY <3>1 DEF Registry
    <3> QED  BY <1>2, <2>1, <2>3, <3>1, <3>2, FreshReduces DEF Shrunk
  <2> QED  BY <1>1, <1>2, <2>1, <2>2, <2>3 DEF OnceOK, SameStage, SameNames, Single
<1> QED  BY <1>4, <1>5

\* A load makes one entry for a process, unless a key was added under it: what
\* a removal shifts to an index that was read is passed over, and what was read
\* does not come again.
THEOREM ProcessesAreLoadedOnce == Spec => []LoadedOnce
<1>1. Inv /\ OnceOK /\ [Next]_vars => OnceOK'
  <2> SUFFICES ASSUME Inv, OnceOK, [Next]_vars PROVE OnceOK'
    OBVIOUS
  <2>1. CASE LoaderStep \/ LoaderOutOfMemory \/ RegisterCallback
    BY <2>1, PlainOnce, EnumerateOnce, EndProcsOnce, OpenProcOnce, EndValuesOnce, AssignOnce
       DEF LoaderStep
  <2>2. CASE Administer
    BY <2>2, AdministerEffects, AdministerOnce
  <2>3. CASE UNCHANGED vars
    BY <2>3 DEF vars, OnceOK, Single, Loading
  <2> QED  BY <2>1, <2>2, <2>3 DEF Next
<1>2. OnceOK => LoadedOnce
  BY DEF OnceOK, Single, LoadedOnce
<1> QED  BY <1>1, <1>2, InitOnce, Invariance, PTL DEF Spec

----------------------------------------------------------------------------
(* A complete load without removals has the rules that stood all the time. *)

\* An entry of the process has the path.
Covers(entries, n, p) ==
    \E i \in DOMAIN entries : entries[i].process = n /\ p \in Range(entries[i].paths)

\* A rule that stands is below keys that are there, and is loaded, or in an
\* entry that is built, or still to come at each level.
Stands(t, n, p) ==
    /\ Loading => t \in Range(reg.types) /\ n \in Range(reg.procs[t])
    /\ loader.pc = "types" => Ahead(reg.types, loader.found, t)
    /\ loader.pc = "type" => t \in Range(loader.types) \/ Covers(vecs[t].entries, n, p)
    /\ loader.pc \in {"procs", "proc", "values"} /\ t # Head(loader.types) =>
         t \in Range(loader.types) \/ Covers(vecs[t].entries, n, p)
    /\ loader.pc = "procs" /\ t = Head(loader.types) =>
         Ahead(reg.procs[t], loader.found, n)
    /\ loader.pc \in {"proc", "values"} /\ t = Head(loader.types) =>
         n \in Range(loader.procs) \/ Covers(loader.rules, n, p)
    /\ loader.pc = "values" /\ t = Head(loader.types) /\ n = Head(loader.procs) =>
         \E v \in Values : Prepared[v] = p /\ Ahead(reg.values[t][n], loader.found, v)
    /\ loader.pc \in {"loaded", "registered"} => Covers(vecs[t].entries, n, p)

\* Nothing was removed, and the load did not fail.
Undisturbed ==
    /\ "removed" \notin history.changes
    /\ loader.pc # "failed"
    /\ loader.pc \in {"loaded", "registered"} => loader.outcome = "complete"

StandingOK ==
    Undisturbed => \A rule \in history.always : Stands(rule[1], rule[2], rule[3])

\* A rule the registry asks for: its type, process and path, and the value.
LEMMA AskedFor ==
    ASSUME NEW r \in Registry, NEW rule \in Asked(r)
    PROVE  /\ rule[1] \in RuleTypes /\ rule[1] \in Types
           /\ rule[2] \in Names /\ rule[3] \in Paths
           /\ \E v \in Values : Prepared[v] = rule[3] /\ v \in Range(r.values[rule[1]][rule[2]])
<1>1. /\ rule[1] \in RuleTypes /\ rule[2] \in Names /\ rule[3] \in Paths
      /\ \E v \in Range(r.values[rule[1]][rule[2]]) : Prepared[v] = rule[3]
  BY DEF Asked, Rules
<1>2. rule[1] \in Types
  BY <1>1, RuleTypesAreTypes
<1>3. r.values[rule[1]][rule[2]] \in Seq(Values)
  BY <1>1, <1>2, Holdings
<1> QED  BY <1>1, <1>2, <1>3, ElementsOfSeq

\* Everything the registry asks for stands when the driver starts.
LEMMA InitStanding == Init => StandingOK
<1> SUFFICES ASSUME Init, NEW rule \in Asked(reg)
             PROVE  Stands(rule[1], rule[2], rule[3])
  BY DEF Init, StandingOK
<1>1. reg \in Registry /\ WellFormed(reg)
  BY RulesLoadingAssumption DEF Init
<1>2. /\ rule[1] \in Types /\ rule[2] \in Names
      /\ \E v \in Values : v \in Range(reg.values[rule[1]][rule[2]])
  BY <1>1, AskedFor
<1>3. reg.values[rule[1]][rule[2]] # << >>
  BY <1>2 DEF Range
<1>4. rule[1] \in Range(reg.types) /\ rule[2] \in Range(reg.procs[rule[1]])
  BY <1>1, <1>2, <1>3 DEF WellFormed
<1>5. loader.pc = "prepare"
  BY DEF Init
<1> QED  BY <1>4, <1>5 DEF Stands, Loading

\* A failed load has nothing to show.
LEMMA FailedStanding ==
    ASSUME Inv, NEW status, Walk(Failed(status))
    PROVE  StandingOK'
<1>1. loader \in Loader
  BY DEF Inv, TypeOK
<1>2. \/ Failed(status).pc = "failed"
      \/ Failed(status).pc = "loaded" /\ Failed(status).outcome = "absent"
  BY <1>1 DEF Failed, Loader
<1> QED  BY <1>2 DEF StandingOK, Undisturbed, Walk

\* What a step of the loader may count on, for a rule that stands.
LEMMA StandingBefore ==
    ASSUME Inv, StandingOK, NEW rule \in history.always,
           "removed" \notin history.changes, Loading
    PROVE  /\ Stands(rule[1], rule[2], rule[3]) /\ loader \in Loader /\ reg \in Registry
           /\ rule[1] \in RuleTypes /\ rule[1] \in Types /\ rule[2] \in Names
           /\ \E v \in Values :
                Prepared[v] = rule[3] /\ v \in Range(reg.values[rule[1]][rule[2]])
           /\ loader.pc \in {"procs", "proc", "values"} => loader.type = Head(loader.types)
           /\ loader.pc = "values" => loader.key = Head(loader.procs)
<1>1. Stands(rule[1], rule[2], rule[3])
  BY DEF StandingOK, Undisturbed, Loading
<1>2. reg \in Registry /\ loader \in Loader /\ rule \in Asked(reg)
  BY DEF Inv, TypeOK, LedgerOK
<1>3. Unnamed(history.changes) /\ NamedOK
  BY DEF Unnamed, Inv
<1> QED  BY <1>1, <1>2, <1>3, AskedFor DEF NamedOK

\* The keys that are made leave those there are.
LEMMA CreateStanding ==
    ASSUME Inv, StandingOK, CreateRoot \/ CreateRuleType
    PROVE  StandingOK'
<1>1. loader \in Loader /\ reg \in Registry /\ loader.pc \in {"prepare", "create"}
  BY DEF Inv, TypeOK, CreateRoot, CreateRuleType
<1>2. ASSUME loader'.pc = "create", history' = history,
             Range(reg.types) \subseteq Range(reg'.types), reg'.procs = reg.procs
      PROVE  StandingOK'
  <2>1. ASSUME NEW rule \in history.always, "removed" \notin history.changes
        PROVE  Stands(rule[1], rule[2], rule[3])'
    <3>1. rule[1] \in Range(reg.types) /\ rule[2] \in Range(reg.procs[rule[1]])
      BY <1>1, <2>1, StandingBefore DEF Stands, Loading
    <3> QED  BY <1>2, <3>1 DEF Stands, Loading
  <2> QED  BY <1>2, <2>1 DEF StandingOK, Undisturbed
<1>3. CASE CreateRoot
  <2>1. /\ loader'.pc = "create" /\ history' = history
        /\ reg'.types = reg.types /\ reg'.procs = reg.procs
    BY <1>1, <1>3 DEF CreateRoot, Loader, Registry
  <2> QED  BY <1>2, <2>1
<1>4. CASE CreateRuleType /\ reg.root
  <2>1. loader.types \in Seq(Types) /\ loader.types # << >>
    BY <1>1, <1>4 DEF CreateRuleType, Loader
  <2>2. Head(loader.types) \in Types
    BY <2>1, HeadTailProperties
  <2>3. PICK types \in WithType(Head(loader.types)) : reg' = [reg EXCEPT !.types = types]
    BY <1>4 DEF CreateRuleType
  <2>4. types \in Seq(Types) /\ Extension(reg.types, types)
    BY <1>1, <2>2, WithTypeShape
  <2>5. Range(reg.types) \subseteq Range(types)
    BY <1>1, <2>4, ExtensionRange DEF Registry
  <2>6. /\ loader'.pc = "create" /\ history' = history
        /\ reg'.types = types /\ reg'.procs = reg.procs
    BY <1>1, <1>4, <2>3 DEF CreateRuleType, Loader, Registry
  <2> QED  BY <1>2, <2>5, <2>6
<1>5. CASE CreateRuleType /\ ~reg.root
  BY <1>5, FailedStanding DEF CreateRuleType, Walk
<1> QED  BY <1>3, <1>4, <1>5

\* A walk of the loader keeps what stands, if it does for each rule.
LEMMA WalkStanding ==
    ASSUME Inv, StandingOK, Loading, NEW next, Walk(next),
           ASSUME NEW rule \in history.always, "removed" \notin history.changes
           PROVE  Stands(rule[1], rule[2], rule[3])'
    PROVE  StandingOK'
<1>1. loader' = next /\ history' = history
  BY DEF Walk
<1> QED  BY <1>1 DEF StandingOK, Undisturbed

\* Opening the rules key.
LEMMA OpenRootStanding ==
    ASSUME Inv, StandingOK, OpenRoot
    PROVE  StandingOK'
<1> DEFINE next == [loader EXCEPT !.pc = "types"]
<1>1. loader.pc = "create" /\ loader \in Loader /\ loader.found = << >> /\ reg \in Registry
  BY DEF OpenRoot, Inv, TypeOK, StageOK
<1>2. CASE Walk(next)
  <2>1. next.pc = "types" /\ next.found = << >>
    BY <1>1 DEF Loader
  <2> HIDE DEF next
  <2>2. loader' = next /\ reg' = reg
    BY <1>2 DEF Walk
  <2>3. ASSUME NEW rule \in history.always, "removed" \notin history.changes
        PROVE  Stands(rule[1], rule[2], rule[3])'
    <3>1. rule[1] \in Range(reg.types) /\ rule[2] \in Range(reg.procs[rule[1]])
      BY <1>1, <2>3, StandingBefore DEF Stands, Loading
    <3>2. Ahead(reg.types, << >>, rule[1])
      BY <1>1, <3>1, AheadStart DEF Registry
    <3> QED  BY <2>1, <2>2, <3>1, <3>2 DEF Stands, Loading
  <2> QED  BY <1>1, <1>2, <2>1, <2>3, WalkStanding DEF Loading
<1> QED  BY <1>2, FailedStanding DEF OpenRoot

\* A name that is found was ahead, and the others stay ahead.
LEMMA EnumerateStanding ==
    ASSUME Inv, StandingOK, Enumerate
    PROVE  StandingOK'
<1> DEFINE name == Listing[Len(loader.found) + 1]
           next == [loader EXCEPT !.found = Append(loader.found, name)]
<1>1. PICK level \in {"types", "procs", "values"} :
        loader.pc = level /\ Len(loader.found) < Len(Listing) /\ Walk(next)
  BY DEF Enumerate, Enumerating
<1>2. loader \in Loader /\ reg \in Registry /\ StageOK
  BY DEF Inv, TypeOK
<1>3. /\ next.pc = loader.pc /\ next.types = loader.types
      /\ next.procs = loader.procs /\ next.rules = loader.rules
      /\ next.found = Append(loader.found, name)
  BY <1>2 DEF Loader
<1>4. ASSUME NEW S, Listing \in Seq(S), loader.found \in Seq(S), NEW x,
             Ahead(Listing, loader.found, x)
      PROVE  Ahead(Listing, Append(loader.found, name), x)
  <2>1. Len(loader.found) + 1 \in 1 .. Len(Listing)
    BY <1>1, <1>4, LenProperties
  <2>2. name \in S
    BY <1>4, <2>1, ElementsOfSeq
  <2> QED  BY <1>1, <1>4, <2>2, AheadStep
<1> HIDE DEF name, next
<1>5. loader' = next /\ reg' = reg /\ vecs' = vecs
  BY <1>1 DEF Walk
<1>6. ASSUME NEW rule \in history.always, "removed" \notin history.changes
      PROVE  Stands(rule[1], rule[2], rule[3])'
  <2> DEFINE t == rule[1]
             n == rule[2]
             p == rule[3]
  <2>1. /\ Stands(t, n, p) /\ t \in Types /\ n \in Names
        /\ loader.pc \in {"procs", "values"} => loader.type = Head(loader.types)
        /\ loader.pc = "values" => loader.key = Head(loader.procs)
    BY <1>1, <1>6, StandingBefore DEF Loading
  <2> HIDE DEF t, n, p
  <2>2. CASE level = "types"
    <3>1. Listing = reg.types /\ Listing \in Seq(Types) /\ loader.found \in Seq(Types)
      BY <1>1, <1>2, <2>2 DEF Listing, Registry, StageOK
    <3>2. Ahead(reg.types, next.found, t)
      BY <1>1, <1>3, <1>4, <2>1, <2>2, <3>1 DEF Stands, Loading
    <3> QED  BY <1>1, <1>3, <1>5, <2>1, <2>2, <3>2 DEF Stands, t, n, p, Loading
  <2>3. CASE level = "procs"
    <3>1. ASSUME t = Head(loader.types) PROVE Ahead(reg.procs[t], next.found, n)
      <4>1. Listing = reg.procs[t] /\ loader.found \in Seq(Names)
        BY <1>1, <1>2, <2>1, <2>3, <3>1 DEF Listing, StageOK
      <4>2. Listing \in Seq(Names)
        BY <1>2, <2>1, <4>1 DEF Registry
      <4> QED  BY <1>1, <1>3, <1>4, <2>1, <2>3, <3>1, <4>1, <4>2 DEF Stands, Loading
    <3> QED  BY <1>1, <1>3, <1>5, <2>1, <2>3, <3>1 DEF Stands, t, n, p, Loading
  <2>4. CASE level = "values"
    <3>1. ASSUME t = Head(loader.types), n = Head(loader.procs)
          PROVE  \E v \in Values : Prepared[v] = p /\ Ahead(reg.values[t][n], next.found, v)
      <4>1. Listing = reg.values[t][n] /\ loader.found \in Seq(Values)
        BY <1>1, <1>2, <2>1, <2>4, <3>1 DEF Listing, StageOK
      <4>2. Listing \in Seq(Values)
        BY <1>2, <2>1, <4>1, Holdings
      <4>3. PICK v \in Values : Prepared[v] = p /\ Ahead(reg.values[t][n], loader.found, v)
        BY <1>1, <2>1, <2>4, <3>1 DEF Stands, Loading
      <4> QED  BY <1>3, <1>4, <4>1, <4>2, <4>3
    <3> QED  BY <1>1, <1>3, <1>5, <2>1, <2>4, <3>1 DEF Stands, t, n, p, Loading
  <2> QED  BY <2>2, <2>3, <2>4
<1> QED  BY <1>1, <1>3, <1>6, WalkStanding DEF Loading

\* No standing type was passed over.
LEMMA EndTypesStanding ==
    ASSUME Inv, StandingOK, EndTypes
    PROVE  StandingOK'
<1> DEFINE next == [loader EXCEPT !.types = loader.found, !.found = << >>, !.pc = "type"]
<1>1. /\ loader.pc = "types" /\ Len(loader.found) >= Len(reg.types) /\ Walk(next)
      /\ loader \in Loader /\ reg \in Registry /\ loader.found \in Seq(Types)
  BY DEF EndTypes, Exhausted, Enumerating, Listing, Inv, TypeOK, StageOK
<1>2. next.pc = "type" /\ next.types = loader.found
  BY <1>1 DEF Loader
<1> HIDE DEF next
<1>3. loader' = next /\ reg' = reg /\ vecs' = vecs
  BY <1>1 DEF Walk
<1>4. ASSUME NEW rule \in history.always, "removed" \notin history.changes
      PROVE  Stands(rule[1], rule[2], rule[3])'
  <2>1. Stands(rule[1], rule[2], rule[3])
    BY <1>1, <1>4, StandingBefore DEF Loading
  <2>2. rule[1] \in Range(loader.found)
    BY <1>1, <2>1, AheadEnd DEF Stands, Registry
  <2>3. rule[1] \in Range(reg.types) /\ rule[2] \in Range(reg.procs[rule[1]])
    BY <1>1, <2>1 DEF Stands, Loading
  <2> QED  BY <1>2, <1>3, <2>2, <2>3 DEF Stands
<1> QED  BY <1>1, <1>2, <1>4, WalkStanding DEF Loading

\* Opening a type.
LEMMA OpenTypeStanding ==
    ASSUME Inv, StandingOK, OpenType
    PROVE  StandingOK'
<1> DEFINE next == [loader EXCEPT !.pc = "procs", !.type = Head(loader.types),
                                  !.lost = @ \ {"procs"}]
<1>1. loader.pc = "type" /\ loader \in Loader /\ reg \in Registry /\ loader.found = << >>
  BY DEF OpenType, Inv, TypeOK, StageOK
<1>2. CASE Walk(next)
  <2>1. /\ next.pc = "procs"
        /\ next.types = loader.types /\ next.found = << >>
    BY <1>1 DEF Loader
  <2> HIDE DEF next
  <2>2. loader' = next /\ reg' = reg /\ vecs' = vecs
    BY <1>2 DEF Walk
  <2>3. ASSUME NEW rule \in history.always, "removed" \notin history.changes
        PROVE  Stands(rule[1], rule[2], rule[3])'
    <3>1. Stands(rule[1], rule[2], rule[3]) /\ rule[1] \in Types
      BY <1>1, <2>3, StandingBefore DEF Loading
    <3>2. reg.procs[rule[1]] \in Seq(Names) /\ rule[2] \in Range(reg.procs[rule[1]])
      BY <1>1, <3>1 DEF Stands, Registry, Loading
    <3>3. Ahead(reg.procs[rule[1]], << >>, rule[2])
      BY <3>2, AheadStart
    <3> QED  BY <1>1, <2>1, <2>2, <3>1, <3>3 DEF Stands, Loading
  <2> QED  BY <1>1, <1>2, <2>1, <2>3, WalkStanding DEF Loading
<1> QED  BY <1>2, FailedStanding DEF OpenType

\* No standing process was passed over.
LEMMA EndProcsStanding ==
    ASSUME Inv, StandingOK, EndProcs
    PROVE  StandingOK'
<1> DEFINE next == [loader EXCEPT !.procs = loader.found, !.found = << >>,
                                  !.rules = << >>, !.pc = "proc"]
<1>1. /\ loader.pc = "procs" /\ Len(loader.found) >= Len(reg.procs[loader.type])
      /\ loader \in Loader /\ reg \in Registry /\ loader.found \in Seq(Names)
  BY DEF EndProcs, Exhausted, Enumerating, Listing, Inv, TypeOK, StageOK
<1>2. CASE Walk(next)
  <2>1. /\ next.pc = "proc"
        /\ next.types = loader.types /\ next.procs = loader.found
    BY <1>1 DEF Loader
  <2> HIDE DEF next
  <2>2. loader' = next /\ reg' = reg /\ vecs' = vecs
    BY <1>2 DEF Walk
  <2>3. ASSUME NEW rule \in history.always, "removed" \notin history.changes
        PROVE  Stands(rule[1], rule[2], rule[3])'
    <3>1. /\ Stands(rule[1], rule[2], rule[3]) /\ rule[1] \in Types
          /\ loader.type = Head(loader.types)
      BY <1>1, <2>3, StandingBefore DEF Loading
    <3>2. ASSUME rule[1] = Head(loader.types) PROVE rule[2] \in Range(loader.found)
      <4>1. reg.procs[rule[1]] \in Seq(Names) /\ Ahead(reg.procs[rule[1]], loader.found, rule[2])
        BY <1>1, <3>1, <3>2 DEF Stands, Registry, Loading
      <4> QED  BY <1>1, <3>1, <3>2, <4>1, AheadEnd
    <3> QED  BY <1>1, <2>1, <2>2, <3>1, <3>2 DEF Stands, Loading
  <2> QED  BY <1>1, <1>2, <2>1, <2>3, WalkStanding DEF Loading
<1> QED  BY <1>2, FailedStanding DEF EndProcs

\* Opening a process.
LEMMA OpenProcStanding ==
    ASSUME Inv, StandingOK, OpenProc
    PROVE  StandingOK'
<1> DEFINE next == [loader EXCEPT !.pc = "values", !.key = Head(loader.procs),
                                  !.lost = @ \ {"values"}]
<1>1. loader.pc = "proc" /\ loader \in Loader /\ reg \in Registry /\ loader.found = << >>
  BY DEF OpenProc, Inv, TypeOK, StageOK
<1>2. CASE Walk(next)
  <2>1. /\ next.pc = "values"
        /\ next.types = loader.types /\ next.procs = loader.procs
        /\ next.rules = loader.rules /\ next.found = << >>
    BY <1>1 DEF Loader
  <2> HIDE DEF next
  <2>2. loader' = next /\ reg' = reg /\ vecs' = vecs
    BY <1>2 DEF Walk
  <2>3. ASSUME NEW rule \in history.always, "removed" \notin history.changes
        PROVE  Stands(rule[1], rule[2], rule[3])'
    <3>1. Stands(rule[1], rule[2], rule[3]) /\ rule[1] \in Types /\ rule[2] \in Names
      BY <1>1, <2>3, StandingBefore DEF Loading
    <3>2. PICK v \in Values :
            Prepared[v] = rule[3] /\ v \in Range(reg.values[rule[1]][rule[2]])
      BY <1>1, <2>3, StandingBefore DEF Loading
    <3>3. reg.values[rule[1]][rule[2]] \in Seq(Values)
      BY <1>1, <3>1, Holdings
    <3>4. Ahead(reg.values[rule[1]][rule[2]], << >>, v)
      BY <3>2, <3>3, AheadStart
    <3> QED  BY <1>1, <2>1, <2>2, <3>1, <3>2, <3>4 DEF Stands, Loading
  <2> QED  BY <1>1, <1>2, <2>1, <2>3, WalkStanding DEF Loading
<1> QED  BY <1>2, FailedStanding DEF OpenProc

\* The paths of a process are in its entry.
LEMMA EndValuesStanding ==
    ASSUME Inv, StandingOK, EndValues
    PROVE  StandingOK'
<1> DEFINE more == Append(loader.rules, EntryOfFound)
           next == [loader EXCEPT !.rules = more, !.found = << >>,
                                  !.procs = Tail(loader.procs), !.pc = "proc"]
<1>1. /\ loader \in Loader /\ loader.pc = "values" /\ loader.found \in Seq(Values)
      /\ loader.procs \in Seq(Names) /\ loader.procs # << >> /\ loader.rules \in Seq(Entry)
      /\ reg \in Registry /\ Len(loader.found) >= Len(reg.values[loader.type][loader.key])
  BY DEF Inv, TypeOK, StageOK, EndValues, Exhausted, Enumerating, Listing, Loader
<1>2. CASE Walk(next)
  <2>1. /\ EntryOfFound \in Entry /\ EntryOfFound.process = Head(loader.procs)
        /\ \A v \in Range(loader.found) : Prepared[v] \in Range(EntryOfFound.paths)
    BY <1>1, EntryOfFoundType
  <2>2. /\ more \in Seq(Entry) /\ Len(more) = Len(loader.rules) + 1
        /\ \A i \in 1 .. Len(loader.rules) : more[i] = loader.rules[i]
        /\ more[Len(loader.rules) + 1] = EntryOfFound
    BY <1>1, <2>1, AppendShape
  <2>3. /\ next.pc = "proc" /\ next.types = loader.types
        /\ next.procs = Tail(loader.procs) /\ next.rules = more
    BY <1>1 DEF Loader
  <2> HIDE DEF next, more
  <2>4. /\ DOMAIN more = 1 .. Len(loader.rules) + 1 /\ Len(loader.rules) \in Nat
        /\ DOMAIN loader.rules = 1 .. Len(loader.rules)
    BY <1>1, <2>2, LenProperties
  <2>5. /\ \A i \in DOMAIN loader.rules : i \in DOMAIN more /\ more[i] = loader.rules[i]
        /\ Len(loader.rules) + 1 \in DOMAIN more
    BY <2>2, <2>4
  <2>6. loader' = next /\ reg' = reg /\ vecs' = vecs
    BY <1>2 DEF Walk
  <2>7. ASSUME NEW rule \in history.always, "removed" \notin history.changes
        PROVE  Stands(rule[1], rule[2], rule[3])'
    <3>1. /\ Stands(rule[1], rule[2], rule[3]) /\ rule[1] \in Types /\ rule[2] \in Names
          /\ loader.type = Head(loader.types) /\ loader.key = Head(loader.procs)
      BY <1>1, <2>7, StandingBefore DEF Loading
    <3>2. ASSUME rule[1] = Head(loader.types)
          PROVE  rule[2] \in Range(Tail(loader.procs)) \/ Covers(more, rule[2], rule[3])
      <4>1. CASE Covers(loader.rules, rule[2], rule[3])
        BY <2>5, <4>1 DEF Covers
      <4>2. CASE rule[2] = Head(loader.procs)
        <5>1. PICK v \in Values : /\ Prepared[v] = rule[3]
                                  /\ Ahead(reg.values[rule[1]][rule[2]], loader.found, v)
          BY <1>1, <3>1, <3>2, <4>2 DEF Stands, Loading
        <5>2. reg.values[rule[1]][rule[2]] \in Seq(Values)
          BY <1>1, <3>1, Holdings
        <5>3. v \in Range(loader.found)
          BY <1>1, <3>1, <3>2, <4>2, <5>1, <5>2, AheadEnd
        <5> QED  BY <2>1, <2>2, <2>5, <4>2, <5>1, <5>3 DEF Covers
      <4>3. CASE rule[2] # Head(loader.procs) /\ rule[2] \in Range(loader.procs)
        BY <1>1, <4>3, HeadTailShape
      <4> QED  BY <1>1, <3>1, <3>2, <4>1, <4>2, <4>3 DEF Stands, Loading
    <3> QED  BY <1>1, <2>3, <2>6, <3>1, <3>2 DEF Stands, Loading
  <2> QED  BY <1>1, <1>2, <2>3, <2>7, WalkStanding DEF Loading
<1> QED  BY <1>2, FailedStanding DEF EndValues

\* What was built for a type is in its list, and the other lists are as they were.
LEMMA AssignStanding ==
    ASSUME Inv, StandingOK, AssignRules
    PROVE  StandingOK'
<1> DEFINE u == Head(loader.types)
           vec == Replaced(vecs[u], loader.rules)
<1>1. /\ loader \in Loader /\ loader.pc = "proc" /\ loader.procs = << >>
      /\ loader.types # << >> /\ loader.types \in Seq(Types) /\ u \in RuleTypes
      /\ vecs \in [RuleTypes -> Vec] /\ loader.rules \in Seq(Entry)
  BY DEF AssignRules, Inv, TypeOK, StageOK, Loader
<1>2. /\ vecs' = [vecs EXCEPT ![u] = vec] /\ reg' = reg /\ history' = history
      /\ loader' = [loader EXCEPT !.types = Tail(@), !.pc = "type"]
  BY DEF AssignRules
<1>3. vec.entries = loader.rules
  BY <1>1, ReplacedType
<1>4. /\ loader'.pc = "type"
      /\ loader'.types = Tail(loader.types)
  BY <1>1, <1>2 DEF Loader
<1> HIDE DEF vec
<1>5. vecs'[u] = vec /\ \A t \in RuleTypes \ {u} : vecs'[t] = vecs[t]
  BY <1>1, <1>2
<1>6. ASSUME NEW rule \in history.always, "removed" \notin history.changes
      PROVE  Stands(rule[1], rule[2], rule[3])'
  <2>1. Stands(rule[1], rule[2], rule[3]) /\ rule[1] \in RuleTypes
    BY <1>1, <1>6, StandingBefore DEF Loading
  <2>2. CASE rule[1] = u
    <3>1. Covers(loader.rules, rule[2], rule[3])
      BY <1>1, <2>1, <2>2 DEF Stands, Range, Loading
    <3>2. Covers(vecs'[rule[1]].entries, rule[2], rule[3])
      BY <1>3, <1>5, <2>2, <3>1
    <3>3. rule[1] \in Range(reg.types) /\ rule[2] \in Range(reg.procs[rule[1]])
      BY <1>1, <2>1 DEF Stands, Loading
    <3> QED  BY <1>2, <1>4, <3>2, <3>3 DEF Stands, Covers
  <2>3. CASE rule[1] # u
    <3>1. rule[1] \in Range(loader.types) => rule[1] \in Range(Tail(loader.types))
      BY <1>1, <2>3, HeadTailShape
    <3>2. vecs'[rule[1]] = vecs[rule[1]]
      BY <1>5, <2>1, <2>3
    <3> QED  BY <1>1, <1>2, <1>4, <2>1, <2>3, <3>1, <3>2 DEF Stands, Covers, Loading
  <2> QED  BY <2>2, <2>3
<1> QED  BY <1>1, <1>2, <1>4, <1>6 DEF StandingOK, Undisturbed

\* The load is done: nothing is to come.
LEMMA DoneStanding ==
    ASSUME Inv, StandingOK, InitDone
    PROVE  StandingOK'
<1> DEFINE next == [loader EXCEPT !.pc = "loaded", !.outcome = "complete"]
<1>1. loader \in Loader /\ loader.pc = "type" /\ loader.types = << >> /\ Walk(next)
  BY DEF InitDone, Inv, TypeOK
<1>2. next.pc = "loaded"
  BY <1>1 DEF Loader
<1> HIDE DEF next
<1>3. loader' = next /\ reg' = reg /\ vecs' = vecs /\ history' = history
  BY <1>1 DEF Walk
<1>4. ASSUME NEW rule \in history.always, "removed" \notin history.changes
      PROVE  Stands(rule[1], rule[2], rule[3])'
  <2>1. Stands(rule[1], rule[2], rule[3])
    BY <1>1, <1>4, StandingBefore DEF Loading
  <2> QED  BY <1>1, <1>2, <1>3, <2>1 DEF Stands, Range, Loading
<1> QED  BY <1>3, <1>4 DEF StandingOK, Undisturbed

\* Additions move what is ahead to where it is still ahead.
LEMMA AdministerStanding ==
    ASSUME Inv, StandingOK, Effects
    PROVE  StandingOK'
<1> SUFFICES ASSUME Undisturbed', NEW rule \in history'.always
             PROVE  Stands(rule[1], rule[2], rule[3])'
  BY DEF StandingOK
<1> DEFINE t == rule[1]
           n == rule[2]
           p == rule[3]
<1>1. /\ Undisturbed /\ SameStage /\ vecs' = vecs
      /\ "removed" \notin history'.changes /\ rule \in history.always
  BY DEF Effects, SameStage, Undisturbed
<1>2. Stands(t, n, p)
  BY <1>1 DEF StandingOK
<1>3. CASE ~Loading
  BY <1>1, <1>2, <1>3 DEF Stands, SameStage, Loading
<1>4. CASE Loading
  <2>1. /\ reg \in Registry /\ reg' \in Registry /\ loader \in Loader
        /\ StageOK /\ t \in Types /\ n \in Names
    <3>1. rule \in Asked(reg)
      BY <1>1, <1>4 DEF Inv, LedgerOK
    <3>2. reg \in Registry /\ reg' \in Registry /\ loader \in Loader /\ StageOK
      BY DEF Inv, TypeOK, Effects
    <3> QED  BY <3>1, <3>2, AskedFor
  <2>2. SameNames /\ Grown
    BY <1>1, <1>4 DEF Effects, Unnamed
  <2> HIDE DEF t, n, p
  <2>3. /\ reg.types \in Seq(Types) /\ reg'.types \in Seq(Types)
        /\ reg.procs[t] \in Seq(Names) /\ reg'.procs[t] \in Seq(Names)
        /\ reg.values[t][n] \in Seq(Values) /\ reg'.values[t][n] \in Seq(Values)
    BY <2>1, Holdings
  <2>4. t \in Range(reg.types) /\ n \in Range(reg.procs[t])
    BY <1>2, <1>4 DEF Stands
  <2>5. /\ Extension(reg.types, reg'.types) /\ Extension(reg.procs[t], reg'.procs[t])
        /\ Extension(reg.values[t][n], reg'.values[t][n])
    BY <2>1, <2>2, <2>4 DEF Grown
  <2>6. t \in Range(reg'.types) /\ n \in Range(reg'.procs[t])
    BY <2>3, <2>4, <2>5, ExtensionRange
  <2>7. loader.pc = "types" => Ahead(reg'.types, loader.found, t)
    BY <1>2, <2>1, <2>3, <2>5, AheadExtends DEF Stands, StageOK
  <2>8. loader.pc = "procs" /\ t = Head(loader.types) =>
          Ahead(reg'.procs[t], loader.found, n)
    BY <1>2, <2>1, <2>3, <2>5, AheadExtends DEF Stands, StageOK
  <2>9. ASSUME loader.pc = "values", t = Head(loader.types), n = Head(loader.procs)
        PROVE  \E v \in Values : Prepared[v] = p /\ Ahead(reg'.values[t][n], loader.found, v)
    <3>1. PICK v \in Values : Prepared[v] = p /\ Ahead(reg.values[t][n], loader.found, v)
      BY <1>2, <2>9 DEF Stands
    <3>2. loader.found \in Seq(Values)
      BY <2>1, <2>9 DEF StageOK
    <3> QED  BY <2>3, <2>5, <3>1, <3>2, AheadExtends
  <2> QED
    BY <1>1, <1>2, <2>6, <2>7, <2>8, <2>9 DEF Stands, SameStage, Loading, t, n, p
<1> QED  BY <1>3, <1>4

\* A load that ran to its end has made its lists.
OutcomeOK == loader.outcome = "complete" => loader.pc \in {"loaded", "registered"}

\* Only a load that is done is complete.
LEMMA OutcomeInv == Inv /\ OutcomeOK /\ [Next]_vars => OutcomeOK'
<1> SUFFICES ASSUME Inv, OutcomeOK, [Next]_vars PROVE OutcomeOK'
  OBVIOUS
<1>1. loader \in Loader
  BY DEF Inv, TypeOK
<1>2. ASSUME NEW status, Walk(Failed(status)) PROVE OutcomeOK'
  BY <1>1, <1>2 DEF OutcomeOK, Walk, Failed, Loader
<1>3. ASSUME loader'.outcome = loader.outcome, Loading PROVE OutcomeOK'
  BY <1>3 DEF OutcomeOK, Loading
<1>4. CASE CreateRoot \/ CreateRuleType \/ OpenRoot \/ Enumerate \/ EndTypes
  BY <1>1, <1>2, <1>3, <1>4 DEF CreateRoot, CreateRuleType, OpenRoot, Enumerate,
     Enumerating, EndTypes, Exhausted, Walk, Loader, Loading
<1>5. CASE OpenType \/ EndProcs \/ OpenProc \/ EndValues
  BY <1>1, <1>2, <1>3, <1>5 DEF OpenType, EndProcs, OpenProc, EndValues,
     Enumerating, Exhausted, Walk, Loader, Loading
<1>6. CASE EnumerateDeleted \/ LoaderOutOfMemory
  BY <1>2, <1>6 DEF EnumerateDeleted, LoaderOutOfMemory
<1>7. CASE AssignRules \/ InitDone \/ RegisterCallback
  BY <1>1, <1>7 DEF AssignRules, InitDone, RegisterCallback, Walk, Loader, OutcomeOK
<1>8. CASE Administer
  BY <1>8, AdministerEffects DEF Effects, SameStage, OutcomeOK
<1>9. CASE UNCHANGED vars
  BY <1>9 DEF vars, OutcomeOK
<1> QED
  BY <1>4, <1>5, <1>6, <1>7, <1>8, <1>9 DEF Next, LoaderStep

\* It is so all the time.
LEMMA OutcomeInvariance == Spec => []OutcomeOK
<1>1. Init => OutcomeOK
  BY DEF Init, OutcomeOK
<1> QED  BY <1>1, OutcomeInv, Invariance, PTL DEF Spec

\* A load that ran to its end has every rule that stood all the time, unless a
\* key or a value was removed under it: additions shift the enumeration, at
\* whatever index they come in, but skip nothing.
THEOREM StandingRulesAreLoaded == Spec => []StandingIsLoaded
<1>1. Inv /\ StandingOK /\ [Next]_vars => StandingOK'
  <2> SUFFICES ASSUME Inv, StandingOK, [Next]_vars PROVE StandingOK'
    OBVIOUS
  <2>1. CASE LoaderStep
    <3>1. CASE EnumerateDeleted
      BY <3>1, FailedStanding DEF EnumerateDeleted
    <3> QED
      BY <2>1, <3>1, CreateStanding, OpenRootStanding, EnumerateStanding, EndTypesStanding,
         OpenTypeStanding, EndProcsStanding, OpenProcStanding, EndValuesStanding,
         AssignStanding, DoneStanding DEF LoaderStep
  <2>2. CASE LoaderOutOfMemory
    BY <2>2, FailedStanding DEF LoaderOutOfMemory
  <2>3. CASE RegisterCallback
    <3>1. loader \in Loader
      BY DEF Inv, TypeOK
    <3>2. /\ loader.pc = "loaded" /\ loader'.pc = "registered"
          /\ loader'.outcome = loader.outcome /\ vecs' = vecs /\ history' = history
      BY <2>3, <3>1 DEF RegisterCallback, Walk, Loader
    <3> QED  BY <3>2 DEF StandingOK, Undisturbed, Stands, Loading
  <2>4. CASE Administer
    BY <2>4, AdministerEffects, AdministerStanding
  <2>5. CASE UNCHANGED vars
    BY <2>5 DEF vars, StandingOK, Undisturbed, Stands, Ahead, Covers, Loading
  <2> QED  BY <2>1, <2>2, <2>3, <2>4, <2>5 DEF Next
<1>2. Inv /\ OutcomeOK /\ StandingOK => StandingIsLoaded
  <2> SUFFICES ASSUME Inv, OutcomeOK, StandingOK, loader.outcome = "complete",
                      "removed" \notin history.changes, NEW rule \in history.always
               PROVE  rule \in Listed
    BY DEF StandingIsLoaded
  <2>1. Covers(vecs[rule[1]].entries, rule[2], rule[3])
    BY DEF StandingOK, OutcomeOK, Undisturbed, Stands
  <2>2. rule \in Rules
    BY DEF Inv, TypeOK, History
  <2> QED  BY <2>1, <2>2 DEF Covers, Listed, Range
<1> QED  BY <1>1, <1>2, InitStanding, Invariance, OutcomeInvariance, PTL DEF Spec

----
(* A load of a registry that nobody changes copies it.                     *)

\* The paths that these values ask for, in their order.
Wanted(values) == [i \in DOMAIN values |-> Prepared[values[i]]]

\* What was found is what comes first.
Prefix(found, seq) ==
    Len(found) <= Len(seq) /\ \A i \in 1 .. Len(found) : found[i] = seq[i]

\* The first entries are those of the first keys of the type, one for one.
Begun(r, list, t) ==
    /\ Len(list) <= Len(r.procs[t])
    /\ \A i \in 1 .. Len(list) :
         /\ list[i].process = r.procs[t][i]
         /\ list[i].paths = Wanted(r.values[t][r.procs[t][i]])

\* The list is that of the registry, entry by entry.
Copied(r, list, t) == Begun(r, list, t) /\ Len(list) = Len(r.procs[t])

\* The load of a registry that nobody changes copies it.
CopyOK ==
    /\ loader.pc = "create" =>
         \A t \in RuleTypes : t \in Range(loader.types) \/ t \in Range(reg.types)
    /\ loader.pc = "types" => RuleTypes \subseteq Range(reg.types)
    /\ loader.pc = "types" => Prefix(loader.found, reg.types)
    /\ loader.pc \in {"type", "procs", "proc", "values"} =>
         \A t \in RuleTypes : t \in Range(loader.types) \/ Copied(reg, vecs[t].entries, t)
    /\ loader.pc = "procs" => Prefix(loader.found, reg.procs[loader.type])
    /\ loader.pc \in {"proc", "values"} =>
         /\ Begun(reg, loader.rules, loader.type)
         /\ Len(loader.rules) + Len(loader.procs) = Len(reg.procs[loader.type])
         /\ \A i \in 1 .. Len(loader.procs) :
              loader.procs[i] = reg.procs[loader.type][Len(loader.rules) + i]
    /\ loader.pc = "values" => Prefix(loader.found, reg.values[loader.type][loader.key])
    /\ loader.pc \in {"loaded", "registered"} /\ loader.outcome = "complete" =>
         \A t \in RuleTypes : Copied(reg, vecs[t].entries, t)

\* Nobody has changed a key or a value since the load began.
Alone == history.changes = {} /\ ~history.late

ExactOK == Alone => CopyOK

\* Nothing was found yet.
LEMMA PrefixStart ==
    ASSUME NEW S, NEW s \in Seq(S)
    PROVE  Prefix(<< >>, s)
BY DEF Prefix

\* The next element was found.
LEMMA PrefixStep ==
    ASSUME NEW S, NEW s \in Seq(S), NEW found \in Seq(S), Len(found) < Len(s), Prefix(found, s)
    PROVE  Prefix(Append(found, s[Len(found) + 1]), s)
<1> DEFINE n == Len(found)
           more == Append(found, s[n + 1])
<1>1. n \in Nat /\ Len(s) \in Nat /\ n + 1 \in 1 .. Len(s)
  BY LenProperties
<1>2. s[n + 1] \in S
  BY <1>1, ElementOfSeq
<1>3. /\ Len(more) = n + 1 /\ more[n + 1] = s[n + 1]
      /\ \A i \in 1 .. n : more[i] = found[i]
  BY <1>2, AppendShape
<1> HIDE DEF more, n
<1>4. \A i \in 1 .. n : found[i] = s[i]
  BY DEF Prefix, n
<1>5. \A i \in 1 .. n + 1 : i \in 1 .. n \/ i = n + 1
  BY <1>1
<1>6. Prefix(more, s)
  BY <1>1, <1>3, <1>4, <1>5 DEF Prefix
<1> QED  BY <1>6 DEF more, n

\* Everything was found.
LEMMA PrefixEnd ==
    ASSUME NEW S, NEW s \in Seq(S), NEW found \in Seq(S), Len(found) >= Len(s), Prefix(found, s)
    PROVE  found = s
<1>1. Len(found) = Len(s)
  BY LenProperties DEF Prefix
<1> QED  BY <1>1, SeqEqual DEF Prefix

\* A failure copies nothing, and claims nothing.
LEMMA FailedCopy ==
    ASSUME Inv, NEW status, Walk(Failed(status))
    PROVE  CopyOK'
<1>1. loader \in Loader
  BY DEF Inv, TypeOK
<1>2. \/ Failed(status).pc = "loaded" /\ Failed(status).outcome = "absent"
      \/ Failed(status).pc = "failed" /\ Failed(status).outcome = "error"
  BY <1>1 DEF Failed, Loader
<1> HIDE DEF Failed
<1> QED  BY <1>2 DEF CopyOK, Walk

\* The rules key is made, and the rule types are to be made.
LEMMA CreateRootCopy == Inv /\ CreateRoot => CopyOK'
<1> SUFFICES ASSUME Inv, CreateRoot PROVE CopyOK'
  OBVIOUS
<1>1. loader' = [loader EXCEPT !.pc = "create", !.types = <<"Deny", "ReadOnly">>]
  BY DEF CreateRoot
<1>2. loader'.pc = "create" /\ loader'.types = <<"Deny", "ReadOnly">>
  BY <1>1 DEF Inv, TypeOK, Loader
<1>3. "Deny" \in Range(<<"Deny", "ReadOnly">>) /\ "ReadOnly" \in Range(<<"Deny", "ReadOnly">>)
  BY ElementsOfSeq DEF Range
<1> QED  BY <1>2, <1>3 DEF CopyOK, RuleTypes

\* A rule type is made, and those there were stay.
LEMMA CreateRuleTypeCopy == Inv /\ CopyOK /\ CreateRuleType => CopyOK'
<1> SUFFICES ASSUME Inv, CopyOK, CreateRuleType PROVE CopyOK'
  OBVIOUS
<1>1. /\ loader.pc = "create" /\ loader.types # << >> /\ loader.types \in Seq(Types)
      /\ loader \in Loader /\ reg \in Registry
  BY DEF CreateRuleType, Inv, TypeOK, Loader
<1>2. CASE ~reg.root
  BY <1>2, FailedCopy DEF CreateRuleType, Walk
<1>3. CASE reg.root
  <2>1. PICK types \in WithType(Head(loader.types)) : reg' = [reg EXCEPT !.types = types]
    BY <1>3 DEF CreateRuleType
  <2>2. Head(loader.types) \in Types
    BY <1>1, HeadTailProperties
  <2>3. /\ types \in Seq(Types) /\ Extension(reg.types, types)
        /\ Head(loader.types) \in Range(types)
    BY <1>1, <2>2, WithTypeShape
  <2>4. Range(reg.types) \subseteq Range(types)
    BY <1>1, <2>3, ExtensionRange DEF Registry
  <2>5. \A x : x \in Range(loader.types)
              <=> x = Head(loader.types) \/ x \in Range(Tail(loader.types))
    BY <1>1, HeadTailShape
  <2>6. loader'.pc = "create" /\ loader'.types = Tail(loader.types) /\ reg'.types = types
    BY <1>1, <1>3, <2>1 DEF CreateRuleType, Loader, Registry
  <2>7. \A t \in RuleTypes : t \in Range(Tail(loader.types)) \/ t \in Range(types)
    BY <1>1, <2>3, <2>4, <2>5 DEF CopyOK
  <2> QED  BY <2>6, <2>7 DEF CopyOK
<1> QED  BY <1>2, <1>3

\* Opening the rules key.
LEMMA OpenRootCopy == Inv /\ CopyOK /\ OpenRoot => CopyOK'
<1> SUFFICES ASSUME Inv, CopyOK, OpenRoot PROVE CopyOK'
  OBVIOUS
<1>1. CASE Walk(Failed("OBJECT_NAME_NOT_FOUND"))
  BY <1>1, FailedCopy
<1>2. CASE Walk([loader EXCEPT !.pc = "types"])
  <2>1. /\ loader \in Loader /\ loader.pc = "create" /\ loader.found = << >>
        /\ Range(loader.types) = {} /\ reg.types \in Seq(Types)
    BY DEF Inv, TypeOK, Registry, StageOK, OpenRoot, Range
  <2>2. loader'.pc = "types" /\ loader'.found = << >> /\ reg' = reg
    BY <1>2, <2>1 DEF Walk, Loader
  <2> QED  BY <2>1, <2>2, PrefixStart DEF CopyOK
<1> QED  BY <1>1, <1>2 DEF OpenRoot

\* A name is found.
LEMMA EnumerateCopy ==
    ASSUME Inv, CopyOK, Enumerate
    PROVE  CopyOK'
<1> DEFINE more == Append(loader.found, Listing[Len(loader.found) + 1])
<1>1. PICK level \in {"types", "procs", "values"} :
        /\ loader.pc = level /\ Len(loader.found) < Len(Listing)
        /\ Walk([loader EXCEPT !.found = more])
  BY DEF Enumerate, Enumerating
<1>2. loader \in Loader /\ reg \in Registry /\ StageOK
  BY DEF Inv, TypeOK
<1>3. ASSUME NEW S, Listing \in Seq(S), loader.found \in Seq(S), Prefix(loader.found, Listing)
      PROVE  Prefix(more, Listing)
  BY <1>1, <1>3, PrefixStep
<1> HIDE DEF more
<1>4. /\ loader'.pc = loader.pc /\ loader'.types = loader.types /\ loader'.type = loader.type
      /\ loader'.procs = loader.procs /\ loader'.key = loader.key /\ loader'.rules = loader.rules
      /\ loader'.outcome = loader.outcome /\ loader'.found = more
      /\ reg' = reg /\ vecs' = vecs
  BY <1>1, <1>2 DEF Walk, Loader
<1>5. CASE level = "types"
  <2>1. Listing = reg.types /\ Listing \in Seq(Types) /\ loader.found \in Seq(Types)
    BY <1>1, <1>2, <1>5 DEF Listing, Registry, StageOK
  <2>2. Prefix(more, reg.types)
    BY <1>1, <1>3, <1>5, <2>1 DEF CopyOK
  <2> QED  BY <1>1, <1>4, <1>5, <2>2 DEF CopyOK
<1>6. CASE level = "procs"
  <2>1. Listing = reg.procs[loader.type] /\ loader.type \in Types
    BY <1>1, <1>2, <1>6 DEF Listing, StageOK
  <2>2. Listing \in Seq(Names) /\ loader.found \in Seq(Names)
    BY <1>1, <1>2, <1>6, <2>1 DEF Registry, StageOK
  <2>3. Prefix(more, reg.procs[loader.type])
    BY <1>1, <1>3, <1>6, <2>1, <2>2 DEF CopyOK
  <2> QED  BY <1>1, <1>4, <1>6, <2>3 DEF CopyOK
<1>7. CASE level = "values"
  <2>1. /\ Listing = reg.values[loader.type][loader.key]
        /\ loader.type \in Types /\ loader.key \in Names /\ loader.found \in Seq(Values)
    BY <1>1, <1>2, <1>7 DEF Listing, StageOK
  <2>2. Listing \in Seq(Values)
    BY <1>2, <2>1 DEF Registry
  <2>3. Prefix(more, reg.values[loader.type][loader.key])
    BY <1>1, <1>3, <1>7, <2>1, <2>2 DEF CopyOK
  <2> QED  BY <1>1, <1>4, <1>7, <2>3 DEF CopyOK
<1> QED  BY <1>5, <1>6, <1>7

\* All types are found.
LEMMA EndTypesCopy == Inv /\ CopyOK /\ EndTypes => CopyOK'
<1> SUFFICES ASSUME Inv, CopyOK, EndTypes PROVE CopyOK'
  OBVIOUS
<1>1. /\ loader.pc = "types" /\ loader \in Loader /\ loader.found \in Seq(Types)
      /\ reg.types \in Seq(Types) /\ Len(loader.found) >= Len(reg.types)
  BY DEF EndTypes, Exhausted, Enumerating, Listing, Inv, TypeOK, Registry, StageOK
<1>2. loader.found = reg.types
  BY <1>1, PrefixEnd DEF CopyOK
<1>3. loader'.pc = "type" /\ loader'.types = loader.found
  BY <1>1 DEF EndTypes, Walk, Loader
<1> QED  BY <1>1, <1>2, <1>3 DEF CopyOK

\* Opening a type.
LEMMA OpenTypeCopy == Inv /\ CopyOK /\ OpenType => CopyOK'
<1> SUFFICES ASSUME Inv, CopyOK, OpenType PROVE CopyOK'
  OBVIOUS
<1> DEFINE next == [loader EXCEPT !.pc = "procs", !.type = Head(loader.types),
                                  !.lost = @ \ {"procs"}]
<1>1. ASSUME NEW status, Walk(Failed(status)) PROVE CopyOK'
  BY <1>1, FailedCopy
<1>2. CASE Walk(next)
  <2>1. /\ loader \in Loader /\ loader.pc = "type" /\ loader.found = << >> /\ reg \in Registry
        /\ loader.types # << >> /\ loader.types \in Seq(Types)
    BY DEF OpenType, Inv, TypeOK, StageOK, Loader
  <2>2. /\ loader'.pc = "procs" /\ loader'.found = << >> /\ loader'.types = loader.types
        /\ loader'.type = Head(loader.types) /\ reg' = reg /\ vecs' = vecs
    BY <1>2, <2>1 DEF Walk, Loader
  <2>3. Head(loader.types) \in Types
    BY <2>1, HeadTailProperties
  <2>4. Prefix(<< >>, reg.procs[Head(loader.types)])
    BY <2>1, <2>3, PrefixStart DEF Registry
  <2> QED  BY <2>1, <2>2, <2>4 DEF CopyOK
<1> QED  BY <1>1, <1>2 DEF OpenType

\* All processes are found.
LEMMA EndProcsCopy == Inv /\ CopyOK /\ EndProcs => CopyOK'
<1> SUFFICES ASSUME Inv, CopyOK, EndProcs PROVE CopyOK'
  OBVIOUS
<1> DEFINE next == [loader EXCEPT !.procs = loader.found, !.found = << >>,
                                  !.rules = << >>, !.pc = "proc"]
<1>1. CASE Walk(Failed("INVALID_PARAMETER"))
  BY <1>1, FailedCopy
<1>2. CASE Walk(next)
  <2> DEFINE keys == reg.procs[loader.type]
  <2>1. /\ loader.pc = "procs" /\ loader \in Loader /\ loader.found \in Seq(Names)
        /\ reg \in Registry /\ loader.type \in Types /\ Len(loader.found) >= Len(keys)
    BY DEF EndProcs, Exhausted, Enumerating, Listing, Inv, TypeOK, StageOK
  <2>2. keys \in Seq(Names)
    BY <2>1 DEF Registry
  <2>3. loader.found = keys
    BY <2>1, <2>2, PrefixEnd DEF CopyOK
  <2>4. /\ loader'.pc = "proc" /\ loader'.procs = keys /\ loader'.rules = << >>
        /\ loader'.types = loader.types /\ loader'.type = loader.type
        /\ reg' = reg /\ vecs' = vecs
    BY <1>2, <2>1, <2>3 DEF Walk, Loader
  <2>5. Begun(reg, << >>, loader.type)
    BY <2>2 DEF Begun
  <2>6. /\ Len(<< >>) + Len(keys) = Len(keys)
        /\ \A i \in 1 .. Len(keys) : keys[i] = keys[Len(<< >>) + i]
    BY <2>2
  <2> QED  BY <2>1, <2>4, <2>5, <2>6 DEF CopyOK
<1> QED  BY <1>1, <1>2 DEF EndProcs

\* Opening a process.
LEMMA OpenProcCopy ==
    ASSUME Inv, CopyOK, OpenProc
    PROVE  CopyOK'
<1> DEFINE next == [loader EXCEPT !.pc = "values", !.key = Head(loader.procs),
                                  !.lost = @ \ {"values"}]
<1>1. ASSUME NEW status, Walk(Failed(status)) PROVE CopyOK'
  BY <1>1, FailedCopy
<1>2. CASE Walk(next)
  <2>1. /\ loader \in Loader /\ loader.pc = "proc" /\ loader.found = << >> /\ reg \in Registry
        /\ loader.procs # << >> /\ loader.procs \in Seq(Names) /\ loader.type \in Types
    BY DEF OpenProc, Inv, TypeOK, StageOK, Loader
  <2>2. /\ loader'.pc = "values" /\ loader'.found = << >> /\ loader'.key = Head(loader.procs)
        /\ loader'.types = loader.types /\ loader'.type = loader.type
        /\ loader'.procs = loader.procs /\ loader'.rules = loader.rules
        /\ reg' = reg /\ vecs' = vecs
    BY <1>2, <2>1 DEF Walk, Loader
  <2>3. Head(loader.procs) \in Names
    BY <2>1, HeadTailProperties
  <2>4. reg.values[loader.type][Head(loader.procs)] \in Seq(Values)
    BY <2>1, <2>3, Holdings
  <2>5. Prefix(<< >>, reg.values[loader.type][Head(loader.procs)])
    BY <2>4, PrefixStart
  <2> QED  BY <2>1, <2>2, <2>5 DEF CopyOK
<1> QED  BY <1>1, <1>2 DEF OpenProc

\* The entry of a process joins those built.
LEMMA EndValuesCopy ==
    ASSUME Inv, CopyOK, Unnamed(history.changes), EndValues
    PROVE  CopyOK'
<1> DEFINE t == loader.type
           keys == reg.procs[t]
           more == Append(loader.rules, EntryOfFound)
           next == [loader EXCEPT !.rules = more, !.found = << >>,
                                  !.procs = Tail(loader.procs), !.pc = "proc"]
           n == Len(loader.rules)
<1>1. CASE Walk(Failed("OBJECT_NAME_NOT_FOUND"))
  BY <1>1, FailedCopy
<1>2. CASE Walk(next)
  <2>1. /\ loader.pc = "values" /\ loader \in Loader /\ loader.found \in Seq(Values)
        /\ loader.procs # << >> /\ t \in Types /\ loader.key \in Names /\ reg \in Registry
        /\ loader.rules \in Seq(Entry) /\ loader.procs \in Seq(Names)
        /\ loader.key = Head(loader.procs)
        /\ Len(loader.found) >= Len(reg.values[t][loader.key])
    BY DEF EndValues, Exhausted, Enumerating, Listing, Inv, TypeOK, StageOK, NamedOK, Loader
  <2>2. loader.found = reg.values[t][loader.key]
    <3>1. reg.values[t][loader.key] \in Seq(Values)
      BY <2>1, Holdings
    <3> QED  BY <2>1, <3>1, PrefixEnd DEF CopyOK
  <2>3. /\ EntryOfFound \in Entry /\ EntryOfFound.process = Head(loader.procs)
        /\ EntryOfFound.paths = Wanted(loader.found)
    BY <2>1, EntryOfFoundType DEF EntryOfFound, Wanted
  <2>4. /\ more \in Seq(Entry) /\ Len(more) = n + 1 /\ more[n + 1] = EntryOfFound
        /\ \A i \in 1 .. n : more[i] = loader.rules[i]
    BY <2>1, <2>3, AppendShape
  <2> HIDE DEF more
  <2>5. /\ Tail(loader.procs) \in Seq(Names) /\ Len(Tail(loader.procs)) = Len(loader.procs) - 1
        /\ \A i \in 1 .. Len(loader.procs) - 1 : Tail(loader.procs)[i] = loader.procs[i + 1]
        /\ Len(loader.procs) \in Nat /\ Len(loader.procs) >= 1
        /\ Head(loader.procs) = loader.procs[1]
    BY <2>1, HeadTailProperties, EmptySeq, LenProperties
  <2>6. /\ loader'.pc = "proc" /\ loader'.rules = more /\ loader'.procs = Tail(loader.procs)
        /\ loader'.types = loader.types /\ loader'.type = loader.type
        /\ reg' = reg /\ vecs' = vecs
    BY <1>2, <2>1, <2>4, <2>5 DEF Walk, Loader
  <2>7. /\ Begun(reg, loader.rules, t) /\ n + Len(loader.procs) = Len(keys)
        /\ \A i \in 1 .. Len(loader.procs) : loader.procs[i] = keys[n + i]
    BY <2>1 DEF CopyOK
  <2>8. n \in Nat /\ Len(keys) \in Nat
    BY <2>1, LenProperties DEF Registry
  <2> DEFINE len == Len(loader.procs)
             rest == Tail(loader.procs)
             total == Len(keys)
  <2>9. Head(loader.procs) = keys[n + 1] /\ n + 1 <= total
    <3> HIDE DEF n, len, total, keys
    <3>1. len \in Nat /\ len >= 1 /\ n \in Nat /\ total \in Nat /\ n + len = total
      BY <2>5, <2>7, <2>8 DEF len, total
    <3>2. 1 \in 1 .. len
      BY <3>1
    <3> QED  BY <2>5, <2>7, <3>1, <3>2 DEF len
  <2>10. Begun(reg, more, t)
    <3>1. ASSUME NEW i \in 1 .. n + 1
          PROVE  more[i].process = keys[i] /\ more[i].paths = Wanted(reg.values[t][keys[i]])
      <4>1. CASE i = n + 1
        BY <2>1, <2>2, <2>3, <2>4, <2>9, <4>1
      <4>2. CASE i # n + 1
        <5>1. i \in 1 .. n
          BY <2>8, <4>2
        <5> QED  BY <2>4, <2>7, <5>1 DEF Begun
      <4> QED  BY <4>1, <4>2
    <3> QED  BY <2>4, <2>9, <3>1 DEF Begun
  <2>11. /\ Len(more) + Len(rest) = total
         /\ \A i \in 1 .. Len(rest) : rest[i] = keys[Len(more) + i]
    <3> HIDE DEF n, len, total, keys, rest
    <3>1. /\ len \in Nat /\ len >= 1 /\ n \in Nat /\ total \in Nat /\ n + len = total
          /\ Len(rest) = len - 1 /\ Len(more) = n + 1
      BY <2>4, <2>5, <2>7, <2>8 DEF len, total, rest
    <3>2. Len(more) + Len(rest) = total
      BY <3>1
    <3>3. ASSUME NEW i \in 1 .. len - 1 PROVE rest[i] = keys[n + 1 + i]
      <4>1. i + 1 \in 1 .. len /\ n + (i + 1) = n + 1 + i
        BY <3>1
      <4>2. loader.procs[i + 1] = keys[n + (i + 1)]
        BY <2>7, <4>1 DEF len
      <4> QED  BY <2>5, <4>1, <4>2 DEF len, rest
    <3> QED  BY <3>1, <3>2, <3>3
  <2> QED  BY <2>1, <2>6, <2>10, <2>11 DEF CopyOK
<1> QED  BY <1>1, <1>2 DEF EndValues

\* The list that was built replaces the old one.
LEMMA AssignCopy ==
    ASSUME Inv, CopyOK, Unnamed(history.changes), AssignRules
    PROVE  CopyOK'
<1> DEFINE t == Head(loader.types)
           vec == Replaced(vecs[t], loader.rules)
<1>1. /\ loader.pc = "proc" /\ loader \in Loader /\ loader.types # << >> /\ t \in RuleTypes
      /\ loader.rules \in Seq(Entry) /\ loader.types \in Seq(Types) /\ loader.procs = << >>
      /\ vecs \in [RuleTypes -> Vec] /\ loader.type = t /\ t \in Types /\ reg \in Registry
  BY DEF AssignRules, Inv, TypeOK, StageOK, NamedOK, Loader
<1>2. vecs' = [vecs EXCEPT ![t] = vec]
      /\ loader' = [loader EXCEPT !.types = Tail(@), !.pc = "type"] /\ reg' = reg
  BY DEF AssignRules
<1>3. vec.entries = loader.rules
  BY <1>1, ReplacedType
<1>4. \A x : x \in Range(loader.types) <=> x = t \/ x \in Range(Tail(loader.types))
  BY <1>1, HeadTailShape
<1> HIDE DEF t, vec
<1>5. Copied(reg, loader.rules, t)
  <2>1. Len(loader.rules) + 0 = Len(reg.procs[t]) /\ Len(loader.rules) \in Nat
    BY <1>1, LenProperties DEF CopyOK
  <2> QED  BY <1>1, <2>1 DEF CopyOK, Copied
<1>6. /\ vecs'[t] = vec /\ \A u \in RuleTypes : u # t => vecs'[u] = vecs[u]
      /\ loader'.pc = "type" /\ loader'.types = Tail(loader.types)
  BY <1>1, <1>2 DEF Loader
<1>7. ASSUME NEW u \in RuleTypes
      PROVE  u \in Range(Tail(loader.types)) \/ Copied(reg, vecs'[u].entries, u)
  <2>1. CASE u = t
    BY <1>3, <1>5, <1>6, <2>1
  <2>2. CASE u # t
    BY <1>1, <1>4, <1>6, <2>2 DEF CopyOK
  <2> QED  BY <2>1, <2>2
<1> QED  BY <1>2, <1>6, <1>7 DEF CopyOK

\* The load is done.
LEMMA DoneCopy == Inv /\ CopyOK /\ InitDone => CopyOK'
<1> SUFFICES ASSUME Inv, CopyOK, InitDone PROVE CopyOK'
  OBVIOUS
<1>1. loader \in Loader /\ loader.pc = "type" /\ Range(loader.types) = {}
  BY DEF Inv, TypeOK, InitDone, Range
<1>2. loader'.pc = "loaded" /\ reg' = reg /\ vecs' = vecs
  BY <1>1 DEF InitDone, Walk, Loader
<1> QED  BY <1>1, <1>2 DEF CopyOK

\* The steps of the loader.
LEMMA LoaderExact ==
    ASSUME Inv, ExactOK, LoaderStep \/ LoaderOutOfMemory \/ RegisterCallback
    PROVE  ExactOK'
<1>1. loader \in Loader /\ history' = history
  <2>1. loader \in Loader
    BY DEF Inv, TypeOK
  <2> QED
    BY <2>1 DEF LoaderStep, Walk, CreateRoot, CreateRuleType, OpenRoot, EndTypes,
       Enumerate, OpenType, EndProcs, OpenProc, EndValues, AssignRules,
       EnumerateDeleted, InitDone, LoaderOutOfMemory, RegisterCallback
<1>2. SUFFICES ASSUME Alone PROVE CopyOK'
  BY <1>1 DEF ExactOK, Alone
<1>3. CopyOK /\ Unnamed(history.changes)
  BY <1>2 DEF ExactOK, Alone, Unnamed
<1>4. CASE LoaderStep \/ LoaderOutOfMemory
  <2>1. EnumerateDeleted \/ LoaderOutOfMemory => CopyOK'
    BY FailedCopy DEF EnumerateDeleted, LoaderOutOfMemory
  <2> QED
    BY <1>3, <1>4, <2>1, CreateRootCopy, CreateRuleTypeCopy, OpenRootCopy, EnumerateCopy,
       EndTypesCopy, OpenTypeCopy, EndProcsCopy, OpenProcCopy, EndValuesCopy, AssignCopy,
       DoneCopy DEF LoaderStep
<1>5. CASE RegisterCallback
  <2>1. /\ loader.pc = "loaded" /\ loader'.pc = "registered"
        /\ loader'.outcome = loader.outcome /\ reg' = reg /\ vecs' = vecs
    BY <1>1, <1>5 DEF RegisterCallback, Walk, Loader
  <2> QED  BY <1>3, <2>1 DEF CopyOK
<1> QED  BY <1>4, <1>5

\* A change to a key or a value is noted, and stays so.
LEMMA ChangeNoted ==
    ASSUME Inv, NEW kinds, kinds # {}, Change(kinds)
    PROVE  ~Alone'
<1>1. history \in History /\ history' = Recorded(kinds)
  BY DEF Inv, TypeOK, Change
<1>2. CASE Loading
  <2>1. history'.changes = history.changes \union kinds
    BY <1>1, <1>2 DEF Recorded, History
  <2> QED  BY <2>1 DEF Alone
<1>3. CASE ~Loading
  <2>1. history'.late = TRUE
    BY <1>1, <1>3 DEF Recorded, History
  <2> QED  BY <2>1 DEF Alone
<1> QED  BY <1>2, <1>3

\* The drive is not looked at by a copy.
LEMMA AdministerExact ==
    ASSUME Inv, ExactOK, Administer
    PROVE  ExactOK'
<1>1. CASE RemapDrive
  BY <1>1 DEF RemapDrive, ExactOK, Alone, CopyOK
<1>2. CASE ~RemapDrive
  <2>1. \E kinds \in {{"added"}, {"removed"}, {"added", "removed", "renamed"}} : Change(kinds)
    BY <1>2 DEF Administer, DeleteRoot, CreateType, DeleteType, RenameType, CreateKey,
       DeleteKey, RenameKey, SetValue, DeleteValue
  <2>2. PICK kinds : kinds # {} /\ Change(kinds)
    BY <2>1
  <2> QED  BY <2>2, ChangeNoted DEF ExactOK
<1> QED  BY <1>1, <1>2

\* A list of the loader is a function on the first numbers.
LEMMA ListOfSeq ==
    ASSUME NEW S, NEW s \in Seq(S)
    PROVE  s = [i \in 1 .. Len(s) |-> s[i]] /\ DOMAIN s = 1 .. Len(s)
BY LenProperties

\* A load under which nobody changed a key or a value leaves the registry's lists,
\* entry by entry and path by path, whatever the drive does and memory.
THEOREM LoadsAreExact == Spec => []LoadIsExact
<1>1. Inv /\ OutcomeOK /\ ExactOK => LoadIsExact
  <2> SUFFICES ASSUME Inv, OutcomeOK, ExactOK, loader.outcome = "complete", Alone,
                      NEW t \in RuleTypes
               PROVE  vecs[t].entries = ListFor(t)
    BY DEF LoadIsExact, InStep, Alone
  <2> DEFINE list == vecs[t].entries
             keys == reg.procs[t]
  <2>1. list \in Seq(Entry) /\ keys \in Seq(Names)
    <3>1. t \in Types /\ reg \in Registry /\ vecs[t] \in Vec
      BY RuleTypesAreTypes DEF Inv, TypeOK
    <3> QED  BY <3>1 DEF Vec, Registry
  <2>2. Copied(reg, list, t)
    BY DEF ExactOK, OutcomeOK, CopyOK
  <2>3. Len(list) = Len(keys)
    BY <2>2 DEF Copied
  <2>4. ASSUME NEW i \in 1 .. Len(keys)
        PROVE  list[i] = [process |-> keys[i], paths |-> PathsFor(t, keys[i])]
    <3>1. list[i] \in Entry
      BY <2>1, <2>3, ElementsOfSeq
    <3>2. list[i].process = keys[i] /\ list[i].paths = PathsFor(t, keys[i])
      BY <2>2, <2>3 DEF Copied, Begun, Wanted, PathsFor
    <3> QED  BY <3>1, <3>2 DEF Entry
  <2>5. ListFor(t) = [i \in 1 .. Len(keys) |->
                        [process |-> keys[i], paths |-> PathsFor(t, keys[i])]]
    BY <2>1, ListOfSeq DEF ListFor
  <2>6. list = [i \in 1 .. Len(keys) |-> list[i]]
    BY <2>1, <2>3, ListOfSeq
  <2> HIDE DEF list, keys
  <2>7. list = ListFor(t)
    BY <2>4, <2>5, <2>6
  <2> QED  BY <2>7 DEF list
<1>2. Init => ExactOK
  BY DEF Init, ExactOK, CopyOK
<1>3. Inv /\ ExactOK /\ [Next]_vars => ExactOK'
  <2> SUFFICES ASSUME Inv, ExactOK, [Next]_vars PROVE ExactOK'
    OBVIOUS
  <2>1. CASE UNCHANGED vars
    BY <2>1 DEF vars, ExactOK, Alone, CopyOK
  <2> QED  BY <2>1, LoaderExact, AdministerExact DEF Next
<1> QED  BY <1>1, <1>2, <1>3, Invariance, OutcomeInvariance, PTL DEF Spec
====
