---- MODULE RuleStoreProofs ----
(***************************************************************************)
(* What the updates of a rule list make of any list, for any sets of names *)
(* and paths.                                                              *)
(***************************************************************************)
EXTENDS RuleStore, SequenceTheorems, FiniteSetTheorems, TLAPS

\* Lists with entries of these names and paths.
Entries(names, paths) == [process : names, paths : Seq(paths)]

Vectors(names, paths) ==
    [entries : Seq(Entries(names, paths)), capacity : Nat, buffer : Nat]

\* The order of the natural numbers.
NatOrder == {ss \in Nat \X Nat : ss[1] < ss[2]}

\* A non-empty set of natural numbers has its Min, which is the least of them.
LEMMA MinOfNats ==
    ASSUME NEW S \in SUBSET Nat, S # {}
    PROVE  Min(S) \in S /\ \A n \in S : Min(S) <= n
<1>1. IsWellFoundedOn(NatOrder, Nat)
  BY NatLessThanWellFounded DEF OpToRel, NatOrder
<1>2. PICK m \in S : \A n \in S : <<n, m>> \notin NatOrder
  BY <1>1, WFMin
<1>3. ASSUME NEW n \in S PROVE m <= n
  <2>1. n < m => <<n, m>> \in NatOrder
    BY DEF NatOrder
  <2> QED  BY <1>2, <2>1
<1> QED  BY <1>3 DEF Min

\* The first position of a set of them, or 0.
LEMMA FirstBounds ==
    ASSUME NEW n \in Nat, NEW H \in SUBSET (1 .. n)
    PROVE  (IF H # {} THEN Min(H) ELSE 0) \in 0 .. n
<1>1. CASE H = {}
  BY <1>1
<1>2. CASE H # {}
  <2>1. H \in SUBSET Nat
    OBVIOUS
  <2>2. Min(H) \in H
    BY <1>2, <2>1, MinOfNats
  <2>3. \A m \in H : m \in 0 .. n
    OBVIOUS
  <2>4. Min(H) \in 0 .. n
    BY <2>2, <2>3, Zenon
  <2> QED  BY <1>2, <2>4, Zenon
<1> QED  BY <1>1, <1>2

----------------------------------------------------------------------------
(* Sequences: what is where after an element was inserted or removed.      *)

\* An element comes in at position i.
LEMMA InsertAtShape ==
    ASSUME NEW S, NEW s \in Seq(S), NEW i \in 1 .. Len(s) + 1, NEW e \in S
    PROVE  /\ InsertAt(s, i, e) \in Seq(S)
           /\ Len(InsertAt(s, i, e)) = Len(s) + 1
           /\ \A j \in 1 .. Len(s) + 1 :
                InsertAt(s, i, e)[j] = IF j < i THEN s[j] ELSE IF j = i THEN e ELSE s[j - 1]
<1> DEFINE before == SubSeq(s, 1, i - 1)
           one == <<e>>
           after == SubSeq(s, i, Len(s))
<1>1. Len(s) \in Nat /\ \A j \in 1 .. Len(s) : s[j] \in S
  BY LenProperties, ElementOfSeq
<1>2. /\ before \in Seq(S) /\ Len(before) = i - 1
      /\ \A j \in 1 .. i - 1 : before[j] = s[j]
  BY <1>1, SubSeqProperties
<1>3. /\ after \in Seq(S) /\ Len(after) = Len(s) - i + 1
      /\ \A j \in 1 .. Len(s) - i + 1 : after[j] = s[i + j - 1]
  BY <1>1, SubSeqProperties
<1>4. one \in Seq(S) /\ Len(one) = 1 /\ one[1] = e
  OBVIOUS
<1> HIDE DEF before, one, after
<1>5. /\ before \o one \in Seq(S) /\ Len(before \o one) = i
      /\ \A j \in 1 .. i : (before \o one)[j] = IF j < i THEN s[j] ELSE e
  <2>1. /\ before \o one \in Seq(S) /\ Len(before \o one) = Len(before) + Len(one)
        /\ \A j \in 1 .. Len(before) + Len(one) :
             (before \o one)[j] = IF j <= Len(before) THEN before[j]
                                                     ELSE one[j - Len(before)]
    BY <1>2, <1>4, ConcatProperties, Zenon
  <2>2. Len(before) + Len(one) = i
    BY <1>1, <1>2, <1>4
  <2>3. ASSUME NEW j \in 1 .. i, j < i PROVE (before \o one)[j] = s[j]
    BY <1>1, <1>2, <2>1, <2>2, <2>3
  <2>4. (before \o one)[i] = e
    BY <1>1, <1>2, <1>4, <2>1, <2>2
  <2> QED  BY <2>1, <2>2, <2>3, <2>4
<1>6. /\ (before \o one) \o after \in Seq(S)
      /\ Len((before \o one) \o after) = Len(s) + 1
      /\ \A j \in 1 .. Len(s) + 1 : ((before \o one) \o after)[j] =
            IF j <= i THEN (before \o one)[j] ELSE after[j - i]
  <2> DEFINE front == before \o one
  <2>1. front \in Seq(S) /\ Len(front) = i
    BY <1>5
  <2> HIDE DEF front
  <2>2. /\ front \o after \in Seq(S) /\ Len(front \o after) = Len(front) + Len(after)
        /\ \A j \in 1 .. Len(front) + Len(after) :
             (front \o after)[j] = IF j <= Len(front) THEN front[j]
                                                     ELSE after[j - Len(front)]
    BY <1>3, <2>1, ConcatProperties, Zenon
  <2>3. Len(front) + Len(after) = Len(s) + 1
    BY <1>1, <1>3, <2>1
  <2> QED  BY <2>1, <2>2, <2>3 DEF front
<1>7. ASSUME NEW j \in 1 .. Len(s) + 1, j > i PROVE after[j - i] = s[j - 1]
  BY <1>1, <1>3, <1>7
<1>8. InsertAt(s, i, e) = (before \o one) \o after
  BY DEF InsertAt, before, one, after
<1> HIDE DEF before, one, after
<1>9. ASSUME NEW j \in 1 .. Len(s) + 1
      PROVE  InsertAt(s, i, e)[j] = IF j < i THEN s[j] ELSE IF j = i THEN e ELSE s[j - 1]
  BY <1>1, <1>5, <1>6, <1>7, <1>8, <1>9
<1> QED  BY <1>6, <1>8, <1>9

\* The element at position k goes.
LEMMA RemoveAtShape ==
    ASSUME NEW S, NEW s \in Seq(S), NEW k \in 1 .. Len(s)
    PROVE  /\ Len(RemoveAt(s, k)) = Len(s) - 1
           /\ \A j \in 1 .. Len(s) - 1 :
                RemoveAt(s, k)[j] = IF j < k THEN s[j] ELSE s[j + 1]
<1> DEFINE before == SubSeq(s, 1, k - 1)
           after == SubSeq(s, k + 1, Len(s))
<1>1. Len(s) \in Nat /\ \A j \in 1 .. Len(s) : s[j] \in S
  BY LenProperties, ElementOfSeq
<1>2. /\ before \in Seq(S) /\ Len(before) = k - 1
      /\ \A j \in 1 .. k - 1 : before[j] = s[j]
  BY <1>1, SubSeqProperties
<1>3. /\ after \in Seq(S) /\ Len(after) = Len(s) - k
      /\ \A j \in 1 .. Len(s) - k : after[j] = s[k + j]
  BY <1>1, SubSeqProperties
<1>4. RemoveAt(s, k) = before \o after
  BY DEF RemoveAt
<1> HIDE DEF before, after
<1>5. /\ Len(before \o after) = Len(s) - 1
      /\ \A j \in 1 .. Len(s) - 1 : (before \o after)[j] =
            IF j <= k - 1 THEN before[j] ELSE after[j - (k - 1)]
  BY <1>1, <1>2, <1>3, ConcatProperties
<1>6. ASSUME NEW j \in 1 .. Len(s) - 1
      PROVE  (before \o after)[j] = IF j < k THEN s[j] ELSE s[j + 1]
  BY <1>1, <1>2, <1>3, <1>5
<1> QED  BY <1>4, <1>5, <1>6

\* The first occurrence that goes is one.
LEMMA RemoveFirstIsRemoveAt ==
    ASSUME NEW S, NEW s \in Seq(S), NEW e \in Range(s)
    PROVE  \E k \in 1 .. Len(s) : s[k] = e /\ RemoveFirst(s, e) = RemoveAt(s, k)
<1> DEFINE Hits == {i \in 1 .. Len(s) : s[i] = e}
<1>1. Len(s) \in Nat /\ DOMAIN s = 1 .. Len(s)
  BY LenProperties
<1>2. Hits # {} /\ Hits \in SUBSET Nat
  BY <1>1 DEF Range
<1>3. RemoveFirst(s, e) =
        IF Hits # {} THEN RemoveAt(s, IF Hits # {} THEN Min(Hits) ELSE 0) ELSE s
  BY Zenon DEF RemoveFirst, SelectInSeq
<1>4. Min(Hits) \in Hits
  <2> HIDE DEF Hits
  <2> QED  BY <1>2, MinOfNats, Zenon
<1> QED  BY <1>2, <1>3, <1>4

\* Removing an element of a sequence.
LEMMA RemoveAtType ==
    ASSUME NEW S, NEW s \in Seq(S), NEW i \in 1 .. Len(s)
    PROVE  RemoveAt(s, i) \in Seq(S)
<1>1. Len(s) \in Nat /\ \A j \in 1 .. Len(s) : s[j] \in S
  BY LenProperties, ElementOfSeq
<1>2. SubSeq(s, 1, i - 1) \in Seq(S)
  BY <1>1, SubSeqProperties
<1>3. SubSeq(s, i + 1, Len(s)) \in Seq(S)
  BY <1>1, SubSeqProperties
<1> QED  BY <1>2, <1>3, ConcatProperties DEF RemoveAt

\* Removing the first occurrence of a value, if there is one.
LEMMA RemoveFirstType ==
    ASSUME NEW S, NEW s \in Seq(S), NEW e
    PROVE  RemoveFirst(s, e) \in Seq(S)
<1> DEFINE Hits == {i \in 1 .. Len(s) : s[i] = e}
<1>1. RemoveFirst(s, e) =
        IF Hits # {} THEN RemoveAt(s, IF Hits # {} THEN Min(Hits) ELSE 0) ELSE s
  BY Zenon DEF RemoveFirst, SelectInSeq
<1>2. CASE Hits = {}
  BY <1>1, <1>2
<1>3. CASE Hits # {}
  <2>1. Len(s) \in Nat
    BY LenProperties
  <2>2. Hits \in SUBSET Nat /\ Hits \subseteq 1 .. Len(s)
    BY <2>1
  <2> HIDE DEF Hits
  <2>3. Min(Hits) \in 1 .. Len(s)
    BY <1>3, <2>2, MinOfNats, Zenon
  <2>4. RemoveAt(s, Min(Hits)) \in Seq(S)
    BY <2>3, RemoveAtType, Zenon
  <2> QED  BY <1>1, <1>3, <2>4, Zenon
<1> QED  BY <1>2, <1>3

----------------------------------------------------------------------------
(* The updates keep a vector a vector.                                     *)

\* A push, with or without a larger buffer.
LEMMA PushType ==
    ASSUME NEW names, NEW paths,
           NEW vec \in Vectors(names, paths), NEW entry \in Entries(names, paths)
    PROVE  Push(vec, entry) \in Vectors(names, paths)
<1>1. Append(vec.entries, entry) \in Seq(Entries(names, paths))
  BY DEF Vectors
<1>2. CASE Len(vec.entries) < vec.capacity
  BY <1>1, <1>2 DEF Push, Vectors
<1>3. CASE ~(Len(vec.entries) < vec.capacity)
  <2>1. (IF vec.capacity = 0 THEN MinCapacity ELSE 2 * vec.capacity) \in Nat
    BY MinCapacityAssumption DEF Vectors
  <2>2. vec.buffer + 1 \in Nat
    BY DEF Vectors
  <2> QED  BY <1>1, <1>3, <2>1, <2>2 DEF Push, Vectors
<1> QED  BY <1>2, <1>3

\* add_file_to_process_rules_impl.
LEMMA AddFileType ==
    ASSUME NEW names, NEW paths,
           NEW vec \in Vectors(names, paths), NEW pos \in 0 .. Len(vec.entries),
           NEW name \in names, NEW path \in paths
    PROVE  AddFile(vec, pos, name, path) \in Vectors(names, paths)
<1>1. CASE pos = 0
  <2>1. NewEntry(name, path) \in Entries(names, paths)
    BY DEF NewEntry, Entries
  <2> QED  BY <1>1, <2>1, PushType DEF AddFile
<1>2. CASE pos # 0
  <2>1. pos \in 1 .. Len(vec.entries)
    BY <1>2 DEF Vectors
  <2>2. vec.entries[pos] \in Entries(names, paths)
    BY <2>1 DEF Vectors
  <2>3. Append(vec.entries[pos].paths, path) \in Seq(paths)
    BY <2>2 DEF Entries
  <2>4. [vec.entries[pos] EXCEPT !.paths = Append(@, path)] \in Entries(names, paths)
    BY <2>2, <2>3 DEF Entries
  <2>5. [vec.entries EXCEPT ![pos].paths = Append(@, path)] \in Seq(Entries(names, paths))
    BY <2>1, <2>4 DEF Vectors
  <2> QED  BY <1>2, <2>5 DEF AddFile, Vectors
<1> QED  BY <1>1, <1>2

\* remove_file_from_process_rules_impl.
LEMMA RemoveFileType ==
    ASSUME NEW names, NEW paths,
           NEW vec \in Vectors(names, paths), NEW pos \in 0 .. Len(vec.entries), NEW path
    PROVE  RemoveFile(vec, pos, path) \in Vectors(names, paths)
<1>1. CASE pos = 0
  BY <1>1 DEF RemoveFile
<1>2. CASE pos # 0
  <2>1. pos \in 1 .. Len(vec.entries)
    BY <1>2 DEF Vectors
  <2>2. vec.entries[pos] \in Entries(names, paths)
    BY <2>1 DEF Vectors
  <2>3. RemoveFirst(vec.entries[pos].paths, path) \in Seq(paths)
    BY <2>2, RemoveFirstType DEF Entries
  <2>4. [vec.entries[pos] EXCEPT !.paths = RemoveFirst(@, path)] \in Entries(names, paths)
    BY <2>2, <2>3 DEF Entries
  <2>5. [vec.entries EXCEPT ![pos].paths = RemoveFirst(@, path)] \in Seq(Entries(names, paths))
    BY <2>1, <2>4 DEF Vectors
  <2> QED  BY <1>2, <2>5 DEF RemoveFile, Vectors
<1> QED  BY <1>1, <1>2

\* rename_process_rules_impl.
LEMMA RenameRulesType ==
    ASSUME NEW names, NEW paths,
           NEW vec \in Vectors(names, paths), NEW pos \in 0 .. Len(vec.entries), NEW new \in names
    PROVE  RenameRules(vec, pos, new) \in Vectors(names, paths)
<1>1. CASE pos = 0
  BY <1>1 DEF RenameRules
<1>2. CASE pos # 0
  <2>1. pos \in 1 .. Len(vec.entries)
    BY <1>2 DEF Vectors
  <2>2. vec.entries[pos] \in Entries(names, paths)
    BY <2>1 DEF Vectors
  <2>3. [vec.entries[pos] EXCEPT !.process = new] \in Entries(names, paths)
    BY <2>2 DEF Entries
  <2>4. [vec.entries EXCEPT ![pos].process = new] \in Seq(Entries(names, paths))
    BY <2>1, <2>3 DEF Vectors
  <2> QED  BY <1>2, <2>4 DEF RenameRules, Vectors
<1> QED  BY <1>1, <1>2

\* clear_rules_for_process_impl.
LEMMA ClearRulesType ==
    ASSUME NEW names, NEW paths,
           NEW vec \in Vectors(names, paths), NEW pos \in 0 .. Len(vec.entries)
    PROVE  ClearRules(vec, pos) \in Vectors(names, paths)
<1>1. CASE pos = 0
  BY <1>1 DEF ClearRules
<1>2. CASE pos # 0
  <2>1. pos \in 1 .. Len(vec.entries)
    BY <1>2 DEF Vectors
  <2>2. RemoveAt(vec.entries, pos) \in Seq(Entries(names, paths))
    BY <2>1, RemoveAtType DEF Vectors
  <2> QED  BY <1>2, <2>2 DEF ClearRules, Vectors
<1> QED  BY <1>1, <1>2

----------------------------------------------------------------------------
(* Paths as a bag: how often a path stands in a sequence.                  *)

Places(seq, p) == {i \in DOMAIN seq : seq[i] = p}
Count(seq, p) == Cardinality(Places(seq, p))

\* The places are finitely many, and there are some where the path occurs.
LEMMA CountOfSeq ==
    ASSUME NEW S, NEW seq \in Seq(S), NEW p
    PROVE  /\ IsFiniteSet(Places(seq, p)) /\ Count(seq, p) \in Nat
           /\ Count(seq, p) # 0 <=> p \in Range(seq)
<1>1. Len(seq) \in Nat /\ DOMAIN seq = 1 .. Len(seq)
  OBVIOUS
<1>2. IsFiniteSet(1 .. Len(seq))
  BY <1>1, FS_Interval
<1>3. IsFiniteSet(Places(seq, p))
  BY <1>1, <1>2, FS_Subset DEF Places
<1>4. Places(seq, p) = {} <=> p \notin Range(seq)
  BY DEF Places, Range
<1> HIDE DEF Places
<1> QED  BY <1>3, <1>4, FS_CardinalityType, FS_EmptySet DEF Count

\* Nothing stands in the empty sequence.
LEMMA CountOfNone == ASSUME NEW p PROVE Count(<< >>, p) = 0
<1>1. Places(<< >>, p) = {}
  BY DEF Places
<1> QED  BY <1>1, FS_EmptySet DEF Count

\* One more at the end.
LEMMA CountOfAppend ==
    ASSUME NEW S, NEW seq \in Seq(S), NEW e \in S, NEW p
    PROVE  Count(Append(seq, e), p) = IF e = p THEN Count(seq, p) + 1 ELSE Count(seq, p)
<1> DEFINE n == Len(seq) + 1
<1>1. /\ Len(seq) \in Nat /\ DOMAIN seq = 1 .. Len(seq)
      /\ DOMAIN Append(seq, e) = 1 .. n /\ Append(seq, e)[n] = e
      /\ \A i \in 1 .. Len(seq) : Append(seq, e)[i] = seq[i]
  OBVIOUS
<1>2. Places(Append(seq, e), p) = IF e = p THEN Places(seq, p) \union {n} ELSE Places(seq, p)
  BY <1>1 DEF Places
<1>3. n \notin Places(seq, p)
  BY <1>1 DEF Places
<1>4. IsFiniteSet(Places(seq, p))
  BY CountOfSeq
<1> HIDE DEF Places, n
<1> QED  BY <1>2, <1>3, <1>4, FS_AddElement DEF Count

\* One less, the rest moved to the front.
LEMMA CountOfRemoveAt ==
    ASSUME NEW S, NEW seq \in Seq(S), NEW k \in 1 .. Len(seq), NEW p
    PROVE  Count(RemoveAt(seq, k), p) =
             IF seq[k] = p THEN Count(seq, p) - 1 ELSE Count(seq, p)
<1> DEFINE new == RemoveAt(seq, k)
           old == Places(seq, p) \ {k}
           back == [j \in Places(new, p) |-> IF j < k THEN j ELSE j + 1]
<1>1. Len(seq) \in Nat /\ DOMAIN seq = 1 .. Len(seq)
  OBVIOUS
<1>2. /\ new \in Seq(S) /\ Len(new) = Len(seq) - 1
      /\ \A j \in 1 .. Len(seq) - 1 : new[j] = IF j < k THEN seq[j] ELSE seq[j + 1]
  BY RemoveAtType, RemoveAtShape
<1>3. DOMAIN new = 1 .. Len(seq) - 1
  BY <1>2
<1> HIDE DEF new
<1>4. \A j \in Places(new, p) : j \in 1 .. Len(seq) - 1 /\ new[j] = p
  BY <1>3 DEF Places
<1>5. \A i \in old : i \in 1 .. Len(seq) /\ i # k /\ seq[i] = p
  BY <1>1 DEF Places
<1>6. back \in [Places(new, p) -> old]
  <2> SUFFICES ASSUME NEW j \in Places(new, p)
               PROVE  (IF j < k THEN j ELSE j + 1) \in old
    OBVIOUS
  <2>1. CASE j < k
    BY <1>1, <1>2, <1>4, <2>1 DEF Places
  <2>2. CASE ~(j < k)
    BY <1>1, <1>2, <1>4, <2>2 DEF Places
  <2> QED  BY <2>1, <2>2
<1>7. \A i, j \in Places(new, p) : back[i] = back[j] => i = j
  BY <1>1, <1>4
<1>8. \A i \in old : \E j \in Places(new, p) : back[j] = i
  <2> SUFFICES ASSUME NEW i \in old PROVE \E j \in Places(new, p) : back[j] = i
    OBVIOUS
  <2>1. CASE i < k
    <3>1. i \in 1 .. Len(seq) - 1 /\ new[i] = p
      BY <1>1, <1>2, <1>5, <2>1
    <3>2. i \in Places(new, p)
      BY <1>3, <3>1 DEF Places
    <3> QED  BY <2>1, <3>2
  <2>2. CASE ~(i < k)
    <3>1. i - 1 \in 1 .. Len(seq) - 1 /\ ~(i - 1 < k) /\ (i - 1) + 1 = i
      BY <1>1, <1>5, <2>2
    <3>2. new[i - 1] = p
      BY <1>2, <1>5, <3>1
    <3>3. i - 1 \in Places(new, p)
      BY <1>3, <3>1, <3>2 DEF Places
    <3>4. back[i - 1] = i
      BY <3>1, <3>3
    <3> QED  BY <3>3, <3>4
  <2> QED  BY <2>1, <2>2
<1>9. back \in Bijection(Places(new, p), old)
  BY <1>6, <1>7, <1>8 DEF Bijection, Injection, Surjection, IsInjective
<1>10. IsFiniteSet(Places(new, p)) /\ IsFiniteSet(Places(seq, p))
  BY <1>2, CountOfSeq
<1>11. Cardinality(old) = Cardinality(Places(new, p))
  <2> HIDE DEF old, back
  <2>1. ExistsBijection(Places(new, p), old)
    BY <1>9 DEF ExistsBijection
  <2> QED  BY <1>10, <2>1, FS_Bijection
<1>12. k \in Places(seq, p) <=> seq[k] = p
  BY <1>1 DEF Places
<1>13. Cardinality(old) =
         IF k \in Places(seq, p) THEN Cardinality(Places(seq, p)) - 1
                                 ELSE Cardinality(Places(seq, p))
  BY <1>10, FS_RemoveElement
<1> QED  BY <1>11, <1>12, <1>13 DEF Count, new

\* One less of the path that is removed, if there was one.
LEMMA CountOfRemoveFirst ==
    ASSUME NEW S, NEW seq \in Seq(S), NEW e, NEW p
    PROVE  Count(RemoveFirst(seq, e), p) =
             IF e = p /\ Count(seq, p) # 0 THEN Count(seq, p) - 1 ELSE Count(seq, p)
<1>1. CASE e \in Range(seq)
  <2>1. PICK k \in 1 .. Len(seq) : seq[k] = e /\ RemoveFirst(seq, e) = RemoveAt(seq, k)
    BY <1>1, RemoveFirstIsRemoveAt
  <2>2. e = p => Count(seq, p) # 0
    BY <1>1, CountOfSeq
  <2> QED  BY <2>1, <2>2, CountOfRemoveAt
<1>2. CASE e \notin Range(seq)
  <2>1. ~ \E i \in 1 .. Len(seq) : seq[i] = e
    BY <1>2 DEF Range
  <2>2. RemoveFirst(seq, e) = seq
    BY <2>1 DEF RemoveFirst
  <2>3. e = p => Count(seq, p) = 0
    BY <1>2, CountOfSeq
  <2> QED  BY <2>2, <2>3
<1> QED  BY <1>1, <1>2

----------------------------------------------------------------------------
(* Lists by name.                                                          *)

\* No two entries are of the same process.
Single(entries) ==
    \A i, j \in DOMAIN entries : entries[i].process = entries[j].process => i = j

Has(entries, name) == \E i \in DOMAIN entries : entries[i].process = name

PathsOf(entries, name) ==
    IF Has(entries, name)
    THEN entries[CHOOSE i \in DOMAIN entries : entries[i].process = name].paths
    ELSE << >>

\* The paths of a process are those of its one entry.
LEMMA PathsOfEntry ==
    ASSUME NEW entries, Single(entries), NEW i \in DOMAIN entries
    PROVE  /\ Has(entries, entries[i].process)
           /\ PathsOf(entries, entries[i].process) = entries[i].paths
BY DEF Single, Has, PathsOf

\* A list tells from another one by its entries alone what a process has.
LEMMA PathsOfLike ==
    ASSUME NEW entries, Single(entries), NEW others, Single(others), NEW name,
           \A i \in DOMAIN entries : entries[i].process = name =>
               \E j \in DOMAIN others :
                   others[j].process = name /\ others[j].paths = entries[i].paths,
           \A j \in DOMAIN others : others[j].process = name =>
               \E i \in DOMAIN entries : entries[i].process = name
    PROVE  /\ Has(others, name) <=> Has(entries, name)
           /\ PathsOf(others, name) = PathsOf(entries, name)
<1>1. Has(others, name) <=> Has(entries, name)
  BY DEF Has
<1>2. CASE Has(entries, name)
  <2>1. PICK i \in DOMAIN entries : entries[i].process = name
    BY <1>2 DEF Has
  <2>2. PICK j \in DOMAIN others :
          others[j].process = name /\ others[j].paths = entries[i].paths
    BY <2>1
  <2> QED  BY <1>1, <2>1, <2>2, PathsOfEntry
<1>3. CASE ~Has(entries, name)
  BY <1>1, <1>3 DEF PathsOf
<1> QED  BY <1>1, <1>2, <1>3

\* The paths of a process are a sequence of them.
LEMMA PathsOfType ==
    ASSUME NEW names, NEW paths, NEW entries \in Seq(Entries(names, paths)), NEW name
    PROVE  PathsOf(entries, name) \in Seq(paths)
<1>1. \A i \in DOMAIN entries : entries[i].paths \in Seq(paths)
  <2>1. \A i \in DOMAIN entries : entries[i] \in Entries(names, paths)
    OBVIOUS
  <2> QED  BY <2>1 DEF Entries
<1>2. CASE Has(entries, name)
  <2>1. (CHOOSE i \in DOMAIN entries : entries[i].process = name) \in DOMAIN entries
    BY <1>2 DEF Has
  <2> QED  BY <1>1, <1>2, <2>1 DEF PathsOf
<1>3. CASE ~Has(entries, name)
  BY <1>3 DEF PathsOf
<1> QED  BY <1>2, <1>3

\* An entry for a process that has none comes to the end.
LEMMA EntryAppended ==
    ASSUME NEW names, NEW paths, NEW entries \in Seq(Entries(names, paths)),
           Single(entries), NEW e \in Entries(names, paths), ~Has(entries, e.process)
    PROVE  /\ Single(Append(entries, e))
           /\ Has(Append(entries, e), e.process)
           /\ PathsOf(Append(entries, e), e.process) = e.paths
           /\ \A name : name # e.process =>
                /\ Has(Append(entries, e), name) <=> Has(entries, name)
                /\ PathsOf(Append(entries, e), name) = PathsOf(entries, name)
<1> DEFINE new == Append(entries, e)
           n == Len(entries)
<1>1. /\ n \in Nat /\ DOMAIN entries = 1 .. n /\ DOMAIN new = 1 .. n + 1
      /\ new[n + 1] = e /\ \A i \in 1 .. n : new[i] = entries[i]
  OBVIOUS
<1> HIDE DEF new, n
<1>2. \A i \in DOMAIN new : i = n + 1 \/ i \in 1 .. n
  BY <1>1
<1>3. Single(new)
  BY <1>1, <1>2 DEF Single, Has
<1>4. n + 1 \in DOMAIN new
  BY <1>1
<1>5. Has(new, e.process) /\ PathsOf(new, e.process) = e.paths
  BY <1>1, <1>3, <1>4, PathsOfEntry
<1>6. ASSUME NEW name, name # e.process
      PROVE  /\ Has(new, name) <=> Has(entries, name)
             /\ PathsOf(new, name) = PathsOf(entries, name)
  <2>1. \A i \in DOMAIN entries : i \in DOMAIN new /\ new[i] = entries[i]
    BY <1>1
  <2>2. \A j \in DOMAIN new : new[j].process = name => j \in DOMAIN entries /\ new[j] = entries[j]
    BY <1>1, <1>2, <1>6
  <2> QED  BY <1>3, <2>1, <2>2, PathsOfLike
<1> QED  BY <1>3, <1>5, <1>6 DEF new

\* The paths of one entry change.
LEMMA EntryChanged ==
    ASSUME NEW names, NEW paths, NEW entries \in Seq(Entries(names, paths)),
           Single(entries), NEW i \in DOMAIN entries, NEW list \in Seq(paths),
           NEW process, process = entries[i].process,
           NEW new, DOMAIN new = DOMAIN entries,
           new[i].process = process, new[i].paths = list,
           \A j \in DOMAIN entries : j # i => new[j] = entries[j]
    PROVE  /\ Single(new) /\ Has(new, process) /\ PathsOf(new, process) = list
           /\ \A name : name # process =>
                /\ Has(new, name) <=> Has(entries, name)
                /\ PathsOf(new, name) = PathsOf(entries, name)
<1>1. Single(new)
  BY DEF Single
<1>2. Has(new, process) /\ PathsOf(new, process) = list
  BY <1>1, PathsOfEntry
<1>3. ASSUME NEW name, name # process
      PROVE  /\ Has(new, name) <=> Has(entries, name)
             /\ PathsOf(new, name) = PathsOf(entries, name)
  BY <1>1, <1>3, PathsOfLike
<1> QED  BY <1>1, <1>2, <1>3

\* One entry gets the name of a process that had none.
LEMMA EntryRenamed ==
    ASSUME NEW names, NEW paths, NEW entries \in Seq(Entries(names, paths)),
           Single(entries), NEW i \in DOMAIN entries, NEW process \in names,
           ~Has(entries, process), NEW old, old = entries[i].process,
           NEW new, DOMAIN new = DOMAIN entries,
           new[i].process = process, new[i].paths = entries[i].paths,
           \A j \in DOMAIN entries : j # i => new[j] = entries[j]
    PROVE  /\ Single(new) /\ ~Has(new, old) /\ Has(new, process)
           /\ PathsOf(new, process) = PathsOf(entries, old)
           /\ \A name : name \notin {old, process} =>
                /\ Has(new, name) <=> Has(entries, name)
                /\ PathsOf(new, name) = PathsOf(entries, name)
<1>1. old # process /\ \A j \in DOMAIN entries : entries[j].process # process
  BY DEF Has
<1>2. Single(new)
  BY <1>1 DEF Single
<1>3. \A j \in DOMAIN entries : j # i => entries[j].process # old
  BY DEF Single
<1>4. ~Has(new, old)
  BY <1>1, <1>3 DEF Has
<1>5. Has(new, process) /\ PathsOf(new, process) = PathsOf(entries, old)
  BY <1>2, PathsOfEntry
<1>6. ASSUME NEW name, name \notin {old, process}
      PROVE  /\ Has(new, name) <=> Has(entries, name)
             /\ PathsOf(new, name) = PathsOf(entries, name)
  BY <1>2, <1>6, PathsOfLike
<1> QED  BY <1>2, <1>4, <1>5, <1>6

\* One entry goes, and the ones behind it move up.
LEMMA EntryRemoved ==
    ASSUME NEW names, NEW paths, NEW entries \in Seq(Entries(names, paths)),
           Single(entries), NEW k \in DOMAIN entries,
           NEW process, process = entries[k].process, NEW new, new = RemoveAt(entries, k)
    PROVE  /\ Single(new) /\ ~Has(new, process)
           /\ \A name : name # process =>
                /\ Has(new, name) <=> Has(entries, name)
                /\ PathsOf(new, name) = PathsOf(entries, name)
<1> DEFINE n == Len(entries)
           From(j) == IF j < k THEN j ELSE j + 1
           To(i) == IF i < k THEN i ELSE i - 1
<1>1. n \in Nat /\ DOMAIN entries = 1 .. n /\ k \in 1 .. n
  OBVIOUS
<1>2. /\ DOMAIN new = 1 .. n - 1
      /\ \A j \in 1 .. n - 1 : new[j] = IF j < k THEN entries[j] ELSE entries[j + 1]
  <2>1. new \in Seq(Entries(names, paths)) /\ Len(new) = n - 1
        /\ \A j \in 1 .. n - 1 : new[j] = IF j < k THEN entries[j] ELSE entries[j + 1]
    BY <1>1, RemoveAtType, RemoveAtShape
  <2> QED  BY <2>1
<1> HIDE DEF n
<1>3. \A j \in DOMAIN new : /\ From(j) \in DOMAIN entries /\ From(j) # k
                            /\ new[j] = entries[From(j)]
  BY <1>1, <1>2
<1>4. \A i \in DOMAIN entries : i # k => To(i) \in DOMAIN new /\ new[To(i)] = entries[i]
  <2> SUFFICES ASSUME NEW i \in 1 .. n, i # k
               PROVE  To(i) \in 1 .. n - 1 /\ new[To(i)] = entries[i]
    BY <1>1, <1>2
  <2>1. CASE i < k
    BY <1>1, <1>2, <2>1
  <2>2. CASE ~(i < k)
    <3>1. i - 1 \in 1 .. n - 1 /\ ~(i - 1 < k) /\ (i - 1) + 1 = i
      BY <1>1, <2>2
    <3> QED  BY <1>2, <2>2, <3>1
  <2> QED  BY <2>1, <2>2
<1>5. \A i, j \in DOMAIN new : From(i) = From(j) => i = j
  BY <1>1, <1>2
<1> HIDE DEF From, To
<1>6. Single(new)
  BY <1>3, <1>5 DEF Single
<1>7. ~Has(new, process)
  BY <1>3 DEF Has, Single
<1>8. ASSUME NEW name, name # process
      PROVE  /\ Has(new, name) <=> Has(entries, name)
             /\ PathsOf(new, name) = PathsOf(entries, name)
  <2>1. \A i \in DOMAIN entries : entries[i].process = name =>
          To(i) \in DOMAIN new /\ new[To(i)] = entries[i]
    BY <1>4, <1>8
  <2> QED  BY <1>3, <1>6, <2>1, PathsOfLike
<1> QED  BY <1>6, <1>7, <1>8
====
