---- MODULE RulePathsProofs ----
(***************************************************************************)
(* The texts mean what they say, for any keys, values, images and files,   *)
(* however many names they have and however long these are.                *)
(*                                                                         *)
(* A path is a text and a sequence of names, and the proofs go from one to *)
(* the other.  Laid says where the names are in the text.  Names hold no   *)
(* separator, so where a path occurs in another the separators meet        *)
(* (SeparatorsMeet), and an occurrence that ends with a name is whole      *)
(* names (OccurrenceIsWhole); that is why no rule covers a neighbour.  The *)
(* expressions of a rule without wildcards have stars at their ends only,  *)
(* where a match is an occurrence at one place of the text (StarsMatch);   *)
(* where names have wildcards, what one name matches by itself it matches  *)
(* inside the expression of the whole path (ReachedInside, NamesReached).  *)
(*                                                                         *)
(* What is computed name by name or character by character is proved by    *)
(* induction: Induction is the least counterexample of the order of the    *)
(* numbers, and UptoExists and ReachedExists unfold the two recursive      *)
(* functions of the model.                                                 *)
(***************************************************************************)
EXTENDS RulePaths, SequenceTheorems, WellFoundedInduction, TLAPS

\* The order of the natural numbers.
NatOrder == {ss \in Nat \X Nat : ss[1] < ss[2]}

\* Induction up to a number: a set that holds 0 and is closed under the successor.
LEMMA Induction ==
    ASSUME NEW N \in Nat, NEW S, 0 \in S, \A n \in 0 .. N : n \in S /\ n < N => n + 1 \in S
    PROVE  \A n \in 0 .. N : n \in S
<1> DEFINE T == {n \in 0 .. N : n \notin S}
<1> SUFFICES ASSUME T # {} PROVE FALSE
  OBVIOUS
<1>1. IsWellFoundedOn(NatOrder, Nat)
  BY NatLessThanWellFounded DEF OpToRel, NatOrder
<1>2. PICK m \in T : \A n \in T : <<n, m>> \notin NatOrder
  <2>1. T \subseteq Nat
    OBVIOUS
  <2> HIDE DEF T
  <2> QED  BY <1>1, <2>1, WFMin
<1>3. m \in Nat /\ m # 0 /\ m - 1 \in 0 .. N /\ m - 1 < N
  OBVIOUS
<1>4. m - 1 \notin T
  <2>1. <<m - 1, m>> \in NatOrder
    BY <1>3 DEF NatOrder
  <2> HIDE DEF T
  <2> QED  BY <1>2, <2>1
<1> QED  BY <1>3, <1>4

----------------------------------------------------------------------------
(* Paths. *)

UptoStep(u, names, n) == IF n = 0 THEN << >> ELSE u[n - 1] \o <<"\\">> \o names[n]

\* The texts of the first names, of none to all of them.
IsUpto(u, names) == u = [n \in 0 .. Len(names) |-> UptoStep(u, names, n)]

\* There are such texts.
LEMMA UptoExists ==
    ASSUME NEW names \in Seq(Text)
    PROVE  \E u : IsUpto(u, names)
<1> DEFINE N == Len(names)
           IsPart(u, m) == u = [n \in 0 .. m |-> UptoStep(u, names, n)]
           S == {m \in 0 .. N : \E u : IsPart(u, m)}
<1>0. N \in Nat
  BY LenProperties
<1>1. 0 \in S
  <2>1. IsPart([n \in 0 .. 0 |-> << >>], 0)
    BY DEF UptoStep
  <2> QED  BY <1>0, <2>1
<1>2. ASSUME NEW n \in 0 .. N, n \in S, n < N PROVE n + 1 \in S
  <2>1. PICK u : IsPart(u, n)
    BY <1>2
  <2> DEFINE w == [m \in 0 .. n + 1 |-> IF m = n + 1 THEN UptoStep(u, names, m) ELSE u[m]]
  <2>2. ASSUME NEW m \in 0 .. n + 1 PROVE w[m] = UptoStep(w, names, m)
    <3>1. m # 0 => w[m - 1] = u[m - 1]
      BY <1>2
    <3>2. UptoStep(w, names, m) = UptoStep(u, names, m)
      BY <3>1 DEF UptoStep
    <3>3. m # n + 1 => u[m] = UptoStep(u, names, m)
      <4>1. m # n + 1 => m \in 0 .. n
        BY <1>2
      <4> QED  BY <2>1, <4>1
    <3> QED  BY <3>2, <3>3
  <2>3. IsPart(w, n + 1)
    BY <2>2
  <2> QED  BY <1>0, <1>2, <2>3
<1>3. \A n \in 0 .. N : n \in S
  <2> HIDE DEF S, N
  <2> QED  BY <1>0, <1>1, <1>2, Induction
<1> QED  BY <1>0, <1>3 DEF IsUpto

\* The path is the last of them.
LEMMA PathTextIsLast ==
    ASSUME NEW names \in Seq(Text)
    PROVE  \E u : IsUpto(u, names) /\ PathText(names) = u[Len(names)]
<1> DEFINE upto[n \in 0 .. Len(names)] ==
            IF n = 0 THEN << >> ELSE upto[n - 1] \o <<"\\">> \o names[n]
<1>1. PathText(names) = upto[Len(names)]
  BY DEF PathText
<1>2. upto = CHOOSE u : IsUpto(u, names)
  BY DEF IsUpto, UptoStep
<1> HIDE DEF upto
<1> QED  BY <1>1, <1>2, UptoExists

\* Where the separators are: the n-th name is behind position at[n - 1] + 1.
SpellsUpto(text, at, names, m) ==
    /\ text \in Text
    /\ at \in [0 .. m -> Nat] /\ at[0] = 0 /\ at[m] = Len(text)
    /\ \A n \in 1 .. m :
         /\ at[n] = at[n - 1] + 1 + Len(names[n]) /\ at[n] <= Len(text)
         /\ text[at[n - 1] + 1] = "\\"
         /\ \A q \in 1 .. Len(names[n]) : text[at[n - 1] + 1 + q] = names[n][q]

Spells(text, at, names) == SpellsUpto(text, at, names, Len(names))

\* A separator and a name behind a text.
LEMMA OneMoreName ==
    ASSUME NEW text \in Text, NEW name \in Text, NEW sep \in Chars
    PROVE  /\ text \o <<sep>> \o name \in Text
           /\ Len(text \o <<sep>> \o name) = Len(text) + 1 + Len(name)
           /\ \A q \in 1 .. Len(text) : (text \o <<sep>> \o name)[q] = text[q]
           /\ (text \o <<sep>> \o name)[Len(text) + 1] = sep
           /\ \A q \in 1 .. Len(name) :
                (text \o <<sep>> \o name)[Len(text) + 1 + q] = name[q]
<1> DEFINE one == <<sep>>
           start == text \o one
<1>1. one \in Text /\ Len(one) = 1 /\ one[1] = sep
  BY DEF Text
<1>2. Len(text) \in Nat /\ Len(name) \in Nat
  BY LenProperties DEF Text
<1> HIDE DEF one
<1>3. /\ start \in Text /\ Len(start) = Len(text) + 1
      /\ \A i \in 1 .. Len(text) + 1 : start[i] = IF i <= Len(text) THEN text[i]
                                                  ELSE one[i - Len(text)]
  <2>1. /\ start \in Text /\ Len(start) = Len(text) + Len(one)
        /\ \A i \in 1 .. Len(text) + Len(one) :
             start[i] = IF i <= Len(text) THEN text[i] ELSE one[i - Len(text)]
    BY <1>1, ConcatProperties, Zenon DEF Text
  <2> HIDE DEF start
  <2> QED  BY <1>1, <2>1
<1> HIDE DEF start
<1>4. /\ start \o name \in Text /\ Len(start \o name) = Len(start) + Len(name)
      /\ \A i \in 1 .. Len(start) + Len(name) :
           (start \o name)[i] = IF i <= Len(start) THEN start[i] ELSE name[i - Len(start)]
  <2>1. start \in Seq(Chars) /\ name \in Seq(Chars)
    BY <1>3 DEF Text
  <2> QED  BY <2>1, ConcatProperties, Zenon DEF Text
<1>5. /\ \A q \in 1 .. Len(text) : (start \o name)[q] = text[q]
      /\ (start \o name)[Len(text) + 1] = sep
      /\ \A q \in 1 .. Len(name) : (start \o name)[Len(text) + 1 + q] = name[q]
  BY <1>1, <1>2, <1>3, <1>4
<1> QED  BY <1>2, <1>3, <1>4, <1>5 DEF start, one

\* A path spells its names.
LEMMA PathSpells ==
    ASSUME NEW names \in Seq(Text)
    PROVE  \E at : Spells(PathText(names), at, names)
<1> DEFINE N == Len(names)
<1>0. N \in Nat /\ \A n \in 1 .. N : names[n] \in Text
  BY LenProperties, ElementOfSeq
<1>1. PICK u : IsUpto(u, names) /\ PathText(names) = u[N]
  BY PathTextIsLast
<1> DEFINE S == {m \in 0 .. N : \E at : SpellsUpto(u[m], at, names, m)}
<1>2. 0 \in S
  <2>1. u[0] = << >>
    BY <1>0, <1>1 DEF IsUpto, UptoStep
  <2>2. SpellsUpto(<< >>, [n \in 0 .. 0 |-> 0], names, 0)
    BY DEF SpellsUpto, Text
  <2> QED  BY <1>0, <2>1, <2>2
<1>3. ASSUME NEW n \in 0 .. N, n \in S, n < N PROVE n + 1 \in S
  <2>1. PICK at : SpellsUpto(u[n], at, names, n)
    BY <1>3
  <2>2. u[n + 1] = u[n] \o <<"\\">> \o names[n + 1]
    <3>1. n + 1 \in 0 .. N /\ n + 1 # 0 /\ (n + 1) - 1 = n
      BY <1>0, <1>3
    <3> QED  BY <1>1, <3>1 DEF IsUpto, UptoStep
  <2> DEFINE text == u[n]
             name == names[n + 1]
             new == u[n + 1]
             to == [m \in 0 .. n + 1 |-> IF m = n + 1 THEN Len(text) + 1 + Len(name) ELSE at[m]]
  <2>3. text \in Text /\ name \in Text /\ "\\" \in Chars
    BY <1>0, <1>3, <2>1, RulePathsAssumption DEF SpellsUpto
  <2>4. Len(text) \in Nat /\ Len(name) \in Nat
    BY <2>3, LenProperties DEF Text
  <2>5. /\ new \in Text /\ Len(new) = Len(text) + 1 + Len(name)
        /\ \A q \in 1 .. Len(text) : new[q] = text[q]
        /\ new[Len(text) + 1] = "\\"
        /\ \A q \in 1 .. Len(name) : new[Len(text) + 1 + q] = name[q]
    <3> HIDE DEF text, name, new
    <3>1. new = text \o <<"\\">> \o name
      BY <2>2 DEF text, name, new
    <3>2. /\ text \o <<"\\">> \o name \in Text
          /\ Len(text \o <<"\\">> \o name) = Len(text) + 1 + Len(name)
          /\ \A q \in 1 .. Len(text) : (text \o <<"\\">> \o name)[q] = text[q]
          /\ (text \o <<"\\">> \o name)[Len(text) + 1] = "\\"
          /\ \A q \in 1 .. Len(name) :
               (text \o <<"\\">> \o name)[Len(text) + 1 + q] = name[q]
      BY <2>3, OneMoreName
    <3> QED  BY <3>1, <3>2
  <2> HIDE DEF text, name, new
  <2>6. /\ at \in [0 .. n -> Nat] /\ at[0] = 0 /\ at[n] = Len(text)
        /\ \A m \in 1 .. n :
             /\ at[m] = at[m - 1] + 1 + Len(names[m]) /\ at[m] <= Len(text)
             /\ text[at[m - 1] + 1] = "\\"
             /\ \A q \in 1 .. Len(names[m]) : text[at[m - 1] + 1 + q] = names[m][q]
    BY <2>1 DEF SpellsUpto, text
  <2>7. to \in [0 .. n + 1 -> Nat] /\ to[0] = 0 /\ to[n + 1] = Len(new)
    BY <1>3, <2>4, <2>5, <2>6
  <2>8. ASSUME NEW m \in 1 .. n + 1
        PROVE  /\ to[m] = to[m - 1] + 1 + Len(names[m]) /\ to[m] <= Len(new)
               /\ new[to[m - 1] + 1] = "\\"
               /\ \A q \in 1 .. Len(names[m]) : new[to[m - 1] + 1 + q] = names[m][q]
    <3>1. CASE m = n + 1
      <4>1. to[m] = Len(new) /\ to[m - 1] = Len(text) /\ names[m] = name
        <5>1. n \in Nat /\ n + 1 \in 0 .. n + 1 /\ n \in 0 .. n + 1 /\ n # n + 1
          BY <1>0, <1>3
        <5>2. to[n + 1] = Len(text) + 1 + Len(name) /\ to[n] = at[n]
          BY <5>1
        <5> HIDE DEF to
        <5> QED  BY <2>5, <2>6, <3>1, <5>1, <5>2 DEF name
      <4> HIDE DEF to
      <4> QED  BY <2>4, <2>5, <4>1
    <3>2. CASE m # n + 1
      <4>1. /\ m \in 1 .. n /\ m - 1 \in 0 .. n
            /\ to[m] = at[m] /\ to[m - 1] = at[m - 1]
        BY <1>3, <3>2
      <4>2. at[m] \in Nat /\ at[m - 1] \in Nat /\ Len(names[m]) \in Nat
        <5>1. names[m] \in Text
          BY <1>0, <1>3, <4>1
        <5> QED  BY <2>6, <4>1, <5>1, LenProperties DEF Text
      <4>3. /\ at[m] = at[m - 1] + 1 + Len(names[m]) /\ at[m] <= Len(text)
            /\ text[at[m - 1] + 1] = "\\"
            /\ \A q \in 1 .. Len(names[m]) : text[at[m - 1] + 1 + q] = names[m][q]
        BY <2>6, <4>1
      <4> HIDE DEF to
      <4> DEFINE c == at[m - 1]
                 l == Len(names[m])
      <4>4. c \in Nat /\ l \in Nat /\ c + 1 + l <= Len(text)
        BY <4>2, <4>3
      <4> HIDE DEF c, l
      <4>5. new[c + 1] = "\\"
        <5>1. c + 1 \in 1 .. Len(text)
          BY <2>4, <4>4
        <5> QED  BY <2>5, <4>3, <5>1 DEF c
      <4>6. ASSUME NEW q \in 1 .. l PROVE new[c + 1 + q] = names[m][q]
        <5>1. c + 1 + q \in 1 .. Len(text)
          BY <2>4, <4>4
        <5>2. text[c + 1 + q] = names[m][q]
          BY <4>3 DEF c, l
        <5> QED  BY <2>5, <5>1, <5>2
      <4>7. to[m] <= Len(new)
        BY <2>4, <2>5, <4>1, <4>2, <4>3
      <4> QED  BY <4>1, <4>3, <4>5, <4>6, <4>7 DEF c, l
    <3> QED  BY <3>1, <3>2
  <2>9. SpellsUpto(new, to, names, n + 1)
    <3> HIDE DEF to
    <3> QED  BY <2>5, <2>7, <2>8 DEF SpellsUpto
  <2>10. n + 1 \in 0 .. N
    BY <1>0, <1>3
  <2> QED  BY <2>9, <2>10 DEF new
<1>4. \A n \in 0 .. N : n \in S
  <2> HIDE DEF S, N
  <2> QED  BY <1>0, <1>2, <1>3, Induction
<1> QED  BY <1>0, <1>1, <1>4 DEF Spells

\* A text without a separator.
Part == Seq(Chars \ {"\\"})

\* A path of names without separators: what is where, and of what type.
Laid(F, to, f) ==
    /\ Len(f) \in Nat /\ Len(F) \in Nat /\ to[0] = 0 /\ to[Len(f)] = Len(F)
    /\ \A n \in 0 .. Len(f) : to[n] \in Nat
    /\ \A n \in 1 .. Len(f) :
         /\ f[n] \in Text /\ Len(f[n]) \in Nat
         /\ to[n] = to[n - 1] + 1 + Len(f[n]) /\ to[n] <= Len(F)
         /\ F[to[n - 1] + 1] = "\\"
         /\ \A q \in 1 .. Len(f[n]) :
              /\ F[to[n - 1] + 1 + q] = f[n][q]
              /\ f[n][q] \in Chars /\ f[n][q] # "\\"

\* A path that spells such names is one.
LEMMA SpellingIsLaid ==
    ASSUME NEW f \in Seq(Part), NEW F, NEW to, Spells(F, to, f)
    PROVE  Laid(F, to, f)
<1>1. Len(f) \in Nat /\ \A n \in 1 .. Len(f) : f[n] \in Part
  BY LenProperties, ElementOfSeq
<1>2. /\ F \in Text /\ to[0] = 0 /\ to[Len(f)] = Len(F)
      /\ to \in [0 .. Len(f) -> Nat]
      /\ \A n \in 1 .. Len(f) :
           /\ to[n] = to[n - 1] + 1 + Len(f[n]) /\ to[n] <= Len(F)
           /\ F[to[n - 1] + 1] = "\\"
           /\ \A q \in 1 .. Len(f[n]) : F[to[n - 1] + 1 + q] = f[n][q]
  BY DEF Spells, SpellsUpto
<1>3. Len(F) \in Nat
  BY <1>2, LenProperties DEF Text
<1>4. ASSUME NEW n \in 1 .. Len(f)
      PROVE  /\ f[n] \in Text /\ Len(f[n]) \in Nat
             /\ \A q \in 1 .. Len(f[n]) : f[n][q] \in Chars /\ f[n][q] # "\\"
  <2>1. f[n] \in Seq(Chars \ {"\\"})
    BY <1>1 DEF Part
  <2>2. f[n] \in Text /\ Len(f[n]) \in Nat
    BY <2>1, LenProperties, SeqMonotonic DEF Text
  <2>3. \A q \in 1 .. Len(f[n]) : f[n][q] \in Chars \ {"\\"}
    BY <2>1, ElementOfSeq
  <2> QED  BY <2>2, <2>3
<1> QED  BY <1>1, <1>2, <1>3, <1>4 DEF Laid

\* The path of such names.
LEMMA PathLaid ==
    ASSUME NEW f \in Seq(Part)
    PROVE  PathText(f) \in Text /\ \E to : Laid(PathText(f), to, f)
<1>1. f \in Seq(Text)
  BY SeqMonotonic DEF Part, Text
<1>2. PICK to : Spells(PathText(f), to, f)
  BY <1>1, PathSpells
<1> QED  BY <1>2, SpellingIsLaid DEF Spells, SpellsUpto

\* Names come one behind the other.
LEMMA NamesInOrder ==
    ASSUME NEW f, NEW F, NEW to, Laid(F, to, f),
           NEW i \in 0 .. Len(f), NEW j \in 0 .. Len(f), i < j
    PROVE  to[i] < to[j]
<1> DEFINE N == Len(f)
           S == {m \in 0 .. N : m > i => to[i] < to[m]}
<1>1. /\ N \in Nat /\ \A n \in 0 .. N : to[n] \in Nat
      /\ \A n \in 1 .. N : to[n] = to[n - 1] + 1 + Len(f[n]) /\ Len(f[n]) \in Nat
  BY DEF Laid
<1>2. 0 \in S
  BY <1>1
<1>3. ASSUME NEW n \in 0 .. N, n \in S, n < N PROVE n + 1 \in S
  <2>1. to[n + 1] = to[n] + 1 + Len(f[n + 1]) /\ Len(f[n + 1]) \in Nat
    <3>1. n + 1 \in 1 .. N /\ (n + 1) - 1 = n
      BY <1>1, <1>3
    <3> QED  BY <1>1, <3>1
  <2>2. n + 1 \in 0 .. N /\ to[n] < to[n + 1] /\ to[n + 1] \in Nat /\ to[n] \in Nat /\ to[i] \in Nat
    BY <1>1, <1>3, <2>1
  <2>3. n > i \/ n = i \/ n + 1 <= i
    BY <1>1
  <2> QED  BY <1>3, <2>2, <2>3
<1>4. \A n \in 0 .. N : n \in S
  <2> HIDE DEF S, N
  <2> QED  BY <1>1, <1>2, <1>3, Induction
<1> QED  BY <1>4

\* Each position of a path is in a name or at the separator before it.
LEMMA NamesCover ==
    ASSUME NEW f, NEW F, NEW to, Laid(F, to, f), NEW p \in 1 .. Len(F)
    PROVE  \E n \in 1 .. Len(f) : to[n - 1] < p /\ p <= to[n]
<1> DEFINE N == Len(f)
           S == {m \in 0 .. N : p <= to[m] => \E n \in 1 .. N : to[n - 1] < p /\ p <= to[n]}
<1>1. /\ N \in Nat /\ Len(F) \in Nat /\ to[0] = 0 /\ to[N] = Len(F)
      /\ \A n \in 0 .. N : to[n] \in Nat
  BY DEF Laid
<1>2. 0 \in S
  BY <1>1
<1>3. ASSUME NEW n \in 0 .. N, n \in S, n < N PROVE n + 1 \in S
  <2>1. n + 1 \in 1 .. N /\ n + 1 \in 0 .. N /\ (n + 1) - 1 = n
    BY <1>1, <1>3
  <2>2. to[n] < p \/ p <= to[n]
    BY <1>1
  <2> QED  BY <1>3, <2>1, <2>2
<1>4. \A n \in 0 .. N : n \in S
  <2> HIDE DEF S, N
  <2> QED  BY <1>1, <1>2, <1>3, Induction
<1> QED  BY <1>1, <1>4

\* A separator is before a name.
LEMMA SeparatorStartsName ==
    ASSUME NEW f, NEW F, NEW to, Laid(F, to, f),
           NEW p \in 1 .. Len(F), F[p] = "\\"
    PROVE  \E n \in 0 .. Len(f) - 1 : p = to[n] + 1
<1>1. PICK n \in 1 .. Len(f) : to[n - 1] < p /\ p <= to[n]
  BY NamesCover
<1>2. /\ Len(f) \in Nat /\ to[n] \in Nat /\ to[n - 1] \in Nat
      /\ to[n] = to[n - 1] + 1 + Len(f[n]) /\ Len(f[n]) \in Nat
      /\ \A q \in 1 .. Len(f[n]) : F[to[n - 1] + 1 + q] # "\\"
  <2>1. n \in 0 .. Len(f) /\ n - 1 \in 0 .. Len(f)
    BY DEF Laid
  <2> QED  BY <2>1 DEF Laid
<1>3. p = to[n - 1] + 1
  <2> SUFFICES ASSUME p # to[n - 1] + 1 PROVE FALSE
    OBVIOUS
  <2>1. PICK q \in 1 .. Len(f[n]) : to[n - 1] + 1 + q = p
    <3> DEFINE c == to[n - 1]
               l == Len(f[n])
    <3>1. c \in Nat /\ l \in Nat /\ c < p /\ p <= c + 1 + l /\ p # c + 1 /\ p \in Int
      BY <1>1, <1>2
    <3> HIDE DEF c, l
    <3>2. p - c - 1 \in 1 .. l /\ c + 1 + (p - c - 1) = p
      BY <3>1
    <3> QED  BY <3>2 DEF c, l
  <2> QED  BY <1>2, <2>1
<1> QED  BY <1>2, <1>3

----------------------------------------------------------------------------
(* A path within a path. *)

\* A text occurs in another behind its first k characters, whatever the case.
Occurs(A, F, k) ==
    k + Len(A) <= Len(F) /\ \A q \in 1 .. Len(A) : Upcased[F[k + q]] = Upcased[A[q]]

\* Texts of the same letters.
Similar(s, t) == Len(s) = Len(t) /\ \A q \in 1 .. Len(t) : Upcased[s[q]] = Upcased[t[q]]

\* The names a, of which the last may go on, are names of f from the i-th on.
Begins(a, f, i) ==
    /\ i + Len(a) <= Len(f)
    /\ \A m \in 1 .. Len(a) - 1 : Similar(f[i + m], a[m])
    /\ Len(a[Len(a)]) <= Len(f[i + Len(a)])
    /\ \A q \in 1 .. Len(a[Len(a)]) : Upcased[f[i + Len(a)][q]] = Upcased[a[Len(a)][q]]

\* Only the separator is one in upper case.
LEMMA SeparatorStays ==
    ASSUME NEW c \in Chars
    PROVE  Upcased[c] = Upcased["\\"] <=> c = "\\"
<1>1. "\\" \in Chars
  BY RulePathsAssumption
<1> QED  BY <1>1, SpellingAssumption

\* Where a path occurs in another, its separators are at separators.
LEMMA SeparatorsMeet ==
    ASSUME NEW f, NEW F, NEW to, Laid(F, to, f), NEW a, NEW A, NEW at, Laid(A, at, a),
           F \in Text, A \in Text, Len(a) > 0, NEW k \in Nat, Occurs(A, F, k)
    PROVE  \E i \in 0 .. Len(f) - 1 : \A m \in 0 .. Len(a) - 1 :
               i + m < Len(f) /\ to[i + m] = k + at[m]
<1> DEFINE N == Len(f)
           M == Len(a)
<1>1. /\ N \in Nat /\ M \in Nat /\ at[0] = 0 /\ at[M] = Len(A)
      /\ Len(A) \in Nat /\ Len(F) \in Nat
      /\ \A n \in 0 .. N : to[n] \in Nat
      /\ \A m \in 0 .. M : at[m] \in Nat
  BY DEF Laid
<1>2. ASSUME NEW m \in 0 .. M - 1
      PROVE  \E n \in 0 .. N - 1 : to[n] = k + at[m]
  <2>1. m + 1 \in 1 .. M /\ (m + 1) - 1 = m
    BY <1>1
  <2>2. at[m + 1] <= Len(A) /\ A[at[m] + 1] = "\\" /\ at[m + 1] = at[m] + 1 + Len(a[m + 1])
        /\ Len(a[m + 1]) \in Nat
    BY <2>1 DEF Laid
  <2> DEFINE c == at[m]
             p == c + 1
  <2>3. c \in Nat /\ p \in 1 .. Len(A) /\ p \in Nat
    <3>1. c \in Nat
      BY <1>1
    <3> HIDE DEF c
    <3>2. c + 1 \in 1 .. Len(A)
      <4> DEFINE z == at[m + 1]
                 l == Len(a[m + 1])
                 L == Len(A)
      <4>1. z <= L /\ z = c + 1 + l /\ l \in Nat /\ L \in Nat
        BY <1>1, <2>2 DEF c
      <4> HIDE DEF z, l, L
      <4>2. c + 1 \in 1 .. L
        BY <3>1, <4>1
      <4> QED  BY <4>2 DEF L
    <3> QED  BY <3>1, <3>2
  <2> HIDE DEF p, c
  <2>4. Upcased[F[k + p]] = Upcased["\\"] /\ k + p \in 1 .. Len(F)
    <3>1. Upcased[F[k + p]] = Upcased[A[p]]
      BY <2>3 DEF Occurs
    <3>2. k + Len(A) <= Len(F)
      BY DEF Occurs
    <3>3. k + p \in 1 .. Len(F)
      BY <1>1, <2>3, <3>2
    <3> QED  BY <2>2, <3>1, <3>3 DEF p, c
  <2>5. F[k + p] = "\\"
    <3>1. F[k + p] \in Chars
      BY <2>4, ElementOfSeq DEF Text
    <3> QED  BY <2>4, <3>1, SeparatorStays
  <2>6. PICK n \in 0 .. N - 1 : k + p = to[n] + 1
    BY <2>4, <2>5, SeparatorStartsName
  <2>7. n \in Nat /\ n \in 0 .. N
    BY <1>1
  <2>8. to[n] \in Nat
    BY <1>1, <2>7
  <2>9. k + (c + 1) = to[n] + 1
    BY <2>6 DEF p
  <2>10. to[n] = k + c
    BY <2>3, <2>8, <2>9
  <2> QED  BY <2>10 DEF c
<1>3. PICK i \in 0 .. N - 1 : to[i] = k
  <2>1. 0 \in 0 .. M - 1
    BY <1>1
  <2>2. \E n \in 0 .. N - 1 : to[n] = k + at[0]
    BY <1>2, <2>1
  <2>3. k + at[0] = k
    BY <1>1
  <2> QED  BY <2>2, <2>3
<1> DEFINE S == {m \in 0 .. M - 1 : i + m < N /\ to[i + m] = k + at[m]}
<1>4. 0 \in S
  BY <1>1, <1>3
<1>5. ASSUME NEW m \in 0 .. M - 1, m \in S, m < M - 1 PROVE m + 1 \in S
  <2>1. PICK n \in 0 .. N - 1 : to[n] = k + at[m + 1]
    <3>1. m + 1 \in 0 .. M - 1
      BY <1>1, <1>5
    <3> QED  BY <1>2, <3>1
  <2>2. m + 1 \in 1 .. M /\ (m + 1) - 1 = m
    BY <1>1, <1>5
  <2>3. /\ at[m + 1] = at[m] + 1 + Len(a[m + 1]) /\ Len(a[m + 1]) \in Nat
        /\ at[m] \in Nat /\ at[m + 1] \in Nat /\ at[m + 1] <= Len(A)
        /\ \A q \in 1 .. Len(a[m + 1]) :
             /\ A[at[m] + 1 + q] = a[m + 1][q]
             /\ a[m + 1][q] \in Chars /\ a[m + 1][q] # "\\"
    BY <2>2 DEF Laid
  <2>4. i + m < n
    <3> SUFFICES ASSUME n <= i + m PROVE FALSE
      BY <1>1, <1>3
    <3>1. n < i + m => to[n] < to[i + m]
      <4>1. n \in 0 .. N /\ i + m \in 0 .. N
        BY <1>1, <1>3, <1>5
      <4> QED  BY <4>1, NamesInOrder
    <3>2. n = i + m \/ n < i + m
      BY <1>1, <1>3
    <3>3. to[i + m] = k + at[m] /\ to[n] = k + at[m + 1] /\ to[n] \in Nat
      <4>1. n \in 0 .. N
        BY <1>1
      <4> QED  BY <1>1, <1>5, <2>1, <4>1
    <3>4. at[m] < at[m + 1]
      <4> DEFINE x == at[m]
                 y == at[m + 1]
                 l == Len(a[m + 1])
      <4>1. y = x + 1 + l /\ l \in Nat /\ x \in Nat /\ y \in Nat
        BY <2>3
      <4> HIDE DEF x, y, l
      <4>2. x < y
        BY <4>1
      <4> QED  BY <4>2 DEF x, y
    <3>5. k + at[m] < k + at[m + 1]
      BY <2>3, <3>4
    <3>6. to[i + m] < to[n]
      BY <3>3, <3>5
    <3>7. to[i + m] \in Nat /\ to[n] \in Nat
      <4>1. n \in 0 .. N /\ i + m \in 0 .. N
        BY <1>1, <1>3, <1>5
      <4> QED  BY <1>1, <4>1
    <3> HIDE DEF N, M
    <3>8. CASE n = i + m
      <4>1. to[n] = to[i + m]
        BY <3>8
      <4> QED  BY <3>6, <3>7, <4>1
    <3>9. CASE n < i + m
      <4>1. to[n] < to[i + m]
        BY <3>1, <3>9
      <4> QED  BY <3>6, <3>7, <4>1
    <3> QED  BY <3>2, <3>8, <3>9
  <2>5. n = i + m + 1
    <3> SUFFICES ASSUME i + m + 1 < n PROVE FALSE
      BY <1>1, <1>3, <2>4
    <3> DEFINE j == i + m + 1
    <3>1. j \in 1 .. N /\ j - 1 = i + m /\ j \in 0 .. N /\ n \in 0 .. N /\ j < n /\ i + m \in 0 .. N
          /\ j + 1 \in 1 .. N /\ (j + 1) - 1 = j
      BY <1>1, <1>3, <1>5
    <3> HIDE DEF j
    <3>2. to[i + m] < to[j] /\ to[j] < to[n]
      <4>1. i + m < j
        BY <1>1, <3>1
      <4> QED  BY <3>1, <4>1, NamesInOrder
    <3>3. F[to[j] + 1] = "\\" /\ to[j] \in Nat /\ to[i + m] \in Nat
      BY <1>1, <3>1 DEF Laid
    <3>4. to[i + m] = k + at[m] /\ to[n] = k + at[m + 1]
      BY <1>5, <2>1
    <3> DEFINE q == to[j] - k - at[m]
    <3>5. q \in 1 .. Len(a[m + 1]) /\ at[m] + 1 + q \in 1 .. Len(A) /\ k + (at[m] + 1 + q) = to[j] + 1
      <4> DEFINE c == at[m]
                 l == Len(a[m + 1])
                 x == to[j]
                 L == Len(A)
      <4>1. c \in Nat /\ l \in Nat /\ x \in Nat /\ L \in Nat /\ c + 1 + l <= L
        BY <1>1, <2>3, <3>3
      <4>2. k + c < x /\ x < k + (c + 1 + l)
        BY <2>3, <3>2, <3>4
      <4> HIDE DEF c, l, x, L
      <4>3. x - k - c \in 1 .. l /\ c + 1 + (x - k - c) \in 1 .. L
            /\ k + (c + 1 + (x - k - c)) = x + 1
        BY <4>1, <4>2
      <4> QED  BY <4>3 DEF c, l, x, L
    <3> HIDE DEF q
    <3>6. Upcased[F[k + (at[m] + 1 + q)]] = Upcased[A[at[m] + 1 + q]]
      BY <3>5 DEF Occurs
    <3>7. A[at[m] + 1 + q] \in Chars /\ A[at[m] + 1 + q] # "\\"
      BY <2>3, <3>5
    <3> QED  BY <3>3, <3>5, <3>6, <3>7, SeparatorStays
  <2>6. m + 1 \in 0 .. M - 1 /\ i + (m + 1) = i + m + 1
    BY <1>1, <1>3, <1>5
  <2> QED  BY <1>1, <2>1, <2>5, <2>6
<1>6. \A m \in 0 .. M - 1 : m \in S
  <2>1. M - 1 \in Nat
    BY <1>1
  <2> HIDE DEF S, M
  <2> QED  BY <1>4, <1>5, <2>1, Induction
<1> QED  BY <1>3, <1>6

\* The texts of two names that are at the same place are as long, up to the
\* separator behind each.
LEMMA OccurrenceBegins ==
    ASSUME NEW f, NEW F, NEW to, Laid(F, to, f), NEW a, NEW A, NEW at, Laid(A, at, a),
           F \in Text, A \in Text, Len(a) > 0, NEW k \in Nat, Occurs(A, F, k)
    PROVE  \E i \in 0 .. Len(f) - 1 : to[i] = k /\ Begins(a, f, i)
<1> DEFINE N == Len(f)
           M == Len(a)
<1>1. PICK i \in 0 .. N - 1 : \A m \in 0 .. M - 1 : i + m < N /\ to[i + m] = k + at[m]
  BY SeparatorsMeet
<1>2. /\ N \in Nat /\ M \in Nat /\ M - 1 \in 0 .. M - 1 /\ i \in Nat
      /\ 0 \in 0 .. M - 1 /\ at[0] = 0 /\ at[M] = Len(A) /\ to[N] = Len(F)
      /\ Len(A) \in Nat /\ Len(F) \in Nat
  BY DEF Laid
<1>3. to[i] = k
  <2>1. i + 0 = i /\ k + 0 = k
    BY <1>2
  <2> QED  BY <1>1, <1>2, <2>1
<1>4. i + M <= N
  <2>1. i + (M - 1) < N
    BY <1>1, <1>2
  <2> QED  BY <1>2, <2>1
<1>5. ASSUME NEW m \in 1 .. M
      PROVE  /\ m - 1 \in 0 .. M - 1 /\ i + m \in 1 .. N /\ (i + m) - 1 = i + (m - 1)
             /\ to[i + (m - 1)] = k + at[m - 1]
             /\ at[m - 1] \in Nat /\ Len(a[m]) \in Nat /\ Len(f[i + m]) \in Nat
             /\ at[m] = at[m - 1] + 1 + Len(a[m]) /\ at[m] <= Len(A)
             /\ to[i + m] = to[i + (m - 1)] + 1 + Len(f[i + m]) /\ to[i + m] <= Len(F)
             /\ \A q \in 1 .. Len(a[m]) :
                  /\ A[at[m - 1] + 1 + q] = a[m][q] /\ a[m][q] \in Chars /\ a[m][q] # "\\"
             /\ \A q \in 1 .. Len(f[i + m]) :
                  /\ F[to[i + (m - 1)] + 1 + q] = f[i + m][q]
                  /\ f[i + m][q] \in Chars /\ f[i + m][q] # "\\"
  <2>1. m - 1 \in 0 .. M - 1 /\ i + m \in 1 .. N /\ (i + m) - 1 = i + (m - 1) /\ m - 1 \in 0 .. M
    BY <1>1, <1>2, <1>4
  <2>2. /\ at[m - 1] \in Nat /\ Len(a[m]) \in Nat
        /\ at[m] = at[m - 1] + 1 + Len(a[m]) /\ at[m] <= Len(A)
        /\ \A q \in 1 .. Len(a[m]) :
             /\ A[at[m - 1] + 1 + q] = a[m][q] /\ a[m][q] \in Chars /\ a[m][q] # "\\"
    BY <2>1 DEF Laid
  <2>3. /\ Len(f[i + m]) \in Nat
        /\ to[i + m] = to[(i + m) - 1] + 1 + Len(f[i + m]) /\ to[i + m] <= Len(F)
        /\ \A q \in 1 .. Len(f[i + m]) :
             /\ F[to[(i + m) - 1] + 1 + q] = f[i + m][q]
             /\ f[i + m][q] \in Chars /\ f[i + m][q] # "\\"
    BY <2>1 DEF Laid
  <2>4. to[i + (m - 1)] = k + at[m - 1]
    BY <1>1, <2>1
  <2> QED  BY <2>1, <2>2, <2>3, <2>4
\* A letter of a name of A is one of F.
<1>6. ASSUME NEW m \in 1 .. M, NEW q \in 1 .. Len(a[m])
      PROVE  /\ Upcased[F[to[i + (m - 1)] + 1 + q]] = Upcased[a[m][q]]
             /\ F[to[i + (m - 1)] + 1 + q] # "\\"
             /\ to[i + (m - 1)] + 1 + q \in 1 .. Len(F)
  <2> DEFINE c == at[m - 1]
             p == c + 1 + q
  <2> DEFINE l == Len(a[m])
  <2>1. c \in Nat /\ l \in Nat /\ c + 1 + l <= Len(A) /\ q \in 1 .. l
    <3>1. c \in Nat /\ l \in Nat /\ at[m] = c + 1 + l /\ at[m] <= Len(A)
      BY <1>5
    <3> HIDE DEF c
    <3> QED  BY <3>1
  <2>2. p \in 1 .. Len(A)
    <3> HIDE DEF c, l
    <3> QED  BY <1>2, <2>1
  <2>3. A[p] = a[m][q] /\ a[m][q] \in Chars /\ a[m][q] # "\\"
    BY <1>5
  <2>4. to[i + (m - 1)] + 1 + q = k + p
    <3>1. to[i + (m - 1)] = k + c
      BY <1>5
    <3> HIDE DEF c, l
    <3> QED  BY <2>1, <3>1
  <2> HIDE DEF p, c, l
  <2>5. Upcased[F[k + p]] = Upcased[A[p]] /\ k + p \in 1 .. Len(F)
    <3> DEFINE L == Len(A)
               D == Len(F)
    <3>1. k + L <= D /\ Upcased[F[k + p]] = Upcased[A[p]]
      BY <2>2 DEF Occurs
    <3>2. L \in Nat /\ D \in Nat /\ p \in 1 .. L /\ k \in Nat
      BY <1>2, <2>2
    <3> HIDE DEF L, D
    <3>3. k + p \in 1 .. D
      BY <3>1, <3>2
    <3> QED  BY <3>1, <3>3 DEF D
  <2>6. F[k + p] \in Chars
    BY <2>5, ElementOfSeq DEF Text
  <2> QED  BY <2>3, <2>4, <2>5, <2>6, SeparatorStays
\* It is one of the same name.
<1>7. ASSUME NEW m \in 1 .. M PROVE Len(a[m]) <= Len(f[i + m])
  <2> SUFFICES ASSUME Len(f[i + m]) < Len(a[m]) PROVE FALSE
    BY <1>5
  <2> DEFINE q == Len(f[i + m]) + 1
  <2>1. q \in 1 .. Len(a[m]) /\ to[i + (m - 1)] + 1 + q = to[i + m] + 1
    <3> DEFINE c == to[i + (m - 1)]
               l == Len(f[i + m])
    <3>1. c \in Nat /\ l \in Nat /\ Len(a[m]) \in Nat /\ to[i + m] = c + 1 + l
      <4> DEFINE z == at[m - 1]
      <4>1. c = k + z /\ z \in Nat
        BY <1>5
      <4>2. l \in Nat /\ Len(a[m]) \in Nat /\ to[i + m] = c + 1 + l
        BY <1>5
      <4> HIDE DEF c, l, z
      <4>3. c \in Nat
        BY <4>1
      <4> QED  BY <4>2, <4>3
    <3> HIDE DEF c, l
    <3>2. l < Len(a[m])
      BY DEF l
    <3>3. l + 1 \in 1 .. Len(a[m]) /\ c + 1 + (l + 1) = (c + 1 + l) + 1
      BY <3>1, <3>2
    <3> QED  BY <3>1, <3>3 DEF c, l
  <2>2. F[to[i + m] + 1] # "\\" /\ to[i + m] + 1 \in 1 .. Len(F)
    BY <1>6, <2>1
  <2>3. i + m < N
    <3> SUFFICES ASSUME i + m = N PROVE FALSE
      BY <1>2, <1>5
    <3>1. Len(F) + 1 \in 1 .. Len(F)
      BY <1>2, <2>2
    <3> QED  BY <1>2, <3>1
  <2>4. i + m + 1 \in 1 .. N /\ (i + m + 1) - 1 = i + m
    BY <1>2, <1>5, <2>3
  <2> QED  BY <2>2, <2>4 DEF Laid
<1>8. ASSUME NEW m \in 1 .. M, NEW q \in 1 .. Len(a[m])
      PROVE  Upcased[f[i + m][q]] = Upcased[a[m][q]]
  <2>1. q \in 1 .. Len(f[i + m])
    <3>1. Len(a[m]) \in Nat /\ Len(f[i + m]) \in Nat /\ Len(a[m]) <= Len(f[i + m])
      BY <1>5, <1>7
    <3> QED  BY <3>1
  <2>2. F[to[i + (m - 1)] + 1 + q] = f[i + m][q]
    BY <1>5, <2>1
  <2> QED  BY <1>6, <2>2
\* All but the last end where the next separator is.
<1>9. ASSUME NEW m \in 1 .. M - 1 PROVE Len(f[i + m]) = Len(a[m])
  <2>1. m \in 1 .. M /\ m \in 0 .. M - 1
    BY <1>2
  <2> DEFINE x == at[m - 1]
             y == Len(a[m])
             z == Len(f[i + m])
  <2>2. /\ to[i + m] = k + at[m]
        /\ to[i + m] = (k + x) + 1 + z /\ at[m] = x + 1 + y
        /\ x \in Nat /\ y \in Nat /\ z \in Nat
    BY <1>1, <1>5, <2>1
  <2> HIDE DEF x, y, z
  <2>3. z = y
    BY <2>2
  <2> QED  BY <2>3 DEF y, z
<1>10. Begins(a, f, i)
  <2>1. M \in 1 .. M /\ \A m \in 1 .. M - 1 : m \in 1 .. M
    BY <1>2
  <2> QED  BY <1>4, <1>7, <1>8, <1>9, <2>1 DEF Begins, Similar
<1> QED  BY <1>3, <1>10

\* Where names of a path are the names of another, that one occurs, and ends
\* where the last of them does.
LEMMA NamesOccur ==
    ASSUME NEW f, NEW F, NEW to, Laid(F, to, f), NEW a, NEW A, NEW at, Laid(A, at, a),
           NEW i \in 0 .. Len(f), i + Len(a) <= Len(f),
           \A m \in 1 .. Len(a) : Similar(f[i + m], a[m])
    PROVE  Occurs(A, F, to[i]) /\ to[i] + Len(A) = to[i + Len(a)]
<1> DEFINE N == Len(f)
           M == Len(a)
           k == to[i]
<1>1. /\ N \in Nat /\ M \in Nat /\ Len(A) \in Nat /\ Len(F) \in Nat
      /\ at[0] = 0 /\ at[M] = Len(A) /\ to[0] = 0 /\ to[N] = Len(F) /\ i \in Nat /\ i + M <= N
      /\ \A n \in 0 .. N : to[n] \in Nat
      /\ \A m \in 0 .. M : at[m] \in Nat
  BY DEF Laid
<1>2. ASSUME NEW m \in 1 .. M
      PROVE  /\ m - 1 \in 0 .. M /\ i + m \in 1 .. N /\ i + (m - 1) \in 0 .. N
             /\ to[i + (m - 1)] \in Nat /\ at[m - 1] \in Nat /\ Len(a[m]) \in Nat
             /\ Len(f[i + m]) = Len(a[m])
             /\ at[m] = at[m - 1] + 1 + Len(a[m])
             /\ to[i + m] = to[i + (m - 1)] + 1 + Len(a[m])
             /\ A[at[m - 1] + 1] = "\\" /\ F[to[i + (m - 1)] + 1] = "\\"
             /\ \A q \in 1 .. Len(a[m]) :
                  /\ A[at[m - 1] + 1 + q] = a[m][q]
                  /\ F[to[i + (m - 1)] + 1 + q] = f[i + m][q]
                  /\ Upcased[f[i + m][q]] = Upcased[a[m][q]]
  <2>1. /\ m - 1 \in 0 .. M /\ i + m \in 1 .. N /\ (i + m) - 1 = i + (m - 1)
        /\ i + (m - 1) \in 0 .. N
    BY <1>1
  <2>2. Len(f[i + m]) = Len(a[m]) /\ \A q \in 1 .. Len(a[m]) : Upcased[f[i + m][q]] = Upcased[a[m][q]]
    BY DEF Similar
  <2>3. /\ at[m - 1] \in Nat /\ Len(a[m]) \in Nat
        /\ at[m] = at[m - 1] + 1 + Len(a[m]) /\ A[at[m - 1] + 1] = "\\"
        /\ \A q \in 1 .. Len(a[m]) : A[at[m - 1] + 1 + q] = a[m][q]
    BY <2>1 DEF Laid
  <2>4. /\ to[i + (m - 1)] \in Nat
        /\ to[i + m] = to[(i + m) - 1] + 1 + Len(f[i + m]) /\ F[to[(i + m) - 1] + 1] = "\\"
        /\ \A q \in 1 .. Len(f[i + m]) : F[to[(i + m) - 1] + 1 + q] = f[i + m][q]
    BY <2>1 DEF Laid
  <2> HIDE DEF N, M
  <2> QED  BY <2>1, <2>2, <2>3, <2>4
<1> DEFINE S == {m \in 0 .. M : to[i + m] = k + at[m]}
<1>3. 0 \in S
  BY <1>1
<1>4. ASSUME NEW m \in 0 .. M, m \in S, m < M PROVE m + 1 \in S
  <2>1. m + 1 \in 1 .. M /\ (m + 1) - 1 = m /\ m + 1 \in 0 .. M
    BY <1>1, <1>4
  <2>2. /\ to[i + m] \in Nat /\ at[m] \in Nat /\ Len(a[m + 1]) \in Nat
        /\ at[m + 1] = at[m] + 1 + Len(a[m + 1])
        /\ to[i + (m + 1)] = to[i + m] + 1 + Len(a[m + 1])
    BY <1>2, <2>1
  <2>3. to[i + m] = k + at[m] /\ k \in Nat
    BY <1>1, <1>4
  <2> DEFINE c == at[m]
             l == Len(a[m + 1])
  <2>4. to[i + m] = k + c /\ to[i + (m + 1)] = to[i + m] + 1 + l /\ at[m + 1] = c + 1 + l
        /\ c \in Nat /\ l \in Nat /\ k \in Nat
    BY <2>2, <2>3
  <2> HIDE DEF k, c, l
  <2>5. to[i + (m + 1)] = k + at[m + 1]
    BY <2>4
  <2> QED  BY <2>1, <2>5
<1>5. \A m \in 0 .. M : to[i + m] = k + at[m]
  <2>1. \A m \in 0 .. M : m \in S
    <3> HIDE DEF S, M
    <3> QED  BY <1>1, <1>3, <1>4, Induction
  <2> QED  BY <2>1
<1>6. k + Len(A) = to[i + M] /\ k \in Nat
  <2>1. M \in 0 .. M
    BY <1>1
  <2> QED  BY <1>1, <1>5, <2>1
<1>7. to[i + M] <= Len(F)
  <2>1. CASE i + M = 0
    BY <1>1, <2>1
  <2>2. CASE i + M # 0
    <3>1. i + M \in 1 .. N
      BY <1>1, <2>2
    <3> QED  BY <3>1 DEF Laid
  <2> QED  BY <2>1, <2>2
<1>8. ASSUME NEW p \in 1 .. Len(A) PROVE Upcased[F[k + p]] = Upcased[A[p]]
  <2>1. PICK m \in 1 .. M : at[m - 1] < p /\ p <= at[m]
    BY NamesCover
  <2> DEFINE c == at[m - 1]
             l == Len(a[m])
             x == to[i + (m - 1)]
  <2>2. /\ c \in Nat /\ l \in Nat /\ c < p /\ p <= c + 1 + l /\ p \in Nat
        /\ x = k + c /\ k \in Nat
    <3>1. c \in Nat /\ l \in Nat /\ at[m] = c + 1 + l
      BY <1>2
    <3>2. x = k + c
      BY <1>2, <1>5
    <3> HIDE DEF c, l, x, k
    <3> QED  BY <1>6, <2>1, <3>1, <3>2 DEF c
  <2>3. CASE p = c + 1
    <3>1. A[c + 1] = "\\" /\ F[x + 1] = "\\"
      BY <1>2
    <3> HIDE DEF c, x, k, l
    <3>2. k + p = x + 1
      BY <2>2, <2>3
    <3> QED  BY <2>3, <3>1, <3>2
  <2>4. CASE p # c + 1
    <3> DEFINE q == p - (c + 1)
    <3>1. q \in 1 .. l /\ p = c + 1 + q /\ k + p = x + 1 + q
      <4> HIDE DEF c, x, k, l
      <4> QED  BY <2>2, <2>4
    <3> HIDE DEF q
    <3>2. A[c + 1 + q] = a[m][q] /\ F[x + 1 + q] = f[i + m][q] /\ Upcased[f[i + m][q]] = Upcased[a[m][q]]
      BY <1>2, <3>1
    <3> HIDE DEF c, x, k, l
    <3> QED  BY <3>1, <3>2
  <2> QED  BY <2>3, <2>4
<1> QED  BY <1>6, <1>7, <1>8 DEF Occurs

\* Where a path occurs and ends where a name ends, its names are those there.
LEMMA OccurrenceIsWhole ==
    ASSUME NEW f, NEW F, NEW to, Laid(F, to, f), NEW a, NEW A, NEW at, Laid(A, at, a),
           F \in Text, A \in Text, Len(a) > 0, NEW k \in Nat, Occurs(A, F, k),
           NEW j \in 0 .. Len(f), k + Len(A) = to[j]
    PROVE  \E i \in 0 .. Len(f) - 1 :
               /\ to[i] = k /\ i + Len(a) = j
               /\ \A m \in 1 .. Len(a) : Similar(f[i + m], a[m])
<1> DEFINE N == Len(f)
           M == Len(a)
<1>1. PICK i \in 0 .. N - 1 : to[i] = k /\ Begins(a, f, i)
  BY OccurrenceBegins
<1>2. /\ N \in Nat /\ M \in Nat /\ i \in Nat /\ M - 1 \in 0 .. M - 1 /\ i + M <= N
      /\ at[M] = Len(A) /\ Len(A) \in Nat
      /\ M \in 1 .. M /\ i + M \in 1 .. N /\ (i + M) - 1 = i + (M - 1)
      /\ i + (M - 1) \in 0 .. N /\ j \in 0 .. N /\ i + M \in 0 .. N /\ i \in 0 .. N
      /\ M - 1 \in 0 .. M
  <2>1. /\ N \in Nat /\ M \in Nat /\ at[M] = Len(A) /\ Len(A) \in Nat
    BY DEF Laid
  <2>2. i + M <= N
    BY <1>1 DEF Begins
  <2>3. M > 0 /\ i \in 0 .. N - 1 /\ j \in 0 .. N
    OBVIOUS
  <2> HIDE DEF N, M
  <2> QED  BY <2>1, <2>2, <2>3
\* The separators before the last name meet.
<1>3. to[i + (M - 1)] = k + at[M - 1]
  <2> DEFINE S == {m \in 0 .. M - 1 : to[i + m] = k + at[m]}
  <2>1. 0 \in S
    <3>1. 0 \in 0 .. M - 1 /\ i + 0 = i /\ k + 0 = k
      BY <1>2
    <3>2. at[0] = 0 /\ to[i] = k
      BY <1>1 DEF Laid
    <3> QED  BY <3>1, <3>2
  <2>2. ASSUME NEW m \in 0 .. M - 1, m \in S, m < M - 1 PROVE m + 1 \in S
    <3>1. /\ m + 1 \in 0 .. M - 1 /\ m + 1 \in 1 .. M - 1 /\ m + 1 \in 1 .. M /\ (m + 1) - 1 = m
          /\ i + (m + 1) \in 1 .. N /\ (i + (m + 1)) - 1 = i + m /\ i + m \in 0 .. N /\ m \in 0 .. M
      BY <1>2, <2>2
    <3>2. Len(f[i + (m + 1)]) = Len(a[m + 1])
      BY <1>1, <3>1 DEF Begins, Similar
    <3>3. /\ at[m + 1] = at[m] + 1 + Len(a[m + 1]) /\ Len(a[m + 1]) \in Nat /\ at[m] \in Nat
      BY <3>1 DEF Laid
    <3>4. /\ to[i + (m + 1)] = to[(i + (m + 1)) - 1] + 1 + Len(f[i + (m + 1)]) /\ to[i + m] \in Nat
      BY <3>1 DEF Laid
    <3>5. to[i + m] = k + at[m]
      BY <2>2
    <3>6. to[i + (m + 1)] = to[i + m] + 1 + Len(a[m + 1])
      BY <3>1, <3>2, <3>4
    <3> DEFINE c == at[m]
               l == Len(a[m + 1])
    <3>7. to[i + m] = k + c /\ to[i + (m + 1)] = to[i + m] + 1 + l /\ at[m + 1] = c + 1 + l
          /\ c \in Nat /\ l \in Nat
      BY <3>3, <3>5, <3>6
    <3> HIDE DEF c, l
    <3>8. to[i + (m + 1)] = k + at[m + 1]
      BY <3>7
    <3> QED  BY <3>1, <3>8
  <2>3. \A m \in 0 .. M - 1 : m \in S
    <3>1. M - 1 \in Nat
      BY <1>2
    <3> HIDE DEF S, M
    <3> QED  BY <2>1, <2>2, <3>1, Induction
  <2> QED  BY <1>2, <2>3
<1> DEFINE c == at[M - 1]
           l == Len(a[M])
           L == Len(f[i + M])
<1>4. /\ c \in Nat /\ l \in Nat /\ L \in Nat /\ l <= L
      /\ to[i + (M - 1)] = k + c
      /\ to[i + M] = k + c + 1 + L
      /\ to[j] = k + c + 1 + l
  <2>1. c \in Nat /\ l \in Nat /\ at[M] = c + 1 + l
    BY <1>2 DEF Laid
  <2>2. L \in Nat /\ to[i + M] = to[(i + M) - 1] + 1 + L
    BY <1>2 DEF Laid
  <2>3. l <= L
    BY <1>1 DEF Begins
  <2>4. k + Len(A) = to[j]
    OBVIOUS
  <2> HIDE DEF c, l, L
  <2>5. to[i + (M - 1)] = k + c
    BY <1>3 DEF c
  <2>6. to[i + M] = k + c + 1 + L
    BY <1>2, <2>1, <2>2, <2>5
  <2>7. to[j] = k + c + 1 + l
    BY <1>2, <2>1, <2>4
  <2> QED  BY <2>1, <2>2, <2>3, <2>5, <2>6, <2>7
<1>5. j = i + M
  <2>1. j < i + (M - 1) => to[j] < to[i + (M - 1)]
    BY <1>2, NamesInOrder
  <2>2. i + M < j => to[i + M] < to[j]
    BY <1>2, NamesInOrder
  <2>3. j = i + (M - 1) => to[j] = to[i + (M - 1)]
    OBVIOUS
  <2> HIDE DEF c, l, L, N
  <2>4. ~(to[j] < to[i + (M - 1)]) /\ ~(to[i + M] < to[j]) /\ to[j] # to[i + (M - 1)]
    BY <1>4
  <2> HIDE DEF M
  <2> QED  BY <1>2, <2>1, <2>2, <2>3, <2>4
<1>6. L = l
  <2> HIDE DEF c, l, L
  <2> QED  BY <1>4, <1>5
<1>7. ASSUME NEW m \in 1 .. M PROVE Similar(f[i + m], a[m])
  <2>1. CASE m = M
    BY <1>1, <1>6, <2>1 DEF Begins, Similar
  <2>2. CASE m # M
    <3>1. m \in 1 .. M - 1
      BY <1>2, <2>2
    <3> QED  BY <1>1, <3>1 DEF Begins
  <2> QED  BY <2>1, <2>2
<1> QED  BY <1>1, <1>5, <1>7

----------------------------------------------------------------------------
(* Paths put together. *)

\* The sequence r is t behind s.
IsJoined(r, s, t) ==
    /\ Len(s) \in Nat /\ Len(t) \in Nat /\ Len(r) = Len(s) + Len(t)
    /\ \A q \in 1 .. Len(s) : r[q] = s[q]
    /\ \A q \in 1 .. Len(t) : r[Len(s) + q] = t[q]

\* One sequence behind another.
LEMMA Joined ==
    ASSUME NEW S, NEW s \in Seq(S), NEW t \in Seq(S)
    PROVE  s \o t \in Seq(S) /\ IsJoined(s \o t, s, t)
<1>1. /\ s \o t \in Seq(S)
      /\ Len(s \o t) = Len(s) + Len(t)
      /\ \A i \in 1 .. Len(s) + Len(t) : (s \o t)[i] =
                  IF i <= Len(s) THEN s[i] ELSE t[i - Len(s)]
  BY ConcatProperties, Zenon
<1>2. Len(s) \in Nat /\ Len(t) \in Nat
  BY LenProperties
<1>3. ASSUME NEW q \in 1 .. Len(s) PROVE (s \o t)[q] = s[q]
  <2>1. q \in 1 .. Len(s) + Len(t) /\ q <= Len(s)
    BY <1>2
  <2> QED  BY <1>1, <2>1
<1>4. ASSUME NEW q \in 1 .. Len(t) PROVE (s \o t)[Len(s) + q] = t[q]
  <2> DEFINE l == Len(s)
  <2>1. l + q \in 1 .. l + Len(t) /\ ~(l + q <= l) /\ (l + q) - l = q
    BY <1>2
  <2>2. (s \o t)[l + q] = IF l + q <= l THEN s[l + q] ELSE t[(l + q) - l]
    BY <1>1, <2>1
  <2> QED  BY <2>1, <2>2
<1> QED  BY <1>1, <1>2, <1>3, <1>4 DEF IsJoined

\* A single character is a text.
LEMMA OneCharacter ==
    ASSUME NEW c \in Chars
    PROVE  <<c>> \in Text /\ Len(<<c>>) = 1 /\ <<c>>[1] = c
BY DEF Text

\* A name is a text of characters that are no separator.
LEMMA PartIsText ==
    ASSUME NEW name \in Part
    PROVE  /\ name \in Text /\ Len(name) \in Nat
           /\ \A q \in 1 .. Len(name) : name[q] \in Chars /\ name[q] # "\\"
<1>1. name \in Seq(Chars \ {"\\"})
  BY DEF Part
<1>2. name \in Text /\ Len(name) \in Nat
  BY <1>1, LenProperties, SeqMonotonic DEF Text
<1>3. \A q \in 1 .. Len(name) : name[q] \in Chars \ {"\\"}
  BY <1>1, ElementOfSeq
<1> QED  BY <1>2, <1>3

\* A path behind another.
LEMMA PathsJoined ==
    ASSUME NEW a \in Seq(Part), NEW A \in Text, NEW at, Laid(A, at, a),
           NEW b \in Seq(Part), NEW B \in Text, NEW bt, Laid(B, bt, b)
    PROVE  a \o b \in Seq(Part) /\ A \o B \in Text /\ \E to : Laid(A \o B, to, a \o b)
<1> DEFINE N == Len(a)
           M == Len(b)
           K == Len(A)
           L == Len(B)
           G == A \o B
           g == a \o b
           ct == [n \in 0 .. N + M |-> IF n <= N THEN at[n] ELSE K + bt[n - N]]
<1>1. /\ N \in Nat /\ M \in Nat /\ K \in Nat /\ L \in Nat
      /\ at[0] = 0 /\ at[N] = K /\ bt[0] = 0 /\ bt[M] = L
      /\ \A n \in 0 .. N : at[n] \in Nat
      /\ \A n \in 0 .. M : bt[n] \in Nat
  BY DEF Laid
<1>2. /\ g \in Seq(Part) /\ Len(g) = N + M
      /\ (\A n \in 1 .. N : g[n] = a[n]) /\ \A n \in 1 .. M : g[N + n] = b[n]
  <2> HIDE DEF g
  <2>1. g \in Seq(Part) /\ IsJoined(g, a, b)
    BY Joined, Zenon DEF g
  <2> QED  BY <2>1 DEF IsJoined
<1>3. /\ G \in Text /\ Len(G) = K + L
      /\ (\A q \in 1 .. K : G[q] = A[q]) /\ \A q \in 1 .. L : G[K + q] = B[q]
  <2> HIDE DEF G
  <2>1. G \in Seq(Chars) /\ IsJoined(G, A, B)
    BY Joined, Zenon DEF G, Text
  <2> QED  BY <2>1 DEF IsJoined, Text
<1> HIDE DEF G, g
<1>4. \A n \in 0 .. N : ct[n] = at[n]
  <2> TAKE n \in 0 .. N
  <2>1. n \in 0 .. N + M /\ n <= N
    BY <1>1
  <2> QED  BY <2>1
<1>5. \A n \in 0 .. M : ct[N + n] = K + bt[n]
  <2> TAKE n \in 0 .. M
  <2>1. N + n \in 0 .. N + M /\ (N + n) - N = n /\ (N + n <= N => n = 0) /\ N + 0 = N /\ K + 0 = K
    BY <1>1
  <2>2. CASE N + n <= N
    <3>1. n = 0 /\ N \in 0 .. N
      BY <1>1, <2>1, <2>2
    <3> HIDE DEF ct
    <3> QED  BY <1>1, <1>4, <2>1, <3>1
  <2>3. CASE ~(N + n <= N)
    BY <2>1, <2>3
  <2> QED  BY <2>2, <2>3
<1> HIDE DEF ct
<1>6. \A n \in 0 .. N + M : ct[n] \in Nat
  <2> TAKE n \in 0 .. N + M
  <2>1. n \in 0 .. N \/ (n - N \in 0 .. M /\ N + (n - N) = n)
    BY <1>1
  <2>2. ASSUME n - N \in 0 .. M, N + (n - N) = n PROVE ct[n] \in Nat
    <3> DEFINE m == n - N
               r == bt[m]
    <3>1. ct[n] = K + r /\ r \in Nat
      BY <1>1, <1>5, <2>2
    <3> HIDE DEF r, m
    <3> QED  BY <1>1, <3>1
  <2> QED  BY <1>1, <1>4, <2>1, <2>2
<1>7. ASSUME NEW n \in 1 .. N + M
      PROVE  /\ g[n] \in Text /\ Len(g[n]) \in Nat
             /\ ct[n] = ct[n - 1] + 1 + Len(g[n]) /\ ct[n] <= Len(G)
             /\ G[ct[n - 1] + 1] = "\\"
             /\ \A q \in 1 .. Len(g[n]) :
                  /\ G[ct[n - 1] + 1 + q] = g[n][q]
                  /\ g[n][q] \in Chars /\ g[n][q] # "\\"
  <2>1. CASE n <= N
    <3>1. n \in 1 .. N /\ n - 1 \in 0 .. N /\ n \in 0 .. N
      BY <1>1, <2>1
    <3> DEFINE c == at[n - 1]
               e == at[n]
               l == Len(a[n])
    <3>2. /\ a[n] \in Text /\ l \in Nat /\ c \in Nat /\ e \in Nat
          /\ e = c + 1 + l /\ e <= K /\ A[c + 1] = "\\"
          /\ \A q \in 1 .. l : A[c + 1 + q] = a[n][q] /\ a[n][q] \in Chars /\ a[n][q] # "\\"
      BY <1>1, <3>1 DEF Laid
    <3>3. g[n] = a[n] /\ ct[n] = e /\ ct[n - 1] = c
      BY <1>2, <1>4, <3>1
    <3> HIDE DEF c, e, l, K, L, N, M
    <3>4. e <= Len(G) /\ c + 1 \in 1 .. K /\ \A q \in 1 .. l : c + 1 + q \in 1 .. K
      BY <1>1, <1>3, <3>2
    <3>5. G[c + 1] = "\\" /\ \A q \in 1 .. l : G[c + 1 + q] = a[n][q]
      BY <1>3, <3>2, <3>4, Zenon
    <3> QED  BY <3>2, <3>3, <3>4, <3>5 DEF l
  <2>2. CASE ~(n <= N)
    <3> DEFINE m == n - N
    <3>1. m \in 1 .. M /\ n = N + m /\ m \in 0 .. M /\ m - 1 \in 0 .. M /\ N + (m - 1) = n - 1
      BY <1>1, <2>2
    <3> HIDE DEF m
    <3> DEFINE c == bt[m - 1]
               e == bt[m]
               l == Len(b[m])
               r == ct[n - 1]
    <3>2. /\ b[m] \in Text /\ l \in Nat /\ c \in Nat /\ e \in Nat
          /\ e = c + 1 + l /\ e <= L /\ B[c + 1] = "\\"
          /\ \A q \in 1 .. l : B[c + 1 + q] = b[m][q] /\ b[m][q] \in Chars /\ b[m][q] # "\\"
      BY <1>1, <3>1 DEF Laid
    <3>3. g[n] = b[m] /\ ct[n] = K + e /\ r = K + c
      BY <1>2, <1>5, <3>1
    <3> HIDE DEF c, e, l, r, K, L, N, M
    <3>4. /\ ct[n] = r + 1 + l /\ ct[n] <= Len(G) /\ r + 1 = K + (c + 1) /\ c + 1 \in 1 .. L
          /\ \A q \in 1 .. l : c + 1 + q \in 1 .. L /\ r + 1 + q = K + (c + 1 + q)
      BY <1>1, <1>3, <3>2, <3>3
    <3>5. G[r + 1] = "\\" /\ \A q \in 1 .. l : G[r + 1 + q] = b[m][q]
      BY <1>3, <3>2, <3>4, Zenon
    <3> QED  BY <3>2, <3>3, <3>4, <3>5 DEF l, r
  <2> QED  BY <2>1, <2>2
<1>8. Laid(G, ct, g)
  <2>1. /\ Len(G) \in Nat /\ Len(g) \in Nat /\ Len(g) = N + M
        /\ ct[0] = 0 /\ ct[N + M] = Len(G)
    <3>1. 0 \in 0 .. N /\ M \in 0 .. M
      BY <1>1
    <3>2. ct[0] = 0 /\ ct[N + M] = K + L
      BY <1>1, <1>4, <1>5, <3>1
    <3> QED  BY <1>1, <1>2, <1>3, <3>2
  <2> QED  BY <1>6, <1>7, <2>1 DEF Laid
<1> QED  BY <1>2, <1>3, <1>8 DEF G, g

\* A name more behind a path.
LEMMA NameBehind ==
    ASSUME NEW a \in Seq(Part), NEW A \in Text, NEW at, Laid(A, at, a), NEW name \in Part
    PROVE  \E to : Laid(A \o <<"\\">> \o name, to, Append(a, name))
<1> DEFINE M == Len(a)
           D == Len(name)
           G == A \o <<"\\">> \o name
           g == Append(a, name)
           to == [m \in 0 .. M + 1 |-> IF m = M + 1 THEN Len(A) + 1 + D ELSE at[m]]
<1>1. /\ M \in Nat /\ Len(A) \in Nat /\ at[0] = 0 /\ at[M] = Len(A)
      /\ \A m \in 0 .. M : at[m] \in Nat
  BY DEF Laid
<1>2. name \in Text /\ D \in Nat /\ \A q \in 1 .. D : name[q] \in Chars /\ name[q] # "\\"
  BY PartIsText
<1>3. Len(g) = M + 1 /\ g[M + 1] = name /\ \A m \in 1 .. M : g[m] = a[m]
  BY AppendProperties
<1>4. /\ G \in Text /\ Len(G) = Len(A) + 1 + D
      /\ \A q \in 1 .. Len(A) : G[q] = A[q]
      /\ G[Len(A) + 1] = "\\"
      /\ \A q \in 1 .. D : G[Len(A) + 1 + q] = name[q]
  <2>1. "\\" \in Chars
    BY RulePathsAssumption
  <2> QED  BY <1>2, <2>1, OneMoreName, ZenonT(60)
<1> HIDE DEF G, g
<1>5. to[M + 1] = Len(A) + 1 + D /\ \A m \in 0 .. M : to[m] = at[m]
  <2>1. M + 1 \in 0 .. M + 1 /\ \A m \in 0 .. M : m # M + 1 /\ m \in 0 .. M + 1
    BY <1>1
  <2> QED  BY <2>1
<1> HIDE DEF to
<1>6. \A m \in 0 .. M + 1 : to[m] \in Nat
  <2> TAKE m \in 0 .. M + 1
  <2>1. m = M + 1 \/ m \in 0 .. M
    BY <1>1
  <2>2. Len(A) + 1 + D \in Nat
    BY <1>1, <1>2
  <2> QED  BY <1>1, <1>5, <2>1, <2>2
<1>7. ASSUME NEW m \in 1 .. M + 1
      PROVE  /\ g[m] \in Text /\ Len(g[m]) \in Nat
             /\ to[m] = to[m - 1] + 1 + Len(g[m]) /\ to[m] <= Len(G)
             /\ G[to[m - 1] + 1] = "\\"
             /\ \A q \in 1 .. Len(g[m]) :
                  /\ G[to[m - 1] + 1 + q] = g[m][q]
                  /\ g[m][q] \in Chars /\ g[m][q] # "\\"
  <2>1. CASE m = M + 1
    <3>1. m - 1 = M /\ to[m] = Len(A) + 1 + D /\ to[m - 1] = Len(A) /\ g[m] = name
      BY <1>1, <1>3, <1>5, <2>1
    <3> HIDE DEF D
    <3>2. to[m] <= Len(G)
      BY <1>1, <1>2, <1>4, <3>1 DEF D
    <3> QED  BY <1>2, <1>4, <3>1, <3>2 DEF D
  <2>2. CASE m # M + 1
    <3>1. m \in 1 .. M /\ m \in 0 .. M /\ m - 1 \in 0 .. M
      BY <1>1, <2>2
    <3> DEFINE c == at[m - 1]
               l == Len(a[m])
    <3>2. /\ a[m] \in Text /\ l \in Nat /\ c \in Nat
          /\ at[m] = c + 1 + l /\ at[m] <= Len(A) /\ A[c + 1] = "\\"
          /\ \A q \in 1 .. l : A[c + 1 + q] = a[m][q] /\ a[m][q] \in Chars /\ a[m][q] # "\\"
      BY <3>1 DEF Laid
    <3>3. g[m] = a[m] /\ to[m] = at[m] /\ to[m - 1] = c
      BY <1>3, <1>5, <3>1
    <3> HIDE DEF c, l, D
    <3>4. to[m] <= Len(G) /\ c + 1 \in 1 .. Len(A) /\ \A q \in 1 .. l : c + 1 + q \in 1 .. Len(A)
      <4>1. D \in Nat /\ Len(G) = Len(A) + 1 + D
        BY <1>2, <1>4 DEF D
      <4>2. to[m] = c + 1 + l /\ c + 1 + l <= Len(A) /\ c \in Nat /\ l \in Nat
        BY <3>2, <3>3
      <4> QED  BY <1>1, <4>1, <4>2
    <3>5. G[c + 1] = "\\" /\ \A q \in 1 .. l : G[c + 1 + q] = a[m][q]
      BY <1>4, <3>2, <3>4
    <3> QED  BY <3>2, <3>3, <3>4, <3>5 DEF l
  <2> QED  BY <2>1, <2>2
<1>8. Laid(G, to, g)
  <2>1. Len(G) \in Nat /\ Len(g) \in Nat /\ Len(g) = M + 1 /\ 0 \in 0 .. M
    BY <1>1, <1>2, <1>3, <1>4
  <2> QED  BY <1>1, <1>4, <1>5, <1>6, <1>7, <2>1 DEF Laid
<1> QED  BY <1>8 DEF G, g

\* A path whose last name goes on.
LEMMA LastNameLonger ==
    ASSUME NEW a, NEW A, NEW at, Laid(A, at, a), Len(a) > 0, NEW t \in Text,
           NEW b, Len(b) = Len(a), \A m \in 1 .. Len(a) - 1 : b[m] = a[m],
           b[Len(a)] \in Part, IsJoined(b[Len(a)], a[Len(a)], t),
           NEW G, IsJoined(G, A, t)
    PROVE  \E to : Laid(G, to, b)
<1> DEFINE M == Len(a)
           D == Len(t)
           to == [m \in 0 .. M |-> IF m = M THEN Len(A) + D ELSE at[m]]
<1>1. /\ M \in Nat /\ M > 0 /\ Len(A) \in Nat /\ at[0] = 0 /\ at[M] = Len(A)
      /\ \A m \in 0 .. M : at[m] \in Nat
  BY DEF Laid
<1>2. /\ D \in Nat /\ Len(G) = Len(A) + D
      /\ \A q \in 1 .. Len(A) : G[q] = A[q]
      /\ \A q \in 1 .. D : G[Len(A) + q] = t[q]
  BY DEF IsJoined
<1>3. to[M] = Len(A) + D /\ \A m \in 0 .. M - 1 : to[m] = at[m]
  <2>1. M \in 0 .. M /\ \A m \in 0 .. M - 1 : m \in 0 .. M /\ m # M
    BY <1>1
  <2> QED  BY <2>1
<1> HIDE DEF to
<1>4. \A m \in 0 .. M : to[m] \in Nat
  <2> TAKE m \in 0 .. M
  <2>1. m = M \/ m \in 0 .. M - 1
    BY <1>1
  <2>2. Len(A) + D \in Nat
    BY <1>1, <1>2
  <2> QED  BY <1>1, <1>3, <2>1, <2>2
<1>5. ASSUME NEW m \in 1 .. M
      PROVE  /\ b[m] \in Text /\ Len(b[m]) \in Nat
             /\ to[m] = to[m - 1] + 1 + Len(b[m]) /\ to[m] <= Len(G)
             /\ G[to[m - 1] + 1] = "\\"
             /\ \A q \in 1 .. Len(b[m]) :
                  /\ G[to[m - 1] + 1 + q] = b[m][q]
                  /\ b[m][q] \in Chars /\ b[m][q] # "\\"
  <2> DEFINE c == at[m - 1]
             l == Len(a[m])
  <2>1. m - 1 \in 0 .. M - 1 /\ m - 1 \in 0 .. M
    BY <1>1
  <2>2. /\ a[m] \in Text /\ l \in Nat /\ c \in Nat
        /\ at[m] = c + 1 + l /\ at[m] <= Len(A) /\ A[c + 1] = "\\"
        /\ \A q \in 1 .. l : A[c + 1 + q] = a[m][q] /\ a[m][q] \in Chars /\ a[m][q] # "\\"
    BY <2>1 DEF Laid
  <2>3. to[m - 1] = c
    BY <1>3, <2>1
  <2> HIDE DEF c, l, D
  <2>4. c + 1 \in 1 .. Len(A) /\ \A q \in 1 .. l : c + 1 + q \in 1 .. Len(A)
    BY <1>1, <2>2
  <2>5. G[c + 1] = "\\" /\ \A q \in 1 .. l : G[c + 1 + q] = a[m][q]
    BY <1>2, <2>2, <2>4
  <2>6. CASE m # M
    <3>1. m \in 1 .. M - 1 /\ m \in 0 .. M - 1
      BY <1>1, <2>6
    <3>2. b[m] = a[m] /\ to[m] = at[m]
      BY <1>3, <3>1
    <3>3. to[m] <= Len(G)
      <4>1. D \in Nat /\ Len(G) = Len(A) + D
        BY <1>2
      <4>2. to[m] = c + 1 + l /\ c + 1 + l <= Len(A) /\ c \in Nat /\ l \in Nat
        BY <2>2, <3>2
      <4> QED  BY <1>1, <4>1, <4>2
    <3> QED  BY <2>2, <2>3, <2>5, <3>2, <3>3 DEF l
  <2>7. CASE m = M
    <3>1. /\ b[m] \in Text /\ Len(b[m]) = l + D /\ Len(b[m]) \in Nat
          /\ \A q \in 1 .. Len(b[m]) : b[m][q] \in Chars /\ b[m][q] # "\\"
          /\ \A q \in 1 .. l : b[m][q] = a[m][q]
          /\ \A q \in 1 .. D : b[m][l + q] = t[q]
      <4>1. IsJoined(b[m], a[m], t) /\ b[m] \in Part
        BY <2>7
      <4> QED  BY <4>1, PartIsText DEF IsJoined, l, D
    <3>2. Len(A) = c + 1 + l
      BY <1>1, <2>2, <2>7
    <3>3. to[m] = c + 1 + Len(b[m]) /\ to[m] = Len(G)
      <4>1. to[m] = Len(A) + D /\ Len(G) = Len(A) + D /\ D \in Nat
        BY <1>2, <1>3, <2>7
      <4> QED  BY <2>2, <3>1, <3>2, <4>1
    <3>4. ASSUME NEW q \in 1 .. Len(b[m]) PROVE G[c + 1 + q] = b[m][q]
      <4>1. CASE q <= l
        <5>1. q \in 1 .. l
          BY <2>2, <3>1, <4>1
        <5> QED  BY <2>5, <3>1, <5>1
      <4>2. CASE ~(q <= l)
        <5> DEFINE r == q - l
        <5>1. r \in 1 .. D /\ l + r = q /\ Len(A) + r = c + 1 + q
          BY <1>2, <2>2, <3>1, <3>2, <4>2
        <5> HIDE DEF r
        <5> QED  BY <1>2, <3>1, <5>1
      <4> QED  BY <4>1, <4>2
    <3>5. to[m] <= Len(G)
      BY <1>1, <1>2, <3>3
    <3> QED  BY <2>3, <2>5, <3>1, <3>3, <3>4, <3>5
  <2> QED  BY <2>6, <2>7
<1>6. Laid(G, to, b)
  <2>1. Len(G) \in Nat /\ Len(b) \in Nat /\ 0 \in 0 .. M - 1 /\ to[M] = Len(G)
    BY <1>1, <1>2, <1>3
  <2> QED  BY <1>1, <1>3, <1>4, <1>5, <2>1 DEF Laid
<1> QED  BY <1>6

----------------------------------------------------------------------------
(* string_utils.rs. *)

\* A text in upper case, character by character.
LEMMA UpperText ==
    ASSUME NEW x \in Text
    PROVE  /\ Upper(x) \in Text /\ Len(Upper(x)) = Len(x) /\ Len(x) \in Nat
           /\ \A q \in 1 .. Len(x) : /\ Upper(x)[q] = Upcased[x[q]]
                                    /\ x[q] \in Chars /\ Upper(x)[q] \in Chars
<1>1. x \in Seq(Chars) /\ Len(x) \in Nat /\ DOMAIN x = 1 .. Len(x)
  BY LenProperties DEF Text
<1>2. \A q \in 1 .. Len(x) : x[q] \in Chars /\ Upcased[x[q]] \in Chars
  BY <1>1, ElementOfSeq, RulePathsAssumption
<1>3. Upper(x) = [q \in 1 .. Len(x) |-> Upcased[x[q]]]
  BY <1>1 DEF Upper
<1> DEFINE u == [q \in 1 .. Len(x) |-> Upcased[x[q]]]
<1>4. u \in Seq(Chars) /\ Len(u) = Len(x)
  BY <1>1, <1>2, IsASeq, LenProperties
<1> QED  BY <1>1, <1>2, <1>3, <1>4 DEF Text

\* Equal whatever the case (equals_no_case).
LEMMA EqualTexts ==
    ASSUME NEW x \in Text, NEW y \in Text
    PROVE  equals_no_case(x, y) <=> Similar(x, y)
<1>1. /\ Upper(x) \in Text /\ Len(Upper(x)) = Len(x) /\ Len(x) \in Nat
      /\ \A q \in 1 .. Len(x) : Upper(x)[q] = Upcased[x[q]]
  BY UpperText
<1>2. /\ Upper(y) \in Text /\ Len(Upper(y)) = Len(y) /\ Len(y) \in Nat
      /\ \A q \in 1 .. Len(y) : Upper(y)[q] = Upcased[y[q]]
  BY UpperText
<1>3. Similar(x, y) => Upper(x) = Upper(y)
  <2> SUFFICES ASSUME Similar(x, y) PROVE Upper(x) = Upper(y)
    OBVIOUS
  <2>1. Len(Upper(x)) = Len(Upper(y)) /\ \A q \in 1 .. Len(Upper(x)) : Upper(x)[q] = Upper(y)[q]
    BY <1>1, <1>2 DEF Similar
  <2> QED  BY <1>1, <1>2, <2>1, SeqEqual DEF Text
<1>4. Upper(x) = Upper(y) => Similar(x, y)
  BY <1>1, <1>2 DEF Similar
<1> QED  BY <1>3, <1>4 DEF equals_no_case

\* A prefix whatever the case (starts_with_no_case).
LEMMA PrefixOccurs ==
    ASSUME NEW x \in Text, NEW y \in Text
    PROVE  starts_with_no_case(x, y) <=> Occurs(y, x, 0)
<1>1. /\ Upper(x) \in Text /\ Len(Upper(x)) = Len(x) /\ Len(x) \in Nat
      /\ \A q \in 1 .. Len(x) : Upper(x)[q] = Upcased[x[q]] /\ Upper(x)[q] \in Chars
  BY UpperText
<1>2. /\ Upper(y) \in Text /\ Len(Upper(y)) = Len(y) /\ Len(y) \in Nat
      /\ \A q \in 1 .. Len(y) : Upper(y)[q] = Upcased[y[q]] /\ Upper(y)[q] \in Chars
  BY UpperText
<1> DEFINE n == Len(y)
           s == SubSeq(Upper(y), 1, n)
           t == SubSeq(Upper(x), 1, n)
<1>3. starts_with_no_case(x, y) <=> n <= Len(x) /\ s = t
  BY <1>1, <1>2 DEF starts_with_no_case, IsPrefix
<1>4. ASSUME n <= Len(x)
      PROVE  /\ s \in Seq(Chars) /\ t \in Seq(Chars) /\ Len(s) = n /\ Len(t) = n
             /\ \A q \in 1 .. n : s[q] = Upcased[y[q]] /\ t[q] = Upcased[x[q]]
  <2>1. /\ \A q \in 1 .. n : Upper(y)[q] \in Chars
        /\ \A q \in 1 .. n : Upper(x)[q] \in Chars /\ q \in 1 .. Len(x)
        /\ 1 \in Int /\ n \in Int
    BY <1>1, <1>2, <1>4
  <2>2. /\ s \in Seq(Chars) /\ Len(s) = (IF 1 <= n THEN n - 1 + 1 ELSE 0)
        /\ \A i \in 1 .. n - 1 + 1 : s[i] = Upper(y)[1 + i - 1]
    BY <2>1, SubSeqProperties
  <2>3. /\ t \in Seq(Chars) /\ Len(t) = (IF 1 <= n THEN n - 1 + 1 ELSE 0)
        /\ \A i \in 1 .. n - 1 + 1 : t[i] = Upper(x)[1 + i - 1]
    BY <2>1, SubSeqProperties
  <2>4. n - 1 + 1 = n /\ (\A i \in 1 .. n : 1 + i - 1 = i) /\ (IF 1 <= n THEN n - 1 + 1 ELSE 0) = n
    BY <1>2
  <2> HIDE DEF s, t, n
  <2> QED  BY <1>1, <1>2, <2>1, <2>2, <2>3, <2>4 DEF n
<1>5. ASSUME n <= Len(x) PROVE s = t <=> \A q \in 1 .. n : Upcased[x[q]] = Upcased[y[q]]
  <2> HIDE DEF s, t
  <2> QED  BY <1>4, <1>5, SeqEqual
<1>6. \A q \in 1 .. n : 0 + q = q
  BY <1>2
<1>7. 0 + n = n
  BY <1>2
<1> HIDE DEF s, t
<1> QED  BY <1>3, <1>5, <1>6, <1>7 DEF Occurs

\* The last place of a character (last_index_of).
LEMMA LastIndex ==
    ASSUME NEW x \in Text, NEW ch, NEW p \in 1 .. Len(x), x[p] = ch,
           \A q \in 1 .. Len(x) : p < q => x[q] # ch
    PROVE  last_index_of(x, ch) = p - 1
<1> DEFINE I == {i \in 1 .. Len(x) : x[i] = ch}
<1>1. Len(x) \in Nat
  BY LenProperties DEF Text
<1>2. p \in I /\ \A i \in I : p >= i
  BY <1>1
<1>3. \A i \in I : (\A j \in I : i >= j) => i = p
  BY <1>1, <1>2
<1>4. last_index_of(x, ch) = (IF I # {} THEN Max(I) ELSE 0) - 1
  BY DEF last_index_of, SelectLastInSeq
<1>5. Max(I) = p
  <2> HIDE DEF I
  <2> QED  BY <1>2, <1>3 DEF Max
<1> QED  BY <1>2, <1>4, <1>5

\* There is none.
LEMMA NoIndex ==
    ASSUME NEW x \in Text, NEW ch, \A q \in 1 .. Len(x) : x[q] # ch
    PROVE  last_index_of(x, ch) = -1
<1> DEFINE I == {i \in 1 .. Len(x) : x[i] = ch}
<1>1. I = {}
  OBVIOUS
<1>2. last_index_of(x, ch) = (IF I # {} THEN Max(I) ELSE 0) - 1
  BY DEF last_index_of, SelectLastInSeq
<1> QED  BY <1>1, <1>2

\* What is cut out of a sequence.
LEMMA CutOut ==
    ASSUME NEW S, NEW x \in Seq(S), NEW m \in 0 .. Len(x), NEW n \in m .. Len(x)
    PROVE  /\ SubSeq(x, m + 1, n) \in Seq(S) /\ Len(SubSeq(x, m + 1, n)) = n - m
           /\ \A q \in 1 .. n - m : SubSeq(x, m + 1, n)[q] = x[m + q]
<1>1. Len(x) \in Nat
  BY LenProperties
<1> DEFINE s == SubSeq(x, m + 1, n)
           l == m + 1
<1>2. l \in Int /\ n \in Int /\ \A i \in l .. n : x[i] \in S
  <2>1. \A i \in l .. n : i \in 1 .. Len(x)
    BY <1>1
  <2> QED  BY <1>1, <2>1, ElementOfSeq
<1> HIDE DEF l
<1>3. /\ SubSeq(x, l, n) \in Seq(S)
      /\ Len(SubSeq(x, l, n)) = (IF l <= n THEN n - l + 1 ELSE 0)
      /\ \A i \in 1 .. n - l + 1 : SubSeq(x, l, n)[i] = x[l + i - 1]
  BY <1>2, SubSeqProperties
<1>4. n - l + 1 = n - m /\ (IF l <= n THEN n - l + 1 ELSE 0) = n - m
  BY <1>1 DEF l
<1>5. \A i \in 1 .. n - m : l + i - 1 = m + i
  BY <1>1 DEF l
<1>6. /\ SubSeq(x, l, n) \in Seq(S) /\ Len(SubSeq(x, l, n)) = n - m
      /\ \A i \in 1 .. n - m : SubSeq(x, l, n)[i] = x[m + i]
  BY <1>3, <1>4, <1>5
<1> QED  BY <1>6 DEF l

\* What is cut out of a text.
LEMMA Cut ==
    ASSUME NEW x \in Text, NEW m \in 0 .. Len(x), NEW n \in m .. Len(x)
    PROVE  /\ SubSeq(x, m + 1, n) \in Text /\ Len(SubSeq(x, m + 1, n)) = n - m
           /\ \A q \in 1 .. n - m : SubSeq(x, m + 1, n)[q] = x[m + q]
BY CutOut, Zenon DEF Text

----------------------------------------------------------------------------
(* Keys. *)

\* Names are names of parts.
LEMMA NamesAreParts ==
    /\ Name \subseteq Part /\ << >> \in Part
    /\ Seq(Name) \subseteq Seq(Part) /\ Seq(Name \union {<< >>}) \subseteq Seq(Part)
<1>1. Name \subseteq Part /\ << >> \in Part
  BY DEF Name, Part
<1>2. Name \union {<< >>} \subseteq Part
  BY <1>1
<1> QED  BY <1>1, <1>2, SeqMonotonic

\* Alike name by name.
LEMMA AlikeNames ==
    ASSUME NEW f \in Seq(Part), NEW a \in Seq(Part)
    PROVE  Alike(f, a) <=> Len(f) = Len(a) /\ \A m \in 1 .. Len(a) : Similar(f[m], a[m])
<1>1. DOMAIN f = 1 .. Len(f)
  BY LenProperties
<1>2. \A m \in 1 .. Len(f) : f[m] \in Part
  BY ElementOfSeq
<1>3. \A m \in 1 .. Len(a) : a[m] \in Part
  BY ElementOfSeq
<1>4. ASSUME Len(f) = Len(a), NEW m \in 1 .. Len(a)
      PROVE  equals_no_case(f[m], a[m]) <=> Similar(f[m], a[m])
  BY <1>2, <1>3, <1>4, EqualTexts, PartIsText
<1> QED  BY <1>1, <1>4 DEF Alike

\* A path starts with another, up to the end of a name, exactly if its first
\* names are the other's.
LEMMA NamesMeet ==
    ASSUME NEW f, NEW F, NEW to, Laid(F, to, f), NEW a, NEW A, NEW at, Laid(A, at, a),
           F \in Text, A \in Text, Len(a) > 0, NEW j \in 0 .. Len(f)
    PROVE  Occurs(A, F, 0) /\ Len(A) = to[j] <=>
             Len(a) = j /\ \A m \in 1 .. j : Similar(f[m], a[m])
<1>1. /\ Len(f) \in Nat /\ Len(a) \in Nat /\ Len(A) \in Nat /\ to[0] = 0
      /\ 0 \in 0 .. Len(f) /\ 0 + Len(A) = Len(A) /\ 0 \in Nat
  BY DEF Laid
<1>2. ASSUME Occurs(A, F, 0), Len(A) = to[j]
      PROVE  Len(a) = j /\ \A m \in 1 .. j : Similar(f[m], a[m])
  <2>1. 0 + Len(A) = to[j]
    BY <1>1, <1>2
  <2>2. PICK i \in 0 .. Len(f) - 1 :
               /\ to[i] = 0 /\ i + Len(a) = j
               /\ \A m \in 1 .. Len(a) : Similar(f[i + m], a[m])
    BY <1>1, <1>2, <2>1, OccurrenceIsWhole
  <2>3. i = 0
    <3>1. 0 < i => to[0] < to[i]
      BY <1>1, NamesInOrder
    <3>2. i \in Nat
      OBVIOUS
    <3> QED  BY <1>1, <2>2, <3>1, <3>2
  <2>4. \A m \in 1 .. Len(a) : 0 + m = m
    OBVIOUS
  <2> QED  BY <1>1, <2>2, <2>3, <2>4
<1>3. ASSUME Len(a) = j, \A m \in 1 .. j : Similar(f[m], a[m])
      PROVE  Occurs(A, F, 0) /\ Len(A) = to[j]
  <2>1. /\ 0 + Len(a) <= Len(f) /\ 0 + Len(a) = j
        /\ \A m \in 1 .. Len(a) : Similar(f[0 + m], a[m])
    BY <1>1, <1>3
  <2> DEFINE i == 0
  <2>0. /\ i \in 0 .. Len(f) /\ i + Len(a) <= Len(f)
        /\ \A m \in 1 .. Len(a) : Similar(f[i + m], a[m])
    BY <1>1, <2>1
  <2> HIDE DEF i
  <2>3. Occurs(A, F, to[i]) /\ to[i] + Len(A) = to[i + Len(a)]
    BY <2>0, NamesOccur
  <2>2. Occurs(A, F, to[0]) /\ to[0] + Len(A) = to[0 + Len(a)]
    BY <2>3 DEF i
  <2> QED  BY <1>1, <2>1, <2>2
<1> QED  BY <1>2, <1>3

\* A text, a character and another text at the start of a third.
LEMMA PiecesOccur ==
    ASSUME NEW A \in Text, NEW c \in Chars, NEW t \in Text, NEW F \in Text,
           NEW e \in 0 .. Len(F),
           NEW X, Len(X) = e - Len(A) - 1,
           \A q \in 1 .. e - Len(A) - 1 : X[q] = F[Len(A) + 1 + q]
    PROVE  Occurs(A \o <<c>> \o t, F, 0) /\ Len(A \o <<c>> \o t) = e <=>
             /\ Occurs(A, F, 0) /\ Len(A) < e
             /\ Upcased[F[Len(A) + 1]] = Upcased[c] /\ Similar(X, t)
<1> DEFINE G == A \o <<c>> \o t
           R == Len(A)
           D == Len(t)
<1>1. /\ G \in Text /\ Len(G) = R + 1 + D
      /\ \A q \in 1 .. R : G[q] = A[q]
      /\ G[R + 1] = c
      /\ \A q \in 1 .. D : G[R + 1 + q] = t[q]
  BY OneMoreName, ZenonT(60)
<1>2. R \in Nat /\ D \in Nat /\ Len(F) \in Nat
  BY LenProperties DEF Text
<1>3. Len(X) = e - R - 1 /\ \A q \in 1 .. e - R - 1 : X[q] = F[R + 1 + q]
  OBVIOUS
<1> HIDE DEF G, R, D
<1>4. Occurs(G, F, 0) <=> Len(G) <= Len(F) /\ \A q \in 1 .. Len(G) : Upcased[F[q]] = Upcased[G[q]]
  <2>1. Len(G) \in Nat /\ \A q \in 1 .. Len(G) : 0 + q = q
    BY <1>1, <1>2
  <2> QED  BY <2>1 DEF Occurs
<1>5. Occurs(A, F, 0) <=> R <= Len(F) /\ \A q \in 1 .. R : Upcased[F[q]] = Upcased[A[q]]
  <2>1. \A q \in 1 .. R : 0 + q = q
    BY <1>2
  <2> QED  BY <1>2, <2>1 DEF Occurs, R
<1>6. ASSUME Occurs(G, F, 0), Len(G) = e
      PROVE  /\ Occurs(A, F, 0) /\ R < e
             /\ Upcased[F[R + 1]] = Upcased[c] /\ Similar(X, t)
  <2>1. e = R + 1 + D /\ e - R - 1 = D /\ R < e /\ R <= Len(F)
    BY <1>1, <1>2, <1>6
  <2>2. /\ R + 1 \in 1 .. Len(G) /\ \A q \in 1 .. R : q \in 1 .. Len(G)
        /\ \A q \in 1 .. D : R + 1 + q \in 1 .. Len(G)
    BY <1>1, <1>2
  <2>3. Similar(X, t)
    <3>1. Len(X) = D
      BY <1>3, <2>1
    <3>2. ASSUME NEW q \in 1 .. D PROVE Upcased[X[q]] = Upcased[t[q]]
      <4>1. X[q] = F[R + 1 + q]
        BY <1>3, <2>1
      <4>2. Upcased[F[R + 1 + q]] = Upcased[G[R + 1 + q]]
        BY <1>4, <1>6, <2>2
      <4> QED  BY <1>1, <4>1, <4>2
    <3> QED  BY <3>1, <3>2 DEF Similar, D
  <2> QED  BY <1>1, <1>4, <1>5, <1>6, <2>1, <2>2, <2>3
<1>7. ASSUME Occurs(A, F, 0), R < e, Upcased[F[R + 1]] = Upcased[c], Similar(X, t)
      PROVE  Occurs(G, F, 0) /\ Len(G) = e
  <2>1. D = e - R - 1 /\ \A q \in 1 .. D : Upcased[X[q]] = Upcased[t[q]]
    BY <1>3, <1>7 DEF Similar, D
  <2>2. Len(G) = e /\ Len(G) <= Len(F)
    BY <1>1, <1>2, <1>7, <2>1
  <2>3. ASSUME NEW q \in 1 .. Len(G) PROVE Upcased[F[q]] = Upcased[G[q]]
    <3>1. CASE q <= R
      <4>1. q \in 1 .. R
        BY <1>2, <3>1
      <4> QED  BY <1>1, <1>5, <1>7, <4>1
    <3>2. CASE q = R + 1
      BY <1>1, <1>7, <3>2
    <3>3. CASE R + 1 < q
      <4> DEFINE r == q - (R + 1)
      <4>1. r \in 1 .. D /\ R + 1 + r = q
        BY <1>1, <1>2, <3>3
      <4> HIDE DEF r
      <4>2. X[r] = F[R + 1 + r] /\ G[R + 1 + r] = t[r]
        BY <1>1, <1>3, <2>1, <4>1
      <4> QED  BY <2>1, <4>1, <4>2
    <3>4. q <= R \/ q = R + 1 \/ R + 1 < q
      BY <1>1, <1>2
    <3> QED  BY <3>1, <3>2, <3>3, <3>4
  <2> QED  BY <1>4, <2>2, <2>3
<1> QED  BY <1>6, <1>7 DEF G, R

\* The first names of some.
LEMMA FirstNames ==
    ASSUME NEW f \in Seq(Part), NEW n \in 0 .. Len(f)
    PROVE  /\ Upto(f, n) \in Seq(Part) /\ Len(Upto(f, n)) = n
           /\ \A q \in 1 .. n : Upto(f, n)[q] = f[q]
<1>1. Len(f) \in Nat
  BY LenProperties
<1>2. 1 \in Int /\ n \in Int /\ \A i \in 1 .. n : f[i] \in Part
  <2>1. \A i \in 1 .. n : i \in 1 .. Len(f)
    BY <1>1
  <2> QED  BY <1>1, <2>1, ElementOfSeq
<1>3. /\ SubSeq(f, 1, n) \in Seq(Part)
      /\ Len(SubSeq(f, 1, n)) = (IF 1 <= n THEN n - 1 + 1 ELSE 0)
      /\ \A i \in 1 .. n - 1 + 1 : SubSeq(f, 1, n)[i] = f[1 + i - 1]
  BY <1>2, SubSeqProperties
<1>4. n - 1 + 1 = n /\ (IF 1 <= n THEN n - 1 + 1 ELSE 0) = n /\ \A i \in 1 .. n : 1 + i - 1 = i
  BY <1>1
<1> QED  BY <1>3, <1>4 DEF Upto

\* The path of the rules key.
LEMMA RootPath ==
    /\ Root \in Seq(Part) /\ Len(Root) \in Nat /\ Len(Root) > 0
    /\ Root[Len(Root)] \in Part
    /\ PathText(Root) \in Text /\ \E at : Laid(PathText(Root), at, Root)
<1>1. Root \in Seq(Part) /\ Root # << >>
  BY SpellingAssumption, NamesAreParts
<1>2. Len(Root) \in Nat /\ Len(Root) > 0
  BY <1>1, LenProperties
<1>3. Root[Len(Root)] \in Part
  BY <1>1, <1>2, ElementOfSeq
<1> QED  BY <1>1, <1>2, <1>3, PathLaid

\* The name of a type.
LEMMA TypeName ==
    ASSUME NEW t \in RuleTypes
    PROVE  TypeNames[t] \in Name /\ TypeNames[t] \in Part /\ TypeNames[t] \in Text
BY SpellingAssumption, NamesAreParts, PartIsText

\* The path of the rules key, a separator and a type are the path of a type's key.
LEMMA TypeKeyOccurs ==
    ASSUME NEW key \in Seq(Part), Len(key) > 0, NEW F \in Text, NEW to, Laid(F, to, key),
           NEW t \in RuleTypes
    PROVE  LET G == PathText(Root) \o <<"\\">> \o TypeNames[t]
           IN  Occurs(G, F, 0) /\ Len(G) = to[Len(key) - 1] <=> IsRuleKey(key, t)
<1> DEFINE n == Len(Root)
           N == Len(key)
           A == PathText(Root)
           T == TypeNames[t]
           G == A \o <<"\\">> \o T
           b == Append(Root, T)
<1>1. Root \in Seq(Part) /\ n \in Nat /\ A \in Text /\ T \in Part /\ T \in Text
      /\ "\\" \in Chars
  BY RootPath, TypeName, RulePathsAssumption
<1>2. N \in Nat /\ N > 0
  BY LenProperties
<1>3. PICK at : Laid(A, at, Root)
  BY RootPath
<1> HIDE DEF A, T
<1>4. PICK bt : Laid(G, bt, b)
  BY <1>1, <1>3, NameBehind
<1>5. G \in Text
  BY <1>1, OneMoreName
<1>6. b \in Seq(Part) /\ Len(b) = n + 1
  BY <1>1, AppendProperties
<1> HIDE DEF b, G
<1>7. Occurs(G, F, 0) /\ Len(G) = to[N - 1] <=>
        n + 1 = N - 1 /\ \A m \in 1 .. N - 1 : Similar(key[m], b[m])
  <2> DEFINE j == N - 1
  <2>1. j \in 0 .. Len(key) /\ Len(b) > 0
    BY <1>1, <1>2, <1>6
  <2> HIDE DEF j
  <2>2. Occurs(G, F, 0) /\ Len(G) = to[j] <=>
          Len(b) = j /\ \A m \in 1 .. j : Similar(key[m], b[m])
    BY <1>4, <1>5, <2>1, NamesMeet
  <2> QED  BY <1>6, <2>2 DEF j
<1>8. ASSUME N = n + 2
      PROVE  Alike(Upto(key, n + 1), b) <=> \A m \in 1 .. n + 1 : Similar(key[m], b[m])
  <2> DEFINE u == Upto(key, n + 1)
  <2>1. n + 1 \in 0 .. Len(key)
    BY <1>1, <1>8
  <2>2. u \in Seq(Part) /\ Len(u) = n + 1 /\ \A q \in 1 .. n + 1 : u[q] = key[q]
    BY <2>1, FirstNames
  <2> HIDE DEF u
  <2>3. Alike(u, b) <=> Len(u) = Len(b) /\ \A m \in 1 .. Len(b) : Similar(u[m], b[m])
    BY <1>6, <2>2, AlikeNames
  <2>4. Alike(u, b) <=> \A m \in 1 .. n + 1 : Similar(key[m], b[m])
    BY <1>6, <2>2, <2>3
  <2> QED  BY <2>4 DEF u
<1>9. n + 1 = N - 1 <=> N = n + 2
  BY <1>1, <1>2
<1>10. Occurs(G, F, 0) /\ Len(G) = to[N - 1] <=> N = n + 2 /\ Alike(Upto(key, n + 1), b)
  <2>1. N = n + 2 => N - 1 = n + 1
    BY <1>1, <1>2
  <2> QED  BY <1>7, <1>8, <1>9, <2>1
<1>11. IsRuleKey(key, t) <=> N = n + 2 /\ Alike(Upto(key, n + 1), b)
  BY DEF IsRuleKey, b, T
<1> QED  BY <1>10, <1>11 DEF G, A, T

\* With another character they are the path of a key whose name continues the
\* name of the rules key.
LEMMA TakenKeyOccurs ==
    ASSUME NEW key \in Seq(Part), Len(key) > 0, NEW F \in Text, NEW to, Laid(F, to, key),
           NEW t \in RuleTypes, NEW c \in Chars, c # "\\"
    PROVE  LET n == Len(Root)
               G == PathText(Root) \o <<c>> \o TypeNames[t]
           IN  Occurs(G, F, 0) /\ Len(G) = to[Len(key) - 1] <=>
                 /\ Len(key) = n + 1 /\ Alike(Upto(key, n - 1), Upto(Root, n - 1))
                 /\ equals_no_case(key[n], Root[n] \o <<c>> \o TypeNames[t])
<1> DEFINE n == Len(Root)
           N == Len(key)
           A == PathText(Root)
           T == TypeNames[t]
           G == A \o <<c>> \o T
           r == Root[n]
           w == r \o <<c>> \o T
           b == [Root EXCEPT ![n] = w]
           s == <<c>> \o T
<1>1. /\ Root \in Seq(Part) /\ n \in Nat /\ n > 0 /\ A \in Text /\ T \in Part /\ T \in Text
      /\ r \in Part /\ r \in Text
  BY RootPath, TypeName, PartIsText
<1>2. N \in Nat /\ N > 0
  BY LenProperties
<1>3. PICK at : Laid(A, at, Root)
  BY RootPath
<1> HIDE DEF A, T
<1>4. <<c>> \in Part /\ <<c>> \in Text /\ s \in Part /\ s \in Text
  <2>1. <<c>> \in Seq(Chars \ {"\\"}) /\ <<c>> \in Seq(Chars)
    OBVIOUS
  <2>2. T \in Seq(Chars \ {"\\"}) /\ T \in Seq(Chars)
    BY <1>1 DEF Part, Text
  <2> QED  BY <2>1, <2>2, ConcatProperties, Zenon DEF Part, Text
<1>5. G = A \o s /\ w = r \o s
  <2>1. A \in Seq(Chars) /\ r \in Seq(Chars) /\ <<c>> \in Seq(Chars) /\ T \in Seq(Chars)
    BY <1>1, <1>4 DEF Text
  <2> DEFINE one == <<c>>
  <2>2. one \in Seq(Chars)
    BY <2>1
  <2> HIDE DEF r, n, one
  <2>3. (A \o one) \o T = A \o (one \o T)
    BY <2>1, <2>2, ConcatAssociative, SMTT(30)
  <2>4. (r \o one) \o T = r \o (one \o T)
    BY <2>1, <2>2, ConcatAssociative, SMTT(30)
  <2> QED  BY <2>3, <2>4 DEF one
<1>6. G \in Text /\ IsJoined(G, A, s) /\ w \in Part /\ w \in Text /\ IsJoined(w, r, s)
  <2>1. A \in Seq(Chars) /\ s \in Seq(Chars) /\ r \in Seq(Chars \ {"\\"}) /\ s \in Seq(Chars \ {"\\"})
    BY <1>1, <1>4 DEF Text, Part
  <2> HIDE DEF r, s, n, w, G
  <2>2. A \o s \in Seq(Chars) /\ IsJoined(A \o s, A, s)
    BY <2>1, Joined, Zenon
  <2>3. r \o s \in Seq(Chars \ {"\\"}) /\ IsJoined(r \o s, r, s)
    BY <2>1, Joined, Zenon
  <2> QED  BY <1>5, <2>2, <2>3, PartIsText DEF Text, Part
<1>7. Len(b) = n /\ b[n] = w /\ \A m \in 1 .. n - 1 : b[m] = Root[m]
  <2> HIDE DEF w
  <2>1. DOMAIN Root = 1 .. n /\ n \in 1 .. n /\ \A m \in 1 .. n - 1 : m # n /\ m \in 1 .. n
    BY <1>1, LenProperties
  <2>2. b[n] = w /\ \A m \in 1 .. n - 1 : b[m] = Root[m]
    BY <2>1
  <2>3. b \in Seq(Part) /\ Len(b) = n
    BY <1>1, <1>6, ExceptSeq
  <2> QED  BY <2>2, <2>3
<1> HIDE DEF b, G, w, s
<1>8. PICK bt : Laid(G, bt, b)
  BY <1>1, <1>3, <1>4, <1>6, <1>7, LastNameLonger
<1>9. Occurs(G, F, 0) /\ Len(G) = to[N - 1] <=>
        n = N - 1 /\ \A m \in 1 .. N - 1 : Similar(key[m], b[m])
  <2> DEFINE j == N - 1
  <2>1. j \in 0 .. Len(key) /\ Len(b) > 0
    BY <1>1, <1>2, <1>7
  <2> HIDE DEF j
  <2>2. Occurs(G, F, 0) /\ Len(G) = to[j] <=>
          Len(b) = j /\ \A m \in 1 .. j : Similar(key[m], b[m])
    BY <1>6, <1>8, <2>1, NamesMeet
  <2> QED  BY <1>7, <2>2 DEF j
<1>10. n = N - 1 <=> N = n + 1
  BY <1>1, <1>2
<1>11. ASSUME N = n + 1
       PROVE  (\A m \in 1 .. n : Similar(key[m], b[m])) <=>
                 Alike(Upto(key, n - 1), Upto(Root, n - 1)) /\ equals_no_case(key[n], w)
  <2> DEFINE l == n - 1
             u == Upto(key, l)
             v == Upto(Root, l)
  <2>1. l \in 0 .. Len(key) /\ l \in 0 .. Len(Root) /\ n \in 1 .. Len(key) /\ n \in 1 .. n
        /\ \A m \in 1 .. l : m \in 1 .. n /\ m \in 1 .. n - 1
    BY <1>1, <1>11
  <2>2. u \in Seq(Part) /\ Len(u) = l /\ \A q \in 1 .. l : u[q] = key[q]
    BY <2>1, FirstNames
  <2>3. v \in Seq(Part) /\ Len(v) = l /\ \A q \in 1 .. l : v[q] = Root[q]
    BY <1>1, <2>1, FirstNames
  <2> HIDE DEF u, v
  <2>4. Alike(u, v) <=> Len(u) = Len(v) /\ \A m \in 1 .. Len(v) : Similar(u[m], v[m])
    BY <2>2, <2>3, AlikeNames
  <2>5. Alike(u, v) <=> \A m \in 1 .. l : Similar(key[m], b[m])
    BY <1>7, <2>1, <2>2, <2>3, <2>4
  <2>6. equals_no_case(key[n], w) <=> Similar(key[n], b[n])
    <3>1. key[n] \in Part
      BY <2>1, ElementOfSeq
    <3>2. key[n] \in Text
      BY <3>1, PartIsText
    <3> QED  BY <1>6, <1>7, <3>2, EqualTexts
  <2>7. \A m \in 1 .. n : m \in 1 .. l \/ m = n
    BY <1>1
  <2>8. (\A m \in 1 .. n : Similar(key[m], b[m])) <=> Alike(u, v) /\ equals_no_case(key[n], w)
    BY <2>1, <2>5, <2>6, <2>7
  <2> QED  BY <2>8 DEF u, v
<1>12. Occurs(G, F, 0) /\ Len(G) = to[N - 1] <=>
         /\ N = n + 1 /\ Alike(Upto(key, n - 1), Upto(Root, n - 1))
         /\ equals_no_case(key[n], w)
  <2>1. N = n + 1 => N - 1 = n
    BY <1>1, <1>2
  <2> QED  BY <1>9, <1>10, <1>11, <2>1
<1> QED  BY <1>12 DEF G, A, T, w

\* What is behind the last separator of a path is its last name.
LEMMA LastNameCut ==
    ASSUME NEW f \in Seq(Part), Len(f) > 0, NEW F \in Text, NEW to, Laid(F, to, f)
    PROVE  LET e == to[Len(f) - 1]
           IN  /\ e \in Nat /\ e + 1 \in 1 .. Len(F) /\ Len(F) \in Nat /\ F[e + 1] = "\\"
               /\ \A q \in 1 .. Len(F) : e + 1 < q => F[q] # "\\"
               /\ substr(F, e + 1) = f[Len(f)]
<1> DEFINE N == Len(f)
           e == to[N - 1]
           name == f[N]
           l == Len(name)
<1>1. N \in 1 .. N /\ N - 1 \in 0 .. N /\ N \in Nat
  BY LenProperties
<1>2. /\ e \in Nat /\ l \in Nat /\ Len(F) \in Nat /\ Len(F) = e + 1 + l /\ F[e + 1] = "\\"
      /\ name \in Text
      /\ \A q \in 1 .. l : F[e + 1 + q] = name[q] /\ name[q] # "\\"
  BY <1>1 DEF Laid
<1> HIDE DEF N, e, name, l
<1>3. e + 1 \in 1 .. Len(F) /\ e + 1 \in 0 .. Len(F) /\ Len(F) \in e + 1 .. Len(F) /\ ~(e + 1 > Len(F))
      /\ Len(F) - (e + 1) = l
  BY <1>2
<1>4. ASSUME NEW q \in 1 .. Len(F), e + 1 < q PROVE F[q] # "\\"
  <2> DEFINE r == q - (e + 1)
  <2>1. r \in 1 .. l /\ e + 1 + r = q
    BY <1>2, <1>4
  <2> HIDE DEF r
  <2> QED  BY <1>2, <2>1
<1>5. substr(F, e + 1) = name
  <2> DEFINE m == e + 1
             n == Len(F)
             s == SubSeq(F, m + 1, n)
  <2>1. substr(F, e + 1) = s
    BY <1>3 DEF substr
  <2>2. m \in 0 .. Len(F) /\ n \in m .. Len(F) /\ n - m = l
    BY <1>3
  <2> HIDE DEF m, n
  <2>3. s \in Text /\ Len(s) = n - m /\ \A q \in 1 .. n - m : s[q] = F[m + q]
    BY <2>2, Cut
  <2> HIDE DEF s
  <2>4. Len(s) = Len(name) /\ \A q \in 1 .. Len(s) : s[q] = name[q]
    BY <1>2, <2>2, <2>3 DEF l, m
  <2>5. s = name
    BY <1>2, <2>3, <2>4, SeqEqual DEF Text
  <2> QED  BY <2>1, <2>5
<1> QED  BY <1>2, <1>3, <1>4, <1>5 DEF N, e, name

\* The type and the process of a key below the rules key, or beside it with a
\* name that continues its name.
LEMMA KeyParsed ==
    ASSUME NEW key \in Seq(Part), Len(key) > 0, NEW F \in Text, NEW to, Laid(F, to, key),
           Occurs(PathText(Root), F, 0)
    PROVE  LET R == Len(PathText(Root))
               e == to[Len(key) - 1]
           IN  IF R < e
               THEN \E X \in Text :
                      /\ Len(X) = e - R - 1 /\ \A q \in 1 .. e - R - 1 : X[q] = F[R + 1 + q]
                      /\ parse_protection_rule_key(F) =
                           IF ActionsNamed(X) = {} THEN Nothing
                           ELSE [type |-> CHOOSE t \in ActionsNamed(X) : TRUE,
                                 process |-> key[Len(key)]]
               ELSE parse_protection_rule_key(F) = Nothing
<1> DEFINE A == PathText(Root)
           R == Len(A)
           e == to[Len(key) - 1]
           below == substr(F, R)
           last == last_index_of(below, "\\")
           X == slice(below, 1, last)
           process == substr(F, R + last + 1)
<1>1. R \in Nat /\ R <= Len(F)
  <2>1. A \in Text
    BY RootPath
  <2>2. R \in Nat
    BY <2>1, LenProperties DEF Text
  <2>3. 0 + R = R
    BY <2>2
  <2> QED  BY <2>2, <2>3 DEF Occurs
<1>2. /\ e \in Nat /\ e + 1 \in 1 .. Len(F) /\ Len(F) \in Nat /\ F[e + 1] = "\\"
      /\ \A q \in 1 .. Len(F) : e + 1 < q => F[q] # "\\"
      /\ substr(F, e + 1) = key[Len(key)]
  BY LastNameCut
<1>3. parse_protection_rule_key(F) =
        IF below = << >> \/ last <= 0 THEN Nothing
        ELSE IF ActionsNamed(X) = {} THEN Nothing
        ELSE [type |-> CHOOSE t \in ActionsNamed(X) : TRUE, process |-> process]
  BY DEF parse_protection_rule_key
<1> HIDE DEF R, e
<1>4. below \in Text /\ Len(below) = Len(F) - R /\ \A q \in 1 .. Len(F) - R : below[q] = F[R + q]
  <2>1. below = SubSeq(F, R + 1, Len(F))
    BY <1>1, <1>2 DEF substr
  <2> DEFINE n == Len(F)
  <2>2. R \in 0 .. Len(F) /\ n \in R .. Len(F)
    BY <1>1, <1>2
  <2> HIDE DEF n
  <2>3. /\ SubSeq(F, R + 1, n) \in Text /\ Len(SubSeq(F, R + 1, n)) = n - R
        /\ \A q \in 1 .. n - R : SubSeq(F, R + 1, n)[q] = F[R + q]
    BY <2>2, Cut
  <2> QED  BY <2>1, <2>3 DEF n
<1> HIDE DEF below
<1>5. CASE e < R
  <2>1. \A q \in 1 .. Len(below) : below[q] # "\\"
    <3> TAKE q \in 1 .. Len(below)
    <3>1. R + q \in 1 .. Len(F) /\ e + 1 < R + q /\ q \in 1 .. Len(F) - R
      BY <1>1, <1>2, <1>4, <1>5
    <3> QED  BY <1>2, <1>4, <3>1
  <2>2. last = -1
    BY <1>4, <2>1, NoIndex
  <2> HIDE DEF last
  <2>3. last <= 0 /\ ~(R < e)
    BY <1>1, <1>2, <1>5, <2>2
  <2> QED  BY <1>3, <2>3 DEF R, A, e
<1>6. CASE R <= e
  <2> DEFINE p == e + 1 - R
  <2>1. p \in 1 .. Len(below) /\ R + p = e + 1 /\ p - 1 = e - R
    BY <1>1, <1>2, <1>4, <1>6
  <2> HIDE DEF p
  <2>2. below[p] = "\\"
    BY <1>2, <1>4, <2>1
  <2>3. ASSUME NEW q \in 1 .. Len(below), p < q PROVE below[q] # "\\"
    <3>1. R + q \in 1 .. Len(F) /\ e + 1 < R + q /\ q \in 1 .. Len(F) - R
      BY <1>1, <1>2, <1>4, <2>1, <2>3
    <3> QED  BY <1>2, <1>4, <3>1
  <2>4. last = e - R
    <3>1. last_index_of(below, "\\") = p - 1
      BY <1>4, <2>1, <2>2, <2>3, LastIndex
    <3> QED  BY <2>1, <3>1
  <2>5. process = key[Len(key)]
    <3>1. R + last + 1 = e + 1
      BY <1>1, <1>2, <2>4
    <3> HIDE DEF last
    <3> QED  BY <1>2, <3>1
  <2>6. below # << >>
    <3>1. Len(below) # 0
      BY <2>1
    <3> QED  BY <3>1
  <2> HIDE DEF last, process
  <2>7. CASE R = e
    <3>1. last <= 0 /\ ~(R < e)
      BY <1>1, <2>4, <2>7
    <3> QED  BY <1>3, <3>1 DEF R, A, e
  <2>8. CASE R < e
    <3>1. ~(last <= 0) /\ ~(1 > last) /\ ~(last > Len(below))
      BY <1>1, <1>2, <1>4, <2>4, <2>8
    <3>2. X = SubSeq(below, 1 + 1, last)
      BY <3>1 DEF slice
    <3>3. 1 \in 0 .. Len(below) /\ last \in 1 .. Len(below)
      BY <1>1, <1>2, <1>4, <2>4, <2>8
    <3>4. X \in Text /\ Len(X) = last - 1 /\ \A q \in 1 .. last - 1 : X[q] = below[1 + q]
      <4> DEFINE one == 1
      <4>1. one \in 0 .. Len(below) /\ last \in one .. Len(below)
        BY <3>3
      <4> HIDE DEF one
      <4>2. /\ SubSeq(below, one + 1, last) \in Text /\ Len(SubSeq(below, one + 1, last)) = last - one
            /\ \A q \in 1 .. last - one : SubSeq(below, one + 1, last)[q] = below[one + q]
        BY <1>4, <4>1, Cut
      <4> QED  BY <3>2, <4>2 DEF one
    <3> HIDE DEF X
    <3>5. Len(X) = e - R - 1
      BY <2>4, <3>4
    <3>6. ASSUME NEW q \in 1 .. e - R - 1 PROVE X[q] = F[R + 1 + q]
      <4>1. q \in 1 .. last - 1 /\ 1 + q \in 1 .. Len(F) - R /\ R + (1 + q) = R + 1 + q
        BY <1>1, <1>2, <2>4
      <4>2. X[q] = below[1 + q] /\ below[1 + q] = F[R + (1 + q)]
        BY <1>4, <3>4, <4>1
      <4> QED  BY <4>1, <4>2
    <3>7. parse_protection_rule_key(F) =
            IF ActionsNamed(X) = {} THEN Nothing
            ELSE [type |-> CHOOSE t \in ActionsNamed(X) : TRUE, process |-> key[Len(key)]]
      BY <1>3, <2>5, <2>6, <3>1
    <3>8. \E Y \in Text :
            /\ Len(Y) = e - R - 1 /\ \A q \in 1 .. e - R - 1 : Y[q] = F[R + 1 + q]
            /\ parse_protection_rule_key(F) =
                 IF ActionsNamed(Y) = {} THEN Nothing
                 ELSE [type |-> CHOOSE t \in ActionsNamed(Y) : TRUE,
                       process |-> key[Len(key)]]
      BY <3>4, <3>5, <3>6, <3>7
    <3> QED  BY <2>8, <3>8 DEF R, A, e
  <2>9. R = e \/ R < e
    BY <1>1, <1>2, <1>6
  <2> QED  BY <2>7, <2>8, <2>9
<1>7. e < R \/ R <= e
  BY <1>1, <1>2
<1> QED  BY <1>5, <1>6, <1>7

\* At most one type has a name.
LEMMA OneTypeNamed ==
    ASSUME NEW X \in Text, NEW t \in ActionsNamed(X)
    PROVE  t \in RuleTypes /\ (CHOOSE u \in ActionsNamed(X) : TRUE) = t
<1>1. ASSUME NEW u \in ActionsNamed(X) PROVE u = t
  <2>1. u \in RuleTypes /\ t \in RuleTypes /\ equals_no_case(TypeNames[u], TypeNames[t])
    BY DEF ActionsNamed, equals_no_case
  <2> QED  BY <2>1, SpellingAssumption
<1> QED  BY <1>1 DEF ActionsNamed

\* The keys of a type are those whose path starts with the path of the rules key,
\* some character and the name of the type, up to its last separator.
LEMMA KeyOfType ==
    ASSUME NEW key \in Seq(Part), Len(key) > 0, NEW F \in Text, NEW to, Laid(F, to, key),
           NEW t \in RuleTypes
    PROVE  IsRuleKey(key, t) \/ IsTakenForRuleKey(key, t) <=>
             \E c \in Chars : LET G == PathText(Root) \o <<c>> \o TypeNames[t]
                              IN  Occurs(G, F, 0) /\ Len(G) = to[Len(key) - 1]
<1> DEFINE n == Len(Root)
           Goes(c) == LET G == PathText(Root) \o <<c>> \o TypeNames[t]
                      IN  Occurs(G, F, 0) /\ Len(G) = to[Len(key) - 1]
           Taken(c) == /\ Len(key) = n + 1 /\ Alike(Upto(key, n - 1), Upto(Root, n - 1))
                       /\ equals_no_case(key[n], Root[n] \o <<c>> \o TypeNames[t])
<1>1. "\\" \in Chars
  BY RulePathsAssumption
<1>2. Goes("\\") <=> IsRuleKey(key, t)
  BY TypeKeyOccurs
<1>3. ASSUME NEW c \in Chars, c # "\\" PROVE Goes(c) <=> Taken(c)
  BY <1>3, TakenKeyOccurs, ZenonT(60)
<1>4. IsTakenForRuleKey(key, t) <=> \E c \in Chars : Taken(c)
  BY DEF IsTakenForRuleKey
\* The name of a key has no separator.
<1>5. ~Taken("\\")
  <2> SUFFICES ASSUME Taken("\\") PROVE FALSE
    OBVIOUS
  <2> DEFINE r == Root[n]
             T == TypeNames[t]
             w == r \o <<"\\">> \o T
             l == Len(r) + 1
  <2>1. r \in Part /\ T \in Text /\ n \in 1 .. Len(key)
    BY RootPath, TypeName
  <2>2. r \in Text /\ Len(r) \in Nat /\ Len(T) \in Nat
    BY <2>1, PartIsText, LenProperties DEF Text
  <2> DEFINE k == key[n]
  <2>3. k \in Part
    BY <2>1, ElementOfSeq
  <2>4. k \in Text /\ \A q \in 1 .. Len(k) : k[q] \in Chars /\ k[q] # "\\"
    BY <2>3, PartIsText
  <2>5. equals_no_case(k, w)
    OBVIOUS
  <2> HIDE DEF r, T, k, n
  <2>6. w \in Text /\ Len(w) = Len(r) + 1 + Len(T) /\ w[Len(r) + 1] = "\\"
    BY <1>1, <2>1, <2>2, OneMoreName
  <2> HIDE DEF w
  <2>7. Similar(k, w)
    BY <2>4, <2>5, <2>6, EqualTexts
  <2>8. l \in 1 .. Len(w)
    BY <2>2, <2>6
  <2>9. Upcased[k[l]] = Upcased["\\"] /\ l \in 1 .. Len(k)
    BY <2>6, <2>7, <2>8 DEF Similar
  <2> QED  BY <2>4, <2>9, SeparatorStays
<1>6. (\E c \in Chars : Goes(c)) <=> IsRuleKey(key, t) \/ \E c \in Chars : Taken(c)
  <2> HIDE DEF Goes, Taken
  <2> QED  BY <1>1, <1>2, <1>3, <1>5
<1> QED  BY <1>4, <1>6

\* The keys of a type are rules of it, for the process of their last name, and
\* no other keys are.
LEMMA KeyMakesRule ==
    ASSUME NEW key \in Seq(Part), Len(key) > 0
    PROVE  LET F == PathText(key)
               rule == parse_protection_rule_key(F)
           IN  /\ is_protection_key(F) /\ rule # Nothing =>
                    \E t \in RuleTypes :
                       /\ IsRuleKey(key, t) \/ IsTakenForRuleKey(key, t)
                       /\ rule = [type |-> t, process |-> key[Len(key)]]
               /\ \A t \in RuleTypes :
                    IsRuleKey(key, t) \/ IsTakenForRuleKey(key, t) =>
                       /\ is_protection_key(F)
                       /\ rule = [type |-> t, process |-> key[Len(key)]]
<1> DEFINE F == PathText(key)
           A == PathText(Root)
           R == Len(A)
           N == Len(key)
           rule == parse_protection_rule_key(F)
           Good(t) == IsRuleKey(key, t) \/ IsTakenForRuleKey(key, t)
           G(c, t) == A \o <<c>> \o TypeNames[t]
           Of(t) == [type |-> t, process |-> key[Len(key)]]
<1>1. F \in Text /\ A \in Text /\ R \in Nat
  BY PathLaid, RootPath, LenProperties DEF Text
<1>2. PICK to : Laid(F, to, key)
  BY PathLaid
<1> DEFINE e == to[N - 1]
<1>3. e \in Nat /\ e + 1 \in 1 .. Len(F) /\ Len(F) \in Nat
  BY <1>1, <1>2, LastNameCut
<1>4. is_protection_key(F) <=> Occurs(A, F, 0)
  <2> HIDE DEF A, F
  <2>1. starts_with_no_case(F, A) <=> Occurs(A, F, 0)
    BY <1>1, PrefixOccurs
  <2> QED  BY <2>1 DEF is_protection_key, A
<1>5. ASSUME NEW t \in RuleTypes
      PROVE  Good(t) <=> \E c \in Chars : Occurs(G(c, t), F, 0) /\ Len(G(c, t)) = e
  <2> HIDE DEF F
  <2> QED  BY <1>1, <1>2, KeyOfType
<1>6. ASSUME Occurs(A, F, 0)
      PROVE  IF R < e
             THEN \E X \in Text :
                    /\ Len(X) = e - R - 1 /\ \A q \in 1 .. e - R - 1 : X[q] = F[R + 1 + q]
                    /\ rule = IF ActionsNamed(X) = {} THEN Nothing
                              ELSE Of(CHOOSE t \in ActionsNamed(X) : TRUE)
             ELSE rule = Nothing
  BY <1>1, <1>2, <1>6, KeyParsed
<1> HIDE DEF F, A, e, R, rule, Good
<1>7. ASSUME NEW X \in Text, Len(X) = e - R - 1,
             \A q \in 1 .. e - R - 1 : X[q] = F[R + 1 + q],
             NEW c \in Chars, NEW t \in RuleTypes
      PROVE  Occurs(G(c, t), F, 0) /\ Len(G(c, t)) = e <=>
               /\ Occurs(A, F, 0) /\ R < e
               /\ Upcased[F[R + 1]] = Upcased[c] /\ Similar(X, TypeNames[t])
  <2>1. TypeNames[t] \in Text /\ e \in 0 .. Len(F)
    BY <1>3, TypeName
  <2> DEFINE T == TypeNames[t]
             g == A \o <<c>> \o T
  <2>2. T \in Text
    BY <2>1
  <2> HIDE DEF T
  <2>3. Len(X) = e - Len(A) - 1 /\ \A q \in 1 .. e - Len(A) - 1 : X[q] = F[Len(A) + 1 + q]
    BY <1>7 DEF R
  <2>4. Occurs(g, F, 0) /\ Len(g) = e <=>
               /\ Occurs(A, F, 0) /\ Len(A) < e
               /\ Upcased[F[Len(A) + 1]] = Upcased[c] /\ Similar(X, T)
    BY <1>1, <2>1, <2>2, <2>3, PiecesOccur
  <2> QED  BY <2>4 DEF R, T
<1>8. ASSUME NEW X \in Text, NEW t \in RuleTypes
      PROVE  t \in ActionsNamed(X) <=> Similar(X, TypeNames[t])
  BY TypeName, EqualTexts DEF ActionsNamed
<1>9. ASSUME is_protection_key(F), rule # Nothing
      PROVE  \E t \in RuleTypes : Good(t) /\ rule = Of(t)
  <2>1. Occurs(A, F, 0)
    BY <1>4, <1>9
  <2>2. R < e
    BY <1>6, <1>9, <2>1
  <2>3. PICK X \in Text :
          /\ Len(X) = e - R - 1 /\ \A q \in 1 .. e - R - 1 : X[q] = F[R + 1 + q]
          /\ rule = IF ActionsNamed(X) = {} THEN Nothing
                    ELSE Of(CHOOSE t \in ActionsNamed(X) : TRUE)
    BY <1>6, <2>1, <2>2
  <2>4. PICK t \in ActionsNamed(X) : TRUE
    BY <1>9, <2>3
  <2>5. t \in RuleTypes /\ rule = Of(t)
    BY <2>3, <2>4, OneTypeNamed
  <2>6. F[R + 1] \in Chars
    <3>1. R + 1 \in 1 .. Len(F)
      BY <1>1, <1>3, <2>2
    <3> QED  BY <1>1, <3>1, ElementOfSeq DEF Text
  <2> DEFINE c == F[R + 1]
  <2>7. Upcased[F[R + 1]] = Upcased[c] /\ Similar(X, TypeNames[t])
    BY <1>8, <2>4, <2>5
  <2> HIDE DEF c
  <2>8. c \in Chars
    BY <2>6 DEF c
  <2>9. Occurs(G(c, t), F, 0) /\ Len(G(c, t)) = e
    <3> HIDE DEF G
    <3> QED  BY <1>7, <2>1, <2>2, <2>3, <2>5, <2>7, <2>8
  <2> QED  BY <1>5, <2>5, <2>8, <2>9
<1>10. ASSUME NEW t \in RuleTypes, Good(t)
       PROVE  is_protection_key(F) /\ rule = Of(t)
  <2>1. PICK c \in Chars : Occurs(G(c, t), F, 0) /\ Len(G(c, t)) = e
    BY <1>5, <1>10
  <2>2. R < e
    <3>1. TypeNames[t] \in Text /\ Len(TypeNames[t]) \in Nat
      BY TypeName, LenProperties DEF Text
    <3>2. Len(G(c, t)) = R + 1 + Len(TypeNames[t])
      BY <1>1, <3>1, OneMoreName DEF R
    <3> DEFINE g == Len(G(c, t))
               l == Len(TypeNames[t])
    <3>3. g = e /\ g = R + 1 + l /\ l \in Nat
      BY <2>1, <3>1, <3>2
    <3> HIDE DEF g, l
    <3> QED  BY <1>1, <3>3
  <2>3. Occurs(A, F, 0)
    <3> DEFINE m == R + 1
               Y == SubSeq(F, m + 1, e)
    <3>1. m \in 0 .. Len(F) /\ e \in m .. Len(F) /\ e - m = e - R - 1
      BY <1>1, <1>3, <2>2
    <3> HIDE DEF m
    <3>2. Y \in Text /\ Len(Y) = e - m /\ \A q \in 1 .. e - m : Y[q] = F[m + q]
      BY <1>1, <3>1, Cut
    <3> HIDE DEF Y
    <3>3. Y \in Text /\ Len(Y) = e - R - 1 /\ \A q \in 1 .. e - R - 1 : Y[q] = F[R + 1 + q]
      BY <3>1, <3>2 DEF m
    <3> HIDE DEF G
    <3> QED  BY <1>7, <2>1, <3>3
  <2>4. PICK X \in Text :
          /\ Len(X) = e - R - 1 /\ \A q \in 1 .. e - R - 1 : X[q] = F[R + 1 + q]
          /\ rule = IF ActionsNamed(X) = {} THEN Nothing
                    ELSE Of(CHOOSE u \in ActionsNamed(X) : TRUE)
    BY <1>6, <2>2, <2>3
  <2>5. t \in ActionsNamed(X)
    <3>1. Similar(X, TypeNames[t])
      <4> HIDE DEF G
      <4> QED  BY <1>7, <2>1, <2>4
    <3> QED  BY <1>8, <3>1
  <2> QED  BY <1>4, <2>3, <2>4, <2>5, OneTypeNamed
<1> QED  BY <1>9, <1>10 DEF F, rule, Good

----------------------------------------------------------------------------
(* Wildcards. *)

\* The lengths of n that the first i characters of an expression can match, from
\* those of the characters before.
ReachedStep(u, expression, n, i) ==
    IF i = 0 THEN {0}
    ELSE {j \in 0 .. Len(n) :
            IF expression[i] = "*" THEN \E k \in u[i - 1] : k <= j
            ELSE j - 1 \in u[i - 1] /\ expression[i] \in {"?", n[j]}}

IsReached(u, expression, n) ==
    u = [i \in 0 .. Len(expression) |-> ReachedStep(u, expression, n, i)]

\* There are such lengths.
LEMMA ReachedExists ==
    ASSUME NEW expression \in Text, NEW n
    PROVE  \E u : IsReached(u, expression, n)
<1> DEFINE N == Len(expression)
           IsPart(u, m) == u = [i \in 0 .. m |-> ReachedStep(u, expression, n, i)]
           S == {m \in 0 .. N : \E u : IsPart(u, m)}
<1>0. N \in Nat
  BY LenProperties DEF Text
<1>1. 0 \in S
  <2>1. IsPart([i \in 0 .. 0 |-> {0}], 0)
    BY DEF ReachedStep
  <2> QED  BY <1>0, <2>1
<1>2. ASSUME NEW m \in 0 .. N, m \in S, m < N PROVE m + 1 \in S
  <2>1. PICK u : IsPart(u, m)
    BY <1>2
  <2> DEFINE w == [i \in 0 .. m + 1 |->
                     IF i = m + 1 THEN ReachedStep(u, expression, n, i) ELSE u[i]]
  <2>2. ASSUME NEW i \in 0 .. m + 1 PROVE w[i] = ReachedStep(w, expression, n, i)
    <3>1. i # 0 => w[i - 1] = u[i - 1]
      BY <1>2
    <3>2. ReachedStep(w, expression, n, i) = ReachedStep(u, expression, n, i)
      <4> HIDE DEF w
      <4> QED  BY <3>1 DEF ReachedStep
    <3>3. i # m + 1 => u[i] = ReachedStep(u, expression, n, i)
      <4>1. i # m + 1 => i \in 0 .. m
        BY <1>2
      <4> QED  BY <2>1, <4>1
    <3> QED  BY <3>2, <3>3
  <2>3. IsPart(w, m + 1)
    BY <2>2
  <2> QED  BY <1>0, <1>2, <2>3
<1>3. \A m \in 0 .. N : m \in S
  <2> HIDE DEF S, N
  <2> QED  BY <1>0, <1>1, <1>2, Induction
<1> QED  BY <1>0, <1>3 DEF IsReached

\* A name matches if the whole of it is reached in the end.
LEMMA MatchIsReached ==
    ASSUME NEW expression \in Text, NEW name, NEW ignoreCase,
           NEW n, n = IF ignoreCase THEN Upper(name) ELSE name
    PROVE  \E u : /\ IsReached(u, expression, n)
                  /\ IsNameInExpression(expression, name, ignoreCase) <=>
                       Len(n) \in u[Len(expression)]
<1> DEFINE k == IF ignoreCase THEN Upper(name) ELSE name
           reached[i \in 0 .. Len(expression)] ==
            IF i = 0 THEN {0}
            ELSE LET before == reached[i - 1]
                 IN  {j \in 0 .. Len(k) :
                         IF expression[i] = "*" THEN \E l \in before : l <= j
                         ELSE j - 1 \in before /\ expression[i] \in {"?", k[j]}}
<1>1. IsNameInExpression(expression, name, ignoreCase) <=> Len(k) \in reached[Len(expression)]
  BY DEF IsNameInExpression
<1>2. reached = CHOOSE u : IsReached(u, expression, k)
  BY DEF IsReached, ReachedStep
<1> HIDE DEF reached, k
<1>3. IsReached(reached, expression, k)
  BY <1>2, ReachedExists
<1>4. n = k
  BY DEF k
<1> QED  BY <1>1, <1>3, <1>4

\* An expression of m characters without wildcards, with b stars before them and
\* d behind them.
IsStarred(e, b, d, m) ==
    /\ e \in Text /\ b \in {0, 1} /\ d \in {0, 1} /\ m \in Nat
    /\ Len(e) = b + m + d
    /\ b = 1 => e[1] = "*"
    /\ d = 1 => e[b + m + 1] = "*"
    /\ \A q \in 1 .. m : e[b + q] # "*" /\ e[b + q] # "?"

\* A name has the characters somewhere, and at its ends where no stars are.
IsFound(name, e, b, d, m) ==
    \E k \in 0 .. Len(name) :
        /\ b = 0 => k = 0
        /\ k + m <= Len(name) /\ (d = 0 => k + m = Len(name))
        /\ \A q \in 1 .. m : Upcased[name[k + q]] = e[b + q]

\* It matches what has the characters somewhere: at the start and at the end
\* unless there is a star.
LEMMA StarsMatch ==
    ASSUME NEW name \in Text, NEW e, NEW b, NEW d, NEW m, IsStarred(e, b, d, m)
    PROVE  mathes_no_case(name, e) <=> IsFound(name, e, b, d, m)
<1> DEFINE n == Upper(name)
           L == Len(n)
           E == Len(e)
<1>0. /\ e \in Text /\ b \in {0, 1} /\ d \in {0, 1} /\ m \in Nat
      /\ Len(e) = b + m + d /\ (b = 1 => e[1] = "*") /\ (d = 1 => e[b + m + 1] = "*")
      /\ \A q \in 1 .. m : e[b + q] # "*" /\ e[b + q] # "?"
  BY DEF IsStarred
<1> USE <1>0
<1>1. /\ n \in Text /\ L = Len(name) /\ L \in Nat
      /\ \A q \in 1 .. L : n[q] = Upcased[name[q]]
  BY UpperText
<1>2. PICK u : IsReached(u, e, n) /\ (mathes_no_case(name, e) <=> L \in u[E])
  BY MatchIsReached DEF mathes_no_case
<1>3. \A i \in 0 .. E : u[i] = ReachedStep(u, e, n, i)
  <2> HIDE DEF n
  <2> QED  BY <1>2 DEF IsReached
<1> HIDE DEF n, L, E
<1>4. E = b + m + d /\ E \in Nat
  BY DEF E
<1>5. u[0] = {0}
  <2>1. 0 \in 0 .. E
    BY <1>4
  <2>2. u[0] = ReachedStep(u, e, n, 0)
    BY <1>3, <2>1
  <2> QED  BY <2>2 DEF ReachedStep
<1>6. \A k : k \in u[b] <=> k \in 0 .. L /\ (b = 0 => k = 0)
  <2>1. CASE b = 0
    BY <1>1, <1>5, <2>1
  <2>2. CASE b = 1
    <3>1. 1 \in 0 .. E /\ 1 # 0 /\ 1 - 1 = 0
      BY <1>4, <2>2
    <3>2. u[1] = {j \in 0 .. L : \E k \in u[0] : k <= j}
      BY <1>3, <2>2, <3>1 DEF ReachedStep, L
    <3>3. u[1] = 0 .. L
      BY <1>1, <1>5, <3>2
    <3> QED  BY <2>2, <3>3
  <2> QED  BY <2>1, <2>2
<1> DEFINE Matched(i, k) == \A q \in 1 .. i : n[k + q] = e[b + q]
           S == {i \in 0 .. m : \A j : j \in u[b + i] <=>
                    \E k \in u[b] : j = k + i /\ j \in 0 .. L /\ Matched(i, k)}
<1>7. 0 \in S
  <2>1. b + 0 = b /\ \A k \in u[b] : k + 0 = k /\ k \in 0 .. L
    BY <1>6
  <2> QED  BY <2>1
<1>8. ASSUME NEW i \in 0 .. m, i \in S, i < m PROVE i + 1 \in S
  <2> DEFINE p == b + i + 1
  <2>1. p \in 0 .. E /\ p # 0 /\ p - 1 = b + i /\ p = b + (i + 1) /\ i + 1 \in 1 .. m
        /\ i + 1 \in 0 .. m
    BY <1>4, <1>8
  <2> HIDE DEF p
  <2>2. e[p] # "*" /\ e[p] # "?"
    BY <2>1
  <2>3. u[p] = {j \in 0 .. L : j - 1 \in u[b + i] /\ e[p] = n[j]}
    <3>1. u[p] = ReachedStep(u, e, n, p)
      BY <1>3, <2>1
    <3> QED  BY <2>1, <2>2, <3>1 DEF ReachedStep, L
  <2>4. ASSUME NEW j
        PROVE  j \in u[p] <=> \E k \in u[b] : j = k + (i + 1) /\ j \in 0 .. L /\ Matched(i + 1, k)
    <3>1. ASSUME j \in u[p]
          PROVE  \E k \in u[b] : j = k + (i + 1) /\ j \in 0 .. L /\ Matched(i + 1, k)
      <4>1. j \in 0 .. L /\ j - 1 \in u[b + i] /\ e[p] = n[j]
        BY <2>3, <3>1
      <4>2. PICK k \in u[b] : j - 1 = k + i /\ Matched(i, k)
        BY <1>8, <4>1
      <4>3. k \in Nat /\ j = k + (i + 1)
        <5>1. k \in Nat /\ i \in Nat /\ j \in Nat
          BY <1>1, <1>6, <4>1
        <5> HIDE DEF Matched
        <5> QED  BY <4>2, <5>1
      <4>4. \A q \in 1 .. i + 1 : q \in 1 .. i \/ q = i + 1
        OBVIOUS
      <4>5. Matched(i + 1, k)
        BY <2>1, <4>1, <4>2, <4>3, <4>4
      <4> HIDE DEF Matched
      <4> QED  BY <4>1, <4>3, <4>5
    <3>2. ASSUME NEW k \in u[b], j = k + (i + 1), j \in 0 .. L, Matched(i + 1, k)
          PROVE  j \in u[p]
      <4>1. k \in Nat
        BY <1>1, <1>6
      <4>2. j - 1 = k + i /\ j - 1 \in 0 .. L
        BY <1>1, <3>2, <4>1
      <4>3. \A q \in 1 .. i : q \in 1 .. i + 1
        OBVIOUS
      <4>4. Matched(i, k)
        BY <3>2, <4>3
      <4>5. e[p] = n[j]
        BY <2>1, <3>2
      <4>6. j - 1 \in u[b + i]
        <5> HIDE DEF Matched
        <5> QED  BY <1>8, <4>2, <4>4
      <4> QED  BY <2>3, <3>2, <4>5, <4>6
    <3> HIDE DEF Matched
    <3> QED  BY <3>1, <3>2
  <2> HIDE DEF Matched
  <2> QED  BY <2>1, <2>4
<1>9. \A i \in 0 .. m : i \in S
  <2> HIDE DEF S
  <2> QED  BY <1>7, <1>8, Induction
<1>10. \A j : j \in u[b + m] <=> \E k \in u[b] : j = k + m /\ j \in 0 .. L /\ Matched(m, k)
  <2>1. m \in 0 .. m
    OBVIOUS
  <2> HIDE DEF Matched
  <2> QED  BY <1>9, <2>1
<1> HIDE DEF Matched
<1>11. L \in u[E] <=> \E k \in u[b] : k + m <= L /\ (d = 0 => k + m = L) /\ Matched(m, k)
  <2>1. CASE d = 0
    <3>1. E = b + m /\ L \in 0 .. L
      BY <1>1, <1>4, <2>1
    <3>2. L \in u[b + m] <=> \E k \in u[b] : L = k + m /\ L \in 0 .. L /\ Matched(m, k)
      BY <1>10
    <3>3. \A k \in u[b] : L = k + m <=> k + m <= L /\ k + m = L
      BY <1>1, <1>6
    <3> QED  BY <2>1, <3>1, <3>2, <3>3
  <2>2. CASE d = 1
    <3> DEFINE p == b + m + 1
    <3>1. p = E /\ p \in 0 .. E /\ p # 0 /\ p - 1 = b + m
      BY <1>4, <2>2
    <3>0. e[p] = "*"
      BY <2>2
    <3> HIDE DEF p
    <3>2. u[p] = {j \in 0 .. L : \E k \in u[b + m] : k <= j}
      BY <1>3, <3>0, <3>1 DEF ReachedStep, L
    <3>3. L \in u[p] <=> \E j \in u[b + m] : j <= L
      BY <1>1, <3>2
    <3>4. (\E j \in u[b + m] : j <= L) <=> \E k \in u[b] : k + m \in 0 .. L /\ Matched(m, k)
      BY <1>1, <1>10
    <3>5. \A k \in u[b] : k + m \in 0 .. L <=> k + m <= L
      BY <1>1, <1>6
    <3> QED  BY <2>2, <3>1, <3>3, <3>4, <3>5
  <2> QED  BY <2>1, <2>2
<1>12. ASSUME NEW k \in 0 .. L, k + m <= L
       PROVE  Matched(m, k) <=> \A q \in 1 .. m : Upcased[name[k + q]] = e[b + q]
  <2>1. \A q \in 1 .. m : k + q \in 1 .. L
    BY <1>1, <1>12
  <2> QED  BY <1>1, <2>1 DEF Matched
<1>13. L \in u[E] <=>
         \E k \in 0 .. L : /\ b = 0 => k = 0
                           /\ k + m <= L /\ (d = 0 => k + m = L)
                           /\ \A q \in 1 .. m : Upcased[name[k + q]] = e[b + q]
  <2> DEFINE Here(k) == \A q \in 1 .. m : Upcased[name[k + q]] = e[b + q]
  <2>1. \A k \in 0 .. L : k + m <= L => (Matched(m, k) <=> Here(k))
    BY <1>12
  <2> HIDE DEF Here
  <2>2. L \in u[E] <=> \E k \in 0 .. L : /\ b = 0 => k = 0
                                     /\ k + m <= L /\ (d = 0 => k + m = L) /\ Here(k)
    BY <1>6, <1>11, <2>1
  <2> QED  BY <2>2 DEF Here
<1> QED  BY <1>1, <1>2, <1>13 DEF IsFound

\* The expression of a path with a drive.
LEMMA DriveMatches ==
    ASSUME NEW path \in Text
    PROVE  mathes(path, <<"?", ":", "*">>) <=> Len(path) >= 2 /\ path[2] = ":"
<1> DEFINE e == <<"?", ":", "*">>
           n == path
           L == Len(n)
<1>1. e \in Text /\ Len(e) = 3 /\ e[1] = "?" /\ e[2] = ":" /\ e[3] = "*"
  BY RulePathsAssumption DEF Text
<1>2. L \in Nat
  BY LenProperties DEF Text
<1> HIDE DEF e
<1>3. PICK u : IsReached(u, e, n) /\ (mathes(path, e) <=> L \in u[Len(e)])
  <2>1. n = IF FALSE THEN Upper(path) ELSE path
    OBVIOUS
  <2>2. \E u : IsReached(u, e, n) /\ (IsNameInExpression(e, path, FALSE) <=> Len(n) \in u[Len(e)])
    <3> HIDE DEF n
    <3> QED  BY <1>1, <2>1, MatchIsReached
  <2> QED  BY <2>2 DEF mathes
<1>4. \A i \in 0 .. 3 : u[i] = ReachedStep(u, e, n, i)
  BY <1>1, <1>3 DEF IsReached
<1> HIDE DEF n, L
<1>5. u[0] = {0}
  BY <1>4 DEF ReachedStep
<1>6. u[1] = {j \in 0 .. L : j - 1 \in u[0]}
  <2>1. u[1] = ReachedStep(u, e, n, 1) /\ 1 # 0 /\ 1 - 1 = 0
    BY <1>4
  <2> QED  BY <1>1, <2>1 DEF ReachedStep, L
<1>7. u[2] = {j \in 0 .. L : j - 1 \in u[1] /\ n[j] = ":"}
  <2>1. u[2] = ReachedStep(u, e, n, 2) /\ 2 # 0 /\ 2 - 1 = 1
    BY <1>4
  <2> QED  BY <1>1, <2>1 DEF ReachedStep, L
<1>8. u[3] = {j \in 0 .. L : \E k \in u[2] : k <= j}
  <2>1. u[3] = ReachedStep(u, e, n, 3) /\ 3 # 0 /\ 3 - 1 = 2
    BY <1>4
  <2> QED  BY <1>1, <2>1 DEF ReachedStep, L
<1>9. \A j : j \in u[1] <=> j = 1 /\ L >= 1
  BY <1>2, <1>5, <1>6
<1>10. \A j : j \in u[2] <=> j = 2 /\ L >= 2 /\ n[2] = ":"
  BY <1>2, <1>7, <1>9
<1>11. L \in u[3] <=> L >= 2 /\ n[2] = ":"
  BY <1>2, <1>8, <1>10
<1> QED  BY <1>1, <1>3, <1>11 DEF L, n, e

\* The end of a text.
LEMMA SuffixAt ==
    ASSUME NEW x \in Text, NEW s \in Text
    PROVE  IsSuffix(s, x) <=>
             Len(s) <= Len(x) /\ \A q \in 1 .. Len(s) : x[Len(x) - Len(s) + q] = s[q]
<1> DEFINE a == Len(s)
           b == Len(x)
           rs == Reverse(s)
           rx == Reverse(x)
           ps == SubSeq(rs, 1, a)
           px == SubSeq(rx, 1, a)
<1>1. /\ a \in Nat /\ b \in Nat
      /\ \A q \in 1 .. a : s[q] \in Chars
      /\ \A q \in 1 .. b : x[q] \in Chars
  BY LenProperties, ElementOfSeq DEF Text
<1> HIDE DEF a, b
<1>2. /\ Len(rs) = a
      /\ \A q \in 1 .. a : rs[q] = s[(a - q) + 1] /\ rs[q] \in Chars
  <2>1. rs = [i \in 1 .. a |-> s[(a - i) + 1]]
    BY DEF Reverse, a
  <2>2. \A q \in 1 .. a : (a - q) + 1 \in 1 .. a
    BY <1>1
  <2> HIDE DEF rs
  <2>3. \A q \in 1 .. a : rs[q] = s[(a - q) + 1] /\ rs[q] \in Chars
    BY <1>1, <2>1, <2>2
  <2>4. rs \in Seq(Chars) /\ Len(rs) = a
    <3>1. \A q \in 1 .. a : s[(a - q) + 1] \in Chars
      BY <1>1, <2>2
    <3> QED  BY <1>1, <2>1, <3>1, IsASeq, LenProperties
  <2> QED  BY <2>3, <2>4
<1>3. /\ Len(rx) = b
      /\ \A q \in 1 .. b : rx[q] = x[(b - q) + 1] /\ rx[q] \in Chars
  <2>1. rx = [i \in 1 .. b |-> x[(b - i) + 1]]
    BY DEF Reverse, b
  <2>2. \A q \in 1 .. b : (b - q) + 1 \in 1 .. b
    BY <1>1
  <2> HIDE DEF rx
  <2>3. \A q \in 1 .. b : rx[q] = x[(b - q) + 1] /\ rx[q] \in Chars
    BY <1>1, <2>1, <2>2
  <2>4. rx \in Seq(Chars) /\ Len(rx) = b
    <3>1. \A q \in 1 .. b : x[(b - q) + 1] \in Chars
      BY <1>1, <2>2
    <3> QED  BY <1>1, <2>1, <3>1, IsASeq, LenProperties
  <2> QED  BY <2>3, <2>4
<1>4. IsSuffix(s, x) <=> a <= b /\ ps = px
  BY <1>2, <1>3 DEF IsSuffix, IsPrefix
<1> HIDE DEF rs, rx
<1>5. ASSUME a <= b
      PROVE  ps = px <=> \A q \in 1 .. a : rs[q] = rx[q]
  <2>1. /\ 1 \in Int /\ a \in Int /\ a - 1 + 1 = a /\ (IF 1 <= a THEN a - 1 + 1 ELSE 0) = a
        /\ \A i \in 1 .. a : 1 + i - 1 = i /\ i \in 1 .. b
        /\ \A i \in 1 .. a : rs[i] \in Chars /\ rx[i] \in Chars
    BY <1>1, <1>2, <1>3, <1>5
  <2>2. /\ ps \in Seq(Chars) /\ Len(ps) = (IF 1 <= a THEN a - 1 + 1 ELSE 0)
        /\ \A i \in 1 .. a - 1 + 1 : ps[i] = rs[1 + i - 1]
    BY <2>1, SubSeqProperties
  <2>3. /\ px \in Seq(Chars) /\ Len(px) = (IF 1 <= a THEN a - 1 + 1 ELSE 0)
        /\ \A i \in 1 .. a - 1 + 1 : px[i] = rx[1 + i - 1]
    BY <2>1, SubSeqProperties
  <2> HIDE DEF ps, px
  <2>4. /\ Len(ps) = a /\ Len(px) = a
        /\ \A i \in 1 .. a : ps[i] = rs[i] /\ px[i] = rx[i]
    BY <2>1, <2>2, <2>3
  <2> QED  BY <2>2, <2>3, <2>4, SeqEqual
<1>6. ASSUME a <= b
      PROVE  (\A q \in 1 .. a : rs[q] = rx[q]) <=> (\A q \in 1 .. a : x[b - a + q] = s[q])
  <2>1. ASSUME NEW q \in 1 .. a
        PROVE  /\ (a - q) + 1 \in 1 .. a /\ q \in 1 .. b /\ (a - ((a - q) + 1)) + 1 = q
               /\ (b - ((a - q) + 1)) + 1 = b - a + q
               /\ (b - q) + 1 = b - a + ((a - q) + 1)
               /\ (a - q) + 1 \in 1 .. b
    BY <1>1, <1>6
  <2>2. ASSUME \A q \in 1 .. a : rs[q] = rx[q], NEW q \in 1 .. a PROVE x[b - a + q] = s[q]
    <3> DEFINE r == (a - q) + 1
    <3>1. r \in 1 .. a /\ r \in 1 .. b /\ (a - r) + 1 = q /\ (b - r) + 1 = b - a + q
      BY <2>1
    <3> HIDE DEF r
    <3>2. rs[r] = s[(a - r) + 1] /\ rx[r] = x[(b - r) + 1] /\ rs[r] = rx[r]
      BY <1>2, <1>3, <2>2, <3>1
    <3> QED  BY <3>1, <3>2
  <2>3. ASSUME \A q \in 1 .. a : x[b - a + q] = s[q], NEW q \in 1 .. a PROVE rs[q] = rx[q]
    <3> DEFINE r == (a - q) + 1
    <3>1. r \in 1 .. a /\ (b - q) + 1 = b - a + r /\ q \in 1 .. b
      BY <2>1
    <3>2. rs[q] = s[r] /\ rx[q] = x[(b - q) + 1]
      BY <1>2, <1>3, <3>1
    <3> HIDE DEF r
    <3>3. x[b - a + r] = s[r]
      BY <2>3, <3>1
    <3> QED  BY <3>1, <3>2, <3>3
  <2> QED  BY <2>2, <2>3
<1> HIDE DEF ps, px
<1> QED  BY <1>4, <1>5, <1>6 DEF a, b

----------------------------------------------------------------------------
(* Paths with a drive. *)

\* The link of a drive.
LinkOf(d) == <<"\\", "?", "?", "\\", d, ":">>

\* The links are those of mapped drives, whatever their case.
LEMMA LinkOfDrive ==
    ASSUME NEW d \in Chars
    PROVE  /\ LinkOf(d) \in DOMAIN LinkTargets <=> Mapped(d)
           /\ Mapped(d) => LinkTargets[LinkOf(d)] = PathText(Devices[Upcased[d]])
<1> DEFINE letters == {c \in Chars : Upcased[c] \in DOMAIN Devices}
           links == {LinkOf(c) : c \in letters}
<1>1. LinkTargets = [link \in links |-> PathText(Devices[Upcased[link[5]]])]
  BY DEF LinkTargets, LinkOf
<1>2. \A c : LinkOf(c)[5] = c
  BY DEF LinkOf
<1>3. LinkOf(d) \in links <=> d \in letters
  <2>1. ASSUME LinkOf(d) \in links PROVE d \in letters
    <3>1. PICK c \in letters : LinkOf(d) = LinkOf(c)
      BY <2>1
    <3> QED  BY <1>2, <3>1
  <2> QED  BY <2>1
<1>4. LinkOf(d) \in links => LinkTargets[LinkOf(d)] = PathText(Devices[Upcased[LinkOf(d)[5]]])
  BY <1>1
<1> QED  BY <1>1, <1>2, <1>3, <1>4 DEF Mapped

\* The links are the prefix of the object manager and a drive.
LEMMA LinkJoined ==
    ASSUME NEW d \in Chars
    PROVE  /\ ObjManagerPathPrefix \in Text /\ Len(ObjManagerPathPrefix) = 4
           /\ <<d, ":">> \in Text /\ LinkOf(d) \in Text /\ Len(LinkOf(d)) = 6
           /\ ObjManagerPathPrefix \o <<d, ":">> = LinkOf(d)
           /\ \A q \in 1 .. 4 : LinkOf(d)[q] = ObjManagerPathPrefix[q]
<1> DEFINE p == ObjManagerPathPrefix
           s == <<d, ":">>
           k == LinkOf(d)
<1>1. p \in Seq(Chars) /\ Len(p) = 4 /\ p[1] = "\\" /\ p[2] = "?" /\ p[3] = "?" /\ p[4] = "\\"
  BY RulePathsAssumption DEF ObjManagerPathPrefix
<1>2. s \in Seq(Chars) /\ Len(s) = 2 /\ s[1] = d /\ s[2] = ":"
  BY RulePathsAssumption
<1>3. /\ k \in Seq(Chars) /\ Len(k) = 6 /\ k[1] = "\\" /\ k[2] = "?" /\ k[3] = "?" /\ k[4] = "\\"
      /\ k[5] = d /\ k[6] = ":"
  BY RulePathsAssumption DEF LinkOf
<1> HIDE DEF p, s, k
<1>4. p \o s \in Seq(Chars) /\ IsJoined(p \o s, p, s)
  BY <1>1, <1>2, Joined, Zenon
<1>5. Len(p \o s) = 6 /\ (\A q \in 1 .. 4 : (p \o s)[q] = p[q])
      /\ \A q \in 1 .. 2 : (p \o s)[4 + q] = s[q]
  BY <1>1, <1>2, <1>4 DEF IsJoined
<1>6. (p \o s)[5] = s[1] /\ (p \o s)[6] = s[2]
  <2>1. 1 \in 1 .. 2 /\ 2 \in 1 .. 2 /\ 4 + 1 = 5 /\ 4 + 2 = 6
    OBVIOUS
  <2>2. (p \o s)[4 + 1] = s[1] /\ (p \o s)[4 + 2] = s[2]
    BY <1>5, <2>1
  <2> QED  BY <2>1, <2>2
<1>7. \A q \in 1 .. 4 : k[q] = p[q]
  <2>1. \A q \in 1 .. 4 : q = 1 \/ q = 2 \/ q = 3 \/ q = 4
    OBVIOUS
  <2> QED  BY <1>1, <1>3, <2>1
<1>8. p \o s = k
  <2>1. \A q \in 1 .. 6 : q \in 1 .. 4 \/ q = 5 \/ q = 6
    OBVIOUS
  <2>2. \A q \in 1 .. 6 : (p \o s)[q] = k[q]
    BY <1>2, <1>3, <1>5, <1>6, <1>7, <2>1
  <2> QED  BY <1>3, <1>4, <1>5, <2>2, SeqEqual
<1> QED  BY <1>1, <1>2, <1>3, <1>7, <1>8 DEF p, s, k, Text

\* What stands before and behind the end of the first of two texts.
LEMMA CutJoined ==
    ASSUME NEW x \in Text, NEW y \in Text
    PROVE  /\ x \o y \in Text
           /\ ~(Len(x) > Len(x \o y))
           /\ head_of(x \o y, Len(x)) = x /\ substr(x \o y, Len(x)) = y
<1> DEFINE z == x \o y
           m == Len(x)
           n == Len(z)
           o == 0
<1>1. z \in Text /\ IsJoined(z, x, y)
  BY Joined, Zenon DEF Text
<1> HIDE DEF z
<1>2. /\ m \in Nat /\ Len(y) \in Nat /\ n = m + Len(y)
      /\ \A q \in 1 .. m : z[q] = x[q]
      /\ \A q \in 1 .. Len(y) : z[m + q] = y[q]
  BY <1>1 DEF IsJoined
<1> HIDE DEF m, n, o
<1>3. ~(m > n) /\ m \in 0 .. Len(z) /\ n \in m .. Len(z) /\ o \in 0 .. Len(z) /\ m \in o .. Len(z)
      /\ n - m = Len(y) /\ m - o = m /\ o + 1 = 1 /\ \A q \in 1 .. m : o + q = q
  BY <1>2 DEF n, o
<1>4. head_of(z, m) = SubSeq(z, o + 1, m) /\ substr(z, m) = SubSeq(z, m + 1, n)
  BY <1>3 DEF head_of, substr, n
<1>5. /\ SubSeq(z, o + 1, m) \in Text /\ Len(SubSeq(z, o + 1, m)) = m - o
      /\ \A q \in 1 .. m - o : SubSeq(z, o + 1, m)[q] = z[o + q]
  BY <1>1, <1>3, Cut
<1>6. /\ SubSeq(z, m + 1, n) \in Text /\ Len(SubSeq(z, m + 1, n)) = n - m
      /\ \A q \in 1 .. n - m : SubSeq(z, m + 1, n)[q] = z[m + q]
  BY <1>1, <1>3, Cut
<1>7. SubSeq(z, o + 1, m) = x
  <2> DEFINE t == SubSeq(z, o + 1, m)
  <2>1. t \in Text /\ Len(t) = Len(x) /\ \A q \in 1 .. Len(t) : t[q] = x[q]
    <3>1. \A q \in 1 .. m : t[q] = x[q]
      BY <1>2, <1>3, <1>5
    <3> QED  BY <1>3, <1>5, <3>1 DEF m
  <2> HIDE DEF t
  <2>2. t = x
    BY <2>1, SeqEqual DEF Text
  <2> QED  BY <2>2 DEF t
<1>8. SubSeq(z, m + 1, n) = y
  <2> DEFINE t == SubSeq(z, m + 1, n)
  <2>1. t \in Text /\ Len(t) = Len(y) /\ \A q \in 1 .. Len(t) : t[q] = y[q]
    BY <1>2, <1>3, <1>6
  <2> HIDE DEF t
  <2>2. t = y
    BY <2>1, SeqEqual DEF Text
  <2> QED  BY <2>2 DEF t
<1> QED  BY <1>1, <1>3, <1>4, <1>7, <1>8 DEF m, n, z

\* A path on a drive is one on its device, whether the prefix of the object
\* manager is before it or not; there is none on a drive that is not mapped
\* (dos_path_to_nt).
LEMMA DosPath ==
    ASSUME NEW d \in Chars, NEW rest \in Text, NEW prefix \in {<< >>, ObjManagerPathPrefix}
    PROVE  dos_path_to_nt(prefix \o <<d, ":">> \o rest) =
             IF Mapped(d) THEN PathText(Devices[Upcased[d]]) \o rest ELSE Error
<1> DEFINE s == <<d, ":">>
           x == prefix \o s
           path == x \o rest
           p == ObjManagerPathPrefix
<1>1. p \in Text /\ Len(p) = 4 /\ s \in Text /\ p \o s = LinkOf(d) /\ LinkOf(d) \in Text
      /\ Len(LinkOf(d)) = 6 /\ \A q \in 1 .. 4 : LinkOf(d)[q] = p[q]
  BY LinkJoined
<1>2. Len(s) = 2 /\ s[2] = ":" /\ p[2] = "?"
  BY DEF ObjManagerPathPrefix
<1>3. << >> \o s = s
  BY <1>1, ConcatEmptySeq DEF Text
<1> HIDE DEF s, p
<1>4. x \in Text
  BY <1>1, <1>3 DEF p
<1>5. path \in Text /\ IsJoined(path, x, rest)
  BY <1>4, Joined, Zenon DEF Text
<1>6. /\ ~(Len(x) > Len(path)) /\ head_of(path, Len(x)) = x /\ substr(path, Len(x)) = rest
  BY <1>4, CutJoined
<1> HIDE DEF path
<1>7. starts_with_no_case(path, p) <=> Occurs(p, path, 0)
  BY <1>1, <1>5, PrefixOccurs
<1>8. starts_with_no_case(path, p) <=> prefix = p
  <2>1. CASE prefix = p
    <3>1. x = LinkOf(d)
      BY <1>1, <2>1
    <3>2. Len(path) \in Nat /\ Len(path) >= 6 /\ \A q \in 1 .. 4 : path[q] = p[q]
      <4>1. \A q \in 1 .. 4 : q \in 1 .. 6
        OBVIOUS
      <4>2. Len(path) = 6 + Len(rest) /\ Len(rest) \in Nat /\ \A q \in 1 .. 6 : path[q] = LinkOf(d)[q]
        BY <1>1, <1>5, <3>1 DEF IsJoined
      <4> QED  BY <1>1, <4>1, <4>2
    <3>3. Occurs(p, path, 0)
      BY <1>1, <3>2 DEF Occurs
    <3> QED  BY <1>7, <2>1, <3>3
  <2>2. CASE prefix = << >>
    <3>1. x = s /\ prefix # p
      <4>1. p # << >>
        <5>1. Len(p) = 4 /\ Len(<< >>) = 0
          BY <1>1
        <5> QED  BY <5>1
      <4> QED  BY <1>3, <2>2, <4>1
    <3>2. path[2] = ":"
      <4>1. 2 \in 1 .. Len(x)
        BY <1>2, <3>1
      <4>2. path[2] = x[2]
        BY <1>5, <4>1 DEF IsJoined
      <4> QED  BY <1>2, <3>1, <4>2
    <3>3. ~Occurs(p, path, 0)
      <4> SUFFICES ASSUME Occurs(p, path, 0) PROVE FALSE
        OBVIOUS
      <4>1. 2 \in 1 .. Len(p) /\ 0 + 2 = 2
        BY <1>1
      <4>2. Upcased[path[0 + 2]] = Upcased[p[2]]
        BY <4>1 DEF Occurs
      <4>3. Upcased[":"] = Upcased["?"]
        BY <1>2, <3>2, <4>1, <4>2
      <4>4. ":" \in Chars /\ "?" \in Chars /\ Upcased["?"] = "?"
        BY RulePathsAssumption, SpellingAssumption
      <4>5. Upcased[":"] = "?" => ":" = "?"
        BY <4>4, SpellingAssumption
      <4> QED  BY <4>3, <4>4, <4>5
    <3> QED  BY <1>7, <3>1, <3>3
  <2> QED  BY <2>1, <2>2 DEF p
<1>9. dos_path_to_nt(path) =
        LET prefixed == starts_with_no_case(path, p)
            mid == IF prefixed THEN Len(p) + 2 ELSE 2
            drive == head_of(path, mid)
            link == IF prefixed THEN drive ELSE p \o drive
        IN  IF mid > Len(path) \/ link \notin DOMAIN LinkTargets THEN Error
            ELSE LinkTargets[link] \o substr(path, mid)
  BY DEF dos_path_to_nt, p
<1>10. dos_path_to_nt(path) =
         IF LinkOf(d) \notin DOMAIN LinkTargets THEN Error
         ELSE LinkTargets[LinkOf(d)] \o rest
  <2>1. CASE prefix = p
    <3>1. starts_with_no_case(path, p) /\ Len(p) + 2 = Len(x) /\ x = LinkOf(d)
      <4>1. x = LinkOf(d)
        BY <1>1, <2>1
      <4>2. starts_with_no_case(path, p)
        BY <1>8, <2>1
      <4>3. Len(LinkOf(d)) = 6 /\ Len(p) + 2 = 6
        BY <1>1
      <4> HIDE DEF x
      <4> QED  BY <4>1, <4>2, <4>3
    <3> HIDE DEF x
    <3> QED  BY <1>6, <1>9, <3>1
  <2>2. CASE prefix # p
    <3>1. x = s
      BY <1>3, <2>2 DEF p
    <3>2. ~starts_with_no_case(path, p) /\ 2 = Len(x) /\ p \o x = LinkOf(d)
      BY <1>1, <1>2, <1>8, <2>2, <3>1
    <3> HIDE DEF x
    <3> QED  BY <1>6, <1>9, <3>2
  <2> QED  BY <2>1, <2>2
<1> QED  BY <1>10, LinkOfDrive DEF path, s

----------------------------------------------------------------------------
(* Values. *)

\* The path of the names that a value means.
MeantPath(v) ==
    IF v.drive = Anywhere THEN PathText(v.names)
    ELSE PathText(Devices[Upcased[v.drive]]) \o PathText(v.names)

FolderEnd(v) == IF v.folder THEN <<"\\">> ELSE << >>

\* Names that are not empty.
AreNames(a) == a \in Seq(Part) /\ \A i \in 1 .. Len(a) : Len(a[i]) > 0

\* Names without wildcards.
HaveNoWildcards(a) ==
    \A i \in 1 .. Len(a) : \A q \in 1 .. Len(a[i]) : a[i][q] # "*" /\ a[i][q] # "?"

\* A name is not empty, and a plain one has no wildcards.
LEMMA PlainName ==
    ASSUME NEW name \in Name
    PROVE  /\ name \in Part /\ Len(name) > 0
           /\ Plain(name) => \A q \in 1 .. Len(name) : name[q] # "*" /\ name[q] # "?"
<1>1. name \in Part
  BY NamesAreParts
<1>2. name # << >> /\ name \in Seq(Chars \ {"\\"})
  BY DEF Name
<1>3. Len(name) \in Nat /\ Len(name) > 0 /\ DOMAIN name = 1 .. Len(name)
  BY <1>2, LenProperties
<1>4. \A q \in 1 .. Len(name) : name[q] \in Range(name)
  BY <1>3 DEF Range
<1> QED  BY <1>1, <1>3, <1>4 DEF Plain

\* Names are not empty, and plain ones have no wildcards.
LEMMA NamesAreNames ==
    ASSUME NEW f \in Seq(Name)
    PROVE  /\ AreNames(f)
           /\ (\A i \in DOMAIN f : Plain(f[i])) => HaveNoWildcards(f)
<1>1. f \in Seq(Part) /\ DOMAIN f = 1 .. Len(f)
  BY NamesAreParts, LenProperties
<1>2. \A i \in 1 .. Len(f) : f[i] \in Name
  BY ElementOfSeq
<1> QED  BY <1>1, <1>2, PlainName DEF AreNames, HaveNoWildcards

\* A device has names without wildcards.
LEMMA DeviceNames ==
    ASSUME NEW d, Mapped(d), NEW dev, dev = Devices[Upcased[d]]
    PROVE  Len(dev) > 0 /\ AreNames(dev) /\ HaveNoWildcards(dev)
<1>1. dev \in Seq(Name) /\ dev # << >> /\ \A i \in DOMAIN dev : Plain(dev[i])
  BY SpellingAssumption DEF Mapped
<1>2. Len(dev) > 0
  BY <1>1, EmptySeq, LenProperties
<1> QED  BY <1>1, <1>2, NamesAreNames

\* The names that a value means are names, and its path is theirs.
LEMMA MeantLaid ==
    ASSUME NEW v \in Written, v.drive = Anywhere \/ Mapped(v.drive)
    PROVE  /\ AreNames(MeantNames(v))
           /\ v.drive # Anywhere => Len(MeantNames(v)) > 0
           /\ MeantPath(v) \in Text
           /\ \E at : Laid(MeantPath(v), at, MeantNames(v))
           /\ (\A i \in DOMAIN v.names : Plain(v.names[i])) => HaveNoWildcards(MeantNames(v))
<1> DEFINE plain == \A i \in DOMAIN v.names : Plain(v.names[i])
           f == v.names
           Q == PathText(f)
<1>1. AreNames(f) /\ (plain => HaveNoWildcards(f))
  BY SpellingAssumption, NamesAreNames
<1>2. Q \in Text /\ \E to : Laid(Q, to, f)
  BY <1>1, PathLaid DEF AreNames
<1> HIDE DEF plain
<1>3. CASE v.drive = Anywhere
  BY <1>1, <1>2, <1>3 DEF MeantNames, MeantPath, plain
<1>4. CASE v.drive # Anywhere
  <2> DEFINE dev == Devices[Upcased[v.drive]]
             D == PathText(dev)
             g == dev \o f
  <2>1. Mapped(v.drive) /\ Len(dev) > 0 /\ AreNames(dev) /\ HaveNoWildcards(dev)
    BY <1>4, DeviceNames
  <2>2. D \in Text /\ \E to : Laid(D, to, dev)
    BY <2>1, PathLaid DEF AreNames
  <2>3. MeantNames(v) = g /\ MeantPath(v) = D \o Q
    BY <1>4 DEF MeantNames, MeantPath
  <2> HIDE DEF dev, D, f, Q
  <2>4. PICK to : Laid(Q, to, f)
    BY <1>2
  <2>5. PICK at : Laid(D, at, dev)
    BY <2>2
  <2>6. dev \in Seq(Part) /\ f \in Seq(Part)
    BY <1>1, <2>1 DEF AreNames
  <2>7. g \in Seq(Part) /\ D \o Q \in Text /\ \E t : Laid(D \o Q, t, g)
    BY <1>2, <2>2, <2>4, <2>5, <2>6, PathsJoined
  <2> HIDE DEF g
  <2>8. IsJoined(g, dev, f)
    BY <2>6, Joined, Zenon DEF g
  <2>9. Len(g) > 0 /\ AreNames(g) /\ (plain => HaveNoWildcards(g))
    <3>1. /\ Len(g) = Len(dev) + Len(f) /\ Len(dev) \in Nat /\ Len(f) \in Nat
          /\ \A q \in 1 .. Len(dev) : g[q] = dev[q]
          /\ \A q \in 1 .. Len(f) : g[Len(dev) + q] = f[q]
      BY <2>8 DEF IsJoined
    <3>2. ASSUME NEW i \in 1 .. Len(g)
          PROVE  /\ Len(g[i]) > 0
                 /\ plain => \A q \in 1 .. Len(g[i]) : g[i][q] # "*" /\ g[i][q] # "?"
      <4> DEFINE j == i - Len(dev)
      <4>1. i \in 1 .. Len(dev) \/ (j \in 1 .. Len(f) /\ Len(dev) + j = i)
        BY <3>1
      <4> HIDE DEF j
      <4>2. CASE i \in 1 .. Len(dev)
        BY <2>1, <3>1, <4>2 DEF AreNames, HaveNoWildcards
      <4>3. CASE j \in 1 .. Len(f) /\ Len(dev) + j = i
        <5>1. g[i] = f[j]
          BY <3>1, <4>3
        <5> QED  BY <1>1, <4>3, <5>1 DEF AreNames, HaveNoWildcards
      <4> QED  BY <4>1, <4>2, <4>3
    <3>3. Len(g) > 0
      BY <2>1, <3>1
    <3> QED  BY <2>7, <3>2, <3>3 DEF AreNames, HaveNoWildcards
  <2> QED  BY <2>3, <2>7, <2>9 DEF plain
<1> QED  BY <1>3, <1>4

\* The path of names has no wildcards if they have none, and no separator at its end.
LEMMA PlainPath ==
    ASSUME NEW a, AreNames(a), NEW W, NEW at, Laid(W, at, a)
    PROVE  /\ HaveNoWildcards(a) => \A p \in 1 .. Len(W) : W[p] # "*" /\ W[p] # "?"
           /\ Len(W) > 0 => W[Len(W)] # "\\"
           /\ Len(a) > 0 => Len(W) > 0
           /\ Len(W) > 0 => W[1] = "\\"
<1>1. Len(W) \in Nat /\ Len(a) \in Nat /\ at[Len(a)] = Len(W) /\ at[0] = 0
  BY DEF Laid
<1>2. ASSUME NEW p \in 1 .. Len(W)
      PROVE  /\ HaveNoWildcards(a) => W[p] # "*" /\ W[p] # "?"
             /\ p = Len(W) => W[p] # "\\"
  <2>1. PICK m \in 1 .. Len(a) : at[m - 1] < p /\ p <= at[m]
    BY NamesCover
  <2> DEFINE c == at[m - 1]
             l == Len(a[m])
  <2>2. /\ l \in Nat /\ at[m] = c + 1 + l /\ W[c + 1] = "\\" /\ at[m] <= Len(W)
        /\ \A q \in 1 .. l : W[c + 1 + q] = a[m][q] /\ a[m][q] # "\\"
    BY DEF Laid
  <2>3. c \in Nat
    <3>1. m - 1 \in 0 .. Len(a)
      BY <1>1
    <3> QED  BY <3>1 DEF Laid
  <2>4. l > 0 /\ (HaveNoWildcards(a) => \A q \in 1 .. l : a[m][q] # "*" /\ a[m][q] # "?")
    BY DEF AreNames, HaveNoWildcards
  <2> HIDE DEF c, l
  <2>5. CASE p = c + 1
    <3>1. p # Len(W)
      BY <1>1, <2>2, <2>3, <2>4, <2>5
    <3> QED  BY <2>2, <2>5, <3>1
  <2>6. CASE p # c + 1
    <3> DEFINE q == p - (c + 1)
    <3>1. q \in 1 .. l /\ c + 1 + q = p
      <4>1. c < p /\ p <= c + 1 + l /\ p \in Int
        BY <2>1, <2>2 DEF c
      <4> QED  BY <2>2, <2>3, <2>6, <4>1
    <3> HIDE DEF q
    <3> QED  BY <2>2, <2>4, <3>1
  <2> QED  BY <2>5, <2>6
<1>3. Len(a) > 0 => Len(W) > 0 /\ W[1] = "\\"
  <2> SUFFICES ASSUME Len(a) > 0 PROVE Len(W) > 0 /\ W[1] = "\\"
    OBVIOUS
  <2>1. 1 \in 1 .. Len(a) /\ 1 - 1 = 0
    BY <1>1
  <2>2. at[1] = at[0] + 1 + Len(a[1]) /\ Len(a[1]) \in Nat /\ at[1] <= Len(W) /\ W[at[0] + 1] = "\\"
    BY <2>1 DEF Laid
  <2> QED  BY <1>1, <2>2
<1>4. Len(W) > 0 => Len(a) > 0
  BY <1>1
<1>5. Len(W) > 0 => Len(W) \in 1 .. Len(W)
  BY <1>1
<1> QED  BY <1>2, <1>3, <1>4, <1>5

\* The end of a folder's value.
LEMMA FolderEndText ==
    ASSUME NEW v
    PROVE  /\ FolderEnd(v) \in Text
           /\ v.folder => Len(FolderEnd(v)) = 1 /\ FolderEnd(v)[1] = "\\"
           /\ ~v.folder => FolderEnd(v) = << >> /\ Len(FolderEnd(v)) = 0
BY RulePathsAssumption DEF FolderEnd, Text

\* The path that a value is converted to.
Converted(path) == IF mathes(path, <<"?", ":", "*">>) THEN dos_path_to_nt(path) ELSE path

\* With a drive it is the path on the drive's device, and otherwise the value.
LEMMA ValueConverted ==
    ASSUME NEW v \in Written
    PROVE  Converted(ValueText(v)) =
             IF v.drive = Anywhere THEN (<<"*">> \o MeantPath(v)) \o FolderEnd(v)
             ELSE IF Mapped(v.drive) THEN MeantPath(v) \o FolderEnd(v) ELSE Error
<1> DEFINE Q == PathText(v.names)
           t == FolderEnd(v)
           d == v.drive
           star == <<"*">>
           s == <<d, ":">>
           V == ValueText(v)
<1>1. d \in Chars /\ "*" \in Chars /\ ":" \in Chars
  BY RulePathsAssumption
<1>2. v.names \in Seq(Part)
  <2>1. v.names \in Seq(Name)
    BY SpellingAssumption
  <2> QED  BY <2>1, NamesAreParts
<1>3. Q \in Text /\ \E at : Laid(Q, at, v.names)
  BY <1>2, PathLaid
<1>4. t \in Text
  BY FolderEndText
<1>5. star \in Text /\ Len(star) = 1 /\ s \in Text /\ Len(s) = 2 /\ s[2] = ":"
  BY <1>1 DEF Text
<1>6. V = (IF d = Anywhere THEN star ELSE s) \o Q \o t
  BY DEF ValueText, FolderEnd
<1> HIDE DEF V, t, Q, star, s
<1>7. CASE d = Anywhere
  <2> DEFINE h == star \o Q
  <2>1. V = h \o t
    BY <1>6, <1>7
  <2>2. h \in Text /\ IsJoined(h, star, Q)
    BY <1>3, <1>5, Joined, Zenon DEF Text
  <2> HIDE DEF h
  <2>3. h \o t \in Text /\ IsJoined(h \o t, h, t)
    BY <1>4, <2>2, Joined, Zenon DEF Text
  <2>4. Len(h) = 1 + Len(Q) /\ \A q \in 1 .. Len(Q) : h[1 + q] = Q[q]
    BY <1>5, <2>2 DEF IsJoined
  <2>5. V \in Text /\ Len(V) = 1 + Len(Q) + Len(t) /\ Len(Q) \in Nat /\ Len(t) \in Nat
        /\ (\A q \in 1 .. 1 + Len(Q) : V[q] = h[q])
        /\ \A q \in 1 .. Len(t) : V[1 + Len(Q) + q] = t[q]
    BY <1>3, <1>4, <2>1, <2>3, <2>4, LenProperties DEF IsJoined, Text
  <2>6. Len(V) >= 2 => V[2] = "\\"
    <3>1. CASE Len(Q) > 0
      <4>1. Q[1] = "\\"
        <5>1. PICK at : Laid(Q, at, v.names)
          BY <1>3
        <5>2. Len(v.names) \in Nat /\ at[0] = 0 /\ at[Len(v.names)] = Len(Q)
          BY <5>1 DEF Laid
        <5>3. 1 \in 1 .. Len(v.names) /\ 1 - 1 = 0 /\ 0 + 1 = 1
          BY <3>1, <5>2
        <5>4. Q[at[1 - 1] + 1] = "\\"
          BY <5>1, <5>3 DEF Laid
        <5> QED  BY <5>2, <5>3, <5>4
      <4>2. 2 \in 1 .. 1 + Len(Q) /\ 1 \in 1 .. Len(Q) /\ 1 + 1 = 2
        BY <2>5, <3>1
      <4>3. V[2] = h[2] /\ h[1 + 1] = Q[1]
        BY <2>4, <2>5, <4>2
      <4> QED  BY <4>1, <4>2, <4>3
    <3>2. CASE Len(Q) = 0
      <4> SUFFICES ASSUME Len(V) >= 2 PROVE V[2] = "\\"
        OBVIOUS
      <4>1. Len(t) >= 1 /\ 1 \in 1 .. Len(t) /\ 1 + Len(Q) + 1 = 2
        BY <2>5, <3>2
      <4>2. V[1 + Len(Q) + 1] = t[1]
        BY <2>5, <4>1
      <4>3. t[1] = "\\"
        BY <4>1, FolderEndText DEF t
      <4> QED  BY <4>1, <4>2, <4>3
    <3> QED  BY <2>5, <3>1, <3>2
  <2>7. ~mathes(V, <<"?", ":", "*">>)
    <3>1. mathes(V, <<"?", ":", "*">>) <=> Len(V) >= 2 /\ V[2] = ":"
      BY <2>5, DriveMatches
    <3> QED  BY <2>6, <3>1
  <2>8. MeantPath(v) = Q
    BY <1>7 DEF MeantPath, Q
  <2> QED  BY <1>7, <2>1, <2>7, <2>8 DEF Converted, h, t, V, star
<1>8. CASE d # Anywhere
  <2> DEFINE rest == Q \o t
             none == << >>
  <2>1. V = s \o Q \o t
    BY <1>6, <1>8
  <2>2. rest \in Text
    BY <1>3, <1>4, Joined, Zenon DEF Text
  <2>3. V = s \o rest
    <3>1. (s \o Q) \o t = s \o (Q \o t)
      BY <1>3, <1>4, <1>5, ConcatAssociative, SMTT(30) DEF Text
    <3> QED  BY <2>1, <3>1
  <2> HIDE DEF rest
  <2>4. V \in Text /\ IsJoined(s \o rest, s, rest)
    <3>1. s \o rest \in Text /\ IsJoined(s \o rest, s, rest)
      BY <1>5, <2>2, Joined, Zenon DEF Text
    <3> QED  BY <2>3, <3>1
  <2>5. Len(V) >= 2 /\ V[2] = ":"
    <3>1. Len(V) = 2 + Len(rest) /\ Len(rest) \in Nat /\ \A q \in 1 .. 2 : V[q] = s[q]
      BY <1>5, <2>3, <2>4 DEF IsJoined
    <3> QED  BY <1>5, <3>1
  <2>6. mathes(V, <<"?", ":", "*">>)
    BY <2>4, <2>5, DriveMatches
  <2>7. none \o s = s /\ none \in {<< >>, ObjManagerPathPrefix}
    BY <1>5, ConcatEmptySeq DEF Text
  <2>8. dos_path_to_nt(none \o s \o rest) =
          IF Mapped(d) THEN PathText(Devices[Upcased[d]]) \o rest ELSE Error
    <3> HIDE DEF none, d
    <3> QED  BY <1>1, <2>2, <2>7, DosPath DEF s
  <2>9. Converted(V) = IF Mapped(d) THEN PathText(Devices[Upcased[d]]) \o rest ELSE Error
    <3>1. none \o s \o rest = V
      BY <2>3, <2>7
    <3> HIDE DEF none
    <3> QED  BY <2>6, <2>8, <3>1 DEF Converted
  <2>10. ASSUME Mapped(d)
         PROVE  PathText(Devices[Upcased[d]]) \o rest = MeantPath(v) \o t
    <3> DEFINE dev == Devices[Upcased[d]]
               h == PathText(dev)
    <3>1. dev \in Seq(Part)
      BY <2>10, DeviceNames DEF AreNames
    <3>2. h \in Text
      BY <3>1, PathLaid
    <3>3. MeantPath(v) = h \o Q
      BY <1>8 DEF MeantPath, Q
    <3> HIDE DEF dev, h
    <3>4. (h \o Q) \o t = h \o (Q \o t)
      BY <1>3, <1>4, <3>2, ConcatAssociative DEF Text
    <3> QED  BY <3>3, <3>4 DEF rest, h, dev
  <2> QED  BY <1>8, <2>9, <2>10 DEF V, t
<1> QED  BY <1>7, <1>8

\* The length of the star before a path.
StarBefore(v) == IF v.drive = Anywhere THEN 1 ELSE 0

\* The prepared path of a value: that of its names in upper case, behind a star
\* if it is anywhere and before a separator and a star if it is a folder's.
IsPrepared(P, W, b, folder) ==
    /\ P \in Text /\ Len(P) = b + Len(W) + (IF folder THEN 2 ELSE 0)
    /\ b = 1 => P[1] = "*"
    /\ \A q \in 1 .. Len(W) : P[b + q] = Upcased[W[q]]
    /\ folder => P[b + Len(W) + 1] = "\\" /\ P[b + Len(W) + 2] = "*"

\* A text is no error.
LEMMA TextIsNoError ==
    ASSUME NEW x \in Text
    PROVE  x # Error
<1> SUFFICES ASSUME x = Error PROVE FALSE
  OBVIOUS
<1>1. Error \in Seq(Chars) /\ 1 \in 1 .. Len(Error) /\ Error[1] = "error"
  BY DEF Error, Text
<1>2. Error[1] \in Chars
  BY <1>1, ElementOfSeq
<1> QED  BY <1>1, <1>2, RulePathsAssumption

\* The last character of a text.
LEMMA EndsWithOne ==
    ASSUME NEW x \in Text, NEW c \in Chars
    PROVE  ends_with(x, <<c>>) <=> Len(x) >= 1 /\ x[Len(x)] = c
<1> DEFINE s == <<c>>
<1>1. s \in Text /\ Len(s) = 1 /\ s[1] = c
  BY OneCharacter
<1> HIDE DEF s
<1>2. Len(x) \in Nat
  BY LenProperties DEF Text
<1>3. IsSuffix(s, x) <=>
        Len(s) <= Len(x) /\ \A q \in 1 .. Len(s) : x[Len(x) - Len(s) + q] = s[q]
  BY <1>1, SuffixAt
<1>4. Len(x) - 1 + 1 = Len(x) /\ \A q \in 1 .. 1 : q = 1
  BY <1>2
<1>5. IsSuffix(s, x) <=> 1 <= Len(x) /\ x[Len(x)] = c
  BY <1>1, <1>3, <1>4
<1> QED  BY <1>2, <1>5 DEF s, ends_with

\* A value whose drive is there is prepared so.
LEMMA Prepared ==
    ASSUME NEW v \in Written, v.drive = Anywhere \/ Mapped(v.drive)
    PROVE  IsPrepared(prepare_rule_file_path(ValueText(v)), MeantPath(v),
                      StarBefore(v), v.folder)
<1> DEFINE W == MeantPath(v)
           t == FolderEnd(v)
           b == StarBefore(v)
           l == Len(W)
           star == <<"*">>
           H == IF v.drive = Anywhere THEN star \o W ELSE W
           nt == H \o t
           Z == IF v.folder THEN Append(nt, "*") ELSE nt
           P == prepare_rule_file_path(ValueText(v))
<1>1. /\ W \in Text /\ l \in Nat
      /\ (l > 0 => W[l] # "\\") /\ (v.drive # Anywhere => l > 0)
  <2>1. W \in Text /\ AreNames(MeantNames(v)) /\ (v.drive # Anywhere => Len(MeantNames(v)) > 0)
    BY MeantLaid
  <2>2. PICK at : Laid(W, at, MeantNames(v))
    BY MeantLaid
  <2> HIDE DEF W
  <2>3. /\ (Len(W) > 0 => W[Len(W)] # "\\")
        /\ (Len(MeantNames(v)) > 0 => Len(W) > 0)
    BY <2>1, <2>2, PlainPath
  <2>4. Len(W) \in Nat
    BY <2>2 DEF Laid
  <2> QED  BY <2>1, <2>3, <2>4
<1>2. "*" \in Chars /\ "\\" \in Chars /\ Upcased["*"] = "*" /\ Upcased["\\"] = "\\" /\ v.folder \in BOOLEAN
  BY RulePathsAssumption, SpellingAssumption
<1>3. star \in Text /\ Len(star) = 1 /\ star[1] = "*"
  BY <1>2, OneCharacter
<1>4. /\ t \in Text /\ (v.folder => Len(t) = 1 /\ t[1] = "\\")
      /\ (~v.folder => t = << >> /\ Len(t) = 0)
  BY FolderEndText
<1>5. b \in {0, 1} /\ (b = 1 <=> v.drive = Anywhere)
  BY DEF StarBefore
<1>6. Converted(ValueText(v)) = nt
  BY ValueConverted
<1> HIDE DEF W, t, star, b, l
<1>7. /\ H \in Text /\ Len(H) = b + l /\ (b = 1 => H[1] = "*")
      /\ \A q \in 1 .. l : H[b + q] = W[q]
  <2>1. CASE v.drive = Anywhere
    <3>1. star \o W \in Text /\ IsJoined(star \o W, star, W)
      BY <1>1, <1>3, Joined, Zenon DEF Text
    <3>2. H = star \o W
      BY <2>1
    <3> HIDE DEF H
    <3>3. 1 \in 1 .. Len(star)
      BY <1>3
    <3> QED  BY <1>3, <1>5, <2>1, <3>1, <3>2, <3>3 DEF IsJoined, l
  <2>2. CASE v.drive # Anywhere
    <3>1. H = W /\ b = 0 /\ \A q \in 1 .. l : 0 + q = q
      BY <1>5, <2>2
    <3> HIDE DEF H
    <3>2. Len(H) = 0 + l
      BY <1>1, <3>1 DEF l
    <3> QED  BY <1>1, <3>1, <3>2
  <2> QED  BY <2>1, <2>2
<1> HIDE DEF H
<1>8. nt \in Text /\ IsJoined(nt, H, t)
  BY <1>4, <1>7, Joined, Zenon DEF Text
<1> HIDE DEF nt
<1>9. /\ Len(nt) = b + l + (IF v.folder THEN 1 ELSE 0) /\ Len(nt) \in Nat
      /\ \A q \in 1 .. b + l : nt[q] = H[q]
      /\ v.folder => nt[b + l + 1] = "\\"
  <2>1. /\ Len(nt) = b + l + Len(t) /\ (\A q \in 1 .. b + l : nt[q] = H[q])
        /\ (\A q \in 1 .. Len(t) : nt[b + l + q] = t[q])
    BY <1>7, <1>8 DEF IsJoined
  <2>2. Len(t) = 1 => 1 \in 1 .. Len(t)
    OBVIOUS
  <2> QED  BY <1>1, <1>2, <1>4, <1>5, <2>1, <2>2
<1>10. ends_with(nt, <<"\\">>) <=> v.folder
  <2>1. ends_with(nt, <<"\\">>) <=> Len(nt) >= 1 /\ nt[Len(nt)] = "\\"
    BY <1>2, <1>8, EndsWithOne
  <2>2. CASE v.folder
    <3>1. Len(nt) = b + l + 1 /\ Len(nt) >= 1 /\ nt[b + l + 1] = "\\"
      BY <1>1, <1>5, <1>9, <2>2
    <3> QED  BY <2>1, <2>2, <3>1
  <2>3. CASE ~v.folder
    <3>1. Len(nt) = b + l
      BY <1>1, <1>5, <1>9, <2>3
    <3>2. CASE l > 0
      <4>1. l \in 1 .. l /\ b + l \in 1 .. b + l
        BY <1>1, <1>5, <3>2
      <4>2. nt[b + l] = H[b + l] /\ H[b + l] = W[l]
        BY <1>7, <1>9, <4>1
      <4> QED  BY <1>1, <2>1, <2>3, <3>1, <3>2, <4>2
    <3>3. CASE l = 0
      <4>1. b = 1 /\ b + l = 1 /\ 1 \in 1 .. b + l
        BY <1>1, <1>5, <3>3
      <4>2. nt[1] = H[1] /\ H[1] = "*"
        BY <1>7, <1>9, <4>1
      <4>3. nt[Len(nt)] # "\\"
        BY <3>1, <4>1, <4>2
      <4> QED  BY <2>1, <2>3, <4>3
    <3> QED  BY <1>1, <3>2, <3>3
  <2> QED  BY <2>2, <2>3
<1>11. P = Upper(Z)
  <2>1. P = IF Converted(ValueText(v)) = Error THEN Error
            ELSE Upper(IF ends_with(Converted(ValueText(v)), <<"\\">>)
                       THEN Append(Converted(ValueText(v)), "*")
                       ELSE Converted(ValueText(v)))
    BY DEF prepare_rule_file_path, Converted
  <2> HIDE DEF P
  <2>2. nt # Error
    BY <1>8, TextIsNoError
  <2> QED  BY <1>6, <1>10, <2>1, <2>2
<1> HIDE DEF P
<1>12. /\ Z \in Text /\ Len(Z) = b + l + (IF v.folder THEN 2 ELSE 0)
       /\ (\A q \in 1 .. Len(nt) : Z[q] = nt[q])
       /\ v.folder => Z[Len(nt) + 1] = "*"
  <2>1. CASE v.folder
    <3>1. /\ Append(nt, "*") \in Seq(Chars) /\ Len(Append(nt, "*")) = Len(nt) + 1
          /\ (\A i \in 1 .. Len(nt) : Append(nt, "*")[i] = nt[i])
          /\ Append(nt, "*")[Len(nt) + 1] = "*"
      BY <1>2, <1>8, AppendProperties DEF Text
    <3>2. Z = Append(nt, "*")
      BY <2>1
    <3> HIDE DEF Z
    <3>3. Len(Z) = b + l + 2
      BY <1>1, <1>5, <1>9, <2>1, <3>1, <3>2
    <3> QED  BY <2>1, <3>1, <3>2, <3>3 DEF Text
  <2>2. CASE ~v.folder
    <3>1. Z = nt
      BY <2>2
    <3> HIDE DEF Z
    <3> QED  BY <1>1, <1>5, <1>8, <1>9, <2>2, <3>1
  <2> QED  BY <2>1, <2>2
<1> HIDE DEF Z
<1>13. /\ P \in Text /\ Len(P) = Len(Z) /\ \A q \in 1 .. Len(Z) : P[q] = Upcased[Z[q]]
  BY <1>11, <1>12, UpperText
<1>14. b = 1 => P[1] = "*"
  <2> SUFFICES ASSUME b = 1 PROVE P[1] = "*"
    OBVIOUS
  <2>1. 1 \in 1 .. Len(Z) /\ 1 \in 1 .. Len(nt) /\ 1 \in 1 .. b + l
    BY <1>1, <1>2, <1>9, <1>12
  <2> QED  BY <1>2, <1>7, <1>9, <1>12, <1>13, <2>1
<1>15. ASSUME NEW q \in 1 .. l PROVE P[b + q] = Upcased[W[q]]
  <2>1. b + q \in 1 .. Len(Z) /\ b + q \in 1 .. Len(nt) /\ b + q \in 1 .. b + l
    BY <1>1, <1>2, <1>5, <1>9, <1>12
  <2> QED  BY <1>7, <1>9, <1>12, <1>13, <2>1
<1>16. v.folder => P[b + l + 1] = "\\" /\ P[b + l + 2] = "*"
  <2> SUFFICES ASSUME v.folder PROVE P[b + l + 1] = "\\" /\ P[b + l + 2] = "*"
    OBVIOUS
  <2>1. /\ b + l + 1 \in 1 .. Len(Z) /\ b + l + 1 \in 1 .. Len(nt)
        /\ b + l + 2 \in 1 .. Len(Z) /\ b + l + 2 = Len(nt) + 1
    BY <1>1, <1>5, <1>9, <1>12
  <2> QED  BY <1>2, <1>9, <1>12, <1>13, <2>1
<1>17. Len(P) = b + l + (IF v.folder THEN 2 ELSE 0)
  BY <1>12, <1>13
<1> QED  BY <1>13, <1>14, <1>15, <1>16, <1>17 DEF IsPrepared, P, W, b, l

\* One whose drive is not cannot be.
LEMMA NotPrepared ==
    ASSUME NEW v \in Written, ~(v.drive = Anywhere \/ Mapped(v.drive))
    PROVE  prepare_rule_file_path(ValueText(v)) = Error
<1>1. Converted(ValueText(v)) = Error
  BY ValueConverted
<1> QED  BY <1>1 DEF prepare_rule_file_path, Converted

----------------------------------------------------------------------------
(* The test of a path. *)

\* A character that is no wildcard is none in upper case.
LEMMA PlainStays ==
    ASSUME NEW c \in Chars, c # "*", c # "?"
    PROVE  Upcased[c] # "*" /\ Upcased[c] # "?"
BY SpellingAssumption

\* A text that has the path of a rule somewhere, up to its end.
LEMMA CoversToEnd ==
    ASSUME NEW W \in Text, \A p \in 1 .. Len(W) : W[p] # "*" /\ W[p] # "?",
           NEW b \in {0, 1}, NEW F \in Text, NEW e \in Text, Len(e) = b + Len(W),
           b = 1 => e[1] = "*", \A q \in 1 .. Len(W) : e[b + q] = Upcased[W[q]]
    PROVE  mathes_no_case(F, e) <=>
             \E k \in 0 .. Len(F) :
                (b = 0 => k = 0) /\ Occurs(W, F, k) /\ k + Len(W) = Len(F)
<1> DEFINE m == Len(W)
           d == 0
           L == Len(F)
<1>1. m \in Nat /\ L \in Nat
  BY LenProperties DEF Text
<1>2. \A q \in 1 .. m : e[b + q] # "*" /\ e[b + q] # "?"
  <2> TAKE q \in 1 .. m
  <2>1. W[q] \in Chars
    BY ElementOfSeq DEF Text
  <2> QED  BY <2>1, PlainStays
<1> HIDE DEF m, d, L
<1>3. d \in {0, 1} /\ Len(e) = b + m + d /\ (b = 1 => e[1] = "*") /\ d # 1 /\ d = 0
  BY <1>1 DEF m, d
<1>4. mathes_no_case(F, e) <=>
        \E k \in 0 .. Len(F) :
           /\ b = 0 => k = 0
           /\ k + m <= Len(F) /\ (d = 0 => k + m = Len(F))
           /\ \A q \in 1 .. m : Upcased[F[k + q]] = e[b + q]
  <2>1. IsStarred(e, b, d, m)
    BY <1>1, <1>2, <1>3 DEF IsStarred
  <2>2. mathes_no_case(F, e) <=> IsFound(F, e, b, d, m)
    BY <2>1, StarsMatch
  <2> QED  BY <2>2 DEF IsFound
<1>5. ASSUME NEW k \in 0 .. L
      PROVE  /\ k + m <= L /\ (d = 0 => k + m = L)
             /\ \A q \in 1 .. m : Upcased[F[k + q]] = e[b + q]
             <=> Occurs(W, F, k) /\ k + m = L
  <2>1. \A q \in 1 .. m : e[b + q] = Upcased[W[q]]
    BY DEF m
  <2>2. k + m \in Nat
    BY <1>1
  <2> QED  BY <1>1, <1>3, <2>1, <2>2 DEF Occurs, m, L
<1> QED  BY <1>4, <1>5 DEF m, L

\* A text that has the path of a folder somewhere, with a separator behind it.
LEMMA CoversInside ==
    ASSUME NEW W \in Text, \A p \in 1 .. Len(W) : W[p] # "*" /\ W[p] # "?",
           NEW b \in {0, 1}, NEW F \in Text, NEW P, IsPrepared(P, W, b, TRUE)
    PROVE  mathes_no_case(F, P) <=>
             \E k \in 0 .. Len(F) :
                /\ b = 0 => k = 0
                /\ Occurs(W, F, k) /\ k + Len(W) < Len(F) /\ F[k + Len(W) + 1] = "\\"
<1> DEFINE l == Len(W)
           m == l + 1
           d == 1
           L == Len(F)
<1>1. l \in Nat /\ m \in Nat /\ L \in Nat
  <2>1. l \in Nat /\ L \in Nat
    BY LenProperties DEF Text
  <2> QED  BY <2>1
<1>2. /\ P \in Text /\ Len(P) = b + l + 2 /\ (b = 1 => P[1] = "*")
      /\ (\A q \in 1 .. l : P[b + q] = Upcased[W[q]])
      /\ P[b + l + 1] = "\\" /\ P[b + l + 2] = "*"
  BY DEF IsPrepared
<1>3. b + m = b + l + 1 /\ b + m + 1 = b + l + 2 /\ b + m + d = b + l + 2
  BY <1>1
<1>4. P[b + m] = "\\" /\ P[b + m + 1] = "*"
  BY <1>2, <1>3
<1>5. \A q \in 1 .. m : P[b + q] # "*" /\ P[b + q] # "?"
  <2> TAKE q \in 1 .. m
  <2>1. CASE q = m
    BY <1>4, <2>1
  <2>2. CASE q # m
    <3>1. q \in 1 .. l
      BY <1>1, <2>2
    <3>2. W[q] \in Chars /\ W[q] # "*" /\ W[q] # "?"
      BY <3>1, ElementOfSeq DEF Text
    <3> QED  BY <1>2, <3>1, <3>2, PlainStays
  <2> QED  BY <2>1, <2>2
<1>6. \A q \in 1 .. m : q = m \/ q \in 1 .. l
  BY <1>1
<1>7. m \in 1 .. m /\ \A q \in 1 .. l : q \in 1 .. m
  BY <1>1
<1>8. \A k \in 0 .. L : (k + m <= L <=> k + l < L) /\ k + m = k + l + 1 /\ (k + l < L => k + l <= L)
                        /\ k + m \in Nat
  BY <1>1
<1> HIDE DEF l, m, d, L
<1>9. d \in {0, 1} /\ Len(P) = b + m + d /\ (d = 1 => P[b + m + 1] = "*") /\ d # 0
  BY <1>2, <1>3, <1>4 DEF d
<1>10. mathes_no_case(F, P) <=>
         \E k \in 0 .. Len(F) :
            /\ b = 0 => k = 0
            /\ k + m <= Len(F) /\ (d = 0 => k + m = Len(F))
            /\ \A q \in 1 .. m : Upcased[F[k + q]] = P[b + q]
  <2>1. IsStarred(P, b, d, m)
    BY <1>1, <1>2, <1>5, <1>9 DEF IsStarred
  <2> QED  BY <2>1, StarsMatch DEF IsFound
<1>11. ASSUME NEW k \in 0 .. L
       PROVE  /\ k + m <= L /\ (d = 0 => k + m = L)
              /\ \A q \in 1 .. m : Upcased[F[k + q]] = P[b + q]
              <=> Occurs(W, F, k) /\ k + l < L /\ F[k + l + 1] = "\\"
  <2>1. (\A q \in 1 .. m : Upcased[F[k + q]] = P[b + q]) <=>
          /\ \A q \in 1 .. l : Upcased[F[k + q]] = Upcased[W[q]]
          /\ Upcased[F[k + m]] = "\\"
    <3>1. ASSUME \A q \in 1 .. m : Upcased[F[k + q]] = P[b + q]
          PROVE  /\ \A q \in 1 .. l : Upcased[F[k + q]] = Upcased[W[q]]
                 /\ Upcased[F[k + m]] = "\\"
      BY <1>2, <1>4, <1>7, <3>1
    <3>2. ASSUME \A q \in 1 .. l : Upcased[F[k + q]] = Upcased[W[q]],
                 Upcased[F[k + m]] = "\\", NEW q \in 1 .. m
          PROVE  Upcased[F[k + q]] = P[b + q]
      <4>1. CASE q = m
        BY <1>4, <3>2, <4>1
      <4>2. CASE q \in 1 .. l
        BY <1>2, <3>2, <4>2
      <4> QED  BY <1>6, <4>1, <4>2
    <3> QED  BY <3>1, <3>2
  <2>2. k + m <= L => (Upcased[F[k + m]] = "\\" <=> F[k + m] = "\\")
    <3> SUFFICES ASSUME k + m <= L PROVE Upcased[F[k + m]] = "\\" <=> F[k + m] = "\\"
      OBVIOUS
    <3>1. k + m \in 1 .. Len(F)
      BY <1>1, <1>8 DEF L, m
    <3>2. F[k + m] \in Chars
      BY <3>1, ElementOfSeq DEF Text
    <3> QED  BY <3>2, SpellingAssumption
  <2>3. Occurs(W, F, k) <=> k + l <= L /\ \A q \in 1 .. l : Upcased[F[k + q]] = Upcased[W[q]]
    BY DEF Occurs, l, L
  <2> QED  BY <1>8, <1>9, <2>1, <2>2, <2>3
<1> QED  BY <1>10, <1>11 DEF l, L

\* The end of a prepared path.
LEMMA EndsWithPostfix ==
    ASSUME NEW P \in Text
    PROVE  ends_with(P, FolderRulePostfix) <=>
             2 <= Len(P) /\ P[Len(P) - 1] = "\\" /\ P[Len(P)] = "*"
<1> DEFINE s == FolderRulePostfix
           n == Len(P)
<1>1. n \in Nat
  BY LenProperties DEF Text
<1>2. s \in Text /\ Len(s) = 2 /\ s[1] = "\\" /\ s[2] = "*"
  BY RulePathsAssumption DEF Text, FolderRulePostfix
<1> HIDE DEF n, s
<1>3. IsSuffix(s, P) <=> Len(s) <= Len(P) /\ \A q \in 1 .. Len(s) : P[Len(P) - Len(s) + q] = s[q]
  BY <1>1, <1>2, SuffixAt
<1>4. n - 2 + 1 = n - 1 /\ n - 2 + 2 = n /\ 1 \in 1 .. 2 /\ 2 \in 1 .. 2
      /\ \A q \in 1 .. 2 : q = 1 \/ q = 2
  BY <1>1
<1>5. (\A q \in 1 .. 2 : P[n - 2 + q] = s[q]) <=> P[n - 2 + 1] = s[1] /\ P[n - 2 + 2] = s[2]
  BY <1>4
<1>6. IsSuffix(s, P) <=> 2 <= n /\ \A q \in 1 .. 2 : P[n - 2 + q] = s[q]
  BY <1>2, <1>3 DEF n
<1> QED  BY <1>2, <1>4, <1>5, <1>6 DEF ends_with, n, s

\* The folder's own path.
LEMMA FolderCut ==
    ASSUME NEW P, NEW W \in Text, NEW b \in {0, 1}, IsPrepared(P, W, b, TRUE)
    PROVE  /\ ends_with(P, FolderRulePostfix)
           /\ IsPrepared(head_of(P, Len(P) - Len(FolderRulePostfix)), W, b, FALSE)
<1> DEFINE l == Len(W)
           n == Len(P)
           o == 0
           r == b + l
           e == SubSeq(P, o + 1, r)
<1>1. l \in Nat /\ n \in Nat /\ P \in Text
  BY LenProperties DEF Text, IsPrepared
<1>2. /\ n = b + l + 2 /\ (b = 1 => P[1] = "*")
      /\ (\A q \in 1 .. l : P[b + q] = Upcased[W[q]])
      /\ P[b + l + 1] = "\\" /\ P[b + l + 2] = "*"
  BY DEF IsPrepared
<1>3. Len(FolderRulePostfix) = 2
  BY DEF FolderRulePostfix
<1> HIDE DEF l, n
<1>4. n - 1 = b + l + 1 /\ 2 <= n /\ n - 2 = b + l
  BY <1>1, <1>2
<1>5. ends_with(P, FolderRulePostfix)
  BY <1>1, <1>2, <1>4, EndsWithPostfix DEF n
<1>6. o \in 0 .. Len(P) /\ r \in o .. Len(P) /\ r - o = r /\ ~(r > Len(P)) /\ \A q \in 1 .. r : o + q = q
  BY <1>1, <1>2, <1>4 DEF n
<1>7. head_of(P, n - 2) = e
  BY <1>4, <1>6 DEF head_of
<1> HIDE DEF o, r
<1>8. e \in Text /\ Len(e) = r - o /\ \A q \in 1 .. r - o : e[q] = P[o + q]
  BY <1>1, <1>6, Cut
<1> HIDE DEF e
<1>9. e \in Text /\ Len(e) = b + l /\ \A q \in 1 .. b + l : e[q] = P[q]
  BY <1>6, <1>8 DEF r
<1>10. b = 1 => e[1] = "*"
  <2>1. b = 1 => 1 \in 1 .. b + l
    BY <1>1
  <2> QED  BY <1>2, <1>9, <2>1
<1>11. \A q \in 1 .. l : e[b + q] = Upcased[W[q]]
  <2>1. \A q \in 1 .. l : b + q \in 1 .. b + l
    BY <1>1
  <2> QED  BY <1>2, <1>9, <2>1
<1>12. b + l = b + l + 0
  BY <1>1
<1>13. IsPrepared(e, W, b, FALSE)
  BY <1>9, <1>10, <1>11, <1>12 DEF IsPrepared, l
<1> QED  BY <1>3, <1>5, <1>7, <1>13 DEF n

\* A rule covers what has its path up to its end or, for a folder, up to a
\* separator (path_covers).
LEMMA Covers ==
    ASSUME NEW W \in Text, \A p \in 1 .. Len(W) : W[p] # "*" /\ W[p] # "?",
           NEW b \in {0, 1}, NEW folder \in BOOLEAN, NEW F \in Text,
           NEW P, IsPrepared(P, W, b, folder)
    PROVE  path_covers(P, F) <=>
             \E k \in 0 .. Len(F) :
                /\ b = 0 => k = 0
                /\ Occurs(W, F, k)
                /\ \/ k + Len(W) = Len(F)
                   \/ folder /\ k + Len(W) < Len(F) /\ F[k + Len(W) + 1] = "\\"
<1> DEFINE l == Len(W)
           n == Len(P)
           s == FolderRulePostfix
           e == head_of(P, n - Len(s))
<1>1. l \in Nat /\ n \in Nat /\ P \in Text
  BY LenProperties DEF Text, IsPrepared
<1>2. /\ n = b + l + (IF folder THEN 2 ELSE 0) /\ (b = 1 => P[1] = "*")
      /\ (\A q \in 1 .. l : P[b + q] = Upcased[W[q]])
  BY DEF IsPrepared
<1>3. path_covers(P, F) <=> mathes_no_case(F, P) \/ (ends_with(P, s) /\ mathes_no_case(F, e))
  BY DEF path_covers
<1> HIDE DEF l, n, s, e
<1>4. CASE folder
  <2>1. IsPrepared(P, W, b, TRUE)
    BY <1>4
  <2>2. ends_with(P, s) /\ IsPrepared(e, W, b, FALSE)
    BY <2>1, FolderCut DEF s, e, n
  <2>3. e \in Text /\ Len(e) = b + Len(W)
    BY <1>1, <2>2 DEF IsPrepared, l
  <2>4. b = 1 => e[1] = "*"
    BY <2>2 DEF IsPrepared
  <2>5. \A q \in 1 .. Len(W) : e[b + q] = Upcased[W[q]]
    BY <2>2 DEF IsPrepared
  <2>6. mathes_no_case(F, e) <=>
          \E k \in 0 .. Len(F) : (b = 0 => k = 0) /\ Occurs(W, F, k) /\ k + Len(W) = Len(F)
    BY <2>3, <2>4, <2>5, CoversToEnd, ZenonT(60)
  <2>7. mathes_no_case(F, P) <=>
          \E k \in 0 .. Len(F) :
             /\ b = 0 => k = 0
             /\ Occurs(W, F, k) /\ k + Len(W) < Len(F) /\ F[k + Len(W) + 1] = "\\"
    BY <2>1, CoversInside
  <2> QED  BY <1>3, <1>4, <2>2, <2>6, <2>7
<1>5. CASE ~folder
  <2>1. n = b + l
    BY <1>1, <1>2, <1>5
  <2>2. ~ends_with(P, s)
    <3>1. CASE l = 0
      <4>1. ~(2 <= n)
        BY <2>1, <3>1
      <4> QED  BY <1>1, <4>1, EndsWithPostfix DEF n, s
    <3>2. CASE l # 0
      <4>1. l \in 1 .. l
        BY <1>1, <3>2
      <4>2. W[l] \in Chars /\ W[l] # "*" /\ W[l] # "?"
        BY <4>1, ElementOfSeq DEF Text, l
      <4>3. P[b + l] # "*"
        BY <1>2, <4>1, <4>2, PlainStays
      <4> QED  BY <1>1, <2>1, <4>3, EndsWithPostfix DEF n, s
    <3> QED  BY <3>1, <3>2
  <2>3. mathes_no_case(F, P) <=>
          \E k \in 0 .. Len(F) : (b = 0 => k = 0) /\ Occurs(W, F, k) /\ k + Len(W) = Len(F)
    BY <1>1, <1>2, <2>1, CoversToEnd DEF l, n
  <2> QED  BY <1>3, <1>5, <2>2, <2>3
<1> QED  BY <1>4, <1>5

----------------------------------------------------------------------------
(* What a value means. *)

\* The names of f behind the i-th are the names a.
AreAt(a, f, i) == i + Len(a) <= Len(f) /\ \A m \in 1 .. Len(a) : Similar(f[i + m], a[m])

\* They are at a place where a rule counts: at the start unless there is a star,
\* and at the end unless it is a folder's.
NamesAreAt(a, f, b, folder, i) ==
    /\ b = 0 => i = 0
    /\ folder \/ i + Len(a) = Len(f)
    /\ AreAt(a, f, i)

\* The same of the text A of a path, which may go on behind a separator.
TextIsAt(A, F, b, folder, k) ==
    /\ b = 0 => k = 0
    /\ Occurs(A, F, k)
    /\ \/ k + Len(A) = Len(F)
       \/ folder /\ k + Len(A) < Len(F) /\ F[k + Len(A) + 1] = "\\"

\* Names of a path that are alike are similar texts.
LEMMA AlikeWithin ==
    ASSUME NEW f \in Seq(Part), NEW a \in Seq(Part), NEW i \in 0 .. Len(f)
    PROVE  i + Len(a) <= Len(f) /\ Alike(SubSeq(f, i + 1, i + Len(a)), a) <=> AreAt(a, f, i)
<1> DEFINE n == i + Len(a)
           s == SubSeq(f, i + 1, n)
<1>1. Len(f) \in Nat /\ Len(a) \in Nat /\ n \in Nat /\ n - i = Len(a) /\ n >= i
  BY LenProperties
<1> SUFFICES ASSUME n <= Len(f) PROVE Alike(s, a) <=> AreAt(a, f, i)
  BY DEF AreAt
<1>2. n \in i .. Len(f)
  BY <1>1
<1> HIDE DEF n
<1>3. s \in Seq(Part) /\ Len(s) = n - i /\ \A q \in 1 .. n - i : s[q] = f[i + q]
  BY <1>2, CutOut
<1> HIDE DEF s
<1>4. Alike(s, a) <=> Len(s) = Len(a) /\ \A m \in 1 .. Len(a) : Similar(s[m], a[m])
  BY <1>3, AlikeNames
<1>5. Alike(s, a) <=> \A m \in 1 .. Len(a) : Similar(f[i + m], a[m])
  BY <1>1, <1>3, <1>4
<1> QED  BY <1>5 DEF AreAt, n

\* What a value means, name by name.
LEMMA MeansNames ==
    ASSUME NEW v \in Written, v.drive = Anywhere \/ Mapped(v.drive), NEW f \in Seq(Part)
    PROVE  Means(v, f) <=>
             \E i \in 0 .. Len(f) : NamesAreAt(MeantNames(v), f, StarBefore(v), v.folder, i)
<1> DEFINE a == MeantNames(v)
           I == IF v.drive = Anywhere THEN 0 .. Len(f) ELSE {0}
<1>1. a \in Seq(Part)
  BY MeantLaid DEF AreNames
<1>2. Len(f) \in Nat /\ Len(a) \in Nat
  BY <1>1, LenProperties
<1>3. Means(v, f) <=> \E i \in I :
        /\ i + Len(a) <= Len(f) /\ (v.folder \/ i + Len(a) = Len(f))
        /\ Alike(SubSeq(f, i + 1, i + Len(a)), a)
  BY DEF Means, Places, NamesAt
<1> HIDE DEF a
<1>4. \A i : i \in I <=> i \in 0 .. Len(f) /\ (StarBefore(v) = 0 => i = 0)
  BY <1>2 DEF StarBefore
<1> HIDE DEF I
<1>5. \A i \in 0 .. Len(f) :
         i + Len(a) <= Len(f) /\ Alike(SubSeq(f, i + 1, i + Len(a)), a) <=> AreAt(a, f, i)
  BY <1>1, AlikeWithin
<1>6. ASSUME NEW i \in 0 .. Len(f)
      PROVE  /\ i + Len(a) <= Len(f) /\ (v.folder \/ i + Len(a) = Len(f))
             /\ Alike(SubSeq(f, i + 1, i + Len(a)), a)
             <=> (v.folder \/ i + Len(a) = Len(f)) /\ AreAt(a, f, i)
  BY <1>5, Zenon
<1>7. \A i \in 0 .. Len(f) : NamesAreAt(a, f, StarBefore(v), v.folder, i) <=>
         /\ StarBefore(v) = 0 => i = 0
         /\ v.folder \/ i + Len(a) = Len(f)
         /\ AreAt(a, f, i)
  BY DEF NamesAreAt
<1> QED  BY <1>3, <1>4, <1>6, <1>7 DEF a

\* Names at a place of a path are its text there, up to the end of a name.
LEMMA NamesToText ==
    ASSUME NEW f, NEW F, NEW to, Laid(F, to, f), NEW a, NEW A, NEW at, Laid(A, at, a),
           NEW b, NEW folder \in BOOLEAN,
           NEW i \in 0 .. Len(f), NamesAreAt(a, f, b, folder, i)
    PROVE  \E k \in 0 .. Len(F) : TextIsAt(A, F, b, folder, k)
<1> DEFINE N == Len(f)
           k == to[i]
           j == i + Len(a)
           e == to[j]
           L == Len(F)
<1>1. /\ N \in Nat /\ L \in Nat /\ Len(a) \in Nat /\ Len(A) \in Nat /\ to[0] = 0 /\ to[N] = L
      /\ \A n \in 0 .. N : to[n] \in Nat
  BY DEF Laid
<1>0. (b = 0 => i = 0) /\ (folder \/ j = N) /\ AreAt(a, f, i)
  BY DEF NamesAreAt
<1>2. i \in Nat /\ j <= N /\ j \in 0 .. N /\ i <= j
  BY <1>0, <1>1 DEF AreAt
<1>3. Occurs(A, F, k) /\ k + Len(A) = e
  BY <1>0, NamesOccur DEF AreAt
<1>4. k \in Nat /\ e \in Nat
  BY <1>1, <1>2
<1>5. k + Len(A) <= L
  BY <1>3 DEF Occurs
<1>6. b = 0 => k = 0
  BY <1>0, <1>1
<1>7. j = N => e = L
  BY <1>1
<1>8. j < N => e < L /\ F[e + 1] = "\\"
  <2> SUFFICES ASSUME j < N PROVE e < L /\ F[e + 1] = "\\"
    OBVIOUS
  <2>1. j + 1 \in 1 .. N /\ (j + 1) - 1 = j /\ N \in 0 .. N
    BY <1>1, <1>2
  <2>2. F[to[(j + 1) - 1] + 1] = "\\"
    BY <2>1 DEF Laid
  <2>3. to[j] < to[N]
    BY <1>2, <2>1, NamesInOrder
  <2> QED  BY <1>1, <2>1, <2>2, <2>3
<1>9. folder \/ j = N
  BY <1>0
<1> HIDE DEF N, k, j, e, L
<1>10. k \in 0 .. L
  BY <1>1, <1>4, <1>5
<1>11. j = N \/ j < N
  BY <1>1, <1>2
<1>12. k + Len(A) = L \/ (folder /\ k + Len(A) < L /\ F[k + Len(A) + 1] = "\\")
  BY <1>3, <1>7, <1>8, <1>9, <1>11
<1> QED  BY <1>3, <1>6, <1>10, <1>12 DEF TextIsAt, L

\* And such a text is the names there.
LEMMA TextToNames ==
    ASSUME NEW f, NEW F, NEW to, Laid(F, to, f), NEW a, NEW A, NEW at, Laid(A, at, a),
           F \in Text, A \in Text, NEW b, b = 0 => Len(a) > 0, NEW folder \in BOOLEAN,
           NEW k \in 0 .. Len(F), TextIsAt(A, F, b, folder, k)
    PROVE  \E i \in 0 .. Len(f) : NamesAreAt(a, f, b, folder, i)
<1> DEFINE N == Len(f)
           M == Len(a)
           L == Len(F)
           e == k + Len(A)
<1>1. /\ N \in Nat /\ L \in Nat /\ M \in Nat /\ Len(A) \in Nat /\ to[0] = 0 /\ to[N] = L
      /\ \A n \in 0 .. N : to[n] \in Nat
  BY DEF Laid
<1>0. /\ (b = 0 => k = 0) /\ Occurs(A, F, k)
      /\ e = L \/ (folder /\ e < L /\ F[e + 1] = "\\")
  BY DEF TextIsAt
<1>2. k \in Nat /\ e \in Nat
  BY <1>1
<1>3. \E j \in 0 .. N : e = to[j] /\ (folder \/ j = N)
  <2>1. CASE e = L
    <3>1. N \in 0 .. N
      BY <1>1
    <3> QED  BY <1>0, <1>1, <2>1, <3>1
  <2>2. CASE folder /\ e < L /\ F[e + 1] = "\\"
    <3>1. e + 1 \in 1 .. L
      BY <1>1, <1>2, <2>2
    <3>2. PICK n \in 0 .. N - 1 : e + 1 = to[n] + 1
      BY <2>2, <3>1, SeparatorStartsName
    <3>3. n \in 0 .. N /\ to[n] \in Nat
      BY <1>1, <3>2
    <3>4. e = to[n]
      BY <1>2, <3>2, <3>3
    <3> QED  BY <2>2, <3>3, <3>4
  <2> QED  BY <1>0, <2>1, <2>2
<1>4. PICK j \in 0 .. N : e = to[j] /\ (folder \/ j = N)
  BY <1>3
<1>5. CASE M > 0
  <2>1. PICK i \in 0 .. N - 1 : /\ to[i] = k /\ i + M = j
                                /\ \A m \in 1 .. M : Similar(f[i + m], a[m])
    BY <1>0, <1>2, <1>4, <1>5, OccurrenceIsWhole
  <2>2. i \in 0 .. N /\ 0 \in 0 .. N /\ i + M <= N /\ (i = 0 \/ 0 < i)
    BY <1>1, <1>4, <2>1
  <2>3. b = 0 => i = 0
    <3> SUFFICES ASSUME b = 0, 0 < i PROVE FALSE
      BY <2>2
    <3>1. to[0] < to[i]
      BY <2>2, NamesInOrder
    <3> QED  BY <1>0, <1>1, <2>1, <3>1
  <2> QED  BY <1>4, <2>1, <2>2, <2>3 DEF NamesAreAt, AreAt
<1>6. CASE M = 0
  <2>1. b # 0 /\ j + M = j /\ j <= N
    BY <1>1, <1>6
  <2>2. AreAt(a, f, j)
    BY <1>6, <2>1 DEF AreAt
  <2> QED  BY <1>4, <2>1, <2>2 DEF NamesAreAt
<1> QED  BY <1>1, <1>5, <1>6

\* A rule covers what its value means (path_covers, prepare_rule_file_path).
LEMMA CoversTheMeant ==
    ASSUME NEW v \in Written, v.drive = Anywhere \/ Mapped(v.drive),
           \A i \in DOMAIN v.names : Plain(v.names[i]),
           NEW f \in Seq(Part), NEW F \in Text, NEW to, Laid(F, to, f)
    PROVE  path_covers(prepare_rule_file_path(ValueText(v)), F) <=> Means(v, f)
<1> DEFINE W == MeantPath(v)
           a == MeantNames(v)
           b == StarBefore(v)
           P == prepare_rule_file_path(ValueText(v))
           folder == v.folder
<1>1. AreNames(a) /\ HaveNoWildcards(a) /\ (v.drive # Anywhere => Len(a) > 0) /\ W \in Text
  BY MeantLaid
<1>2. PICK at : Laid(W, at, a)
  BY MeantLaid
<1>3. IsPrepared(P, W, b, folder)
  BY Prepared
<1>4. folder \in BOOLEAN /\ b \in {0, 1} /\ (b = 0 => v.drive # Anywhere)
  BY SpellingAssumption DEF StarBefore
<1>5. Means(v, f) <=> \E i \in 0 .. Len(f) : NamesAreAt(a, f, b, folder, i)
  BY MeansNames
<1> HIDE DEF W, a, b, P, folder
<1>6. \A p \in 1 .. Len(W) : W[p] # "*" /\ W[p] # "?"
  BY <1>1, <1>2, PlainPath
<1>7. path_covers(P, F) <=> \E k \in 0 .. Len(F) : TextIsAt(W, F, b, folder, k)
  BY <1>1, <1>3, <1>4, <1>6, Covers DEF TextIsAt
<1>8. ASSUME NEW i \in 0 .. Len(f), NamesAreAt(a, f, b, folder, i)
      PROVE  path_covers(P, F)
  BY <1>2, <1>4, <1>7, <1>8, NamesToText
<1>9. ASSUME NEW k \in 0 .. Len(F), TextIsAt(W, F, b, folder, k)
      PROVE  Means(v, f)
  <2>1. b = 0 => Len(a) > 0
    BY <1>1, <1>4
  <2> QED  BY <1>1, <1>2, <1>4, <1>5, <1>9, <2>1, TextToNames
<1> QED  BY <1>5, <1>7, <1>8, <1>9 DEF P

----------------------------------------------------------------------------
(* Wildcards. *)

\* One more character of an expression: a star reaches any length from a smaller
\* one, another character the next.
LEMMA OneMoreCharacter ==
    ASSUME NEW e \in Text, NEW n \in Text, NEW u, IsReached(u, e, n),
           NEW i, i + 1 \in 1 .. Len(e), i \in Nat
    PROVE  \A j : j \in u[i + 1] <=>
             /\ j \in 0 .. Len(n)
             /\ IF e[i + 1] = "*" THEN \E k \in u[i] : k <= j
                ELSE j - 1 \in u[i] /\ e[i + 1] \in {"?", n[j]}
<1> DEFINE p == i + 1
<1>1. Len(e) \in Nat
  BY LenProperties DEF Text
<1>2. p \in 0 .. Len(e) /\ p # 0 /\ p - 1 = i
  BY <1>1
<1> HIDE DEF p
<1>3. u[p] = ReachedStep(u, e, n, p)
  BY <1>2 DEF IsReached
<1>4. u[p] = {j \in 0 .. Len(n) :
                IF e[p] = "*" THEN \E k \in u[i] : k <= j
                ELSE j - 1 \in u[i] /\ e[p] \in {"?", n[j]}}
  BY <1>2, <1>3 DEF ReachedStep
<1> QED  BY <1>4 DEF p

\* Where an expression has another inside, from a place that is reached, what the
\* inner one reaches in a part of the name is reached there.
LEMMA ReachedInside ==
    ASSUME NEW e \in Text, NEW n \in Text, NEW u, IsReached(u, e, n),
           NEW d \in Text, NEW s \in Text, NEW w, IsReached(w, d, s),
           NEW c \in Nat, c + Len(d) <= Len(e), NEW o \in Nat, o + Len(s) <= Len(n),
           \A q \in 1 .. Len(d) : e[c + q] = d[q],
           \A q \in 1 .. Len(s) : n[o + q] = s[q],
           o \in u[c]
    PROVE  Len(s) \in w[Len(d)] => o + Len(s) \in u[c + Len(d)]
<1> DEFINE N == Len(d)
           M == Len(s)
           L == Len(n)
           Sent(i) == \A j \in w[i] : j \in 0 .. M /\ o + j \in u[c + i]
           S == {i \in 0 .. N : Sent(i)}
<1>1. N \in Nat /\ M \in Nat /\ L \in Nat /\ Len(e) \in Nat
  BY LenProperties DEF Text
<1>2. 0 \in S
  <2>1. w[0] = {0}
    <3>1. 0 \in 0 .. Len(d)
      BY <1>1
    <3>2. w[0] = ReachedStep(w, d, s, 0)
      BY <3>1 DEF IsReached
    <3> QED  BY <3>2 DEF ReachedStep
  <2>2. o + 0 = o /\ c + 0 = c /\ 0 \in 0 .. M /\ 0 \in 0 .. N
    BY <1>1
  <2>3. Sent(0)
    BY <2>1, <2>2
  <2> HIDE DEF Sent
  <2> QED  BY <2>2, <2>3
<1>3. ASSUME NEW i \in 0 .. N, i \in S, i < N PROVE i + 1 \in S
  <2> DEFINE p == i + 1
             x == c + i
  <2>1. /\ i \in Nat /\ p \in 1 .. Len(d) /\ p \in 0 .. N /\ x \in Nat
        /\ x + 1 \in 1 .. Len(e) /\ c + p = x + 1
    BY <1>1, <1>3
  <2>2. e[x + 1] = d[p]
    <3>1. e[c + p] = d[p]
      BY <2>1
    <3> QED  BY <2>1, <3>1
  <2>3. \A j : j \in w[i + 1] <=>
             /\ j \in 0 .. Len(s)
             /\ IF d[i + 1] = "*" THEN \E k \in w[i] : k <= j
                ELSE j - 1 \in w[i] /\ d[i + 1] \in {"?", s[j]}
    <3> HIDE DEF x
    <3>1. i + 1 \in 1 .. Len(d) /\ i \in Nat
      BY <2>1
    <3> QED  BY <3>1, OneMoreCharacter
  <2> HIDE DEF x
  <2>4. \A j : j \in u[x + 1] <=>
             /\ j \in 0 .. Len(n)
             /\ IF e[x + 1] = "*" THEN \E k \in u[x] : k <= j
                ELSE j - 1 \in u[x] /\ e[x + 1] \in {"?", n[j]}
    BY <2>1, OneMoreCharacter
  <2>5. ASSUME NEW k \in w[i] PROVE k \in 0 .. M /\ o + k \in u[x]
    BY <1>3 DEF x
  <2>6. ASSUME NEW j \in w[p] PROVE j \in 0 .. M /\ o + j \in u[x + 1]
    <3>1. /\ j \in 0 .. M
          /\ IF d[p] = "*" THEN \E k \in w[i] : k <= j
             ELSE j - 1 \in w[i] /\ d[p] \in {"?", s[j]}
      BY <2>3, <2>6
    <3>2. o + j \in 0 .. L
      BY <1>1, <3>1
    <3>3. CASE d[p] = "*"
      <4>1. PICK k \in w[i] : k <= j
        BY <3>1, <3>3
      <4>2. o + k \in u[x] /\ k \in 0 .. M
        BY <2>5
      <4>3. o + k <= o + j
        BY <1>1, <3>1, <4>1, <4>2
      <4> DEFINE y == o + j
                 z == o + k
      <4>4. y \in 0 .. L /\ z \in u[x] /\ z <= y
        BY <3>2, <4>2, <4>3
      <4> HIDE DEF y, z
      <4>5. y \in u[x + 1]
        BY <2>2, <2>4, <3>3, <4>4 DEF L
      <4> QED  BY <3>1, <4>5 DEF y
    <3>4. CASE d[p] # "*"
      <4>1. j - 1 \in w[i] /\ d[p] \in {"?", s[j]}
        BY <3>1, <3>4
      <4>2. j - 1 \in 0 .. M /\ o + (j - 1) \in u[x]
        BY <2>5, <4>1
      <4>3. j \in 1 .. Len(s) /\ o + (j - 1) = (o + j) - 1
        BY <1>1, <3>1, <4>2
      <4>4. n[o + j] = s[j]
        BY <4>3
      <4> DEFINE y == o + j
      <4>5. y \in 0 .. L /\ y - 1 \in u[x] /\ e[x + 1] # "*" /\ e[x + 1] \in {"?", n[y]}
        BY <2>2, <3>2, <3>4, <4>1, <4>2, <4>3, <4>4
      <4> HIDE DEF y
      <4>6. y \in u[x + 1]
        BY <2>4, <4>5 DEF L
      <4> QED  BY <3>1, <4>6 DEF y
    <3> QED  BY <3>3, <3>4
  <2>7. Sent(p)
    BY <2>1, <2>6
  <2> HIDE DEF Sent
  <2> QED  BY <2>1, <2>7
<1>4. \A i \in 0 .. N : i \in S
  <2> HIDE DEF S, N
  <2> QED  BY <1>1, <1>2, <1>3, Induction
<1>5. N \in S
  <2> HIDE DEF S
  <2> QED  BY <1>1, <1>4
<1> QED  BY <1>5

\* The names of f behind the i-th match the names a.
FitAt(a, f, i) ==
    i + Len(a) <= Len(f) /\ \A m \in 1 .. Len(a) : mathes_no_case(f[i + m], Upper(a[m]))

\* Behind the m-th name of a path comes, in upper case, the name x.
IsNext(F, to, m, x) ==
    /\ x \in Text /\ to[m] \in Nat
    /\ to[m + 1] = to[m] + 1 + Len(x) /\ to[m + 1] \in 0 .. Len(F)
    /\ Upper(F)[to[m] + 1] = "\\"
    /\ \A q \in 1 .. Len(x) : Upper(F)[to[m] + 1 + q] = x[q]

\* It is the next of the names.
LEMMA NameOfPath ==
    ASSUME NEW F \in Text, NEW f, NEW to, Laid(F, to, f), NEW m, m + 1 \in 1 .. Len(f),
           m \in Nat, NEW x, x = Upper(f[m + 1])
    PROVE  IsNext(F, to, m, x)
<1> DEFINE n == m + 1
           o == to[m]
<1>1. n \in 1 .. Len(f) /\ n - 1 = m /\ Len(f) \in Nat /\ Len(F) \in Nat /\ m \in 0 .. Len(f)
      /\ n \in 0 .. Len(f)
  BY DEF Laid
<1>0. x = Upper(f[n])
  OBVIOUS
<1> HIDE DEF n
<1>2. /\ f[n] \in Text /\ Len(f[n]) \in Nat
      /\ to[n] = o + 1 + Len(f[n]) /\ to[n] <= Len(F) /\ to[n] \in Nat /\ o \in Nat
      /\ F[o + 1] = "\\"
      /\ \A q \in 1 .. Len(f[n]) : F[o + 1 + q] = f[n][q]
  BY <1>1 DEF Laid
<1>3. /\ x \in Text /\ Len(x) = Len(f[n])
      /\ \A q \in 1 .. Len(f[n]) : x[q] = Upcased[f[n][q]]
  BY <1>0, <1>2, UpperText
<1>4. \A q \in 1 .. Len(F) : Upper(F)[q] = Upcased[F[q]]
  BY UpperText
<1>5. o + 1 \in 1 .. Len(F) /\ \A q \in 1 .. Len(f[n]) : o + 1 + q \in 1 .. Len(F)
  <2> DEFINE l == Len(f[n])
             r == to[n]
             L == Len(F)
  <2>1. l \in Nat /\ r = o + 1 + l /\ r <= L /\ o \in Nat /\ L \in Nat
    BY <1>1, <1>2
  <2> HIDE DEF l, r, L, o
  <2>2. o + 1 \in 1 .. L /\ \A q \in 1 .. l : o + 1 + q \in 1 .. L
    BY <2>1
  <2> QED  BY <2>2 DEF l, L
<1> HIDE DEF o
<1>6. Upper(F)[o + 1] = "\\"
  BY <1>2, <1>4, <1>5, RulePathsAssumption, SpellingAssumption
<1>7. \A q \in 1 .. Len(f[n]) : Upper(F)[o + 1 + q] = x[q]
  <2> TAKE q \in 1 .. Len(f[n])
  <2> DEFINE p == o + 1 + q
  <2>1. p \in 1 .. Len(F) /\ F[p] = f[n][q]
    BY <1>2, <1>5
  <2> HIDE DEF p
  <2>2. Upper(F)[p] = Upcased[F[p]]
    BY <1>4, <2>1
  <2>3. Upper(F)[p] = x[q]
    BY <1>3, <2>1, <2>2
  <2> QED  BY <2>3 DEF p
<1>8. to[n] \in 0 .. Len(F)
  <2> DEFINE r == to[n]
             L == Len(F)
  <2>1. r \in Nat /\ r <= L /\ L \in Nat
    BY <1>1, <1>2
  <2> HIDE DEF r, L
  <2>2. r \in 0 .. L
    BY <2>1
  <2> QED  BY <2>2 DEF r, L
<1> QED  BY <1>2, <1>3, <1>6, <1>7, <1>8 DEF n, o, IsNext

\* Names that fit the names of a path in an expression are reached as a whole, from
\* a place that is.
LEMMA NamesReached ==
    ASSUME NEW F \in Text, NEW f, NEW to, Laid(F, to, f),
           NEW W \in Text, NEW a, NEW at, Laid(W, at, a),
           NEW e \in Text, NEW u, IsReached(u, e, Upper(F)),
           NEW b \in Nat, b + Len(W) <= Len(e),
           \A q \in 1 .. Len(W) : e[b + q] = Upcased[W[q]],
           NEW i \in 0 .. Len(f), FitAt(a, f, i), to[i] \in u[b]
    PROVE  to[i + Len(a)] \in u[b + Len(W)]
<1> DEFINE M == Len(a)
           n == Upper(F)
           S == {m \in 0 .. M : to[i + m] \in u[b + at[m]]}
<1>1. /\ M \in Nat /\ i \in Nat /\ Len(f) \in Nat /\ Len(W) \in Nat /\ Len(e) \in Nat
      /\ at[0] = 0 /\ at[M] = Len(W) /\ i + M <= Len(f)
  <2>1. Len(e) \in Nat
    BY LenProperties DEF Text
  <2> QED  BY <2>1 DEF Laid, FitAt
<1>2. n \in Text /\ Len(n) = Len(F) /\ Len(F) \in Nat
  BY UpperText
<1>3. \A q \in 1 .. Len(W) : e[b + q] = Upper(W)[q]
  BY UpperText
<1>4. 0 \in S
  <2>1. i + 0 = i /\ b + 0 = b /\ 0 \in 0 .. M
    BY <1>1
  <2> QED  BY <1>1, <2>1
<1>5. ASSUME NEW m \in 0 .. M, m \in S, m < M PROVE m + 1 \in S
  <2> DEFINE g == i + m
             s == Upper(f[g + 1])
             d == Upper(a[m + 1])
             o == to[g]
             c == b + at[m]
             D == Len(d)
             T == Len(s)
  <2>1. /\ m \in Nat /\ m + 1 \in 1 .. M /\ m + 1 \in 0 .. M
        /\ g \in Nat /\ g + 1 \in 1 .. Len(f) /\ g + 1 = i + (m + 1)
    BY <1>1, <1>5
  <2> HIDE DEF g
  <2>2. /\ s \in Text /\ o \in Nat /\ to[g + 1] = o + 1 + T /\ to[g + 1] \in 0 .. Len(F)
        /\ n[o + 1] = "\\" /\ \A q \in 1 .. T : n[o + 1 + q] = s[q]
    <3>1. s = Upper(f[g + 1])
      OBVIOUS
    <3> HIDE DEF s
    <3>2. IsNext(F, to, g, s)
      BY <2>1, <3>1, NameOfPath
    <3> QED  BY <3>2 DEF IsNext
  <2>3. /\ d \in Text /\ at[m] \in Nat /\ at[m + 1] = at[m] + 1 + D
        /\ at[m + 1] \in 0 .. Len(W) /\ Upper(W)[at[m] + 1] = "\\"
        /\ \A q \in 1 .. D : Upper(W)[at[m] + 1 + q] = d[q]
    <3>1. d = Upper(a[m + 1])
      OBVIOUS
    <3> HIDE DEF d
    <3>2. m + 1 \in 1 .. Len(a)
      BY <2>1
    <3>3. IsNext(W, at, m, d)
      BY <2>1, <3>1, <3>2, NameOfPath
    <3> QED  BY <3>3 DEF IsNext
  <2>4. D \in Nat /\ T \in Nat
    BY <2>2, <2>3, LenProperties DEF Text
  <2>5. o \in u[c]
    BY <1>5 DEF g
  <2> DEFINE z == at[m]
  <2>6. z \in Nat /\ c = b + z /\ z + 1 + D <= Len(W)
    BY <2>3
  <2>7. mathes_no_case(f[g + 1], d)
    BY <2>1 DEF FitAt
  <2>8. f[g + 1] \in Text
    BY <2>1 DEF Laid
  <2>9. PICK w : IsReached(w, d, s) /\ T \in w[D]
    <3>1. \E w : IsReached(w, d, s) /\ (IsNameInExpression(d, f[g + 1], TRUE) <=> T \in w[D])
      <4> HIDE DEF d
      <4> QED  BY <2>3, MatchIsReached
    <3> QED  BY <2>7, <3>1 DEF mathes_no_case
  <2>10. /\ \A q \in 1 .. D : z + 1 + q \in 1 .. Len(W)
         /\ z + 1 \in 1 .. Len(W) /\ b + (z + 1) = c + 1
         /\ \A q \in 1 .. D : b + (z + 1 + q) = (c + 1) + q
         /\ c \in Nat /\ c + 1 \in 1 .. Len(e) /\ c + 1 \in Nat /\ (c + 1) + D <= Len(e)
         /\ (c + 1) + D = b + (z + 1 + D)
    <3> HIDE DEF c, z, D
    <3> QED  BY <1>1, <2>4, <2>6
  <2>11. Upper(W)[z + 1] = "\\" /\ \A q \in 1 .. D : Upper(W)[z + 1 + q] = d[q]
    BY <2>3
  <2> HIDE DEF c, z, s, d
  <2>12. e[c + 1] = "\\"
    BY <1>3, <2>10, <2>11, Zenon
  <2>13. \A q \in 1 .. D : e[(c + 1) + q] = d[q]
    BY <1>3, <2>10, <2>11, Zenon
  <2>14. o + 1 \in 1 .. Len(n) /\ o + 1 \in Nat /\ (o + 1) + T <= Len(n) /\ (o + 1) - 1 = o
    <3> HIDE DEF o, T
    <3> QED  BY <1>2, <2>2, <2>4
  <2> HIDE DEF o, n
  <2>15. o + 1 \in u[c + 1]
    <3> DEFINE y == o + 1
    <3>1. y \in 0 .. Len(n) /\ y - 1 \in u[c] /\ e[c + 1] # "*" /\ e[c + 1] \in {"?", n[y]}
      <4>1. y \in 0 .. Len(n)
        BY <2>14
      <4> QED  BY <2>2, <2>5, <2>12, <2>14, <4>1
    <3>2. c \in Nat /\ c + 1 \in 1 .. Len(e)
      BY <2>10
    <3> HIDE DEF y
    <3>3. IsReached(u, e, n)
      BY DEF n
    <3>4. y \in u[c + 1]
      BY <1>2, <3>1, <3>2, <3>3, OneMoreCharacter
    <3> QED  BY <3>4 DEF y
  <2>16. (o + 1) + T \in u[(c + 1) + D]
    <3> DEFINE y == o + 1
               x == c + 1
    <3>1. /\ x \in Nat /\ x + D <= Len(e) /\ y \in Nat /\ y + T <= Len(n) /\ y \in u[x]
          /\ \A q \in 1 .. D : e[x + q] = d[q]
          /\ \A q \in 1 .. T : n[y + q] = s[q]
      BY <2>2, <2>10, <2>13, <2>14, <2>15 DEF o
    <3> HIDE DEF x, y
    <3>2. IsReached(u, e, n)
      BY DEF n
    <3>3. y + T \in u[x + D]
      BY <1>2, <2>2, <2>3, <2>9, <3>1, <3>2, ReachedInside
    <3> QED  BY <3>3 DEF x, y
  <2>17. to[g + 1] \in u[b + at[m + 1]]
    <3>1. to[g + 1] = (o + 1) + T /\ b + at[m + 1] = (c + 1) + D
      BY <2>2, <2>3, <2>10 DEF z
    <3> QED  BY <2>16, <3>1
  <2> QED  BY <2>1, <2>17
<1>6. \A m \in 0 .. M : m \in S
  <2> HIDE DEF S, M
  <2> QED  BY <1>1, <1>4, <1>5, Induction
<1>7. M \in S
  <2> HIDE DEF S
  <2> QED  BY <1>1, <1>6
<1> QED  BY <1>1, <1>7

\* The names are reached from the start, and from anywhere behind a star.
LEMMA FitReached ==
    ASSUME NEW F \in Text, NEW f, NEW to, Laid(F, to, f),
           NEW W \in Text, NEW a, NEW at, Laid(W, at, a),
           NEW b \in {0, 1}, NEW folder \in BOOLEAN, NEW P, IsPrepared(P, W, b, folder),
           NEW u, IsReached(u, P, Upper(F)),
           NEW i \in 0 .. Len(f), b = 0 => i = 0, FitAt(a, f, i)
    PROVE  to[i + Len(a)] \in u[b + Len(W)]
<1>1. /\ P \in Text /\ Len(P) = b + Len(W) + (IF folder THEN 2 ELSE 0)
      /\ b = 1 => P[1] = "*"
      /\ \A q \in 1 .. Len(W) : P[b + q] = Upcased[W[q]]
  BY DEF IsPrepared
<1>2. Upper(F) \in Text /\ Len(Upper(F)) = Len(F)
  BY UpperText
<1>3. /\ to[0] = 0 /\ to[i] \in Nat /\ to[i] <= Len(F) /\ Len(F) \in Nat /\ Len(W) \in Nat
      /\ i \in Nat
  <2>1. /\ to[0] = 0 /\ to[i] \in Nat /\ Len(F) \in Nat /\ Len(W) \in Nat /\ i \in Nat
        /\ i = 0 \/ i \in 1 .. Len(f)
    BY DEF Laid
  <2>2. i \in 1 .. Len(f) => to[i] <= Len(F)
    BY DEF Laid
  <2> QED  BY <2>1, <2>2
<1>4. b + Len(W) <= Len(P) /\ b \in Nat /\ Len(P) \in Nat
  BY <1>1, <1>3
<1>5. u[0] = {0}
  <2>1. 0 \in 0 .. Len(P)
    BY <1>4
  <2>2. u[0] = ReachedStep(u, P, Upper(F), 0)
    BY <2>1 DEF IsReached
  <2> QED  BY <2>2 DEF ReachedStep
<1>6. to[i] \in u[b]
  <2>1. CASE b = 0
    BY <1>3, <1>5, <2>1
  <2>2. CASE b = 1
    <3> DEFINE o == 0
               k == to[i]
    <3>1. /\ o + 1 \in 1 .. Len(P) /\ o \in Nat /\ o + 1 = 1 /\ k \in 0 .. Len(Upper(F))
          /\ o <= k /\ u[o] = {o}
      BY <1>2, <1>3, <1>4, <1>5, <2>2
    <3> HIDE DEF o, k
    <3>2. P[o + 1] = "*"
      BY <1>1, <2>2, <3>1
    <3>3. k \in u[o + 1]
      BY <1>1, <1>2, <3>1, <3>2, OneMoreCharacter
    <3> QED  BY <2>2, <3>1, <3>3 DEF k
  <2> QED  BY <2>1, <2>2
<1> QED  BY <1>1, <1>4, <1>6, NamesReached

\* So a rule covers a file whose names fit its own (path_covers).
LEMMA FitIsCovered ==
    ASSUME NEW F \in Text, NEW f, NEW to, Laid(F, to, f),
           NEW W \in Text, NEW a, NEW at, Laid(W, at, a),
           NEW b \in {0, 1}, NEW folder \in BOOLEAN, NEW P, IsPrepared(P, W, b, folder),
           NEW i \in 0 .. Len(f), b = 0 => i = 0, folder \/ i + Len(a) = Len(f),
           FitAt(a, f, i)
    PROVE  path_covers(P, F)
<1> DEFINE N == Len(f)
           j == i + Len(a)
           n == Upper(F)
           L == Len(F)
           l == Len(W)
           k == to[j]
<1>1. /\ N \in Nat /\ L \in Nat /\ l \in Nat /\ j \in 0 .. N /\ k \in Nat /\ to[N] = L
  <2>1. /\ N \in Nat /\ L \in Nat /\ l \in Nat /\ Len(a) \in Nat /\ to[N] = L
        /\ \A m \in 0 .. N : to[m] \in Nat
    BY DEF Laid
  <2>2. j \in 0 .. N
    BY <2>1 DEF FitAt
  <2> QED  BY <2>1, <2>2
<1>2. n \in Text /\ Len(n) = L
  BY UpperText
<1>3. ASSUME NEW e, IsPrepared(e, W, b, FALSE), j = N
      PROVE  mathes_no_case(F, e)
  <2>1. e \in Text /\ Len(e) = b + l /\ FALSE \in BOOLEAN
    BY <1>1, <1>3 DEF IsPrepared
  <2>2. PICK u : IsReached(u, e, n) /\ (mathes_no_case(F, e) <=> Len(n) \in u[Len(e)])
    BY <2>1, MatchIsReached DEF mathes_no_case
  <2>3. k \in u[b + l]
    BY <1>3, <2>1, <2>2, FitReached
  <2> QED  BY <1>1, <1>2, <1>3, <2>1, <2>2, <2>3
<1>4. CASE ~folder
  <2>1. IsPrepared(P, W, b, FALSE) /\ j = N
    BY <1>4
  <2> QED  BY <1>3, <2>1 DEF path_covers
<1>5. CASE folder /\ j = N
  <2> DEFINE e == head_of(P, Len(P) - Len(FolderRulePostfix))
  <2>1. IsPrepared(P, W, b, TRUE)
    BY <1>5
  <2>2. ends_with(P, FolderRulePostfix) /\ IsPrepared(e, W, b, FALSE)
    BY <2>1, FolderCut
  <2> HIDE DEF e
  <2>3. mathes_no_case(F, e)
    BY <1>3, <1>5, <2>2
  <2> QED  BY <2>2, <2>3 DEF path_covers, e
<1>6. CASE folder /\ j < N
  <2> DEFINE p == b + l
  <2>1. /\ P \in Text /\ Len(P) = p + 2 /\ p \in Nat
        /\ P[p + 1] = "\\" /\ P[p + 2] = "*"
    BY <1>1, <1>6 DEF IsPrepared
  <2>2. PICK u : IsReached(u, P, n) /\ (mathes_no_case(F, P) <=> Len(n) \in u[Len(P)])
    BY <2>1, MatchIsReached DEF mathes_no_case
  <2>3. k \in u[p]
    BY <2>2, FitReached
  <2>4. k + 1 \in 1 .. L /\ n[k + 1] = "\\"
    <3> DEFINE x == Upper(f[j + 1])
    <3>1. j + 1 \in 1 .. N /\ j \in Nat
      BY <1>1, <1>6
    <3>2. x = Upper(f[j + 1])
      OBVIOUS
    <3> HIDE DEF x, j
    <3>3. IsNext(F, to, j, x)
      BY <3>1, <3>2, NameOfPath
    <3>4. /\ x \in Text /\ to[j + 1] = k + 1 + Len(x) /\ to[j + 1] \in 0 .. L
          /\ n[k + 1] = "\\"
      BY <3>3 DEF IsNext
    <3>5. Len(x) \in Nat
      BY <3>4, LenProperties DEF Text
    <3> DEFINE y == Len(x)
    <3>6. y \in Nat /\ k + 1 + y \in 0 .. L /\ k \in Nat /\ L \in Nat
      BY <1>1, <3>4, <3>5
    <3> HIDE DEF y, k, L
    <3>7. k + 1 \in 1 .. L
      BY <3>6
    <3> QED  BY <3>4, <3>7 DEF k, L
  <2> HIDE DEF p, k, n, L
  <2>5. k + 1 \in u[p + 1]
    <3> DEFINE y == k + 1
    <3>1. y \in 0 .. Len(n) /\ y - 1 \in u[p] /\ P[p + 1] \in {"?", n[y]} /\ P[p + 1] # "*"
      <4>1. y \in 0 .. Len(n) /\ y - 1 = k
        BY <1>1, <1>2, <2>4
      <4> QED  BY <2>1, <2>3, <2>4, <4>1
    <3>2. p + 1 \in 1 .. Len(P)
      BY <2>1
    <3> HIDE DEF y
    <3>3. y \in u[p + 1]
      BY <1>2, <2>1, <2>2, <3>1, <3>2, OneMoreCharacter
    <3> QED  BY <3>3 DEF y
  <2>6. L \in u[p + 2]
    <3> DEFINE r == p + 1
               y == k + 1
    <3>1. /\ r + 1 = p + 2 /\ r + 1 \in 1 .. Len(P) /\ r \in Nat /\ P[r + 1] = "*"
          /\ y \in u[r] /\ y <= L /\ L \in 0 .. Len(n)
      BY <1>1, <1>2, <2>1, <2>4, <2>5
    <3> HIDE DEF r, y
    <3>2. L \in u[r + 1]
      BY <1>2, <2>1, <2>2, <3>1, OneMoreCharacter
    <3> QED  BY <3>1, <3>2
  <2>7. mathes_no_case(F, P)
    BY <1>2, <2>1, <2>2, <2>6
  <2> QED  BY <2>7 DEF path_covers
<1> QED  BY <1>1, <1>4, <1>5, <1>6

\* Names of a path that fit, as the property has them.
LEMMA FitWithin ==
    ASSUME NEW f \in Seq(Part), NEW a \in Seq(Part), NEW i \in 0 .. Len(f),
           i + Len(a) <= Len(f),
           \A m \in DOMAIN a :
              mathes_no_case(SubSeq(f, i + 1, i + Len(a))[m], Upper(a[m]))
    PROVE  FitAt(a, f, i)
<1> DEFINE n == i + Len(a)
           s == SubSeq(f, i + 1, n)
<1>1. Len(f) \in Nat /\ Len(a) \in Nat /\ DOMAIN a = 1 .. Len(a)
  BY LenProperties
<1>2. n \in i .. Len(f) /\ n - i = Len(a)
  BY <1>1
<1> HIDE DEF n
<1>3. \A q \in 1 .. n - i : s[q] = f[i + q]
  BY <1>2, CutOut
<1>4. \A m \in 1 .. Len(a) : mathes_no_case(s[m], Upper(a[m]))
  BY <1>1 DEF n
<1> HIDE DEF s
<1>5. \A m \in 1 .. Len(a) : mathes_no_case(f[i + m], Upper(a[m]))
  BY <1>2, <1>3, <1>4
<1> QED  BY <1>5 DEF FitAt

\* A rule covers what its value fits (path_covers, prepare_rule_file_path).
LEMMA CoversTheFitting ==
    ASSUME NEW v \in Written, v.drive = Anywhere \/ Mapped(v.drive),
           NEW f \in Seq(Part), NEW F \in Text, NEW to, Laid(F, to, f), Fits(v, f)
    PROVE  path_covers(prepare_rule_file_path(ValueText(v)), F)
<1> DEFINE W == MeantPath(v)
           a == MeantNames(v)
           b == StarBefore(v)
           P == prepare_rule_file_path(ValueText(v))
           folder == v.folder
<1>1. PICK i \in Places(v, f) : \A m \in DOMAIN a : mathes_no_case(NamesAt(v, f, i)[m], Upper(a[m]))
  BY DEF Fits
<1>2. a \in Seq(Part) /\ W \in Text
  BY MeantLaid DEF AreNames
<1>3. PICK at : Laid(W, at, a)
  BY MeantLaid
<1>4. /\ i \in 0 .. Len(f) /\ (b = 0 => i = 0)
      /\ i + Len(a) <= Len(f) /\ (folder \/ i + Len(a) = Len(f))
  <2>1. Len(f) \in Nat
    BY LenProperties
  <2> QED  BY <1>1, <2>1 DEF Places, StarBefore
<1>5. FitAt(a, f, i)
  <2>1. \A m \in DOMAIN a : mathes_no_case(SubSeq(f, i + 1, i + Len(a))[m], Upper(a[m]))
    BY <1>1 DEF NamesAt
  <2> HIDE DEF a
  <2> QED  BY <1>2, <1>4, <2>1, FitWithin
<1>6. IsPrepared(P, W, b, folder)
  BY Prepared
<1>7. folder \in BOOLEAN /\ b \in {0, 1}
  BY SpellingAssumption DEF StarBefore
<1> HIDE DEF W, a, b, P, folder
<1> QED  BY <1>2, <1>3, <1>4, <1>5, <1>6, <1>7, FitIsCovered DEF P

----------------------------------------------------------------------------
(* The process of a rule. *)

\* The name of a process is the last of its image (Process::name).
LEMMA ProcessName ==
    ASSUME NEW image \in Seq(Part), Len(image) > 0
    PROVE  process_name(PathText(image)) = Last(image) /\ Last(image) \in Text
<1> DEFINE F == PathText(image)
           N == Len(image)
<1>1. F \in Text
  BY PathLaid
<1>2. PICK to : Laid(F, to, image)
  BY PathLaid
<1>3. N \in 1 .. N /\ image[N] \in Text
  <2>1. N \in 1 .. N
    BY LenProperties
  <2> QED  BY <2>1, ElementOfSeq, PartIsText
<1> DEFINE e == to[N - 1]
<1> HIDE DEF F
<1>4. /\ e \in Nat /\ e + 1 \in 1 .. Len(F) /\ Len(F) \in Nat /\ F[e + 1] = "\\"
      /\ \A q \in 1 .. Len(F) : e + 1 < q => F[q] # "\\"
      /\ substr(F, e + 1) = image[N]
  BY <1>1, <1>2, LastNameCut
<1> HIDE DEF e
<1>5. last_index_of(F, "\\") = (e + 1) - 1
  <2> DEFINE p == e + 1
  <2>1. p \in 1 .. Len(F) /\ F[p] = "\\" /\ \A q \in 1 .. Len(F) : p < q => F[q] # "\\"
    BY <1>4
  <2> HIDE DEF p
  <2>2. last_index_of(F, "\\") = p - 1
    BY <1>1, <2>1, LastIndex
  <2> QED  BY <2>2 DEF p
<1>6. (e + 1) - 1 = e
  BY <1>4
<1>7. process_name(F) = substr(F, e + 1)
  BY <1>5, <1>6 DEF process_name
<1> QED  BY <1>3, <1>4, <1>7 DEF F, Last

\* A name has a character.
LEMMA PlainLonger ==
    ASSUME NEW name \in Name
    PROVE  Len(name) > 0
<1>1. name \in Seq(Chars \ {"\\"}) /\ name # << >>
  BY DEF Name
<1> QED  BY <1>1, EmptySeq, LenProperties

\* A text but its first character.
LEMMA TailOfText ==
    ASSUME NEW x \in Text, Len(x) > 0
    PROVE  /\ Tail(x) \in Text /\ Len(Tail(x)) = Len(x) - 1
           /\ \A q \in 1 .. Len(x) - 1 : Tail(x)[q] = x[1 + q]
           /\ Head(x) = x[1]
<1>1. x \in Seq(Chars) /\ x # << >>
  BY EmptySeq DEF Text
<1>2. Len(x) \in Nat
  BY <1>1, LenProperties
<1>3. /\ Tail(x) \in Seq(Chars) /\ Len(Tail(x)) = Len(x) - 1
      /\ \A i \in 1 .. Len(Tail(x)) : Tail(x)[i] = x[i + 1]
  BY <1>1, HeadTailProperties
<1>4. \A q \in 1 .. Len(x) - 1 : q + 1 = 1 + q
  BY <1>2
<1> QED  BY <1>3, <1>4 DEF Text

\* The pattern of a process matches the name it spells or, behind a star, the
\* names that end in what it spells.
LEMMA ProcessMatches ==
    ASSUME NEW name \in Text, NEW pattern \in Name, Plain(Tail(pattern)), Head(pattern) # "?"
    PROVE  mathes_no_case(name, Upper(pattern)) <=>
             IF Head(pattern) = "*" THEN IsSuffix(Upper(Tail(pattern)), Upper(name))
             ELSE equals_no_case(name, pattern)
<1> DEFINE e == Upper(pattern)
           n == Len(pattern)
           L == Len(name)
           t == Tail(pattern)
           l == n - 1
           o == 0
           one == 1
<1>1. /\ pattern \in Text /\ n \in Nat /\ n > 0 /\ l \in Nat /\ one + l = n /\ one + l + o = n /\ o + n = n
      /\ o + n + o = n /\ L \in Nat
  <2>1. pattern \in Text /\ n \in Nat
    BY NamesAreParts, PartIsText
  <2>2. n > 0
    BY PlainLonger
  <2>3. L \in Nat
    BY LenProperties DEF Text
  <2> QED  BY <2>1, <2>2, <2>3
<1>2. /\ e \in Text /\ Len(e) = n
      /\ \A q \in 1 .. n : e[q] = Upcased[pattern[q]] /\ pattern[q] \in Chars
  BY <1>1, UpperText
<1>3. /\ t \in Text /\ Len(t) = l /\ \A q \in 1 .. l : t[q] = pattern[1 + q]
      /\ Head(pattern) = pattern[1]
  BY <1>1, TailOfText
<1>4. \A q \in 1 .. l : pattern[1 + q] # "*" /\ pattern[1 + q] # "?"
  <2> TAKE q \in 1 .. l
  <2>1. t[q] \in Range(t)
    BY <1>3, LenProperties DEF Range, Text
  <2> QED  BY <1>3, <2>1 DEF Plain
<1>5. \A q \in 1 .. l : 1 + q \in 1 .. n
  BY <1>1
<1>6. \A q \in 1 .. n : q = 1 \/ (q - 1 \in 1 .. l /\ 1 + (q - 1) = q)
  BY <1>1
<1> HIDE DEF e, n, L, t, l
<1>7. CASE Head(pattern) = "*"
  <2>1. IsStarred(e, one, o, l)
    <3>1. one \in {0, 1} /\ o \in {0, 1} /\ o # 1 /\ 1 \in 1 .. n
      BY <1>1
    <3>2. e[1] = "*"
      <4>1. e[1] = Upcased["*"]
        BY <1>2, <1>3, <1>7, <3>1
      <4> QED  BY <4>1, RulePathsAssumption, SpellingAssumption
    <3>3. \A q \in 1 .. l : e[one + q] # "*" /\ e[one + q] # "?"
      <4> TAKE q \in 1 .. l
      <4>1. pattern[1 + q] \in Chars /\ e[1 + q] = Upcased[pattern[1 + q]]
        BY <1>2, <1>5
      <4> QED  BY <1>4, <4>1, PlainStays
    <3> HIDE DEF one, o
    <3> QED  BY <1>1, <1>2, <3>1, <3>2, <3>3 DEF IsStarred
  <2>2. mathes_no_case(name, e) <=> IsFound(name, e, one, o, l)
    <3> HIDE DEF one, o
    <3> QED  BY <2>1, StarsMatch
  <2>3. IsFound(name, e, one, o, l) <=>
          \E k \in 0 .. L : /\ k + l <= L /\ k + l = L
                            /\ \A q \in 1 .. l : Upcased[name[k + q]] = e[1 + q]
    BY DEF IsFound, L
  <2>4. \A q \in 1 .. l : e[1 + q] = Upcased[t[q]]
    BY <1>2, <1>3, <1>5
  <2>5. /\ Upper(t) \in Text /\ Len(Upper(t)) = l
        /\ \A q \in 1 .. l : Upper(t)[q] = Upcased[t[q]]
    BY <1>3, UpperText
  <2>6. /\ Upper(name) \in Text /\ Len(Upper(name)) = L
        /\ \A q \in 1 .. L : Upper(name)[q] = Upcased[name[q]]
    BY UpperText DEF L
  <2>7. IsSuffix(Upper(t), Upper(name)) <=>
          l <= L /\ \A q \in 1 .. l : Upper(name)[L - l + q] = Upper(t)[q]
    <3>1. IsSuffix(Upper(t), Upper(name)) <=>
            /\ Len(Upper(t)) <= Len(Upper(name))
            /\ \A q \in 1 .. Len(Upper(t)) :
                  Upper(name)[Len(Upper(name)) - Len(Upper(t)) + q] = Upper(t)[q]
      BY <2>5, <2>6, SuffixAt
    <3> QED  BY <2>5, <2>6, <3>1
  <2>8. ASSUME l <= L
        PROVE  (\A q \in 1 .. l : Upper(name)[L - l + q] = Upper(t)[q]) <=>
                  \A q \in 1 .. l : Upcased[name[L - l + q]] = e[1 + q]
    <3> DEFINE z == L - l
    <3>1. \A q \in 1 .. l : z + q \in 1 .. L
      BY <1>1, <2>8
    <3> HIDE DEF z
    <3>2. \A q \in 1 .. l : Upper(name)[z + q] = Upcased[name[z + q]]
      BY <2>6, <3>1
    <3>3. \A q \in 1 .. l : Upper(t)[q] = e[1 + q]
      BY <2>4, <2>5
    <3>4. ASSUME NEW q \in 1 .. l
          PROVE  Upper(name)[z + q] = Upper(t)[q] <=> Upcased[name[z + q]] = e[1 + q]
      BY <3>2, <3>3
    <3>5. (\A q \in 1 .. l : Upper(name)[z + q] = Upper(t)[q]) <=>
             \A q \in 1 .. l : Upcased[name[z + q]] = e[1 + q]
      BY <3>4
    <3> QED  BY <3>5 DEF z
  <2>9. \A k \in 0 .. L : k + l = L <=> l <= L /\ k = L - l
    BY <1>1
  <2>10. l <= L => L - l \in 0 .. L /\ (L - l) + l <= L
    BY <1>1
  <2>11. IsFound(name, e, one, o, l) <=>
           l <= L /\ \A q \in 1 .. l : Upcased[name[L - l + q]] = e[1 + q]
    <3>1. ASSUME l <= L, \A q \in 1 .. l : Upcased[name[L - l + q]] = e[1 + q]
          PROVE  IsFound(name, e, one, o, l)
      <4> DEFINE k == L - l
      <4>1. k \in 0 .. L /\ k + l <= L /\ k + l = L
        BY <2>9, <2>10, <3>1
      <4>2. \A q \in 1 .. l : Upcased[name[k + q]] = e[1 + q]
        BY <3>1
      <4> HIDE DEF k, one, o
      <4> QED  BY <2>3, <4>1, <4>2
    <3>2. ASSUME NEW k \in 0 .. L, k + l = L,
                 \A q \in 1 .. l : Upcased[name[k + q]] = e[1 + q]
          PROVE  l <= L /\ \A q \in 1 .. l : Upcased[name[L - l + q]] = e[1 + q]
      BY <2>9, <3>2
    <3> HIDE DEF one, o
    <3> QED  BY <2>3, <3>1, <3>2
  <2>12. mathes_no_case(name, e) <=> IsSuffix(Upper(t), Upper(name))
    <3> HIDE DEF one, o
    <3> QED  BY <2>2, <2>7, <2>8, <2>11
  <2> QED  BY <1>7, <2>12 DEF e, t
<1>8. CASE Head(pattern) # "*"
  <2>1. IsStarred(e, o, o, n)
    <3>1. o \in {0, 1} /\ o # 1 /\ \A q \in 1 .. n : o + q = q
      OBVIOUS
    <3>2. \A q \in 1 .. n : e[q] # "*" /\ e[q] # "?"
      <4> TAKE q \in 1 .. n
      <4>1. pattern[q] \in Chars /\ e[q] = Upcased[pattern[q]]
        BY <1>2
      <4>2. pattern[q] # "*" /\ pattern[q] # "?"
        BY <1>3, <1>4, <1>6, <1>8
      <4> QED  BY <4>1, <4>2, PlainStays
    <3> HIDE DEF o
    <3> QED  BY <1>1, <1>2, <3>1, <3>2 DEF IsStarred
  <2>2. mathes_no_case(name, e) <=> IsFound(name, e, o, o, n)
    <3> HIDE DEF o
    <3> QED  BY <2>1, StarsMatch
  <2>3. IsFound(name, e, o, o, n) <=>
          \E k \in 0 .. L : /\ k = 0 /\ k + n = L
                            /\ \A q \in 1 .. n : Upcased[name[k + q]] = e[o + q]
    <3>1. \A k \in 0 .. L : k + n = L => k + n <= L
      BY <1>1
    <3> QED  BY <3>1 DEF IsFound, L
  <2>4. IsFound(name, e, o, o, n) <=>
          n = L /\ \A q \in 1 .. n : Upcased[name[q]] = e[q]
    <3>1. 0 \in 0 .. L /\ 0 + n = n /\ \A q \in 1 .. n : 0 + q = q
      BY <1>1
    <3> QED  BY <2>3, <3>1
  <2>5. equals_no_case(name, pattern) <=>
          L = n /\ \A q \in 1 .. n : Upcased[name[q]] = Upcased[pattern[q]]
    BY <1>1, EqualTexts DEF Similar, L, n
  <2>6. mathes_no_case(name, e) <=> equals_no_case(name, pattern)
    <3> HIDE DEF o
    <3> QED  BY <1>2, <2>2, <2>4, <2>5
  <2> QED  BY <1>8, <2>6 DEF e
<1> QED  BY <1>7, <1>8

----------------------------------------------------------------------------
(* The rule of a value and its verdicts. *)

\* The rule that is asked for is one of this type.
IsAsked(key, v, t) ==
    /\ IsRuleKey(key, t) \/ IsTakenForRuleKey(key, t)
    /\ v.drive = Anywhere \/ Mapped(v.drive)

\* The rule of this type that the value makes under the key.
RuleOf(key, v, t) ==
    [type |-> t, process |-> Upper(Last(key)), path |-> prepare_rule_file_path(ValueText(v))]

\* The keys are paths of names.
LEMMA KeyNames ==
    ASSUME NEW key \in KeyPaths
    PROVE  /\ key \in Seq(Part) /\ Len(key) > 0 /\ Last(key) = key[Len(key)]
           /\ Last(key) \in Name
<1>1. key \in Seq(Name) /\ key # << >>
  BY SpellingAssumption
<1>2. Len(key) \in Nat /\ Len(key) > 0
  BY <1>1, EmptySeq, LenProperties
<1>3. Last(key) = key[Len(key)]
  BY DEF Last
<1>4. Last(key) \in Name
  BY <1>1, <1>2, <1>3, ElementOfSeq
<1> QED  BY <1>1, <1>2, <1>3, <1>4, NamesAreParts

\* A value makes a rule exactly if it is asked for, and that rule
\* (set_key_value_rule).
LEMMA StoredRule ==
    ASSUME NEW key \in KeyPaths, NEW v \in Written,
           NEW rule, rule = set_key_value_rule(PathText(key), ValueText(v))
    PROVE  /\ \A t \in RuleTypes : IsAsked(key, v, t) => rule = RuleOf(key, v, t)
           /\ \/ rule = Nothing
              \/ \E t \in RuleTypes : IsAsked(key, v, t) /\ rule = RuleOf(key, v, t)
<1> DEFINE F == PathText(key)
           P == prepare_rule_file_path(ValueText(v))
           parsed == parse_protection_rule_key(F)
           IsKey(t) == IsRuleKey(key, t) \/ IsTakenForRuleKey(key, t)
           Found(t) == [type |-> t, process |-> Last(key)]
           there == v.drive = Anywhere \/ Mapped(v.drive)
<1>1. /\ is_protection_key(F) /\ parsed # Nothing =>
           \E t \in RuleTypes : IsKey(t) /\ parsed = Found(t)
      /\ \A t \in RuleTypes : IsKey(t) => is_protection_key(F) /\ parsed = Found(t)
  BY KeyNames, KeyMakesRule
<1>2. IF there THEN P # Error ELSE P = Error
  <2>1. there => P # Error
    BY Prepared, TextIsNoError DEF IsPrepared
  <2> QED  BY <2>1, NotPrepared
<1>3. rule = IF ~is_protection_key(F) \/ P = Error \/ parsed = Nothing THEN Nothing
             ELSE [type |-> parsed.type, process |-> Upper(parsed.process), path |-> P]
  BY DEF set_key_value_rule
<1>4. ASSUME NEW t \in RuleTypes
      PROVE  /\ Found(t) # Nothing
             /\ [type |-> Found(t).type, process |-> Upper(Found(t).process), path |-> P]
                  = RuleOf(key, v, t)
             /\ IsAsked(key, v, t) <=> IsKey(t) /\ there
  <2>1. Found(t).type # Nothing.type
    BY SpellingAssumption DEF Nothing
  <2> QED  BY <2>1 DEF RuleOf, IsAsked
<1> HIDE DEF F, P, parsed, IsKey, Found, there
<1>5. ASSUME NEW t \in RuleTypes, IsAsked(key, v, t) PROVE rule = RuleOf(key, v, t)
  BY <1>1, <1>2, <1>3, <1>4, <1>5
<1>6. ASSUME rule # Nothing
      PROVE  \E t \in RuleTypes : IsAsked(key, v, t) /\ rule = RuleOf(key, v, t)
  BY <1>1, <1>2, <1>3, <1>4, <1>6
<1> QED  BY <1>5, <1>6

\* No other rule is of its type.
LEMMA RuleIsOfItsType ==
    ASSUME NEW key, NEW v, NEW t \in RuleTypes, NEW rule, rule = RuleOf(key, v, t)
    PROVE  rule.type = t /\ rule # Nothing /\ t \notin {"Bypass", "Passed"}
<1>1. rule.type = t
  BY DEF RuleOf
<1>2. Nothing.type = "none"
  BY DEF Nothing
<1> QED  BY <1>1, <1>2, SpellingAssumption

\* The rule of a value is of the types of the store's entries.
LEMMA RuleTyped ==
    ASSUME NEW key \in KeyPaths, NEW v \in Written, NEW t \in RuleTypes, IsAsked(key, v, t)
    PROVE  RuleOf(key, v, t) \in [type : RuleTypes, process : Text, path : Text]
<1>1. Upper(Last(key)) \in Text
  BY KeyNames, NamesAreParts, PartIsText, UpperText
<1>2. prepare_rule_file_path(ValueText(v)) \in Text
  BY Prepared DEF IsAsked, IsPrepared
<1> QED  BY <1>1, <1>2 DEF RuleOf

\* The verdict of a rule, if it is one.
Verdict(rule, process, file) ==
    IF /\ rule # Nothing
       /\ mathes_no_case(process, rule.process) /\ path_covers(rule.path, file)
    THEN rule.type ELSE "Bypass"

\* The images and the files are paths of names, and the new names are names.
LEMMA FileNames ==
    /\ \A f \in Images \union Files : f \in Seq(Part) /\ Len(f) > 0
    /\ NewNames \subseteq Seq(Part)
<1>1. ASSUME NEW f \in Images \union Files PROVE f \in Seq(Part) /\ Len(f) > 0
  <2>1. f \in Seq(Part) /\ f # << >>
    BY SpellingAssumption, NamesAreParts
  <2> QED  BY <2>1, EmptySeq
<1>2. NewNames \subseteq Seq(Part)
  BY SpellingAssumption, NamesAreParts
<1> QED  BY <1>1, <1>2

\* The process of a rule is the one its key names.
NamesProcessOf(key, image) ==
    IF Head(Last(key)) = "*"
    THEN IsSuffix(Upper(Tail(Last(key))), Upper(Last(image)))
    ELSE equals_no_case(Last(image), Last(key))

\* Nothing of the rule but the start of its process is a wildcard.
IsExact(key, v) ==
    /\ \A i \in DOMAIN v.names : Plain(v.names[i])
    /\ Plain(Tail(Last(key))) /\ Head(Last(key)) # "?"

\* A rule decides what its two tests do (search_rule_impl).
LEMMA VerdictTests ==
    ASSUME NEW key \in KeyPaths, NEW v \in Written, NEW t \in RuleTypes,
           NEW image \in Images, NEW F
    PROVE  Verdict(RuleOf(key, v, t), process_name(PathText(image)), F) = t <=>
             /\ mathes_no_case(Last(image), Upper(Last(key)))
             /\ path_covers(prepare_rule_file_path(ValueText(v)), F)
<1> DEFINE rule == RuleOf(key, v, t)
           name == process_name(PathText(image))
<1>1. image \in Seq(Part) /\ Len(image) > 0
  BY FileNames
<1>2. name = Last(image)
  BY <1>1, ProcessName
<1>3. /\ rule.type = t /\ rule.process = Upper(Last(key))
      /\ rule.path = prepare_rule_file_path(ValueText(v))
  BY DEF RuleOf
<1>4. rule # Nothing /\ t # "Bypass"
  BY RuleIsOfItsType
<1> HIDE DEF rule, name
<1> QED  BY <1>2, <1>3, <1>4 DEF Verdict, rule, name

\* The rule of a value decides exactly what it means.
LEMMA VerdictIsMeant ==
    ASSUME NEW key \in KeyPaths, NEW v \in Written, NEW t \in RuleTypes, IsAsked(key, v, t),
           IsExact(key, v),
           NEW image \in Images, NEW f \in Seq(Part), NEW F \in Text, NEW to, Laid(F, to, f)
    PROVE  Verdict(RuleOf(key, v, t), process_name(PathText(image)), F) = t <=>
             NamesProcessOf(key, image) /\ Means(v, f)
<1>1. Last(image) \in Text
  BY FileNames, ProcessName
<1>2. Last(key) \in Name /\ Plain(Tail(Last(key))) /\ Head(Last(key)) # "?"
  BY KeyNames DEF IsExact
<1>3. mathes_no_case(Last(image), Upper(Last(key))) <=> NamesProcessOf(key, image)
  BY <1>1, <1>2, ProcessMatches DEF NamesProcessOf
<1>4. path_covers(prepare_rule_file_path(ValueText(v)), F) <=> Means(v, f)
  <2>1. v.drive = Anywhere \/ Mapped(v.drive)
    BY DEF IsAsked
  <2>2. \A i \in DOMAIN v.names : Plain(v.names[i])
    BY DEF IsExact
  <2> QED  BY <2>1, <2>2, CoversTheMeant
<1> QED  BY <1>3, <1>4, VerdictTests

\* The path that the new name of a renamed file is converted to.
TargetText(prefix, drive, names) == dos_path_to_nt(prefix \o <<drive, ":">> \o PathText(names))

\* It is the path of the file behind the device of its drive (pre_set_info).
LEMMA TargetLaid ==
    ASSUME NEW drive \in Chars, Mapped(drive), NEW prefix \in {<< >>, ObjManagerPathPrefix},
           NEW names \in Seq(Part)
    PROVE  LET F == TargetText(prefix, drive, names)
               f == Devices[Upcased[drive]] \o names
           IN  F # Error /\ F \in Text /\ f \in Seq(Part) /\ \E to : Laid(F, to, f)
<1> DEFINE Q == PathText(names)
           dev == Devices[Upcased[drive]]
           D == PathText(dev)
           F == D \o Q
           f == dev \o names
<1>1. Q \in Text /\ \E to : Laid(Q, to, names)
  BY PathLaid
<1>2. dev \in Seq(Part)
  BY DeviceNames DEF AreNames
<1>3. D \in Text /\ \E to : Laid(D, to, dev)
  BY <1>2, PathLaid
<1>4. TargetText(prefix, drive, names) = F
  <2>1. dos_path_to_nt(prefix \o <<drive, ":">> \o Q) = F
    BY <1>1, DosPath
  <2> QED  BY <2>1 DEF TargetText
<1> HIDE DEF Q, dev, D
<1>5. f \in Seq(Part) /\ F \in Text /\ \E at : Laid(F, at, f)
  <2>1. PICK to : Laid(Q, to, names)
    BY <1>1
  <2>2. PICK at : Laid(D, at, dev)
    BY <1>3
  <2> QED  BY <1>1, <1>2, <1>3, <2>1, <2>2, PathsJoined
<1> HIDE DEF F, f
<1>6. F # Error
  BY <1>5, TextIsNoError
<1> QED  BY <1>4, <1>5, <1>6 DEF dev, f

----------------------------------------------------------------------------
(* The invariant. *)

\* An open that the rule judged.
IsOpen(j, rule) ==
    \E image \in Images, file \in Files :
        j = [kind |-> "open", image |-> image, file |-> file,
             verdict |-> Verdict(rule, process_name(PathText(image)), PathText(file))]

\* A rename that the rule judged, or that passed.
IsRename(j, rule) ==
    \E image \in Images, names \in NewNames, drive \in Drives :
        \E prefix \in {<< >>, ObjManagerPathPrefix} :
            LET target == TargetText(prefix, drive, names)
            IN  j = [kind |-> "rename", image |-> image, drive |-> drive, names |-> names,
                     verdict |-> IF target = Error THEN "Passed"
                                 ELSE Verdict(rule, process_name(PathText(image)), target)]

\* A rename to a name in a directory that the rule judged, or that passed.
IsRelative(j, rule) ==
    \E image \in Images, directory \in Directories, names \in NewNames :
        LET target == dos_path_to_nt(Tail(PathText(names)))
        IN  j = [kind |-> "relative", image |-> image, file |-> directory \o names,
                 verdict |-> IF target = Error THEN "Passed"
                             ELSE Verdict(rule, process_name(PathText(image)), target)]

\* What was judged last.
IsJudged(j, rule) ==
    j = << >> \/ IsOpen(j, rule) \/ IsRename(j, rule) \/ IsRelative(j, rule)

\* A value was set under a key, and its rule is stored.
IsSet(key, v) ==
    /\ asked = [key |-> key, value |-> v]
    /\ stored = set_key_value_rule(PathText(key), ValueText(v))
    /\ IsJudged(judged, stored)

\* Nothing was set yet, or the rule in the store is that of the value that was set
\* and has judged all that is judged.
StoredIsAsked ==
    \/ asked = << >> /\ stored = Nothing /\ judged = << >>
    \/ \E key \in KeyPaths, v \in Written : IsSet(key, v)

\* Every operation keeps it.
LEMMA StoredStays == Spec => []StoredIsAsked
<1>1. Init => StoredIsAsked
  BY DEF Init, StoredIsAsked
<1>2. StoredIsAsked /\ [Next]_vars => StoredIsAsked'
  <2> SUFFICES ASSUME StoredIsAsked, [Next]_vars PROVE StoredIsAsked'
    OBVIOUS
  <2>1. ASSUME NEW key \in KeyPaths, NEW v \in Written, SetValue(key, v)
        PROVE  StoredIsAsked'
    <3>1. \A k, w : [key |-> k, value |-> w] # << >>
      <4> SUFFICES ASSUME NEW k, NEW w, [key |-> k, value |-> w] = << >> PROVE FALSE
        OBVIOUS
      <4>1. "key" \in DOMAIN [key |-> k, value |-> w] /\ DOMAIN << >> = {}
        OBVIOUS
      <4> QED  BY <4>1
    <3>2. asked = << >>
      BY <2>1 DEF SetValue
    <3>3. judged = << >>
      BY <3>1, <3>2 DEF StoredIsAsked, IsSet
    <3>4. IsSet(key, v)'
      BY <2>1, <3>3 DEF SetValue, IsSet, IsJudged
    <3> QED  BY <3>4 DEF StoredIsAsked
  <2>2. ASSUME asked # << >>, UNCHANGED <<stored, asked>>,
               IsOpen(judged', stored) \/ IsRename(judged', stored)
                 \/ IsRelative(judged', stored)
        PROVE  StoredIsAsked'
    <3>1. PICK key \in KeyPaths, v \in Written : IsSet(key, v)
      BY <2>2 DEF StoredIsAsked
    <3>2. IsJudged(judged', stored')
      BY <2>2 DEF IsJudged
    <3>3. IsSet(key, v)'
      BY <2>2, <3>1, <3>2 DEF IsSet
    <3> QED  BY <3>3 DEF StoredIsAsked
  <2>3. ASSUME NEW image \in Images, NEW file \in Files, Open(image, file)
        PROVE  StoredIsAsked'
    <3>1. IsOpen(judged', stored)
      BY <2>3 DEF Open, IsOpen, search_rule_action, Verdict
    <3> QED  BY <2>2, <2>3, <3>1 DEF Open
  <2>4. ASSUME NEW image \in Images, NEW prefix \in {<< >>, ObjManagerPathPrefix},
               NEW drive \in Drives, NEW names \in NewNames,
               Rename(image, prefix, drive, names)
        PROVE  StoredIsAsked'
    <3> DEFINE target == TargetText(prefix, drive, names)
    <3>1. judged' = [kind |-> "rename", image |-> image, drive |-> drive, names |-> names,
                     verdict |-> IF target = Error THEN "Passed"
                                 ELSE Verdict(stored, process_name(PathText(image)), target)]
      BY <2>4 DEF Rename, renamed_to, TargetText, search_rule_action, Verdict
    <3>2. IsRename(judged', stored)
      BY <3>1 DEF IsRename
    <3> QED  BY <2>2, <2>4, <3>2 DEF Rename
  <2>6. ASSUME NEW image \in Images, NEW directory \in Directories, NEW names \in NewNames,
               RenameRelative(image, directory, names)
        PROVE  StoredIsAsked'
    <3> DEFINE target == dos_path_to_nt(Tail(PathText(names)))
    <3>1. judged' = [kind |-> "relative", image |-> image, file |-> directory \o names,
                     verdict |-> IF target = Error THEN "Passed"
                                 ELSE Verdict(stored, process_name(PathText(image)), target)]
      BY <2>6 DEF RenameRelative, renamed_to, search_rule_action, Verdict
    <3>2. IsRelative(judged', stored)
      BY <3>1 DEF IsRelative
    <3> QED  BY <2>2, <2>6, <3>2 DEF RenameRelative
  <2>5. CASE UNCHANGED vars
    <3>1. CASE asked = << >> /\ stored = Nothing /\ judged = << >>
      BY <2>5, <3>1 DEF vars, StoredIsAsked
    <3>2. CASE \E key \in KeyPaths, v \in Written : IsSet(key, v)
      <4>1. PICK key \in KeyPaths, v \in Written : IsSet(key, v)
        BY <3>2
      <4>2. IsSet(key, v)'
        BY <2>5, <4>1 DEF vars, IsSet
      <4> QED  BY <4>2 DEF StoredIsAsked
    <3> QED  BY <3>1, <3>2 DEF StoredIsAsked
  <2> QED  BY <2>1, <2>3, <2>4, <2>5, <2>6 DEF Next
<1> QED  BY <1>1, <1>2, PTL DEF Spec

\* The rule in the store is of the type that is asked for, if one is.
LEMMA StoredMeaning ==
    ASSUME NEW key \in KeyPaths, NEW v \in Written, IsSet(key, v)
    PROVE  /\ \A t \in RuleTypes : IsAsked(key, v, t) => stored = RuleOf(key, v, t)
           /\ \/ stored = Nothing
              \/ \E t \in RuleTypes : IsAsked(key, v, t) /\ stored = RuleOf(key, v, t)
           /\ asked.key = key /\ asked.value = v
<1>1. stored = set_key_value_rule(PathText(key), ValueText(v))
  BY DEF IsSet
<1>2. asked.key = key /\ asked.value = v
  BY DEF IsSet
<1> QED  BY <1>1, <1>2, StoredRule

\* What a verdict is.
LEMMA VerdictTyped ==
    ASSUME NEW rule, rule # Nothing => rule.type \in RuleTypes, NEW process, NEW file
    PROVE  Verdict(rule, process, file) \in RuleTypes \union {"Bypass", "Passed"}
BY DEF Verdict

\* The entry of the store is one of texts, what was asked for is a key and a
\* value, and a verdict is that of a rule, that of no rule, or that of a name
\* that cannot be converted (RulesManager, ReadRule, pre_set_info).
THEOREM TypeCorrect == Spec => []TypeOK
<1>1. StoredIsAsked => TypeOK
  <2> SUFFICES ASSUME StoredIsAsked PROVE TypeOK
    OBVIOUS
  <2>1. CASE asked = << >> /\ stored = Nothing /\ judged = << >>
    BY <2>1 DEF TypeOK
  <2>2. CASE \E key \in KeyPaths, v \in Written : IsSet(key, v)
    <3>1. PICK key \in KeyPaths, v \in Written : IsSet(key, v)
      BY <2>2
    <3>2. stored = Nothing \/ stored \in [type : RuleTypes, process : Text, path : Text]
      BY <3>1, StoredMeaning, RuleTyped
    <3>3. asked \in [key : KeyPaths, value : Written]
      BY <3>1 DEF IsSet
    <3>4. stored # Nothing => stored.type \in RuleTypes
      BY <3>2
    <3>5. ASSUME IsOpen(judged, stored)
          PROVE  judged.verdict \in RuleTypes \union {"Bypass", "Passed"}
      BY <3>4, <3>5, VerdictTyped DEF IsOpen
    <3>6. ASSUME IsRename(judged, stored)
          PROVE  judged.verdict \in RuleTypes \union {"Bypass", "Passed"}
      BY <3>4, <3>6, VerdictTyped DEF IsRename
    <3>7. ASSUME IsRelative(judged, stored)
          PROVE  judged.verdict \in RuleTypes \union {"Bypass", "Passed"}
      <4>1. PICK image \in Images, directory \in Directories, names \in NewNames :
              LET target == dos_path_to_nt(Tail(PathText(names)))
              IN  judged = [kind |-> "relative", image |-> image,
                            file |-> directory \o names,
                            verdict |-> IF target = Error THEN "Passed"
                                        ELSE Verdict(stored, process_name(PathText(image)),
                                                     target)]
        BY <3>7 DEF IsRelative
      <4> DEFINE target == dos_path_to_nt(Tail(PathText(names)))
                 verdict == Verdict(stored, process_name(PathText(image)), target)
      <4>2. judged.verdict = IF target = Error THEN "Passed" ELSE verdict
        BY <4>1
      <4>3. verdict \in RuleTypes \union {"Bypass", "Passed"}
        BY <3>4, VerdictTyped
      <4> QED  BY <4>2, <4>3
    <3>8. judged = << >> \/ IsOpen(judged, stored) \/ IsRename(judged, stored)
            \/ IsRelative(judged, stored)
      BY <3>1 DEF IsSet, IsJudged
    <3> QED  BY <3>2, <3>3, <3>5, <3>6, <3>7, <3>8 DEF TypeOK
  <2> QED  BY <2>1, <2>2 DEF StoredIsAsked
<1> QED  BY <1>1, StoredStays, PTL

\* A value becomes a rule of a type exactly if its key is one of that type, or
\* is taken for one, and its drive is there (set_key_value_rule).
THEOREM OnlyRuleKeysMakeRules == Spec => []OnlyRuleKeysCount
<1>1. StoredIsAsked => OnlyRuleKeysCount
  <2> SUFFICES ASSUME StoredIsAsked, asked # << >>, NEW t \in RuleTypes
               PROVE  (stored.type = t) <=>
                        /\ IsRuleKey(asked.key, t) \/ IsTakenForRuleKey(asked.key, t)
                        /\ asked.value.drive = Anywhere \/ Mapped(asked.value.drive)
    BY DEF OnlyRuleKeysCount
  <2>1. PICK key \in KeyPaths, v \in Written : IsSet(key, v)
    BY DEF StoredIsAsked
  <2>2. asked.key = key /\ asked.value = v
    BY <2>1, StoredMeaning
  <2>3. IsAsked(key, v, t) => stored.type = t
    <3>1. IsAsked(key, v, t) => stored = RuleOf(key, v, t)
      BY <2>1, StoredMeaning
    <3> QED  BY <3>1, RuleIsOfItsType
  <2>4. ASSUME stored.type = t PROVE IsAsked(key, v, t)
    <3>1. stored # Nothing
      BY <2>4, SpellingAssumption DEF Nothing
    <3>2. PICK u \in RuleTypes : IsAsked(key, v, u) /\ stored = RuleOf(key, v, u)
      BY <2>1, <3>1, StoredMeaning
    <3>3. u = t
      BY <2>4, <3>2, RuleIsOfItsType
    <3> QED  BY <3>2, <3>3
  <2> QED  BY <2>2, <2>3, <2>4 DEF IsAsked
<1> QED  BY <1>1, StoredStays, PTL

\* A rule decides an open exactly if it is one of its process and of the file or
\* the folder that its value means (search_rule_impl, Process::name).
THEOREM RulesMeanWhatTheySay == Spec => []RuleMeansWhatItSays
<1>1. StoredIsAsked => RuleMeansWhatItSays
  <2> SUFFICES ASSUME StoredIsAsked, judged # << >>, stored # Nothing, judged.kind = "open",
                      Exact
               PROVE  judged.verdict = stored.type <=>
                        NamesProcess(judged.image) /\ Means(asked.value, judged.file)
    BY DEF RuleMeansWhatItSays
  <2>1. PICK key \in KeyPaths, v \in Written : IsSet(key, v)
    BY DEF StoredIsAsked
  <2>2. asked.key = key /\ asked.value = v
    BY <2>1, StoredMeaning
  <2>3. PICK t \in RuleTypes : IsAsked(key, v, t) /\ stored = RuleOf(key, v, t)
    BY <2>1, StoredMeaning
  <2>4. stored.type = t
    BY <2>3, RuleIsOfItsType
  <2>5. ~IsRename(judged, stored) /\ ~IsRelative(judged, stored)
    BY DEF IsRename, IsRelative
  <2>6. PICK image \in Images, file \in Files :
          judged = [kind |-> "open", image |-> image, file |-> file,
                    verdict |-> Verdict(stored, process_name(PathText(image)), PathText(file))]
    BY <2>1, <2>5 DEF IsSet, IsJudged, IsOpen
  <2>7. /\ judged.image = image /\ judged.file = file
        /\ judged.verdict = Verdict(stored, process_name(PathText(image)), PathText(file))
    BY <2>6
  <2>8. file \in Seq(Part) /\ PathText(file) \in Text
    BY FileNames, PathLaid
  <2>9. PICK to : Laid(PathText(file), to, file)
    BY <2>8, PathLaid
  <2>10. IsExact(key, v)
    BY <2>2 DEF Exact, IsExact
  <2>11. Verdict(RuleOf(key, v, t), process_name(PathText(image)), PathText(file)) = t <=>
           NamesProcessOf(key, image) /\ Means(v, file)
    BY <2>3, <2>8, <2>9, <2>10, VerdictIsMeant
  <2>12. NamesProcess(image) <=> NamesProcessOf(key, image)
    BY <2>2 DEF NamesProcess, NamesProcessOf
  <2> QED  BY <2>2, <2>3, <2>4, <2>7, <2>11, <2>12
<1> QED  BY <1>1, StoredStays, PTL

\* A rename to a name on a drive is judged like the file it names on the drive's
\* device, in both forms of the name (dos_path_to_nt in pre_set_info).
THEOREM RenamesAreJudgedByTheirTarget == Spec => []RenameIsJudgedByItsTarget
<1>1. StoredIsAsked => RenameIsJudgedByItsTarget
  <2> SUFFICES ASSUME StoredIsAsked, judged # << >>, stored # Nothing,
                      judged.kind = "rename", Mapped(judged.drive), Exact
               PROVE  judged.verdict = stored.type <=>
                        NamesProcess(judged.image) /\ Means(asked.value, Target)
    BY DEF RenameIsJudgedByItsTarget
  <2>1. PICK key \in KeyPaths, v \in Written : IsSet(key, v)
    BY DEF StoredIsAsked
  <2>2. asked.key = key /\ asked.value = v
    BY <2>1, StoredMeaning
  <2>3. PICK t \in RuleTypes : IsAsked(key, v, t) /\ stored = RuleOf(key, v, t)
    BY <2>1, StoredMeaning
  <2>4. stored.type = t
    BY <2>3, RuleIsOfItsType
  <2>5. ~IsOpen(judged, stored) /\ ~IsRelative(judged, stored)
    BY DEF IsOpen, IsRelative
  <2>6. PICK image \in Images, names \in NewNames, drive \in Drives :
          \E prefix \in {<< >>, ObjManagerPathPrefix} :
            LET target == TargetText(prefix, drive, names)
            IN  judged = [kind |-> "rename", image |-> image, drive |-> drive,
                          names |-> names,
                          verdict |-> IF target = Error THEN "Passed"
                                      ELSE Verdict(stored, process_name(PathText(image)),
                                                   target)]
    BY <2>1, <2>5 DEF IsSet, IsJudged, IsRename
  <2>7. PICK prefix \in {<< >>, ObjManagerPathPrefix} :
            LET target == TargetText(prefix, drive, names)
            IN  judged = [kind |-> "rename", image |-> image, drive |-> drive,
                          names |-> names,
                          verdict |-> IF target = Error THEN "Passed"
                                      ELSE Verdict(stored, process_name(PathText(image)),
                                                   target)]
    BY <2>6
  <2> DEFINE F == TargetText(prefix, drive, names)
             f == Devices[Upcased[drive]] \o names
  <2>8. /\ judged.image = image /\ judged.drive = drive /\ judged.names = names
        /\ judged.verdict = IF F = Error THEN "Passed"
                            ELSE Verdict(stored, process_name(PathText(image)), F)
    BY <2>7
  <2>9. drive \in Chars /\ Mapped(drive) /\ names \in Seq(Part)
    BY <2>8, FileNames, RulePathsAssumption DEF Drives
  <2>10. F # Error /\ F \in Text /\ f \in Seq(Part) /\ \E to : Laid(F, to, f)
    BY <2>9, TargetLaid
  <2> HIDE DEF F, f
  <2>11. PICK to : Laid(F, to, f)
    BY <2>10
  <2>12. IsExact(key, v)
    BY <2>2 DEF Exact, IsExact
  <2>13. Verdict(RuleOf(key, v, t), process_name(PathText(image)), F) = t <=>
           NamesProcessOf(key, image) /\ Means(v, f)
    BY <2>3, <2>10, <2>11, <2>12, VerdictIsMeant
  <2>14. NamesProcess(image) <=> NamesProcessOf(key, image)
    BY <2>2 DEF NamesProcess, NamesProcessOf
  <2>15. f = Target
    BY <2>8 DEF f, Target
  <2> QED  BY <2>2, <2>3, <2>4, <2>8, <2>10, <2>13, <2>14, <2>15
<1> QED  BY <1>1, StoredStays, PTL

\* A rule with wildcards in the names of its process and its file decides every open
\* and every rename to a name on a drive that it spells name by name
\* (prepare_rule_file_path, search_rule_impl).
THEOREM WildcardsAreApplied == Spec => []WildcardsApply
<1>1. StoredIsAsked => WildcardsApply
  <2> SUFFICES ASSUME StoredIsAsked, judged # << >>, stored # Nothing,
                      judged.kind = "open" \/ (judged.kind = "rename" /\ Mapped(judged.drive)),
                      mathes_no_case(Last(judged.image), Upper(Last(asked.key))),
                      Fits(asked.value, IF judged.kind = "open" THEN judged.file ELSE Target)
               PROVE  judged.verdict = stored.type
    BY DEF WildcardsApply
  <2>1. PICK key \in KeyPaths, v \in Written : IsSet(key, v)
    BY DEF StoredIsAsked
  <2>2. asked.key = key /\ asked.value = v
    BY <2>1, StoredMeaning
  <2>3. PICK t \in RuleTypes : IsAsked(key, v, t) /\ stored = RuleOf(key, v, t)
    BY <2>1, StoredMeaning
  <2>4. stored.type = t /\ (v.drive = Anywhere \/ Mapped(v.drive))
    BY <2>3, RuleIsOfItsType DEF IsAsked
  <2>5. ASSUME NEW image \in Images, image = judged.image, NEW f \in Seq(Part), NEW F \in Text,
               NEW to, Laid(F, to, f), Fits(v, f)
        PROVE  Verdict(RuleOf(key, v, t), process_name(PathText(image)), F) = t
    <3>1. path_covers(prepare_rule_file_path(ValueText(v)), F)
      BY <2>4, <2>5, CoversTheFitting
    <3>2. mathes_no_case(Last(image), Upper(Last(key)))
      BY <2>2, <2>5
    <3> QED  BY <3>1, <3>2, VerdictTests
  <2>6. ASSUME IsOpen(judged, stored) PROVE judged.verdict = t
    <3>1. PICK image \in Images, file \in Files :
            judged = [kind |-> "open", image |-> image, file |-> file,
                      verdict |-> Verdict(stored, process_name(PathText(image)), PathText(file))]
      BY <2>6 DEF IsOpen
    <3>2. /\ judged.image = image /\ judged.file = file /\ judged.kind = "open"
          /\ judged.verdict = Verdict(stored, process_name(PathText(image)), PathText(file))
      BY <3>1
    <3>3. file \in Seq(Part) /\ PathText(file) \in Text
      BY FileNames, PathLaid
    <3>4. PICK to : Laid(PathText(file), to, file)
      BY <3>3, PathLaid
    <3>5. Fits(v, file)
      BY <2>2, <3>2
    <3>6. Verdict(RuleOf(key, v, t), process_name(PathText(image)), PathText(file)) = t
      BY <2>5, <3>2, <3>3, <3>4, <3>5
    <3> QED  BY <2>3, <3>2, <3>6
  <2>7. ASSUME IsRename(judged, stored) PROVE judged.verdict = t
    <3>1. PICK image \in Images, names \in NewNames, drive \in Drives :
            \E prefix \in {<< >>, ObjManagerPathPrefix} :
              LET target == TargetText(prefix, drive, names)
              IN  judged = [kind |-> "rename", image |-> image, drive |-> drive,
                            names |-> names,
                            verdict |-> IF target = Error THEN "Passed"
                                        ELSE Verdict(stored, process_name(PathText(image)),
                                                     target)]
      BY <2>7 DEF IsRename
    <3>2. PICK prefix \in {<< >>, ObjManagerPathPrefix} :
              LET target == TargetText(prefix, drive, names)
              IN  judged = [kind |-> "rename", image |-> image, drive |-> drive,
                            names |-> names,
                            verdict |-> IF target = Error THEN "Passed"
                                        ELSE Verdict(stored, process_name(PathText(image)),
                                                     target)]
      BY <3>1
    <3> DEFINE F == TargetText(prefix, drive, names)
               f == Devices[Upcased[drive]] \o names
    <3>3. /\ judged.image = image /\ judged.drive = drive /\ judged.names = names
          /\ judged.kind = "rename"
          /\ judged.verdict = IF F = Error THEN "Passed"
                              ELSE Verdict(stored, process_name(PathText(image)), F)
      BY <3>2
    <3>4. drive \in Chars /\ Mapped(drive) /\ names \in Seq(Part)
      BY <3>3, FileNames, RulePathsAssumption DEF Drives
    <3>5. F # Error /\ F \in Text /\ f \in Seq(Part) /\ \E to : Laid(F, to, f)
      BY <3>4, TargetLaid
    <3> HIDE DEF F, f
    <3>6. PICK to : Laid(F, to, f)
      BY <3>5
    <3>7. f = Target
      BY <3>3 DEF f, Target
    <3>8. Fits(v, f)
      BY <2>2, <3>3, <3>7
    <3>9. Verdict(RuleOf(key, v, t), process_name(PathText(image)), F) = t
      BY <2>5, <3>3, <3>5, <3>6, <3>8
    <3> QED  BY <2>3, <3>3, <3>5, <3>9
  <2>8. ~IsRelative(judged, stored)
    BY DEF IsRelative
  <2> QED  BY <2>1, <2>4, <2>6, <2>7, <2>8 DEF IsSet, IsJudged
<1> QED  BY <1>1, StoredStays, PTL
====
