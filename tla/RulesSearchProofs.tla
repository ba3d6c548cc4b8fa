---- MODULE RulesSearchProofs ----
(***************************************************************************)
(* A verdict of a search has its rule, for any number of threads, keys,    *)
(* names, patterns and paths.                                              *)
(*                                                                         *)
(* The rule is found in two steps, its entry in one and its path in the    *)
(* next.  That both are about one entry is ScanIsCurrent, which the proofs *)
(* of RulesManager establish from the locks.  The witness of a search that *)
(* is over does not change, so the rule it saw stays seen.                 *)
(*                                                                         *)
(* A rule that was in its list all the time decides the search, if the     *)
(* store mirrors the registry and no process has rules under two names:    *)
(* then there is one entry to find, and no update moves it out of the      *)
(* slice, which was taken when the entry was in the list already.          *)
(***************************************************************************)
EXTENDS RulesSearch, RulesManagerProofs

\* A witness is two sets of lists.
WitnessOK ==
    witness \in [Filters -> [always : SUBSET RuleTypes, ever : SUBSET RuleTypes]]

VerdictInv == Inv /\ WitnessOK /\ VerdictHasRule

\* The entry that a search for a match has found does match.
LEMMA MatchOfMatches ==
    ASSUME NEW vec \in Vec, NEW slice \in Slice, NEW proc,
           MatchOf(vec, slice, proc) # 0
    PROVE  <<proc, vec.entries[MatchOf(vec, slice, proc)].process>> \in NameMatches
<1> DEFINE n == Len(vec.entries)
           Hits(m) == {i \in 1 .. m : <<proc, vec.entries[i].process>> \in NameMatches}
           Found(m) == IF Hits(m) # {} THEN Min(Hits(m)) ELSE 0
<1>1. n \in Nat /\ slice.len \in Nat
  BY DEF Vec, Slice
<1>2. MatchOf(vec, slice, proc) = IF slice.len <= n THEN Found(slice.len) ELSE Found(n)
  BY Zenon DEF MatchOf, FirstIn, SelectInSubSeq
<1>3. ASSUME NEW m \in Nat, MatchOf(vec, slice, proc) = Found(m)
      PROVE  <<proc, vec.entries[MatchOf(vec, slice, proc)].process>> \in NameMatches
  <2>1. Hits(m) # {} /\ MatchOf(vec, slice, proc) = Min(Hits(m))
    BY <1>3, Zenon
  <2>2. Hits(m) \in SUBSET Nat
    OBVIOUS
  <2>3. MatchOf(vec, slice, proc) \in Hits(m)
    <3> HIDE DEF Hits
    <3> QED  BY <2>1, <2>2, MinOfNats
  <2> QED  BY <2>3, Zenon
<1> HIDE DEF Found, n
<1> QED  BY <1>1, <1>2, <1>3

\* The witness stays a witness.
LEMMA WitnessStep == WitnessOK /\ SearchNext => WitnessOK'
<1> SUFFICES ASSUME WitnessOK, SearchNext, NEW f \in Filters
             PROVE  Observed(f) \in [always : SUBSET RuleTypes, ever : SUBSET RuleTypes]
  BY DEF WitnessOK, SearchNext
<1>1. RulingTypes(vecs', searches'[f]) \in SUBSET RuleTypes
  BY DEF RulingTypes
<1>2. /\ witness[f] \in [always : SUBSET RuleTypes, ever : SUBSET RuleTypes]
      /\ witness[f].always \in SUBSET RuleTypes /\ witness[f].ever \in SUBSET RuleTypes
  BY DEF WitnessOK
<1> HIDE DEF RulingTypes
<1> QED  BY <1>1, <1>2 DEF Observed

\* The scan that finds the path decides on a rule that is in its list.
LEMMA ScanFindsRule ==
    ASSUME Inv, NEW f \in Filters, ScanPaths(f), ~corrupt,
           searches'[f].pc = "idle", searches'[f].verdict # "Bypass"
    PROVE  searches'[f].verdict \in RulingTypes(vecs', searches'[f])
<1> DEFINE s == searches[f]
           t == s.type
<1>1. s \in Search /\ s.pc = "scan" /\ t \in RuleTypes /\ vecs[t] \in Vec /\ vecs' = vecs
  BY DEF Inv, TypeOK, Search, ScanPaths
<1>2. searches'[f] = AfterScan(s)
  BY DEF Inv, TypeOK, ScanPaths
<1>3. PathListed(vecs[t], s.pos, s.file)
  BY <1>1, <1>2 DEF AfterScan, Search
<1>4. /\ searches'[f].verdict = t /\ searches'[f].proc = s.proc
      /\ searches'[f].file = s.file
  BY <1>1, <1>2, <1>3 DEF AfterScan, Search
<1>5. s.pos = MatchOf(vecs[t], s.slice, s.proc) /\ s.pos \in DOMAIN vecs[t].entries
  BY <1>1, <1>3 DEF Inv, ScanIsCurrent, PathListed
<1>6. s.pos # 0 /\ s.slice \in Slice
  BY <1>1, <1>5 DEF Vec, Search
<1>7. <<s.proc, vecs[t].entries[s.pos].process>> \in NameMatches
  BY <1>1, <1>5, <1>6, MatchOfMatches
<1> QED  BY <1>1, <1>3, <1>4, <1>5, <1>7 DEF RulingTypes

\* A step leaves a search as it is, or begins, continues or ends it.
LEMMA SearchSteps ==
    ASSUME Inv, Next, NEW f \in Filters
    PROVE  \/ searches'[f] = searches[f]
           \/ searches'[f].pc # "idle"
           \/ ScanPaths(f)
<1>1. searches \in [Filters -> Search]
  BY DEF Inv, TypeOK
<1>2. CASE UNCHANGED searches
  BY <1>2
<1>3. ASSUME NEW g \in Filters, SearchStep(g), g # f PROVE searches'[f] = searches[f]
  BY <1>1, <1>3 DEF SearchStep, StartSearch, LookupProcess, ScanPaths
<1>4. ASSUME SearchStep(f) PROVE searches'[f].pc # "idle" \/ ScanPaths(f)
  <2>1. ASSUME NEW proc \in Procs, NEW file \in Files, StartSearch(f, proc, file)
        PROVE  searches'[f].pc = "lookup"
    BY <1>1, <2>1 DEF StartSearch, NoSearch
  <2>2. CASE LookupProcess(f)
    <3>1. PICK found : searches' = [searches EXCEPT ![f].pc = "scan", ![f].pos = found]
      BY <2>2 DEF LookupProcess
    <3> QED  BY <1>1, <3>1 DEF Search
  <2> QED  BY <1>4, <2>1, <2>2 DEF SearchStep
<1>5. ASSUME NEW a \in Admins, Operate(a) \/ Callback(a) PROVE UNCHANGED searches
  BY <1>5 DEF Operate, SetValue, DeleteValue, DeleteKey, PreRenameKey, Begin, Callback,
     RenameKey, PostCallback, LockRules, UpdateRules, FailCallback, FailUpdate, Finish
<1> QED  BY <1>2, <1>3, <1>4, <1>5 DEF Next, CreateKey

\* No step makes the store whole again after a slice ran past its list.
LEMMA CorruptStays == ASSUME Inv, Next PROVE corrupt => corrupt'
<1>1. ASSUME NEW a \in Admins, Operate(a) \/ Callback(a) PROVE corrupt => corrupt'
  BY <1>1 DEF Operate, SetValue, DeleteValue, DeleteKey, PreRenameKey, Begin, Callback,
     RenameKey, PostCallback, LockRules, UpdateRules, FailCallback, FailUpdate, Finish
<1>2. ASSUME NEW f \in Filters, SearchStep(f) PROVE corrupt => corrupt'
  BY <1>2 DEF SearchStep, StartSearch, LookupProcess, ScanPaths
<1> QED  BY <1>1, <1>2 DEF Next, CreateKey

\* VerdictInv is inductive.
LEMMA VerdictStep == VerdictInv /\ [SearchNext]_<<vars, witness>> => VerdictInv'
<1> SUFFICES ASSUME VerdictInv, [SearchNext]_<<vars, witness>> PROVE VerdictInv'
  OBVIOUS
<1>1. CASE UNCHANGED <<vars, witness>>
  <2>1. Inv'
    BY <1>1, StepInv DEF VerdictInv
  <2> QED  BY <1>1, <2>1 DEF VerdictInv, WitnessOK, VerdictHasRule, Decided, vars
<1>2. CASE SearchNext
  <2>1. Inv' /\ WitnessOK' /\ Next
    BY <1>2, StepInv, WitnessStep DEF VerdictInv, SearchNext
  <2>2. ASSUME NEW f \in Filters, Decided(f)', searches'[f].verdict # "Bypass"
        PROVE  searches'[f].verdict \in witness'[f].ever
    <3>1. ~corrupt
      BY <2>1, <2>2, CorruptStays DEF VerdictInv, Decided
    <3>2. witness'[f] = Observed(f)
      BY <1>2 DEF SearchNext
    <3>3. CASE searches'[f] = searches[f]
      <4>1. Decided(f) /\ searches[f].pc = "idle"
        BY <2>2, <3>1, <3>3 DEF Decided
      <4>2. Observed(f) = witness[f]
        BY <3>3, <4>1 DEF Observed
      <4> QED  BY <2>2, <3>2, <3>3, <4>1, <4>2 DEF VerdictInv, VerdictHasRule
    <3>4. CASE ScanPaths(f)
      <4>1. searches[f].pc = "scan" /\ searches'[f].pc = "idle"
        BY <2>2, <3>4 DEF ScanPaths, Decided
      <4>2. searches'[f].verdict \in RulingTypes(vecs', searches'[f])
        BY <2>2, <3>1, <3>4, <4>1, ScanFindsRule DEF VerdictInv
      <4>3. Observed(f).ever = witness[f].ever \union RulingTypes(vecs', searches'[f])
        <5> HIDE DEF RulingTypes
        <5> QED  BY <4>1 DEF Observed
      <4> QED  BY <3>2, <4>2, <4>3
    <3> QED  BY <2>1, <2>2, <3>3, <3>4, SearchSteps DEF VerdictInv, Decided
  <2> QED  BY <2>1, <2>2 DEF VerdictInv, VerdictHasRule
<1> QED  BY <1>1, <1>2

\* No search has a verdict at first.
LEMMA InitVerdict == ASSUME SearchInit PROVE VerdictInv
<1>1. WitnessOK
  BY DEF SearchInit, WitnessOK, NoWitness
<1>2. VerdictHasRule
  BY DEF SearchInit, Init, NoSearch, VerdictHasRule, Decided
<1> QED  BY <1>1, <1>2, InitInv DEF SearchInit, VerdictInv

\* However many updates a search runs into, the rule its verdict follows was in
\* its list at some moment of the search.
THEOREM VerdictsHaveRules == SearchSpec => []VerdictHasRule
<1>1. SearchInit => VerdictInv
  BY InitVerdict
<1>2. VerdictInv => VerdictHasRule
  BY DEF VerdictInv
<1> QED  BY <1>1, <1>2, VerdictStep, PTL DEF SearchSpec

----------------------------------------------------------------------------
(* A standing rule applies.                                                *)

\* No process has rules under two names.
OneName == \A proc, n, m : <<proc, n>> \in NameMatches /\ <<proc, m>> \in NameMatches => n = m

\* The entries that match the requestor of a search are within the slice it reads.
InReach(s) ==
    \A i \in DOMAIN vecs[s.type].entries :
        <<s.proc, vecs[s.type].entries[i].process>> \in NameMatches => i <= s.slice.len

\* What a running search owes to the rules that were there all the time: they are
\* there now, the deny list was not passed over with one of them in it, and the
\* slice of the present list holds its own.
OwesRules(f) ==
    searches[f].pc # "idle" =>
        /\ witness[f].always \subseteq RulingTypes(vecs, searches[f])
        /\ searches[f].type = "ReadOnly" => "Deny" \notin witness[f].always
        /\ searches[f].type \in witness[f].always => InReach(searches[f])

StandingInv ==
    /\ VerdictInv /\ MirrorInv
    /\ ~corrupt => \A f \in Filters : OwesRules(f)
    /\ StandingRuleApplies

\* A search for a match finds one that is in the slice.
LEMMA MatchOfFinds ==
    ASSUME NEW vec \in Vec, NEW slice \in Slice, NEW proc, NEW i \in DOMAIN vec.entries,
           i <= slice.len, <<proc, vec.entries[i].process>> \in NameMatches
    PROVE  MatchOf(vec, slice, proc) # 0
<1> DEFINE n == Len(vec.entries)
           Hits(m) == {j \in 1 .. m : <<proc, vec.entries[j].process>> \in NameMatches}
           Found(m) == IF Hits(m) # {} THEN Min(Hits(m)) ELSE 0
<1>1. n \in Nat /\ slice.len \in Nat /\ i \in 1 .. n
  BY DEF Vec, Slice
<1>2. MatchOf(vec, slice, proc) = IF slice.len <= n THEN Found(slice.len) ELSE Found(n)
  BY Zenon DEF MatchOf, FirstIn, SelectInSubSeq
<1>3. ASSUME NEW m \in Nat, i <= m PROVE Found(m) # 0
  <2>1. i \in Hits(m) /\ Hits(m) \in SUBSET Nat /\ 0 \notin Hits(m)
    BY <1>1, <1>3
  <2>2. Hits(m) # {} /\ Found(m) = Min(Hits(m))
    BY <2>1, Zenon
  <2>3. Min(Hits(m)) \in Hits(m)
    <3> HIDE DEF Hits, Found
    <3> QED  BY <2>1, <2>2, MinOfNats
  <2> HIDE DEF Hits, Found
  <2> QED  BY <2>1, <2>2, <2>3
<1> HIDE DEF Found, n
<1> QED  BY <1>1, <1>2, <1>3

\* A search does not pass over the list of a rule that was there all the time.
LEMMA ScanFindsStanding ==
    ASSUME OneName, Inv, ~corrupt, StoreOK, NEW f \in Filters, OwesRules(f),
           searches[f].pc = "scan", searches[f].type \in witness[f].always
    PROVE  PathListed(vecs[searches[f].type], searches[f].pos, searches[f].file)
<1>1. PICK s, t, vec : s = searches[f] /\ t = s.type /\ vec = vecs[t]
  OBVIOUS
<1>2. s \in Search /\ t \in RuleTypes /\ vec \in Vec /\ s.slice \in Slice
  BY <1>1 DEF Inv, TypeOK, Search
<1>3. PICK i \in DOMAIN vec.entries : /\ <<s.proc, vec.entries[i].process>> \in NameMatches
                                      /\ PathListed(vec, i, s.file)
  BY <1>1 DEF OwesRules, RulingTypes
<1>4. i <= s.slice.len
  BY <1>1, <1>3 DEF OwesRules, InReach
<1>5. s.pos = MatchOf(vec, s.slice, s.proc)
  BY <1>1 DEF Inv, ScanIsCurrent
<1>6. MatchOf(vec, s.slice, s.proc) # 0
  BY <1>2, <1>3, <1>4, MatchOfFinds
<1>7. /\ MatchOf(vec, s.slice, s.proc) \in DOMAIN vec.entries
      /\ <<s.proc, vec.entries[MatchOf(vec, s.slice, s.proc)].process>> \in NameMatches
  <2>1. MatchOf(vec, s.slice, s.proc) \in 0 .. Len(vec.entries)
    BY <1>2, MatchOfBounds
  <2>2. DOMAIN vec.entries = 1 .. Len(vec.entries) /\ Len(vec.entries) \in Nat
    BY <1>2 DEF Vec
  <2> QED  BY <1>2, <1>6, <2>1, <2>2, MatchOfMatches
<1>8. Single(vec.entries)
  BY <1>1, <1>2 DEF StoreOK
<1>9. MatchOf(vec, s.slice, s.proc) = i
  BY <1>3, <1>7, <1>8 DEF OneName, Single
<1> QED  BY <1>1, <1>3, <1>5, <1>9

\* The update of a list leaves the entries that a search looks for in reach of its slice.
LEMMA UpdateStaysInReach ==
    ASSUME OneName, Apart, RegistryInv, ~corrupt, StoreOK, NEW a \in Admins,
           UpdateRules(a),
           NEW s \in Search, InReach(s), s.type \in RulingTypes(vecs, s)
    PROVE  \A i \in DOMAIN vecs'[s.type].entries :
               <<s.proc, vecs'[s.type].entries[i].process>> \in NameMatches => i <= s.slice.len
<1> SUFFICES ASSUME NEW i \in DOMAIN vecs'[s.type].entries,
                    <<s.proc, vecs'[s.type].entries[i].process>> \in NameMatches
             PROVE  i <= s.slice.len
  OBVIOUS
<1>1. s.type \in RuleTypes /\ s.slice.len \in Nat
  BY DEF Search, Slice
<1>2. PICK k \in DOMAIN vecs[s.type].entries :
        <<s.proc, vecs[s.type].entries[k].process>> \in NameMatches
  BY DEF RulingTypes
<1>3. Has(vecs[s.type].entries, vecs'[s.type].entries[i].process)
  BY <1>2 DEF OneName, Has
<1>4. PICK j \in DOMAIN vecs[s.type].entries :
        i <= j /\ vecs[s.type].entries[j].process = vecs'[s.type].entries[i].process
  BY <1>1, <1>3, UpdateKeepsPlaces
<1>5. j <= s.slice.len
  BY <1>4 DEF InReach
<1>6. i \in Nat /\ j \in Nat
  <2>1. vecs[s.type] \in Vec /\ vecs'[s.type] \in Vec
    BY <1>1, UpdateRulesInv DEF RegistryInv, ListInv, Inv, TypeOK
  <2> QED  BY <2>1 DEF Vec
<1> QED  BY <1>1, <1>4, <1>5, <1>6

\* A step changes the lists only by an update, and then no search.
LEMMA ListsOrSearches ==
    ASSUME Next
    PROVE  \/ UNCHANGED vecs
           \/ UNCHANGED searches /\ \E a \in Admins : UpdateRules(a)
<1>1. ASSUME NEW f \in Filters, SearchStep(f) PROVE UNCHANGED vecs
  BY <1>1 DEF SearchStep, StartSearch, LookupProcess, ScanPaths
<1>2. ASSUME NEW a \in Admins, Operate(a) PROVE UNCHANGED vecs
  BY <1>2 DEF Operate, SetValue, DeleteValue, DeleteKey, PreRenameKey, Begin
<1>3. ASSUME NEW a \in Admins, Callback(a) PROVE UNCHANGED vecs \/ UpdateRules(a)
  BY <1>3 DEF Callback, RenameKey, PostCallback, LockRules, FailCallback, FailUpdate
<1>4. ASSUME NEW a \in Admins, UpdateRules(a) PROVE UNCHANGED searches
  BY <1>4 DEF UpdateRules, Finish
<1> QED  BY <1>1, <1>2, <1>3, <1>4 DEF Next, CreateKey

\* A search that a step leaves alone still owes what it did.
LEMMA OthersOwe ==
    ASSUME OneName, Apart, Inv, RegistryInv, ~corrupt, StoreOK, SearchNext,
           NEW f \in Filters,
           OwesRules(f), searches'[f] = searches[f]
    PROVE  OwesRules(f)'
<1> SUFFICES ASSUME searches[f].pc # "idle" PROVE OwesRules(f)'
  BY DEF OwesRules
<1>1. PICK s : s = searches[f]
  OBVIOUS
<1>2. s \in Search /\ s.type \in RuleTypes
  BY <1>1 DEF Inv, TypeOK, Search
<1>3. PICK now : now = RulingTypes(vecs', s)
  OBVIOUS
<1>4. witness'[f].always = witness[f].always \intersect now
  BY <1>1, <1>3 DEF SearchNext, Observed
<1>5. ASSUME s.type \in witness'[f].always PROVE InReach(s)'
  <2>1. s.type \in witness[f].always /\ s.type \in now
    BY <1>4, <1>5
  <2>2. InReach(s) /\ s.type \in RulingTypes(vecs, s)
    BY <1>1, <2>1 DEF OwesRules
  <2>3. CASE UNCHANGED vecs
    BY <2>2, <2>3 DEF InReach
  <2>4. ASSUME NEW a \in Admins, UpdateRules(a) PROVE InReach(s)'
    BY <1>2, <2>2, <2>4, UpdateStaysInReach DEF InReach
  <2> QED  BY <2>3, <2>4, ListsOrSearches DEF SearchNext
<1> QED  BY <1>1, <1>3, <1>4, <1>5 DEF OwesRules, InReach

\* A search that begins reads the whole deny list.
LEMMA StartOwes ==
    ASSUME Inv, SearchNext, NEW f \in Filters, NEW proc \in Procs, NEW file \in Files,
           StartSearch(f, proc, file)
    PROVE  OwesRules(f)'
<1>1. PICK now : now = RulingTypes(vecs', searches'[f])
  OBVIOUS
<1>2. /\ searches[f].pc = "idle" /\ searches'[f].pc = "lookup" /\ searches'[f].type = "Deny"
      /\ searches'[f].slice = SliceOf(vecs["Deny"]) /\ UNCHANGED vecs
  BY DEF StartSearch, NoSearch, Inv, TypeOK
<1>3. witness'[f].always = now
  BY <1>1, <1>2 DEF SearchNext, Observed
<1>4. \A i \in DOMAIN vecs["Deny"].entries : i <= SliceOf(vecs["Deny"]).len
  <2>1. vecs["Deny"] \in Vec
    BY DEF Inv, TypeOK, RuleTypes
  <2> QED  BY <2>1 DEF Vec, SliceOf
<1> QED  BY <1>1, <1>2, <1>3, <1>4 DEF OwesRules, InReach

\* A lookup does not change what the search asks for.
LEMMA LookupOwes ==
    ASSUME Inv, SearchNext, NEW f \in Filters, LookupProcess(f), OwesRules(f)
    PROVE  OwesRules(f)'
<1>1. PICK s : s = searches[f]
  OBVIOUS
<1>2. /\ s.pc = "lookup" /\ searches'[f].pc = "scan" /\ UNCHANGED vecs
      /\ searches'[f].type = s.type /\ searches'[f].slice = s.slice
      /\ searches'[f].proc = s.proc /\ searches'[f].file = s.file
  <2>1. PICK found : searches' = [searches EXCEPT ![f].pc = "scan", ![f].pos = found]
    BY DEF LookupProcess
  <2> QED  BY <1>1, <2>1 DEF LookupProcess, Inv, TypeOK, Search
<1>3. RulingTypes(vecs', searches'[f]) = RulingTypes(vecs, s)
  BY <1>2 DEF RulingTypes
<1>4. witness'[f].always = witness[f].always \intersect RulingTypes(vecs, s)
  BY <1>1, <1>2, <1>3 DEF SearchNext, Observed
<1> QED  BY <1>1, <1>2, <1>3, <1>4 DEF OwesRules, InReach

\* A scan decides for the rule that was there all the time, or goes on to the whole
\* read-only list if there was none in the deny list.
LEMMA ScanOwes ==
    ASSUME OneName, Inv, ~corrupt, StoreOK, SearchNext, NEW f \in Filters, ScanPaths(f),
           OwesRules(f)
    PROVE  /\ OwesRules(f)'
           /\ searches'[f].pc = "idle" =>
                /\ "Deny" \in witness'[f].always => searches'[f].verdict = "Deny"
                /\ "ReadOnly" \in witness'[f].always => searches'[f].verdict # "Bypass"
<1>1. PICK s, t, always : s = searches[f] /\ t = s.type /\ always = witness[f].always
  OBVIOUS
<1>2. /\ s \in Search /\ s.pc = "scan" /\ t \in {"Deny", "ReadOnly"} /\ UNCHANGED vecs
      /\ searches'[f] = AfterScan(s)
  BY <1>1 DEF ScanPaths, Inv, TypeOK, Search, RuleTypes
<1>3. PICK now : now = RulingTypes(vecs', searches'[f])
  OBVIOUS
<1>4. witness'[f].always = always \intersect now
  BY <1>1, <1>2, <1>3 DEF SearchNext, Observed
<1>5. t = "ReadOnly" => "Deny" \notin always
  BY <1>1, <1>2 DEF OwesRules
<1>6. CASE PathListed(vecs[t], s.pos, s.file)
  <2>1. searches'[f].pc = "idle" /\ searches'[f].verdict = t
    BY <1>1, <1>2, <1>6 DEF AfterScan, Search
  <2> QED  BY <1>2, <1>4, <1>5, <2>1 DEF OwesRules
<1>7. CASE ~PathListed(vecs[t], s.pos, s.file)
  <2>1. t \notin always
    BY <1>1, <1>2, <1>7, ScanFindsStanding
  <2>2. CASE t = "ReadOnly"
    <3>1. searches'[f].pc = "idle"
      BY <1>1, <1>2, <1>7, <2>2 DEF AfterScan, Search
    <3> QED  BY <1>4, <1>5, <2>1, <2>2, <3>1 DEF OwesRules
  <2>3. CASE t = "Deny"
    <3>1. /\ searches'[f].pc = "lookup" /\ searches'[f].type = "ReadOnly"
          /\ searches'[f].slice = SliceOf(vecs["ReadOnly"])
      BY <1>1, <1>2, <1>7, <2>3 DEF AfterScan, Search
    <3>2. \A i \in DOMAIN vecs["ReadOnly"].entries : i <= SliceOf(vecs["ReadOnly"]).len
      <4>1. vecs["ReadOnly"] \in Vec
        BY DEF Inv, TypeOK, RuleTypes
      <4> QED  BY <4>1 DEF Vec, SliceOf
    <3> QED  BY <1>2, <1>3, <1>4, <2>1, <2>3, <3>1, <3>2 DEF OwesRules, InReach
  <2> QED  BY <1>2, <2>2, <2>3
<1> QED  BY <1>6, <1>7

\* A step leaves a search alone or is a step of it.
LEMMA WhoseStep ==
    ASSUME Inv, Next, NEW f \in Filters
    PROVE  searches'[f] = searches[f] \/ SearchStep(f)
<1>1. searches \in [Filters -> Search]
  BY DEF Inv, TypeOK
<1>2. ASSUME NEW g \in Filters, SearchStep(g), g # f PROVE searches'[f] = searches[f]
  BY <1>1, <1>2 DEF SearchStep, StartSearch, LookupProcess, ScanPaths
<1>3. ASSUME NEW a \in Admins, Operate(a) \/ Callback(a) PROVE UNCHANGED searches
  BY <1>3 DEF Operate, SetValue, DeleteValue, DeleteKey, PreRenameKey, Begin, Callback,
     RenameKey, PostCallback, LockRules, UpdateRules, FailCallback, FailUpdate, Finish
<1> QED  BY <1>2, <1>3 DEF Next, CreateKey

\* StandingInv is inductive.
LEMMA StandingStep ==
    ASSUME OneName, Apart, ~Faults, StandingInv, [SearchNext]_<<vars, witness>>
    PROVE  StandingInv'
<1>1. VerdictInv' /\ MirrorInv'
  BY VerdictStep, MirrorStep DEF StandingInv, SearchNext, vars
<1>2. SUFFICES ASSUME ~corrupt'
               PROVE  \A f \in Filters :
                        /\ OwesRules(f)'
                        /\ Decided(f)' =>
                             /\ "Deny" \in witness'[f].always => searches'[f].verdict = "Deny"
                             /\ "ReadOnly" \in witness'[f].always => searches'[f].verdict # "Bypass"
  BY <1>1 DEF StandingInv, StandingRuleApplies, Decided
<1>3. CASE UNCHANGED <<vars, witness>>
  BY <1>2, <1>3 DEF StandingInv, StandingRuleApplies, OwesRules, InReach, Decided, vars
<1>4. CASE SearchNext
  <2>1. /\ Inv /\ Next /\ ~corrupt /\ RegistryInv /\ StoreOK
        /\ \A f \in Filters : OwesRules(f)
    BY <1>2, <1>4, CorruptStays DEF StandingInv, VerdictInv, MirrorInv, SearchNext
  <2> SUFFICES ASSUME NEW f \in Filters
               PROVE  /\ OwesRules(f)'
                      /\ Decided(f)' =>
                           /\ "Deny" \in witness'[f].always => searches'[f].verdict = "Deny"
                           /\ "ReadOnly" \in witness'[f].always => searches'[f].verdict # "Bypass"
    OBVIOUS
  <2>2. CASE searches'[f] = searches[f]
    <3>1. OwesRules(f)'
      BY <1>4, <2>1, <2>2, OthersOwe
    <3>2. ASSUME Decided(f)' PROVE witness'[f] = witness[f] /\ Decided(f)
      BY <1>4, <2>1, <2>2, <3>2 DEF SearchNext, Observed, Decided
    <3> QED  BY <2>2, <3>1, <3>2 DEF StandingInv, StandingRuleApplies
  <2>3. CASE LookupProcess(f)
    <3>1. OwesRules(f)'
      BY <1>4, <2>1, <2>3, LookupOwes
    <3>2. searches'[f].pc = "scan"
      BY <2>1, <2>3 DEF LookupProcess, Inv, TypeOK, Search
    <3> QED  BY <3>1, <3>2 DEF Decided
  <2>4. ASSUME NEW proc \in Procs, NEW file \in Files, StartSearch(f, proc, file)
        PROVE  OwesRules(f)' /\ searches'[f].pc = "lookup"
    BY <1>4, <2>1, <2>4, StartOwes DEF StartSearch, NoSearch, Inv, TypeOK
  <2>5. CASE ScanPaths(f)
    BY <1>4, <2>1, <2>5, ScanOwes DEF Decided
  <2> QED  BY <2>1, <2>2, <2>3, <2>4, <2>5, WhoseStep DEF SearchStep, Decided
<1> QED  BY <1>3, <1>4

\* A rule that was in its list during the whole search counts, however often the lists
\* change meanwhile, if no process has rules under two names and the registry is
\* mirrored without failures.
THEOREM StandingRulesApply ==
    ASSUME OneName, Apart, ~Faults PROVE SearchSpec => []StandingRuleApplies
<1>1. SearchInit => StandingInv
  <2> SUFFICES ASSUME SearchInit PROVE StandingInv
    OBVIOUS
  <2>1. VerdictInv
    BY InitVerdict
  <2>2. MirrorInv
    BY MirrorInit DEF SearchInit
  <2>3. \A f \in Filters : searches[f].pc = "idle" /\ searches[f].verdict = "none"
    BY DEF SearchInit, Init, NoSearch
  <2> QED  BY <2>1, <2>2, <2>3 DEF StandingInv, OwesRules, StandingRuleApplies, Decided
<1>2. StandingInv /\ [SearchNext]_<<vars, witness>> => StandingInv'
  BY StandingStep
<1>3. StandingInv => StandingRuleApplies
  BY DEF StandingInv
<1> QED  BY <1>1, <1>2, <1>3, PTL DEF SearchSpec
====
