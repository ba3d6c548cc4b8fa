---- MODULE RulesSearch ----
(***************************************************************************)
(* RulesManager with a witness beside every search: which lists held a     *)
(* matching rule while the search ran.  The witness only observes.  It     *)
(* lets the verdict of search_rule_action, which looks at two lists one    *)
(* after the other while callbacks change them, be compared with the       *)
(* rules there were.                                                       *)
(***************************************************************************)
EXTENDS RulesManager

VARIABLE witness

\* The lists with a rule for the requestor and the file of search s: some
\* entry matches the one and has a path that matches the other.
RulingTypes(lists, s) ==
    {t \in RuleTypes : \E i \in DOMAIN lists[t].entries :
        /\ <<s.proc, lists[t].entries[i].process>> \in NameMatches
        /\ PathListed(lists[t], i, s.file)}

NoWitness == [always |-> {}, ever |-> {}]

\* The witness of f after a step: started by the step, or one state longer.
Observed(f) ==
    LET now == RulingTypes(vecs', searches'[f])
        old == witness[f]
    IN  IF searches[f].pc = "idle" /\ searches'[f].pc # "idle"
        THEN [always |-> now, ever |-> now]
        ELSE IF searches[f].pc = "idle" THEN old
        ELSE [always |-> old.always \intersect now, ever |-> old.ever \union now]

SearchInit == Init /\ witness = [f \in Filters |-> NoWitness]

SearchNext == Next /\ witness' = [f \in Filters |-> Observed(f)]

SearchSpec == SearchInit /\ [][SearchNext]_<<vars, witness>>

----------------------------------------------------------------------------
Decided(f) == ~corrupt /\ searches[f].pc = "idle" /\ searches[f].verdict # "none"

\* A rule that was in its list during the whole search counts: the verdict is
\* Deny for a deny rule and at least ReadOnly for a read-only one, though
\* other entries come, go and move in the list meanwhile (search_rule_impl,
\* search_rule_action and its order of the lists).
StandingRuleApplies ==
    \A f \in Filters : Decided(f) =>
        /\ "Deny" \in witness[f].always => searches[f].verdict = "Deny"
        /\ "ReadOnly" \in witness[f].always => searches[f].verdict # "Bypass"

\* A verdict other than Bypass has its rule: one that was in that list at some
\* moment of the search.
VerdictHasRule ==
    \A f \in Filters : Decided(f) /\ searches[f].verdict # "Bypass"
        => searches[f].verdict \in witness[f].ever
====
