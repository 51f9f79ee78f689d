----------------------------- MODULE MCRulePacks -----------------------------
(* Small instances of RulePacks for TLC. *)
EXTENDS RulePacks

OneBaseline == {RuleConfig("base", "login.defs", TRUE)}
Nine   == Release(0, 9, 0, FALSE, 0)
NineB  == Release(0, 9, 0, FALSE, 10)
Rc     == Release(0, 10, 0, TRUE, 0)
Ten    == Release(0, 10, 0, FALSE, 0)
Epoch  == Release(1, 1, 0, FALSE, 0)
Releases == {Nine, Release(0, 9, 0, FALSE, 2), NineB, Rc, Ten, Epoch}

\* A range that ends before a release, with one, or nowhere.
Below(r) == [below |-> <<r>>, upto |-> <<>>]
Upto(r)  == [below |-> <<>>, upto |-> <<r>>]
NoEnd    == [below |-> <<>>, upto |-> <<>>]

Cve(i, s, g) == [id |-> i, score |-> s, matches |-> {[name |-> i, range |-> g]}]
TwoPages == <<{Cve("c1", 9, Below(Ten)), Cve("c0", 3, Below(Nine))},
              {Cve("c2", 5, Below(NineB)), Cve("c3", 7, Upto(NineB)), Cve("c4", 8, NoEnd)}>>

Package1(n, ranges, listed) == [name |-> n, ranges |-> ranges, listed |-> listed]
Advisory(i, recent, affected) == [id |-> i, recent |-> recent, affected |-> affected]
TwoAdvisories ==
  {Advisory("a1", TRUE, <<Package1("open", <<NoEnd>>, {}), Package1("two", <<NoEnd, Below(Rc), Upto(Epoch)>>, {})>>),
   Advisory("a2", FALSE, <<Package1("a2", <<Upto(Ten)>>, {})>>)}

\* An NVD export, and a single advisory that lists its releases.
TwoArchives ==
  {[rules |-> {}, nvd |-> <<{Cve("c5", 7, Below(Rc))}>>, advisories |-> {}],
   [rules |-> {}, nvd |-> <<>>,
    advisories |-> {Advisory("a3", FALSE, <<Package1("a3", <<>>, {Nine, Ten, Epoch})>>)}]}

\* Two calls are alike, and so are two workers with nothing to do: the first of
\* them is taken first.
InTurn ==
  /\ \A c, d \in Calls : c < d /\ call'[d].pc # "idle" => call'[c].pc # "idle"
  /\ conn = 0 /\ conn' = 2 => worker[1] # Idle \/ inbox[1] # <<>>

\* Advisories are published by one call, beside which there is no other.
OfAdvisories(rules) == \E r \in rules : r.id \in {"a1", "a2", "a3"}
Few == (\E c \in Calls : OfAdvisories(call'[c].rules)) \/ (\E v \in Versions : OfAdvisories(packs'[v]))
         => \E c \in Calls : call'[c].pc = "idle"

BoundedSpec == Init /\ [][Next /\ InTurn /\ Few]_vars /\ Fairness
=============================================================================
