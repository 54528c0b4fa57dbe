----------------------------- MODULE Appraisal -----------------------------
(* The pricing chain at work: observations arrive, baselines are published *)
(* from them, homes are assessed from both (P4, P5, P5.5) and the          *)
(* decisions about homes on offer are ranked.  The rules are those of      *)
(* MarketRules, ValuationRules, FutureRules and DecisionRules; how the     *)
(* rows get written is the business of Baselines and Assessments.          *)
EXTENDS DecisionRules

CONSTANTS
    Now,            \* the day of the assessments
    Starts,         \* what is observed, what is to arrive and the days of the runs so far
    EvidenceCases,  \* what may be known of the future
    MetroOf,        \* the metro distance of each community
    PlaceOf,        \* the order of the listings' ids
    Asks,           \* other prices that may be asked
    MaxBaselineRuns, \* bound: the materializations
    MaxAssessments  \* bound: the assessments

\* What there is to begin with was stored under the constraints of its tables.
ASSUME EvidenceIsStored ==
    /\ \A s \in Starts :
          /\ s.runs \in Seq(Int)
          /\ IsFiniteSet(s.book \cup s.pool)
          /\ \A o \in s.book \cup s.pool : IsRecord(o)
          /\ \A o, p \in s.book \cup s.pool : o.id = p.id => o = p
          /\ \A o \in s.book \cup s.pool :
                /\ o.community \in DOMAIN MetroOf
                /\ o.listing \in DOMAIN PlaceOf \cup (IF o.type = "listing" THEN {} ELSE {None})
    /\ \A e \in EvidenceCases : IsEvidence(e)
    /\ Now \in Int /\ Asks \subseteq Int

\* The ids of listings are in an order, and the metro distances are metres.
ASSUME PlacesAreNumbers ==
    /\ IsFiniteSet(DOMAIN PlaceOf) /\ None \notin DOMAIN PlaceOf
    /\ \A l \in DOMAIN PlaceOf : PlaceOf[l] \in Int
    /\ \A l, m \in DOMAIN PlaceOf : PlaceOf[l] = PlaceOf[m] => l = m
    /\ \A c \in DOMAIN MetroOf : MetroOf[c] \in Nat \cup {None}

VARIABLES
    pool,           \* the observations still to arrive
    book,           \* the observations
    runs,           \* the materializations: the day and the slices of each
    onOffer,        \* the listings that are active
    assessed,       \* the last assessment of each listing
    refused,        \* the outlooks that the table refused
    assessments     \* the number of assessments so far

chainVars == <<pool, book, runs, onOffer, assessed, refused, assessments>>

Homes == DOMAIN PlaceOf
Seen == {l \in Homes : \E o \in book : o.type = "listing" /\ o.listing = l}

\* A materialization reads what is observed up to its day.
RunOf(observations, day) ==
    [day |-> day, slices |-> ComputeBaselines({o \in observations : o.day <= day}, day)]

\* The slices of the last materialization.
Published == IF runs = <<>> THEN <<>> ELSE runs[Len(runs)].slices

ChainInit ==
    /\ \E s \in Starts :
          book = s.book /\ pool = s.pool /\ runs = [i \in 1 .. Len(s.runs) |-> RunOf(s.book, s.runs[i])]
    /\ onOffer = Seen
    /\ assessed = [l \in Homes |-> None]
    /\ refused = {}
    /\ assessments = 0

\* The home as it is seen in the observations.
Target(observations, l) ==
    LET t == TargetOf(observations, l, None)
    IN  [t EXCEPT !.home.metro = MetroOf[t.community]]

ValuationAt(observations, t) ==
    EvaluateValuation(observations, Published, t, PriceHistory(observations, t, Now), Now)

Valuation(observations, l) == ValuationAt(observations, Target(observations, l))

\* A crawl that is imported, or a closed transaction.  The listing is as it was
\* seen.
Observe ==
    \E o \in pool :
        /\ pool' = pool \ {o}
        /\ book' = book \cup {o}
        /\ onOffer' = IF o.type # "listing" THEN onOffer
                      ELSE IF o.status = "active" THEN onOffer \cup {o.listing} ELSE onOffer \ {o.listing}
        /\ UNCHANGED <<runs, assessed, refused, assessments>>

Materialize ==
    /\ Len(runs) < MaxBaselineRuns
    /\ runs' = Append(runs, RunOf(book, Now))
    /\ UNCHANGED <<pool, book, onOffer, assessed, refused, assessments>>

\* What an assessment leaves: the outlook, and the decision made from both.
Assessment(e, t, factors, v, f) ==
    [evidence |-> e, home |-> t, factors |-> factors, valuation |-> v, outlook |-> f,
     decision |-> Decide(DecisionInputs(v, f))]

\* A home is assessed when there is a fair value and the evidence may be used.
\* An outlook whose scores are out of their range is refused by the table, and
\* the last assessment of the home stands.
Assess ==
    /\ assessments < MaxAssessments
    /\ assessments' = assessments + 1
    /\ \E l \in Seen, e \in EvidenceCases :
         \E t \in {Target(book, l)} :
         \E v \in {Valuation(book, l)}, slice \in CarriedSlices(runs, t, Now) :
            /\ v.fair # None /\ ValidInputs(v)
            /\ ~LooksAhead(e, t, slice, Now)
            /\ \E factors \in {BuildFactors(e, t, slice, Now)} :
               \E f \in {OutlookFrom(factors, e, t, v, Now)} :
                  \/ /\ IsScore(f.score) /\ IsScore(f.risk)
                     /\ assessed' = [assessed EXCEPT ![l] = Assessment(e, t, factors, v, f)]
                     /\ UNCHANGED refused
                  \/ /\ ~(IsScore(f.score) /\ IsScore(f.risk))
                     /\ refused' = refused \cup {f}
                     /\ UNCHANGED assessed
    /\ UNCHANGED <<pool, book, runs, onOffer>>

ChainNext == Observe \/ Materialize \/ Assess

ChainSpec == ChainInit /\ [][ChainNext]_chainVars

Decisions == [l \in {l \in Homes : assessed[l] # None} |-> assessed[l].decision]
Ranks == RankContext(Decisions, onOffer, PlaceOf)

-----------------------------------------------------------------------------
(* What is checked.                                                        *)

\* Every slice of a materialization may be stored under its key.
SlicesAreStorable == \A i \in DOMAIN runs : \A key \in DOMAIN runs[i].slices : IsSlice(key, runs[i].slices[key])

\* So may the row and the contract of every assessment, but for its prices.
AssessmentsAreStorable ==
    \A l \in DOMAIN Decisions :
       /\ IsValuationRow(assessed[l].valuation) /\ IsOutlookRow(assessed[l].outlook)
       /\ \A n \in AllFutureFactors :
             IsScore(assessed[l].factors[n].current) /\ IsScore(assessed[l].factors[n].future)
       /\ IsDecision(assessed[l].decision)

\* And the prices, today and in every scenario.
PricesAreStorable ==
    \A l \in DOMAIN Decisions :
       PricesFit(assessed[l].valuation) /\ AreScenarios(assessed[l].outlook.scenarios)

\* An outlook is refused on account of rounding alone.
RefusedForRounding == \A f \in refused : FitsButForRounding(f)

\* Every slice, valuation, factor, outlook and decision that the rules arrive at
\* meets the constraints of its table and contract, but for a score that passes
\* 100 by the rounding of its parts: the chain of figures reaches no other row
\* that is refused, which would end the materialization or the evaluation that
\* computed it.
EveryRowIsStorable == SlicesAreStorable /\ AssessmentsAreStorable /\ PricesAreStorable /\ RefusedForRounding

\* The home's own records with another price asked in all of them.
Repriced(observations, l, ask) ==
    {IF o.type = "listing" /\ o.listing = l
     THEN [o EXCEPT !.price = ask, !.unit = Ratio(ask, o.area)] ELSE o : o \in observations}

\* What a valuation says of the home itself, whatever is asked for it.
Worth(v) == <<v.fair, v.low, v.high, v.confidence>>

\* What is asked for a home is not used in its fair value: the same home at the
\* same time with another asking price, baselines and all, has the same fair
\* value.  Every valuation says so of itself (engine.py,
\* asking_price_used_in_fair_value; docs/FAIR_VALUE_MODEL.md), and it is not so.
AskIsNotUsed ==
    runs # <<>> /\ Published = RunOf(book, Now).slices =>
       \A l \in Seen, ask \in Asks :
          LET other == Repriced(book, l, ask)
              t == Target(other, l)
          IN  EvaluateValuation(other, RunOf(other, Now).slices, t, PriceHistory(other, t, Now), Now).fair
                = Valuation(book, l).fair

\* What is asked for a home moves its fair value, the range and the trust in it
\* through the published baselines alone: between two materializations another
\* asking price leaves them as they are (repository.py takes the home out of its
\* candidates, engine.py never reads its price before the score).  AskIsNotUsed,
\* which has the baselines follow the price, does not hold.
AskEntersOnlyThroughTheBaseline ==
    [][\A l \in Homes, ask \in Asks :
          assessed'[l] # assessed[l] =>
             Worth(Valuation(Repriced(book, l, ask), l)) = Worth(assessed'[l].valuation)]_chainVars

\* What may be said in favour of a home.
Favourable == ScoreFactors \cup {"market_cycle"}

\* The assessment with one favourable factor raised.
Raised(a, factor, figure) ==
    LET f == OutlookFrom([a.factors EXCEPT ![factor].future = figure], a.evidence, a.home, a.valuation, Now)
    IN  [a EXCEPT !.outlook = f, !.decision = Decide(DecisionInputs(a.valuation, f))]

StateOrder(d) == CHOOSE i \in DOMAIN WorkflowStates : WorkflowStates[i] = d.state

\* A better prospect of one factor never costs a home anything: its future score
\* and its alpha do not fall, its risk does not rise, and the decision about it
\* goes no step back, unless the rounding of its score gets the row refused.
\* Each factor enters these figures at up to four places, with its own sign at
\* each.
BetterProspectsNeverHurt ==
    \A l \in DOMAIN Decisions, n \in Favourable :
       LET a == assessed[l]
           r == Raised(a, n, 10000)
       IN  a.factors[n].future # None =>
             /\ r.outlook.alpha >= a.outlook.alpha
             /\ a.outlook.score # None => r.outlook.score >= a.outlook.score
             /\ a.outlook.risk # None => r.outlook.risk <= a.outlook.risk
             /\ IsScore(r.outlook.score) => StateOrder(r.decision) >= StateOrder(a.decision)

\* Is one home at least as good as another in all that a decision looks at?
Dominates(i, j) ==
    /\ i.value >= j.value /\ OrZero(i.liquidity) >= OrZero(j.liquidity)
    /\ i.alpha >= j.alpha /\ i.warnings \subseteq j.warnings
    /\ None \notin {i.future, i.risk, j.future, j.risk}
    /\ i.future >= j.future /\ i.risk <= j.risk
    /\ i.coverage >= j.coverage /\ i.riskCoverage >= j.riskCoverage
    /\ \A c \in {"valuationConfidence", "baselineConfidence", "futureConfidence"} :
          LevelOrder(i[c]) >= LevelOrder(j[c])

\* A home on offer that is at least as good as a ranked one in everything, and
\* better in something, is ranked before it, and no less is to be done about it.
BetterIsNeverRankedWorse ==
    \A l, m \in DOMAIN Decisions \cap onOffer :
       LET i == Decisions[l].inputs
           j == Decisions[m].inputs
       IN  m \in DOMAIN Ranks /\ Dominates(i, j) =>
             /\ l \in DOMAIN Ranks
             /\ StateOrder(Decisions[l]) >= StateOrder(Decisions[m])
             /\ DecisionSortKey(Decisions[l]) # DecisionSortKey(Decisions[m]) => Ranks[l] < Ranks[m]
=============================================================================
