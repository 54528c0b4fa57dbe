---------------------------- MODULE FutureRules ----------------------------
(* P5: the future assessment of a home (services/forecasting               *)
(* repository.py, factors.py, accessibility.py, scoring.py,                *)
(* obsolescence.py, structural.py, confidence.py, scenarios.py,            *)
(* warnings.py, engine.py, config.py).  Scores are in hundredths of a      *)
(* point, probabilities, confidences and weights in hundredths, rates in   *)
(* ten-thousandths, distances in tens of metres.  No rent is recorded here *)
(* for a slice, so rental demand is known from evidence alone.             *)
EXTENDS ValuationRules

CONSTANT FutureConfig       \* config/forecasting.yaml

ScoreFactors == {"employment_accessibility", "transport_accessibility", "supply_scarcity",
                 "buyer_pool_depth", "community_competitiveness", "urban_renewal",
                 "rental_demand", "public_services", "planning_realization"}
AllFutureFactors == ScoreFactors \cup {"market_cycle", "building_aging", "product_obsolescence"}

\* Indices of either sign, in hundredths of a point.
AlphaRange == -10000 .. 10000

RiskParts ==
    {"building_aging", "elevator_disadvantage", "parking_deficiency", "layout_obsolescence",
     "property_management_weakness", "community_deterioration", "competing_supply",
     "buyer_pool_shrinkage", "total_price_mismatch", "product_replacement"}

IsObsolescenceConfig(c) ==
    /\ AreWeights(c.weights, RiskParts) /\ c.coverage \in 0 .. 100
    /\ {c.walkUp, c.elevatorUnknown} \subseteq Scores
    /\ c.perYear \in Nat /\ c.grace \in Nat
    /\ {c.mainstream[1], c.mainstream[2]} \subseteq Nat \ {0} /\ c.mainstream[1] < c.mainstream[2]

\* Distances, and the scores they are worth.
IsCurve(points) ==
    /\ points \in Seq(Nat \X Scores) /\ Len(points) >= 2
    /\ \A i \in 1 .. Len(points) - 1 : points[i][1] < points[i + 1][1]

\* What counts for the home over the market, and what against it.
AlphaGains ==
    {"district_alpha", "submarket_alpha", "community_alpha", "property_alpha", "infrastructure_delta",
     "employment_delta", "supply_scarcity", "buyer_pool_delta", "urban_renewal", "market_cycle"}
AlphaLosses == {"building_aging", "product_obsolescence", "supply_shock"}

\* The loader takes weights of any sign; these signs are those of the file.
IsAlphaConfig(c) ==
    /\ c.maximum \in 1 .. 10000
    /\ DOMAIN c.weights \subseteq AlphaGains \cup AlphaLosses
    /\ \A n \in DOMAIN c.weights : c.weights[n] \in Int
    /\ \A n \in DOMAIN c.weights : IF n \in AlphaLosses THEN c.weights[n] <= 0 ELSE c.weights[n] >= 0
    /\ \E n \in DOMAIN c.weights : c.weights[n] # 0

IsScenarioConfig(c) ==
    /\ SumsTo(c.probabilities, {"bear", "base", "bull"}, 100)
    /\ DOMAIN c.ranges = {1, 3, 5}
    /\ \A h \in DOMAIN c.ranges, s \in {"bear", "base", "bull"} : c.ranges[h][s][1] <= c.ranges[h][s][2]
    /\ DOMAIN c.sensitivity = {"bear", "base", "bull"}

TrustParts ==
    {"data_coverage", "data_freshness", "source_authority", "planning_certainty", "employment_data_quality",
     "supply_data_quality", "rental_data_quality", "transaction_calibration", "historical_continuity"}

\* The loader does not look at the signs of the weights, nor at the two levels;
\* these are those of the file.
IsTrustConfig(c) ==
    /\ {c.high, c.medium, c.low} \subseteq 0 .. 1000 /\ c.high > c.medium /\ c.medium > c.low
    /\ AreWeights(c.weights, TrustParts) /\ c.halfLife \in Nat \ {0}
    /\ {c.nonLive, c.uncalibrated} \subseteq ToSet(Levels)

IsFutureConfig(c) ==
    /\ c.calibration.partial < c.calibration.calibrated
    /\ DOMAIN c.planning = {"current", "under_construction", "approved", "planned", "conceptual"}
    /\ \A s \in DOMAIN c.planning : c.planning[s] \in 0 .. 100
    /\ {c.employment.minimum, c.transport.uplift, c.firstYear} \subseteq Nat /\ c.employment.minimum > 0
    /\ \A n \in {"obsolescence", "supplyShock", "planning", "employment", "aging", "liquidity", "rental",
                  "confidence"} : c.warnings[n] \in Int

ASSUME FutureConfigIsValid ==
    /\ IsCurve(FutureConfig.employment.points) /\ IsCurve(FutureConfig.transport.points)
    /\ AreWeights(FutureConfig.score.weights, ScoreFactors) /\ FutureConfig.score.coverage \in 0 .. 100
    /\ IsObsolescenceConfig(FutureConfig.obsolescence) /\ IsAlphaConfig(FutureConfig.alpha)
    /\ IsScenarioConfig(FutureConfig.scenarios) /\ IsTrustConfig(FutureConfig.confidence)
    /\ IsFutureConfig(FutureConfig)

MeanOf(figure) == Ratio(SumFunction(figure), Cardinality(DOMAIN figure))

-----------------------------------------------------------------------------
(* The evidence about a home: rows about one factor each, employment       *)
(* centres, projects.                                                      *)

\* A factor's figures; nothing is known of it without a future one.
NoFactor == [current |-> None, future |-> None, confidence |-> 0, at |-> None]
Delta(f) == IF None \in {f.current, f.future} THEN None ELSE f.future - f.current

InForce(x, now) == x.from <= now /\ (x.to = None \/ x.to > now)

\* Is a row about the home itself, or about the places that its scope names?
RowCovers(r, t) ==
    LET places == CASE r.level = "district" -> {"district"}
                    [] r.level = "submarket" -> {"district", "submarket"}
                    [] r.level = "community" -> {"district", "submarket", "community"}
                    [] OTHER -> {}
    IN  \/ r.listing = t.listing
        \/ r.level # "listing" /\ \A d \in places : r[d] = t[d]

\* Is a project about the home's community, or its submarket, its district or
\* the city as a whole?  What comes after a place that is left out is not read.
ProjectCovers(p, t) ==
    \/ p.district = None
    \/ p.district = t.district /\ p.submarket = None
    \/ p.district = t.district /\ p.submarket = t.submarket /\ p.community \in {None, t.community}

Statuses == DOMAIN FutureConfig.planning
ScopeLevels == <<"shanghai", "district", "submarket", "community", "listing">>
IsScore(x) == x = None \/ x \in Scores

\* A row about a factor that future_factor_observation stores.
IsFactorRow(r) ==
    /\ r.factor \in AllFutureFactors /\ r.level \in ToSet(ScopeLevels)
    /\ IsScore(r.current) /\ IsScore(r.future) /\ r.confidence \in 0 .. 100
    /\ {r.observed, r.at} \subseteq Int

\* A project that future_project stores.
IsProject(p) ==
    /\ p.status \in Statuses /\ p.confidence \in 0 .. 100 /\ p.at \in Int
    /\ p.probability = None \/ p.probability \in 0 .. 100
    /\ p.distance = None \/ p.distance \in Nat

\* A centre that employment_center stores.
IsCenter(c) ==
    {c.weight, c.futureWeight, c.distance} \subseteq Nat /\ c.confidence \in 0 .. 100 /\ c.at \in Int

\* What may be known of the future of a home besides its baselines.
IsEvidence(e) ==
    /\ e.mode \in {"demo", "sample", "live"} /\ e.located \in BOOLEAN
    /\ IsFiniteSet(e.rows) /\ IsFiniteSet(e.centers) /\ IsFiniteSet(e.projects)
    /\ \A r \in e.rows : IsFactorRow(r)
    /\ \A c \in e.centers : IsCenter(c)
    /\ \A p \in e.projects : IsProject(p)
    /\ \A n \in {"district_alpha", "submarket_alpha", "community_alpha", "property_alpha"} :
          e.hierarchy[n] = None \/ e.hierarchy[n] \in AlphaRange
    /\ e.hierarchyAt \in Int \cup {None}
    /\ e.calibration.cases >= 0 /\ e.calibration.continuity \in 0 .. 100

FactorRows(e, t, now) == {r \in e.rows : r.observed <= now /\ InForce(r, now) /\ RowCovers(r, t)}

Specificity(r, t) ==
    IF r.listing = t.listing THEN 6 ELSE CHOOSE i \in DOMAIN ScopeLevels : ScopeLevels[i] = r.level

\* Of the rows about a factor the one about the smallest place, then the last
\* one observed, then the surest.
BestFactorEvidence(rows, t, factor) ==
    LET near(r) == Specificity(r, t)
        better(r, s) ==
            \/ near(r) > near(s)
            \/ near(r) = near(s) /\ r.observed > s.observed
            \/ near(r) = near(s) /\ r.observed = s.observed /\ r.confidence > s.confidence
        of == {r \in rows : r.factor = factor}
        best == CHOOSE r \in of : ~\E s \in of : better(s, r)
    IN  IF of = {} THEN NoFactor
        ELSE [current |-> best.current, future |-> best.future,
              confidence |-> best.confidence, at |-> best.at]

\* The slice of the baselines that P5 looks at, and the day of its run: of all
\* the runs so far, in the order they were made, the slice of the smallest place,
\* then of the window nearest to 90 days, then of the last run.  Which of the
\* cuts of that run it is, nobody says.
CarriedSlices(runs, t, now) ==
    LET near == {x \in UNION {{<<i, k>> : k \in DOMAIN runs[i].slices} : i \in DOMAIN runs} :
                    /\ runs[x[1]].day <= now /\ x[2].type = "listing"
                    /\ \A d \in {"district", "submarket", "community"} : x[2][d] \in {None, t[d]}}
        rank(k) == CHOOSE i \in 1 .. 4 : <<"shanghai", "district", "submarket", "community">>[i] = k.level
        off(k) == Distance(k.days, 90)
        better(x, y) ==
            \/ rank(x[2]) > rank(y[2])
            \/ rank(x[2]) = rank(y[2]) /\ off(x[2]) < off(y[2])
            \/ rank(x[2]) = rank(y[2]) /\ off(x[2]) = off(y[2]) /\ x[1] > y[1]
    IN  IF near = {} THEN {None}
        ELSE {[figures |-> runs[x[1]].slices[x[2]], day |-> runs[x[1]].day] :
                 x \in {x \in near : ~\E y \in near : better(y, x)}}

\* A slice stands in for evidence nobody collected: its liquidity says how deep
\* the buyer pool was on the day of its run, and nothing of tomorrow.
P3Factor(factor, slice) ==
    IF slice = None \/ factor # "buyer_pool_depth" THEN NoFactor
    ELSE [NoFactor EXCEPT
            !.current = IF slice.figures.liquidity = None THEN None ELSE 100 * slice.figures.liquidity,
            !.at = slice.day]

CentersOf(e, now) == {c \in e.centers : InForce(c, now) /\ c.at <= now}
ProjectsOf(e, t, now) == {p \in e.projects : InForce(p, now) /\ p.at <= now /\ ProjectCovers(p, t)}

\* The day of the last thing that is known: of the sight of the home, the rows
\* (those of the hierarchy too), the centres, the projects and the baseline.
DataTimestamp(e, t, slice, now) ==
    Max({t.day} \cup {x.at : x \in FactorRows(e, t, now) \cup CentersOf(e, now) \cup ProjectsOf(e, t, now)}
        \cup (IF slice = None THEN {} ELSE {slice.day})
        \cup (IF e.hierarchyAt = None THEN {} ELSE {e.hierarchyAt}))

-----------------------------------------------------------------------------
(* Factors.                                                                *)

\* The weighted mean of the scores of the centres' distances, by the weight
\* they have today and by the one they are to have.
EmploymentAccessibility(e, centers) ==
    LET c == FutureConfig.employment
        today == [x \in centers |-> x.weight]
        later == [x \in centers |-> x.futureWeight]
        score == [x \in centers |-> PiecewiseLinear(x.distance, c.points)]
        sure == [x \in centers |-> x.confidence]
        mean(figure, weight) ==
            Ratio(SumFunction([x \in centers |-> figure[x] * weight[x]]), SumFunction(weight))
    IN  IF ~e.located \/ SumFunction(today) < c.minimum \/ SumFunction(later) < c.minimum THEN NoFactor
        ELSE [current |-> mean(score, today), future |-> mean(score, later), confidence |-> mean(sure, today),
              at |-> Max({x.at : x \in centers})]

\* How likely a project is: what its status is worth, or less.
ProjectProbability(p) ==
    IF p.probability = None THEN FutureConfig.planning[p.status]
    ELSE Min({FutureConfig.planning[p.status], p.probability})

\* Mutant: the uplift is granted instead of bounded.
TransportUplifted(e, projects) ==
    LET c == FutureConfig.transport
        located == {p \in projects : p.type = "transport" /\ p.distance # None}
        score(p) == PiecewiseLinear(p.distance, c.points)
        current == Max({0} \cup {score(p) : p \in {p \in located : p.status = "current"}})
        raw == Max({0} \cup {Ratio(score(p) * ProjectProbability(p), 100) : p \in located})
        share == MeanOf([p \in located |-> ProjectProbability(p)])
    IN  IF ~e.located \/ located = {} THEN NoFactor
        ELSE [current |-> current, future |-> Max({current + c.uplift, raw}),
              confidence |-> Min({100, Ratio(MeanOf([p \in located |-> p.confidence]) * (100 + share), 200)}),
              at |-> Max({p.at : p \in located})]

\* The best score of a project that is there, and of one that may come, within
\* the uplift that a plan may bring.
TransportAccessibility(e, projects) ==
    LET c == FutureConfig.transport
        located == {p \in projects : p.type = "transport" /\ p.distance # None}
        score(p) == PiecewiseLinear(p.distance, c.points)
        current == Max({0} \cup {score(p) : p \in {p \in located : p.status = "current"}})
        raw == Max({0} \cup {Ratio(score(p) * ProjectProbability(p), 100) : p \in located})
        share == MeanOf([p \in located |-> ProjectProbability(p)])
    IN  IF ~e.located \/ located = {} THEN NoFactor
        ELSE [current |-> current, future |-> Min({current + c.uplift, Max({current, raw})}),
              confidence |-> Min({100, Ratio(MeanOf([p \in located |-> p.confidence]) * (100 + share), 200)}),
              at |-> Max({p.at : p \in located})]

\* The projects that are not there yet, by their probability.
Planned(probability) ==
    LET projects == DOMAIN probability
    IN  IF projects = {} THEN NoFactor
        ELSE [current |-> 0, future |-> MeanOf([p \in projects |-> probability[p] * p.confidence]),
              confidence |-> MeanOf([p \in projects |-> p.confidence]), at |-> Max({p.at : p \in projects})]

PlanningRealization(projects) ==
    Planned([p \in {p \in projects : p.status # "current"} |-> ProjectProbability(p)])

RenewalFactor(projects) ==
    Planned([p \in {p \in projects : p.type = "urban_renewal"} |->
               IF p.probability = None THEN 0 ELSE p.probability])

Year(day) == FutureConfig.firstYear + day \div 365

\* The risk of a building's age, now and in five years.
AgeRisk(age) ==
    LET c == FutureConfig.obsolescence
    IN  Min({10000, Max({0, age - c.grace}) * c.perYear})

AgingFactor(t, now) ==
    LET age == Max({0, Year(now) - t.home.year})
    IN  IF t.home.year = None THEN NoFactor
        ELSE [current |-> AgeRisk(age), future |-> AgeRisk(age + 5), confidence |-> 90, at |-> now]

Qualities == [excellent |-> 1000, good |-> 2500, average |-> 5000, poor |-> 8200, very_poor |-> 9500]
QualityRisk(q) == IF q \in DOMAIN Qualities THEN Qualities[q] ELSE None

\* What is seen of the product, as a risk of being replaced.
ProductFactor(e, t, at) ==
    LET risks == {<<k, QualityRisk(e.quality[k])>> : k \in {"parking", "management", "maintenance", "layout"}}
        seen == {x \in risks : x[2] # None}
                \cup (IF t.home.elevator = None THEN {}
                      ELSE {<<"elevator", IF t.home.elevator THEN 1500 ELSE 8200>>})
        current == MeanOf([x \in seen |-> x[2]])
    IN  IF seen = {} THEN NoFactor
        ELSE [current |-> current, future |-> Min({10000, current + 500}),
              confidence |-> Min({100, 20 * Cardinality(seen)}), at |-> at]

\* The factors of a home.  Centres and projects decide their own factors; what
\* is seen of the home fills in for rows that are not there.
BuildFactors(e, t, slice, now) ==
    LET rows == FactorRows(e, t, now)
        centers == CentersOf(e, now)
        projects == ProjectsOf(e, t, now)
        given(n) == \E r \in rows : r.factor = n
    IN  [n \in AllFutureFactors |->
          CASE n = "employment_accessibility" /\ centers # {} -> EmploymentAccessibility(e, centers)
            [] n = "transport_accessibility" /\ \E p \in projects : p.type = "transport" ->
                 TransportAccessibility(e, projects)
            [] n = "planning_realization" /\ projects # {} -> PlanningRealization(projects)
            [] n = "urban_renewal" /\ ~given(n) -> RenewalFactor(projects)
            [] n = "building_aging" /\ ~given(n) -> AgingFactor(t, now)
            [] n = "product_obsolescence" /\ ~given(n) -> ProductFactor(e, t, DataTimestamp(e, t, slice, now))
            [] OTHER -> IF given(n) THEN BestFactorEvidence(rows, t, n) ELSE P3Factor(n, slice)]

-----------------------------------------------------------------------------
(* Score, risk and alpha.                                                  *)

\* The weighted mean of the parts that are known, None when too few are.  It is
\* rounded part by part: the parts may add up to more than a whole.
GatedScore(parts, c) ==
    LET known == {n \in DOMAIN c.weights : parts[n] # None}
        available == WeightOf(parts, c.weights)
    IN  [score |-> IF available < c.coverage \/ available = 0 THEN None
                   ELSE SumFunction([n \in known |-> Ratio(parts[n] * c.weights[n], available)]),
         coverage |-> available]

FutureScore(factors) == GatedScore([n \in ScoreFactors |-> factors[n].future], FutureConfig.score)

LayoutRisk(e, t) ==
    IF QualityRisk(e.quality.layout) # None THEN QualityRisk(e.quality.layout)
    ELSE IF t.home.bedrooms = None THEN None
    ELSE IF t.home.bedrooms \in {2, 3} /\ 45 <= t.area /\ t.area <= 120 THEN 2000
    ELSE IF t.home.bedrooms = 1 THEN 4500 ELSE 6800

TotalPriceRisk(fair) ==
    LET c == FutureConfig.obsolescence.mainstream
        bound == IF fair < c[1] THEN c[1] ELSE c[2]
    IN  IF c[1] <= fair /\ fair <= c[2] THEN 2000
        ELSE Min({10000, 5000 + Ratio(Distance(fair, bound) * 5000, bound)})

Inverse100(x) == IF x = None THEN None ELSE 10000 - x

\* Mutant: a scarce supply counts as a risk of competing supply.
ScarcityAsSupply(factors) == factors["supply_scarcity"].future

CompetingSupply(factors) == Inverse100(factors["supply_scarcity"].future)

\* The risk of the age that the building has five years on.
BuildingAgeRisk(t, factors, now) ==
    IF factors["building_aging"].future # None THEN factors["building_aging"].future
    ELSE IF t.home.year = None THEN None ELSE AgeRisk(Max({0, Year(now) + 5 - t.home.year}))

ObsolescenceParts(e, t, fair, factors, now) ==
    LET c == FutureConfig.obsolescence
    IN  [building_aging |-> BuildingAgeRisk(t, factors, now),
         elevator_disadvantage |-> IF t.home.elevator = None THEN c.elevatorUnknown
                                   ELSE IF t.home.elevator THEN 1500 ELSE c.walkUp,
         parking_deficiency |-> QualityRisk(e.quality.parking),
         layout_obsolescence |-> LayoutRisk(e, t),
         property_management_weakness |-> QualityRisk(e.quality.management),
         community_deterioration |-> Inverse100(factors["community_competitiveness"].future),
         competing_supply |-> CompetingSupply(factors),
         buyer_pool_shrinkage |-> Inverse100(factors["buyer_pool_depth"].future),
         total_price_mismatch |-> TotalPriceRisk(fair),
         product_replacement |-> factors["product_obsolescence"].future]

ObsolescenceRisk(e, t, fair, factors, now) ==
    GatedScore(ObsolescenceParts(e, t, fair, factors, now), FutureConfig.obsolescence)

\* What the home has over the market: levels around their middle, changes as
\* they are, and what wears it down with a negative weight.
AlphaParts(e, factors) ==
    LET future(n) == factors[n].future
        centered(x) == IF x = None THEN None ELSE 2 * (x - 5000)
    IN  [district_alpha |-> e.hierarchy.district_alpha, submarket_alpha |-> e.hierarchy.submarket_alpha,
         community_alpha |-> e.hierarchy.community_alpha, property_alpha |-> e.hierarchy.property_alpha,
         infrastructure_delta |-> Delta(factors["transport_accessibility"]),
         employment_delta |-> Delta(factors["employment_accessibility"]),
         supply_scarcity |-> centered(future("supply_scarcity")),
         buyer_pool_delta |-> Delta(factors["buyer_pool_depth"]),
         urban_renewal |-> centered(future("urban_renewal")),
         building_aging |-> future("building_aging"),
         product_obsolescence |-> future("product_obsolescence"),
         supply_shock |-> Inverse100(future("supply_scarcity")),
         market_cycle |-> centered(future("market_cycle"))]

StructuralAlpha(e, factors) ==
    LET w == FutureConfig.alpha.weights
        total == SumFunction([n \in DOMAIN w |-> Distance(w[n], 0)])
        parts == AlphaParts(e, factors)
        contribution(n) == Ratio(Bounded(-10000, parts[n], 10000) * w[n], total)
    IN  Bounded(-FutureConfig.alpha.maximum,
                SumFunction([n \in {n \in DOMAIN w : parts[n] # None} |-> contribution(n)]), FutureConfig.alpha.maximum)

-----------------------------------------------------------------------------
(* Confidence, scenarios and warnings.                                     *)

CalibrationState(e) ==
    LET c == e.calibration
        live == e.mode = "live" /\ c.transactions /\ c.employment /\ c.supply /\ c.isolated
    IN  IF live /\ c.cases >= FutureConfig.calibration.calibrated THEN "calibrated"
        ELSE IF c.transactions /\ c.cases >= FutureConfig.calibration.partial THEN "partially_calibrated"
        ELSE "uncalibrated"

\* What the trust in an assessment rests on.
TrustFigures(e, factors, coverage, now) ==
    LET available == {n \in AllFutureFactors : factors[n].future # None}
        halfLife == FutureConfig.confidence.halfLife
        mean(figure) == IF available = {} THEN 0 ELSE MeanOf(figure)
        fresh(at) == IF at = None \/ at > now THEN 0 ELSE Share(halfLife, halfLife + now - at)
        sure(n) == IF factors[n].future = None THEN 0 ELSE 10 * factors[n].confidence
    IN  [data_coverage |-> 10 * coverage,
         data_freshness |-> mean([n \in available |-> fresh(factors[n].at)]),
         source_authority |-> mean([n \in available |-> 10 * factors[n].confidence]),
         planning_certainty |-> IF factors["planning_realization"].future = None THEN 0
            ELSE Ratio(sure("planning_realization") * factors["planning_realization"].future, 10000),
         employment_data_quality |-> sure("employment_accessibility"),
         supply_data_quality |-> sure("supply_scarcity"),
         rental_data_quality |-> sure("rental_demand"),
         transaction_calibration |-> IF e.calibration.transactions THEN 1000 ELSE 0,
         historical_continuity |-> 10 * e.calibration.continuity]

FutureConfidence(e, factors, coverage, now) ==
    LET c == FutureConfig.confidence
        score == WeightedMean(TrustFigures(e, factors, coverage, now), c.weights)
        level == IF coverage < FutureConfig.score.coverage THEN "insufficient" ELSE LevelForScore(score, c)
        lived == IF e.mode # "live" THEN CapLevel(level, c.nonLive) ELSE level
    IN  [score |-> score,
         level |-> IF CalibrationState(e) = "uncalibrated" THEN CapLevel(lived, c.uncalibrated) ELSE lived]

\* What a figure becomes at a yearly rate, in ten-thousandths.
Growth(rate, years) ==
    LET g[n \in 0 .. years] == IF n = 0 THEN 10000 ELSE Ratio(g[n - 1] * (10000 + rate), 10000)
    IN  g[years]

\* The range of prices of a scenario, to ten thousand yuan: the market's rates
\* moved by the home's alpha and widened by what is not known.
Scenario(fair, alpha, confidence, years, name) ==
    LET c == FutureConfig.scenarios
        market == c.ranges[years][name]
        moved == Ratio(Bounded(-10000, alpha, 10000) * c.maximum * c.sensitivity[name], 1000000)
        low == Max({-9500, market[1] + moved - c.widening[confidence]})
        high == Max({low, market[2] + moved + c.widening[confidence]})
        price(rate) == 100 * Ratio(fair * Growth(rate, years), 1000000)
    IN  [low |-> price(low), high |-> price(high), probability |-> c.probabilities[name]]

GenerateScenarios(fair, alpha, confidence) ==
    [h \in DOMAIN FutureConfig.scenarios.ranges |->
        [s \in {"bear", "base", "bull"} |-> Scenario(fair, alpha, confidence, h, s)]]

FutureWarnings(factors, risk, confidence, state, mode) ==
    LET w == FutureConfig.warnings
        f(n) == factors[n].future
        if(p, x) == IF p THEN {x} ELSE {}
        under(x, least) == x # None /\ x < least
        over(x, most) == x # None /\ x >= most
    IN  if(over(risk, w.obsolescence), "HIGH_OBSOLESCENCE_RISK")
        \cup if(over(Inverse100(f("supply_scarcity")), w.supplyShock), "SUPPLY_SHOCK_RISK")
        \cup if(over(Delta(factors["transport_accessibility"]), w.planning), "PLANNING_DEPENDENCY")
        \cup if(under(f("employment_accessibility"), w.employment), "EMPLOYMENT_ACCESS_WEAKNESS")
        \cup if(over(f("building_aging"), w.aging), "AGING_PRODUCT")
        \cup if(under(Delta(factors["buyer_pool_depth"]), w.liquidity + 1), "LIQUIDITY_DECAY_RISK")
        \cup if(f("rental_demand") = None \/ under(f("rental_demand"), w.rental), "LOW_RENTAL_SUPPORT")
        \cup if(confidence < w.confidence, "LOW_FORECAST_CONFIDENCE")
        \cup if(state # "calibrated", "UNCALIBRATED_MODEL")
        \cup if(mode # "live", "NON_LIVE_DATA")

\* Where quality and value put a home; none is no quadrant.
Quadrants == {"QUALITY_AT_DISCOUNT", "GOOD_BUT_EXPENSIVE", "VALUE_TRAP", "PASS"}
ASSUME NoneIsNoQuadrant == None \notin Quadrants

Quadrant(value, future) ==
    LET q == FutureConfig.quadrants
    IN  IF future = None THEN None
        ELSE IF future >= q.future
        THEN IF value >= q.value THEN "QUALITY_AT_DISCOUNT" ELSE "GOOD_BUT_EXPENSIVE"
        ELSE IF value >= q.value THEN "VALUE_TRAP" ELSE "PASS"

RelativeOutlook(score, risk, alpha) ==
    IF None \in {score, risk} THEN "INSUFFICIENT"
    ELSE IF risk >= 7000 \/ score < 4500 THEN "STRUCTURALLY_WEAK"
    ELSE IF risk >= 5500 THEN "CAUTIOUS"
    ELSE IF score >= 7500 /\ alpha > 0 THEN "STRUCTURALLY_POSITIVE" ELSE "NEUTRAL"

\* Evidence that must not be assessed: a figure of a later day.
LooksAhead(e, t, slice, now) == DataTimestamp(e, t, slice, now) > now

\* The row of a home whose score, risk, alpha and trust are known.
OutlookRow(score, risk, alpha, trust, factors, e, v) ==
    [score |-> score.score, coverage |-> score.coverage,
     risk |-> risk.score, riskCoverage |-> risk.coverage, alpha |-> alpha,
     confidence |-> trust.level, calibration |-> CalibrationState(e),
     quadrant |-> Quadrant(v.score, score.score),
     outlook |-> RelativeOutlook(score.score, risk.score, alpha),
     scenarios |-> GenerateScenarios(v.fair, alpha, trust.level),
     warnings |-> FutureWarnings(factors, risk.score, trust.score, CalibrationState(e), e.mode)]

\* The assessment of a home from its factors and its fair value.
OutlookFrom(factors, e, t, v, now) ==
    LET score == FutureScore(factors)
    IN  OutlookRow(score, ObsolescenceRisk(e, t, v.fair, factors, now), StructuralAlpha(e, factors),
            FutureConfidence(e, factors, score.coverage, now), factors, e, v)

\* A scenario that may be shown: a range of prices, and a probability.
IsScenario(s) == 0 < s.low /\ s.low <= s.high /\ s.probability \in 0 .. 100

\* What future_assessment wants of an outlook besides the range of its scores.
OutlookFits(f) ==
    /\ f.alpha \in AlphaRange
    /\ {f.coverage, f.riskCoverage} \subseteq 0 .. 100
    /\ f.confidence \in ToSet(Levels)
    /\ f.calibration \in {"calibrated", "partially_calibrated", "uncalibrated"}
    /\ (f.quadrant = None) = (f.score = None)

\* An outlook that future_assessment stores.
IsOutlookRow(f) == IsScore(f.score) /\ IsScore(f.risk) /\ OutlookFits(f)

\* A mean of scores that was rounded part by part: it passes a whole by no more
\* than half a hundredth of a point for each part.
IsRoundedMean(x, parts) == x = None \/ x \in 0 .. 10000 + Cardinality(parts) \div 2

\* An outlook that is stored but for the rounding of its scores.
FitsButForRounding(f) ==
    IsRoundedMean(f.score, ScoreFactors) /\ IsRoundedMean(f.risk, RiskParts) /\ OutlookFits(f)

\* The scenarios of an outlook, by horizon.
AreScenarios(scenarios) == \A h \in DOMAIN scenarios : \A n \in DOMAIN scenarios[h] : IsScenario(scenarios[h][n])
=============================================================================
