--------------------------- MODULE ValuationRules ---------------------------
(* P4: the fair value of a home and its value score (services/valuation    *)
(* repository.py, comparables.py, adjustments.py, aggregation.py,          *)
(* confidence.py, scoring.py, history.py, warnings.py, engine.py,          *)
(* domain.py, config.py).  Prices are in hundreds of yuan, adjustment      *)
(* rates and discounts in ten-thousandths, scores in hundredths of a       *)
(* point, subscores in points.                                             *)
EXTENDS MarketRules

CONSTANT ValuationConfig    \* config/valuation.yaml

\* Scores, in hundredths of a point.
Scores == 0 .. 10000

Ascending(s) == \A i \in 1 .. Len(s) - 1 : s[i] <= s[i + 1]
SumsTo(f, names, total) == SumFunctionOnSet(f, names) = total

SimilarityParts ==
    {"geography", "community", "area", "layout", "building_age", "floor", "elevator", "orientation",
     "freshness", "source_confidence"}
FloorNames == {"ground", "low", "middle", "high", "top"}

IsComparableConfig(c) ==
    /\ AreWeights(c.weights, SimilarityParts)
    /\ c.windows \in Seq(Nat \ {0}) /\ c.windows # <<>>
    /\ Ascending(c.windows) /\ Ascending(c.tolerance)
    /\ \A n \in {"minimum", "target", "maximum", "horizon", "baselineWeight"} : c[n] \in Nat \ {0}
    /\ c.minimum <= c.target /\ c.target <= c.maximum
    /\ \A n \in {"unknown", "cross", "adjacentSimilarity"} : c[n] \in 0 .. 100
    /\ c.multipliers \in Seq(Int) /\ Len(c.multipliers) = 4
    /\ c.transaction \in Nat /\ c.transaction >= 100

IsAdjustmentConfig(a) ==
    /\ \A n \in {"perYear", "maxAge", "base", "perMissing"} : a[n] \in Nat
    /\ a.maximum \in 1 .. 10000 /\ a.maxInterval \in 1 .. 10000
    /\ \A s \in {"walk_up", "elevator", "high_rise"}, n \in FloorNames : a.floors[s][n] \in Int
    /\ \A n \in {"near", "walkable", "extended", "far"} : a.metroRates[n] \in Int
    /\ \A n \in DOMAIN a.orientation : a.orientation[n] \in Int
    /\ Ascending(a.metro)

IsScoreConfig(c) ==
    /\ SumsTo(c.caps, DOMAIN c.caps, 100)
    /\ SumsTo(c.accessibility, DOMAIN c.accessibility, 100)
    /\ SumsTo(c.quality, DOMAIN c.quality, 100)
    /\ SumsTo(c.seller.weights, DOMAIN c.seller.weights, 100)
    /\ \A n \in {"price", "area", "layout", "floor", "unusual"} : c.modifiers[n] \in Int
    /\ Len(c.curve) >= 2
    /\ \A i \in 1 .. Len(c.curve) - 1 : c.curve[i][1] < c.curve[i + 1][1]
    /\ \A i \in DOMAIN c.curve : c.curve[i][2] <= 100 * c.caps.price_edge
    /\ Ascending(<<c.thresholds.watch, c.thresholds.contact, c.thresholds.view, c.thresholds.attack>>)

ASSUME ValuationConfigIsValid ==
    /\ IsComparableConfig(ValuationConfig.comparables)
    /\ IsAdjustmentConfig(ValuationConfig.adjustments)
    /\ SumsTo(ValuationConfig.confidence.weights, DOMAIN ValuationConfig.confidence.weights, 100)
    /\ IsScoreConfig(ValuationConfig.score)

Known(x) == x # None

-----------------------------------------------------------------------------
(* The features of a home.  A floor is named, or a number of a building.   *)

FloorCategory(h) ==
    IF h.floor = None THEN None
    ELSE IF h.floor[1] = "named" THEN h.floor[2]
    ELSE IF h.floor[2] <= 1 THEN "ground"
    ELSE IF h.floors \in {None, 0} THEN None
    ELSE IF h.floor[2] >= h.floors THEN "top"
    ELSE IF 100 * h.floor[2] <= 33 * h.floors THEN "low"
    ELSE IF 100 * h.floor[2] <= 67 * h.floors THEN "middle" ELSE "high"

BuildingSegment(h) ==
    IF h.elevator = FALSE \/ h.building = "walk_up" THEN "walk_up"
    ELSE IF (h.floors # None /\ h.floors >= 12) \/ h.building = "high_rise" THEN "high_rise"
    ELSE "elevator"

MetroBucket(metres, bounds) ==
    IF metres <= bounds[1] THEN "near" ELSE IF metres <= bounds[2] THEN "walkable"
    ELSE IF metres <= bounds[3] THEN "extended" ELSE "far"

HomeFields ==
    {"floor", "floors", "orientation", "year", "elevator", "building", "metro", "employment", "amenities",
     "layoutQuality", "noise", "defects", "bedrooms"}

\* What is known of a home; what nobody recorded is None.
IsHome(h) ==
    /\ h = [f \in HomeFields |-> h[f]]
    /\ \/ h.floor = None
       \/ h.floor[1] = "at" /\ h.floor[2] \in Int
       \/ h.floor[1] = "named" /\ h.floor[2] \in FloorNames
    /\ h.elevator \in BOOLEAN \cup {None}
    /\ \A n \in {"floors", "year", "metro", "bedrooms"} : h[n] = None \/ h[n] \in Nat
    /\ \A n \in {"employment", "amenities"} : h[n] = None \/ h[n] \in 0 .. 100
    /\ h.orientation = None \/ h.orientation \in DOMAIN ValuationConfig.adjustments.orientation

\* A home or a comparable: an observation with the places and the figures that
\* a valuation needs.
IsRecord(o) ==
    /\ IsObservation(o) /\ IsHome(o.home)
    /\ None \notin {o.district, o.submarket, o.community}
    /\ o.price > 0 /\ o.unit > 0

\* What feeds have seen of a listing until now.
SeenOf(all, l) == {o \in all : o.type = "listing" /\ o.listing = l}

\* The home to value: the last time it was seen, with the metro distance of
\* its community; what nobody classified is unknown.
TargetOf(all, l, metro) ==
    LET seen == SeenOf(all, l)
        o == CHOOSE o \in seen : \A p \in seen \ {o} : Later(o, p)
    IN  [o EXCEPT !.home = [@ EXCEPT !.metro = metro, !.layoutQuality = None, !.noise = None]]

\* What is not known of a home.
Missing(t) ==
    {f \in {"floor", "floors", "orientation", "year", "elevator", "building", "metro",
            "employment", "amenities", "layoutQuality", "noise"} : ~Known(t.home[f])}
        \cup (IF t.layout = None THEN {"layout"} ELSE {})

\* What has happened to the asking price of a home.
PriceHistory(all, t, now) ==
    LET seen == SeenOf(all, t.listing)
        cuts == {o.day : o \in {o \in seen : "PRICE_CUT" \in o.events}}
        first == CHOOSE o \in seen : \A p \in seen \ {o} : Later(p, o)
    IN  [reduction |-> Max({0, Share(first.price - t.price, first.price)}),
         cuts |-> Cardinality(cuts),
         sinceCut |-> IF cuts = {} THEN None ELSE now - Max(cuts),
         onMarket |-> Max({0, now - t.firstSeen}),
         relisted |-> \E o \in seen : "RELISTED" \in o.events]

-----------------------------------------------------------------------------
(* Comparables.                                                            *)

AreaDifference(t, o) == Share(Distance(o.area, t.area), t.area)
AgeDifference(t, o) ==
    IF None \in {t.home.year, o.home.year} THEN None ELSE Distance(t.home.year, o.home.year)
Adjacent(t, o) ==
    /\ None \notin {t.layout, o.layout}
    /\ o.layout \in ValuationConfig.comparables.adjacent[t.layout]

\* How close a record is: 1 the same kind of home next door, 2 a similar one in
\* the community, 3 one of the submarket, None not comparable.
Tier(t, o) ==
    LET c == ValuationConfig.comparables
        exact == t.layout = o.layout
        age == AgeDifference(t, o)
        within(i) == AreaDifference(t, o) <= 10 * c.tolerance[i]
        building == None \in {t.home.building, o.home.building} \/ t.home.building = o.home.building
    IN  IF t.community = o.community /\ exact /\ within(1) /\ age # None /\ age <= c.ages[1] THEN 1
        ELSE IF /\ t.community = o.community /\ (exact \/ Adjacent(t, o)) /\ within(2)
                /\ age = None \/ age <= c.ages[2]
        THEN 2
        ELSE IF t.submarket = o.submarket /\ building /\ (exact \/ Adjacent(t, o)) /\ within(3) THEN 3
        ELSE None

\* The similarity of a record to the home, in thousandths.
Similarity(t, o, tier, now, days) ==
    LET c == ValuationConfig.comparables
        same(x, y) == IF ~Known(x) \/ ~Known(y) THEN 10 * c.unknown ELSE IF x = y THEN 1000 ELSE 0
        age == AgeDifference(t, o)
    IN  WeightedMean(
         [geography |-> 10 * c.multipliers[tier],
          community |-> IF o.community = t.community THEN 1000 ELSE 10 * c.cross,
          area |-> Max({0, 1000 - AreaDifference(t, o)}),
          layout |-> IF None \in {t.layout, o.layout} THEN 10 * c.unknown
                     ELSE IF t.layout = o.layout THEN 1000
                     ELSE IF Adjacent(t, o) THEN 10 * c.adjacentSimilarity ELSE 0,
          building_age |-> IF age = None THEN 10 * c.unknown ELSE Max({0, 1000 - Share(age, c.horizon)}),
          floor |-> same(FloorCategory(t.home), FloorCategory(o.home)),
          elevator |-> same(t.home.elevator, o.home.elevator),
          orientation |-> same(t.home.orientation, o.home.orientation),
          freshness |-> Max({0, 1000 - Share(now - o.day, days)}),
          source_confidence |-> o.trust], c.weights)

RawWeight(t, o, tier, now, days) ==
    LET c == ValuationConfig.comparables
    IN  Ratio(Similarity(t, o, tier, now, days) * c.multipliers[tier]
              * (IF o.type = "transaction" THEN c.transaction ELSE 100), 10000)

\* Mutant: the home is not taken out of the candidates.
CandidatesWithTheTarget(all, t, now) ==
    LET near == {o \in all : /\ now - o.day \in 0 .. Last(ValuationConfig.comparables.windows)
                             /\ o.community = t.community \/ o.submarket = t.submarket}
    IN  {o \in near : ~\E p \in near : p.type = o.type /\ Entity(p) = Entity(o) /\ Later(p, o)}

\* The records of other homes in the places of this one, the last of each
\* entity in its kind of evidence.
Candidates(all, t, now) ==
    LET near == {o \in all : /\ now - o.day \in 0 .. Last(ValuationConfig.comparables.windows)
                             /\ o.community = t.community \/ o.submarket = t.submarket}
    IN  {o \in near : /\ o.listing # t.listing
                      /\ ~\E p \in near : p.type = o.type /\ Entity(p) = Entity(o) /\ Later(p, o)}

\* The candidates of a window whose tier is no wider than one.
UpTo(tier, now, days, n) == {o \in DOMAIN tier : now - o.day < days /\ tier[o] # None /\ tier[o] <= n}

\* The narrowest window, and in a window the closest tiers, that have enough.
WindowFor(tier, now) ==
    LET c == ValuationConfig.comparables
        enough == {days \in ToSet(c.windows) : Cardinality(UpTo(tier, now, days, 3)) >= c.minimum}
    IN  IF enough = {} THEN Last(c.windows) ELSE Min(enough)

TiersFor(tier, now, days) ==
    LET enough == {n \in 1 .. 3 : Cardinality(UpTo(tier, now, days, n)) >= ValuationConfig.comparables.minimum}
    IN  IF enough = {} THEN 3 ELSE Min(enough)

\* The heaviest records up to the maximum, with their shares of the weight.
Heaviest(picked, now, days) ==
    LET before(x, y) == \/ x.raw > y.raw
                        \/ x.raw = y.raw /\ x.record.day > y.record.day
                        \/ x.raw = y.raw /\ x.record.day = y.record.day /\ x.record.id < y.record.id
        kept == {x \in picked : Cardinality({y \in picked : before(y, x)}) < ValuationConfig.comparables.maximum}
        total == SumFunction([x \in kept |-> x.raw])
    IN  [now |-> now, days |-> days,
         items |-> IF total <= 0 THEN {}
                   ELSE {[record |-> x.record, tier |-> x.tier, weight |-> Share(x.raw, total)] : x \in kept}]

\* The comparables of a home.
SelectComparables(candidates, t, now) ==
    LET tier == [o \in candidates |-> Tier(t, o)]
        days == WindowFor(tier, now)
        weighed(o) == [record |-> o, tier |-> tier[o], raw |-> RawWeight(t, o, tier[o], now, days)]
    IN  Heaviest({weighed(o) : o \in UpTo(tier, now, days, TiersFor(tier, now, days))}, now, days)

\* The number of equal weights that would count as much, in thousandths.
EffectiveCount(items) ==
    LET sum == SumFunction([x \in items |-> x.weight])
        squares == SumFunction([x \in items |-> x.weight * x.weight])
    IN  IF sum = 0 THEN 0 ELSE 10 * Ratio(100 * sum * sum, squares)

-----------------------------------------------------------------------------
(* Adjustments of a comparable to the home.                                *)

FloorElevatorDelta(t, o) ==
    LET rates == ValuationConfig.adjustments.floors
    IN  IF ~Known(FloorCategory(t.home)) \/ ~Known(FloorCategory(o.home))
           \/ None \in {t.home.elevator, o.home.elevator} THEN 0
        ELSE rates[BuildingSegment(t.home)][FloorCategory(t.home)]
             - rates[BuildingSegment(o.home)][FloorCategory(o.home)]

RateDelta(rates, x, y) == IF Known(x) /\ Known(y) THEN rates[x] - rates[y] ELSE 0

MetroDelta(t, o) ==
    LET a == ValuationConfig.adjustments
    IN  IF \/ o.community # t.community \/ None \in {t.home.metro, o.home.metro}
           \/ Distance(t.home.metro, o.home.metro) < a.metroDifference THEN 0
        ELSE a.metroRates[MetroBucket(t.home.metro, a.metro)] - a.metroRates[MetroBucket(o.home.metro, a.metro)]

\* The rate that makes a comparable the home, in ten-thousandths.
AdjustmentRate(t, o) ==
    LET a == ValuationConfig.adjustments
        age == IF None \in {t.home.year, o.home.year} THEN 0
               ELSE Bounded(-a.maxAge, (t.home.year - o.home.year) * a.perYear, a.maxAge)
    IN  Bounded(-a.maximum,
            FloorElevatorDelta(t, o) + RateDelta(a.orientation, t.home.orientation, o.home.orientation)
            + age + MetroDelta(t, o) + RateDelta(a.layoutQuality, t.home.layoutQuality, o.home.layoutQuality)
            + RateDelta(a.noise, t.home.noise, o.home.noise), a.maximum)

AdjustedUnit(t, o) == Ratio(o.unit * (10000 + AdjustmentRate(t, o)), 10000)

-----------------------------------------------------------------------------
(* Fair value.                                                             *)

\* Those whose figure is the median, or near it for the median distance.
NearTheMedian(apart, mad) ==
    IF mad = 0 THEN {x \in DOMAIN apart : apart[x] = 0}
    ELSE DOMAIN apart \ FarFromMedian(apart, mad, ValuationConfig.comparables.mad)

\* The comparables whose adjusted price is not too far from the others'.
RemoveOutliers(t, items) ==
    LET apart == Apart([x \in items |-> AdjustedUnit(t, x.record)])
        kept == NearTheMedian(apart, Median(apart))
    IN  IF Cardinality(items) < ValuationConfig.comparables.outlierMinimum \/ kept = {} THEN items ELSE kept

WeightOfPoints(points) == SumFunction([p \in points |-> p.weight])

\* The least value that the points up to it reach a part of the weight with.
WeightedQuantile(points, q) ==
    LET upTo(v) == WeightOfPoints({p \in points : p.value <= v})
    IN  Min({p.value : p \in {p \in points : 100 * upTo(p.value) >= q * WeightOfPoints(points)}})

\* What supports a fair value: the comparables' prices and, as one more point,
\* the middle of the baseline.
PricePoints(t, retained, b) ==
    LET middle == IF b = None THEN None
                  ELSE IF b.p50 # None THEN b.p50 * t.area ELSE b.price
    IN  {[of |-> x.record.id, value |-> AdjustedUnit(t, x.record) * t.area, weight |-> x.weight] : x \in retained}
        \cup (IF middle = None THEN {}
              ELSE {[of |-> 0, value |-> middle, weight |-> 10 * ValuationConfig.comparables.baselineWeight]})

\* The fair value and its range, which the baseline's quartiles widen.
FairValueOf(points, retained, t, b, missing) ==
    LET a == ValuationConfig.adjustments
        q(p) == WeightedQuantile(points, p)
        dispersion == IF q(50) > 0 THEN Ratio((q(75) - q(25)) * 10000, q(50)) ELSE 10000
        sample == Min({1000, Share(Cardinality(retained), ValuationConfig.comparables.target)})
        rate == Min({a.base + a.perMissing * missing + Ratio(dispersion, 2)
                     + Ratio(a.base * (1000 - sample), 1000), a.maxInterval})
        lows == {q(25), Ratio(q(50) * (10000 - rate), 10000)}
        highs == {q(75), Ratio(q(50) * (10000 + rate), 10000)}
    IN  IF WeightOfPoints(points) <= 0 THEN None
        ELSE [fair |-> q(50), retained |-> retained, dispersion |-> dispersion,
              low |-> Min(lows \cup (IF b = None \/ b.p25 = None THEN {} ELSE {b.p25 * t.area})),
              high |-> Max(highs \cup (IF b = None \/ b.p75 = None THEN {} ELSE {b.p75 * t.area}))]

\* None when nothing supports a fair value.
AggregateFairValue(t, items, b, missing) ==
    LET retained == RemoveOutliers(t, items)
    IN  FairValueOf(PricePoints(t, retained, b), retained, t, b, missing)

-----------------------------------------------------------------------------
(* Baselines of the home, and confidence.                                  *)

\* The baseline of a home's own segment, in the first window that has one.
BestBaseline(published, t, type) ==
    LET windows == ValuationConfig.comparables.windows
        key(level, days) ==
            [type |-> type, days |-> days, level |-> level, bucket |-> AreaBucket(t.area), layout |-> t.layout,
             district |-> IF level = "shanghai" THEN None ELSE t.district,
             submarket |-> IF level \in {"community", "submarket"} THEN t.submarket ELSE None,
             community |-> IF level = "community" THEN t.community ELSE None]
        slices(days) == [level \in {"community", "submarket", "district", "shanghai"} |->
            IF key(level, days) \in DOMAIN published THEN published[key(level, days)] ELSE None]
        found == {i \in DOMAIN windows : ResolveHierarchy(slices(windows[i])) # None}
    IN  IF found = {} THEN None
        ELSE [baseline |-> ResolveHierarchy(slices(windows[Min(found)])), type |-> type]

\* Closed prices when there are enough of them, else asking prices.
ChooseBaseline(listing, transaction) ==
    IF transaction # None /\ transaction.baseline.samples >= ValuationConfig.comparables.strong
    THEN transaction ELSE IF listing # None THEN listing ELSE transaction

TransactionSupport(retained, b) ==
    LET strong == ValuationConfig.comparables.strong
        closed == Cardinality({x \in retained : x.record.type = "transaction"})
        inBaseline == IF b # None /\ b.type = "transaction" THEN b.baseline.samples ELSE 0
    IN  IF closed >= strong \/ inBaseline >= strong THEN "strong"
        ELSE IF closed > 0 \/ inBaseline > 0 THEN "weak" ELSE "none"

ValuationConfidence(selection, value, b, missing) ==
    LET c == ValuationConfig.confidence
        part(n, d) == Bounded(0, Share(n, d), 1000)
        retained == value.retained
        total == SumFunction([x \in retained |-> x.weight])
        mean(figure) == IF total = 0 THEN 0
                        ELSE Ratio(SumFunction([x \in retained |-> figure[x] * x.weight]), total)
        support == TransactionSupport(retained, b)
        score == WeightedMean(
            [comparable_count |-> part(Cardinality(retained), c.comparables),
             effective_weight |-> part(EffectiveCount(selection.items), 1000 * c.effective),
             tier_quality |-> mean([x \in retained |-> 10 * ValuationConfig.comparables.multipliers[x.tier]]),
             baseline_confidence |-> IF b = None THEN 0
                ELSE [high |-> 1000, medium |-> 720, low |-> 420, insufficient |-> 0][b.baseline.confidence],
             freshness |-> mean([x \in retained |-> Max({0, 1000 - Share(selection.now - x.record.day, selection.days)})]),
             source_diversity |-> part(Cardinality({x.record.source : x \in retained}), c.sources),
             dispersion |-> 1000 - part(value.dispersion, c.dispersion),
             target_completeness |-> 1000 - part(missing, c.missing),
             transaction_support |-> [none |-> 0, weak |-> 500, strong |-> 1000][support]], c.weights)
    IN  [score |-> score, level |-> LevelForScore(score, c), support |-> support]

-----------------------------------------------------------------------------
(* Value score and warnings.                                               *)

PiecewiseLinear(x, curve) ==
    LET i == Max({i \in DOMAIN curve : curve[i][1] <= x})
    IN  IF x <= curve[1][1] THEN curve[1][2]
        ELSE IF x >= Last(curve)[1] THEN Last(curve)[2]
        ELSE curve[i][2] + Ratio((x - curve[i][1]) * (curve[i + 1][2] - curve[i][2]),
                                 curve[i + 1][1] - curve[i][1])

DecisionForScore(score) ==
    LET t == ValuationConfig.score.thresholds
    IN  IF score >= t.attack THEN "attack" ELSE IF score >= t.view THEN "view"
        ELSE IF score >= t.contact THEN "contact" ELSE IF score >= t.watch THEN "watch" ELSE "pass"

\* The liquidity of the home's slice, moved by the home's own features.
ProductLiquidity(t, liquidity) ==
    LET c == ValuationConfig.score
        m == c.modifiers
        if(p, x) == IF p THEN x ELSE 0
    IN  IF liquidity = None THEN 0
        ELSE Bounded(0, liquidity
               + if(c.mainstreamPrice[1] <= t.price /\ t.price <= c.mainstreamPrice[2], m.price)
               + if(c.mainstreamArea[1] <= t.area /\ t.area <= c.mainstreamArea[2], m.area)
               + if(t.layout # None, m.layout) + if(FloorCategory(t.home) \in {"ground", "top"}, m.floor)
               + if(t.home.building \in c.unusual, m.unusual), 100)

OrZero(x) == IF x = None THEN 0 ELSE Bounded(0, x, 100)

AccessibilityScore(t) ==
    LET c == ValuationConfig.score
    IN  OrZero(WeightedMean(
          [metro |-> IF t.home.metro = None THEN None ELSE c.metro[MetroBucket(t.home.metro, c.metroBounds)],
           employment |-> t.home.employment, amenities |-> t.home.amenities], c.accessibility))

QualityScore(t, medianYear) ==
    LET c == ValuationConfig.score
        h == t.home
    IN  OrZero(WeightedMean(
          [floor_elevator |-> IF ~Known(FloorCategory(h)) \/ h.elevator = None THEN None
                              ELSE c.floors[BuildingSegment(h)][FloorCategory(h)],
           orientation |-> IF Known(h.orientation) THEN c.orientation[h.orientation] ELSE None,
           building_age |-> IF None \in {h.year, medianYear} THEN None
                            ELSE Max({c.minimumAge, 100 - Max({0, medianYear - h.year}) * c.perYear}),
           layout_quality |-> IF Known(h.layoutQuality) THEN c.layoutQuality[h.layoutQuality] ELSE None,
           hard_defects |-> IF h.defects = None THEN None
                            ELSE Max({0, 100 - Cardinality(h.defects) * c.defect})], c.quality))

SellerScore(h) ==
    LET s == ValuationConfig.score.seller
        part(n, d) == Min({100, Ratio(100 * n, d)})
    IN  OrZero(WeightedMean(
          [cuts |-> part(h.cuts, s.cuts), reduction |-> part(h.reduction, s.reduction),
           days |-> part(h.onMarket, s.days), relisting |-> IF h.relisted THEN 100 ELSE 0,
           recency |-> IF h.sinceCut # None /\ h.sinceCut <= s.recent THEN 100 ELSE 0], s.weights))

\* The discount of the asking price to the fair value.
Discount(fair, price) == Ratio((fair - price) * 10000, fair)

\* Five contributions, each under its cap; only the first looks at the price.
ValueScore(t, fair, liquidity, history, medianYear) ==
    LET c == ValuationConfig.score.caps
    IN  PiecewiseLinear(Discount(fair, t.price), ValuationConfig.score.curve)
        + ProductLiquidity(t, liquidity) * c.liquidity + AccessibilityScore(t) * c.employment_transit
        + QualityScore(t, medianYear) * c.property_quality + SellerScore(history) * c.seller_signal

Warnings(t, discount, liquidity, comparables, baseline, support) ==
    LET w == ValuationConfig.warnings
        illiquid == liquidity = None \/ liquidity < w.liquidity
        few == comparables < w.comparables
        extreme == FloorCategory(t.home) = "top" /\ t.home.elevator = FALSE
        weak == baseline \in {"low", "insufficient"}
        trap == discount >= w.discount
                /\ (illiquid \/ few \/ extreme \/ weak \/ t.home.building \in w.abnormal)
        if(p, x) == IF p THEN {x} ELSE {}
    IN  if(illiquid, "PRODUCT_LIQUIDITY_RISK") \cup if(few, "LOW_SAMPLE_CONFIDENCE")
        \cup if(extreme, "EXTREME_FLOOR_RISK") \cup if(trap, "VALUE_TRAP_RISK")
        \cup if(support = "none" \/ weak, "SOURCE_DATA_LIMITATION")

CappedScore(score, warnings, confidence) ==
    LET w == ValuationConfig.warnings
    IN  Min({score} \cup (IF "VALUE_TRAP_RISK" \in warnings THEN {w.trapCap} ELSE {})
                    \cup (IF confidence = "insufficient" THEN {w.insufficientCap} ELSE {}))

MedianYear(retained) ==
    LET years == {x \in retained : x.record.home.year # None}
    IN  IF years = {} THEN None
        ELSE Ranked([x \in years |-> x.record.home.year], Cardinality(years) \div 2 + 1)

ValuationBasis(retained, b) ==
    LET kinds == {x.record.type : x \in retained} \cup (IF b = None THEN {} ELSE {b.type})
    IN  IF {"transaction", "listing"} \subseteq kinds THEN "mixed_source"
        ELSE IF "transaction" \in kinds THEN "transaction_supported" ELSE "listing_derived"

\* Why the evidence is not the nearest there is.
FallbackReason(selection, b) ==
    LET c == ValuationConfig.comparables
        n == Cardinality(selection.items)
    IN  <<IF n = 0 THEN "none" ELSE IF n < c.minimum THEN "below_minimum"
          ELSE IF selection.days > c.windows[1] THEN "older"
          ELSE IF \E x \in selection.items : x.tier # 1 THEN "wider" ELSE None,
          IF b = None \/ b.baseline.level = "community" THEN None ELSE b.baseline.level>>

\* The row of a home whose value, trust and score are known.
ValuationRow(t, selection, b, liquidity, value, trust, score) ==
    LET baseline == IF b = None THEN "insufficient" ELSE b.baseline.confidence
        discount == Discount(value.fair, t.price)
        warnings == Warnings(t, discount, liquidity, Cardinality(value.retained), baseline, trust.support)
        capped == CappedScore(score, warnings, trust.level)
    IN  [fair |-> value.fair, low |-> value.low, high |-> value.high, ask |-> t.price,
         discount |-> discount, score |-> capped, decision |-> DecisionForScore(capped),
         liquidity |-> ProductLiquidity(t, liquidity), confidence |-> trust.level,
         support |-> trust.support, baseline |-> baseline, warnings |-> warnings,
         basis |-> ValuationBasis(value.retained, b), effective |-> EffectiveCount(value.retained),
         because |-> FallbackReason(selection, b)]

\* What is said of a home whose evidence supports no fair value.
NoValuation == [fair |-> None, low |-> None, high |-> None, confidence |-> None]

\* Trust and score are asked for only when there is a fair value.
Rated(t, selection, b, liquidity, value, history) ==
    IF value = None THEN NoValuation
    ELSE ValuationRow(t, selection, b, liquidity, value,
             ValuationConfidence(selection, value, b, Cardinality(Missing(t))),
             ValueScore(t, value.fair, liquidity, history, MedianYear(value.retained)))

\* The value that the comparables and the chosen baseline b give the home; its
\* liquidity is that of the listing baseline.
Valued(t, selection, listing, b, history) ==
    Rated(t, selection, b, IF listing = None THEN None ELSE listing.baseline.liquidity,
        AggregateFairValue(t, selection.items, IF b = None THEN None ELSE b.baseline, Cardinality(Missing(t))),
        history)

\* The valuation of a home.
EvaluateValuation(all, published, t, history, now) ==
    LET listing == BestBaseline(published, t, "listing")
    IN  Valued(t, SelectComparables(Candidates(all, t, now), t, now),
            listing, ChooseBaseline(listing, BestBaseline(published, t, "transaction")), history)

\* A valuation that valuation_result stores: the order of the range, the score
\* and the enumerations of its columns.
IsValuationRow(v) ==
    /\ v.low <= v.fair /\ v.fair <= v.high /\ v.ask > 0 /\ v.score \in Scores
    /\ v.decision \in {"pass", "watch", "contact", "view", "attack"}
    /\ {v.confidence, v.baseline} \subseteq ToSet(Levels)
    /\ v.support \in {"none", "weak", "strong"}
    /\ v.basis \in {"listing_derived", "transaction_supported", "mixed_source"}
    /\ v.effective >= 0

\* Prices that the column takes, and a discount that it has the digits for.
PricesFit(v) == 0 < v.low /\ v.discount \in -9999999 .. 9999999
=============================================================================
