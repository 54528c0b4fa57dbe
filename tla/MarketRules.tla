---------------------------- MODULE MarketRules ----------------------------
(* P3: the figures of a market baseline (services/market domain.py,        *)
(* statistics.py, confidence.py, liquidity.py, listing_metrics.py,         *)
(* computation.py, resolver.py, config.py).  An observation is a listing   *)
(* seen on a day or a closed transaction.  Prices are counted in hundreds  *)
(* of yuan, days from an origin, shares in thousandths.                    *)
EXTENDS Fixed

CONSTANT MarketConfig   \* config/market_baseline.yaml

ConfidenceParts ==
    {"sample_size", "freshness", "source_diversity", "coverage", "outlier_stability", "continuity"}
LiquidityParts ==
    {"inventory_depth", "new_listing_velocity", "listing_exit_velocity", "days_on_market_speed",
     "price_stability", "relisting_stability", "buyer_pool_depth"}

\* What a baseline configuration must satisfy to be loaded.
IsMarketConfig(c) ==
    /\ c.outliers.minimum >= 4 /\ c.outliers.z > 0 /\ c.outliers.iqr > 0
    /\ c.windows \subseteq {30, 90, 180, 365}
    /\ AreWeights(c.confidence.weights, ConfidenceParts) /\ AreWeights(c.liquidity.weights, LiquidityParts)
    /\ \A n \in {"available", "inventory", "new", "exits", "days"} : c.liquidity[n] \in Nat \ {0}
    /\ c.confidence.high > c.confidence.medium /\ c.confidence.medium > c.confidence.low
    /\ c.confidence.minimum >= 1 /\ c.confidence.samples >= 1 /\ c.confidence.sources >= 1
    /\ \A n \in {"community", "submarket", "district", "prior"} : c.fallback[n] \in Nat \ {0}

ASSUME MarketConfigIsValid == IsMarketConfig(MarketConfig)

-----------------------------------------------------------------------------
(* Observations and slices.                                                *)

\* Evidence counts once per listing, or per record of its source.
Entity(o) ==
    IF o.listing # None THEN <<"listing", o.listing>> ELSE <<o.type, o.source, o.record>>

\* Observations in the order they were made, the later row last.
Later(o, p) == o.day > p.day \/ (o.day = p.day /\ o.id > p.id)

LatestOf(os) == {o \in os : ~\E p \in os : Entity(p) = Entity(o) /\ Later(p, o)}

\* The observations of the window of closed days that ends with a day.
WindowOf(os, now, days) == {o \in os : o.day <= now /\ o.day + days > now}

Layout(bedrooms) ==
    IF bedrooms = None THEN None
    ELSE IF bedrooms >= 3 THEN "3BR+" ELSE IF bedrooms <= 1 THEN "1BR" ELSE "2BR"

AreaBucket(area) ==
    CHOOSE b \in DOMAIN MarketConfig.buckets :
       MarketConfig.buckets[b].from <= area /\ area < MarketConfig.buckets[b].to

\* The slices an observation counts for: the city and each place it names, as
\* a whole and cut by its area, by its layout and by both.
SliceKeys(o, days) ==
    LET places == {<<"shanghai", None, None, None>>}
           \cup (IF o.district = None THEN {} ELSE {<<"district", o.district, None, None>>})
           \cup (IF None \in {o.district, o.submarket} THEN {}
                 ELSE {<<"submarket", o.district, o.submarket, None>>})
           \cup (IF None \in {o.district, o.submarket, o.community} THEN {}
                 ELSE {<<"community", o.district, o.submarket, o.community>>})
    IN  {[type |-> o.type, days |-> days, level |-> p[1], district |-> p[2],
          submarket |-> p[3], community |-> p[4], bucket |-> b, layout |-> l] :
            p \in places, b \in {None, o.bucket}, l \in {None, o.layout}}

\* Does an observation belong to a slice?  A dimension without a value is open.
Matches(o, key) ==
    /\ o.type = key.type
    /\ \A d \in {"district", "submarket", "community", "bucket", "layout"} :
          key[d] \in {None, o[d]}

ObservationFields ==
    {"id", "type", "listing", "source", "record", "district", "submarket", "community", "bucket", "layout",
     "price", "unit", "day", "complete", "status", "events", "firstSeen", "area", "trust", "home"}

\* An observation that market_observation stores, with the bucket and the layout
\* that its import gives it.
IsObservation(o) ==
    /\ o = [f \in ObservationFields |-> o[f]]
    /\ \A f \in {"id", "day", "firstSeen", "area", "price", "unit"} : o[f] \in Int
    /\ o.type \in {"listing", "transaction"}
    /\ o.area > 0 /\ o.price >= 0 /\ o.unit >= 0 /\ o.trust \in 0 .. 1000
    /\ o.bucket = AreaBucket(o.area) /\ o.layout = Layout(o.home.bedrooms)
    /\ o.complete \in BOOLEAN

-----------------------------------------------------------------------------
(* Outliers.                                                               *)

\* Those whose distance from the median is too far for the median distance.
FarFromMedian(apart, mad, z) == {o \in DOMAIN apart : Ratio(674 * apart[o], mad) > z}

\* Those that are too far outside the quartiles.
OutsideQuartiles(figure, q1, q3) ==
    LET reach == Ratio((q3 - q1) * MarketConfig.outliers.iqr, 1000)
    IN  IF q3 = q1 THEN {} ELSE {o \in DOMAIN figure : figure[o] < q1 - reach \/ figure[o] > q3 + reach}

\* The distance of each figure from the median.
Apart(figure) == LET median == Median(figure) IN [o \in DOMAIN figure |-> Distance(figure[o], median)]

\* The observations whose figure is too far from the others': by the median
\* of the distances from the median, or by the quartiles when that is zero.
OutliersOf(figure) ==
    LET mad == Median(Apart(figure))
    IN  IF Cardinality(DOMAIN figure) < MarketConfig.outliers.minimum THEN {}
        ELSE IF mad > 0 THEN FarFromMedian(Apart(figure), mad, MarketConfig.outliers.z)
        ELSE OutsideQuartiles(figure, Percentile(figure, 25), Percentile(figure, 75))

PercentileSet(figure) ==
    [p10 |-> Percentile(figure, 10), p25 |-> Percentile(figure, 25),
     p50 |-> Percentile(figure, 50), p75 |-> Percentile(figure, 75),
     p90 |-> Percentile(figure, 90)]

-----------------------------------------------------------------------------
(* Confidence.                                                             *)

Levels == <<"insufficient", "low", "medium", "high">>
LevelOrder(level) == CHOOSE i \in DOMAIN Levels : Levels[i] = level
CapLevel(level, most) == IF LevelOrder(level) > LevelOrder(most) THEN most ELSE level

LevelForScore(score, t) ==
    IF score >= t.high THEN "high"
    ELSE IF score >= t.medium THEN "medium" ELSE IF score >= t.low THEN "low" ELSE "insufficient"

\* The number of sources that count as much as these shares of them.
EffectiveSources(S) ==
    LET of(s) == Cardinality({o \in S : o.source = s})
        squares == SumFunction([s \in {o.source : o \in S} |-> of(s) * of(s)])
    IN  IF S = {} THEN 0 ELSE Share(Cardinality(S) * Cardinality(S), squares)

\* The trust in a slice, which thin, old or one-sided evidence caps.
BaselineConfidence(S, outliers, now, days) ==
    LET c == MarketConfig.confidence
        n == Cardinality(S)
        complete == Cardinality({o \in S : o.complete})
        months == Cardinality({o.day \div 30 : o \in S})
        per(k) == IF n = 0 THEN 0 ELSE Bounded(0, Share(k, n), 1000)
        parts == [sample_size |-> Bounded(0, Share(n, c.samples), 1000),
                  freshness |-> IF n = 0 THEN 1000
                     ELSE Bounded(0, 1000 - Share(Median([o \in S |-> now + 1 - o.day]), days), 1000),
                  source_diversity |-> Bounded(0, Ratio(EffectiveSources(S), c.sources), 1000),
                  coverage |-> per(complete),
                  outlier_stability |-> IF n = 0 THEN 0 ELSE per(n - Cardinality(outliers)),
                  continuity |-> Bounded(0, Share(months, Max({1, (days + 29) \div 30})), 1000)]
        recent == \E o \in S : o.complete /\ now + 1 - o.day <= Min({days, 30})
        most == IF n < c.minimum THEN "insufficient"
                ELSE IF per(complete) < 500 \/ ~recent THEN "low"
                ELSE IF Cardinality({o.source : o \in S}) <= 1 THEN "medium" ELSE "high"
    IN  CapLevel(LevelForScore(WeightedMean(parts, c.weights), c), most)

-----------------------------------------------------------------------------
(* What the listings of a slice have been doing.                           *)

\* The last state of each listing before a day that can be believed: a listing
\* that was there, or one a complete run did not find.
TrustedState(os, now) ==
    LET believed == {o \in os : o.day <= now /\ (o.status = "active" \/ o.complete)}
    IN  {o \in believed : ~\E p \in believed : Entity(p) = Entity(o) /\ Later(p, o)}

Active(os) == {o \in os : o.status = "active"}

\* A figure now against the same figure some days ago, as a rate of change.
Change(now, before) == IF None \in {now, before} \/ before = 0 THEN None ELSE Share(now - before, before)

AskChange(os, now, days) ==
    LET ask(day) == Median([o \in TrustedState(os, day) |-> o.price]) IN Change(ask(now), ask(now - days))

InventoryChange(os, now, days) ==
    LET number(day) == Cardinality(Active(TrustedState(os, day)))
    IN  Change(number(now), number(now - days))

ListingMetrics(all, key, now) ==
    LET scoped == {o \in all : Matches(o, key) /\ o.day <= now}
        window == WindowOf(scoped, now, key.days)
        current == TrustedState(scoped, now)
        entities == {Entity(o) : o \in scoped}
        of(e) == {o \in scoped : Entity(o) = e}
        first(e) == CHOOSE o \in of(e) : \A p \in of(e) \ {o} : Later(p, o)
        last(e) == CHOOSE o \in of(e) : \A p \in of(e) \ {o} : Later(o, p)
        follows(p, o) == Later(p, o) /\ ~\E q \in of(Entity(o)) : Later(q, o) /\ Later(p, q)
        cohort == {Entity(o) : o \in window}
        cut == {Entity(o) : o \in {o \in window : "PRICE_CUT" \in o.events}}
           \cup {e \in entities : \E o, p \in of(e) : follows(p, o) /\ p.price < o.price}
        relisted == {Entity(o) : o \in {o \in window : "RELISTED" \in o.events}}
        new == {Entity(o) : o \in {o \in window : "NEW" \in o.events \/ o.firstSeen > now - key.days}}
        gone == {o \in current : o.complete /\ o.status \in {"missing", "inactive"}}
    IN  [active |-> Cardinality(Active(current)), new |-> Cardinality(new),
         exits |-> Cardinality(gone),
         cutRatio |-> IF cohort = {} THEN None ELSE Share(Cardinality(cut \cap cohort), Cardinality(cohort)),
         medianCut |-> Median([e \in entities |->
             Max({0, Share(first(e).price - last(e).price, first(e).price)})]),
         daysOnMarket |-> Median([o \in Active(current) |-> Max({0, now + 1 - o.firstSeen})]),
         relisting |-> IF new \cup relisted = {} THEN None
                       ELSE Share(Cardinality(relisted), Cardinality(new \cup relisted)),
         askChange |-> [d \in {30, 90} |-> AskChange(scoped, now, d)],
         inventoryChange |-> [d \in {30, 90} |-> InventoryChange(scoped, now, d)]]

\* How easily a home of the slice sells, 0 to 100; None when too little of
\* what the score weighs is known.  Transactions say nothing about it.
Liquidity(m) ==
    LET c == MarketConfig.liquidity
        share(x, target) == Bounded(0, Share(x, target), 1000)
        inverse(x, whole) == IF x = None THEN None ELSE Bounded(0, 1000 - Share(x, whole), 1000)
        parts == [inventory_depth |-> share(m.active, c.inventory),
                  new_listing_velocity |-> share(m.new, c.new),
                  listing_exit_velocity |-> share(m.exits, c.exits),
                  days_on_market_speed |-> inverse(m.daysOnMarket, c.days),
                  price_stability |-> inverse(m.cutRatio, 1000),
                  relisting_stability |-> inverse(m.relisting, 1000),
                  buyer_pool_depth |-> None]
    IN  IF m = None \/ WeightOf(parts, c.weights) < c.available THEN None
        ELSE Ratio(WeightedMean(parts, c.weights), 10)

-----------------------------------------------------------------------------
(* A slice, and the baseline a home falls back to.                         *)

\* The figures of the evidence S, less the outliers of each.
SliceOf(S, byPrice, byUnit, liquidity, key, now) ==
    [samples |-> Cardinality(S), outliers |-> {o.id : o \in byPrice \cup byUnit},
     confidence |-> BaselineConfidence(S, byPrice \cup byUnit, now, key.days),
     price |-> PercentileSet([o \in S \ byPrice |-> o.price]),
     unit |-> PercentileSet([o \in S \ byUnit |-> o.unit]), liquidity |-> liquidity]

ComputeSlice(all, key, now) ==
    LET S == LatestOf({o \in WindowOf(all, now, key.days) : Matches(o, key)})
    IN  SliceOf(S, OutliersOf([o \in S |-> o.price]), OutliersOf([o \in S |-> o.unit]),
                IF key.type # "listing" THEN None ELSE Liquidity(ListingMetrics(all, key, now)), key, now)

\* The slices of a materialization.
ComputeBaselines(all, now) ==
    LET keys(d) == UNION {SliceKeys(o, d) : o \in WindowOf(all, now, d)}
    IN  [key \in UNION {keys(d) : d \in MarketConfig.windows} |-> ComputeSlice(all, key, now)]

\* A slice that market_baseline stores: it names the places down to its level,
\* its percentiles are in order, and its figures are within their columns.
IsSlice(key, s) ==
    LET level == CHOOSE i \in 1 .. 4 : <<"shanghai", "district", "submarket", "community">>[i] = key.level
        inOrder(p) == p.p50 # None =>
            p.p10 <= p.p25 /\ p.p25 <= p.p50 /\ p.p50 <= p.p75 /\ p.p75 <= p.p90
    IN  /\ key.type \in {"listing", "transaction"} /\ key.days \in {30, 90, 180, 365}
        /\ \A i \in 1 .. 3 : (<<key.district, key.submarket, key.community>>[i] # None) = (i < level)
        /\ s.samples > 0 /\ Cardinality(s.outliers) <= s.samples
        /\ s.confidence \in ToSet(Levels)
        /\ inOrder(s.price) /\ inOrder(s.unit)
        /\ s.liquidity = None \/ (key.type = "listing" /\ s.liquidity \in 0 .. 100)

Usable(slice, minimum) == slice # None /\ slice.samples >= minimum /\ slice.confidence # "insufficient"

Blend(local, parent, weight) ==
    IF local = None THEN parent ELSE IF parent = None THEN local
    ELSE Ratio(local * weight + parent * (1000 - weight), 1000)

\* The baseline of a home from the slices of its own segment: its community,
\* the community drawn towards its submarket, or the narrowest larger place.
ResolveHierarchy(slices) ==
    LET f == MarketConfig.fallback
        as(level, s) == [level |-> level, confidence |-> s.confidence, samples |-> s.samples,
                         p25 |-> s.unit.p25, p50 |-> s.unit.p50, p75 |-> s.unit.p75,
                         price |-> s.price.p50, liquidity |-> s.liquidity]
        c == slices["community"]
        s == slices["submarket"]
        w == Share(c.samples, c.samples + f.prior)
        wider == <<<<"submarket", f.submarket>>, <<"district", f.district>>, <<"shanghai", f.district>>>>
        usable == {i \in DOMAIN wider : Usable(slices[wider[i][1]], wider[i][2])}
    IN  IF Usable(c, f.community) THEN as("community", c)
        ELSE IF c # None /\ c.samples > 0 /\ Usable(s, f.submarket)
        THEN [level |-> "shrunk", samples |-> c.samples,
              confidence |-> CapLevel(c.confidence, s.confidence),
              p25 |-> Blend(c.unit.p25, s.unit.p25, w), p50 |-> Blend(c.unit.p50, s.unit.p50, w),
              p75 |-> Blend(c.unit.p75, s.unit.p75, w), price |-> Blend(c.price.p50, s.price.p50, w),
              liquidity |-> Blend(c.liquidity, s.liquidity, w)]
        ELSE IF usable = {} THEN None
        ELSE LET i == Min(usable) IN as(wider[i][1], slices[wider[i][1]])
=============================================================================
