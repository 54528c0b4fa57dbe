------------------------------ MODULE MCRules ------------------------------
(* Two machines that share a run: a feed with three listings (without a    *)
(* chain) and a chain with three homes (without a feed).  The chain has    *)
(* the repository's own configuration, with the sample sizes that a        *)
(* baseline wants lowered to what three homes and three sales can give.    *)
EXTENDS Feed, Appraisal
CONSTANTS h1, h2, h3

Of(source, scheme, live, reports, size, maxPages, without) ==
    [source |-> source, scheme |-> scheme, live |-> live, reports |-> reports,
     size |-> size, maxPages |-> maxPages, allowWithout |-> without,
     auth |-> "NONE", given |-> {}, environment |-> "test"]

MCSettings ==
    {Of("authorized_api", "https", TRUE, reports, 1, None, FALSE) :
       reports \in {{"total"}, {"total", "pages"}}}
    \cup {Of("authorized_api", "http", FALSE, {}, 1, 2, FALSE)}
    \cup {Of("authorized_api", "https", TRUE, {"total", "pages"}, 2, None, FALSE)}
    \cup {Of("partner_feed", "https", TRUE, {}, 2, None, without) : without \in BOOLEAN}
    \cup {Of("partner_csv", "file", TRUE, {}, 2, None, FALSE)}

MCQualityCases ==
    {[l \in Listings |-> "good"], [l \in Listings |-> IF l = h1 THEN "stale" ELSE "good"],
     [l \in Listings |-> IF l = h2 THEN "malformed" ELSE "good"]}

-----------------------------------------------------------------------------
(* Configuration: config/market_baseline.yaml, valuation.yaml,             *)
(* forecasting.yaml and decision.yaml.                                     *)

MCMarketConfig ==
    [windows |-> {90}, buckets |-> ("80-100" :> [from |-> 80, to |-> 100]) @@ ("65-80" :> [from |-> 65, to |-> 80]),
     outliers |-> [minimum |-> 4, z |-> 3500, iqr |-> 1500],
     confidence |-> [minimum |-> 2, samples |-> 4, sources |-> 2, high |-> 800, medium |-> 600, low |-> 350,
        weights |-> [sample_size |-> 25, freshness |-> 20, source_diversity |-> 15, coverage |-> 15,
                     outlier_stability |-> 10, continuity |-> 15]],
     liquidity |-> [available |-> 50, inventory |-> 3, new |-> 2, exits |-> 1, days |-> 90,
        weights |-> [inventory_depth |-> 20, new_listing_velocity |-> 15, listing_exit_velocity |-> 15,
                     days_on_market_speed |-> 15, price_stability |-> 15, relisting_stability |-> 10,
                     buyer_pool_depth |-> 10]],
     fallback |-> [community |-> 3, submarket |-> 2, district |-> 2, prior |-> 10]]

MCFloors ==
    [walk_up   |-> [ground |-> -450, low |-> -100, middle |-> 200, high |-> -300, top |-> -850],
     elevator  |-> [ground |-> -350, low |-> -100, middle |-> 100, high |-> 150, top |-> -350],
     high_rise |-> [ground |-> -400, low |-> -150, middle |-> 100, high |-> 200, top |-> -250]]

MCFloorScores ==
    [walk_up   |-> [ground |-> 35, low |-> 75, middle |-> 85, high |-> 45, top |-> 20],
     elevator  |-> [ground |-> 45, low |-> 75, middle |-> 90, high |-> 95, top |-> 65],
     high_rise |-> [ground |-> 40, low |-> 70, middle |-> 90, high |-> 95, top |-> 70]]

MCComparables ==
    [windows |-> <<90, 180>>, tolerance |-> <<10, 20, 30>>, ages |-> <<5, 10>>,
     minimum |-> 3, target |-> 8, maximum |-> 20, multipliers |-> <<100, 78, 55, 40>>,
     transaction |-> 125, baselineWeight |-> 80, strong |-> 3,
     adjacent |-> ("1BR" :> {"2BR"}) @@ ("2BR" :> {"1BR", "3BR+"}) @@ ("3BR+" :> {"2BR"}),
     outlierMinimum |-> 5, mad |-> 3500, unknown |-> 50, adjacentSimilarity |-> 65, cross |-> 50,
     horizon |-> 30,
     weights |-> [geography |-> 18, community |-> 15, area |-> 14, layout |-> 11, building_age |-> 8,
                  floor |-> 6, elevator |-> 5, orientation |-> 4, freshness |-> 11, source_confidence |-> 8]]

MCAdjustments ==
    [floors |-> MCFloors, perYear |-> 25, maxAge |-> 750, maximum |-> 1800,
     orientation |-> [south |-> 150, south_north |-> 250, east |-> 0, west |-> -100, north |-> -250, mixed |-> -50],
     metro |-> <<500, 800, 1200>>, metroDifference |-> 250,
     metroRates |-> [near |-> 200, walkable |-> 100, extended |-> 0, far |-> -150],
     layoutQuality |-> [mainstream |-> 100, acceptable |-> 0, non_mainstream |-> -250, known_disadvantage |-> -550],
     noise |-> [quiet |-> 100, normal |-> 0, exposed |-> -350, severe |-> -700],
     base |-> 350, perMissing |-> 80, maxInterval |-> 2200]

MCScore ==
    [caps |-> [price_edge |-> 35, liquidity |-> 25, employment_transit |-> 20, property_quality |-> 15,
               seller_signal |-> 5],
     curve |-> <<<<-1000, 0>>, <<0, 500>>, <<300, 1200>>, <<500, 1800>>, <<800, 2700>>, <<1000, 3200>>, <<2000, 3500>>>>,
     thresholds |-> [watch |-> 6500, contact |-> 7500, view |-> 8500, attack |-> 9000],
     accessibility |-> [metro |-> 50, employment |-> 30, amenities |-> 20],
     quality |-> [floor_elevator |-> 25, orientation |-> 15, building_age |-> 15, layout_quality |-> 20,
                  hard_defects |-> 25],
     metro |-> [near |-> 100, walkable |-> 85, extended |-> 65, far |-> 35], metroBounds |-> <<500, 800, 1200>>,
     floors |-> MCFloorScores,
     orientation |-> [south |-> 90, south_north |-> 100, east |-> 75, west |-> 60, north |-> 45, mixed |-> 65],
     layoutQuality |-> [mainstream |-> 95, acceptable |-> 75, non_mainstream |-> 45, known_disadvantage |-> 20],
     minimumAge |-> 30, perYear |-> 2, defect |-> 30,
     modifiers |-> [price |-> 5, area |-> 4, layout |-> 4, floor |-> -15, unusual |-> -20],
     unusual |-> {"commercial", "loft"}, mainstreamPrice |-> <<25000, 80000>>, mainstreamArea |-> <<45, 100>>,
     seller |-> [cuts |-> 3, reduction |-> 100, days |-> 180, recent |-> 30,
                 weights |-> [cuts |-> 25, reduction |-> 30, days |-> 20, relisting |-> 10, recency |-> 15]]]

MCValuationConfig ==
    [comparables |-> MCComparables, adjustments |-> MCAdjustments, score |-> MCScore,
     confidence |-> [comparables |-> 8, effective |-> 6, sources |-> 3, dispersion |-> 2000, missing |-> 8,
        high |-> 800, medium |-> 600, low |-> 350,
        weights |-> [comparable_count |-> 16, effective_weight |-> 13, tier_quality |-> 12,
                     baseline_confidence |-> 12, freshness |-> 10, source_diversity |-> 9, dispersion |-> 10,
                     target_completeness |-> 8, transaction_support |-> 10]],
     warnings |-> [discount |-> 800, liquidity |-> 40, comparables |-> 3, trapCap |-> 8900,
                   insufficientCap |-> 8400, abnormal |-> {"commercial", "loft"}]]

MCFutureConfig ==
    [firstYear |-> 2000,
     planning |-> [current |-> 100, under_construction |-> 70, approved |-> 40, planned |-> 15, conceptual |-> 0],
     employment |-> [minimum |-> 1,
        points |-> <<<<0, 10000>>, <<300, 9200>>, <<800, 7200>>, <<1500, 4200>>, <<3000, 0>>>>],
     transport |-> [uplift |-> 2500,
        points |-> <<<<0, 10000>>, <<50, 9500>>, <<80, 8200>>, <<120, 6200>>, <<250, 2000>>, <<500, 0>>>>],
     score |-> [coverage |-> 65,
        weights |-> [employment_accessibility |-> 20, transport_accessibility |-> 15, supply_scarcity |-> 15,
                     buyer_pool_depth |-> 15, community_competitiveness |-> 10, urban_renewal |-> 10,
                     rental_demand |-> 5, public_services |-> 5, planning_realization |-> 5]],
     obsolescence |-> [coverage |-> 55, walkUp |-> 8200, elevatorUnknown |-> 5000, perYear |-> 125, grace |-> 10,
        mainstream |-> <<15000, 80000>>,
        weights |-> [building_aging |-> 18, elevator_disadvantage |-> 12, parking_deficiency |-> 8,
                     layout_obsolescence |-> 10, property_management_weakness |-> 8,
                     community_deterioration |-> 8, competing_supply |-> 12, buyer_pool_shrinkage |-> 10,
                     total_price_mismatch |-> 6, product_replacement |-> 8]],
     alpha |-> [maximum |-> 10000,
        weights |-> [district_alpha |-> 8, submarket_alpha |-> 12, community_alpha |-> 12, property_alpha |-> 8,
                     infrastructure_delta |-> 10, employment_delta |-> 15, supply_scarcity |-> 10,
                     buyer_pool_delta |-> 10, urban_renewal |-> 5, building_aging |-> -4,
                     product_obsolescence |-> -4, supply_shock |-> -5, market_cycle |-> 3]],
     scenarios |-> [probabilities |-> [bear |-> 20, base |-> 55, bull |-> 25], maximum |-> 400,
        ranges |-> [h \in {1, 3, 5} |->
          CASE h = 1 -> [bear |-> <<-1000, -400>>, base |-> <<-200, 350>>, bull |-> <<400, 1000>>]
            [] h = 3 -> [bear |-> <<-700, -250>>, base |-> <<-50, 400>>, bull |-> <<350, 850>>]
            [] h = 5 -> [bear |-> <<-500, -150>>, base |-> <<50, 450>>, bull |-> <<300, 750>>]],
        sensitivity |-> [bear |-> 70, base |-> 100, bull |-> 115],
        widening |-> [high |-> 0, medium |-> 100, low |-> 250, insufficient |-> 500]],
     confidence |-> [high |-> 780, medium |-> 580, low |-> 300, halfLife |-> 365, nonLive |-> "low",
        uncalibrated |-> "low",
        weights |-> [data_coverage |-> 20, data_freshness |-> 10, source_authority |-> 10,
                     planning_certainty |-> 10, employment_data_quality |-> 15, supply_data_quality |-> 10,
                     rental_data_quality |-> 5, transaction_calibration |-> 15, historical_continuity |-> 5]],
     calibration |-> [partial |-> 30, calibrated |-> 200],
     warnings |-> [obsolescence |-> 6500, supplyShock |-> 6500, planning |-> 1200, employment |-> 4000,
                   aging |-> 6500, liquidity |-> -1200, rental |-> 4000, confidence |-> 580],
     quadrants |-> [value |-> 7500, future |-> 7500]]

MCDecisionConfig ==
    [classification |-> [value |-> 7500, future |-> 7500, coverage |-> 65, riskCoverage |-> 55],
     eligibility |-> [confidence |-> "low", risk |-> 6500,
                      hardRisks |-> {"HIGH_OBSOLESCENCE_RISK", "SUPPLY_SHOCK_RISK"}],
     workflow |-> [value |-> 8000, future |-> 8000, liquidity |-> 75, risk |-> 4500, contact |-> 55],
     ranking |-> [classification |-> [QUALITY_AT_DISCOUNT |-> 2, GOOD_BUT_EXPENSIVE |-> 1],
                  confidence |-> [high |-> 4, medium |-> 3, low |-> 2, insufficient |-> 1]],
     explanations |-> [liquidity |-> 75, alpha |-> 500,
        explained |-> {"HIGH_OBSOLESCENCE_RISK", "SUPPLY_SHOCK_RISK", "LOW_FORECAST_CONFIDENCE",
                       "UNCALIBRATED_MODEL", "LOW_RENTAL_SUPPORT", "AGING_PRODUCT_RISK",
                       "LIQUIDITY_DECAY_RISK", "PLANNING_DEPENDENCY"}]]

-----------------------------------------------------------------------------
(* Homes h1 and h2 are twins, h3 is in the next community; three sales;    *)
(* the second sight of h1 is a price cut, and h2 may be withdrawn.         *)

Home == [floor |-> <<"at", 3>>, floors |-> 6, orientation |-> "south", year |-> 1998, elevator |-> TRUE,
         building |-> "elevator", metro |-> None, employment |-> 90, amenities |-> 90, layoutQuality |-> None,
         noise |-> None, defects |-> {}, bedrooms |-> 2]

Sight(id, l, community, unit, area, day, status, events) ==
    [id |-> id, type |-> "listing", listing |-> l, source |-> "feed", record |-> id, district |-> "putuo",
     submarket |-> "zhenru", community |-> community, bucket |-> "80-100", layout |-> "2BR",
     price |-> unit * area, unit |-> unit, day |-> day, complete |-> TRUE, status |-> status,
     events |-> events, firstSeen |-> 930, area |-> area, trust |-> 800, home |-> Home]

Sale(id, source, community, unit, area, day) ==
    [Sight(id, None, community, unit, area, day, None, {}) EXCEPT !.type = "transaction", !.source = source, !.trust = 950]

MCBook == {Sight(1, h1, "east", 320, 80, 940, "active", {"NEW"}), Sight(2, h2, "east", 320, 80, 940, "active", {"NEW"}),
           Sale(4, "registry", "east", 400, 82, 930), Sale(5, "registry", "east", 410, 85, 950),
           Sale(6, "agency", "east", 395, 81, 985)}

MCArrivals == {Sight(3, h3, "west", 390, 90, 970, "active", {"NEW"}),
               Sight(7, h1, "east", 300, 80, 990, "active", {"PRICE_CUT"})}

\* In the third start h3 was seen once, and a run knew it that is out of date; in
\* the last one nothing is known but what is asked.
MCStarts == {[book |-> {}, pool |-> {}, runs |-> <<>>], [book |-> MCBook, pool |-> MCArrivals, runs |-> <<>>],
             [book |-> MCBook \cup {Sight(9, h3, "west", 390, 90, 905, "active", {"NEW"})},
              pool |-> {Sight(8, h2, "east", 320, 80, 990, "missing", {})}, runs |-> <<950>>],
             [book |-> {o \in MCBook \cup MCArrivals : o.type = "listing" /\ o.id # 7}, pool |-> {}, runs |-> <<>>]}

MCMetroOf == [community \in {"east", "west"} |-> IF community = "east" THEN 400 ELSE None]
MCPlaceOf == (h1 :> 1) @@ (h2 :> 2) @@ (h3 :> 3)

Row(factor, level, current, future, confidence, at) ==
    [factor |-> factor, level |-> level, listing |-> None, district |-> IF level = "shanghai" THEN None ELSE "putuo",
     submarket |-> IF level \in {"submarket", "community"} THEN "zhenru" ELSE None,
     community |-> IF level = "community" THEN "east" ELSE None,
     current |-> current, future |-> future, confidence |-> confidence, observed |-> at, at |-> at,
     from |-> at, to |-> None]

MCRows == {Row("supply_scarcity", "submarket", 7000, 8000, 80, 900),
           Row("buyer_pool_depth", "submarket", 8000, 8500, 70, 900),
           Row("community_competitiveness", "community", 7500, 8000, 80, 900),
           Row("community_competitiveness", "district", 2500, 2000, 90, 950),
           Row("rental_demand", "district", 7000, 7500, 60, 800),
           Row("public_services", "shanghai", 8000, 8500, 90, 800)}

Project(name, type, status, distance, probability) ==
    [name |-> name, type |-> type, status |-> status, distance |-> distance, probability |-> probability,
     confidence |-> 90, at |-> 900, from |-> 900, to |-> None,
     district |-> "putuo", submarket |-> "zhenru", community |-> None]

MCEvidence(rows, parking, projects) ==
    [mode |-> "live", located |-> TRUE, rows |-> rows,
     centers |-> {[name |-> "wujiaochang", weight |-> 60, futureWeight |-> 80, distance |-> 250, confidence |-> 90,
                   at |-> 800, from |-> 800, to |-> None]},
     projects |-> projects,
     hierarchy |-> [district_alpha |-> 1000, submarket_alpha |-> None, community_alpha |-> 2000, property_alpha |-> None],
     hierarchyAt |-> 900,
     calibration |-> [cases |-> 0, transactions |-> FALSE, employment |-> FALSE, supply |-> FALSE,
                      isolated |-> FALSE, continuity |-> 0],
     quality |-> [parking |-> parking, management |-> "good", maintenance |-> None, layout |-> None]]

\* The best there is of all but the renewal: the parts of the score, rounded one
\* by one, add up to 100.02.
MCBest == [MCEvidence({Row(n, "district", 10000, 10000, 90, 900) : n \in ScoreFactors \ {"urban_renewal"}}, "good", {})
             EXCEPT !.centers = {}]

\* In the last case a row is later than the assessments.
MCEvidenceCases ==
    LET line == Project("line 20", "transport", "current", 60, None)
        renewal == Project("renewal", "urban_renewal", "under_construction", None, 80)
    IN  {MCEvidence(MCRows, "good", {line}), MCEvidence(MCRows, "poor", {line}),
         MCEvidence({r \in MCRows : r.factor # "public_services"} \cup {Row("supply_scarcity", "community", 6000, 3000, 60, 990)},
                    "good", {line, renewal}),
         MCBest, [MCEvidence(MCRows, "good", {}) EXCEPT !.hierarchyAt = 1001]}

-----------------------------------------------------------------------------
(* The two machines.                                                       *)

Init ==
    /\ FeedInit /\ ChainInit
    /\ book # {} => setting.source = "partner_csv" /\ offered = <<>> /\ \A l \in Listings : quality[l] = "good"

FeedSteps == book = {} /\ FeedNext /\ UNCHANGED chainVars
ChainSteps == book # {} /\ ChainNext /\ UNCHANGED feedVars

Spec == Init /\ [][FeedSteps \/ ChainSteps]_<<feedVars, chainVars>>
=============================================================================
