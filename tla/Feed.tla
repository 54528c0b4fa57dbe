-------------------------------- MODULE Feed --------------------------------
(* How a crawl run gets its listings and decides whether they are all of   *)
(* them: the adapters of services/collector (adapters/, feed.py,           *)
(* normalizers.py, registry.py, auth.py) up to the completeness that       *)
(* CollectorService records.  The source goes on changing while a paged    *)
(* feed is read, and a partner may export, sign and replace its CSV at any *)
(* time.  A listing stands for its item; what the item's fields are worth  *)
(* is its quality.                                                         *)
EXTENDS Fixed

CONSTANTS
    Listings,       \* the listings that the source may offer
    Settings,       \* the configurations to be considered
    QualityCases,   \* what the items may be like: functions from Listings
    MaxAttempts,    \* the requests for one page before a run fails
    MinItems,       \* the least number of items of a complete live feed
    MinRatio,       \* its least percentage of the last complete one
    MaxChanges,     \* bound: the changes at the source
    MaxRuns         \* bound: the crawl runs

\* A page holds an item at least, and no value is no number.
ASSUME FeedAssumption ==
    /\ IsFiniteSet(Listings)
    /\ \A s \in Settings : s.size \in Nat \ {0}
    /\ None \notin Nat

VARIABLES
    setting,        \* the configuration of the collector
    quality,        \* what each listing's item is like
    offered,        \* what the source offers, in its order
    fetch,          \* the fetch of the run at work
    csv,            \* the partner's export file
    manifest,       \* its companion manifest
    signing,        \* the export that the operator is about to sign
    outcome,        \* the last run, when it has ended
    lastComplete,   \* the number of items of the last complete live run
    spent           \* the changes and the runs so far

feedVars == <<setting, quality, offered, fetch, csv, manifest, signing, outcome,
              lastComplete, spent>>

-----------------------------------------------------------------------------
(* Configuration.                                                          *)

\* What the provider of each source can state about its coverage.
Capabilities == [sample_json    |-> {"total", "pages"},
                 partner_feed   |-> {"total", "pages"},
                 authorized_api |-> {"total", "pages"},
                 partner_csv    |-> {"total"}]

\* The credentials that a mode of authentication needs: these and no others.
Credentials(mode) ==
    CASE mode = "NONE" -> {}
      [] mode = "BEARER_TOKEN" -> {"bearer_token"}
      [] mode = "BASIC_AUTH" -> {"basic_username", "basic_password"}
      [] mode = "CUSTOM_HEADER" -> {"custom_header_name", "custom_header_value"}

\* Credentials go to HTTP endpoints only, and over HTTPS outside development.
EndpointAllowed(s) ==
    /\ s.scheme = "file" => s.auth = "NONE"
    /\ s.scheme = "http" => s.environment \in {"development", "test"}

\* Live data come from an authorized HTTP feed or a partner's CSV, which is a
\* local file.
Builds(s) ==
    /\ s.source \in DOMAIN Capabilities
    /\ s.given = Credentials(s.auth)
    /\ s.live => /\ s.source # "sample_json"
                 /\ s.scheme # "file" \/ s.source = "partner_csv"
    /\ s.source = "partner_csv" => s.auth = "NONE" /\ s.scheme = "file"
    /\ EndpointAllowed(s)

Paged == setting.source = "authorized_api"

-----------------------------------------------------------------------------
(* Items.                                                                  *)

\* The item becomes an observation, or counts as a parse error: a field is
\* missing or out of range, or its time is not a time with a zone.
Normalizes(l) == quality[l] \notin {"malformed", "invalid"}

\* Why the times of the items speak against a live feed.
FreshnessReasons(items) ==
    IF setting.live
    THEN {quality[l] : l \in ToSet(items)} \cap {"missing", "invalid", "future", "stale"}
    ELSE {}

-----------------------------------------------------------------------------
(* The end of a run.                                                       *)

Idle == [pc |-> "idle", page |-> 0, attempts |-> 0, total |-> None, pages |-> None,
         items |-> <<>>, fetched |-> 0, kept |-> {}, gained |-> FALSE, lost |-> FALSE,
         manifest |-> None, csv |-> None]

\* A run that did not end well.
Unsuccessful(status) ==
    /\ outcome' = [status |-> status, completeness |-> "unknown", seen |-> {},
                   expected |-> {}, counted |-> FALSE]
    /\ fetch' = Idle
    /\ UNCHANGED lastComplete

\* A live feed that is much smaller than the last complete one is not believed.
CoverageGuard(count) ==
    setting.live /\ \/ count < MinItems
                    \/ lastComplete # None /\ lastComplete > 0
                       /\ count * 100 < MinRatio * lastComplete

\* The run ends: the feed is complete if its adapter says so, every item could
\* be normalized and the guard lets it pass.  What the source offered all the
\* time, and whether it said how many that are, is kept for the properties.
Collect(items, declared, expected, counted) ==
    LET good == {i \in DOMAIN items : Normalizes(items[i])}
        complete == /\ declared = "complete"
                    /\ good = DOMAIN items
                    /\ ~CoverageGuard(Cardinality(good))
    IN /\ outcome' = [status |-> "succeeded",
                      completeness |-> IF complete THEN "complete" ELSE "partial",
                      seen |-> {items[i] : i \in good}, expected |-> expected, counted |-> counted]
       /\ lastComplete' = IF setting.live /\ complete THEN Cardinality(good) ELSE lastComplete
       /\ fetch' = Idle

-----------------------------------------------------------------------------
(* The paged feed of an authorized API.                                    *)

\* The pages of n items.  An empty offer has one page.
PagesOf(n) == IF n = 0 THEN 1 ELSE (n + setting.size - 1) \div setting.size

\* The items of a page at this moment.
PageItems(page) ==
    SubSeq(offered, (page - 1) * setting.size + 1,
           IF page * setting.size < Len(offered) THEN page * setting.size ELSE Len(offered))

\* Mutant: a total that changes between pages is taken over.
ConsistentLast(known, stated) == TRUE

\* A page may leave a total out, but may not change it.
Consistent(known, stated) == known = None \/ stated = None \/ known = stated

\* What is known of a total after a page stated it.
Learned(known, stated) == IF stated = None THEN known ELSE stated

\* What the adapter makes of all pages.
PagedCompleteness(f, limited, emptied) ==
    LET full == f.fetched - (IF emptied THEN 1 ELSE 0)
        doubts == (IF limited THEN {"max_pages_limit"} ELSE {})
             \cup (IF f.total # None /\ Len(f.items) # f.total
                   THEN {"reported_total_mismatch"} ELSE {})
             \cup (IF f.pages # None /\ full < f.pages THEN {"early_empty_page"} ELSE {})
             \cup FreshnessReasons(f.items)
    IN CASE f.items = <<>> -> "unknown"
         [] doubts # {} -> "partial"
         [] OTHER -> "complete"

\* The source answers with a page: all of it, a part of it or nothing.  The
\* adapter goes on to the next page, or ends with the last one, at an empty one
\* or at its limit.
TakePage(items) ==
    LET stated(what, n) == IF what \in setting.reports THEN n ELSE None
        total == stated("total", Len(offered))
        pages == stated("pages", PagesOf(Len(offered)))
        f == [fetch EXCEPT !.total = Learned(@, total), !.pages = Learned(@, pages),
                           !.items = @ \o items, !.fetched = @ + 1, !.attempts = 0]
        last == f.pages # None /\ fetch.page >= f.pages
        limited == setting.maxPages # None /\ fetch.page + 1 > setting.maxPages
        Ends(hit, emptied) == Collect(f.items, PagedCompleteness(f, hit, emptied),
                                      f.kept, f.total # None)
    IN CASE ~Consistent(fetch.total, total) \/ ~Consistent(fetch.pages, pages) ->
              Unsuccessful("failed")
         [] OTHER ->
              CASE items = <<>> -> Ends(FALSE, TRUE)
                [] items # <<>> /\ last -> Ends(FALSE, FALSE)
                [] items # <<>> /\ ~last /\ limited -> Ends(TRUE, FALSE)
                [] OTHER -> /\ fetch' = [f EXCEPT !.page = @ + 1]
                            /\ UNCHANGED <<outcome, lastComplete>>

AnswerPage ==
    /\ fetch.pc = "asking"
    /\ \E n \in 0 .. Len(PageItems(fetch.page)) : TakePage(SubSeq(PageItems(fetch.page), 1, n))

\* A timeout, a 429 or a 5xx: the request is sent again, MaxAttempts times.
AnswerLater ==
    /\ fetch.pc = "asking"
    /\ IF fetch.attempts + 1 < MaxAttempts
       THEN fetch' = [fetch EXCEPT !.attempts = @ + 1] /\ UNCHANGED <<outcome, lastComplete>>
       ELSE Unsuccessful("failed")

-----------------------------------------------------------------------------
(* A document: the canonical JSON feed.                                    *)

\* What speaks against the coverage that a document states.
Doubts(cover, count) ==
    (IF cover.returned = None THEN {"items_returned_missing"}
     ELSE IF cover.returned # count THEN {"items_returned_mismatch"} ELSE {})
    \cup (IF cover.total = None
          THEN IF "total" \in Capabilities[setting.source] THEN {"reported_total_missing"} ELSE {}
          ELSE IF cover.total # cover.returned THEN {"reported_total_mismatch"} ELSE {})
    \cup (IF cover.pages = None /\ cover.fetched = None
          THEN IF "pages" \in Capabilities[setting.source]
               THEN {"pagination_coverage_missing"} ELSE {}
          ELSE CASE cover.pages = None \/ cover.fetched = None ->
                      {"pagination_coverage_incomplete"}
                 [] cover.pages # cover.fetched -> {"pagination_incomplete"}
                 [] cover.pages = 0 /\ count > 0 -> {"pagination_zero_with_items"}
                 [] OTHER -> {})

\* Some evidence must be given, unless the configuration waives it.
AssessCoverage(declared, cover, count) ==
    LET waived == setting.allowWithout
        strong == cover # None /\ ~(cover.total = None /\ cover.pages = None
                                                       /\ cover.fetched = None)
        doubts == (IF cover = None THEN {} ELSE Doubts(cover, count))
             \cup (IF ~strong /\ ~waived THEN {"coverage_not_proven"} ELSE {})
    IN IF declared = "complete" /\ doubts = {} THEN "complete" ELSE "partial"

\* The coverages that an honest provider states for the first n of its items.
StatedCoverages(n) ==
    [total : {None, Len(offered)}, returned : {None, n},
     pages : {None, PagesOf(Len(offered))}, fetched : {None, PagesOf(n)}]

ReadDocument ==
    /\ fetch.pc = "loading"
    /\ \E n \in 0 .. Len(offered), declared \in {"complete", "partial"} :
       \E cover \in {None} \cup StatedCoverages(n) :
          Collect(SubSeq(offered, 1, n), AssessCoverage(declared, cover, n), fetch.kept,
                  cover # None /\ cover.total # None)

-----------------------------------------------------------------------------
(* The partner's CSV.                                                      *)

\* Does a manifest belong to a file?  It holds the file's checksum.
Signs(m, file) == m.rows = file.rows

\* The manifest and the file are read one after the other, and the manifest is
\* read once more.
ReadManifest ==
    /\ fetch.pc = "manifest"
    /\ fetch' = [fetch EXCEPT !.pc = "csv", !.manifest = manifest]
    /\ UNCHANGED <<outcome, lastComplete>>

ReadCsv ==
    /\ fetch.pc = "csv"
    /\ IF csv = None THEN Unsuccessful("failed")
       ELSE fetch' = [fetch EXCEPT !.pc = "again", !.csv = csv]
            /\ UNCHANGED <<outcome, lastComplete>>

\* An export without a manifest is partial, and so is one that is too old.  The
\* number of rows stands in for a coverage that is not stated.
ParseCsv ==
    /\ fetch.pc = "again"
    /\ LET m == fetch.manifest
           rows == fetch.csv.rows
           cover == [total |-> IF m = None THEN None ELSE m.total, returned |-> Len(rows),
                     pages |-> None, fetched |-> None]
       IN IF manifest # m \/ (m # None /\ ~Signs(m, fetch.csv))
          THEN Unsuccessful("failed")
          ELSE \E old \in BOOLEAN :
                 Collect(rows,
                         AssessCoverage(IF m = None \/ old THEN "partial" ELSE m.declared,
                                        cover, Len(rows)),
                         IF m = None THEN {} ELSE m.offered, cover.total # None)

\* The partner replaces its file by a new export, which may be cut short.
Export ==
    /\ setting.source = "partner_csv"
    /\ spent.changes < MaxChanges
    /\ spent' = [spent EXCEPT !.changes = @ + 1]
    /\ \E n \in 0 .. Len(offered) :
          csv' = [rows |-> SubSeq(offered, 1, n), offered |-> ToSet(offered)]
    /\ UNCHANGED <<manifest, signing>>

\* The operator signs: every row must be fit to be ingested, a complete export
\* needs the provider's total, and a total must be the number of rows.
Inspect ==
    /\ csv # None
    /\ signing = None
    /\ \A l \in ToSet(csv.rows) : quality[l] \notin {"malformed", "invalid", "future"}
    /\ \E total \in {None, Cardinality(csv.offered)}, declared \in {"complete", "partial"} :
          /\ declared = "complete" => total # None
          /\ total # None => total = Len(csv.rows)
          /\ signing' = [rows |-> csv.rows, offered |-> csv.offered, total |-> total,
                         declared |-> declared]
    /\ UNCHANGED <<csv, manifest, spent>>

\* The manifest is put in place at once, whatever has become of the file.
WriteManifest ==
    /\ signing # None
    /\ manifest' = signing
    /\ signing' = None
    /\ UNCHANGED <<csv, spent>>

-----------------------------------------------------------------------------
(* The runs and the source.                                                *)

FeedInit ==
    /\ setting \in {s \in Settings : Builds(s)}
    /\ quality \in QualityCases
    /\ offered \in {SubSeq(SetToSeq(Listings), 1, n) : n \in 0 .. Cardinality(Listings)}
    /\ fetch = Idle
    /\ csv = None /\ manifest = None /\ signing = None
    /\ outcome = None
    /\ lastComplete = None
    /\ spent = [changes |-> 0, runs |-> 0]

\* A run starts to fetch with the adapter of its source.
StartFetch ==
    /\ fetch.pc = "idle"
    /\ spent.runs < MaxRuns
    /\ spent' = [spent EXCEPT !.runs = @ + 1]
    /\ fetch' = [Idle EXCEPT !.pc = CASE Paged -> "asking"
                                      [] setting.source = "partner_csv" -> "manifest"
                                      [] OTHER -> "loading",
                             !.page = 1, !.kept = ToSet(offered)]
    /\ outcome' = None
    /\ UNCHANGED <<setting, quality, offered, csv, manifest, signing, lastComplete>>

\* The source offers one listing more, anywhere in its order, or one less.
SourceChanges ==
    /\ spent.changes < MaxChanges
    /\ spent' = [spent EXCEPT !.changes = @ + 1]
    /\ \/ \E l \in Listings \ ToSet(offered), i \in 1 .. Len(offered) + 1 :
             /\ offered' = InsertAt(offered, i, l)
             /\ fetch' = [fetch EXCEPT !.gained = fetch.pc # "idle"]
       \/ \E i \in 1 .. Len(offered) :
             /\ offered' = RemoveAt(offered, i)
             /\ fetch' = [fetch EXCEPT !.lost = fetch.pc # "idle", !.kept = @ \ {offered[i]}]
    /\ UNCHANGED <<setting, quality, csv, manifest, signing, outcome, lastComplete>>

\* The provider asks for credentials: the source is paused for an operator.
Unauthorized == fetch.pc \in {"asking", "loading"} /\ Unsuccessful("paused_auth")

\* Any other status, a body that is not a feed of this source, scope and schema
\* version, a field that looks like a credential, or a file that cannot be read.
Refused == fetch.pc # "idle" /\ Unsuccessful("failed")

FetchNext ==
    /\ \/ AnswerPage
       \/ AnswerLater
       \/ ReadDocument
       \/ ReadManifest
       \/ ReadCsv
       \/ ParseCsv
       \/ Unauthorized
       \/ Refused
    /\ UNCHANGED <<setting, quality, offered, csv, manifest, signing, spent>>

PartnerNext ==
    /\ Export \/ Inspect \/ WriteManifest
    /\ UNCHANGED <<setting, quality, offered, fetch, outcome, lastComplete>>

FeedNext == StartFetch \/ SourceChanges \/ FetchNext \/ PartnerNext

FeedSpec == FeedInit /\ [][FeedNext]_feedVars

-----------------------------------------------------------------------------
(* What is checked.                                                        *)

\* A complete feed leaves out no listing that the source offered all the time,
\* if the source says how many it offers, except where one listing left while
\* another one came (authorized_api.py pages through a list that moves).  A
\* listing that is left out is taken to have been withdrawn.
CompleteMissesNothing ==
    [][outcome' \notin {outcome, None} /\ outcome'.completeness = "complete" /\ outcome'.counted
         => \/ outcome'.expected \subseteq outcome'.seen
            \/ fetch.lost /\ fetch.gained]_feedVars

=============================================================================
