----------------------------- MODULE Reporting -----------------------------
(***************************************************************************)
(* The reporting reads while runs are being written: one rendering of the  *)
(* dashboard (apps/dashboard/app.py), which asks for the summary           *)
(* (service.py, build_summary), the break list, a break and its trade      *)
(* (apps/api/main.py).  Every query is a transaction of its own, so a page *)
(* is put together from many states of the database.                       *)
(*                                                                         *)
(* Readers write nothing: one page, begun at any time, stands for all.     *)
(***************************************************************************)
EXTENDS Runs, FiniteSets, Functions

CONSTANTS
    product_of,     \* [Trades -> product types]
    family_of,      \* [TradeBreaks -> break families]
    PageLimit       \* LIMIT of query_breaks; both callers pass 2000

ASSUME ReportingAssumption ==
    /\ DOMAIN product_of = Trades
    /\ DOMAIN family_of = TradeBreaks
    /\ PageLimit \in Nat \ {0}
    /\ IsFiniteSet(Trades) /\ IsFiniteSet(TradeBreaks)     \* rows of tables

VARIABLE page       \* what the rendering has read so far

pageVars == <<vars, page>>

\* The queries in their order, named for what they are about to read, and the ends.
PagePoints == {"latest", "products", "runs", "families", "listed run", "list", "detail",
               "trade", "trade run", "trade breaks", "shown", "broken link"}

Blank ==
    [ pc |-> "latest", run_id |-> NULL, trades_by_product |-> <<>>, runs |-> {},
      breaks_by_family |-> <<>>, listed_run |-> NULL, listed |-> {}, selected |-> NULL,
      trade_run |-> NULL, related |-> {} ]

\* A page is about known runs, and what is selected is in its list.
PageTypeOK ==
    /\ page.pc \in PagePoints
    /\ {page.run_id, page.listed_run, page.trade_run} \subseteq RunIds \cup {NULL}
    /\ page.listed \cup page.related \subseteq Trades \X TradeBreaks
    /\ page.selected \in page.listed \cup {NULL}

PageInit == Init /\ page = Blank

-----------------------------------------------------------------------------
Rows(id) == {reconciliation_runs[id][k] : k \in 1..N} \ {NULL}

\* ORDER BY completed_at DESC, row_id DESC
Later(row, other) ==
    \/ row.completed_at > other.completed_at
    \/ row.completed_at = other.completed_at /\ row.row_id > other.row_id

LatestRunId ==
    LET AllRows == UNION {Rows(id) : id \in RunIds}
        newest  == CHOOSE row \in AllRows : \A other \in AllRows \ {row} : Later(row, other)
    IN  IF AllRows = {} THEN NULL ELSE CHOOSE id \in RunIds : newest \in Rows(id)

BreaksOfRun(id) == UNION {trade_breaks[id][k] : k \in 1..N}

\* ORDER BY detected_at DESC, break_id LIMIT: as many as fit, the rest is cut off.
Limited(found) ==
    IF Cardinality(found) <= PageLimit THEN {found}
    ELSE {S \in SUBSET found : Cardinality(S) = PageLimit}

\* One more query has been answered.
Reads(answer) == page' = answer /\ UNCHANGED vars

-----------------------------------------------------------------------------
\* GET /summary

latest_completed_run_id ==
    /\ page.pc = "latest"
    /\ Reads([page EXCEPT !.pc = "products", !.run_id = LatestRunId])

\* count(DISTINCT trade_id) by product.  Without a run the summary has no totals.
product_counts ==
    LET stored == {t \in Trades : canonical[t] # NULL} IN
    /\ page.pc = "products"
    /\ Reads([page EXCEPT !.pc = IF page.run_id = NULL THEN "listed run" ELSE "runs",
                          !.trades_by_product =
                              [p \in {product_of[t] : t \in stored} |->
                                  Cardinality({t \in stored : product_of[t] = p})]])

runs_by_run_id ==
    /\ page.pc = "runs"
    /\ Reads([page EXCEPT !.pc = "families", !.runs = {row.entry : row \in Rows(page.run_id)}])

break_family_counts ==
    LET counted   == BreaksOfRun(page.run_id)
        family(b) == family_of[b[2]]
    IN  /\ page.pc = "families"
        /\ Reads([page EXCEPT !.pc = "listed run",
                              !.breaks_by_family =
                                  [f \in {family(b) : b \in counted} |->
                                      Cardinality({b \in counted : family(b) = f})]])

-----------------------------------------------------------------------------
\* GET /breaks: the latest run, which is asked for again, and its breaks.

breaks ==
    /\ page.pc = "listed run"
    /\ Reads([page EXCEPT !.pc = IF LatestRunId = NULL THEN "shown" ELSE "list",
                          !.listed_run = LatestRunId])

query_breaks ==
    /\ page.pc = "list"
    /\ \E found \in Limited(BreaksOfRun(page.listed_run)) :
          Reads([page EXCEPT !.pc = IF found = {} THEN "shown" ELSE "detail",
                             !.listed = found])

\* Slip: the selection of an earlier rendering is kept.
KeepSelection ==
    /\ page.pc = "detail"
    /\ \E b \in UNION {BreaksOfRun(id) : id \in RunIds} :
          Reads([page EXCEPT !.pc = "trade", !.selected = b])

\* GET /breaks/{break_id} of a listed break; 404 if it is not there.
break_detail ==
    /\ page.pc = "detail"
    /\ \E b \in page.listed :
          Reads([page EXCEPT !.pc = IF b \in BreaksOfRun(page.listed_run)
                                      THEN "trade" ELSE "broken link",
                             !.selected = b])

-----------------------------------------------------------------------------
\* GET /trades/{trade_id}: the canonical state or 404, then the latest run once
\* more, and what its breaks say of the trade.

canonical_state_document ==
    /\ page.pc = "trade"
    /\ Reads([page EXCEPT !.pc = IF canonical[page.selected[1]] = NULL
                                   THEN "broken link" ELSE "trade run"])

trade_detail ==
    /\ page.pc = "trade run"
    /\ Reads([page EXCEPT !.pc = "trade breaks", !.trade_run = LatestRunId])

related_breaks ==
    /\ page.pc = "trade breaks"
    /\ \E found \in Limited(BreaksOfRun(page.trade_run)) :
          Reads([page EXCEPT !.pc = "shown",
                             !.related = {b \in found : b[1] = page.selected[1]}])

-----------------------------------------------------------------------------
Render ==
    \/ latest_completed_run_id \/ product_counts \/ runs_by_run_id \/ break_family_counts
    \/ breaks \/ query_breaks \/ break_detail
    \/ canonical_state_document \/ trade_detail \/ related_breaks

PageNext == Render \/ (Next /\ UNCHANGED page)

PageSpec == PageInit /\ [][PageNext]_pageVars

-----------------------------------------------------------------------------
\* The sum over the rows of a run of what one of its counters counts.
Total(field(_)) == Cardinality(UNION {field(entry) : entry \in page.runs})

\* The totals of the summary are never more than its details account for, in
\* whatever states the five queries find a run that is being written: every break
\* counted is in the families, every trade counted in the products
\* (build_summary; dashboard: "historical runs are never blended into this view").
SummaryNeverOverstates ==
    page.pc \notin {"latest", "products", "runs", "families"} /\ page.runs # {} =>
        /\ Total(LAMBDA entry : entry.breaks) <= SumFunction(page.breaks_by_family)
        /\ Total(LAMBDA entry : entry.trades) <= SumFunction(page.trades_by_product)
        /\ Total(LAMBDA entry : entry.broken) <= Total(LAMBDA entry : entry.breaks)

\* A break in the list can be opened and so can its trade, whose page shows that
\* break unless a newer run has come between or the page is cut off by its limit.
EveryLinkOpens ==
    /\ page.pc # "broken link"
    /\ page.pc = "shown" /\ page.selected # NULL =>
          \/ page.selected \in page.related
          \/ page.trade_run # page.listed_run
          \/ Cardinality(BreaksOfRun(page.trade_run)) > PageLimit

=============================================================================
