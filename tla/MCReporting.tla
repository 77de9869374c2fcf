---------------------------- MODULE MCReporting ----------------------------
(***************************************************************************)
(* A small instance of Reporting and Runs for TLC, with the reconciliation *)
(* engine itself for breaks_of.                                            *)
(***************************************************************************)
EXTENDS Reporting, TLC

CONSTANTS london, sydney, spot, i1, i2

Exact == [mode |-> "NONE", value |-> 0, per |-> 1]

Eng == INSTANCE Engine WITH
    Trades <- {london, sydney}, Products <- {spot},
    window_seconds <- [EXECUTION |-> 1, CONFIRMATION |-> 1, BOOKING |-> 0],
    tolerance <- [f \in {"base_amount", "terms_amount", "quoted_rate"} |-> Exact],
    effective_from <- 0, effective_to <- NULL

Seen(id, kind, trade) ==
    [ observation_id |-> id, observation_kind |-> kind, source_business_key |-> trade,
      source_version |-> 1, source_sequence |-> 1, supersedes_observation_id |-> 0,
      portfolio_id |-> 1, correlation_id |-> 1, ingest_time |-> 0,
      source_trade_id |-> trade, product_type |-> spot,
      lifecycle_status |-> Eng!lifecycle_rule[kind], record |-> 1,
      value |-> [f \in Eng!Fields |-> 100] ]

\* One portfolio's trade is booked twice with different amounts; the other's
\* booking arrives late.
Delivery ==
    << Seen(1, "BOOKING", london),
       [Seen(2, "BOOKING", london) EXCEPT !.value["base_amount"] = 101],
       Seen(3, "EXECUTION", sydney),
       Seen(4, "BOOKING", sydney) >>

\* A delivery is its place in that list.
Booked   == 1
Rebooked == 2
Executed == 3
Late     == 4

Sent == 1..4

Demo == { [inbox |-> {Booked, Executed}, conflicts |-> {Rebooked}],
          [inbox |-> {Late}, conflicts |-> {}] }

TradeOf == <<london, london, sydney, sydney>>

PortfolioOf == (london :> 1) @@ (sydney :> 2)

ProductOf == (london :> spot) @@ (sydney :> spot)

\* The breaks of a lineage group, each of a family of its own.
Table ==
    [ raws \in SUBSET Sent |->
        CASE raws = {Booked, Rebooked} -> {"DUPLICATE_SOURCE_CONFLICT", "ECONOMIC_VALUE_MISMATCH"}
          [] raws = {Executed}         -> {"MISSING_REQUIRED_SOURCE"}
          [] OTHER                     -> {} ]

Families ==
    {"DUPLICATE_SOURCE_CONFLICT", "ECONOMIC_VALUE_MISMATCH", "MISSING_REQUIRED_SOURCE"}

\* The table is what the engine finds in every group of one trade.
ASSUME TableIsTheEngines ==
    \A raws \in SUBSET Sent :
        Cardinality({TradeOf[o] : o \in raws}) = 1 =>
            LET rows(S) == {Delivery[o] : o \in S}
                verdict == Eng!_reconcile_lineage_group(
                              [ inbox     |-> rows(raws \ {Rebooked}),
                                conflicts |-> rows(raws \cap {Rebooked}) ])
            IN  /\ verdict.result # "ERROR"
                /\ Cardinality(verdict.breaks) = Cardinality(Table[raws])
                /\ {b.family : b \in verdict.breaks} = Table[raws]

Interchangeable == Permutations(Invocations)

FamilyOf == [b \in Families |-> b]

=============================================================================
