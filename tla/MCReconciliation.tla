-------------------------- MODULE MCReconciliation --------------------------
(***************************************************************************)
(* Small instances of Reconciliation for TLC.                              *)
(***************************************************************************)
EXTENDS Reconciliation

CONSTANTS t, u, spot, forward

Agreed == [f \in Fields |-> 100]

\* The observation a kind sends when nothing is wrong.
Clean(id, kind) ==
    [ observation_id |-> id, observation_kind |-> kind, source_business_key |-> t,
      source_version |-> 1, source_sequence |-> _OBSERVATION_RANK[kind],
      supersedes_observation_id |-> 0, portfolio_id |-> 1, correlation_id |-> 1,
      ingest_time |-> 1, source_trade_id |-> t, product_type |-> spot,
      lifecycle_status |-> lifecycle_rule[kind], record |-> 1, value |-> Agreed ]

Off(field, by) == [Agreed EXCEPT ![field] = @ + by]

OneSecond == [k \in RequiredKinds |-> IF k = "CONFIRMATION" THEN 1 ELSE 0]

Cents == [ base_amount  |-> [mode |-> "ABSOLUTE_DECIMAL", value |-> 1, per |-> 1],
           terms_amount |-> [mode |-> "RELATIVE_DECIMAL", value |-> 1, per |-> 50],
           quoted_rate  |-> [mode |-> "NONE", value |-> 0, per |-> 1] ]

\* Executions: as agreed, a newer version that supersedes it and a conflicting
\* delivery of that version that does not.
Executions ==
    { Clean(10, "EXECUTION"),
      [Clean(12, "EXECUTION") EXCEPT !.source_version = 2, !.supersedes_observation_id = 10,
                                     !.value = Off("base_amount", 2)],
      [Clean(11, "EXECUTION") EXCEPT !.source_version = 2, !.lifecycle_status = "AMENDED",
                                     !.record = 2, !.value = Off("side", 1)] }

Captures ==
    { Clean(20, "TRADE_CAPTURE"),
      [Clean(21, "TRADE_CAPTURE") EXCEPT !.source_version = 2, !.lifecycle_status = "CANCELLED",
                                         !.value = Off("value_date", 1)],
      [Clean(22, "TRADE_CAPTURE") EXCEPT !.source_version = 3, !.source_trade_id = u] }

\* Confirmations: as agreed, the same again with other content under the same
\* identifier, which is refused, a pending one and one of another trade.
Confirmations ==
    { Clean(30, "CONFIRMATION"),
      [Clean(30, "CONFIRMATION") EXCEPT !.record = 2],
      [Clean(31, "CONFIRMATION") EXCEPT !.source_version = 2, !.lifecycle_status = "CAPTURED",
                                        !.value = Off("terms_amount", 2)],
      [Clean(32, "CONFIRMATION") EXCEPT !.source_business_key = u, !.source_trade_id = u,
                                        !.lifecycle_status = "CAPTURED"] }

\* Bookings: within and outside the tolerance, a conflict and its retransmission,
\* and a booking of another product.
Bookings ==
    { [Clean(41, "BOOKING") EXCEPT !.value = Off("base_amount", 2)],
      [Clean(40, "BOOKING") EXCEPT !.value = Off("base_amount", 1)],
      [Clean(39, "BOOKING") EXCEPT !.value = Off("base_amount", 1)],
      [Clean(42, "BOOKING") EXCEPT !.source_version = 2, !.supersedes_observation_id = 41,
                                   !.lifecycle_status = "CANCELLED",
                                   !.value = Off("quoted_rate", 1)],
      [Clean(43, "BOOKING") EXCEPT !.source_version = 3, !.product_type = forward] }

\* Nine captures of one trade, each naming another.
Contenders ==
    { [Clean(20 + n, "TRADE_CAPTURE") EXCEPT !.source_version = n, !.source_trade_id = n] :
        n \in 1..9 }

\* Deliveries that the assembler or the engine does not accept: too early, under
\* an identifier in use, of another correlation or portfolio, and too late; and a
\* booking to correct.
Unruly ==
    { [Clean(10, "EXECUTION") EXCEPT !.ingest_time = 0],
      [Clean(10, "EXECUTION") EXCEPT !.source_version = 2, !.ingest_time = 0],
      [Clean(41, "BOOKING") EXCEPT !.correlation_id = 2],
      [Clean(40, "BOOKING") EXCEPT !.portfolio_id = 2],
      [Clean(30, "CONFIRMATION") EXCEPT !.ingest_time = 3],
      [Clean(43, "BOOKING") EXCEPT !.source_version = 2, !.value = Off("base_amount", 2)] }

\* Two bookings that supersede each other.
Circular ==
    { [Clean(40, "BOOKING") EXCEPT !.supersedes_observation_id = 41],
      [Clean(41, "BOOKING") EXCEPT !.source_version = 2, !.supersedes_observation_id = 40] }

\* Version 1 of the booking: the delivery, a conflicting one and that one again.
Resent == {o \in Bookings : o.source_version = 1}

ResentOnly == {[deliveries |-> Resent, rows |-> 3]}

Traffic == Executions \cup Captures \cup Confirmations \cup Bookings

Everything == Traffic \cup Contenders \cup Unruly \cup Circular

\* Six rows exceed the four kinds.  The lineages that are meant to fail stay among
\* themselves.
FourFeeds ==
    { [deliveries |-> Traffic, rows |-> 6], [deliveries |-> Contenders, rows |-> 9],
      [deliveries |-> Unruly, rows |-> 6], [deliveries |-> Circular, rows |-> 2] }

Modes ==
    { <<{}, TRUE, FALSE>>, <<{}, TRUE, TRUE>>, <<{}, FALSE, FALSE>>, <<{"book_id"}, TRUE, FALSE>> }

=============================================================================
