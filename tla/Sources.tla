------------------------------- MODULE Sources -------------------------------
(***************************************************************************)
(* Source observations as the reconciliation engine and the oracle read    *)
(* them: packages/contracts/models.py and packages/reconciliation/config.py*)
(*                                                                         *)
(* One lineage group of one tenant.  Identifiers are naturals so that they *)
(* can be ordered; 0 is no observation.  A field holds a natural: a decimal*)
(* in units of its last digit, or the number of a currency, side or date.  *)
(* Times are in seconds.                                                   *)
(***************************************************************************)
EXTENDS Integers, FiniteSets

Kinds == {"EXECUTION", "TRADE_CAPTURE", "CONFIRMATION", "BOOKING"}

\* MissingSourceKind
RequiredKinds == Kinds \ {"TRADE_CAPTURE"}

CurrencyFields == {"base_currency", "terms_currency", "side"}
EconomicFields == {"base_amount", "terms_amount", "quoted_rate"}
DateFields     == {"trade_date", "value_date"}
Fields         == CurrencyFields \cup EconomicFields \cup DateFields

CONSTANTS
    Trades,             \* trade identifiers: business keys and payload references
    Products,           \* product_type with its settlement_rule_version
    window_seconds,     \* arrival_windows: [RequiredKinds -> Nat]
    tolerance,          \* decimal_tolerances: [EconomicFields -> Tolerances]
    effective_from,     \* the interval in which the configuration is in effect,
    effective_to,       \* whose end may be open: NULL
    NULL

\* BreakTolerance; a relative tolerance is the fraction value / per.
Tolerances ==
    [mode : {"NONE", "ABSOLUTE_DECIMAL", "RELATIVE_DECIMAL"}, value : Nat, per : Nat \ {0}]

ASSUME ConfigAssumption ==
    /\ window_seconds \in [RequiredKinds -> Nat]
    /\ tolerance \in [EconomicFields -> Tolerances]
    /\ effective_from \in Nat
    /\ effective_to # NULL => effective_to \in Nat /\ effective_from < effective_to

\* The statuses that each payload contract admits.
LifecycleStatus ==
    [ EXECUTION     |-> {"NEW", "AMENDED", "CANCELLED"},
      TRADE_CAPTURE |-> {"CAPTURED", "AMENDED", "CANCELLED"},
      CONFIRMATION  |-> {"CAPTURED", "CONFIRMED", "AMENDED", "CANCELLED"},
      BOOKING       |-> {"BOOKED", "AMENDED", "CANCELLED"} ]

\* lifecycle_expected_statuses, alike in _default_lifecycle_rules and in
\* _fixture_oracle_config
lifecycle_rule ==
    [ EXECUTION |-> "NEW", TRADE_CAPTURE |-> "CAPTURED",
      CONFIRMATION |-> "CONFIRMED", BOOKING |-> "BOOKED" ]

\* An ObservationEnvelope with its payload.  record stands for what is specific
\* to a kind and compared by nobody (execution_id, booking_record_id, ...).
Observation ==
    { o \in [ observation_id : Nat \ {0}, observation_kind : Kinds,
              source_business_key : Trades, source_version : Nat \ {0},
              source_sequence : Nat, supersedes_observation_id : Nat,
              portfolio_id : Nat, correlation_id : Nat, ingest_time : Nat,
              source_trade_id : Trades, product_type : Products,
              lifecycle_status : UNION {LifecycleStatus[k] : k \in Kinds},
              record : Nat, value : [Fields -> Nat] ] :
        o.lifecycle_status \in LifecycleStatus[o.observation_kind] }

\* compute_observation_content_hash: everything but what belongs to the delivery,
\* which is its identity, its correlation and its time.
content_hash(o) == [o EXCEPT !.observation_id = 0, !.correlation_id = 0, !.ingest_time = 0]

\* The source identity and version under which deliveries are replays or
\* conflicts of each other.
identity_key(o) ==
    <<o.portfolio_id, o.observation_kind, o.source_business_key, o.source_version>>

\* source_event_conflicts_identity_key, under which the quarantine has one row.
conflict_key(o) == <<o.portfolio_id, o.observation_id>>

Ids(S) == {o.observation_id : o \in S}

\* A LinkageDecision and the number of its candidate links.
LinkageDecision ==
    [ decision : {"ACCEPTED", "REJECTED", "UNMATCHED", "AMBIGUOUS", "CROSS_SCOPE_REJECTED"},
      chosen_trade_id : Trades \cup {NULL}, candidates : Nat ]

ASSUME NullAssumption == NULL \notin LinkageDecision

-----------------------------------------------------------------------------
_OBSERVATION_RANK == [EXECUTION |-> 1, TRADE_CAPTURE |-> 2, CONFIRMATION |-> 3, BOOKING |-> 4]

\* The order of _ordered_observations, in which observation_id decides last.
Before(o, p) ==
    LET key(q) == <<_OBSERVATION_RANK[q.observation_kind], q.source_sequence, q.observation_id>>
        a == key(o)
        b == key(p)
    IN  \/ a[1] < b[1]
        \/ a[1] = b[1] /\ a[2] < b[2]
        \/ a[1] = b[1] /\ a[2] = b[2] /\ a[3] < b[3]

\* _ordered_observations(S)[0]
FirstOf(S) == CHOOSE o \in S : \A p \in S \ {o} : Before(o, p)

\* Deliveries of one source identity and version that do not say the same.  The
\* engine leaves out the portfolio, which is one in an accepted group.
ConflictGroups(S) ==
    { group \in {{p \in S : identity_key(p) = identity_key(o)} : o \in S} :
        Cardinality({content_hash(p) : p \in group}) >= 2 }

=============================================================================
