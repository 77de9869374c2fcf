------------------------------- MODULE Oracle -------------------------------
(***************************************************************************)
(* The independent expected-outcome oracle, packages/oracle/evaluator.py:  *)
(* facts about a context, without the engine's breaks.  A fact is its      *)
(* family and field.                                                       *)
(***************************************************************************)
EXTENDS Sources

Fact(family, field) == <<family, field>>

_missing_source_facts(c) ==
    { Fact("MISSING_REQUIRED_SOURCE", kind) :
        kind \in { k \in RequiredKinds :
                     /\ k \notin {o.observation_kind : o \in c.observations}
                     /\ ~ c.wait < window_seconds[k] } }

_linkage_facts(c) ==
    LET invalid ==
            \/ c.linkage = NULL
            \/ c.linkage.decision
                 \in {"REJECTED", "UNMATCHED", "AMBIGUOUS", "CROSS_SCOPE_REJECTED"}
            \/ c.linkage.chosen_trade_id # c.trade_id
            \/ c.linkage.candidates # 1
    IN  {f \in {Fact("AMBIGUOUS_OR_UNMATCHED_LINKAGE", "trade_id")} : invalid}

_duplicate_facts(c) ==
    {Fact("DUPLICATE_SOURCE_CONFLICT", "content_hash") : group \in ConflictGroups(c.observations)}

\* The observations other than the authoritative one.
Others(c) == {o \in c.observations : o.observation_id # c.canonical.observation_id}

_comparison_facts(c) ==
    { Fact("CURRENCY_PAIR_OR_SIDE_MISMATCH", f) :
        f \in {g \in CurrencyFields : \E o \in Others(c) : o.value[g] # c.canonical.value[g]} }

\* decimal_tolerances of _fixture_oracle_config
OracleWithin(expected, observed, rule) ==
    \/ rule.mode = "NONE" /\ observed = expected
    \/ /\ rule.mode = "ABSOLUTE_DECIMAL"
       /\ observed - expected \in (-rule.value)..rule.value
    \/ /\ rule.mode = "RELATIVE_DECIMAL"
       /\ (observed - expected) * rule.per
             \in (-(expected * rule.value))..(expected * rule.value)

_economic_facts(c) ==
    { Fact("ECONOMIC_VALUE_MISMATCH", f) :
        f \in { g \in EconomicFields : \E o \in Others(c) :
                  ~ OracleWithin(c.canonical.value[g], o.value[g], tolerance[g]) } }

_date_facts(c) ==
    { Fact("TRADE_OR_VALUE_DATE_MISMATCH", f) :
        f \in {g \in DateFields : \E o \in Others(c) : o.value[g] # c.canonical.value[g]} }

_lifecycle_facts(c) ==
    LET statuses == {o.lifecycle_status : o \in c.observations} IN
    { f \in {Fact("LIFECYCLE_STATUS_MISMATCH", "lifecycle_status")} :
        /\ statuses \notin {{"AMENDED"}, {"CANCELLED"}}
        /\ \E o \in c.observations : o.lifecycle_status # lifecycle_rule[o.observation_kind] }

OraclePostActionValue(o) ==
    [ lifecycle_status   |-> o.lifecycle_status,
      booking_version    |-> o.source_version,
      record_fingerprint |-> <<o.record, o.value, o.lifecycle_status, o.source_version>> ]

_post_action_facts(c) ==
    LET v        == c.verification
        readback == { f \in {"lifecycle_status", "booking_version", "record_fingerprint"} :
                        /\ v.post_action # NULL
                        /\ OraclePostActionValue(v.pre_action)[f]
                             # OraclePostActionValue(v.post_action)[f] }
        changed  == v.changed_fields \cup readback
        paths    == IF changed # {} THEN changed
                    ELSE IF ~ v.original_break_remaining /\ v.readback_available THEN {}
                    ELSE {"book_id"}
    IN  IF v = NULL THEN {} ELSE {Fact("POST_ACTION_VERIFICATION_FAILURE", f) : f \in paths}

\* _evaluate_mappings
evaluate(c) ==
    UNION { _missing_source_facts(c), _linkage_facts(c), _duplicate_facts(c),
            _comparison_facts(c), _economic_facts(c), _date_facts(c),
            _lifecycle_facts(c), _post_action_facts(c) }

=============================================================================
