------------------------------- MODULE Engine -------------------------------
(***************************************************************************)
(* From the observations of a lineage group to its breaks: the per-trade   *)
(* unit of work of apps/api/service.py, the canonical assembler            *)
(* (packages/persistence/assembler.py) and the reconciliation engine       *)
(* (packages/reconciliation/engine.py).                                    *)
(*                                                                         *)
(* A break is its family and its comparisons; evidence, severity and       *)
(* priority are functions of these and left out.  A comparison names its   *)
(* operands and says whether the two values it shows differ, which the     *)
(* BreakComparison contract insists on.                                    *)
(***************************************************************************)
EXTENDS Sources

\* Slip: every revision is kept.
KeepSuperseded(S) == S

\* What another observation of the group supersedes is left out.
NotSuperseded(S) ==
    {o \in S : \A p \in S : p.supersedes_observation_id # o.observation_id}

\* The order in which the group is read: the inbox by sequence and identifier,
\* then the quarantine by identifier.
ReadBefore(group, o, p) ==
    \/ o \in group.inbox /\ p \notin group.inbox
    \/ /\ o \in group.inbox /\ p \in group.inbox
       /\ \/ o.source_sequence < p.source_sequence
          \/ o.source_sequence = p.source_sequence /\ o.observation_id < p.observation_id
    \/ /\ o \notin group.inbox /\ p \notin group.inbox
       /\ o.observation_id < p.observation_id

\* Counter(source_business_key).most_common(1): of equally frequent keys, the
\* one read first.
MostCommonKey(group, S) ==
    LET keys      == {o.source_business_key : o \in S}
        count(t)  == Cardinality({o \in S : o.source_business_key = t})
        frequent  == {o \in S : \A t \in keys : count(t) <= count(o.source_business_key)}
    IN  (CHOOSE o \in frequent : \A p \in frequent \ {o} : ReadBefore(group, o, p))
            .source_business_key

-----------------------------------------------------------------------------
\* The canonical assembler.

_eligible_for_trade(o, trade_id) ==
    o.source_business_key = trade_id \/ o.source_trade_id = trade_id

\* source_precedence of the packaged policy for every field the engine compares.
source_precedence == <<"EXECUTION", "TRADE_CAPTURE", "CONFIRMATION", "BOOKING">>

\* Slip: versions in ascending order.
OlderFirst(o, p) ==
    \/ o.source_version < p.source_version
    \/ o.source_version = p.source_version /\ o.observation_id < p.observation_id

\* Higher versions supersede lower ones; of a conflict, the smaller identifier.
Preferred(o, p) ==
    \/ o.source_version > p.source_version
    \/ o.source_version = p.source_version /\ o.observation_id < p.observation_id

\* The preferred observation of the most trusted source that knows the trade.
_resolved_observation(S, trade_id) ==
    LET eligible     == {o \in S : _eligible_for_trade(o, trade_id)}
        from(i)      == {o \in eligible : o.observation_kind = source_precedence[i]}
        candidates   == from(CHOOSE i \in 1..4 : from(i) # {} /\ \A j \in 1..(i-1) : from(j) = {})
    IN  CHOOSE o \in candidates : \A p \in candidates \ {o} : Preferred(o, p)

-----------------------------------------------------------------------------
\* The linkage decision that the service derives from the observations.
_linkage_decision(S, trade_id) ==
    LET named == {o.source_trade_id : o \in S} IN
    IF Cardinality(S) > 4 /\ Cardinality(named) > 1
      THEN [decision |-> "AMBIGUOUS", chosen_trade_id |-> NULL, candidates |-> Cardinality(named)]
    ELSE IF \E o \in S : o.source_business_key # trade_id
      THEN [decision |-> "UNMATCHED", chosen_trade_id |-> NULL, candidates |-> 0]
    ELSE [decision |-> "ACCEPTED", chosen_trade_id |-> trade_id, candidates |-> 1]

\* The evidence_hash of candidate n is the number n + 1, written 64 times over,
\* which the contract admits while that number has one digit.
valid_evidence_hashes(linkage) == linkage.candidates <= 8

\* A ReconciliationContext: evaluated wait seconds after the source watermark.
Context(S, trade_id) ==
    [ observations |-> S, trade_id |-> trade_id,
      canonical |-> _resolved_observation(S, trade_id),
      linkage |-> _linkage_decision(S, trade_id), wait |-> 0, verification |-> NULL ]

\* validate_context_scope, for observations of one scope.
validate_context_scope(c) ==
    /\ c.linkage # NULL /\ c.linkage.decision = "ACCEPTED" =>
          \A o \in c.observations : o.source_trade_id = c.trade_id
    /\ \A o \in c.observations : o.product_type = c.canonical.product_type
    /\ c.verification # NULL =>
          /\ c.verification.pre_action \in c.observations
          /\ c.verification.post_action \in c.observations \cup {NULL}

\* PostActionVerification, for bookings of one scope.
validate_action_observations(v) ==
    /\ v.post_action # NULL =>
          v.pre_action.source_business_key = v.post_action.source_business_key
    /\ v.readback_available => v.post_action # NULL

-----------------------------------------------------------------------------
\* The eight families.  Each operator is the set of breaks it adds.

Comparison(field, expected, observed, differ) ==
    [ field |-> field, expected_source |-> expected, observed_source |-> observed,
      differ |-> differ ]

Break(family, comparisons) == [family |-> family, comparisons |-> comparisons]

\* A break with all the comparisons of a family, if there are any.
BreakOf(family, comparisons) ==
    IF comparisons = {} THEN {} ELSE {Break(family, comparisons)}

_missing_source_breaks(c) ==
    { Break("MISSING_REQUIRED_SOURCE",
            {Comparison(kind, 0, FirstOf(c.observations).observation_id, TRUE)}) :
        kind \in { k \in RequiredKinds :
                     /\ \A o \in c.observations : o.observation_kind # k
                     /\ c.wait >= window_seconds[k] } }

_linkage_break(c) ==
    LET observed == FirstOf(c.observations).observation_id
        valid    == /\ c.linkage # NULL
                    /\ c.linkage.decision = "ACCEPTED"
                    /\ c.linkage.chosen_trade_id = c.trade_id
                    /\ c.linkage.candidates = 1
    IN  IF valid THEN {}
        ELSE {Break("AMBIGUOUS_OR_UNMATCHED_LINKAGE",
                    {Comparison("trade_id", observed, observed, TRUE)})}

_duplicate_breaks(c) ==
    { LET expected == FirstOf(group)
          observed == FirstOf(group \ {expected})
      IN  Break("DUPLICATE_SOURCE_CONFLICT",
                {Comparison("content_hash", expected.observation_id, observed.observation_id,
                            content_hash(expected) # content_hash(observed))}) :
      group \in ConflictGroups(c.observations) }

\* Slip: the tolerance is exclusive.
WithinTighter(expected, observed, rule) ==
    LET difference == IF expected < observed THEN observed - expected ELSE expected - observed
    IN  CASE rule.mode = "NONE"             -> difference = 0
          [] rule.mode = "ABSOLUTE_DECIMAL" -> difference < rule.value
          [] rule.mode = "RELATIVE_DECIMAL" -> difference * rule.per <= expected * rule.value

_within_tolerance(expected, observed, rule) ==
    LET difference == IF expected < observed THEN observed - expected ELSE expected - observed
    IN  CASE rule.mode = "NONE"             -> difference = 0
          [] rule.mode = "ABSOLUTE_DECIMAL" -> difference <= rule.value
          [] rule.mode = "RELATIVE_DECIMAL" -> difference * rule.per <= expected * rule.value

Agree(field, expected, observed) ==
    IF field \in EconomicFields THEN _within_tolerance(expected, observed, tolerance[field])
                                ELSE expected = observed

\* For each field, the first observation that disagrees with the authoritative one.
Divergence(c, fields) ==
    LET base == c.canonical
        divergent(f) == { o \in c.observations :
                            /\ o.observation_id # base.observation_id
                            /\ ~ Agree(f, base.value[f], o.value[f]) }
    IN  { Comparison(f, base.observation_id, FirstOf(divergent(f)).observation_id, TRUE) :
            f \in {g \in fields : divergent(g) # {}} }

_currency_breaks(c) ==
    BreakOf("CURRENCY_PAIR_OR_SIDE_MISMATCH", Divergence(c, CurrencyFields))

_economic_breaks(c) == BreakOf("ECONOMIC_VALUE_MISMATCH", Divergence(c, EconomicFields))

_date_break(c) == BreakOf("TRADE_OR_VALUE_DATE_MISMATCH", Divergence(c, DateFields))

\* Slip: the status of the other source is shown even when it is the same.
OtherStatus(expected, observed) == expected.lifecycle_status

\* The expected value of a lifecycle comparison.
ShownStatus(expected, observed) ==
    IF expected.lifecycle_status = observed.lifecycle_status
      THEN lifecycle_rule[expected.observation_kind]
      ELSE expected.lifecycle_status

\* The first observation with a wrong status, compared with the first right one,
\* else with the first that says otherwise, else with any other.
_lifecycle_break(c) ==
    LET S         == c.observations
        right     == {o \in S : o.lifecycle_status = lifecycle_rule[o.observation_kind]}
        observed  == FirstOf(S \ right)
        others    == S \ {observed}
        different == {o \in others : o.lifecycle_status # observed.lifecycle_status}
        expected  == FirstOf(IF right # {} THEN right
                             ELSE IF different # {} THEN different ELSE others)
    IN  IF \/ \E s \in {"AMENDED", "CANCELLED"} : \A o \in S : o.lifecycle_status = s
           \/ S = right
           \/ others = {}
        THEN {}
        ELSE {Break("LIFECYCLE_STATUS_MISMATCH",
                    {Comparison("lifecycle_status", expected.observation_id,
                                observed.observation_id,
                                ShownStatus(expected, observed) # observed.lifecycle_status)})}

\* _POST_ACTION_FIELDS of a booking, book_id excepted: no source disagrees on it.
\* The fingerprint covers the payload; booking_version moves with source_version.
PostActionValue(o) ==
    [ lifecycle_status   |-> o.lifecycle_status,
      booking_version    |-> o.source_version,
      record_fingerprint |-> <<o.record, o.value, o.lifecycle_status, o.source_version>> ]

_post_action_break(c) ==
    LET v       == c.verification
        after   == IF v.post_action = NULL THEN v.pre_action ELSE v.post_action
        changed == v.changed_fields \cup
                   { f \in DOMAIN PostActionValue(after) :
                       PostActionValue(v.pre_action)[f] # PostActionValue(after)[f] }
        shown   == IF changed = {} /\ (~ v.readback_available \/ v.original_break_remaining)
                     THEN {"book_id"} ELSE changed
    IN  IF v = NULL THEN {}
        ELSE BreakOf("POST_ACTION_VERIFICATION_FAILURE",
                     {Comparison(f, v.pre_action.observation_id, after.observation_id, TRUE) :
                        f \in shown})

-----------------------------------------------------------------------------
Breaks(c) ==
    UNION { _missing_source_breaks(c), _linkage_break(c), _duplicate_breaks(c),
            _currency_breaks(c), _economic_breaks(c), _date_break(c),
            _lifecycle_break(c), _post_action_break(c) }

_BREAK_DISTINCT_SOURCE_FAMILIES ==
    { "CURRENCY_PAIR_OR_SIDE_MISMATCH", "DUPLICATE_SOURCE_CONFLICT", "ECONOMIC_VALUE_MISMATCH",
      "TRADE_OR_VALUE_DATE_MISMATCH", "LIFECYCLE_STATUS_MISMATCH" }

\* The BreakComparison and TradeBreak contracts, as far as they depend on data.
validate_break_invariants(b) ==
    \A comparison \in b.comparisons :
        /\ comparison.differ
        /\ b.family \in _BREAK_DISTINCT_SOURCE_FAMILIES =>
              comparison.expected_source # comparison.observed_source

Raised == [result |-> "ERROR", breaks |-> {}]

\* The latest ingest_time of the observations.
source_watermark(S) ==
    CHOOSE time \in {o.ingest_time : o \in S} : \A o \in S : o.ingest_time <= time

\* Slip: the end of the interval is inclusive.
EffectiveAtItsEnd(time) ==
    effective_from <= time /\ (effective_to # NULL => time <= effective_to)

\* The configuration is in effect from its effective_from to before its effective_to.
IsEffective(time) ==
    effective_from <= time /\ (effective_to # NULL => time < effective_to)

\* ReconciliationEngine.run; an evaluation outside the configuration's interval, a
\* refused context and a refused break are exceptions.
run(c) ==
    LET breaks == Breaks(c) IN
    IF /\ validate_context_scope(c)
       /\ IsEffective(source_watermark(c.observations) + c.wait)
       /\ \A b \in breaks : validate_break_invariants(b)
      THEN [result |-> IF breaks = {} THEN "PASS" ELSE "BREAKS_DETECTED", breaks |-> breaks]
      ELSE Raised

\* Slip: the scope is not compared.
UnscopedSourceSet(S) == S # {} /\ Cardinality(Ids(S)) = Cardinality(S)

\* The observations of a group, if the assembler accepts them: at least one, no
\* identifier twice, and all of one portfolio and correlation.
_locked_source_set(S) ==
    /\ S # {}
    /\ Cardinality(Ids(S)) = Cardinality(S)
    /\ \A o, p \in S : o.portfolio_id = p.portfolio_id /\ o.correlation_id = p.correlation_id

_reconcile_lineage_group(group) ==
    LET S       == NotSuperseded(group.inbox \cup group.conflicts)
        context == Context(S, MostCommonKey(group, S))
    IN  IF _locked_source_set(S) /\ valid_evidence_hashes(context.linkage)
          THEN run(context)
          ELSE Raised

=============================================================================
