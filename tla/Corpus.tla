------------------------------- MODULE Corpus -------------------------------
(***************************************************************************)
(* The synthetic corpus (packages/generator/core.py) and what becomes of   *)
(* it: generate_corpus builds the four observations of a trade, mutates    *)
(* them as planned and writes into the truth ledger what it did;           *)
(* load_demo_corpus (apps/api/service.py) ingests them; runs and           *)
(* corrections follow as in Reconciliation.                                *)
(*                                                                         *)
(* One scenario, which is one lineage group: the others of the corpus share*)
(* no identifier with it.  What the seed draws at random, the side and the *)
(* order of two opaque identifiers, is part of the plan; the amounts enter *)
(* by their differences only.  That some late deliveries arrive five       *)
(* minutes later is left out: the engine reads ingest_time only to see that*)
(* the configuration is in effect, which it is from before the corpus on.  *)
(***************************************************************************)
EXTENDS Reconciliation, SequencesExt

CONSTANTS trade, alternate      \* trade_id, and the identifier that is not it

ASSUME CorpusAssumption ==
    /\ {trade, alternate} \subseteq Trades /\ trade # alternate
    /\ Products = {"FX_SPOT", "FX_FORWARD"}
    /\ effective_from = 0 /\ effective_to = NULL

VARIABLE plan       \* the scenario

corpusVars == <<vars, plan>>

-----------------------------------------------------------------------------
\* MutationSpec; copy tells apart variants that differ in their variant_id only.
MutationSpec(mutation_type, target_kind, field) ==
    [ mutation_type |-> mutation_type, target_kind |-> target_kind, field |-> field,
      out_of_order |-> FALSE, copy |-> 1 ]

OutOfOrder(spec) == [spec EXCEPT !.out_of_order = TRUE]

\* The approved mutations of each family.
_mutation_specs ==
    LET NotBooking == Kinds \ {"BOOKING"}
        missing    == {MutationSpec("MISSING", kind, kind) : kind \in RequiredKinds}
        duplicate(kind) == MutationSpec("DUPLICATE", kind, "content_hash")
        cancel     == MutationSpec("CANCEL", "BOOKING", "lifecycle_status")
    IN
    [ MISSING_REQUIRED_SOURCE |-> missing \cup {OutOfOrder(spec) : spec \in missing},
      AMBIGUOUS_OR_UNMATCHED_LINKAGE |->
        {MutationSpec("UNMATCHED", kind, "trade_id") : kind \in NotBooking} \cup
        {OutOfOrder(MutationSpec("AMBIGUOUS", kind, "trade_id")) : kind \in NotBooking},
      DUPLICATE_SOURCE_CONFLICT |->
        {duplicate(kind) : kind \in Kinds} \cup
        {OutOfOrder(duplicate(kind)) : kind \in {"EXECUTION", "BOOKING"}},
      CURRENCY_PAIR_OR_SIDE_MISMATCH |->
        { MutationSpec("CURRENCY", "EXECUTION", "base_currency"),
          MutationSpec("CURRENCY", "TRADE_CAPTURE", "terms_currency"),
          MutationSpec("SIDE", "CONFIRMATION", "side"),
          MutationSpec("CURRENCY", "BOOKING", "base_currency"),
          MutationSpec("CURRENCY", "EXECUTION", "terms_currency"),
          MutationSpec("SIDE", "TRADE_CAPTURE", "side") },
      ECONOMIC_VALUE_MISMATCH |->
        { MutationSpec("DECIMAL", "EXECUTION", "base_amount"),
          MutationSpec("DECIMAL", "TRADE_CAPTURE", "terms_amount"),
          MutationSpec("DECIMAL", "CONFIRMATION", "quoted_rate"),
          MutationSpec("DECIMAL", "BOOKING", "base_amount"),
          MutationSpec("DECIMAL", "EXECUTION", "terms_amount"),
          MutationSpec("DECIMAL", "TRADE_CAPTURE", "quoted_rate") },
      TRADE_OR_VALUE_DATE_MISMATCH |->
        { MutationSpec("DATE", "EXECUTION", "trade_date"),
          MutationSpec("DATE", "TRADE_CAPTURE", "value_date"),
          MutationSpec("DATE", "CONFIRMATION", "trade_date"),
          MutationSpec("DATE", "BOOKING", "value_date"),
          MutationSpec("DATE", "EXECUTION", "value_date"),
          OutOfOrder(MutationSpec("DATE", "BOOKING", "trade_date")) },
      LIFECYCLE_STATUS_MISMATCH |->
        { MutationSpec(operation, kind, "lifecycle_status") :
            operation \in {"AMEND", "CANCEL"}, kind \in NotBooking },
      POST_ACTION_VERIFICATION_FAILURE |->
        { [MutationSpec("BOOK_ID", "BOOKING", "book_id") EXCEPT !.copy = n] : n \in 1..3 } \cup
        { cancel, [cancel EXCEPT !.copy = 2], OutOfOrder(cancel) } ]

BREAK_FAMILIES == DOMAIN _mutation_specs

\* GeneratorConfig accepts this population only: 24 clean scenarios of each
\* product, which are all alike, and 6 mutations of each family.
clean == MutationSpec("NONE", "NONE", "NONE")

ASSUME GeneratorConfig ==
    \A family \in BREAK_FAMILIES : Cardinality(_mutation_specs[family]) = 6

_family_for_spec(spec) == CHOOSE family \in BREAK_FAMILIES : spec \in _mutation_specs[family]

Plans ==
    [ product : Products, spec : {clean} \cup UNION {_mutation_specs[f] : f \in BREAK_FAMILIES},
      side : {1, 2}, alternate_first : BOOLEAN ]

-----------------------------------------------------------------------------
\* ProductConfig, with numbers for EUR, USD, JPY, GBP and CHF.
EUR == 1
USD == 2
JPY == 3
GBP == 4
CHF == 5

_PRODUCT_CONFIG ==
    [ FX_SPOT    |-> [base_currency |-> EUR, terms_currency |-> USD, value_days |-> 2],
      FX_FORWARD |-> [base_currency |-> USD, terms_currency |-> JPY, value_days |-> 90] ]

\* The two identifiers of a kind; they are fingerprints, so either may be smaller.
BaseId(kind) == 10 * _OBSERVATION_RANK[kind] + 5

AlternateId(p, kind) == IF p.alternate_first THEN BaseId(kind) - 1 ELSE BaseId(kind) + 1

\* The identifier of a correction is drawn afresh, under a prefix of its own.
ASSUME CorrectionIdsAreNew ==
    \A kind \in Kinds :
        {BaseId(kind) - 1, BaseId(kind), BaseId(kind) + 1} \cap CorrectionIds = {}

_kind_payload(kind) ==
    CASE kind = "EXECUTION"     -> "NEW"
      [] kind = "TRADE_CAPTURE" -> "CAPTURED"
      [] kind = "CONFIRMATION"  -> "CONFIRMED"
      [] kind = "BOOKING"       -> "BOOKED"

common_payload(p) ==
    LET config == _PRODUCT_CONFIG[p.product] IN
    [ base_currency |-> config.base_currency, terms_currency |-> config.terms_currency,
      side |-> p.side, base_amount |-> 1000000, terms_amount |-> 1000000,
      quoted_rate |-> 10000, trade_date |-> 1, value_date |-> 1 + config.value_days ]

\* What a source sends of a trade on which all sources agree: one portfolio, one
\* correlation, a minute from one source to the next.
Agreed(p, kind, sequence) ==
    [ observation_id |-> BaseId(kind), observation_kind |-> kind,
      source_business_key |-> trade, source_version |-> 1, source_sequence |-> sequence,
      supersedes_observation_id |-> 0, portfolio_id |-> 1, correlation_id |-> 1,
      ingest_time |-> 60 * (sequence - 1) + 3, source_trade_id |-> trade,
      product_type |-> p.product, lifecycle_status |-> _kind_payload(kind),
      record |-> 1, value |-> common_payload(p) ]

\* The four observations, with _SOURCE_SEQUENCE_BY_KIND.
_build_lifecycle(p) ==
    << Agreed(p, "EXECUTION", 1), Agreed(p, "TRADE_CAPTURE", 2),
       Agreed(p, "BOOKING", 3), Agreed(p, "CONFIRMATION", 4) >>

-----------------------------------------------------------------------------
\* _apply_mutation, by mutation_type.

\* The target under a business key and trade of its own.
Unmatched(o) == [o EXCEPT !.source_business_key = alternate, !.source_trade_id = alternate]

\* A second candidate: a new version for another trade under the same key.
Candidate(p, o) ==
    [ o EXCEPT !.observation_id = AlternateId(p, o.observation_kind), !.source_version = 2,
               !.source_trade_id = alternate, !.record = 2 ]

\* Slip: only the delivery's own identifiers change.
DeliveredAgain(p, o) == [o EXCEPT !.observation_id = AlternateId(p, o.observation_kind)]

\* The same version with another payload identity: a replay if it were the same.
Duplicate(p, o) ==
    [o EXCEPT !.observation_id = AlternateId(p, o.observation_kind), !.record = 2]

\* CURRENCY and SIDE.
Recoded(spec, o) ==
    [ o EXCEPT !.value[spec.field] = CASE spec.field = "side"           -> 3 - @
                                       [] spec.field = "base_currency"  -> GBP
                                       [] spec.field = "terms_currency" -> CHF ]

\* 1000.00 of the base amount, 1.00 of the terms amount, 0.0100 of the rate.
Restated(spec, o) ==
    [o EXCEPT !.value[spec.field] = @ + (IF spec.field = "base_amount" THEN 100000 ELSE 100)]

\* Slip: the new value date counts from the old one.
RedatedFromValueDate(spec, o) ==
    [ o EXCEPT !.value[spec.field] =
        IF spec.field = "trade_date" THEN @ + 1
        ELSE @ + (IF o.product_type = "FX_SPOT" THEN 3 ELSE 91) ]

\* The day after the trade date, or a day more than the product's value date.
Redated(spec, o) ==
    [ o EXCEPT !.value[spec.field] =
        IF spec.field = "trade_date" THEN @ + 1
        ELSE o.value["trade_date"] + (IF o.product_type = "FX_SPOT" THEN 3 ELSE 91) ]

\* The kind's own type and status fields move along.
_set_lifecycle(spec, o) ==
    [o EXCEPT !.lifecycle_status = IF spec.mutation_type = "AMEND" THEN "AMENDED" ELSE "CANCELLED"]

\* book_id is compared by nobody.
Rebooked(o) == [o EXCEPT !.record = 2]

\* The target as it is sent; MISSING, AMBIGUOUS and DUPLICATE leave it alone.
Target(spec, o) ==
    CASE spec.mutation_type = "UNMATCHED"             -> Unmatched(o)
      [] spec.mutation_type \in {"CURRENCY", "SIDE"}  -> Recoded(spec, o)
      [] spec.mutation_type = "DECIMAL"               -> Restated(spec, o)
      [] spec.mutation_type = "DATE"                  -> Redated(spec, o)
      [] spec.mutation_type \in {"AMEND", "CANCEL"}   -> _set_lifecycle(spec, o)
      [] spec.mutation_type = "BOOK_ID"               -> Rebooked(o)
      [] OTHER                                        -> o

\* The deliveries of a scenario in their order.  Out of order, the target comes
\* last, if it is there: after the delivery that contradicts it, if there is one.
_apply_mutation(p, base) ==
    LET spec    == p.spec
        place   == CHOOSE n \in 1..4 : base[n].observation_kind = spec.target_kind
        target  == Target(spec, base[place])
        changed == ReplaceAt(base, place, target)
        all     == CASE spec.mutation_type = "AMBIGUOUS" -> Append(changed, Candidate(p, target))
                     [] spec.mutation_type = "DUPLICATE" -> Append(changed, Duplicate(p, target))
                     [] OTHER                            -> changed
    IN  IF spec.mutation_type = "MISSING" THEN RemoveAt(base, place)
        ELSE IF spec.out_of_order THEN Append(RemoveAt(all, place), target)
        ELSE all

\* generate_corpus, of one plan.
Generated(p) ==
    IF p.spec = clean THEN _build_lifecycle(p) ELSE _apply_mutation(p, _build_lifecycle(p))

\* The FxPayload contract, and the statuses of each kind's.
_validate_settlement_window(o) ==
    LET days == o.value["value_date"] - o.value["trade_date"] IN
    /\ days >= 0
    /\ o.product_type = "FX_FORWARD" => days > 0
    /\ o.product_type = "FX_SPOT" => days <= 4

_validate_sources(source) ==
    \A o \in ToSet(source) :
        /\ o \in Observation
        /\ o.value["base_currency"] # o.value["terms_currency"]
        /\ _validate_settlement_window(o)

-----------------------------------------------------------------------------
\* The truth ledger.

\* The deliveries that a difference fact of the ledger refers to.
FactSources(p) ==
    LET kind == p.spec.target_kind IN
    CASE p.spec.mutation_type = "MISSING"                  -> {}
      [] p.spec.mutation_type \in {"AMBIGUOUS", "DUPLICATE"} -> {BaseId(kind), AlternateId(p, kind)}
      [] OTHER                                             -> {BaseId(kind)}

\* expected_difference_facts, each as its family and field.
_mutated_truth(p) ==
    IF p.spec = clean THEN {} ELSE {<<_family_for_spec(p.spec), p.spec.field>>}

\* Slip: the observations are taken before the mutation adds one.
MutatedBeforeAppending(p) == {BaseId(p.spec.target_kind)}

\* The observations that the mutation node points to.
MutatesObservation(p) ==
    {o.observation_id : o \in {q \in ToSet(Generated(p)) : q.observation_kind = p.spec.target_kind}}

\* The nodes of the provenance graph; one delivery stands for all behaviours.
Node(name)   == <<name>>
Observed(id) == <<"observation", id>>

\* Its edges, from the cause to the break.  A missing delivery is an absence, and
\* a fact that refers to no delivery comes from the mutation itself.
_provenance_graph(p) ==
    LET sent     == Ids(ToSet(Generated(p)))
        supports == FactSources(p) \cap sent
        missing  == p.spec.mutation_type = "MISSING"
        absence  == {<<Node("mutation"), Node("absence")>>, <<Node("delivery"), Node("absence")>>}
    IN  UNION
        { {<<Node("cause"), Node("mutation")>>, <<Node("mutation"), Node("delivery")>>},
          IF missing THEN absence ELSE {},
          IF ~ missing \/ p.spec.out_of_order THEN {<<Node("delivery"), Observed(id)>> : id \in sent}
                                              ELSE {},
          {<<Node("mutation"), Observed(id)>> : id \in MutatesObservation(p)},
          IF supports = {} THEN {<<Node("mutation"), Node("fact")>>}
                           ELSE {<<Observed(id), Node("fact")>> : id \in supports},
          {<<Node("fact"), Node("break")>>} }

-----------------------------------------------------------------------------
CorpusInit == Init /\ plan \in Plans

\* Slip: the inbox is not consulted.
KeepAll(rows, o) == [rows EXCEPT !.inbox = @ \cup {o}]

\* Slip: the latest delivery is the authoritative one.
LatestWins(rows, o) ==
    LET existing == {q \in rows.inbox : identity_key(q) = identity_key(o)} IN
    [ inbox     |-> (rows.inbox \ existing) \cup {o},
      conflicts |-> rows.conflicts \cup {q \in existing : content_hash(q) # content_hash(o)} ]

\* ingest_observations(on_conflict="quarantine"), one more of its deliveries.
Ingested(rows, o) ==
    LET existing == {q \in rows.inbox : identity_key(q) = identity_key(o)} IN
    IF existing = {} THEN [rows EXCEPT !.inbox = @ \cup {o}]
    ELSE IF \/ \E q \in existing : content_hash(q) = content_hash(o)
            \/ \E q \in rows.conflicts : conflict_key(q) = conflict_key(o) THEN rows
    ELSE [rows EXCEPT !.conflicts = @ \cup {o}]

\* It raises when it conflicts with a row of its own identifier.
Refused(rows, o) ==
    \E q \in rows.inbox :
        /\ identity_key(q) = identity_key(o) /\ q.observation_id = o.observation_id
        /\ content_hash(q) # content_hash(o)

\* The whole corpus in one transaction; one that does not validate is not loaded.
load_demo_corpus ==
    LET sent == Generated(plan)
        rows == FoldLeft(Ingested, [inbox |-> inbox, conflicts |-> conflicts], sent)
    IN  /\ _validate_sources(sent)
        /\ \A o \in ToSet(sent) : ~ Refused(rows, o)
        /\ inbox' = rows.inbox /\ conflicts' = rows.conflicts
        /\ UNCHANGED <<report, plan>>

CorpusNext ==
    \/ load_demo_corpus
    \/ run_reconciliation /\ UNCHANGED plan
    \/ ingest_corrected_booking_observation /\ UNCHANGED plan

CorpusSpec == CorpusInit /\ [][CorpusNext]_corpusVars

-----------------------------------------------------------------------------
\* Slip: the quarantine is left out.
RerunInboxOnly ==
    [inbox |-> {o \in inbox : _eligible_for_trade(o, TradeId)}, conflicts |-> {}]

\* What rerun_trade_reconciliation selects.
RerunGroup ==
    [ inbox     |-> {o \in inbox : _eligible_for_trade(o, TradeId)},
      conflicts |-> {o \in conflicts : _eligible_for_trade(o, TradeId)} ]

Corrected == \E o \in inbox : o.observation_id \in CorrectionIds

\* What a run reports of a scenario: the ledger's fact, except that it has no
\* action to verify, so the cancelled booking is a lifecycle mismatch and the
\* wrong book is not seen; and nothing once the booking that was off is mended.
ExpectedFacts ==
    CASE plan.spec.mutation_type = "BOOK_ID" -> {}
      [] plan.spec.target_kind = "BOOKING" /\ plan.spec.mutation_type = "CANCEL" ->
           {<<"LIFECYCLE_STATUS_MISMATCH", "lifecycle_status">>}
      [] plan.spec.target_kind = "BOOKING" /\ Corrected -> {}
      [] OTHER -> _mutated_truth(plan)

\* Every generated observation satisfies the contracts, so they never keep the
\* corpus from being loaded, whatever is mutated (generate_corpus: "contract-validate
\* the complete 144-scenario population").
GeneratedIsValid == _validate_sources(Generated(plan))

\* Through ingest, quarantine, linkage, assembly and engine, and through
\* reloads and corrections, every scenario is reported with one break that shows
\* its mutated field, and nothing else is: 2 x (7 x 6 + 3) = 90 broken trades of
\* 144 (tests/integration/test_product_e2e.py).
CorpusIsDetected ==
    inbox # {} => /\ Facts(Verdict) = ExpectedFacts
                  /\ Cardinality(Verdict.breaks) = Cardinality(ExpectedFacts)
                  /\ Verdict.result # "ERROR"

\* Loading the corpus again changes no row, conflicting deliveries, late ones and
\* corrections in between included (load_demo_corpus: "Re-running this is safe").
ReloadChangesNothing ==
    [][ inbox # {} /\ load_demo_corpus => UNCHANGED <<inbox, conflicts>> ]_corpusVars

\* The scoped rerun after a correction finds what the next full run finds, although
\* it selects by business key or payload and not by lineage; only a delivery under
\* a foreign key escapes it, and then it reports that source as missing or nothing.
RerunSeesTheSame ==
    inbox # {} =>
        LET rerun == Facts(_reconcile_lineage_group(RerunGroup)) IN
        IF plan.spec.mutation_type = "UNMATCHED"
          THEN rerun = { <<"MISSING_REQUIRED_SOURCE", kind>> :
                           kind \in {plan.spec.target_kind} \cap RequiredKinds }
          ELSE rerun = Facts(Verdict)

\* The chain from cause to break of the truth ledger (ADR-006) holds: a fact rests
\* on deliveries of this scenario that the mutation made, all of them, or on the
\* mutation itself when the delivery is missing.
ProvenanceIsComplete ==
    plan.spec # clean =>
        LET edges   == _provenance_graph(plan)
            into(n) == {e[1] : e \in {d \in edges : d[2] = n}}
            missing == plan.spec.mutation_type = "MISSING"
        IN  /\ into(Node("fact")) # {}
            /\ \A n \in into(Node("fact")) \ {Node("mutation")} :
                  into(n) = {Node("mutation"), Node("delivery")}
            /\ Node("mutation") \in into(Node("fact")) <=> missing
            /\ into(Node("absence")) # {} <=> missing
            /\ FactSources(plan) \subseteq Ids(ToSet(Generated(plan)))

=============================================================================
