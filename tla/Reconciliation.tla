--------------------------- MODULE Reconciliation ---------------------------
(***************************************************************************)
(* The life of one lineage group (apps/api/service.py): the sources deliver*)
(* observations, runs reconcile what has arrived, approved corrections come*)
(* back as a new booking revision.  Every step is a transaction of its own,*)
(* and Inbox shows that concurrent ones are as good as one after the other.*)
(***************************************************************************)
EXTENDS Engine, Oracle

CONSTANTS
    Feed,               \* what the sources may send
    CorrectionIds,      \* identifiers drawn for corrections
    CorrectionTimes,    \* the clock when they are made
    Bounds,             \* bound: which deliveries may meet, and how many rows are kept of them
    MaxWait,            \* bound: seconds between the watermark and an evaluation
    VerificationModes   \* changed_fields, readback_available, original_break_remaining

ASSUME FeedAssumption ==
    /\ Feed \subseteq Observation
    /\ CorrectionIds \subseteq Nat \ {0}
    /\ CorrectionIds \cap Ids(Feed) = {}
    /\ CorrectionTimes \subseteq Nat
    /\ Bounds \subseteq [deliveries : SUBSET Feed, rows : Nat]
    /\ MaxWait \in Nat
    /\ VerificationModes \subseteq (SUBSET {"book_id"}) \X BOOLEAN \X BOOLEAN

VARIABLES
    inbox,      \* source_event_inbox
    conflicts,  \* source_event_conflicts
    report      \* the breaks of the last run that a case may be opened on

vars == <<inbox, conflicts, report>>

\* The approved value that a base_amount break leads to, or NULL.
Report == [trade_id : Trades, approved_value : Nat] \cup {NULL}

\* Every row is an observation, the inbox has one row per source identity and
\* version, and the quarantine one per portfolio and identifier.
TypeOK ==
    /\ inbox \subseteq Observation /\ conflicts \subseteq Observation
    /\ \A o, p \in inbox : identity_key(o) = identity_key(p) => o = p
    /\ \A o, p \in conflicts : conflict_key(o) = conflict_key(p) => o = p
    /\ report \in Report

Init == inbox = {} /\ conflicts = {} /\ report = NULL

-----------------------------------------------------------------------------
Group   == [inbox |-> inbox, conflicts |-> conflicts]
Sources == NotSuperseded(inbox \cup conflicts)
Verdict == _reconcile_lineage_group(Group)
TradeId == MostCommonKey(Group, Sources)

Facts(verdict) ==
    UNION {{<<b.family, comparison.field>> : comparison \in b.comparisons} : b \in verdict.breaks}

\* Slip: the inbox is not consulted.
IngestBlindly(o) == inbox' = inbox \cup {o} /\ UNCHANGED conflicts

\* ingest_observations(on_conflict="quarantine") of one delivery: new, a replay, a
\* conflict, or one under the identifier of what it conflicts with, for which the
\* conflict cannot be built and the transaction rolls back.
ingest_observations(o) ==
    LET existing == {p \in inbox : identity_key(p) = identity_key(o)} IN
    \/ existing = {} /\ inbox' = inbox \cup {o} /\ UNCHANGED conflicts
    \/ /\ \E p \in existing : content_hash(p) = content_hash(o)
       /\ UNCHANGED <<inbox, conflicts>>
    \/ /\ \E p \in existing :
             content_hash(p) # content_hash(o) /\ p.observation_id # o.observation_id
       /\ conflicts' = IF \E q \in conflicts : conflict_key(q) = conflict_key(o)
                         THEN conflicts ELSE conflicts \cup {o}
       /\ UNCHANGED inbox
    \/ /\ \E p \in existing :
             content_hash(p) # content_hash(o) /\ p.observation_id = o.observation_id
       /\ UNCHANGED <<inbox, conflicts>>

Deliver ==
    LET kept == {p \in inbox \cup conflicts : p \in Feed} IN
    \E bound \in Bounds :
        /\ Cardinality(kept) < bound.rows /\ kept \subseteq bound.deliveries
        /\ \E o \in bound.deliveries : ingest_observations(o)
        /\ UNCHANGED report

\* run_reconciliation: an exception rolls back and leaves what was reported
\* before; else a case is opened on the base_amount comparison of the breaks,
\* whose expected operand is in the group.
run_reconciliation ==
    /\ inbox # {}
    /\ report' = IF Verdict.result = "ERROR" THEN report
                 ELSE IF <<"ECONOMIC_VALUE_MISMATCH", "base_amount">> \in Facts(Verdict)
                   THEN [ trade_id |-> TradeId,
                          approved_value |->
                              _resolved_observation(Sources, TradeId).value["base_amount"] ]
                   ELSE NULL
    /\ UNCHANGED <<inbox, conflicts>>

\* A candidate for the correction.
IsBookingOf(o, trade_id) ==
    o.observation_kind = "BOOKING" /\ o.source_business_key = trade_id

\* The new revision copies the newest booking but for the approved value.
CorrectedObservation(latest, id, now, approved_value) ==
    [ latest EXCEPT !.observation_id = id, !.ingest_time = now,
                    !.source_version = @ + 1,
                    !.source_sequence = @ + 1,
                    !.supersedes_observation_id = latest.observation_id,
                    !.value["base_amount"] = approved_value ]

\* No booking, no correction: the ValueError changes nothing.
ingest_corrected_booking_observation ==
    /\ report # NULL
    /\ \E id \in CorrectionIds \ Ids(inbox), now \in CorrectionTimes, latest \in inbox :
          /\ IsBookingOf(latest, report.trade_id)
          /\ \A p \in inbox : IsBookingOf(p, report.trade_id) =>
                p.source_version <= latest.source_version
          /\ inbox' = inbox \cup {CorrectedObservation(latest, id, now, report.approved_value)}
    /\ report' = NULL
    /\ UNCHANGED conflicts

Next == Deliver \/ run_reconciliation \/ ingest_corrected_booking_observation

Spec == Init /\ [][Next]_vars

-----------------------------------------------------------------------------
\* The verifications that an action adapter may supply for the group's bookings.
Verifications ==
    LET bookings == {o \in Sources : o.observation_kind = "BOOKING"}
        supplied ==
            { [ pre_action |-> pre, post_action |-> post, changed_fields |-> mode[1],
                readback_available |-> mode[2], original_break_remaining |-> mode[3] ] :
              pre \in bookings, post \in bookings \cup {NULL}, mode \in VerificationModes }
    IN  {v \in supplied : validate_action_observations(v)}

\* Whatever has arrived, in whatever revisions, replays and conflicts, and
\* whenever it is evaluated: unless the engine raises or there is one
\* observation only, it reports the families and fields that the independent
\* oracle expects (packages/oracle/README.md: parity across the families).
OracleAgrees ==
    _locked_source_set(Sources) /\ Cardinality(Sources) > 1 =>
        LET now   == Context(Sources, TradeId)
            waits == {[now EXCEPT !.wait = wait] : wait \in 0..MaxWait}
            after == {[now EXCEPT !.verification = v] : v \in Verifications}
        IN  \A c \in waits \cup after :
              LET outcome == run(c) IN
              outcome.result = "ERROR" \/ Facts(outcome) = evaluate(c)

\* A correction mends and breaks nothing else: as long as the approved value is
\* still the authoritative one, the next run reports no break that was not there
\* before, and a base_amount break only if some other source or a quarantined
\* booking disagrees (service.py, ingest_corrected_booking_observation and the
\* supersession filter of _reconcile_lineage_group).  This takes that the trade is
\* still the most common key, that no other booking was the authority, which the
\* next version would take over, that the correction is made while the config is in
\* effect, and that no delivery that conflicts with the corrected one was sent
\* twice, whose copies would be the first two that are left.
CorrectionOnlyMends ==
    [][ \A o \in inbox' \ inbox :
          LET later       == [inbox |-> inbox', conflicts |-> conflicts']
              authority   == _resolved_observation(Sources, TradeId)
              amount(p)   == p.value["base_amount"]
              corrects(p) == p.observation_id = o.supersedes_observation_id
              rivals      == { p \in Sources : /\ ~ corrects(p)
                                 /\ IsBookingOf(p, o.source_business_key)
                                 /\ p.source_version + 1 = o.source_version }
              after       == _reconcile_lineage_group(later)
          IN  /\ o.observation_id \in CorrectionIds
              /\ Verdict.result # "ERROR"
              /\ amount(o) = amount(authority)
              /\ IsEffective(o.ingest_time)
              /\ MostCommonKey(later, NotSuperseded(inbox' \cup conflicts')) = TradeId
              /\ authority.observation_kind = "BOOKING" => corrects(authority)
              /\ \A p, q \in rivals : content_hash(p) = content_hash(q) => p = q
              => /\ after.result # "ERROR"
                 /\ Facts(after) \subseteq Facts(Verdict)
                 /\ \/ <<"ECONOMIC_VALUE_MISMATCH", "base_amount">> \notin Facts(after)
                    \/ \E p \in Sources : ~ corrects(p) /\ amount(p) # amount(authority)
      ]_<<inbox, conflicts>>

\* A late or older revision never takes the canonical fields back: while the
\* trade is the same, the authoritative observation moves only to a more trusted
\* source or a newer version (assembler.py, _resolved_observation).
AuthorityNeverRegresses ==
    [][ LET later == [inbox |-> inbox', conflicts |-> conflicts']
            S     == NotSuperseded(inbox' \cup conflicts')
            old   == _resolved_observation(Sources, TradeId)
            new   == _resolved_observation(S, TradeId)
        IN  /\ _locked_source_set(Sources) /\ _locked_source_set(S)
            /\ MostCommonKey(later, S) = TradeId
            => \/ _OBSERVATION_RANK[new.observation_kind] < _OBSERVATION_RANK[old.observation_kind]
               \/ /\ new.observation_kind = old.observation_kind
                  /\ new.source_version >= old.source_version ]_<<inbox, conflicts>>

\* The lineages that make the whole run raise, and no others do.

\* Every observation is superseded, by revisions that supersede each other.
NothingLeft == Sources = {}

\* Two records arrived under one identifier, in different versions or keys.
AmbiguousIdentity == \E o, p \in Sources : o # p /\ o.observation_id = p.observation_id

\* The lineage spans two portfolios or correlations.
MixedScope ==
    \E o, p \in Sources :
        o.portfolio_id # p.portfolio_id \/ o.correlation_id # p.correlation_id

\* Everything arrived before the configuration takes effect, or something after.
NotEffective ==
    \/ Sources # {} /\ \A o \in Sources : o.ingest_time < effective_from
    \/ effective_to # NULL /\ \E o \in Sources : o.ingest_time >= effective_to

\* The payloads name more than eight trades.
TooManyCandidates == Cardinality({o.source_trade_id : o \in Sources}) > 8

\* Every business key says one trade, and a payload or product says another.
ContradictsLinkage ==
    \/ /\ _linkage_decision(Sources, TradeId).decision = "ACCEPTED"
       /\ \E o \in Sources : o.source_trade_id # TradeId
    \/ Cardinality({o.product_type : o \in Sources}) > 1

\* A pending confirmation of a trade that was captured, while no execution has
\* arrived: both operands read CAPTURED.
PendingWithoutExecution ==
    LET of(kind) == {o \in Sources : o.observation_kind = kind}
        unconfirmed == {o \in of("CONFIRMATION") : o.lifecycle_status # "CONFIRMED"}
    IN  /\ of("EXECUTION") = {} /\ of("TRADE_CAPTURE") # {}
        /\ \A o \in of("TRADE_CAPTURE") : o.lifecycle_status = "CAPTURED"
        /\ unconfirmed # {} /\ FirstOf(unconfirmed).lifecycle_status = "CAPTURED"

\* A conflicting delivery was sent twice and both copies sort first.
RetransmittedConflict ==
    \E group \in ConflictGroups(Sources) :
        \E o, p \in group :
            /\ o # p /\ content_hash(o) = content_hash(p)
            /\ \A q \in group \ {o, p} : Before(o, q) /\ Before(p, q)

\* A lineage makes the run of every trade fail for these reasons and no other: but
\* for the last two, no combination of missing, late, revised, conflicting or mended
\* observations gets the engine to build a break that the contracts refuse.
OnlyKnownFailures ==
    inbox # {} =>
        ( Verdict.result = "ERROR" <=>
            \/ NothingLeft
            \/ AmbiguousIdentity
            \/ MixedScope
            \/ NotEffective
            \/ TooManyCandidates
            \/ ContradictsLinkage
            \/ PendingWithoutExecution
            \/ RetransmittedConflict )

-----------------------------------------------------------------------------
\* ADR-002: the same source business key and version with non-identical content
\* is a DUPLICATE_SOURCE_CONFLICT; service.py: reconciliation must see the
\* quarantined deliveries to raise it.  It does, but for a conflicting delivery
\* that is sent again: the engine compares the two copies, and the run fails.
ConflictsAreReported ==
    ConflictGroups(Sources) # {} =>
        <<"DUPLICATE_SOURCE_CONFLICT", "content_hash">> \in Facts(Verdict)

=============================================================================
