------------------------------- MODULE Policy -------------------------------
(***************************************************************************)
(* The deterministic policy engine of packages/remediation/policy.py and   *)
(* the schema of the recommendation it evaluates (models.py).  The AI      *)
(* provider is external: any recommendation the schema admits may reach    *)
(* the policy.                                                             *)
(*                                                                         *)
(* Abstractions: runbook sections are told apart by the support list they  *)
(* are on; confidence is in tenths, at and on both sides of the threshold; *)
(* the free text of a recommendation is left out.                          *)
(***************************************************************************)
EXTENDS Naturals

CONSTANTS
    Values,     \* the amounts a field may hold, told apart by equality only
    NULL        \* absent value: None in Python, NULL in a column

\* A row, a record or a request field that is absent is not an amount.
ASSUME NullIsNoValue == NULL \notin Values

-----------------------------------------------------------------------------
Fields == {"base_amount", "other_field"}

ALLOWED_PROPOSED_FIELDS == {"base_amount"}

SUPPORTED_FIELD_PATH == "base_amount"

RecommendedActions == {"CORRECT_LEGACY_BOOKING_FIELD", "MANUAL_INVESTIGATION"}

_SUPPORTED_ACTIONS == {"CORRECT_LEGACY_BOOKING_FIELD"}

\* The sections of the runbooks: on the correction action's support list, on
\* manual investigation's, on none.
Sections == {"correction_section", "manual_section", "other_section"}

_SUPPORTING_SECTIONS ==
    [ action \in RecommendedActions |->
        IF action = "CORRECT_LEGACY_BOOKING_FIELD" THEN {"correction_section"}
                                                   ELSE {"manual_section"} ]

CONFIDENCE_THRESHOLD == 7

Confidences == {CONFIDENCE_THRESHOLD - 1, CONFIDENCE_THRESHOLD, CONFIDENCE_THRESHOLD + 1}

PolicyOutcome == {"ELIGIBLE_FOR_APPROVAL", "MANUAL_INVESTIGATION", "REJECTED"}

\* What the model validator of AIRecommendation lets through: a correction
\* names at least one field; a null action (an abstention) names any.
AIRecommendation ==
    { rec \in [ confidence         : Confidences,
                recommended_action : RecommendedActions \cup {NULL},
                citations          : SUBSET Sections,
                proposed_fields    : UNION { [D -> Values] : D \in SUBSET Fields } ] :
        rec.recommended_action = "CORRECT_LEGACY_BOOKING_FIELD"
            => DOMAIN rec.proposed_fields # {} }

\* The facts of one break the policy reads.
BreakFacts == [ field_path : Fields, expected_value : Values, observed_value : Values ]

PolicyDecision == [ outcome : PolicyOutcome, approved_value : Values \cup {NULL} ]

-----------------------------------------------------------------------------
citation_supports_action(section, action) == section \in _SUPPORTING_SECTIONS[action]

\* Low confidence and abstention are looked at before anything else.
RoutedToManual(rec) ==
    \/ rec.confidence < CONFIDENCE_THRESHOLD
    \/ rec.recommended_action = NULL

\* Slip: the proposed amount is not compared with the engine's.
ProposalMatchesField(rec, facts) ==
    /\ DOMAIN rec.proposed_fields \subseteq ALLOWED_PROPOSED_FIELDS
    /\ DOMAIN rec.proposed_fields = {facts.field_path}

\* Exactly one proposed field, on the allow-list, the break's own field, with
\* the value the reconciliation engine computed.
ProposalMatchesBreak(rec, facts) ==
    /\ \E field_path \in Fields : DOMAIN rec.proposed_fields = {field_path}
    /\ DOMAIN rec.proposed_fields \subseteq ALLOWED_PROPOSED_FIELDS
    /\ DOMAIN rec.proposed_fields = {facts.field_path}
    /\ rec.proposed_fields[facts.field_path] = facts.expected_value

PassesRules(rec, facts) ==
    /\ rec.recommended_action \in _SUPPORTED_ACTIONS
    /\ \E section \in rec.citations :
          citation_supports_action(section, rec.recommended_action)
    /\ ProposalMatchesBreak(rec, facts)

evaluate(rec, facts) ==
    IF RoutedToManual(rec)
        THEN [outcome |-> "MANUAL_INVESTIGATION", approved_value |-> NULL]
    ELSE IF PassesRules(rec, facts)
        THEN [outcome        |-> "ELIGIBLE_FOR_APPROVAL",
              approved_value |-> rec.proposed_fields[facts.field_path]]
    ELSE [outcome |-> "REJECTED", approved_value |-> NULL]

=============================================================================
