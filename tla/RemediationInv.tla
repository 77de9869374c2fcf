--------------------------- MODULE RemediationInv ---------------------------
(***************************************************************************)
(* The inductive invariants behind the theorems of RemediationProofs.      *)
(***************************************************************************)
EXTENDS Remediation

\* Where a request is about a case, has read its approvals, holds its
\* envelope, has been let through by the executor, has committed a correction.
OfCase    == Points \ {"idle", "persist_canonical", "persist_run"}
Approved  == OfCase \ {"seed", "insert_approval"}
Enveloped == Approved \ {"envelope"}
Applied   == Enveloped \ {"verify", "apply", "record"}
Reading   == {"persist_canonical", "persist_run", "rerun_version", "rerun_persist",
              "finalize"}

\* A request's locals agree with the insert-only rows they were read from,
\* and a request gets past verification only with two identities.
RequestOK(r) ==
    /\ r.pc \in OfCase => r.case \in CaseIds /\ cases[r.case] # NULL
    /\ r.pc = "insert_approval" => r.identity \in Identities
    /\ r.pc \in Approved => /\ Eligible(r.case)
                            /\ r.approved = approvals[r.case]
                            /\ \A role \in Roles : approvals[r.case][role] # NULL
    /\ r.pc \in Enveloped => r.envelope # NULL /\ r.envelope = envelopes[r.case]
    /\ r.pc = "apply" => TwoIdentities(r.case)
    /\ r.pc = "record" /\ r.outcome = "SUCCESS" => commits[r.case] > 0
    /\ r.pc \in Applied => commits[r.case] > 0
    /\ r.pc \in Reading => r.seen # NULL

\* The rows of a case agree with each other.
CaseOK(c) ==
    /\ Eligible(c) => cases[c].decision.approved_value = cases[c].expected_value
    /\ envelopes[c] # NULL =>
          /\ Eligible(c)
          /\ envelopes[c].trade_id = cases[c].trade_id
          /\ envelopes[c].approved_value = cases[c].expected_value
          /\ envelopes[c].expected_old_value = cases[c].observed_value
    /\ commits[c] > 0 => Eligible(c) /\ TwoIdentities(c)

\* The legacy record holds what the last applied key stands for.
LegacyOK(t) ==
    LET key == legacy[t].last_applied_idempotency_key IN
    legacy[t] # NULL /\ key # NULL =>
        /\ cases[key] # NULL
        /\ commits[key] > 0
        /\ cases[key].trade_id = t
        /\ legacy[t].base_amount_value = cases[key].expected_value

\* The strengthening of FourEyes and ApprovedValueOnly: neither is inductive,
\* because a request acts on rows it read earlier.
IInv ==
    /\ TypeOK
    /\ \A t \in Trades : bookings[t] # <<>>
    /\ \A w \in Workers : RequestOK(req[w])
    /\ \A c \in CaseIds : CaseOK(c)
    /\ \A t \in Trades : LegacyOK(t)

=============================================================================
