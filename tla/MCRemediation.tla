--------------------------- MODULE MCRemediation ---------------------------
(***************************************************************************)
(* Small instances of Remediation for TLC.                                 *)
(***************************************************************************)
EXTENDS RemediationInv, TLC

\* Feeds that only move forward: 1 is reported before 2, 2 before 3.
Forward == { pair \in Values \X Values : pair[1] < pair[2] }

\* Feeds that may return to a value they have left.
BackAndForth == { pair \in Values \X Values : pair[1] # pair[2] }

Interchangeable ==
    Permutations(Workers) \cup Permutations(CaseIds) \cup Permutations(Identities)
        \cup Permutations(Secrets)

=============================================================================
