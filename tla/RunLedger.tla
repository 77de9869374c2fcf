----------------------------- MODULE RunLedger -----------------------------
(***************************************************************************)
(* What the history of reconciliation runs promises to its readers         *)
(* (apps/api/service.py, build_summary; adapter.py, runs_by_run_id): what  *)
(* is visible under a run_id is a growing prefix, in portfolio order, of   *)
(* ONE evaluation's report.  Nothing visible is changed or lost, and no two*)
(* evaluations ever share a run_id.                                        *)
(***************************************************************************)
EXTENDS Naturals

CONSTANTS
    RunIds,
    N,              \* how many portfolios a run reports on
    Evaluations,    \* what a run may have evaluated
    Published(_, _),\* what evaluation e has to report on portfolio k
    NULL            \* nothing visible yet

VARIABLES
    ledger,     \* [RunIds -> [1..N -> what is visible, or NULL]]
    evaluation  \* the evaluation behind a run_id, or NULL

ledgerVars == <<ledger, evaluation>>

Init ==
    /\ ledger = [id \in RunIds |-> [k \in 1..N |-> NULL]]
    /\ evaluation = [id \in RunIds |-> NULL]

\* An evaluation takes a run_id that nobody has and shows its first portfolio.
Publish(id) ==
    /\ evaluation[id] = NULL
    /\ \E e \in Evaluations :
          /\ evaluation' = [evaluation EXCEPT ![id] = e]
          /\ ledger' = [ledger EXCEPT ![id][1] = Published(e, 1)]

\* The next portfolio of the same evaluation.
Extend(id) ==
    \E k \in 2..N :
        /\ ledger[id][k - 1] # NULL
        /\ ledger[id][k] = NULL
        /\ UNCHANGED evaluation
        /\ ledger' = [ledger EXCEPT ![id][k] = Published(evaluation[id], k)]

Next == \E id \in RunIds : Publish(id) \/ Extend(id)

Spec == Init /\ [][Next]_ledgerVars

=============================================================================
