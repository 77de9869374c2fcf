------------------------------ MODULE MCCorpus ------------------------------
(***************************************************************************)
(* The whole corpus for TLC, with the configuration that the service uses  *)
(* (packages/reconciliation/config.py, fixture_config): no arrival window, *)
(* and one unit of the last digit of tolerance.                            *)
(***************************************************************************)
EXTENDS Corpus

FixtureWindows == [kind \in RequiredKinds |-> 0]

FixtureTolerances ==
    [field \in EconomicFields |-> [mode |-> "ABSOLUTE_DECIMAL", value |-> 1, per |-> 1]]

Everything == UNION {ToSet(Generated(p)) : p \in Plans}

=============================================================================
