--------------------------- MODULE MCInboxAdapter ---------------------------
(***************************************************************************)
(* Small instances of InboxAdapter for TLC.                                *)
(***************************************************************************)
EXTENDS InboxAdapter

CONSTANTS k1, k2, k3, a, b

Seen(id, k, content) ==
    [observation_id |-> id, key |-> k, content |-> content, content_hash |-> content]

\* The corpus: two revisions and a second, different delivery of the first.
Corpus ==
    [ on_conflict  |-> "quarantine",
      observations |-> << Seen(1, k1, a), Seen(3, k1, b), Seen(2, k2, a) >> ]

\* The same keys in the opposite order, with a contradiction of the second
\* revision under the observation id that the corpus quarantines.
Reversed ==
    [ on_conflict  |-> "quarantine",
      observations |-> << Seen(3, k2, b), Seen(1, k1, a) >> ]

\* A correction takes the next version, and may race a load that brings it.
Correction(id, content) ==
    [on_conflict |-> "raise", observations |-> << Seen(id, k3, content) >>]

\* A trusted feed that sends two revisions, the second a contradiction.
Feed ==
    [ on_conflict  |-> "raise",
      observations |-> << Seen(6, k3, b), Seen(7, k2, b) >> ]

\* Two deliveries that cannot be taken: one that contradicts the row of its own
\* observation id, and one whose fingerprint was computed from other content.
Forged ==
    [ on_conflict  |-> "quarantine",
      observations |-> << Seen(8, k3, a), Seen(1, k1, b),
                          [Seen(9, k2, b) EXCEPT !.content_hash = a] >> ]

Traffic == {Corpus, Reversed, Correction(4, a), Feed, Forged}

=============================================================================
