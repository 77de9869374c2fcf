---------------------------- MODULE InboxAdapter ----------------------------
(***************************************************************************)
(* PostgresAdapter.ingest_observations (packages/persistence/adapter.py):  *)
(* one transaction per batch, one step per SQL statement.                  *)
(*                                                                         *)
(* PostgreSQL at READ COMMITTED, as the statements use it: a SELECT ... FOR*)
(* UPDATE sees committed rows and the transaction's own, and waits for a   *)
(* row that another transaction has locked; an INSERT waits for another    *)
(* transaction that has inserted the same unique key, and fails (or, ON    *)
(* CONFLICT DO NOTHING, does nothing) once that one has committed; of      *)
(* transactions that wait for each other one is ended.                     *)
(***************************************************************************)
EXTENDS Inbox, Relation

VARIABLE tx     \* the open transaction of each session

vars == <<public, tx>>

\* Where the transaction is in its batch, what the next statement is, its own
\* uncommitted inserts, the rows it has locked, and its counts.
Transaction ==
    [ pc : {"closed", "select", "insert", "quarantine", "commit"}, at : Nat,
      own : [Keys -> Observation \cup {NULL}],
      quarantined : [ObservationIds -> Observation \cup {NULL}],
      locked : SUBSET Keys, counts : Answers ]

Closed == [ pc |-> "closed", at |-> 0, own |-> [k \in Keys |-> NULL],
            quarantined |-> [id \in ObservationIds |-> NULL],
            locked |-> {}, counts |-> Failure("none") ]

TxTypeOK == TypeOK /\ tx \in [Sessions -> Transaction]

TxInit == Init /\ tx = [s \in Sessions |-> Closed]

-----------------------------------------------------------------------------
\* The observation the transaction is at.
Current(s) == call[s].observations[tx[s].at]

\* The next statement of a transaction that has dealt with its observation.
Advanced(s, t) ==
    [t EXCEPT !.at = @ + 1,
              !.pc = IF t.at < Len(call[s].observations) THEN "select" ELSE "commit"]

\* Slip: the exception leaves the transaction open.
RollbackForgotten(s, status) ==
    /\ answer' = [answer EXCEPT ![s] = Failure(status)]
    /\ call' = [call EXCEPT ![s] = NULL]
    /\ tx' = [tx EXCEPT ![s].pc = "closed"]
    /\ UNCHANGED <<inbox, conflicts>>

\* The transaction ends with a rollback and the exception is re-raised.
Rollback(s, status) ==
    /\ answer' = [answer EXCEPT ![s] = Failure(status)]
    /\ call' = [call EXCEPT ![s] = NULL]
    /\ tx' = [tx EXCEPT ![s] = Closed]
    /\ UNCHANGED <<inbox, conflicts>>

connect(s) ==
    /\ call[s] = NULL
    /\ \E c \in Deliveries :
          /\ call' = [call EXCEPT ![s] = c]
          /\ tx' = [tx EXCEPT ![s] =
                      [Closed EXCEPT !.at = 1, !.counts = Failure("summary"),
                          !.pc = IF c.observations = <<>> THEN "commit" ELSE "select"]]
    /\ UNCHANGED <<inbox, conflicts, answer>>

\* The row that the SELECT returns.
Visible(s, k) == IF tx[s].own[k] # NULL THEN tx[s].own[k] ELSE inbox[k]

\* The next statement of s needs a row that another open transaction has locked,
\* or a unique key that the other has inserted and not committed: a key of
\* source_event_inbox, or an observation_id of source_event_conflicts.
WaitsFor(s, other) ==
    LET o == Current(s) IN
    /\ other # s
    /\ \/ /\ tx[s].pc = "select" /\ validate_observation_content_hash(o)
          /\ inbox[o.key] # NULL /\ o.key \in tx[other].locked
       \/ /\ tx[s].pc = "insert"
          /\ tx[other].own[o.key] # NULL
       \/ /\ tx[s].pc = "quarantine"
          /\ conflicts[o.observation_id] = NULL
          /\ tx[other].quarantined[o.observation_id] # NULL

Waiting(s) == \E other \in Sessions : WaitsFor(s, other)

\* validate_observation_content_hash, SELECT ... FOR UPDATE, and what follows
\* from the row it found.
select_existing(s) ==
    LET o       == Current(s)
        outcome == IngestOutcome(Visible(s, o.key), o)
        here    == [tx[s] EXCEPT !.locked = IF Visible(s, o.key) = NULL
                                              THEN @ ELSE @ \cup {o.key}]
    IN  /\ tx[s].pc = "select"
        /\ ~ Waiting(s)
        /\ \/ outcome = "INVALID" /\ Rollback(s, "error")
           \/ outcome = "CONFLICT" /\ call[s].on_conflict = "raise" /\ Rollback(s, "conflict")
           \/ /\ outcome = "INSERTED"
              /\ tx' = [tx EXCEPT ![s].pc = "insert"]
              /\ UNCHANGED public
           \/ /\ outcome = "IDEMPOTENT_REPLAY"
              /\ tx' = [tx EXCEPT ![s] =
                          Advanced(s, [here EXCEPT !.counts.replayed = @ + 1])]
              /\ UNCHANGED public
           \/ /\ outcome = "CONFLICT" /\ call[s].on_conflict = "quarantine"
              /\ tx' = [tx EXCEPT ![s] = [here EXCEPT !.pc = "quarantine"]]
              /\ UNCHANGED public

\* INSERT INTO source_event_conflicts ... ON CONFLICT DO NOTHING.
_quarantine_conflict(s) ==
    LET o == Current(s) IN
    /\ tx[s].pc = "quarantine"
    /\ ~ Waiting(s)
    /\ tx' = [tx EXCEPT ![s] =
                Advanced(s, [tx[s] EXCEPT
                   !.quarantined[o.observation_id] = IF @ = NULL THEN o ELSE @,
                   !.counts.conflicted = @ + 1])]
    /\ UNCHANGED public

\* Slip: the row keeps the fingerprint only.
InsertFingerprint(s) ==
    /\ tx[s].pc = "insert"
    /\ ~ Waiting(s)
    /\ tx' = [tx EXCEPT ![s] = Advanced(s, [tx[s] EXCEPT !.own[Current(s).key] =
                                                       Current(s).content_hash])]
    /\ UNCHANGED public

\* Slip: the table lacks source_event_inbox_identity_version_key.
InsertWithoutConstraint(s) ==
    LET o == Current(s) IN
    /\ tx[s].pc = "insert"
    /\ tx' = [tx EXCEPT ![s] =
                Advanced(s, [tx[s] EXCEPT !.own[o.key] = o, !.counts.inserted = @ + 1])]
    /\ UNCHANGED public

\* Slip: the connection is in autocommit mode.
InsertAutocommit(s) ==
    LET o == Current(s) IN
    /\ tx[s].pc = "insert"
    /\ inbox[o.key] = NULL
    /\ inbox' = [inbox EXCEPT ![o.key] = o]
    /\ tx' = [tx EXCEPT ![s] = Advanced(s, [tx[s] EXCEPT !.counts.inserted = @ + 1])]
    /\ UNCHANGED <<conflicts, call, answer>>

\* INSERT INTO source_event_inbox; UniqueViolation when the key was committed
\* after the SELECT.
_insert_observation(s) ==
    LET o == Current(s) IN
    /\ tx[s].pc = "insert"
    /\ ~ Waiting(s)
    /\ \/ /\ inbox[o.key] = NULL
          /\ tx' = [tx EXCEPT ![s] =
                      Advanced(s, [tx[s] EXCEPT !.own[o.key] = o, !.counts.inserted = @ + 1])]
          /\ UNCHANGED public
       \/ /\ inbox[o.key] # NULL
          /\ Rollback(s, "error")

\* The rows become visible; ON CONFLICT DO NOTHING has kept earlier quarantined
\* deliveries.
commit(s) ==
    /\ tx[s].pc = "commit"
    /\ inbox' = [k \in Keys |-> IF tx[s].own[k] # NULL THEN tx[s].own[k] ELSE inbox[k]]
    /\ conflicts' = [id \in ObservationIds |->
                       IF conflicts[id] = NULL THEN tx[s].quarantined[id] ELSE conflicts[id]]
    /\ answer' = [answer EXCEPT ![s] = tx[s].counts]
    /\ call' = [call EXCEPT ![s] = NULL]
    /\ tx' = [tx EXCEPT ![s] = Closed]

\* A statement is cancelled by statement_timeout, or the connection is lost.
cancel(s) ==
    /\ tx[s].pc # "closed"
    /\ Rollback(s, "unavailable")

\* Slip: waits are never looked at again.
DetectorOff(s) == FALSE /\ UNCHANGED vars

\* s waits for itself, through others.
CircularWait(s) ==
    TransitiveClosure([r, t \in Sessions |-> WaitsFor(r, t)], Sessions)[s, s]

\* PostgreSQL looks, after deadlock_timeout, whether a waiting transaction is in
\* a circular wait, and fails its statement.
deadlock_detected(s) ==
    /\ Waiting(s) /\ CircularWait(s)
    /\ Rollback(s, "unavailable")

Statement(s) ==
    select_existing(s) \/ _insert_observation(s) \/ _quarantine_conflict(s) \/ commit(s)

TxNext ==
    \E s \in Sessions : connect(s) \/ Statement(s) \/ cancel(s) \/ deadlock_detected(s)

TxSpec == TxInit /\ [][TxNext]_vars

\* The database executes a statement that need not wait, wakes a waiting one
\* when the transaction it waits for has ended (nobody is overtaken for ever),
\* and does not leave a circular wait alone.
FairTxSpec ==
    /\ TxSpec
    /\ \A s \in Sessions : SF_vars(Statement(s)) /\ WF_vars(deadlock_detected(s))

-----------------------------------------------------------------------------
\* A key that a transaction has inserted and not committed is nobody else's,
\* neither in the table nor in another open transaction, although the SELECT
\* that found it absent locked nothing: what makes a commit safe.
InsertedKeyIsMine ==
    \A s \in Sessions, k \in Keys : tx[s].own[k] # NULL =>
        /\ inbox[k] = NULL
        /\ \A other \in Sessions \ {s} : tx[other].own[k] = NULL

\* Concurrent transactions are as good as whole batches one after the other:
\* no delivery is half-applied, overwritten, counted under the wrong outcome
\* or lost from quarantine (adapter.py, ingest_observations: "The whole batch
\* commits or rolls back together").
ImplementsInbox == Spec

\* No transaction waits for ever for the rows another one has locked, inserted
\* or quarantined, even if no statement is ever timed out: a batch takes its rows
\* one after the other in its own order, so two batches may wait for each other,
\* and the one that is ended leaves nothing that the other waits for.
EveryCallIsAnswered == \A s \in Sessions : (call[s] # NULL) ~> (call[s] = NULL)

=============================================================================
