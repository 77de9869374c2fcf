---------------------------- MODULE InboxProofs ----------------------------
(***************************************************************************)
(* Proofs about InboxAdapter, for any batches and any number of concurrent *)
(* transactions.                                                           *)
(***************************************************************************)
EXTENDS InboxAdapter, WellFoundedInduction, TLAPS

\* A transaction is open while its session serves a call, and before its end it
\* is at an observation of its batch.
Positioned ==
    \A s \in Sessions :
        /\ tx[s].pc # "closed" => call[s] \in Deliveries
        /\ tx[s].pc \in {"select", "insert", "quarantine"} =>
              tx[s].at \in 1 .. Len(call[s].observations)

\* The inductive invariant.
TxConsistent == TxTypeOK /\ Positioned /\ InsertedKeyIsMine

-----------------------------------------------------------------------------
\* An answer that tells of a failure counts nothing.
LEMMA FailureType ==
    ASSUME NEW status \in {"none", "summary", "conflict", "error", "unavailable"}
    PROVE  Failure(status) \in Answers
  BY DEF Failure, Answers

\* A closed connection is well formed and holds no key.
LEMMA ClosedType == Closed \in Transaction /\ \A k \in Keys : Closed.own[k] = NULL
  <1>1. Failure("none") \in Answers
    BY FailureType
  <1> QED
    BY <1>1 DEF Closed, Transaction

\* The observation a transaction is at is one of its batch.
LEMMA CurrentType ==
    ASSUME TxConsistent, NEW s \in Sessions, tx[s].pc \in {"select", "insert", "quarantine"}
    PROVE  Current(s) \in Observation /\ call[s] \in Deliveries
  <1>1. call[s] \in Deliveries /\ tx[s].at \in 1 .. Len(call[s].observations)
    BY DEF TxConsistent, Positioned
  <1>2. call[s].observations \in Seq(Observation)
    BY <1>1, DeliveriesAssumption
  <1> QED
    BY <1>1, <1>2 DEF Current

\* Going on to the next observation changes the place only, and stays in the batch.
LEMMA AdvancedType ==
    ASSUME TxConsistent, NEW s \in Sessions, call[s] \in Deliveries,
           NEW t \in Transaction, t.at \in 1 .. Len(call[s].observations)
    PROVE  /\ Advanced(s, t) \in Transaction
           /\ Advanced(s, t).own = t.own
           /\ Advanced(s, t).pc \in {"select", "commit"}
           /\ Advanced(s, t).pc = "select" =>
                 Advanced(s, t).at \in 1 .. Len(call[s].observations)
  <1>1. Len(call[s].observations) \in Nat
    BY DeliveriesAssumption
  <1>2. t.at \in Nat /\ t.at + 1 \in Nat
    BY <1>1
  <1> DEFINE pc == IF t.at < Len(call[s].observations) THEN "select" ELSE "commit"
  <1>3. pc \in {"select", "commit"} /\ (pc = "select" => t.at < Len(call[s].observations))
    OBVIOUS
  <1>4. /\ Advanced(s, t) \in Transaction
        /\ Advanced(s, t).own = t.own
        /\ Advanced(s, t).pc = pc
        /\ Advanced(s, t).at = t.at + 1
    <2> HIDE DEF pc
    <2>1. Advanced(s, t) = [t EXCEPT !.at = t.at + 1, !.pc = pc]
      BY DEF Advanced, pc
    <2> QED
      BY <1>2, <1>3, <2>1 DEF Transaction
  <1> QED
    BY <1>1, <1>2, <1>3, <1>4

-----------------------------------------------------------------------------
\* A transaction that ends with nothing written disturbs nobody.
LEMMA RollbackOK ==
    ASSUME TxConsistent, NEW s \in Sessions, NEW status,
           status \in {"conflict", "error", "unavailable"}, Rollback(s, status)
    PROVE  TxConsistent'
  <1>1. Failure(status) \in Answers
    BY FailureType
  <1>2. TxTypeOK'
    BY <1>1, ClosedType DEF TxConsistent, TxTypeOK, TypeOK, Rollback
  <1>3. tx'[s] = Closed /\ call'[s] = NULL
    BY DEF Rollback, TxConsistent, TxTypeOK, TypeOK
  <1>4. \A other \in Sessions \ {s} : tx'[other] = tx[other] /\ call'[other] = call[other]
    BY DEF Rollback, TxConsistent, TxTypeOK, TypeOK
  <1>5. Positioned'
    BY <1>3, <1>4 DEF TxConsistent, Positioned, Closed
  <1>6. \A other \in Sessions, k \in Keys :
          tx'[other].own[k] = NULL \/ tx'[other].own[k] = tx[other].own[k]
    BY <1>3, <1>4, ClosedType
  <1>7. InsertedKeyIsMine'
    BY <1>3, <1>4, <1>6, ClosedType DEF TxConsistent, InsertedKeyIsMine, Rollback
  <1> QED
    BY <1>2, <1>5, <1>7 DEF TxConsistent

\* A transaction that moves on without writing keeps its keys and its place.
LEMMA MoveOK ==
    ASSUME TxConsistent, NEW s \in Sessions, NEW t \in Transaction, UNCHANGED public,
           tx' = [tx EXCEPT ![s] = t], t.own = tx[s].own,
           t.pc # "closed" => call[s] \in Deliveries,
           t.pc \in {"select", "insert", "quarantine"} =>
              t.at \in 1 .. Len(call[s].observations)
    PROVE  TxConsistent'
  <1>1. /\ inbox' = inbox /\ conflicts' = conflicts /\ call' = call /\ answer' = answer
        /\ tx \in [Sessions -> Transaction]
    BY DEF public, TxConsistent, TxTypeOK
  <1>2. TxTypeOK'
    BY <1>1 DEF TxConsistent, TxTypeOK, TypeOK
  <1>3. tx'[s] = t /\ \A other \in Sessions \ {s} : tx'[other] = tx[other]
    BY <1>1
  <1>4. Positioned'
    BY <1>1, <1>3 DEF TxConsistent, Positioned
  <1>5. \A other \in Sessions : tx'[other].own = tx[other].own
    BY <1>3
  <1>6. InsertedKeyIsMine'
    BY <1>1, <1>5 DEF TxConsistent, InsertedKeyIsMine
  <1> QED
    BY <1>2, <1>4, <1>6 DEF TxConsistent

\* A call that opens its transaction holds no key yet.
LEMMA ConnectOK ==
    ASSUME TxConsistent, NEW s \in Sessions, connect(s)
    PROVE  TxConsistent'
  <1>1. PICK c \in Deliveries :
          /\ call' = [call EXCEPT ![s] = c]
          /\ tx' = [tx EXCEPT ![s] =
                      [Closed EXCEPT !.at = 1, !.counts = Failure("summary"),
                          !.pc = IF c.observations = <<>> THEN "commit" ELSE "select"]]
    BY DEF connect
  <1>2. inbox' = inbox /\ conflicts' = conflicts /\ answer' = answer
    BY DEF connect
  <1>3. TypeOK /\ tx \in [Sessions -> Transaction]
    BY DEF TxConsistent, TxTypeOK
  <1> DEFINE first == IF c.observations = <<>> THEN "commit" ELSE "select"
             open  == [Closed EXCEPT !.at = 1, !.counts = Failure("summary"), !.pc = first]
  <1>4. first \in {"commit", "select"} /\ (first = "select" => c.observations # <<>>)
    OBVIOUS
  <1>5. open \in Transaction /\ open.own = Closed.own /\ open.pc = first /\ open.at = 1
    <2>1. Failure("summary") \in Answers
      BY FailureType
    <2> HIDE DEF first
    <2> QED
      BY <1>4, <2>1, ClosedType DEF Transaction
  <1>6. first = "select" => 1 \in 1 .. Len(c.observations)
    BY <1>4, DeliveriesAssumption
  <1>7. tx' = [tx EXCEPT ![s] = open]
    BY <1>1
  <1> HIDE DEF first, open
  <1>8. tx'[s] = open /\ call'[s] = c
    BY <1>1, <1>3, <1>7 DEF TypeOK
  <1>9. \A other \in Sessions \ {s} : tx'[other] = tx[other] /\ call'[other] = call[other]
    BY <1>1, <1>3, <1>7 DEF TypeOK
  <1>10. TxTypeOK'
    BY <1>1, <1>2, <1>3, <1>5, <1>7 DEF TxTypeOK, TypeOK
  <1>11. Positioned'
    BY <1>4, <1>5, <1>6, <1>8, <1>9 DEF TxConsistent, Positioned
  <1>12. InsertedKeyIsMine'
    BY <1>2, <1>5, <1>8, <1>9, ClosedType DEF TxConsistent, InsertedKeyIsMine
  <1> QED
    BY <1>10, <1>11, <1>12 DEF TxConsistent

\* SELECT ... FOR UPDATE and what follows from the row it found writes nothing.
LEMMA SelectOK ==
    ASSUME TxConsistent, NEW s \in Sessions, select_existing(s)
    PROVE  TxConsistent'
  <1> DEFINE o    == Current(s)
             here == [tx[s] EXCEPT !.locked = IF Visible(s, o.key) = NULL
                                                THEN @ ELSE @ \cup {o.key}]
  <1>1. tx[s].pc = "select" /\ tx[s] \in Transaction
    BY DEF select_existing, TxConsistent, TxTypeOK
  <1>2. o \in Observation /\ call[s] \in Deliveries
    BY <1>1, CurrentType
  <1>3. tx[s].at \in 1 .. Len(call[s].observations)
    BY <1>1 DEF TxConsistent, Positioned
  <1>4. here \in Transaction /\ here.own = tx[s].own /\ here.at = tx[s].at
    <2> DEFINE locks == IF Visible(s, o.key) = NULL THEN tx[s].locked
                                                  ELSE tx[s].locked \cup {o.key}
    <2>1. locks \subseteq Keys
      BY <1>1, <1>2 DEF Transaction, Observation
    <2>2. here = [tx[s] EXCEPT !.locked = locks]
      OBVIOUS
    <2> HIDE DEF locks, here
    <2> QED
      BY <1>1, <2>1, <2>2 DEF Transaction
  <1>5. \/ Rollback(s, "error")
        \/ Rollback(s, "conflict")
        \/ UNCHANGED public /\ tx' = [tx EXCEPT ![s].pc = "insert"]
        \/ /\ UNCHANGED public
           /\ tx' = [tx EXCEPT ![s] = Advanced(s, [here EXCEPT !.counts.replayed = @ + 1])]
        \/ UNCHANGED public /\ tx' = [tx EXCEPT ![s] = [here EXCEPT !.pc = "quarantine"]]
    BY DEF select_existing
  <1> HIDE DEF here, o
  <1>6. CASE Rollback(s, "error") \/ Rollback(s, "conflict")
    BY <1>6, RollbackOK
  <1>7. CASE UNCHANGED public /\ tx' = [tx EXCEPT ![s].pc = "insert"]
    <2> DEFINE t == [tx[s] EXCEPT !.pc = "insert"]
    <2>1. /\ t \in Transaction /\ t.own = tx[s].own
          /\ t.pc = "insert" /\ t.at = tx[s].at
      BY <1>1 DEF Transaction
    <2>2. tx' = [tx EXCEPT ![s] = t]
      BY <1>7
    <2> HIDE DEF t
    <2> QED
      BY <1>2, <1>3, <1>7, <2>1, <2>2, MoveOK
  <1>8. CASE /\ UNCHANGED public
             /\ tx' = [tx EXCEPT ![s] = Advanced(s, [here EXCEPT !.counts.replayed = @ + 1])]
    <2> DEFINE t == [here EXCEPT !.counts.replayed = @ + 1]
    <2>1. here.counts \in Answers /\ here.counts.replayed + 1 \in Nat
      BY <1>4 DEF Transaction, Answers
    <2>2. [here.counts EXCEPT !.replayed = @ + 1] \in Answers
      BY <2>1 DEF Answers
    <2>3. t \in Transaction /\ t.own = tx[s].own /\ t.at = tx[s].at
      BY <1>4, <2>2 DEF Transaction
    <2>4. tx' = [tx EXCEPT ![s] = Advanced(s, t)]
      BY <1>8
    <2> HIDE DEF t
    <2>5. /\ Advanced(s, t) \in Transaction
          /\ Advanced(s, t).own = t.own
          /\ Advanced(s, t).pc \in {"select", "commit"}
          /\ Advanced(s, t).pc = "select" =>
                Advanced(s, t).at \in 1 .. Len(call[s].observations)
      BY <1>2, <1>3, <2>3, AdvancedType
    <2> QED
      BY <1>2, <1>8, <2>3, <2>4, <2>5, MoveOK
  <1>9. CASE UNCHANGED public /\ tx' = [tx EXCEPT ![s] = [here EXCEPT !.pc = "quarantine"]]
    <2> DEFINE t == [here EXCEPT !.pc = "quarantine"]
    <2>1. /\ t \in Transaction /\ t.own = tx[s].own
          /\ t.pc = "quarantine" /\ t.at = tx[s].at
      BY <1>4 DEF Transaction
    <2>2. tx' = [tx EXCEPT ![s] = t]
      BY <1>9
    <2> HIDE DEF t
    <2> QED
      BY <1>2, <1>3, <1>9, <2>1, <2>2, MoveOK
  <1> QED
    BY <1>5, <1>6, <1>7, <1>8, <1>9

\* The INSERT into the quarantine takes no key of the inbox.
LEMMA QuarantineOK ==
    ASSUME TxConsistent, NEW s \in Sessions, _quarantine_conflict(s)
    PROVE  TxConsistent'
  <1> DEFINE o    == Current(s)
             t    == [tx[s] EXCEPT !.quarantined[o.observation_id] = IF @ = NULL THEN o ELSE @,
                                   !.counts.conflicted = @ + 1]
             kept == [tx[s].quarantined EXCEPT ![o.observation_id] = IF @ = NULL THEN o ELSE @]
             sum  == [tx[s].counts EXCEPT !.conflicted = @ + 1]
  <1>1. tx[s].pc = "quarantine" /\ tx[s] \in Transaction
    BY DEF _quarantine_conflict, TxConsistent, TxTypeOK
  <1>2. o \in Observation /\ call[s] \in Deliveries
    BY <1>1, CurrentType
  <1>3. tx[s].at \in 1 .. Len(call[s].observations)
    BY <1>1 DEF TxConsistent, Positioned
  <1>4. kept \in [ObservationIds -> Observation \cup {NULL}]
    BY <1>1, <1>2 DEF Transaction, Observation
  <1>5. sum \in Answers
    <2>1. tx[s].counts \in Answers /\ tx[s].counts.conflicted + 1 \in Nat
      BY <1>1 DEF Transaction, Answers
    <2> QED
      BY <2>1 DEF Answers
  <1>6. t = [tx[s] EXCEPT !.quarantined = kept, !.counts = sum]
    BY <1>1 DEF Transaction
  <1>7. UNCHANGED public /\ tx' = [tx EXCEPT ![s] = Advanced(s, t)]
    BY DEF _quarantine_conflict
  <1> HIDE DEF t, kept, sum, o
  <1>8. t \in Transaction /\ t.own = tx[s].own /\ t.at = tx[s].at
    BY <1>1, <1>4, <1>5, <1>6 DEF Transaction
  <1>9. /\ Advanced(s, t) \in Transaction
        /\ Advanced(s, t).own = t.own
        /\ Advanced(s, t).pc \in {"select", "commit"}
        /\ Advanced(s, t).pc = "select" =>
              Advanced(s, t).at \in 1 .. Len(call[s].observations)
    BY <1>2, <1>3, <1>8, AdvancedType
  <1> QED
    BY <1>2, <1>7, <1>8, <1>9, MoveOK

\* The INSERT takes a key that neither the table nor another transaction has, or
\* fails.
LEMMA InsertOK ==
    ASSUME TxConsistent, NEW s \in Sessions, _insert_observation(s)
    PROVE  TxConsistent'
  <1> DEFINE o == Current(s)
             t == [tx[s] EXCEPT !.own[o.key] = o, !.counts.inserted = @ + 1]
  <1>1. /\ tx[s].pc = "insert" /\ tx \in [Sessions -> Transaction] /\ TypeOK
        /\ \A other \in Sessions \ {s} : tx[other].own[o.key] = NULL
    BY DEF _insert_observation, Waiting, WaitsFor, TxConsistent, TxTypeOK
  <1>2. o \in Observation /\ call[s] \in Deliveries /\ o.key \in Keys
    BY <1>1, CurrentType DEF Observation
  <1>3. tx[s].at \in 1 .. Len(call[s].observations)
    BY <1>1 DEF TxConsistent, Positioned
  <1>4. \/ inbox[o.key] = NULL /\ UNCHANGED public /\ tx' = [tx EXCEPT ![s] = Advanced(s, t)]
        \/ Rollback(s, "error")
    BY DEF _insert_observation
  <1>5. CASE Rollback(s, "error")
    BY <1>5, RollbackOK
  <1>6. CASE inbox[o.key] = NULL /\ UNCHANGED public /\ tx' = [tx EXCEPT ![s] = Advanced(s, t)]
    <2> DEFINE mine == [tx[s].own EXCEPT ![o.key] = o]
               sum  == [tx[s].counts EXCEPT !.inserted = @ + 1]
    <2>1. mine \in [Keys -> Observation \cup {NULL}] /\ mine[o.key] = o
      BY <1>1, <1>2 DEF Transaction
    <2>2. \A k \in Keys \ {o.key} : mine[k] = tx[s].own[k]
      BY <1>1, <1>2 DEF Transaction
    <2>3. sum \in Answers
      <3>1. tx[s].counts \in Answers /\ tx[s].counts.inserted + 1 \in Nat
        BY <1>1 DEF Transaction, Answers
      <3> QED
        BY <3>1 DEF Answers
    <2>4. t = [tx[s] EXCEPT !.own = mine, !.counts = sum]
      BY <1>1 DEF Transaction
    <2> HIDE DEF t, mine, sum, o
    <2>5. t \in Transaction /\ t.own = mine /\ t.at = tx[s].at
      BY <1>1, <2>1, <2>3, <2>4 DEF Transaction
    <2>6. /\ Advanced(s, t) \in Transaction
          /\ Advanced(s, t).own = mine
          /\ Advanced(s, t).pc \in {"select", "commit"}
          /\ Advanced(s, t).pc = "select" =>
                Advanced(s, t).at \in 1 .. Len(call[s].observations)
      BY <1>2, <1>3, <2>5, AdvancedType
    <2>7. inbox' = inbox /\ conflicts' = conflicts /\ call' = call /\ answer' = answer
      BY <1>6 DEF public
    <2>8. /\ tx'[s] = Advanced(s, t)
          /\ \A other \in Sessions \ {s} : tx'[other] = tx[other]
          /\ tx' \in [Sessions -> Transaction]
      BY <1>1, <1>6, <2>6
    <2>9. TxTypeOK'
      BY <1>1, <2>7, <2>8 DEF TxTypeOK, TypeOK
    <2>10. Positioned'
      BY <1>2, <2>6, <2>7, <2>8 DEF TxConsistent, Positioned
    <2>11. ASSUME NEW r \in Sessions, NEW k \in Keys, tx'[r].own[k] # NULL
           PROVE  /\ inbox'[k] = NULL
                  /\ \A other \in Sessions \ {r} : tx'[other].own[k] = NULL
      <3>1. CASE k = o.key
        <4>1. r = s
          BY <1>1, <2>8, <2>11, <3>1
        <4> QED
          BY <1>1, <1>6, <2>7, <2>8, <3>1, <4>1
      <3>2. CASE k # o.key
        <4>1. \A other \in Sessions : tx'[other].own[k] = tx[other].own[k]
          BY <2>2, <2>6, <2>8, <3>2
        <4> QED
          BY <2>7, <2>11, <4>1 DEF TxConsistent, InsertedKeyIsMine
      <3> QED
        BY <3>1, <3>2
    <2> QED
      BY <2>9, <2>10, <2>11 DEF TxConsistent, InsertedKeyIsMine
  <1> QED
    BY <1>4, <1>5, <1>6

\* A commit writes its own keys, which no other transaction has taken.
LEMMA CommitOK ==
    ASSUME TxConsistent, NEW s \in Sessions, commit(s)
    PROVE  TxConsistent'
  <1>1. TypeOK /\ tx \in [Sessions -> Transaction]
    BY DEF TxConsistent, TxTypeOK
  <1>2. tx'[s] = Closed /\ call'[s] = NULL
    BY <1>1 DEF commit, TypeOK
  <1>3. \A other \in Sessions \ {s} : tx'[other] = tx[other] /\ call'[other] = call[other]
    BY <1>1 DEF commit, TypeOK
  <1>4. \A k \in Keys : inbox'[k] = IF tx[s].own[k] # NULL THEN tx[s].own[k] ELSE inbox[k]
    BY DEF commit
  <1>5. inbox' \in [Keys -> Observation \cup {NULL}]
    BY <1>1 DEF commit, TypeOK, Transaction
  <1>6. conflicts' \in [ObservationIds -> Observation \cup {NULL}]
    BY <1>1 DEF commit, TypeOK, Transaction
  <1>7. call' \in [Sessions -> Deliveries \cup {NULL}] /\ answer' \in [Sessions -> Answers]
    BY <1>1 DEF commit, TypeOK, Transaction
  <1>8. tx' \in [Sessions -> Transaction]
    BY <1>1, ClosedType DEF commit
  <1>9. Positioned'
    BY <1>2, <1>3 DEF TxConsistent, Positioned, Closed
  <1>10. ASSUME NEW r \in Sessions, NEW k \in Keys, tx'[r].own[k] # NULL
         PROVE  /\ inbox'[k] = NULL
                /\ \A other \in Sessions \ {r} : tx'[other].own[k] = NULL
    <2>1. r # s /\ tx[r].own[k] # NULL
      BY <1>2, <1>3, <1>10, ClosedType
    <2>2. inbox[k] = NULL /\ \A other \in Sessions \ {r} : tx[other].own[k] = NULL
      BY <2>1 DEF TxConsistent, InsertedKeyIsMine
    <2> QED
      BY <1>2, <1>3, <1>4, <2>1, <2>2, ClosedType
  <1> QED
    BY <1>5, <1>6, <1>7, <1>8, <1>9, <1>10
       DEF TxConsistent, TxTypeOK, TypeOK, InsertedKeyIsMine

\* Before the first call nothing is held.
LEMMA InitTxConsistent == TxInit => TxConsistent
  <1> SUFFICES ASSUME TxInit PROVE TxConsistent
    OBVIOUS
  <1>1. Failure("none") \in Answers
    BY FailureType
  <1>2. TxTypeOK
    BY <1>1, ClosedType DEF TxInit, Init, TxTypeOK, TypeOK
  <1>3. Positioned /\ InsertedKeyIsMine
    BY ClosedType DEF TxInit, Positioned, InsertedKeyIsMine, Closed
  <1> QED
    BY <1>2, <1>3 DEF TxConsistent

\* The invariant survives every statement, commit, rollback and death.
LEMMA NextTxConsistent == TxConsistent /\ [TxNext]_vars => TxConsistent'
  <1> SUFFICES ASSUME TxConsistent, [TxNext]_vars PROVE TxConsistent'
    OBVIOUS
  <1>1. ASSUME NEW s \in Sessions,
               connect(s) \/ Statement(s) \/ cancel(s) \/ deadlock_detected(s)
        PROVE  TxConsistent'
    <2>1. CASE connect(s)
      BY <2>1, ConnectOK
    <2>2. CASE select_existing(s)
      BY <2>2, SelectOK
    <2>3. CASE _insert_observation(s)
      BY <2>3, InsertOK
    <2>4. CASE commit(s)
      BY <2>4, CommitOK
    <2>5. CASE cancel(s) \/ deadlock_detected(s)
      <3>1. Rollback(s, "unavailable")
        BY <2>5 DEF cancel, deadlock_detected
      <3> QED
        BY <3>1, RollbackOK
    <2>6. CASE _quarantine_conflict(s)
      BY <2>6, QuarantineOK
    <2> QED
      BY <1>1, <2>1, <2>2, <2>3, <2>4, <2>5, <2>6 DEF Statement
  <1>2. CASE UNCHANGED vars
    BY <1>2 DEF vars, public, TxConsistent, TxTypeOK, TypeOK, Positioned, InsertedKeyIsMine
  <1> QED
    BY <1>1, <1>2 DEF TxNext

-----------------------------------------------------------------------------
\* Rows, quarantine, calls, answers and open transactions of ingest_observations
\* keep their shape, whatever the batches contain and however they interleave.
THEOREM TransactionsTypeCorrect == TxSpec => []TxTypeOK
  <1>1. TxConsistent => TxTypeOK
    BY DEF TxConsistent
  <1> QED
    BY <1>1, InitTxConsistent, NextTxConsistent, PTL DEF TxSpec

\* A key that an ingest transaction has inserted and not committed is in nobody
\* else's hands, so its commit overwrites no row, although the SELECT ... FOR
\* UPDATE that found the key absent locked nothing.
THEOREM InsertedKeysAreExclusive == TxSpec => []InsertedKeyIsMine
  <1>1. TxConsistent => InsertedKeyIsMine
    BY DEF TxConsistent
  <1> QED
    BY <1>1, InitTxConsistent, NextTxConsistent, PTL DEF TxSpec

-----------------------------------------------------------------------------
(***************************************************************************)
(* The refinement.  What a transaction has done is the last of the states  *)
(* it has been through, one per observation, and each of them follows from *)
(* the one before whatever the other sessions have committed meanwhile.    *)
(***************************************************************************)
Less == {p \in Nat \X Nat : p[1] < p[2]}

\* Every set of numbers that is not empty has a least element.
LEMMA LeastNumber ==
    ASSUME NEW T \in SUBSET Nat, T # {}
    PROVE  \E n \in T : \A m \in T : ~(m < n)
  <1>1. IsWellFoundedOn(Less, Nat)
    BY NatLessThanWellFounded, Zenon DEF OpToRel, Less
  <1>2. \E n \in T : \A m \in T : <<m, n>> \notin Less
    BY <1>1, WFMin
  <1> QED
    BY <1>2 DEF Less

\* f goes through the batch c from the rows as they are now.
ThroughBatch(c, f) ==
    f = [ i \in 0 .. Len(c.observations) |->
            IF i = 0 THEN [inbox |-> inbox, conflicts |-> conflicts, answer |-> Failure("summary")]
                     ELSE ingest(f[i - 1], c.observations[i], c.on_conflict) ]

\* A batch has one outcome: whatever goes through it ends in IngestBatch.
LEMMA BatchOutcome ==
    ASSUME NEW c \in Deliveries, NEW f, ThroughBatch(c, f)
    PROVE  IngestBatch(c) = f[Len(c.observations)]
  <1> DEFINE n == Len(c.observations)
             done == CHOOSE g : ThroughBatch(c, g)
  <1>1. IngestBatch(c) = done[n]
    BY DEF IngestBatch, ThroughBatch
  <1>2. ThroughBatch(c, done)
    OBVIOUS
  <1>3. n \in Nat
    BY DeliveriesAssumption
  <1> HIDE DEF done
  <1> DEFINE T == {i \in 0 .. n : f[i] # done[i]}
  <1>4. ASSUME T # {} PROVE FALSE
    <2>1. PICK i \in T : \A m \in T : ~(m < i)
      <3>1. T \in SUBSET Nat
        BY <1>3
      <3> HIDE DEF T
      <3> QED
        BY <1>4, <3>1, LeastNumber
    <2>2. i \in 0 .. n /\ f[i] # done[i]
      OBVIOUS
    <2>3. CASE i = 0
      BY <1>2, <1>3, <2>2, <2>3 DEF ThroughBatch
    <2>4. CASE i # 0
      <3>1. i - 1 \in 0 .. n /\ i - 1 < i
        BY <1>3, <2>2, <2>4
      <3>2. f[i - 1] = done[i - 1]
        BY <2>1, <3>1
      <3>3. f[i] = ingest(f[i - 1], c.observations[i], c.on_conflict)
        BY <2>2, <2>4 DEF ThroughBatch
      <3>4. done[i] = ingest(done[i - 1], c.observations[i], c.on_conflict)
        BY <1>2, <2>2, <2>4 DEF ThroughBatch
      <3> QED
        BY <2>2, <3>2, <3>3, <3>4
    <2> QED
      BY <2>3, <2>4
  <1>5. n \in 0 .. n
    BY <1>3
  <1> QED
    BY <1>1, <1>4, <1>5

\* What a transaction has done: its inserts, its quarantine and its counts.
Summaries == {a \in Answers : a.status = "summary"}

Part == [ own : [Keys -> Observation \cup {NULL}],
          quarantined : [ObservationIds -> Observation \cup {NULL}],
          counts : Summaries ]

PartOf(t) == [own |-> t.own, quarantined |-> t.quarantined, counts |-> t.counts]

SeenBy(p, k) == IF p.own[k] # NULL THEN p.own[k] ELSE inbox[k]

\* The delivery o takes a transaction from p to q.
PartStep(p, q, o, on_conflict) ==
    LET outcome == IngestOutcome(SeenBy(p, o.key), o) IN
    \/ /\ outcome = "INSERTED"
       /\ q.own = [p.own EXCEPT ![o.key] = o]
       /\ q.quarantined = p.quarantined
       /\ q.counts = [p.counts EXCEPT !.inserted = @ + 1]
    \/ /\ outcome = "IDEMPOTENT_REPLAY"
       /\ q.own = p.own
       /\ q.quarantined = p.quarantined
       /\ q.counts = [p.counts EXCEPT !.replayed = @ + 1]
    \/ /\ outcome = "CONFLICT" /\ on_conflict = "quarantine"
       /\ q.own = p.own
       /\ q.quarantined = [p.quarantined EXCEPT ![o.observation_id] = IF @ = NULL THEN o ELSE @]
       /\ q.counts = [p.counts EXCEPT !.conflicted = @ + 1]

\* g leads through the first i deliveries of the call c to the transaction part p.
Leads(c, g, i, p) ==
    /\ g \in [0 .. i -> Part]
    /\ g[0] = PartOf([Closed EXCEPT !.counts = Failure("summary")])
    /\ g[i] = p
    /\ \A j \in 1 .. i : PartStep(g[j - 1], g[j], c.observations[j], c.on_conflict)
    /\ \A j \in 0 .. i, k \in Keys : g[j].own[k] # NULL => g[j].own[k] = p.own[k]

\* An open transaction is where its deliveries have led it, inserts what it has
\* found absent and quarantines what it has found contradicted.
Led(s) ==
    tx[s].pc # "closed" =>
        /\ tx[s].at \in 1 .. Len(call[s].observations) + 1
        /\ tx[s].pc = "commit" => tx[s].at = Len(call[s].observations) + 1
        /\ tx[s].pc = "insert" => /\ validate_observation_content_hash(Current(s))
                                  /\ tx[s].own[Current(s).key] = NULL
        /\ tx[s].pc = "quarantine" =>
              /\ call[s].on_conflict = "quarantine"
              /\ IngestOutcome(Visible(s, Current(s).key), Current(s)) = "CONFLICT"
        /\ \E g : Leads(call[s], g, tx[s].at - 1, PartOf(tx[s]))

\* What the rows and a transaction's part make together.
AsBatch(p) ==
    [ inbox     |-> [k \in Keys |-> SeenBy(p, k)],
      conflicts |-> [id \in ObservationIds |->
                       IF conflicts[id] = NULL THEN p.quarantined[id] ELSE conflicts[id]],
      answer    |-> p.counts ]

\* A step of a transaction is a step of the batch.
LEMMA StepOfBatch ==
    ASSUME TypeOK, NEW p \in Part, NEW q \in Part, NEW o \in Observation,
           NEW mode \in Modes, PartStep(p, q, o, mode)
    PROVE  AsBatch(q) = ingest(AsBatch(p), o, mode)
  <1> DEFINE outcome == IngestOutcome(SeenBy(p, o.key), o)
  <1>0. /\ o.key \in Keys /\ o.observation_id \in ObservationIds
        /\ AsBatch(p).inbox[o.key] = SeenBy(p, o.key)
        /\ AsBatch(p).answer = p.counts /\ p.counts.status = "summary"
        /\ AsBatch(p).inbox = [k \in Keys |-> SeenBy(p, k)]
        /\ NULL # o
    BY DeliveriesAssumption DEF Observation, AsBatch, Part, Summaries
  <1>1. CASE outcome = "INSERTED"
    <2>1. /\ q.own = [p.own EXCEPT ![o.key] = o] /\ q.quarantined = p.quarantined
          /\ q.counts = [p.counts EXCEPT !.inserted = @ + 1]
      BY <1>1 DEF PartStep
    <2>2. ingest(AsBatch(p), o, mode)
            = [AsBatch(p) EXCEPT !.inbox[o.key] = o, !.answer.inserted = @ + 1]
      BY <1>0, <1>1 DEF ingest
    <2>3. [k \in Keys |-> SeenBy(q, k)] = [[k \in Keys |-> SeenBy(p, k)] EXCEPT ![o.key] = o]
      BY <1>0, <2>1 DEF SeenBy, Part
    <2>4. AsBatch(q).conflicts = AsBatch(p).conflicts
      BY <2>1 DEF AsBatch
    <2> QED
      BY <2>1, <2>2, <2>3, <2>4 DEF AsBatch
  <1>2. CASE outcome = "IDEMPOTENT_REPLAY"
    <2>1. /\ q.own = p.own /\ q.quarantined = p.quarantined
          /\ q.counts = [p.counts EXCEPT !.replayed = @ + 1]
      BY <1>2 DEF PartStep
    <2>2. ingest(AsBatch(p), o, mode) = [AsBatch(p) EXCEPT !.answer.replayed = @ + 1]
      BY <1>0, <1>2 DEF ingest
    <2>3. [k \in Keys |-> SeenBy(q, k)] = [k \in Keys |-> SeenBy(p, k)]
      BY <2>1 DEF SeenBy
    <2>4. AsBatch(q).conflicts = AsBatch(p).conflicts
      BY <2>1 DEF AsBatch
    <2> QED
      BY <2>1, <2>2, <2>3, <2>4 DEF AsBatch
  <1>3. CASE outcome = "CONFLICT" /\ mode = "quarantine"
    <2>1. /\ q.own = p.own
          /\ q.quarantined =
                [p.quarantined EXCEPT ![o.observation_id] = IF @ = NULL THEN o ELSE @]
          /\ q.counts = [p.counts EXCEPT !.conflicted = @ + 1]
      BY <1>3 DEF PartStep
    <2>2. ingest(AsBatch(p), o, mode)
            = [AsBatch(p) EXCEPT !.conflicts[o.observation_id] = IF @ = NULL THEN o ELSE @,
                                 !.answer.conflicted = @ + 1]
      BY <1>0, <1>3 DEF ingest
    <2>3. [k \in Keys |-> SeenBy(q, k)] = [k \in Keys |-> SeenBy(p, k)]
      BY <2>1 DEF SeenBy
    <2>4. AsBatch(q).conflicts = [AsBatch(p).conflicts EXCEPT ![o.observation_id] =
                                     IF @ = NULL THEN o ELSE @]
      BY <1>0, <2>1 DEF AsBatch, Part
    <2> QED
      BY <2>1, <2>2, <2>3, <2>4 DEF AsBatch
  <1> QED
    BY <1>1, <1>2, <1>3 DEF PartStep

\* A transaction that has done nothing leaves the rows as they are.
LEMMA EmptyPart ==
    ASSUME TypeOK
    PROVE  /\ PartOf([Closed EXCEPT !.counts = Failure("summary")]) \in Part
           /\ AsBatch(PartOf([Closed EXCEPT !.counts = Failure("summary")]))
                = [inbox |-> inbox, conflicts |-> conflicts, answer |-> Failure("summary")]
  <1> DEFINE p == PartOf([Closed EXCEPT !.counts = Failure("summary")])
  <1>1. /\ p.own = [k \in Keys |-> NULL] /\ p.quarantined = [id \in ObservationIds |-> NULL]
        /\ p.counts = Failure("summary")
    BY DEF PartOf, Closed
  <1>2. Failure("summary") \in Summaries
    BY FailureType DEF Summaries, Failure
  <1>3. p \in Part
    BY <1>2 DEF PartOf, Closed, Part
  <1> HIDE DEF p
  <1>4. [k \in Keys |-> SeenBy(p, k)] = inbox
    BY <1>1 DEF SeenBy, TypeOK
  <1>5. [id \in ObservationIds |->
            IF conflicts[id] = NULL THEN p.quarantined[id] ELSE conflicts[id]] = conflicts
    BY <1>1 DEF TypeOK
  <1>6. AsBatch(p) = [inbox |-> inbox, conflicts |-> conflicts, answer |-> Failure("summary")]
    BY <1>1, <1>4, <1>5 DEF AsBatch
  <1> QED
    BY <1>3, <1>6 DEF p

\* A transaction at its commit has done what the batch would do now.
LEMMA CommitIsBatch ==
    ASSUME TypeOK, NEW c \in Deliveries, NEW p \in Part, NEW g,
           Leads(c, g, Len(c.observations), p)
    PROVE  IngestBatch(c) = AsBatch(p)
  <1> DEFINE n == Len(c.observations)
             f == [i \in 0 .. n |-> AsBatch(g[i])]
  <1>1. n \in Nat /\ c.observations \in Seq(Observation) /\ c.on_conflict \in Modes
    BY DeliveriesAssumption
  <1>2. f[0] = [inbox |-> inbox, conflicts |-> conflicts, answer |-> Failure("summary")]
    BY <1>1, EmptyPart DEF Leads
  <1>3. ASSUME NEW i \in 1 .. n
        PROVE  f[i] = ingest(f[i - 1], c.observations[i], c.on_conflict)
    <2>1. i \in 0 .. n /\ i - 1 \in 0 .. n
      BY <1>1
    <2>2. g[i] \in Part /\ g[i - 1] \in Part /\ c.observations[i] \in Observation
      BY <1>1, <2>1 DEF Leads
    <2>3. PartStep(g[i - 1], g[i], c.observations[i], c.on_conflict)
      BY DEF Leads
    <2>4. AsBatch(g[i]) = ingest(AsBatch(g[i - 1]), c.observations[i], c.on_conflict)
      BY <1>1, <2>2, <2>3, StepOfBatch
    <2> QED
      BY <2>1, <2>4
  <1>4. ThroughBatch(c, f)
    <2> SUFFICES ASSUME NEW i \in 0 .. n
                 PROVE  f[i] = IF i = 0
                                 THEN [inbox |-> inbox, conflicts |-> conflicts,
                                       answer |-> Failure("summary")]
                                 ELSE ingest(f[i - 1], c.observations[i], c.on_conflict)
      BY Zenon DEF ThroughBatch
    <2> HIDE DEF f
    <2> QED
      BY <1>1, <1>2, <1>3
  <1>5. IngestBatch(c) = f[n]
    BY <1>4, BatchOutcome
  <1> QED
    BY <1>1, <1>5 DEF Leads

\* A transaction that meets a conflict it may not quarantine stops where the
\* batch would.
LEMMA ConflictIsBatch ==
    ASSUME TypeOK, NEW c \in Deliveries, NEW p \in Part, NEW g,
           NEW at \in 1 .. Len(c.observations), Leads(c, g, at - 1, p),
           c.on_conflict = "raise",
           IngestOutcome(SeenBy(p, c.observations[at].key), c.observations[at]) = "CONFLICT"
    PROVE  IngestBatch(c).answer = Failure("conflict")
  <1> DEFINE n == Len(c.observations)
             stopped == [AsBatch(p) EXCEPT !.answer = Failure("conflict")]
             f == [i \in 0 .. n |-> IF i < at THEN AsBatch(g[i]) ELSE stopped]
  <1>1. /\ n \in Nat /\ c.observations \in Seq(Observation) /\ c.on_conflict \in Modes
        /\ at \in Nat
    BY DeliveriesAssumption
  <1>2. f[0] = [inbox |-> inbox, conflicts |-> conflicts, answer |-> Failure("summary")]
    BY <1>1, EmptyPart DEF Leads
  <1>3. stopped.answer.status = "conflict" /\ stopped.answer = Failure("conflict")
    BY DEF AsBatch, Failure
  <1>4. ASSUME NEW i \in 1 .. n
        PROVE  f[i] = ingest(f[i - 1], c.observations[i], c.on_conflict)
    <2>1. i \in 0 .. n /\ i - 1 \in 0 .. n /\ c.observations[i] \in Observation
      BY <1>1
    <2>2. CASE i < at
      <3>1. i \in 1 .. at - 1 /\ i \in 0 .. at - 1 /\ i - 1 \in 0 .. at - 1 /\ i - 1 < at
        BY <1>1, <2>1, <2>2
      <3>2. g[i] \in Part /\ g[i - 1] \in Part
        BY <3>1 DEF Leads
      <3>3. PartStep(g[i - 1], g[i], c.observations[i], c.on_conflict)
        BY <3>1 DEF Leads
      <3>4. AsBatch(g[i]) = ingest(AsBatch(g[i - 1]), c.observations[i], c.on_conflict)
        BY <1>1, <2>1, <3>2, <3>3, StepOfBatch
      <3> QED
        BY <2>1, <2>2, <3>1, <3>4
    <2>3. CASE i = at
      <3>1. g[i - 1] = p /\ i - 1 < at /\ ~(i < at)
        BY <1>1, <2>3 DEF Leads
      <3>2. f[i - 1] = AsBatch(p) /\ f[i] = stopped
        BY <2>1, <3>1
      <3>3. /\ AsBatch(p).inbox[c.observations[i].key] = SeenBy(p, c.observations[i].key)
            /\ AsBatch(p).answer.status = "summary"
        BY <2>1 DEF AsBatch, Observation, Part, Summaries
      <3>4. ingest(AsBatch(p), c.observations[i], c.on_conflict) = stopped
        BY <2>3, <3>3 DEF ingest
      <3> QED
        BY <3>2, <3>4
    <2>4. CASE i > at
      <3>1. f[i] = stopped /\ f[i - 1] = stopped
        BY <1>1, <2>1, <2>4
      <3> HIDE DEF stopped, f
      <3>2. ingest(stopped, c.observations[i], c.on_conflict) = stopped
        BY <1>3 DEF ingest
      <3> QED
        BY <3>1, <3>2
    <2> QED
      BY <1>1, <2>2, <2>3, <2>4
  <1>5. ThroughBatch(c, f)
    <2> SUFFICES ASSUME NEW i \in 0 .. n
                 PROVE  f[i] = IF i = 0
                                 THEN [inbox |-> inbox, conflicts |-> conflicts,
                                       answer |-> Failure("summary")]
                                 ELSE ingest(f[i - 1], c.observations[i], c.on_conflict)
      BY Zenon DEF ThroughBatch
    <2> HIDE DEF f
    <2> QED
      BY <1>1, <1>2, <1>4
  <1>6. IngestBatch(c) = f[n]
    BY <1>5, BatchOutcome
  <1>7. f[n] = stopped
    BY <1>1
  <1> QED
    BY <1>3, <1>6, <1>7

-----------------------------------------------------------------------------
\* A step that a transaction has taken stays one when another session commits:
\* the row it found is still there, and the key it found absent is its own.
LEMMA PartStepKept ==
    ASSUME NEW p \in Part, NEW q \in Part, NEW o \in Observation, NEW mode,
           PartStep(p, q, o, mode),
           \A k \in Keys : inbox[k] # NULL => inbox'[k] = inbox[k],
           \A k \in Keys : q.own[k] # NULL => inbox'[k] = NULL
    PROVE  PartStep(p, q, o, mode)'
  <1>0. o.key \in Keys /\ o # NULL
    BY DeliveriesAssumption DEF Observation
  <1>1. SeenBy(p, o.key)' = SeenBy(p, o.key)
    <2>1. CASE p.own[o.key] # NULL
      BY <2>1 DEF SeenBy
    <2>2. CASE p.own[o.key] = NULL /\ inbox[o.key] # NULL
      BY <1>0, <2>2 DEF SeenBy
    <2>3. CASE p.own[o.key] = NULL /\ inbox[o.key] = NULL
      <3>1. IngestOutcome(SeenBy(p, o.key), o) \in {"INVALID", "INSERTED"}
        BY <2>3 DEF SeenBy, IngestOutcome
      <3>2. q.own = [p.own EXCEPT ![o.key] = o]
        BY <3>1 DEF PartStep
      <3>3. q.own[o.key] = o
        BY <1>0, <3>2 DEF Part
      <3> QED
        BY <1>0, <2>3, <3>3 DEF SeenBy
    <2> QED
      BY <2>1, <2>2, <2>3
  <1>2. IngestOutcome(SeenBy(p, o.key), o)' = IngestOutcome(SeenBy(p, o.key), o)
    BY <1>1 DEF IngestOutcome, validate_observation_content_hash
  <1> QED
    BY <1>2 DEF PartStep

\* A transaction that stands still is led to where it is by the same deliveries,
\* whatever has been committed meanwhile.
LEMMA LedOther ==
    ASSUME TxConsistent, TxConsistent', NEW s \in Sessions, Led(s),
           tx'[s] = tx[s], call'[s] = call[s],
           \A k \in Keys : inbox[k] # NULL => inbox'[k] = inbox[k]
    PROVE  Led(s)'
  <1> SUFFICES ASSUME tx[s].pc # "closed" PROVE Led(s)'
    BY DEF Led
  <1>0. PICK t, c : t = tx[s] /\ c = call[s] /\ t = tx'[s] /\ c = call'[s]
    OBVIOUS
  <1>1. PICK g : Leads(c, g, t.at - 1, PartOf(t))
    BY <1>0 DEF Led
  <1>2. /\ t.at \in 1 .. Len(c.observations) + 1 /\ c \in Deliveries
        /\ Len(c.observations) \in Nat /\ c.observations \in Seq(Observation)
    <2>1. c \in Deliveries
      BY <1>0 DEF TxConsistent, Positioned
    <2> QED
      BY <1>0, <2>1, DeliveriesAssumption DEF Led
  <1>3. ASSUME NEW j \in 1 .. t.at - 1
        PROVE  PartStep(g[j - 1], g[j], c.observations[j], c.on_conflict)'
    <2>1. /\ j \in 0 .. t.at - 1 /\ j - 1 \in 0 .. t.at - 1
          /\ j \in 1 .. Len(c.observations)
      BY <1>2
    <2>2. /\ g[j] \in Part /\ g[j - 1] \in Part /\ c.observations[j] \in Observation
          /\ PartStep(g[j - 1], g[j], c.observations[j], c.on_conflict)
      BY <1>1, <1>2, <2>1 DEF Leads
    <2>3. \A k \in Keys : g[j].own[k] # NULL => inbox'[k] = NULL
      <3>1. \A k \in Keys : g[j].own[k] # NULL => tx'[s].own[k] # NULL
        BY <1>0, <1>1, <2>1 DEF Leads, PartOf
      <3> QED
        BY <3>1 DEF TxConsistent, InsertedKeyIsMine
    <2> QED
      BY <2>2, <2>3, PartStepKept
  <1>4. Leads(c, g, t.at - 1, PartOf(t))'
    BY <1>1, <1>3 DEF Leads, PartOf, Closed, Failure
  <1>5. ASSUME t.pc = "quarantine"
        PROVE  /\ c.on_conflict = "quarantine"
               /\ (IngestOutcome(Visible(s, Current(s).key), Current(s)) = "CONFLICT")'
    <2>1. PICK o : o = Current(s) /\ o = Current(s)'
      BY <1>0 DEF Current
    <2>2. o \in Observation /\ o.key \in Keys
      BY <1>0, <1>5, <2>1, CurrentType DEF Observation
    <2>3. IngestOutcome(Visible(s, o.key), o) = "CONFLICT" /\ c.on_conflict = "quarantine"
      BY <1>0, <1>5, <2>1 DEF Led
    <2>4. Visible(s, o.key) # NULL
      BY <2>3 DEF IngestOutcome
    <2>5. Visible(s, o.key)' = Visible(s, o.key)
      BY <2>2, <2>4 DEF Visible
    <2>6. IngestOutcome(Visible(s, o.key), o)' = IngestOutcome(Visible(s, o.key), o)
      BY <2>5 DEF IngestOutcome, validate_observation_content_hash
    <2> QED
      BY <2>1, <2>3, <2>6
  <1> QED
    BY <1>0, <1>4, <1>5 DEF Led, Current

\* While the rows stay as they are, deliveries lead where they led.
LEMMA LeadsKept ==
    ASSUME NEW c, NEW g, NEW i, NEW p, Leads(c, g, i, p), inbox' = inbox
    PROVE  Leads(c, g, i, p)'
  <1>1. ASSUME NEW j \in 1 .. i
        PROVE  PartStep(g[j - 1], g[j], c.observations[j], c.on_conflict)'
    <2>1. SeenBy(g[j - 1], c.observations[j].key)' = SeenBy(g[j - 1], c.observations[j].key)
      BY DEF SeenBy
    <2>2. IngestOutcome(SeenBy(g[j - 1], c.observations[j].key), c.observations[j])'
            = IngestOutcome(SeenBy(g[j - 1], c.observations[j].key), c.observations[j])
      BY <2>1 DEF IngestOutcome, validate_observation_content_hash
    <2> QED
      BY <2>2 DEF PartStep, Leads
  <1> QED
    BY <1>1 DEF Leads, PartOf, Closed, Failure

\* Going on to the next observation keeps what has been done, and reaches the
\* commit after the last one.
LEMMA AdvancedPart ==
    ASSUME NEW s \in Sessions, NEW t \in Transaction, call[s] \in Deliveries,
           t.at \in 1 .. Len(call[s].observations)
    PROVE  /\ PartOf(Advanced(s, t)) = PartOf(t)
           /\ Advanced(s, t).at = t.at + 1
           /\ Advanced(s, t).pc \notin {"insert", "quarantine"}
           /\ Advanced(s, t).pc = "commit" => t.at = Len(call[s].observations)
  <1>1. Len(call[s].observations) \in Nat
    BY DeliveriesAssumption
  <1> DEFINE pc == IF t.at < Len(call[s].observations) THEN "select" ELSE "commit"
  <1>2. pc \notin {"insert", "quarantine"} /\ (pc = "commit" => t.at = Len(call[s].observations))
    BY <1>1
  <1>3. Advanced(s, t) = [t EXCEPT !.at = t.at + 1, !.pc = pc]
    BY DEF Advanced
  <1> HIDE DEF pc
  <1> QED
    BY <1>2, <1>3 DEF Transaction, PartOf

\* A transaction takes in one more delivery.
LEMMA LedMove ==
    ASSUME TxConsistent, NEW s \in Sessions, Led(s), UNCHANGED public,
           tx[s].pc \in {"select", "insert", "quarantine"},
           NEW t \in Transaction, t.at = tx[s].at,
           PartOf(t) \in Part, tx' = [tx EXCEPT ![s] = Advanced(s, t)],
           PartStep(PartOf(tx[s]), PartOf(t), Current(s), call[s].on_conflict)
    PROVE  Led(s)'
  <1>1. /\ tx \in [Sessions -> Transaction] /\ inbox' = inbox /\ call' = call
        /\ tx'[s] = Advanced(s, t)
    BY DEF TxConsistent, TxTypeOK, public
  <1>2. PICK c, at : c = call[s] /\ at = t.at
    OBVIOUS
  <1>3. /\ c \in Deliveries /\ at \in 1 .. Len(c.observations)
        /\ Len(c.observations) \in Nat /\ c.observations \in Seq(Observation)
        /\ Current(s) = c.observations[at]
    BY <1>2, DeliveriesAssumption DEF TxConsistent, Positioned, Current
  <1>4. PICK g : Leads(c, g, at - 1, PartOf(tx[s]))
    BY <1>2 DEF Led
  <1> DEFINE h == [j \in 0 .. at |-> IF j < at THEN g[j] ELSE PartOf(t)]
  <1>5. /\ at \in Nat /\ at - 1 \in Nat /\ h[0] = g[0] /\ h[at] = PartOf(t)
        /\ h[at - 1] = PartOf(tx[s]) /\ PartOf(tx[s]) \in Part
        /\ \A j \in 0 .. at - 1 : h[j] = g[j]
    BY <1>3, <1>4 DEF Leads
  <1>6. h \in [0 .. at -> Part]
    <2> SUFFICES ASSUME NEW j \in 0 .. at PROVE h[j] \in Part
      OBVIOUS
    <2>1. j \in 0 .. at - 1 \/ j = at
      BY <1>5
    <2> HIDE DEF h
    <2> QED
      BY <1>4, <1>5, <2>1 DEF Leads
  <1> HIDE DEF h
  <1>7. ASSUME NEW j \in 1 .. at
        PROVE  PartStep(h[j - 1], h[j], c.observations[j], c.on_conflict)
    <2>1. CASE j = at
      BY <1>2, <1>3, <1>5, <2>1
    <2>2. CASE j # at
      <3>1. j \in 1 .. at - 1 /\ j \in 0 .. at - 1 /\ j - 1 \in 0 .. at - 1
        BY <1>5, <2>2
      <3> QED
        BY <1>4, <1>5, <3>1 DEF Leads
    <2> QED
      BY <2>1, <2>2
  <1>8. ASSUME NEW k \in Keys, tx[s].own[k] # NULL PROVE t.own[k] = tx[s].own[k]
    <2>1. Current(s) \in Observation
      BY CurrentType
    <2>2. PartOf(tx[s]).own = tx[s].own /\ PartOf(t).own = t.own /\ tx[s] \in Transaction
      BY <1>1 DEF PartOf
    <2>3. \/ t.own = tx[s].own
          \/ /\ IngestOutcome(SeenBy(PartOf(tx[s]), Current(s).key), Current(s)) = "INSERTED"
             /\ t.own = [tx[s].own EXCEPT ![Current(s).key] = Current(s)]
      BY <2>2 DEF PartStep
    <2>4. CASE t.own = tx[s].own
      BY <2>4
    <2>5. CASE /\ IngestOutcome(SeenBy(PartOf(tx[s]), Current(s).key), Current(s)) = "INSERTED"
               /\ t.own = [tx[s].own EXCEPT ![Current(s).key] = Current(s)]
      <3>1. SeenBy(PartOf(tx[s]), Current(s).key) = NULL
        BY <2>5 DEF IngestOutcome
      <3>2. tx[s].own[Current(s).key] = NULL
        BY <2>2, <3>1 DEF SeenBy
      <3>3. k # Current(s).key
        BY <1>8, <3>2
      <3> QED
        BY <2>2, <2>5, <3>3 DEF Transaction
    <2> QED
      BY <2>3, <2>4, <2>5
  <1>9. ASSUME NEW j \in 0 .. at, NEW k \in Keys, h[j].own[k] # NULL
        PROVE  h[j].own[k] = PartOf(t).own[k]
    <2>1. CASE j = at
      BY <1>5, <2>1
    <2>2. CASE j # at
      <3>1. j \in 0 .. at - 1
        BY <1>5, <2>2
      <3>2. h[j].own[k] = PartOf(tx[s]).own[k]
        BY <1>4, <1>5, <1>9, <3>1 DEF Leads
      <3> QED
        BY <1>8, <1>9, <3>2 DEF PartOf
    <2> QED
      BY <2>1, <2>2
  <1>10. Leads(c, h, at, PartOf(t))
    BY <1>4, <1>5, <1>6, <1>7, <1>9 DEF Leads
  <1>11. Leads(c, h, at, PartOf(t))'
    BY <1>1, <1>10, LeadsKept DEF PartOf
  <1>12. /\ PartOf(tx'[s]) = PartOf(t) /\ tx'[s].at = at + 1 /\ tx'[s].at - 1 = at
         /\ tx'[s].pc \notin {"insert", "quarantine"}
         /\ tx'[s].pc = "commit" => at = Len(c.observations)
    BY <1>1, <1>2, <1>3, <1>5, AdvancedPart
  <1>13. \E f : Leads(call[s], f, tx[s].at - 1, PartOf(tx[s]))'
    BY <1>1, <1>2, <1>11, <1>12
  <1> QED
    BY <1>1, <1>2, <1>3, <1>12, <1>13 DEF Led

\* A call that opens its transaction has been led nowhere yet.
LEMMA LedConnect ==
    ASSUME TxConsistent, NEW s \in Sessions, connect(s)
    PROVE  Led(s)'
  <1>1. PICK c \in Deliveries :
          /\ call' = [call EXCEPT ![s] = c]
          /\ tx' = [tx EXCEPT ![s] =
                      [Closed EXCEPT !.at = 1, !.counts = Failure("summary"),
                          !.pc = IF c.observations = <<>> THEN "commit" ELSE "select"]]
    BY DEF connect
  <1>2. call'[s] = c /\ Len(c.observations) \in Nat
        /\ (c.observations = <<>> <=> Len(c.observations) = 0)
    BY <1>1, DeliveriesAssumption DEF TxConsistent, TxTypeOK, TypeOK
  <1>3. tx'[s] = [Closed EXCEPT !.at = 1, !.counts = Failure("summary"),
                          !.pc = IF c.observations = <<>> THEN "commit" ELSE "select"]
    BY <1>1 DEF TxConsistent, TxTypeOK
  <1>4. /\ tx'[s].at = 1 /\ tx'[s].pc \notin {"insert", "quarantine"}
        /\ tx'[s].pc = "commit" => c.observations = <<>>
        /\ PartOf(tx'[s]) = PartOf([Closed EXCEPT !.counts = Failure("summary")])
    BY <1>3 DEF Closed, PartOf
  <1> DEFINE g == [j \in 0 .. 0 |-> PartOf([Closed EXCEPT !.counts = Failure("summary")])]
  <1>5. PartOf([Closed EXCEPT !.counts = Failure("summary")]) \in Part
    BY EmptyPart DEF TxConsistent, TxTypeOK
  <1>6. Leads(c, g, 0, PartOf([Closed EXCEPT !.counts = Failure("summary")]))'
    BY <1>5 DEF Leads, Part, Summaries, Answers, PartOf, Closed, Failure
  <1>7. \E f : Leads(call[s], f, tx[s].at - 1, PartOf(tx[s]))'
    BY <1>2, <1>4, <1>6
  <1> QED
    BY <1>2, <1>4, <1>7 DEF Led

-----------------------------------------------------------------------------
\* A session with an open transaction serves a call.
LEMMA OpenServes ==
    ASSUME TxConsistent, NEW s \in Sessions, tx[s].pc # "closed"
    PROVE  call[s] \in Deliveries /\ call[s] # NULL
  BY DeliveriesAssumption DEF TxConsistent, Positioned

\* A rollback leaves nothing open.
LEMMA LedRollback ==
    ASSUME TxConsistent, NEW s \in Sessions, NEW status, Rollback(s, status)
    PROVE  Led(s)'
  <1>1. tx'[s] = Closed
    BY DEF Rollback, TxConsistent, TxTypeOK
  <1> QED
    BY <1>1 DEF Led, Closed

\* A rollback for a reason of the database is a refusal.
LEMMA RollbackRefuses ==
    ASSUME TxConsistent, NEW s \in Sessions, tx[s].pc # "closed",
           NEW status \in {"error", "unavailable"}, Rollback(s, status)
    PROVE  Next
  <1>1. Refuse(s)
    BY OpenServes DEF Rollback, Refuse
  <1> QED
    BY <1>1 DEF Next

\* SELECT ... FOR UPDATE either stops the batch where the promise stops it, or
\* takes the transaction one delivery further and answers nothing yet.
LEMMA SelectRefines ==
    ASSUME TxConsistent, NEW s \in Sessions, Led(s), select_existing(s)
    PROVE  Led(s)' /\ [Next]_public
  <1> DEFINE o    == Current(s)
             here == [tx[s] EXCEPT !.locked = IF Visible(s, o.key) = NULL
                                                THEN @ ELSE @ \cup {o.key}]
             outcome == IngestOutcome(Visible(s, o.key), o)
  <1>1. tx[s].pc = "select" /\ tx[s] \in Transaction /\ TypeOK
    BY DEF select_existing, TxConsistent, TxTypeOK
  <1>2. o \in Observation /\ call[s] \in Deliveries /\ call[s] # NULL
    BY <1>1, CurrentType, OpenServes
  <1>3. tx[s].at \in 1 .. Len(call[s].observations) /\ o = call[s].observations[tx[s].at]
    BY <1>1 DEF TxConsistent, Positioned, Current
  <1>4. /\ here \in Transaction /\ PartOf(here) = PartOf(tx[s]) /\ here.at = tx[s].at
        /\ here.own = tx[s].own /\ here.quarantined = tx[s].quarantined
        /\ here.counts = tx[s].counts
    <2> DEFINE locks == IF Visible(s, o.key) = NULL THEN tx[s].locked
                                                  ELSE tx[s].locked \cup {o.key}
    <2>1. locks \subseteq Keys
      BY <1>1, <1>2 DEF Transaction, Observation
    <2>2. here = [tx[s] EXCEPT !.locked = locks]
      OBVIOUS
    <2> HIDE DEF locks, here
    <2> QED
      BY <1>1, <2>1, <2>2 DEF Transaction, PartOf
  <1>5. PICK g : Leads(call[s], g, tx[s].at - 1, PartOf(tx[s]))
    BY <1>1 DEF Led
  <1>6. PartOf(tx[s]) \in Part
    <2>1. tx[s].at - 1 \in 0 .. tx[s].at - 1
      BY <1>3, DeliveriesAssumption
    <2> QED
      BY <1>5, <2>1 DEF Leads
  <1>7. /\ Visible(s, o.key) = SeenBy(PartOf(tx[s]), o.key)
        /\ PartOf(tx[s]).own = tx[s].own /\ PartOf(tx[s]).quarantined = tx[s].quarantined
        /\ PartOf(tx[s]).counts = tx[s].counts
    BY DEF Visible, SeenBy, PartOf
  <1>8. \/ Rollback(s, "error")
        \/ outcome = "CONFLICT" /\ call[s].on_conflict = "raise" /\ Rollback(s, "conflict")
        \/ outcome = "INSERTED" /\ UNCHANGED public /\ tx' = [tx EXCEPT ![s].pc = "insert"]
        \/ /\ outcome = "IDEMPOTENT_REPLAY" /\ UNCHANGED public
           /\ tx' = [tx EXCEPT ![s] = Advanced(s, [here EXCEPT !.counts.replayed = @ + 1])]
        \/ /\ outcome = "CONFLICT" /\ call[s].on_conflict = "quarantine" /\ UNCHANGED public
           /\ tx' = [tx EXCEPT ![s] = [here EXCEPT !.pc = "quarantine"]]
    BY DEF select_existing
  <1> HIDE DEF here, o
  <1>9. CASE Rollback(s, "error")
    BY <1>1, <1>9, LedRollback, RollbackRefuses
  <1>10. CASE outcome = "CONFLICT" /\ call[s].on_conflict = "raise" /\ Rollback(s, "conflict")
    <2>1. IngestBatch(call[s]).answer = Failure("conflict")
      BY <1>1, <1>2, <1>3, <1>5, <1>6, <1>7, <1>10, ConflictIsBatch
    <2>2. Failure("conflict").status # "summary"
      BY DEF Failure
    <2>3. Ingest(s)
      BY <1>2, <1>10, <2>1, <2>2 DEF Rollback, Ingest
    <2> QED
      BY <1>10, <2>3, LedRollback DEF Next
  <1>11. CASE outcome = "INSERTED" /\ UNCHANGED public /\ tx' = [tx EXCEPT ![s].pc = "insert"]
    <2>1. /\ tx'[s].pc = "insert" /\ tx'[s].at = tx[s].at /\ tx'[s].own = tx[s].own
          /\ PartOf(tx'[s]) = PartOf(tx[s]) /\ call' = call /\ inbox' = inbox
      BY <1>1, <1>11 DEF TxConsistent, TxTypeOK, Transaction, PartOf, public
    <2>2. validate_observation_content_hash(o) /\ tx[s].own[o.key] = NULL
      BY <1>11 DEF IngestOutcome, Visible
    <2>3. Leads(call[s], g, tx[s].at - 1, PartOf(tx[s]))'
      <3>1. PICK c, n, p : c = call[s] /\ n = tx[s].at - 1 /\ p = PartOf(tx[s])
        OBVIOUS
      <3>2. Leads(c, g, n, p)'
        BY <1>5, <2>1, <3>1, LeadsKept
      <3>3. call'[s] = c /\ tx'[s].at - 1 = n /\ PartOf(tx'[s]) = p
        BY <2>1, <3>1
      <3> QED
        BY <3>2, <3>3
    <2>4. Current(s)' = o
      BY <2>1 DEF Current, o
    <2>5. /\ validate_observation_content_hash(Current(s))'
          /\ (tx[s].own[Current(s).key] = NULL)'
      BY <2>1, <2>2, <2>4 DEF validate_observation_content_hash
    <2>6. (tx[s].at \in 1 .. Len(call[s].observations) + 1)'
      BY <1>2, <1>3, <2>1, DeliveriesAssumption
    <2> QED
      BY <1>11, <2>1, <2>3, <2>5, <2>6 DEF Led
  <1>12. CASE /\ outcome = "IDEMPOTENT_REPLAY" /\ UNCHANGED public
              /\ tx' = [tx EXCEPT ![s] = Advanced(s, [here EXCEPT !.counts.replayed = @ + 1])]
    <2> DEFINE t == [here EXCEPT !.counts.replayed = @ + 1]
               sum == [tx[s].counts EXCEPT !.replayed = @ + 1]
    <2>1. sum \in Summaries
      BY <1>6, <1>7 DEF Part, Summaries, Answers
    <2>2. t = [here EXCEPT !.counts = sum]
      BY <1>4
    <2>3. tx' = [tx EXCEPT ![s] = Advanced(s, t)]
      BY <1>12
    <2>4. sum = [PartOf(tx[s]).counts EXCEPT !.replayed = @ + 1]
      BY <1>7
    <2> HIDE DEF t, sum
    <2>5. /\ t \in Transaction /\ t.at = tx[s].at /\ t.own = tx[s].own
          /\ t.quarantined = tx[s].quarantined /\ t.counts = sum
      BY <1>4, <2>1, <2>2 DEF Transaction, Summaries
    <2>6. /\ PartOf(t).own = tx[s].own /\ PartOf(t).quarantined = tx[s].quarantined
          /\ PartOf(t).counts = sum /\ PartOf(t) \in Part
      BY <1>6, <1>7, <2>1, <2>5 DEF PartOf, Part
    <2>7. PartStep(PartOf(tx[s]), PartOf(t), Current(s), call[s].on_conflict)
      BY <1>7, <1>12, <2>4, <2>6 DEF PartStep, o
    <2> QED
      BY <1>1, <1>12, <2>3, <2>5, <2>6, <2>7, LedMove
  <1>13. CASE /\ outcome = "CONFLICT" /\ call[s].on_conflict = "quarantine" /\ UNCHANGED public
              /\ tx' = [tx EXCEPT ![s] = [here EXCEPT !.pc = "quarantine"]]
    <2>1. /\ tx'[s].pc = "quarantine" /\ tx'[s].at = tx[s].at /\ tx'[s].own = tx[s].own
          /\ PartOf(tx'[s]) = PartOf(tx[s]) /\ call' = call /\ inbox' = inbox
      <3>1. tx'[s] = [here EXCEPT !.pc = "quarantine"]
        BY <1>13 DEF TxConsistent, TxTypeOK
      <3> QED
        BY <1>4, <1>13, <3>1 DEF Transaction, PartOf, public
    <2>2. PICK c, n, p : c = call[s] /\ n = tx[s].at - 1 /\ p = PartOf(tx[s])
      OBVIOUS
    <2>3. call'[s] = c /\ tx'[s].at - 1 = n /\ PartOf(tx'[s]) = p
      BY <2>1, <2>2
    <2>4. Leads(c, g, n, p)'
      BY <1>5, <2>1, <2>2, LeadsKept
    <2>5. PICK d : d = o /\ d = Current(s)'
      BY <2>1 DEF Current, o
    <2>6. IngestOutcome(Visible(s, d.key), d)' = "CONFLICT"
      BY <1>13, <2>1, <2>5 DEF IngestOutcome, Visible, validate_observation_content_hash
    <2>7. (IngestOutcome(Visible(s, Current(s).key), Current(s)) = "CONFLICT")'
      BY <2>5, <2>6
    <2>8. (tx[s].at \in 1 .. Len(call[s].observations) + 1)'
      BY <1>2, <1>3, <2>1, DeliveriesAssumption
    <2> QED
      BY <1>13, <2>1, <2>3, <2>4, <2>7, <2>8 DEF Led
  <1> QED
    BY <1>8, <1>9, <1>10, <1>11, <1>12, <1>13

\* The INSERT takes the delivery in, or is refused.
LEMMA InsertRefines ==
    ASSUME TxConsistent, NEW s \in Sessions, Led(s), _insert_observation(s)
    PROVE  Led(s)' /\ [Next]_public
  <1> DEFINE o == Current(s)
             t == [tx[s] EXCEPT !.own[o.key] = o, !.counts.inserted = @ + 1]
  <1>1. tx[s].pc = "insert" /\ tx[s] \in Transaction
    BY DEF _insert_observation, TxConsistent, TxTypeOK
  <1>2. o \in Observation /\ call[s] \in Deliveries /\ o.key \in Keys
    BY <1>1, CurrentType DEF Observation
  <1>3. tx[s].at \in 1 .. Len(call[s].observations)
    BY <1>1 DEF TxConsistent, Positioned
  <1>4. \/ inbox[o.key] = NULL /\ UNCHANGED public /\ tx' = [tx EXCEPT ![s] = Advanced(s, t)]
        \/ Rollback(s, "error")
    BY DEF _insert_observation
  <1>5. CASE Rollback(s, "error")
    BY <1>1, <1>5, LedRollback, RollbackRefuses
  <1>6. CASE inbox[o.key] = NULL /\ UNCHANGED public /\ tx' = [tx EXCEPT ![s] = Advanced(s, t)]
    <2> DEFINE mine == [tx[s].own EXCEPT ![o.key] = o]
               sum  == [tx[s].counts EXCEPT !.inserted = @ + 1]
    <2>1. PartOf(tx[s]) \in Part
      <3>1. PICK g : Leads(call[s], g, tx[s].at - 1, PartOf(tx[s]))
        BY <1>1 DEF Led
      <3>2. tx[s].at - 1 \in 0 .. tx[s].at - 1
        BY <1>2, <1>3, DeliveriesAssumption
      <3> QED
        BY <3>1, <3>2 DEF Leads
    <2>2. /\ PartOf(tx[s]).own = tx[s].own /\ PartOf(tx[s]).counts = tx[s].counts
          /\ PartOf(tx[s]).quarantined = tx[s].quarantined
      BY DEF PartOf
    <2>3. mine \in [Keys -> Observation \cup {NULL}]
      BY <1>1, <1>2 DEF Transaction
    <2>4. sum \in Summaries
      BY <2>1, <2>2 DEF Part, Summaries, Answers
    <2>5. t = [tx[s] EXCEPT !.own = mine, !.counts = sum]
      BY <1>1 DEF Transaction
    <2>6. IngestOutcome(SeenBy(PartOf(tx[s]), o.key), o) = "INSERTED"
      BY <1>1, <1>6, <2>2 DEF Led, SeenBy, IngestOutcome
    <2>7. /\ mine = [PartOf(tx[s]).own EXCEPT ![o.key] = o]
          /\ sum = [PartOf(tx[s]).counts EXCEPT !.inserted = @ + 1]
      BY <2>2
    <2> HIDE DEF t, mine, sum, o
    <2>8. /\ t \in Transaction /\ t.at = tx[s].at /\ t.own = mine
          /\ t.quarantined = tx[s].quarantined /\ t.counts = sum
      BY <1>1, <2>3, <2>4, <2>5 DEF Transaction, Summaries
    <2>9. /\ PartOf(t).own = mine /\ PartOf(t).quarantined = tx[s].quarantined
          /\ PartOf(t).counts = sum /\ PartOf(t) \in Part
      BY <2>1, <2>2, <2>3, <2>4, <2>8 DEF PartOf, Part
    <2>10. PartStep(PartOf(tx[s]), PartOf(t), Current(s), call[s].on_conflict)
      BY <2>2, <2>6, <2>7, <2>9 DEF PartStep, o
    <2> QED
      BY <1>1, <1>6, <2>8, <2>9, <2>10, LedMove
  <1> QED
    BY <1>4, <1>5, <1>6

\* The INSERT into the quarantine takes the delivery in.
LEMMA QuarantineRefines ==
    ASSUME TxConsistent, NEW s \in Sessions, Led(s), _quarantine_conflict(s)
    PROVE  Led(s)' /\ [Next]_public
  <1> DEFINE o    == Current(s)
             t    == [tx[s] EXCEPT !.quarantined[o.observation_id] = IF @ = NULL THEN o ELSE @,
                                   !.counts.conflicted = @ + 1]
             kept == [tx[s].quarantined EXCEPT ![o.observation_id] = IF @ = NULL THEN o ELSE @]
             sum  == [tx[s].counts EXCEPT !.conflicted = @ + 1]
  <1>1. tx[s].pc = "quarantine" /\ tx[s] \in Transaction
    BY DEF _quarantine_conflict, TxConsistent, TxTypeOK
  <1>2. o \in Observation /\ call[s] \in Deliveries
    BY <1>1, CurrentType
  <1>3. tx[s].at \in 1 .. Len(call[s].observations)
    BY <1>1 DEF TxConsistent, Positioned
  <1>4. PartOf(tx[s]) \in Part
    <2>1. PICK g : Leads(call[s], g, tx[s].at - 1, PartOf(tx[s]))
      BY <1>1 DEF Led
    <2>2. tx[s].at - 1 \in 0 .. tx[s].at - 1
      BY <1>2, <1>3, DeliveriesAssumption
    <2> QED
      BY <2>1, <2>2 DEF Leads
  <1>5. /\ PartOf(tx[s]).own = tx[s].own /\ PartOf(tx[s]).counts = tx[s].counts
        /\ PartOf(tx[s]).quarantined = tx[s].quarantined
    BY DEF PartOf
  <1>6. /\ IngestOutcome(SeenBy(PartOf(tx[s]), o.key), o) = "CONFLICT"
        /\ call[s].on_conflict = "quarantine"
    BY <1>1, <1>5 DEF Led, SeenBy, Visible
  <1>7. sum \in Summaries
    BY <1>4, <1>5 DEF Part, Summaries, Answers
  <1>8. kept \in [ObservationIds -> Observation \cup {NULL}]
    BY <1>1, <1>2 DEF Transaction, Observation
  <1>9. t = [tx[s] EXCEPT !.quarantined = kept, !.counts = sum]
    BY <1>1 DEF Transaction
  <1>10. UNCHANGED public /\ tx' = [tx EXCEPT ![s] = Advanced(s, t)]
    BY DEF _quarantine_conflict
  <1>11. /\ sum = [PartOf(tx[s]).counts EXCEPT !.conflicted = @ + 1]
         /\ kept = [PartOf(tx[s]).quarantined EXCEPT ![o.observation_id] =
                        IF @ = NULL THEN o ELSE @]
    BY <1>5
  <1> HIDE DEF t, sum, kept, o
  <1>12. /\ t \in Transaction /\ t.at = tx[s].at /\ t.own = tx[s].own
         /\ t.quarantined = kept /\ t.counts = sum
    BY <1>1, <1>7, <1>8, <1>9 DEF Transaction, Summaries
  <1>13. /\ PartOf(t).own = tx[s].own /\ PartOf(t).quarantined = kept
         /\ PartOf(t).counts = sum /\ PartOf(t) \in Part
    BY <1>4, <1>5, <1>7, <1>8, <1>12 DEF PartOf, Part
  <1>14. PartStep(PartOf(tx[s]), PartOf(t), Current(s), call[s].on_conflict)
    BY <1>5, <1>6, <1>11, <1>13 DEF PartStep, o
  <1> QED
    BY <1>1, <1>10, <1>12, <1>13, <1>14, LedMove

\* The commit is the whole batch at once, on the rows as they are at that moment.
LEMMA CommitRefines ==
    ASSUME TxConsistent, NEW s \in Sessions, Led(s), commit(s)
    PROVE  Led(s)' /\ Next
  <1>1. tx[s].pc = "commit" /\ TypeOK /\ call[s] \in Deliveries /\ call[s] # NULL
    BY OpenServes DEF commit, TxConsistent, TxTypeOK
  <1>2. PICK g : Leads(call[s], g, tx[s].at - 1, PartOf(tx[s]))
    BY <1>1 DEF Led
  <1>3. Len(call[s].observations) \in Nat /\ tx[s].at - 1 = Len(call[s].observations)
    <2>1. tx[s].at = Len(call[s].observations) + 1
      BY <1>1 DEF Led
    <2>2. call[s].observations \in Seq(Observation)
      BY <1>1, DeliveriesAssumption
    <2> QED
      BY <2>1, <2>2
  <1>4. PartOf(tx[s]) \in Part
    <2>1. tx[s].at - 1 \in 0 .. tx[s].at - 1
      BY <1>3
    <2> QED
      BY <1>2, <2>1 DEF Leads
  <1>5. IngestBatch(call[s]) = AsBatch(PartOf(tx[s]))
    BY <1>1, <1>2, <1>3, <1>4, CommitIsBatch
  <1>6. /\ IngestBatch(call[s]).answer = tx[s].counts
        /\ IngestBatch(call[s]).answer.status = "summary"
        /\ IngestBatch(call[s]).inbox = inbox'
        /\ IngestBatch(call[s]).conflicts = conflicts'
    <2>1. /\ PartOf(tx[s]).own = tx[s].own /\ PartOf(tx[s]).counts = tx[s].counts
          /\ PartOf(tx[s]).quarantined = tx[s].quarantined
      BY DEF PartOf
    <2>2. /\ AsBatch(PartOf(tx[s])).answer = tx[s].counts
          /\ AsBatch(PartOf(tx[s])).inbox =
                [k \in Keys |-> IF tx[s].own[k] # NULL THEN tx[s].own[k] ELSE inbox[k]]
          /\ AsBatch(PartOf(tx[s])).conflicts =
                [id \in ObservationIds |-> IF conflicts[id] = NULL THEN tx[s].quarantined[id]
                                                                   ELSE conflicts[id]]
      BY <2>1 DEF AsBatch, SeenBy
    <2>3. tx[s].counts.status = "summary"
      BY <1>4, <2>1 DEF Part, Summaries
    <2> QED
      BY <1>5, <2>2, <2>3 DEF commit
  <1>7. Ingest(s)
    BY <1>1, <1>6 DEF Ingest, commit
  <1>8. tx'[s] = Closed
    BY DEF commit, TxConsistent, TxTypeOK
  <1> QED
    BY <1>7, <1>8 DEF Led, Closed, Next

\* Every step of the adapter is a step of the promise or none at all, and leaves
\* every transaction led to where it is.
LEMMA StepRefines ==
    ASSUME TxConsistent, TxConsistent', \A s \in Sessions : Led(s), [TxNext]_vars
    PROVE  (\A s \in Sessions : Led(s)') /\ [Next]_public
  <1>1. ASSUME NEW s \in Sessions,
               connect(s) \/ Statement(s) \/ cancel(s) \/ deadlock_detected(s)
        PROVE  (\A r \in Sessions : Led(r)') /\ [Next]_public
    <2>1. Led(s)' /\ [Next]_public
      <3>1. CASE connect(s)
        <4>1. Begin(s)
          BY <3>1 DEF connect, Begin
        <4> QED
          BY <3>1, <4>1, LedConnect DEF Next
      <3>2. CASE select_existing(s)
        BY <3>2, SelectRefines
      <3>3. CASE _insert_observation(s)
        BY <3>3, InsertRefines
      <3>4. CASE commit(s)
        BY <3>4, CommitRefines
      <3>5. CASE cancel(s) \/ deadlock_detected(s)
        <4>1. tx[s].pc # "closed" /\ Rollback(s, "unavailable")
          BY <3>5 DEF cancel, deadlock_detected, Waiting, WaitsFor
        <4> QED
          BY <4>1, LedRollback, RollbackRefuses
      <3>6. CASE _quarantine_conflict(s)
        BY <3>6, QuarantineRefines
      <3> QED
        BY <1>1, <3>1, <3>2, <3>3, <3>4, <3>5, <3>6 DEF Statement
    <2>2. ASSUME NEW r \in Sessions, r # s PROVE Led(r)'
      <3>0. tx \in [Sessions -> Transaction] /\ call \in [Sessions -> Deliveries \cup {NULL}]
        BY DEF TxConsistent, TxTypeOK, TypeOK
      <3>1. tx'[r] = tx[r] /\ call'[r] = call[r]
        <4>1. CASE connect(s)
          BY <2>2, <3>0, <4>1 DEF connect
        <4>2. CASE select_existing(s)
          BY <2>2, <3>0, <4>2 DEF select_existing, Rollback, public
        <4>3. CASE _insert_observation(s)
          BY <2>2, <3>0, <4>3 DEF _insert_observation, Rollback, public
        <4>4. CASE commit(s)
          BY <2>2, <3>0, <4>4 DEF commit
        <4>5. CASE cancel(s) \/ deadlock_detected(s)
          BY <2>2, <3>0, <4>5 DEF cancel, deadlock_detected, Rollback
        <4>6. CASE _quarantine_conflict(s)
          BY <2>2, <3>0, <4>6 DEF _quarantine_conflict, public
        <4> QED
          BY <1>1, <4>1, <4>2, <4>3, <4>4, <4>5, <4>6 DEF Statement
      <3>2. ASSUME NEW k \in Keys, inbox[k] # NULL PROVE inbox'[k] = inbox[k]
        <4>1. CASE commit(s)
          <5>1. tx[s].own[k] = NULL
            BY <3>2 DEF TxConsistent, InsertedKeyIsMine
          <5> QED
            BY <4>1, <5>1 DEF commit
        <4>2. CASE ~commit(s)
          <5>1. inbox' = inbox
            BY <1>1, <4>2 DEF Statement, connect, select_existing, _insert_observation,
                              _quarantine_conflict, cancel, deadlock_detected, Rollback, public
          <5> QED
            BY <5>1
        <4> QED
          BY <4>1, <4>2
      <3> QED
        BY <3>1, <3>2, LedOther
    <2> QED
      BY <2>1, <2>2
  <1>2. CASE UNCHANGED vars
    <2>1. UNCHANGED public /\ tx' = tx /\ inbox' = inbox /\ call' = call
      BY <1>2 DEF vars, public
    <2>2. \A s \in Sessions : Led(s)'
      BY <2>1, LedOther
    <2> QED
      BY <2>1, <2>2
  <1> QED
    BY <1>1, <1>2 DEF TxNext

\* Concurrent transactions, their waits, failures and cancellations implement
\* whole batches taken one after the other, for any batches and any number of
\* sessions: nothing is half-applied, overwritten, counted under the wrong
\* outcome or lost from quarantine (adapter.py, ingest_observations; inbox.py).
THEOREM AdapterImplementsInbox == TxSpec => ImplementsInbox
  <1> DEFINE AllLed == \A s \in Sessions : Led(s)
  <1>1. TxInit => Init /\ AllLed
    BY DEF TxInit, Led, Closed
  <1>2. TxConsistent /\ TxConsistent' /\ AllLed /\ [TxNext]_vars => AllLed' /\ [Next]_public
    BY StepRefines
  <1> HIDE DEF AllLed
  <1> QED
    BY <1>1, <1>2, InitTxConsistent, NextTxConsistent, PTL DEF TxSpec, ImplementsInbox, Spec

=============================================================================
