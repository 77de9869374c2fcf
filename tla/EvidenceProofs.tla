--------------------------- MODULE EvidenceProofs ---------------------------
(***************************************************************************)
(* Frozen evidence is about a correction that took place: proof of         *)
(* EvidenceShowsTheCorrection on top of the invariant of RemediationProofs.*)
(***************************************************************************)
EXTENDS RemediationProofs

\* Among the first n booking revisions of the case's trade is its correction.
Shown(c, n) ==
    \E i \in 1 .. n :
        /\ i <= Len(bookings[cases[c].trade_id])
        /\ bookings[cases[c].trade_id][i] = [value |-> cases[c].expected_value, origin |-> c]

\* A request past its applied execution has recorded it; past the feedback the
\* correction is in the inbox; past the rerun's read it is among what was read.
TailOK(r) ==
    /\ r.pc \in Applied => executions[r.case]["SUCCESS"] > 0
    /\ r.pc = "rerun_read" => Shown(r.case, Len(bookings[cases[r.case].trade_id]))
    /\ r.pc \in {"rerun_version", "rerun_persist", "finalize"} =>
          Shown(r.case, r.seen[cases[r.case].trade_id].revision)

FrozenOK(c) ==
    evidence[c] # NULL =>
        /\ cases[c] # NULL
        /\ evidence[c].executions["SUCCESS"] > 0
        /\ Shown(c, evidence[c].reconciled.revision)

\* EvidenceShowsTheCorrection with what makes it inductive next to IInv.
EvidenceInv ==
    /\ \A w \in Workers : TailOK(req[w])
    /\ \A c \in CaseIds : FrozenOK(c)

\* The inbox and the execution log are append-only, a case is never changed.
Appends ==
    /\ \A t \in Trades :
          /\ Len(bookings[t]) <= Len(bookings'[t])
          /\ \A i \in 1 .. Len(bookings[t]) : bookings'[t][i] = bookings[t][i]
    /\ \A c \in CaseIds : executions'[c]["SUCCESS"] >= executions[c]["SUCCESS"]
    /\ \A c \in CaseIds : cases[c] # NULL => cases'[c] = cases[c]

-----------------------------------------------------------------------------
\* Nothing is applied or frozen in a freshly loaded corpus.
LEMMA EvidenceInit == Init => EvidenceInv
  BY DEF Init, EvidenceInv, TailOK, FrozenOK, Idle, Applied, Enveloped, Approved, OfCase, Points

\* A sequence with one more element keeps the others.
LEMMA AppendKeeps ==
    ASSUME NEW S, NEW s \in Seq(S), NEW e \in S
    PROVE  /\ Len(s) <= Len(Append(s, e))
           /\ \A i \in 1 .. Len(s) : Append(s, e)[i] = s[i]
           /\ Append(s, e)[Len(s) + 1] = e /\ Len(Append(s, e)) = Len(s) + 1
  OBVIOUS

\* What stays when no booking, execution row or case is touched.
LEMMA NothingAppended ==
    ASSUME IInv, UNCHANGED <<bookings, executions, cases>> PROVE Appends
  <1>1. \A t \in Trades : Len(bookings[t]) \in Nat
    BY DEF IInv, TypeOK
  <1>2. \A c \in CaseIds : executions[c]["SUCCESS"] \in Nat
    BY DEF IInv, TypeOK, Outcomes
  <1> QED
    BY <1>1, <1>2 DEF Appends

\* One booking revision more.
LEMMA BookingAppended ==
    ASSUME IInv, NEW t \in Trades, NEW b \in Booking,
           bookings' = [bookings EXCEPT ![t] = Append(@, b)],
           UNCHANGED <<executions, cases>>
    PROVE  /\ Appends
           /\ Len(bookings'[t]) = Len(bookings[t]) + 1
           /\ bookings'[t][Len(bookings'[t])] = b
  <1>1. bookings \in [Trades -> Seq(Booking)]
    BY DEF IInv, TypeOK
  <1>2. \A c \in CaseIds : executions[c]["SUCCESS"] \in Nat
    BY DEF IInv, TypeOK, Outcomes
  <1>3. bookings'[t] = Append(bookings[t], b)
    BY <1>1
  <1>4. \A s \in Trades \ {t} : bookings'[s] = bookings[s]
    BY <1>1
  <1>5. bookings[t] \in Seq(Booking) /\ \A s \in Trades : Len(bookings[s]) \in Nat
    BY <1>1
  <1>6. ASSUME NEW s \in Trades
        PROVE  /\ Len(bookings[s]) <= Len(bookings'[s])
               /\ \A i \in 1 .. Len(bookings[s]) : bookings'[s][i] = bookings[s][i]
    <2>1. CASE s = t
      BY <1>3, <1>5, <2>1, AppendKeeps
    <2>2. CASE s # t
      BY <1>4, <1>5, <2>2
    <2> QED
      BY <2>1, <2>2
  <1>7. Len(bookings'[t]) = Len(bookings[t]) + 1 /\ bookings'[t][Len(bookings'[t])] = b
    BY <1>3, <1>5, AppendKeeps
  <1> QED
    BY <1>2, <1>6, <1>7 DEF Appends

\* What has been shown stays shown.
LEMMA ShownForever ==
    ASSUME IInv, TypeOK', Appends, NEW c \in CaseIds, cases[c] # NULL,
           NEW n \in Nat, NEW m \in Nat, n <= m, Shown(c, n)
    PROVE  Shown(c, m)'
  <1>1. cases'[c] = cases[c] /\ cases[c].trade_id \in Trades
    BY DEF Appends, IInv, TypeOK, Case
  <1> DEFINE t == cases[c].trade_id
  <1>2. PICK i \in 1 .. n :
          /\ i <= Len(bookings[t])
          /\ bookings[t][i] = [value |-> cases[c].expected_value, origin |-> c]
    BY DEF Shown
  <1>3. Len(bookings[t]) \in Nat
    BY <1>1 DEF IInv, TypeOK
  <1>4. Len(bookings[t]) <= Len(bookings'[t]) /\ bookings'[t][i] = bookings[t][i]
    BY <1>1, <1>2, <1>3 DEF Appends
  <1>5. i \in 1 .. m
    BY <1>2
  <1>6. i <= Len(bookings'[t])
    <2>1. Len(bookings'[t]) \in Nat
      BY <1>1 DEF TypeOK
    <2> QED
      BY <1>2, <1>3, <1>4, <2>1
  <1> QED
    BY <1>1, <1>2, <1>4, <1>5, <1>6 DEF Shown

\* A request that does not move keeps what it has shown.
LEMMA OthersTail ==
    ASSUME IInv, IInv', Appends, NEW u \in Workers, req'[u] = req[u], TailOK(req[u])
    PROVE  TailOK(req[u])'
  <1>0. PICK r \in Request : r = req[u] /\ r = req'[u] /\ RequestOK(r)
    BY DEF IInv, TypeOK
  <1>1. CASE r.pc \notin Applied
    BY <1>0, <1>1 DEF TailOK, Applied, Enveloped, Approved, OfCase, Points
  <1>2. CASE r.pc \in Applied
    <2>1. PICK c \in CaseIds : c = r.case /\ cases[c] # NULL /\ cases'[c] = cases[c]
      BY <1>0, <1>2 DEF RequestOK, Applied, Enveloped, Approved, Appends
    <2>2. PICK t \in Trades : t = cases[c].trade_id /\ t = cases'[c].trade_id
      BY <2>1 DEF IInv, TypeOK, Case
    <2>3. executions[c]["SUCCESS"] \in Nat /\ executions'[c]["SUCCESS"] \in Nat
      BY DEF IInv, TypeOK, Outcomes
    <2>4. executions[c]["SUCCESS"] > 0 /\ executions'[c]["SUCCESS"] >= executions[c]["SUCCESS"]
      BY <1>0, <1>2, <2>1 DEF TailOK, Appends
    <2>5. executions'[c]["SUCCESS"] > 0
      BY <2>3, <2>4
    <2>6. Len(bookings[t]) \in Nat /\ Len(bookings'[t]) \in Nat
      BY DEF IInv, TypeOK
    <2>7. r.pc = "rerun_read" => Shown(c, Len(bookings[t]))'
      <3> SUFFICES ASSUME r.pc = "rerun_read" PROVE Shown(c, Len(bookings[t]))'
        OBVIOUS
      <3>1. Shown(c, Len(bookings[t])) /\ Len(bookings[t]) <= Len(bookings'[t])
        BY <1>0, <2>1, <2>2 DEF TailOK, Appends
      <3>2. PICK m \in Nat : m = Len(bookings'[t])
        BY <2>6
      <3> HIDE DEF Shown
      <3>3. Shown(c, m)'
        BY <2>1, <2>6, <3>1, <3>2, ShownForever DEF IInv
      <3> QED
        BY <3>2, <3>3 DEF Shown
    <2>8. r.pc \in {"rerun_version", "rerun_persist", "finalize"} =>
             Shown(c, r.seen[t].revision)'
      <3> SUFFICES ASSUME r.pc \in {"rerun_version", "rerun_persist", "finalize"}
                   PROVE  Shown(c, r.seen[t].revision)'
        OBVIOUS
      <3>1. r.seen[t].revision \in Nat
        BY <1>0 DEF RequestOK, Reading, Request, Snapshot
      <3>2. Shown(c, r.seen[t].revision)
        BY <1>0, <2>1, <2>2 DEF TailOK
      <3>3. PICK n \in Nat : n = r.seen[t].revision
        BY <3>1
      <3>4. Shown(c, n)'
        BY <2>1, <3>2, <3>3, ShownForever DEF IInv
      <3> QED
        BY <3>3, <3>4
    <2> QED
      BY <1>0, <2>1, <2>2, <2>5, <2>7, <2>8 DEF TailOK
  <1> QED
    BY <1>1, <1>2

\* Before its correction is applied a request has nothing to show.
LEMMA EarlyTail ==
    ASSUME NEW u \in Workers, req'[u].pc \notin Applied PROVE TailOK(req[u])'
  BY DEF TailOK, Applied, Enveloped, Approved, OfCase, Points

\* Frozen evidence that a step leaves alone stays right.
LEMMA FrozenForever ==
    ASSUME IInv, IInv', Appends, NEW c \in CaseIds, evidence'[c] = evidence[c], FrozenOK(c)
    PROVE  FrozenOK(c)'
  <1> SUFFICES ASSUME evidence[c] # NULL
               PROVE  /\ cases'[c] # NULL
                      /\ evidence[c].executions["SUCCESS"] > 0
                      /\ Shown(c, evidence[c].reconciled.revision)'
    BY DEF FrozenOK
  <1>1. /\ cases[c] # NULL /\ cases'[c] = cases[c]
        /\ evidence[c].executions["SUCCESS"] > 0
        /\ Shown(c, evidence[c].reconciled.revision)
    BY DEF FrozenOK, Appends
  <1>2. PICK n \in Nat : n = evidence[c].reconciled.revision
    BY DEF IInv, TypeOK, Evidence, Snapshot
  <1>3. Shown(c, n)'
    BY <1>1, <1>2, ShownForever DEF IInv
  <1> QED
    BY <1>1, <1>2, <1>3

\* What is left to show of a step of one worker that freezes nothing.
LEMMA EvidenceStep ==
    ASSUME IInv, IInv', EvidenceInv, Appends, UNCHANGED evidence, NEW w \in Workers,
           \A u \in Workers \ {w} : req'[u] = req[u],
           TailOK(req[w])'
    PROVE  EvidenceInv'
  <1>1. ASSUME NEW u \in Workers PROVE TailOK(req[u])'
    BY OthersTail DEF EvidenceInv
  <1>2. ASSUME NEW c \in CaseIds PROVE FrozenOK(c)'
    BY FrozenForever DEF EvidenceInv
  <1> QED
    BY <1>1, <1>2 DEF EvidenceInv

-----------------------------------------------------------------------------
\* Deliveries, the clock, restarts and deaths take no evidence back.
LEMMA WorldEvidence ==
    ASSUME IInv, IInv', EvidenceInv, World PROVE EvidenceInv'
  <1> USE DEF sources, store, clock
  <1>1. UNCHANGED <<executions, cases, evidence>>
    BY DEF World, DeliverExecution, DeliverBooking, ExpireEnvelope, Restart, Crash
  <1>2. Appends
    <2>1. ASSUME NEW t \in Trades, NEW v \in Values, DeliverBooking(t, v) PROVE Appends
      <3>1. [value |-> v, origin |-> NULL] \in Booking
        BY DEF Booking
      <3> QED
        BY <1>1, <2>1, <3>1, BookingAppended DEF DeliverBooking
    <2>2. CASE UNCHANGED bookings
      BY <1>1, <2>2, NothingAppended
    <2> QED
      BY <2>1, <2>2 DEF World, DeliverExecution, ExpireEnvelope, Restart, Crash
  <1>3. ASSUME NEW u \in Workers PROVE TailOK(req[u])'
    <2>1. req'[u] = req[u] \/ req'[u] = Idle
      BY DEF World, DeliverExecution, DeliverBooking, ExpireEnvelope, Restart, Crash, IInv,
             TypeOK
    <2>2. Idle.pc \notin Applied
      BY DEF Idle, Applied, Enveloped, Approved, OfCase
    <2> QED
      BY <1>2, <2>1, <2>2, OthersTail, EarlyTail DEF EvidenceInv
  <1>4. ASSUME NEW c \in CaseIds PROVE FrozenOK(c)'
    BY <1>1, <1>2, FrozenForever DEF EvidenceInv
  <1> QED
    BY <1>3, <1>4 DEF EvidenceInv

\* The first transaction of a handler applies nothing and freezes nothing.
LEMMA CallEvidence ==
    ASSUME IInv, IInv', EvidenceInv, NEW w \in Workers, Call(w) PROVE EvidenceInv'
  <1> USE DEF sources, store, clock
  <1>0. req \in [Workers -> Request]
    BY DEF IInv, TypeOK
  <1>1. UNCHANGED <<bookings, executions, evidence>>
    BY DEF Call, run_reconciliation, generate_case, submit_approval, remediation_execute
  <1>2. \A c \in CaseIds : cases[c] # NULL => cases'[c] = cases[c]
    BY DEF Call, run_reconciliation, generate_case, submit_approval, remediation_execute, IInv,
           TypeOK
  <1>3. Appends
    <2>1. \A t \in Trades : Len(bookings[t]) \in Nat
      BY DEF IInv, TypeOK
    <2>2. \A c \in CaseIds : executions[c]["SUCCESS"] \in Nat
      BY DEF IInv, TypeOK, Outcomes
    <2> QED
      BY <1>1, <1>2, <2>1, <2>2 DEF Appends
  <1>4. \A u \in Workers \ {w} : req'[u] = req[u]
    BY <1>0 DEF Call, run_reconciliation, generate_case, submit_approval, remediation_execute
  <1>5. req'[w].pc \in {"persist_canonical", "seed", "insert_approval", "envelope"}
    <2>1. CASE run_reconciliation(w)
      BY <1>0, <2>1 DEF run_reconciliation, Idle
    <2>2. ASSUME NEW c \in CaseIds, NEW b \in breaks, generate_case(w, c, b)
          PROVE  req'[w].pc = "seed"
      BY <1>0, <2>2 DEF generate_case, Idle
    <2>3. ASSUME NEW c \in CaseIds, NEW role \in Roles, NEW i \in Identities,
                 submit_approval(w, c, role, i)
          PROVE  req'[w].pc = "insert_approval"
      BY <1>0, <2>3 DEF submit_approval, Idle
    <2>4. ASSUME NEW c \in CaseIds, remediation_execute(w, c)
          PROVE  req'[w].pc = "envelope"
      BY <1>0, <2>4 DEF remediation_execute, Idle
    <2> QED
      BY <2>1, <2>2, <2>3, <2>4, Zenon DEF Call
  <1>6. TailOK(req[w])'
    BY <1>5, EarlyTail DEF Applied, Enveloped, Approved, OfCase
  <1> QED
    BY <1>1, <1>3, <1>4, <1>6, EvidenceStep

\* The later transactions: the applied row is recorded, the correction fed
\* back, read by the rerun and frozen, in this order.
LEMMA ProceedEvidence ==
    ASSUME IInv, IInv', EvidenceInv, NEW w \in Workers, Proceed(w) PROVE EvidenceInv'
  <1> USE DEF sources, store, clock
  <1>0. /\ req \in [Workers -> Request] /\ req[w] \in Request
        /\ RequestOK(req[w]) /\ TailOK(req[w])
    BY DEF IInv, TypeOK, EvidenceInv
  <1> DEFINE Quiet == UNCHANGED <<bookings, executions, cases, evidence>>
             Others == \A u \in Workers \ {w} : req'[u] = req[u]
  <1>a. Idle.pc \notin Applied
    BY DEF Idle, Applied, Enveloped, Approved, OfCase
  <1>b. req[w].pc \in Applied =>
          /\ req[w].case \in CaseIds /\ cases[req[w].case] # NULL
          /\ req[w].envelope.trade_id = cases[req[w].case].trade_id
          /\ req[w].envelope.approved_value = cases[req[w].case].expected_value
          /\ cases[req[w].case].trade_id \in Trades
          /\ cases[req[w].case].expected_value \in Values
          /\ executions[req[w].case]["SUCCESS"] > 0
    <2> SUFFICES ASSUME req[w].pc \in Applied
                 PROVE  /\ req[w].case \in CaseIds /\ cases[req[w].case] # NULL
                        /\ req[w].envelope.trade_id = cases[req[w].case].trade_id
                        /\ req[w].envelope.approved_value = cases[req[w].case].expected_value
                        /\ cases[req[w].case].trade_id \in Trades
                        /\ cases[req[w].case].expected_value \in Values
                        /\ executions[req[w].case]["SUCCESS"] > 0
      OBVIOUS
    <2>1. /\ req[w].case \in CaseIds /\ cases[req[w].case] # NULL
          /\ req[w].envelope # NULL /\ req[w].envelope = envelopes[req[w].case]
      BY <1>0 DEF RequestOK, Applied, Enveloped, Approved
    <2>2. CaseOK(req[w].case)
      BY <2>1 DEF IInv
    <2>3. cases[req[w].case] \in Case
      BY <2>1 DEF IInv, TypeOK
    <2> QED
      BY <1>0, <2>1, <2>2, <2>3 DEF CaseOK, Case, TailOK
  <1>1. CASE \/ persist_canonical_states(w) \/ persist_canonical_violation(w)
             \/ persist_run(w) \/ seed_legacy_booking_record(w) \/ insert_approval(w)
             \/ rerun_persist_violation(w)
    <2>1. Quiet /\ Others /\ (req'[w] = Idle \/ req'[w].pc = "persist_run")
      BY <1>0, <1>1 DEF persist_canonical_states, persist_canonical_violation, persist_run,
                        seed_legacy_booking_record, insert_approval, rerun_persist_violation,
                        Request
    <2>2. req'[w].pc \notin Applied
      BY <1>a, <2>1 DEF Applied, Enveloped, Approved, OfCase
    <2> QED
      BY <2>1, <2>2, EarlyTail, NothingAppended, EvidenceStep
  <1>2. CASE insert_envelope_if_absent(w) \/ verify_envelope(w)
             \/ apply_legacy_booking_correction(w)
    <2>1. Quiet /\ Others
      BY <1>0, <1>2 DEF insert_envelope_if_absent, verify_envelope,
                        apply_legacy_booking_correction
    <2>2. req'[w].pc \in {"verify", "apply", "record"}
      <3>1. CASE insert_envelope_if_absent(w)
        BY <1>0, <3>1 DEF insert_envelope_if_absent, Request
      <3>2. CASE verify_envelope(w)
        <4>1. \/ req'[w] = [req[w] EXCEPT !.pc = "apply"]
              \/ req'[w] = [req[w] EXCEPT !.pc = "record", !.outcome = Rejection(req[w])]
          BY <1>0, <3>2 DEF verify_envelope
        <4> QED
          BY <1>0, <4>1 DEF Request
      <3>3. CASE apply_legacy_booking_correction(w)
        BY <1>0, <3>3 DEF apply_legacy_booking_correction, Request
      <3> QED
        BY <1>2, <3>1, <3>2, <3>3
    <2>3. req'[w].pc \notin Applied
      BY <2>2 DEF Applied
    <2> QED
      BY <2>1, <2>3, EarlyTail, NothingAppended, EvidenceStep
  <1>3. CASE insert_execution(w)
    <2>1. UNCHANGED <<bookings, cases, evidence>> /\ Others /\ req[w].pc = "record"
      BY <1>0, <1>3 DEF insert_execution
    <2>2. PICK c \in CaseIds, o \in Outcomes : c = req[w].case /\ o = req[w].outcome
      BY <1>0, <2>1 DEF RequestOK, OfCase, Points, Request
    <2>3. executions \in [CaseIds -> [Outcomes -> Nat]]
      BY DEF IInv, TypeOK
    <2>4. executions' = [executions EXCEPT ![c][o] = Counted(executions[c][o], o)]
      BY <1>3, <2>2 DEF insert_execution
    <2>5. \A d \in CaseIds : executions'[d]["SUCCESS"] >= executions[d]["SUCCESS"]
      BY <2>2, <2>3, <2>4 DEF Counted, Outcomes
    <2>6. o = "SUCCESS" => executions'[c]["SUCCESS"] > 0
      BY <2>2, <2>3, <2>4 DEF Counted, Outcomes
    <2>7. Appends
      <3>1. \A t \in Trades : Len(bookings[t]) \in Nat
        BY DEF IInv, TypeOK
      <3> QED
        BY <2>1, <2>5, <3>1 DEF Appends
    <2>8. TailOK(req[w])'
      <3>1. CASE o = "SUCCESS"
        <4>1. req'[w].pc = "read_booking" /\ req'[w].case = c
          BY <1>0, <1>3, <2>2, <3>1 DEF insert_execution, Request
        <4> QED
          BY <2>6, <3>1, <4>1 DEF TailOK
      <3>2. CASE o # "SUCCESS"
        <4>1. req'[w] = Idle
          BY <1>0, <1>3, <2>2, <3>2 DEF insert_execution
        <4> QED
          BY <1>a, <4>1, EarlyTail
      <3> QED
        BY <3>1, <3>2
    <2> QED
      BY <2>1, <2>7, <2>8, EvidenceStep
  <1>4. CASE read_latest_booking(w)
    <2>1. Quiet /\ Others
      BY <1>0, <1>4 DEF read_latest_booking
    <2>2. req[w].pc = "read_booking" /\ req'[w].pc = "ingest" /\ req'[w].case = req[w].case
      BY <1>0, <1>4 DEF read_latest_booking, Request
    <2>3. TailOK(req[w])'
      BY <1>b, <2>1, <2>2 DEF TailOK, Applied, Enveloped, Approved, OfCase, Points
    <2> QED
      BY <2>1, <2>3, NothingAppended, EvidenceStep
  <1>5. CASE ingest_corrected_booking_observation(w)
    <2>1. UNCHANGED <<executions, cases, evidence>> /\ Others /\ req[w].pc = "ingest"
      BY <1>0, <1>5 DEF ingest_corrected_booking_observation
    <2>2. req[w].pc \in Applied
      BY <2>1 DEF Applied, Enveloped, Approved, OfCase, Points
    <2>3. PICK c \in CaseIds, t \in Trades :
             /\ c = req[w].case /\ t = cases[c].trade_id /\ t = req[w].envelope.trade_id
             /\ req[w].envelope.approved_value = cases[c].expected_value
             /\ cases[c].expected_value \in Values /\ executions[c]["SUCCESS"] > 0
      BY <1>b, <2>2
    <2>4. PICK b \in Booking : b = [value |-> cases[c].expected_value, origin |-> c]
      BY <2>3 DEF Booking
    <2>5. CASE Len(bookings[t]) = req[w].latest
      <3>1. bookings' = [bookings EXCEPT ![t] = Append(bookings[t], b)]
        BY <1>5, <2>3, <2>4, <2>5 DEF ingest_corrected_booking_observation
      <3>2. /\ Appends
            /\ Len(bookings'[t]) = Len(bookings[t]) + 1
            /\ bookings'[t][Len(bookings'[t])] = b
        BY <2>1, <3>1, BookingAppended
      <3>3. req'[w].pc = "rerun_read" /\ req'[w].case = c
        BY <1>0, <1>5, <2>3, <2>5 DEF ingest_corrected_booking_observation, Request
      <3>4. Len(bookings[t]) \in Nat
        BY DEF IInv, TypeOK
      <3>5. Shown(c, Len(bookings[t]))'
        BY <2>1, <2>3, <2>4, <3>2, <3>4 DEF Shown
      <3>6. TailOK(req[w])'
        BY <2>1, <2>3, <3>3, <3>5 DEF TailOK
      <3> QED
        BY <2>1, <3>2, <3>6, EvidenceStep
    <2>6. CASE Len(bookings[t]) # req[w].latest
      <3>1. bookings' = bookings /\ req'[w] = Idle
        BY <1>0, <1>5, <2>3, <2>6 DEF ingest_corrected_booking_observation
      <3>2. TailOK(req[w])'
        BY <1>a, <3>1, EarlyTail
      <3> QED
        BY <2>1, <3>1, <3>2, NothingAppended, EvidenceStep
    <2> QED
      BY <2>5, <2>6
  <1>6. CASE rerun_read(w)
    <2>1. Quiet /\ Others /\ req[w].pc = "rerun_read"
      BY <1>0, <1>6 DEF rerun_read
    <2>2. /\ req'[w].pc = "rerun_version" /\ req'[w].case = req[w].case
          /\ req'[w].seen = observation_documents
      BY <1>0, <1>6 DEF rerun_read, Request
    <2>3. PICK c \in CaseIds, t \in Trades :
             c = req[w].case /\ t = cases[c].trade_id /\ executions[c]["SUCCESS"] > 0
      BY <1>b, <2>1 DEF Applied, Enveloped, Approved, OfCase, Points
    <2>4. req'[w].seen[t].revision = Len(bookings[t])
      BY <2>2 DEF observation_documents
    <2>5. Shown(c, Len(bookings[t]))
      BY <1>0, <2>1, <2>3 DEF TailOK
    <2>6. TailOK(req[w])'
      BY <2>1, <2>2, <2>3, <2>4, <2>5 DEF TailOK, Shown
    <2> QED
      BY <2>1, <2>6, NothingAppended, EvidenceStep
  <1>7. CASE rerun_version(w) \/ rerun_persist(w)
    <2>1. Quiet /\ Others
      BY <1>0, <1>7 DEF rerun_version, rerun_persist
    <2>2. /\ req[w].pc \in {"rerun_version", "rerun_persist"}
          /\ req'[w].pc \in {"rerun_persist", "finalize"}
          /\ req'[w].case = req[w].case /\ req'[w].seen = req[w].seen
      BY <1>0, <1>7 DEF rerun_version, rerun_persist, Request
    <2>3. TailOK(req[w])'
      BY <1>0, <1>b, <2>1, <2>2 DEF TailOK, Shown, Applied, Enveloped, Approved, OfCase, Points
    <2> QED
      BY <2>1, <2>3, NothingAppended, EvidenceStep
  <1>8. CASE finalize_evidence(w)
    <2>1. /\ UNCHANGED <<bookings, executions, cases>> /\ Others
          /\ req[w].pc = "finalize" /\ req'[w] = Idle
      BY <1>0, <1>8 DEF finalize_evidence
    <2>2. Appends
      BY <2>1, NothingAppended
    <2>3. PICK c \in CaseIds, t \in Trades :
             /\ c = req[w].case /\ t = cases[c].trade_id /\ t = req[w].envelope.trade_id
             /\ executions[c]["SUCCESS"] > 0 /\ cases[c] # NULL
      BY <1>b, <2>1 DEF Applied, Enveloped, Approved, OfCase, Points
    <2>4. Shown(c, req[w].seen[t].revision)
      BY <1>0, <2>1, <2>3 DEF TailOK
    <2>5. PICK e : e = [ executions |-> executions[c], reconciled |-> req[w].seen[t],
                         canonical_state_version |-> req[w].version ]
      OBVIOUS
    <2>6. evidence' = [evidence EXCEPT ![c] = IF evidence[c] = NULL THEN e ELSE evidence[c]]
      BY <1>8, <2>3, <2>5 DEF finalize_evidence
    <2>7. evidence \in [CaseIds -> Evidence \cup {NULL}]
      BY DEF IInv, TypeOK
    <2>8. ASSUME NEW d \in CaseIds PROVE FrozenOK(d)'
      <3>1. CASE d = c /\ evidence[c] = NULL
        <4>1. evidence'[d] = e
          BY <2>6, <2>7, <3>1
        <4>2. /\ evidence'[d].executions["SUCCESS"] > 0
              /\ evidence'[d].reconciled.revision = req[w].seen[t].revision
          BY <2>3, <2>5, <4>1
        <4> QED
          BY <2>1, <2>3, <2>4, <3>1, <4>2 DEF FrozenOK, Shown
      <3>2. CASE d # c \/ evidence[c] # NULL
        <4>1. evidence'[d] = evidence[d]
          BY <2>6, <2>7, <3>2
        <4> QED
          BY <2>2, <4>1, FrozenForever DEF EvidenceInv
      <3> QED
        BY <3>1, <3>2
    <2>9. ASSUME NEW u \in Workers PROVE TailOK(req[u])'
      BY <1>a, <2>1, <2>2, OthersTail, EarlyTail DEF EvidenceInv
    <2> QED
      BY <2>8, <2>9 DEF EvidenceInv
  <1> QED
    BY <1>1, <1>2, <1>3, <1>4, <1>5, <1>6, <1>7, <1>8, Zenon DEF Proceed

-----------------------------------------------------------------------------
\* The invariant is inductive next to IInv.
LEMMA EvidenceStepInv == IInv /\ IInv' /\ EvidenceInv /\ [Next]_vars => EvidenceInv'
  <1> SUFFICES ASSUME IInv, IInv', EvidenceInv, [Next]_vars PROVE EvidenceInv'
    OBVIOUS
  <1>1. CASE World
    BY <1>1, WorldEvidence
  <1>2. ASSUME NEW w \in Workers, Call(w) \/ Proceed(w) PROVE EvidenceInv'
    BY <1>2, CallEvidence, ProceedEvidence
  <1>3. CASE UNCHANGED vars
    <2>1. UNCHANGED <<bookings, executions, cases, evidence, req>>
      BY <1>3 DEF vars, sources, store
    <2>2. Appends
      BY <2>1, NothingAppended
    <2> QED
      BY <2>1, <2>2, OthersTail, FrozenForever DEF EvidenceInv
  <1> QED
    BY <1>1, <1>2, <1>3 DEF Next

\* Frozen evidence holds an applied execution row and a reconciliation that read
\* the booking revision carrying the correction, whatever other requests,
\* deliveries, deaths and restarts came in between (main.py,
\* remediation_execute; remediation_feedback.py).
THEOREM EvidenceIsOfACorrection == Spec => []EvidenceShowsTheCorrection
  <1>1. EvidenceInv => EvidenceShowsTheCorrection
    BY DEF EvidenceInv, FrozenOK, Shown, EvidenceShowsTheCorrection
  <1> QED
    BY <1>1, EvidenceInit, EvidenceStepInv, Consistency, PTL DEF Spec

=============================================================================
