----------------------------- MODULE OnceProofs -----------------------------
(***************************************************************************)
(* A correction is applied at most once: proof of AtMostOnce for feeds     *)
(* that never return to a value they have left, on top of the invariant of *)
(* RemediationProofs.  And the two books agree: proofs of                  *)
(* LedgersAgreeAtRest and CorrectionsNeverCollide, for a booking system    *)
(* that sends no revision of its own besides, the first for requests that  *)
(* do not die.                                                             *)
(***************************************************************************)
EXTENDS RemediationProofs

\* A rank of the values that every amendment of a source raises.
ForwardBy(rank) == \A v, w \in Values : <<v, w>> \in Amends => rank[v] < rank[w]

ForwardFeeds == \E rank \in [Values -> Nat] : ForwardBy(rank)

Behind(rank, v, w) == v = w \/ rank[v] < rank[w]

\* The latest booking is the trade's execution or behind it.
BookingBehind(rank, t) == Behind(rank, bookings[t][Len(bookings[t])].value, execution[t])

\* What a run has read of a trade was so, and the execution has moved on only.
ReadBehind(rank, r) ==
    r.pc \in {"persist_canonical", "persist_run"} =>
        \A t \in Trades : /\ Behind(rank, r.seen[t].booking, r.seen[t].execution)
                          /\ Behind(rank, r.seen[t].execution, execution[t])

\* A break, and the case made of it, leads forward to a value the execution has had.
LeadsForward(rank, b) ==
    /\ rank[b.observed_value] < rank[b.expected_value]
    /\ Behind(rank, b.expected_value, execution[b.trade_id])

ForwardInv(rank) ==
    /\ \A t \in Trades : BookingBehind(rank, t)
    /\ \A w \in Workers : ReadBehind(rank, req[w])
    /\ \A b \in breaks : LeadsForward(rank, b)
    /\ \A c \in CaseIds : cases[c] # NULL => LeadsForward(rank, cases[c])

\* The record of an applied case has not fallen behind the correction.
Kept(rank, c) ==
    commits[c] > 0 =>
        LET record == legacy[cases[c].trade_id] IN
        record # NULL /\ rank[cases[c].expected_value] <= rank[record.base_amount_value]

\* The request has applied the correction and is about to record it.
Recording(r, c) == r.pc = "record" /\ r.outcome = "SUCCESS" /\ r.case = c

\* At most one request is about to record the only application of a case.
LogOK(c) ==
    /\ executions[c]["SUCCESS"] <= commits[c] /\ commits[c] <= 1
    /\ \A w \in Workers : Recording(req[w], c) =>
          /\ executions[c]["SUCCESS"] = 0
          /\ \A u \in Workers : Recording(req[u], c) => u = w

OnceInv(rank) == \A c \in CaseIds : Kept(rank, c) /\ LogOK(c)

-----------------------------------------------------------------------------
(***************************************************************************)
(* Values move forward.                                                    *)
(***************************************************************************)
\* Being behind is transitive, and what a source may report next is ahead.
LEMMA BehindTransitive ==
    ASSUME NEW rank \in [Values -> Nat], ForwardBy(rank)
    PROVE  /\ \A u, v, w \in Values :
                 Behind(rank, u, v) /\ Behind(rank, v, w) => Behind(rank, u, w)
           /\ \A v, w \in Values : Follows(v, w) => Behind(rank, v, w)
  BY DEF Behind, ForwardBy, Follows

\* The newest booking of a trade and its execution are rows with values.
LEMMA LatestType ==
    ASSUME IInv, NEW t \in Trades
    PROVE  /\ bookings[t] \in Seq(Booking) /\ Len(bookings[t]) \in Nat
           /\ bookings[t][Len(bookings[t])] \in Booking
           /\ bookings[t][Len(bookings[t])].value \in Values
           /\ execution[t] \in Values
  <1>1. bookings[t] \in Seq(Booking) /\ bookings[t] # <<>> /\ execution[t] \in Values
    BY DEF IInv, TypeOK
  <1>2. Len(bookings[t]) \in 1 .. Len(bookings[t])
    BY <1>1
  <1>3. bookings[t][Len(bookings[t])] \in Booking
    BY <1>1, <1>2
  <1> QED
    BY <1>1, <1>3 DEF Booking

\* A freshly loaded corpus has no break yet, and bookings behind executions.
LEMMA ForwardInit ==
    ASSUME NEW rank \in [Values -> Nat], ForwardBy(rank), Init
    PROVE  ForwardInv(rank)
  <1>1. PICK value \in [Trades -> Values] :
          /\ \A t \in Trades : Follows(value[t], execution[t])
          /\ bookings = [t \in Trades |-> << [value |-> value[t], origin |-> NULL] >>]
    BY DEF Init
  <1>2. ASSUME NEW t \in Trades PROVE BookingBehind(rank, t)
    <2>1. bookings[t][Len(bookings[t])].value = value[t]
      BY <1>1
    <2>2. execution[t] \in Values
      BY DEF Init
    <2> QED
      BY <1>1, <2>1, <2>2, BehindTransitive DEF BookingBehind
  <1>3. \A w \in Workers : ReadBehind(rank, req[w])
    BY DEF Init, ReadBehind, Idle
  <1> QED
    BY <1>2, <1>3 DEF Init, ForwardInv

\* A step that reads nothing anew and moves no source, break or case.
LEMMA ForwardQuiet ==
    ASSUME NEW rank \in [Values -> Nat], ForwardInv(rank),
           UNCHANGED <<execution, bookings, breaks, cases>>,
           \A u \in Workers : req'[u] = req[u]
                \/ req'[u].pc \notin {"persist_canonical", "persist_run"}
    PROVE  ForwardInv(rank)'
  <1>1. ASSUME NEW u \in Workers PROVE ReadBehind(rank, req[u])'
    BY DEF ForwardInv, ReadBehind
  <1>2. \A t \in Trades : BookingBehind(rank, t)'
    BY DEF ForwardInv, BookingBehind
  <1>3. \A b \in breaks' : LeadsForward(rank, b)'
    BY DEF ForwardInv, LeadsForward
  <1>4. \A c \in CaseIds : cases'[c] # NULL => LeadsForward(rank, cases[c])'
    BY DEF ForwardInv, LeadsForward
  <1> QED
    BY <1>1, <1>2, <1>3, <1>4 DEF ForwardInv

\* A booking revision more, which is behind the execution.
LEMMA ForwardBooking ==
    ASSUME IInv, NEW rank \in [Values -> Nat], ForwardInv(rank),
           NEW t \in Trades, NEW b \in Booking, Behind(rank, b.value, execution[t]),
           bookings' = [bookings EXCEPT ![t] = Append(bookings[t], b)],
           UNCHANGED <<execution, breaks, cases>>,
           \A u \in Workers : req'[u] = req[u]
                \/ req'[u].pc \notin {"persist_canonical", "persist_run"}
    PROVE  ForwardInv(rank)'
  <1>1. ASSUME NEW u \in Workers PROVE ReadBehind(rank, req[u])'
    BY DEF ForwardInv, ReadBehind
  <1>2. ASSUME NEW s \in Trades PROVE BookingBehind(rank, s)'
    <2>1. CASE s = t
      <3>1. bookings'[s] = Append(bookings[s], b) /\ bookings[s] \in Seq(Booking)
        BY <2>1, LatestType DEF IInv, TypeOK
      <3>2. bookings'[s][Len(bookings'[s])] = b
        BY <3>1
      <3> QED
        BY <2>1, <3>2 DEF BookingBehind
    <2>2. CASE s # t
      <3>1. bookings'[s] = bookings[s]
        BY <2>2 DEF IInv, TypeOK
      <3> QED
        BY <3>1 DEF ForwardInv, BookingBehind
    <2> QED
      BY <2>1, <2>2
  <1>3. \A c \in breaks' : LeadsForward(rank, c)'
    BY DEF ForwardInv, LeadsForward
  <1>4. \A c \in CaseIds : cases'[c] # NULL => LeadsForward(rank, cases[c])'
    BY DEF ForwardInv, LeadsForward
  <1> QED
    BY <1>1, <1>2, <1>3, <1>4 DEF ForwardInv

\* An amended execution is ahead of everything it was ahead of.
LEMMA ForwardExecution ==
    ASSUME IInv, NEW rank \in [Values -> Nat], ForwardBy(rank), ForwardInv(rank),
           NEW s \in Trades, NEW v \in Values, DeliverExecution(s, v)
    PROVE  ForwardInv(rank)'
  <1> USE DEF store, clock
  <1>1. UNCHANGED <<bookings, breaks, cases, req>>
    BY DEF DeliverExecution
  <1>2. execution \in [Trades -> Values]
    BY DEF IInv, TypeOK
  <1>3. \A t \in Trades : execution'[t] \in Values /\ Behind(rank, execution[t], execution'[t])
    BY <1>2 DEF DeliverExecution, Behind, ForwardBy
  <1>4. ASSUME NEW u \in Values, NEW t \in Trades, Behind(rank, u, execution[t])
        PROVE  Behind(rank, u, execution'[t])
    BY <1>2, <1>3, <1>4, BehindTransitive
  <1>5. ASSUME NEW t \in Trades PROVE BookingBehind(rank, t)'
    BY <1>1, <1>4, LatestType DEF ForwardInv, BookingBehind
  <1>6. ASSUME NEW w \in Workers PROVE ReadBehind(rank, req[w])'
    <2> SUFFICES ASSUME req[w].pc \in {"persist_canonical", "persist_run"}, NEW t \in Trades
                 PROVE  /\ Behind(rank, req[w].seen[t].booking, req[w].seen[t].execution)
                        /\ Behind(rank, req[w].seen[t].execution, execution'[t])
      BY <1>1 DEF ReadBehind
    <2>1. req[w].seen[t].execution \in Values
      BY DEF IInv, TypeOK, RequestOK, Reading, Request, Snapshot
    <2> QED
      BY <1>4, <2>1 DEF ForwardInv, ReadBehind
  <1>7. ASSUME NEW b \in breaks PROVE LeadsForward(rank, b)'
    <2>1. b.expected_value \in Values /\ b.trade_id \in Trades
      BY DEF IInv, TypeOK, Break
    <2> QED
      BY <1>4, <2>1 DEF ForwardInv, LeadsForward
  <1>8. ASSUME NEW c \in CaseIds, cases[c] # NULL PROVE LeadsForward(rank, cases[c])'
    <2>1. cases[c].expected_value \in Values /\ cases[c].trade_id \in Trades
      BY <1>8 DEF IInv, TypeOK, Case
    <2> QED
      BY <1>1, <1>4, <1>8, <2>1 DEF ForwardInv, LeadsForward
  <1> QED
    BY <1>1, <1>5, <1>6, <1>7, <1>8 DEF ForwardInv

\* Deliveries, the clock, restarts and deaths move values forward only.
LEMMA ForwardWorld ==
    ASSUME IInv, NEW rank \in [Values -> Nat], ForwardBy(rank), ForwardInv(rank), World
    PROVE  ForwardInv(rank)'
  <1> USE DEF sources, store, clock
  <1>1. ASSUME NEW t \in Trades, NEW v \in Values, DeliverExecution(t, v)
        PROVE  ForwardInv(rank)'
    BY <1>1, ForwardExecution
  <1>2. ASSUME NEW t \in Trades, NEW v \in Values, DeliverBooking(t, v)
        PROVE  ForwardInv(rank)'
    <2>1. PICK b \in Booking : b = [value |-> v, origin |-> NULL]
      BY DEF Booking
    <2>2. Behind(rank, b.value, execution[t])
      BY <1>2, <2>1, LatestType, BehindTransitive DEF DeliverBooking
    <2>3. /\ bookings' = [bookings EXCEPT ![t] = Append(bookings[t], b)]
          /\ UNCHANGED <<execution, breaks, cases, req>>
      BY <1>2, <2>1 DEF DeliverBooking
    <2> QED
      BY <2>2, <2>3, ForwardBooking
  <1>3. CASE (\E c \in CaseIds : ExpireEnvelope(c)) \/ (\E s \in Secrets : Restart(s))
             \/ (\E w \in Workers : Crash(w))
    <2>1. UNCHANGED <<execution, bookings, breaks, cases>>
      BY <1>3 DEF ExpireEnvelope, Restart, Crash
    <2>2. \A u \in Workers : req'[u] = req[u] \/ req'[u] = Idle
      BY <1>3 DEF ExpireEnvelope, Restart, Crash, IInv, TypeOK
    <2> QED
      BY <2>1, <2>2, IdleType, ForwardQuiet
  <1> QED
    BY <1>1, <1>2, <1>3 DEF World

\* The first transaction of a handler: a run reads, triage makes a case of a
\* break, the others only ask.
LEMMA ForwardCall ==
    ASSUME IInv, NEW rank \in [Values -> Nat], ForwardBy(rank), ForwardInv(rank),
           NEW w \in Workers, Call(w)
    PROVE  ForwardInv(rank)'
  <1> USE DEF sources, store, clock
  <1>0. req \in [Workers -> Request]
    BY DEF IInv, TypeOK
  <1>1. CASE run_reconciliation(w)
    <2>1. UNCHANGED <<execution, bookings, breaks, cases>>
      BY <1>1 DEF run_reconciliation
    <2>2. \A u \in Workers \ {w} : req'[u] = req[u]
      BY <1>0, <1>1 DEF run_reconciliation
    <2>3. req'[w].seen = observation_documents
      BY <1>0, <1>1 DEF run_reconciliation, Idle
    <2>4. ReadBehind(rank, req[w])'
      <3> SUFFICES ASSUME NEW t \in Trades
                   PROVE  /\ Behind(rank, req'[w].seen[t].booking, req'[w].seen[t].execution)
                          /\ Behind(rank, req'[w].seen[t].execution, execution[t])
        BY <2>1 DEF ReadBehind
      <3>1. /\ req'[w].seen[t].execution = execution[t]
            /\ req'[w].seen[t].booking = bookings[t][Len(bookings[t])].value
        BY <2>3 DEF observation_documents
      <3>2. BookingBehind(rank, t)
        BY DEF ForwardInv
      <3> QED
        BY <3>1, <3>2 DEF BookingBehind, Behind
    <2>5. ASSUME NEW u \in Workers PROVE ReadBehind(rank, req[u])'
      <3>1. CASE u = w
        BY <2>4, <3>1
      <3>2. CASE u # w
        BY <2>1, <2>2, <3>2 DEF ForwardInv, ReadBehind
      <3> QED
        BY <3>1, <3>2
    <2>6. \A t \in Trades : BookingBehind(rank, t)'
      BY <2>1 DEF ForwardInv, BookingBehind
    <2>7. /\ \A b \in breaks' : LeadsForward(rank, b)'
          /\ \A c \in CaseIds : cases'[c] # NULL => LeadsForward(rank, cases[c])'
      BY <2>1 DEF ForwardInv, LeadsForward
    <2> QED
      BY <2>5, <2>6, <2>7 DEF ForwardInv
  <1>2. ASSUME NEW c \in CaseIds, NEW b \in breaks, generate_case(w, c, b)
        PROVE  ForwardInv(rank)'
    <2>1. PICK decision : cases' = [cases EXCEPT ![c] =
                                     [ trade_id       |-> b.trade_id,
                                       expected_value |-> b.expected_value,
                                       observed_value |-> b.observed_value,
                                       decision       |-> decision ]]
      BY <1>2 DEF generate_case
    <2>2. /\ UNCHANGED <<execution, bookings, breaks>>
          /\ req' = [req EXCEPT ![w] = [Idle EXCEPT !.pc = "seed", !.case = c]]
      BY <1>2 DEF generate_case
    <2>3. ASSUME NEW u \in Workers PROVE ReadBehind(rank, req[u])'
      <3>1. req'[u] = req[u] \/ req'[u].pc = "seed"
        BY <1>0, <2>2 DEF Idle
      <3> QED
        BY <2>2, <3>1 DEF ForwardInv, ReadBehind
    <2>4. ASSUME NEW d \in CaseIds, cases'[d] # NULL PROVE LeadsForward(rank, cases[d])'
      <3>1. CASE d = c
        <4>1. /\ cases'[d].trade_id = b.trade_id
              /\ cases'[d].expected_value = b.expected_value
              /\ cases'[d].observed_value = b.observed_value
          BY <2>1, <3>1 DEF IInv, TypeOK
        <4>2. LeadsForward(rank, b)
          BY DEF ForwardInv
        <4> QED
          BY <2>2, <4>1, <4>2 DEF LeadsForward
      <3>2. CASE d # c
        <4>1. cases'[d] = cases[d]
          BY <2>1, <3>2 DEF IInv, TypeOK
        <4> QED
          BY <2>2, <2>4, <4>1 DEF ForwardInv, LeadsForward
      <3> QED
        BY <3>1, <3>2
    <2>5. \A t \in Trades : BookingBehind(rank, t)'
      BY <2>2 DEF ForwardInv, BookingBehind
    <2>6. \A d \in breaks' : LeadsForward(rank, d)'
      BY <2>2 DEF ForwardInv, LeadsForward
    <2> QED
      BY <2>3, <2>4, <2>5, <2>6 DEF ForwardInv
  <1>3. ASSUME NEW c \in CaseIds, NEW role \in Roles, NEW i \in Identities,
               submit_approval(w, c, role, i)
        PROVE  ForwardInv(rank)'
    <2>1. UNCHANGED <<execution, bookings, breaks, cases>>
      BY <1>3 DEF submit_approval
    <2>2. \A u \in Workers : req'[u] = req[u] \/ req'[u].pc = "insert_approval"
      BY <1>0, <1>3 DEF submit_approval, Idle
    <2> QED
      BY <2>1, <2>2, ForwardQuiet
  <1>4. ASSUME NEW c \in CaseIds, remediation_execute(w, c) PROVE ForwardInv(rank)'
    <2>1. UNCHANGED <<execution, bookings, breaks, cases>>
      BY <1>4 DEF remediation_execute
    <2>2. \A u \in Workers : req'[u] = req[u] \/ req'[u].pc = "envelope"
      BY <1>0, <1>4 DEF remediation_execute, Idle
    <2> QED
      BY <2>1, <2>2, ForwardQuiet
  <1> QED
    BY <1>1, <1>2, <1>3, <1>4, Zenon DEF Call

\* The later transactions: a run persists breaks of what it read, a correction
\* is fed back, the others touch no source.
LEMMA ForwardProceed ==
    ASSUME IInv, NEW rank \in [Values -> Nat], ForwardBy(rank), ForwardInv(rank),
           NEW w \in Workers, Proceed(w)
    PROVE  ForwardInv(rank)'
  <1> USE DEF sources, store, clock
  <1>0. /\ req \in [Workers -> Request] /\ req[w] \in Request
        /\ RequestOK(req[w]) /\ ReadBehind(rank, req[w])
    BY DEF IInv, TypeOK, ForwardInv
  <1> DEFINE Quiet == UNCHANGED <<execution, bookings, breaks, cases>>
             Others == \A u \in Workers \ {w} : req'[u] = req[u]
  <1>1. CASE persist_canonical_states(w)
    <2>1. Quiet /\ Others
      BY <1>0, <1>1 DEF persist_canonical_states
    <2>2. req[w].pc = "persist_canonical" /\ req'[w].seen = req[w].seen
      BY <1>0, <1>1 DEF persist_canonical_states, Request
    <2>3. ReadBehind(rank, req[w])'
      BY <1>0, <2>1, <2>2 DEF ReadBehind
    <2>4. \A u \in Workers : ReadBehind(rank, req[u])'
      BY <2>1, <2>3 DEF ForwardInv, ReadBehind
    <2>5. \A t \in Trades : BookingBehind(rank, t)'
      BY <2>1 DEF ForwardInv, BookingBehind
    <2>6. /\ \A b \in breaks' : LeadsForward(rank, b)'
          /\ \A c \in CaseIds : cases'[c] # NULL => LeadsForward(rank, cases[c])'
      BY <2>1 DEF ForwardInv, LeadsForward
    <2> QED
      BY <2>4, <2>5, <2>6 DEF ForwardInv
  <1>2. CASE persist_run(w)
    <2>1. /\ UNCHANGED <<execution, bookings, cases>> /\ Others /\ req'[w] = Idle
          /\ req[w].pc = "persist_run"
          /\ breaks' = breaks \cup UNION { BreakOf(t, req[w].seen[t]) : t \in Trades }
      BY <1>0, <1>2 DEF persist_run
    <2>2. ASSUME NEW t \in Trades, NEW b \in BreakOf(t, req[w].seen[t])
          PROVE  LeadsForward(rank, b)
      <3>1. /\ Behind(rank, req[w].seen[t].booking, req[w].seen[t].execution)
            /\ Behind(rank, req[w].seen[t].execution, execution[t])
        BY <1>0, <2>1 DEF ReadBehind
      <3>2. /\ req[w].seen[t].booking # req[w].seen[t].execution
            /\ b = [ trade_id       |-> t,
                     expected_value |-> req[w].seen[t].execution,
                     observed_value |-> req[w].seen[t].booking ]
        BY DEF BreakOf
      <3> QED
        BY <3>1, <3>2 DEF LeadsForward, Behind
    <2>3. ASSUME NEW b \in breaks' PROVE LeadsForward(rank, b)'
      <3>1. LeadsForward(rank, b)
        BY <2>1, <2>2 DEF ForwardInv
      <3> QED
        BY <2>1, <3>1 DEF LeadsForward
    <2>4. \A u \in Workers : ReadBehind(rank, req[u])'
      BY <2>1 DEF ForwardInv, ReadBehind, Idle
    <2>5. /\ \A t \in Trades : BookingBehind(rank, t)'
          /\ \A c \in CaseIds : cases'[c] # NULL => LeadsForward(rank, cases[c])'
      BY <2>1 DEF ForwardInv, BookingBehind, LeadsForward
    <2> QED
      BY <2>3, <2>4, <2>5 DEF ForwardInv
  <1>3. CASE \/ persist_canonical_violation(w) \/ seed_legacy_booking_record(w)
             \/ insert_approval(w) \/ rerun_persist_violation(w) \/ finalize_evidence(w)
    <2>1. Quiet /\ Others /\ req'[w] = Idle
      BY <1>0, <1>3 DEF persist_canonical_violation, seed_legacy_booking_record,
                        insert_approval, rerun_persist_violation, finalize_evidence
    <2> QED
      BY <2>1, IdleType, ForwardQuiet
  <1>4. CASE insert_envelope_if_absent(w) \/ apply_legacy_booking_correction(w)
    <2>1. Quiet /\ Others
      BY <1>0, <1>4 DEF insert_envelope_if_absent, apply_legacy_booking_correction
    <2>2. req'[w].pc \in {"verify", "record"}
      BY <1>0, <1>4 DEF insert_envelope_if_absent, apply_legacy_booking_correction, Request
    <2> QED
      BY <2>1, <2>2, ForwardQuiet
  <1>5. CASE verify_envelope(w)
    <2>1. Quiet /\ Others
      BY <1>0, <1>5 DEF verify_envelope
    <2>2. \/ req'[w] = [req[w] EXCEPT !.pc = "apply"]
          \/ req'[w] = [req[w] EXCEPT !.pc = "record", !.outcome = Rejection(req[w])]
      BY <1>0, <1>5 DEF verify_envelope
    <2>3. req'[w].pc \in {"apply", "record"}
      BY <1>0, <2>2 DEF Request
    <2> QED
      BY <2>1, <2>3, ForwardQuiet
  <1>6. CASE insert_execution(w)
    <2>1. Quiet /\ Others
      BY <1>0, <1>6 DEF insert_execution
    <2>2. req'[w] = [req[w] EXCEPT !.pc = "read_booking"] \/ req'[w] = Idle
      BY <1>0, <1>6 DEF insert_execution
    <2>3. req'[w].pc \in {"read_booking", "idle"}
      BY <1>0, <2>2, IdleType DEF Request
    <2> QED
      BY <2>1, <2>3, ForwardQuiet
  <1>7. CASE read_latest_booking(w) \/ rerun_read(w) \/ rerun_version(w) \/ rerun_persist(w)
    <2>1. Quiet /\ Others
      BY <1>0, <1>7 DEF read_latest_booking, rerun_read, rerun_version, rerun_persist
    <2>2. req'[w].pc \in {"ingest", "rerun_version", "rerun_persist", "finalize"}
      BY <1>0, <1>7 DEF read_latest_booking, rerun_read, rerun_version, rerun_persist, Request
    <2> QED
      BY <2>1, <2>2, ForwardQuiet
  <1>8. CASE ingest_corrected_booking_observation(w)
    <2>1. UNCHANGED <<execution, breaks, cases>> /\ Others /\ req[w].pc = "ingest"
      BY <1>0, <1>8 DEF ingest_corrected_booking_observation
    <2>2. PICK c \in CaseIds : /\ c = req[w].case /\ cases[c] # NULL
                              /\ req[w].envelope # NULL /\ req[w].envelope = envelopes[c]
      BY <1>0, <2>1 DEF RequestOK, OfCase, Approved, Enveloped, Points
    <2>3. PICK t \in Trades, v \in Values :
             /\ t = req[w].envelope.trade_id /\ t = cases[c].trade_id
             /\ v = req[w].envelope.approved_value /\ v = cases[c].expected_value
      <3>1. CaseOK(c) /\ cases[c] \in Case
        BY <2>2 DEF IInv, TypeOK
      <3> QED
        BY <2>2, <3>1 DEF CaseOK, Case
    <2>4. PICK b \in Booking : b = [value |-> v, origin |-> c]
      BY DEF Booking
    <2>5. Behind(rank, b.value, execution[t])
      BY <2>2, <2>3, <2>4 DEF ForwardInv, LeadsForward
    <2>6. CASE Len(bookings[t]) = req[w].latest
      <3>1. bookings' = [bookings EXCEPT ![t] = Append(bookings[t], b)]
        BY <1>8, <2>2, <2>3, <2>4, <2>6 DEF ingest_corrected_booking_observation
      <3>2. req'[w].pc = "rerun_read"
        BY <1>0, <1>8, <2>3, <2>6 DEF ingest_corrected_booking_observation, Request
      <3> QED
        BY <2>1, <2>5, <3>1, <3>2, ForwardBooking
    <2>7. CASE Len(bookings[t]) # req[w].latest
      <3>1. bookings' = bookings /\ req'[w] = Idle
        BY <1>0, <1>8, <2>3, <2>7 DEF ingest_corrected_booking_observation
      <3> QED
        BY <2>1, <3>1, IdleType, ForwardQuiet
    <2> QED
      BY <2>6, <2>7
  <1> QED
    BY <1>1, <1>2, <1>3, <1>4, <1>5, <1>6, <1>7, <1>8, Zenon DEF Proceed

\* The values' order is preserved by every step.
LEMMA ForwardStep ==
    ASSUME NEW rank \in [Values -> Nat], ForwardBy(rank)
    PROVE  IInv /\ ForwardInv(rank) /\ [Next]_vars => ForwardInv(rank)'
  <1> SUFFICES ASSUME IInv, ForwardInv(rank), [Next]_vars PROVE ForwardInv(rank)'
    OBVIOUS
  <1>1. CASE World
    BY <1>1, ForwardWorld
  <1>2. ASSUME NEW w \in Workers, Call(w) \/ Proceed(w) PROVE ForwardInv(rank)'
    BY <1>2, ForwardCall, ForwardProceed
  <1>3. CASE UNCHANGED vars
    <2>1. UNCHANGED <<execution, bookings, breaks, cases, req>>
      BY <1>3 DEF vars, sources, store
    <2> QED
      BY <2>1, ForwardQuiet
  <1> QED
    BY <1>1, <1>2, <1>3 DEF Next

-----------------------------------------------------------------------------
(***************************************************************************)
(* What was applied is not applied again.                                  *)
(***************************************************************************)
\* Cases are insert-only.
LEMMA CasesStay ==
    ASSUME IInv, [Next]_vars, NEW c \in CaseIds, cases[c] # NULL
    PROVE  cases'[c] = cases[c]
  <1> USE DEF sources, store, clock
  <1>1. World => UNCHANGED cases
    BY DEF World, DeliverExecution, DeliverBooking, ExpireEnvelope, Restart, Crash
  <1>2. ASSUME NEW w \in Workers, Call(w) PROVE cases'[c] = cases[c]
    BY <1>2 DEF Call, run_reconciliation, generate_case, submit_approval, remediation_execute,
                IInv, TypeOK
  <1>3. ASSUME NEW w \in Workers, Proceed(w) PROVE UNCHANGED cases
    BY <1>3 DEF Proceed, persist_canonical_states, persist_canonical_violation, persist_run,
                seed_legacy_booking_record, apply_legacy_booking_correction,
                insert_approval, insert_envelope_if_absent, verify_envelope,
                insert_execution, read_latest_booking, ingest_corrected_booking_observation,
                rerun_read, rerun_version, rerun_persist, rerun_persist_violation,
                finalize_evidence
  <1> QED
    BY <1>1, <1>2, <1>3 DEF Next, vars

\* The value of a legacy record moves forward only.
LEMMA LegacyRises ==
    ASSUME IInv, NEW rank \in [Values -> Nat], ForwardInv(rank), [Next]_vars,
           NEW t \in Trades, legacy[t] # NULL
    PROVE  /\ legacy'[t] # NULL
           /\ rank[legacy[t].base_amount_value] <= rank[legacy'[t].base_amount_value]
  <1>1. legacy[t].base_amount_value \in Values
    BY DEF IInv, TypeOK, LegacyRecord
  <1>2. CASE legacy'[t] = legacy[t]
    BY <1>1, <1>2
  <1>3. CASE legacy'[t] # legacy[t]
    <2>1. ApprovedWrite
      BY <1>3, WriteStep DEF vars, store
    <2>2. PICK c \in CaseIds :
            /\ Eligible(c)
            /\ legacy[t].base_amount_value = cases[c].observed_value
            /\ legacy'[t] = [ base_amount_value |-> cases[c].expected_value,
                              booking_version |-> legacy[t].booking_version + 1,
                              last_applied_idempotency_key |-> c ]
      BY <1>3, <2>1 DEF ApprovedWrite
    <2>3. rank[cases[c].observed_value] < rank[cases[c].expected_value]
      BY <2>2 DEF ForwardInv, LeadsForward, Eligible
    <2>4. cases[c].observed_value \in Values /\ cases[c].expected_value \in Values
      BY <2>2 DEF IInv, TypeOK, Case, Eligible
    <2>5. legacy'[t].base_amount_value = cases[c].expected_value
      BY <2>2
    <2>6. legacy'[t] # NULL
      <3>1. legacy[t].booking_version \in Nat
        BY DEF IInv, TypeOK, LegacyRecord
      <3>2. legacy'[t] \in LegacyRecord
        BY <2>2, <2>4, <3>1 DEF LegacyRecord
      <3> QED
        BY <3>2, NullIsNoRow
    <2> QED
      BY <2>2, <2>3, <2>4, <2>5, <2>6
  <1> QED
    BY <1>2, <1>3

\* A record keeps up with every case whose application it has counted.
LEMMA KeptForever ==
    ASSUME IInv, NEW rank \in [Values -> Nat], ForwardInv(rank), [Next]_vars,
           NEW c \in CaseIds, Kept(rank, c), commits'[c] = commits[c]
    PROVE  Kept(rank, c)'
  <1> SUFFICES ASSUME commits[c] > 0
               PROVE  /\ legacy'[cases'[c].trade_id] # NULL
                      /\ rank[cases'[c].expected_value]
                           <= rank[legacy'[cases'[c].trade_id].base_amount_value]
    BY DEF Kept
  <1>1. cases[c] # NULL
    BY DEF IInv, CaseOK, Eligible
  <1>2. cases'[c] = cases[c]
    BY <1>1, CasesStay
  <1>3. PICK t \in Trades : t = cases[c].trade_id
    BY <1>1 DEF IInv, TypeOK, Case
  <1>4. legacy[t] # NULL /\ rank[cases[c].expected_value] <= rank[legacy[t].base_amount_value]
    BY <1>3 DEF Kept
  <1>5. /\ legacy'[t] # NULL
        /\ rank[legacy[t].base_amount_value] <= rank[legacy'[t].base_amount_value]
    BY <1>4, LegacyRises
  <1>6. /\ rank[cases[c].expected_value] \in Nat /\ rank[legacy[t].base_amount_value] \in Nat
        /\ rank[legacy'[t].base_amount_value] \in Nat
    <2>1. TypeOK'
      BY StepInv DEF IInv
    <2> QED
      BY <1>1, <1>4, <1>5, <2>1 DEF IInv, TypeOK, Case, LegacyRecord
  <1> QED
    BY <1>2, <1>3, <1>4, <1>5, <1>6

\* A step that counts nothing and brings no request to recording an application.
LEMMA OnceQuiet ==
    ASSUME IInv, NEW rank \in [Values -> Nat], ForwardInv(rank), OnceInv(rank), [Next]_vars,
           UNCHANGED <<executions, commits>>,
           \A u \in Workers : req'[u] = req[u] \/ req'[u].pc # "record"
                                \/ req'[u].outcome # "SUCCESS"
    PROVE  OnceInv(rank)'
  <1> SUFFICES ASSUME NEW c \in CaseIds PROVE Kept(rank, c)' /\ LogOK(c)'
    BY DEF OnceInv
  <1>1. Kept(rank, c)'
    BY KeptForever DEF OnceInv
  <1>2. \A u \in Workers : Recording(req'[u], c) => Recording(req[u], c)
    BY DEF Recording
  <1>3. LogOK(c)
    BY DEF OnceInv
  <1> QED
    BY <1>1, <1>2, <1>3 DEF LogOK, Recording

\* apply_legacy_booking_correction finds the observed value only the first time.
LEMMA OnceApply ==
    ASSUME IInv, NEW rank \in [Values -> Nat], ForwardInv(rank), OnceInv(rank), [Next]_vars,
           NEW w \in Workers, apply_legacy_booking_correction(w)
    PROVE  OnceInv(rank)'
  <1> USE DEF sources, store, clock
  <1>0. /\ req \in [Workers -> Request] /\ req[w] \in Request /\ RequestOK(req[w])
        /\ req[w].pc = "apply"
    BY DEF IInv, TypeOK, apply_legacy_booking_correction
  <1>1. PICK c \in CaseIds, e \in ActionEnvelope, t \in Trades :
           c = req[w].case /\ e = req[w].envelope /\ t = e.trade_id
    BY <1>0 DEF RequestOK, OfCase, Approved, Enveloped, Points, Request, ActionEnvelope
  <1>2. /\ Eligible(c) /\ cases[c] # NULL
        /\ t = cases[c].trade_id
        /\ e.approved_value = cases[c].expected_value
        /\ e.expected_old_value = cases[c].observed_value
    <2>1. CaseOK(c)
      BY DEF IInv
    <2>2. e # NULL /\ e = envelopes[c] /\ Eligible(c)
      BY <1>0, <1>1 DEF RequestOK, OfCase, Approved, Enveloped, Points
    <2> QED
      BY <1>1, <2>1, <2>2 DEF CaseOK, Eligible
  <1>3. PICK o : o = ApplyOutcome(legacy[t], c, e)
    OBVIOUS
  <1>4. /\ \A u \in Workers \ {w} : req'[u] = req[u]
        /\ req'[w].pc = "record" /\ req'[w].outcome = o /\ req'[w].case = c
        /\ UNCHANGED <<executions, cases>>
    BY <1>0, <1>1, <1>3 DEF apply_legacy_booking_correction, Request
  <1>5. CASE o # "SUCCESS"
    <2>1. UNCHANGED commits
      BY <1>1, <1>3, <1>5 DEF apply_legacy_booking_correction
    <2> QED
      BY <1>4, <1>5, <2>1, OnceQuiet
  <1>6. CASE o = "SUCCESS"
    <2>1. /\ legacy' = [legacy EXCEPT ![t] = Corrected(legacy[t], c, e)]
          /\ commits' = [commits EXCEPT ![c] = commits[c] + 1]
      BY <1>1, <1>3, <1>6 DEF apply_legacy_booking_correction
    <2>2. legacy[t].base_amount_value = cases[c].observed_value
      BY <1>2, <1>3, <1>6 DEF ApplyOutcome
    <2>3. commits \in [CaseIds -> Nat] /\ executions[c]["SUCCESS"] \in Nat
      BY DEF IInv, TypeOK, Outcomes
    <2>4. /\ rank[cases[c].observed_value] < rank[cases[c].expected_value]
          /\ rank[cases[c].observed_value] \in Nat /\ rank[cases[c].expected_value] \in Nat
          /\ cases[c].expected_value \in Values
      BY <1>2 DEF ForwardInv, LeadsForward, IInv, TypeOK, Case
    <2>5. commits[c] = 0
      BY <1>2, <2>2, <2>3, <2>4 DEF OnceInv, Kept
    <2>6. executions[c]["SUCCESS"] = 0
      BY <2>3, <2>5 DEF OnceInv, LogOK
    <2>7. \A u \in Workers : ~Recording(req[u], c)
      BY <2>5 DEF IInv, RequestOK, Recording
    <2>8. LogOK(c)'
      BY <1>4, <2>1, <2>3, <2>5, <2>6, <2>7 DEF LogOK, Recording
    <2>9. Kept(rank, c)'
      <3>1. legacy'[t] = Corrected(legacy[t], c, e)
        BY <2>1 DEF IInv, TypeOK
      <3>2. legacy'[t].base_amount_value = cases[c].expected_value
        BY <1>2, <3>1 DEF Corrected
      <3>3. legacy[t] # NULL
        BY <1>3, <1>6 DEF ApplyOutcome
      <3>4. legacy'[t] # NULL
        BY <3>3, LegacyRises
      <3> QED
        BY <1>2, <1>4, <2>4, <3>2, <3>4 DEF Kept
    <2>10. ASSUME NEW d \in CaseIds, d # c PROVE Kept(rank, d)' /\ LogOK(d)'
      <3>1. commits'[d] = commits[d]
        BY <2>1, <2>3, <2>10
      <3>2. Kept(rank, d)'
        BY <3>1, KeptForever DEF OnceInv
      <3>3. \A u \in Workers : Recording(req'[u], d) => Recording(req[u], d)
        BY <1>4, <2>10 DEF Recording
      <3>4. LogOK(d)
        BY DEF OnceInv
      <3>5. LogOK(d)'
        BY <1>4, <3>1, <3>3, <3>4 DEF LogOK, Recording
      <3> QED
        BY <3>2, <3>5
    <2> QED
      BY <2>8, <2>9, <2>10 DEF OnceInv
  <1> QED
    BY <1>5, <1>6

\* insert_execution records an application that has been counted.
LEMMA OnceRecord ==
    ASSUME IInv, NEW rank \in [Values -> Nat], ForwardInv(rank), OnceInv(rank), [Next]_vars,
           NEW w \in Workers, insert_execution(w)
    PROVE  OnceInv(rank)'
  <1> USE DEF sources, store, clock
  <1>0. /\ req \in [Workers -> Request] /\ req[w] \in Request /\ RequestOK(req[w])
        /\ req[w].pc = "record"
    BY DEF IInv, TypeOK, insert_execution
  <1>1. PICK c \in CaseIds, o \in Outcomes : c = req[w].case /\ o = req[w].outcome
    BY <1>0 DEF RequestOK, OfCase, Points, Request
  <1>2. /\ executions \in [CaseIds -> [Outcomes -> Nat]] /\ commits \in [CaseIds -> Nat]
        /\ "SUCCESS" \in Outcomes
    BY DEF IInv, TypeOK, Outcomes
  <1>3. /\ executions' = [executions EXCEPT ![c][o] = Counted(executions[c][o], o)]
        /\ UNCHANGED commits /\ \A u \in Workers \ {w} : req'[u] = req[u]
    BY <1>0, <1>1 DEF insert_execution
  <1>4. req'[w].pc # "record"
    <2>1. req'[w] = [req[w] EXCEPT !.pc = "read_booking"] \/ req'[w] = Idle
      BY <1>0, <1>1 DEF insert_execution
    <2> QED
      BY <1>0, <2>1, IdleType DEF Request
  <1> SUFFICES ASSUME NEW d \in CaseIds PROVE Kept(rank, d)' /\ LogOK(d)'
    BY DEF OnceInv
  <1>5. Kept(rank, d)'
    BY <1>3, KeptForever DEF OnceInv
  <1>6. LogOK(d)
    BY DEF OnceInv
  <1>7. \A u \in Workers : Recording(req'[u], d) => u # w /\ Recording(req[u], d)
    BY <1>3, <1>4 DEF Recording
  <1>8. CASE d = c /\ o = "SUCCESS"
    <2>1. Recording(req[w], d) /\ commits[d] > 0
      BY <1>0, <1>1, <1>8 DEF Recording, RequestOK
    <2>2. executions'[d]["SUCCESS"] = executions[d]["SUCCESS"] + 1
      BY <1>2, <1>3, <1>8 DEF Counted
    <2>3. executions[d]["SUCCESS"] = 0 /\ \A u \in Workers : Recording(req[u], d) => u = w
      BY <1>6, <2>1 DEF LogOK
    <2>4. \A u \in Workers : ~Recording(req'[u], d)
      BY <1>7, <2>3
    <2> QED
      BY <1>2, <1>3, <1>5, <1>6, <2>1, <2>2, <2>3, <2>4 DEF LogOK, Recording
  <1>9. CASE d # c \/ o # "SUCCESS"
    <2>1. executions'[d]["SUCCESS"] = executions[d]["SUCCESS"]
      BY <1>2, <1>3, <1>9
    <2> QED
      BY <1>3, <1>5, <1>6, <1>7, <2>1 DEF LogOK, Recording
  <1> QED
    BY <1>8, <1>9

\* The invariant is inductive next to IInv and ForwardInv.
LEMMA OnceStep ==
    ASSUME NEW rank \in [Values -> Nat]
    PROVE  IInv /\ ForwardInv(rank) /\ OnceInv(rank) /\ [Next]_vars => OnceInv(rank)'
  <1> SUFFICES ASSUME IInv, ForwardInv(rank), OnceInv(rank), [Next]_vars
               PROVE  OnceInv(rank)'
    OBVIOUS
  <1> USE DEF sources, store, clock
  <1>0. req \in [Workers -> Request] /\ \A u \in Workers : req[u] \in Request
    BY DEF IInv, TypeOK
  <1>1. CASE World
    <2>1. UNCHANGED <<executions, commits>>
      BY <1>1 DEF World, DeliverExecution, DeliverBooking, ExpireEnvelope, Restart, Crash
    <2>2. \A u \in Workers : req'[u] = req[u] \/ req'[u] = Idle
      BY <1>0, <1>1 DEF World, DeliverExecution, DeliverBooking, ExpireEnvelope, Restart, Crash
    <2> QED
      BY <2>1, <2>2, IdleType, OnceQuiet
  <1>2. ASSUME NEW w \in Workers, Call(w) PROVE OnceInv(rank)'
    <2>1. UNCHANGED <<executions, commits>>
      BY <1>2 DEF Call, run_reconciliation, generate_case, submit_approval,
                  remediation_execute
    <2>2. \A u \in Workers \ {w} : req'[u] = req[u]
      BY <1>0, <1>2 DEF Call, run_reconciliation, generate_case, submit_approval,
                        remediation_execute
    <2>3. req'[w].pc # "record"
      <3>1. CASE run_reconciliation(w)
        BY <1>0, <3>1 DEF run_reconciliation, Idle
      <3>2. ASSUME NEW c \in CaseIds, NEW b \in breaks, generate_case(w, c, b)
            PROVE  req'[w].pc # "record"
        BY <1>0, <3>2 DEF generate_case, Idle
      <3>3. ASSUME NEW c \in CaseIds, NEW role \in Roles, NEW i \in Identities,
                   submit_approval(w, c, role, i)
            PROVE  req'[w].pc # "record"
        BY <1>0, <3>3 DEF submit_approval, Idle
      <3>4. ASSUME NEW c \in CaseIds, remediation_execute(w, c) PROVE req'[w].pc # "record"
        BY <1>0, <3>4 DEF remediation_execute, Idle
      <3> QED
        BY <1>2, <3>1, <3>2, <3>3, <3>4, Zenon DEF Call
    <2> QED
      BY <2>1, <2>2, <2>3, OnceQuiet
  <1>3. ASSUME NEW w \in Workers, Proceed(w) PROVE OnceInv(rank)'
    <2>1. CASE apply_legacy_booking_correction(w)
      BY <2>1, OnceApply
    <2>2. CASE insert_execution(w)
      BY <2>2, OnceRecord
    <2>3. CASE \/ persist_canonical_states(w) \/ persist_canonical_violation(w)
               \/ persist_run(w) \/ seed_legacy_booking_record(w) \/ insert_approval(w)
               \/ insert_envelope_if_absent(w) \/ read_latest_booking(w)
               \/ ingest_corrected_booking_observation(w) \/ rerun_read(w)
               \/ rerun_version(w) \/ rerun_persist(w) \/ rerun_persist_violation(w)
               \/ finalize_evidence(w)
      <3> USE DEF persist_canonical_states, persist_canonical_violation, persist_run,
                  seed_legacy_booking_record, insert_approval, insert_envelope_if_absent,
                  read_latest_booking, ingest_corrected_booking_observation, rerun_read,
                  rerun_version, rerun_persist, rerun_persist_violation, finalize_evidence
      <3>1. UNCHANGED <<executions, commits>>
        BY <2>3
      <3>2. \A u \in Workers \ {w} : req'[u] = req[u]
        BY <1>0, <2>3
      <3>3. req'[w].pc # "record"
        <4>1. \/ req'[w] = Idle
              \/ req'[w].pc \in {"persist_run", "verify", "ingest", "rerun_read",
                                 "rerun_version", "rerun_persist", "finalize"}
          BY <1>0, <2>3, SMTT(30) DEF Request
        <4> QED
          BY <4>1, IdleType
      <3> HIDE DEF persist_canonical_states, persist_canonical_violation, persist_run,
                  seed_legacy_booking_record, insert_approval, insert_envelope_if_absent,
                  read_latest_booking, ingest_corrected_booking_observation, rerun_read,
                  rerun_version, rerun_persist, rerun_persist_violation, finalize_evidence
      <3> QED
        BY <3>1, <3>2, <3>3, OnceQuiet
    <2>4. CASE verify_envelope(w)
      <3>1. UNCHANGED <<executions, commits>> /\ \A u \in Workers \ {w} : req'[u] = req[u]
        BY <1>0, <2>4 DEF verify_envelope
      <3>2. \/ req'[w] = [req[w] EXCEPT !.pc = "apply"]
            \/ /\ req'[w] = [req[w] EXCEPT !.pc = "record", !.outcome = Rejection(req[w])]
               /\ Rejection(req[w]) # NULL
        BY <1>0, <2>4 DEF verify_envelope
      <3>3. Rejection(req[w]) # NULL => Rejection(req[w]) # "SUCCESS"
        BY DEF Rejection
      <3>4. req'[w].pc # "record" \/ req'[w].outcome # "SUCCESS"
        BY <1>0, <3>2, <3>3 DEF Request
      <3> QED
        BY <3>1, <3>4, OnceQuiet
    <2> QED
      BY <1>3, <2>1, <2>2, <2>3, <2>4, Zenon DEF Proceed
  <1>4. CASE UNCHANGED vars
    <2>1. UNCHANGED <<executions, commits, req>>
      BY <1>4 DEF vars
    <2> QED
      BY <2>1, OnceQuiet
  <1> QED
    BY <1>1, <1>2, <1>3, <1>4 DEF Next

\* Nothing has been applied in a freshly loaded corpus.
LEMMA OnceInit == ASSUME NEW rank \in [Values -> Nat], Init PROVE OnceInv(rank)
  BY DEF Init, OnceInv, Kept, LogOK, Recording, Idle, Outcomes

\* Under feeds that never return to a value they have left, an idempotency key
\* changes the legacy record at most once and the execution log claims no more,
\* over replays, concurrent executions, deaths and retries (store.py,
\* apply_legacy_booking_correction; executor.py).
THEOREM AppliedAtMostOnce == ForwardFeeds => (Spec => []AtMostOnce)
  <1> SUFFICES ASSUME NEW rank \in [Values -> Nat], ForwardBy(rank)
               PROVE  Spec => []AtMostOnce
    BY DEF ForwardFeeds
  <1>1. Init => ForwardInv(rank) /\ OnceInv(rank)
    BY ForwardInit, OnceInit
  <1>2. IInv /\ ForwardInv(rank) /\ [Next]_vars => ForwardInv(rank)'
    BY ForwardStep
  <1>3. IInv /\ ForwardInv(rank) /\ OnceInv(rank) /\ [Next]_vars => OnceInv(rank)'
    BY OnceStep
  <1>4. OnceInv(rank) => AtMostOnce
    BY DEF OnceInv, LogOK, AtMostOnce
  <1> QED
    BY <1>1, <1>2, <1>3, <1>4, Consistency, PTL DEF Spec

-----------------------------------------------------------------------------
\* The two books.

\* What both properties take: every later booking is a correction (a trade has one
\* booking from the start), and no feed returns.
OnlyCorrections == ForwardFeeds /\ MaxRevisions <= 1

\* Moreover nobody dies.
Undisturbed == OnlyCorrections /\ MaxCrashes = 0

Latest(t) == bookings[t][Len(bookings[t])].value

\* The request has corrected the legacy record and not yet fed it back.
Pending(r) ==
    \/ r.pc = "record" /\ r.outcome = "SUCCESS"
    \/ r.pc \in {"read_booking", "ingest"}

PendingOn(r, t) == Pending(r) /\ cases[r.case].trade_id = t

\* v was the trade's booking once; before the record exists it still is.
Past(rank, t, v) ==
    /\ Behind(rank, v, Latest(t))
    /\ legacy[t] = NULL => v = Latest(t)

SeenPast(rank, r) ==
    r.pc \in {"persist_canonical", "persist_run"} =>
        \A t \in Trades : Past(rank, t, r.seen[t].booking)

\* What any run, break or case has observed was the booking once.
PastInv(rank) ==
    /\ \A w \in Workers : SeenPast(rank, req[w])
    /\ \A b \in breaks : Past(rank, b.trade_id, b.observed_value)
    /\ \A c \in CaseIds : cases[c] # NULL =>
          Past(rank, cases[c].trade_id, cases[c].observed_value)

\* A correction that is under way is the only one of its trade and accounts for
\* the whole difference between the two books.
CarriedBy(w, t) ==
    LET r == req[w] IN
    /\ legacy[t] # NULL
    /\ legacy[t].base_amount_value = cases[r.case].expected_value
    /\ Latest(t) = cases[r.case].observed_value
    /\ r.pc = "ingest" => Len(bookings[t]) = r.latest
    /\ \A u \in Workers : PendingOn(req[u], t) => u = w

\* The books agree, or a death has left the record ahead.
Even(rank, t) ==
    \/ legacy[t].base_amount_value = Latest(t)
    \/ MaxCrashes # 0 /\ rank[Latest(t)] < rank[legacy[t].base_amount_value]

Balanced(rank, t) ==
    /\ \A w \in Workers : PendingOn(req[w], t) => CarriedBy(w, t)
    /\ legacy[t] # NULL /\ (\A w \in Workers : ~PendingOn(req[w], t)) => Even(rank, t)

LedgerInv(rank) == PastInv(rank) /\ \A t \in Trades : Balanced(rank, t)

-----------------------------------------------------------------------------
\* Nothing is under way and no record exists in a freshly loaded corpus.
LEMMA LedgerInit ==
    ASSUME NEW rank \in [Values -> Nat], Init PROVE LedgerInv(rank)
  BY DEF Init, LedgerInv, PastInv, SeenPast, Balanced, Even, CarriedBy, PendingOn, Pending, Idle

\* A pending request is about a case, and about the trade of its envelope.
LEMMA PendingCase ==
    ASSUME IInv, NEW w \in Workers, Pending(req[w])
    PROVE  /\ req[w].case \in CaseIds /\ cases[req[w].case] # NULL
           /\ cases[req[w].case] \in Case
           /\ req[w].envelope.trade_id = cases[req[w].case].trade_id
           /\ req[w].envelope.approved_value = cases[req[w].case].expected_value
  <1>1. RequestOK(req[w]) /\ req[w] \in Request
    BY DEF IInv, TypeOK
  <1>2. /\ req[w].case \in CaseIds /\ cases[req[w].case] # NULL
        /\ req[w].envelope # NULL /\ req[w].envelope = envelopes[req[w].case]
    BY <1>1 DEF Pending, RequestOK, OfCase, Approved, Enveloped, Points
  <1>3. CaseOK(req[w].case) /\ cases[req[w].case] \in Case
    BY <1>2 DEF IInv, TypeOK
  <1> QED
    BY <1>2, <1>3 DEF CaseOK

\* A step that moves neither book and no request into or out of being under way.
LEMMA BalanceKept ==
    ASSUME IInv, [Next]_vars, NEW rank, \A t \in Trades : Balanced(rank, t),
           UNCHANGED <<bookings, legacy>>,
           \A u \in Workers : \/ req'[u] = req[u]
                              \/ ~Pending(req[u]) /\ ~Pending(req'[u])
    PROVE  \A t \in Trades : Balanced(rank, t)'
  <1> SUFFICES ASSUME NEW t \in Trades PROVE Balanced(rank, t)'
    OBVIOUS
  <1>1. ASSUME NEW u \in Workers, Pending(req[u]) \/ Pending(req'[u])
        PROVE  /\ req'[u] = req[u] /\ Pending(req[u])
               /\ cases'[req[u].case] = cases[req[u].case]
    BY <1>1, PendingCase, CasesStay
  <1>2. ASSUME NEW u \in Workers PROVE PendingOn(req[u], t)' <=> PendingOn(req[u], t)
    BY <1>1 DEF PendingOn, Pending
  <1>3. ASSUME NEW u \in Workers, PendingOn(req[u], t) PROVE CarriedBy(u, t)'
    <2>1. CarriedBy(u, t) /\ req'[u] = req[u] /\ cases'[req[u].case] = cases[req[u].case]
      BY <1>1, <1>3 DEF Balanced, Even, PendingOn
    <2> QED
      BY <1>2, <2>1 DEF CarriedBy, Latest
  <1>4. Balanced(rank, t)
    OBVIOUS
  <1> QED
    BY <1>2, <1>3, <1>4 DEF Balanced, Even, Latest

\* A step that observes nothing new and moves neither book.
LEMMA PastKept ==
    ASSUME NEW rank \in [Values -> Nat], PastInv(rank),
           UNCHANGED <<bookings, legacy, breaks, cases>>,
           \A u \in Workers : req'[u] = req[u]
                \/ req'[u].pc \notin {"persist_canonical", "persist_run"}
    PROVE  PastInv(rank)'
  <1>1. ASSUME NEW u \in Workers PROVE SeenPast(rank, req[u])'
    BY DEF PastInv, SeenPast, Past, Latest
  <1>2. /\ \A b \in breaks' : Past(rank, b.trade_id, b.observed_value)'
        /\ \A c \in CaseIds : cases'[c] # NULL =>
              Past(rank, cases[c].trade_id, cases[c].observed_value)'
    BY DEF PastInv, Past, Latest
  <1> QED
    BY <1>1, <1>2 DEF PastInv

\* A step that observes nothing new and leaves in the past what was there.
LEMMA PastMoves ==
    ASSUME IInv, NEW rank \in [Values -> Nat], PastInv(rank), UNCHANGED <<breaks, cases>>,
           \A t \in Trades, v \in Values : Past(rank, t, v) => Past(rank, t, v)',
           \A u \in Workers : req'[u] = req[u]
                \/ req'[u].pc \notin {"persist_canonical", "persist_run"}
    PROVE  PastInv(rank)'
  <1>1. ASSUME NEW u \in Workers PROVE SeenPast(rank, req[u])'
    <2> SUFFICES ASSUME req'[u].pc \in {"persist_canonical", "persist_run"}, NEW t \in Trades
                 PROVE  Past(rank, t, req[u].seen[t].booking)'
      BY DEF SeenPast
    <2>1. req'[u] = req[u] /\ req[u] \in Request /\ RequestOK(req[u])
      BY DEF IInv, TypeOK
    <2>2. req[u].seen \in [Trades -> Snapshot]
      BY <2>1 DEF RequestOK, Reading, Request
    <2>3. req[u].seen[t].booking \in Values
      BY <2>2 DEF Snapshot
    <2>4. Past(rank, t, req[u].seen[t].booking)
      BY <2>1 DEF PastInv, SeenPast
    <2> QED
      BY <2>1, <2>3, <2>4
  <1>2. ASSUME NEW b \in breaks' PROVE Past(rank, b.trade_id, b.observed_value)'
    <2>1. b \in breaks /\ b.trade_id \in Trades /\ b.observed_value \in Values
      BY <1>2 DEF IInv, TypeOK, Break
    <2> QED
      BY <2>1 DEF PastInv
  <1>3. ASSUME NEW d \in CaseIds, cases'[d] # NULL
        PROVE  Past(rank, cases[d].trade_id, cases[d].observed_value)'
    <2>1. cases[d].trade_id \in Trades /\ cases[d].observed_value \in Values
      BY <1>3 DEF IInv, TypeOK, Case
    <2>2. Past(rank, cases[d].trade_id, cases[d].observed_value)
      BY <1>3 DEF PastInv
    <2> QED
      BY <2>1, <2>2
  <1> QED
    BY <1>1, <1>2, <1>3 DEF PastInv

\* Both, for a step of one worker that is not under way.
LEMMA LedgerQuiet ==
    ASSUME IInv, [Next]_vars, NEW rank \in [Values -> Nat], LedgerInv(rank),
           UNCHANGED <<bookings, legacy, breaks, cases>>, NEW w \in Workers,
           \A u \in Workers \ {w} : req'[u] = req[u],
           ~Pending(req[w]), ~Pending(req'[w]),
           req'[w].pc \notin {"persist_canonical", "persist_run"}
    PROVE  LedgerInv(rank)'
  <1>1. PastInv(rank)'
    BY PastKept DEF LedgerInv
  <1>2. \A t \in Trades : Balanced(rank, t)'
    BY BalanceKept DEF LedgerInv
  <1> QED
    BY <1>1, <1>2 DEF LedgerInv

-----------------------------------------------------------------------------
\* Requests die between two transactions: a correction under way is cut off, and
\* the record stays ahead of the booking.
LEMMA LedgerDeath ==
    ASSUME IInv, [Next]_vars, NEW rank \in [Values -> Nat], ForwardInv(rank), LedgerInv(rank),
           UNCHANGED <<bookings, legacy, breaks, cases>>, MaxCrashes # 0,
           \A u \in Workers : req'[u] = req[u] \/ req'[u] = Idle
    PROVE  LedgerInv(rank)'
  <1>1. PastInv(rank)'
    BY IdleType, PastKept DEF LedgerInv
  <1>2. ASSUME NEW t \in Trades PROVE Balanced(rank, t)'
    <2>1. Balanced(rank, t)
      BY DEF LedgerInv
    <2>2. ASSUME NEW u \in Workers, PendingOn(req[u], t)'
          PROVE  PendingOn(req[u], t) /\ req'[u] = req[u]
      BY <2>2, IdleType DEF PendingOn, Pending
    <2>3. ASSUME NEW u \in Workers, PendingOn(req[u], t)' PROVE CarriedBy(u, t)'
      <3>1. CarriedBy(u, t) /\ req'[u] = req[u]
        BY <2>1, <2>2, <2>3 DEF Balanced
      <3> QED
        BY <2>2, <3>1 DEF CarriedBy, Latest
    <2>4. ASSUME legacy[t] # NULL PROVE Even(rank, t) \/ \E u \in Workers : PendingOn(req[u], t)'
      <3>1. CASE \A u \in Workers : ~PendingOn(req[u], t)
        BY <2>1, <2>4, <3>1 DEF Balanced
      <3>2. ASSUME NEW u \in Workers, PendingOn(req[u], t) PROVE Even(rank, t)
        <4>1. PICK d \in CaseIds : d = req[u].case /\ cases[d] # NULL
          BY <3>2, PendingCase DEF PendingOn
        <4>2. /\ legacy[t].base_amount_value = cases[d].expected_value
              /\ Latest(t) = cases[d].observed_value
          BY <2>1, <3>2, <4>1 DEF Balanced, CarriedBy
        <4>3. rank[cases[d].observed_value] < rank[cases[d].expected_value]
          BY <4>1 DEF ForwardInv, LeadsForward
        <4> QED
          BY <4>2, <4>3 DEF Even
      <3> QED
        BY <3>1, <3>2
    <2> QED
      BY <2>3, <2>4 DEF Balanced, Even, Latest
  <1> QED
    BY <1>1, <1>2 DEF LedgerInv

\* While the booking system is silent, the world amends executions, lets envelopes
\* expire and lets requests die.
LEMMA LedgerWorld ==
    ASSUME IInv, NEW rank \in [Values -> Nat], ForwardInv(rank), LedgerInv(rank), World,
           MaxRevisions <= 1
    PROVE  LedgerInv(rank)'
  <1> USE DEF sources, store, clock
  <1>0. req \in [Workers -> Request] /\ crashes \in Nat /\ MaxCrashes \in Nat /\ [Next]_vars
    BY ConstantsAssumption DEF IInv, TypeOK, Next
  <1>1. ASSUME NEW t \in Trades, NEW v \in Values, DeliverBooking(t, v) PROVE FALSE
    <2>1. bookings[t] \in Seq(Booking) /\ bookings[t] # <<>> /\ Len(bookings[t]) < MaxRevisions
      BY <1>1 DEF DeliverBooking, IInv, TypeOK
    <2>2. Len(bookings[t]) \in Nat /\ Len(bookings[t]) # 0
      BY <2>1
    <2>3. MaxRevisions \in Nat
      BY ConstantsAssumption
    <2> QED
      BY <2>1, <2>2, <2>3
  <1>2. ASSUME NEW s \in Secrets, Restart(s) PROVE LedgerInv(rank)'
    <2>1. /\ UNCHANGED <<bookings, legacy, breaks, cases>> /\ MaxCrashes # 0
          /\ \A u \in Workers : req'[u] = Idle
      BY <1>0, <1>2 DEF Restart
    <2> QED
      BY <1>0, <2>1, LedgerDeath
  <1>3. ASSUME NEW w \in Workers, Crash(w) PROVE LedgerInv(rank)'
    <2>1. /\ UNCHANGED <<bookings, legacy, breaks, cases>> /\ MaxCrashes # 0
          /\ \A u \in Workers : req'[u] = req[u] \/ req'[u] = Idle
      BY <1>0, <1>3 DEF Crash
    <2> QED
      BY <1>0, <2>1, LedgerDeath
  <1>4. ASSUME UNCHANGED <<bookings, legacy, breaks, cases, req>> PROVE LedgerInv(rank)'
    <2>1. PastInv(rank)'
      BY <1>4, PastKept DEF LedgerInv
    <2>2. \A t \in Trades : Balanced(rank, t)'
      BY <1>0, <1>4, BalanceKept DEF LedgerInv
    <2> QED
      BY <2>1, <2>2 DEF LedgerInv
  <1>5. \/ \E s \in Secrets : Restart(s)
        \/ \E w \in Workers : Crash(w)
        \/ UNCHANGED <<bookings, legacy, breaks, cases, req>>
    BY <1>1 DEF World, DeliverExecution, ExpireEnvelope
  <1> QED
    BY <1>2, <1>3, <1>4, <1>5

\* A run reads the newest bookings; triage takes over what a break has observed.
LEMMA LedgerCall ==
    ASSUME IInv, NEW rank \in [Values -> Nat], LedgerInv(rank), NEW w \in Workers, Call(w)
    PROVE  LedgerInv(rank)'
  <1> USE DEF sources, store, clock
  <1>0. req \in [Workers -> Request] /\ [Next]_vars
    BY DEF IInv, TypeOK, Next
  <1>1. CASE run_reconciliation(w)
    <2>1. UNCHANGED <<bookings, legacy, breaks, cases>> /\ req[w].pc = "idle"
      BY <1>1 DEF run_reconciliation
    <2>2. \A u \in Workers \ {w} : req'[u] = req[u]
      BY <1>0, <1>1 DEF run_reconciliation
    <2>3. req'[w].seen = observation_documents /\ req'[w].pc = "persist_canonical"
      BY <1>0, <1>1 DEF run_reconciliation, Idle
    <2>4. \A t \in Trades : Balanced(rank, t)'
      BY <1>0, <2>1, <2>2, <2>3, BalanceKept DEF LedgerInv, Pending
    <2>5. SeenPast(rank, req[w])'
      <3> SUFFICES ASSUME NEW t \in Trades PROVE Past(rank, t, req[w].seen[t].booking)'
        BY DEF SeenPast
      <3>1. req'[w].seen[t].booking = Latest(t)
        BY <2>3 DEF observation_documents, Latest
      <3> QED
        BY <2>1, <3>1 DEF Past, Behind, Latest
    <2>6. \A u \in Workers : SeenPast(rank, req[u])'
      BY <2>1, <2>2, <2>5 DEF LedgerInv, PastInv, SeenPast, Past, Latest
    <2>7. /\ \A b \in breaks' : Past(rank, b.trade_id, b.observed_value)'
          /\ \A c \in CaseIds : cases'[c] # NULL =>
                Past(rank, cases[c].trade_id, cases[c].observed_value)'
      BY <2>1 DEF LedgerInv, PastInv, Past, Latest
    <2> QED
      BY <2>4, <2>6, <2>7 DEF LedgerInv, PastInv
  <1>2. ASSUME NEW c \in CaseIds, NEW b \in breaks, generate_case(w, c, b)
        PROVE  LedgerInv(rank)'
    <2>1. PICK decision : cases' = [cases EXCEPT ![c] =
                                     [ trade_id       |-> b.trade_id,
                                       expected_value |-> b.expected_value,
                                       observed_value |-> b.observed_value,
                                       decision       |-> decision ]]
      BY <1>2 DEF generate_case
    <2>2. /\ UNCHANGED <<bookings, legacy, breaks>> /\ req[w].pc = "idle"
          /\ req' = [req EXCEPT ![w] = [Idle EXCEPT !.pc = "seed", !.case = c]]
      BY <1>2 DEF generate_case
    <2>3. \A u \in Workers : req'[u] = req[u] \/ (u = w /\ req'[u].pc = "seed")
      BY <1>0, <2>2 DEF Idle
    <2>4. \A t \in Trades : Balanced(rank, t)'
      BY <1>0, <2>2, <2>3, BalanceKept DEF LedgerInv, Pending
    <2>5. ASSUME NEW d \in CaseIds, cases'[d] # NULL
          PROVE  Past(rank, cases[d].trade_id, cases[d].observed_value)'
      <3>1. CASE d = c
        <4>1. cases'[d].trade_id = b.trade_id /\ cases'[d].observed_value = b.observed_value
          BY <2>1, <3>1 DEF IInv, TypeOK
        <4>2. Past(rank, b.trade_id, b.observed_value)
          BY DEF LedgerInv, PastInv
        <4> QED
          BY <2>2, <4>1, <4>2 DEF Past, Latest
      <3>2. CASE d # c
        <4>1. cases'[d] = cases[d]
          BY <2>1, <3>2 DEF IInv, TypeOK
        <4> QED
          BY <2>2, <2>5, <4>1 DEF LedgerInv, PastInv, Past, Latest
      <3> QED
        BY <3>1, <3>2
    <2>6. ASSUME NEW u \in Workers PROVE SeenPast(rank, req[u])'
      BY <2>2, <2>3 DEF LedgerInv, PastInv, SeenPast, Past, Latest
    <2>7. \A d \in breaks' : Past(rank, d.trade_id, d.observed_value)'
      BY <2>2 DEF LedgerInv, PastInv, Past, Latest
    <2> QED
      BY <2>4, <2>5, <2>6, <2>7 DEF LedgerInv, PastInv
  <1>3. ASSUME NEW c \in CaseIds, NEW role \in Roles, NEW i \in Identities,
               submit_approval(w, c, role, i)
        PROVE  LedgerInv(rank)'
    <2>1. UNCHANGED <<bookings, legacy, breaks, cases>> /\ req[w].pc = "idle"
      BY <1>3 DEF submit_approval
    <2>2. \A u \in Workers \ {w} : req'[u] = req[u]
      BY <1>0, <1>3 DEF submit_approval
    <2>3. req'[w].pc = "insert_approval"
      BY <1>0, <1>3 DEF submit_approval, Idle
    <2> QED
      BY <1>0, <2>1, <2>2, <2>3, LedgerQuiet DEF Pending
  <1>4. ASSUME NEW c \in CaseIds, remediation_execute(w, c) PROVE LedgerInv(rank)'
    <2>1. UNCHANGED <<bookings, legacy, breaks, cases>> /\ req[w].pc = "idle"
      BY <1>4 DEF remediation_execute
    <2>2. \A u \in Workers \ {w} : req'[u] = req[u]
      BY <1>0, <1>4 DEF remediation_execute
    <2>3. req'[w].pc = "envelope"
      BY <1>0, <1>4 DEF remediation_execute, Idle
    <2> QED
      BY <1>0, <2>1, <2>2, <2>3, LedgerQuiet DEF Pending
  <1> QED
    BY <1>1, <1>2, <1>3, <1>4, Zenon DEF Call

-----------------------------------------------------------------------------
\* A correction under way goes one step further without moving either book.
LEMMA BalanceCarried ==
    ASSUME IInv, [Next]_vars, NEW rank, \A t \in Trades : Balanced(rank, t),
           UNCHANGED <<bookings, legacy>>,
           NEW w \in Workers, \A u \in Workers \ {w} : req'[u] = req[u],
           Pending(req[w]), Pending(req'[w]), req'[w].case = req[w].case,
           req'[w].pc = "ingest" =>
               req'[w].latest = Len(bookings[cases[req[w].case].trade_id])
    PROVE  \A t \in Trades : Balanced(rank, t)'
  <1> SUFFICES ASSUME NEW t \in Trades PROVE Balanced(rank, t)'
    OBVIOUS
  <1>1. ASSUME NEW u \in Workers, Pending(req[u]) \/ Pending(req'[u])
        PROVE  /\ Pending(req[u]) /\ Pending(req'[u]) /\ req'[u].case = req[u].case
               /\ cases'[req[u].case] = cases[req[u].case]
    BY <1>1, PendingCase, CasesStay
  <1>2. ASSUME NEW u \in Workers PROVE PendingOn(req[u], t)' <=> PendingOn(req[u], t)
    BY <1>1 DEF PendingOn, Pending
  <1>3. ASSUME NEW u \in Workers, PendingOn(req[u], t) PROVE CarriedBy(u, t)'
    <2>1. /\ CarriedBy(u, t) /\ req'[u].case = req[u].case
          /\ cases'[req[u].case] = cases[req[u].case]
      BY <1>1, <1>3 DEF Balanced, Even, PendingOn
    <2>2. req'[u].pc = "ingest" => Len(bookings'[t]) = req'[u].latest
      BY <1>3, <2>1 DEF CarriedBy, PendingOn
    <2> QED
      BY <1>2, <2>1, <2>2 DEF CarriedBy, Latest
  <1>4. Balanced(rank, t)
    OBVIOUS
  <1> QED
    BY <1>2, <1>3, <1>4 DEF Balanced, Even, Latest

\* seed_legacy_booking_record opens the second book with the value of the first.
LEMMA LedgerSeed ==
    ASSUME IInv, NEW rank \in [Values -> Nat], LedgerInv(rank), NEW w \in Workers,
           seed_legacy_booking_record(w)
    PROVE  LedgerInv(rank)'
  <1> USE DEF sources, store, clock
  <1>0. /\ req \in [Workers -> Request] /\ req[w] \in Request /\ RequestOK(req[w])
        /\ req[w].pc = "seed" /\ legacy \in [Trades -> LegacyRecord \cup {NULL}]
    BY DEF IInv, TypeOK, seed_legacy_booking_record
  <1>1. PICK c \in CaseIds : c = req[w].case /\ cases[c] # NULL /\ cases[c] \in Case
    BY <1>0 DEF RequestOK, OfCase, Points, IInv, TypeOK
  <1>2. PICK t \in Trades : t = cases[c].trade_id
    BY <1>1 DEF Case
  <1>3. PICK new \in LegacyRecord : new.base_amount_value = cases[c].observed_value
          /\ legacy' = [legacy EXCEPT ![t] = IF legacy[t] = NULL THEN new ELSE legacy[t]]
    <2> DEFINE n == [ base_amount_value |-> cases[c].observed_value, booking_version |-> 1,
                      last_applied_idempotency_key |-> NULL ]
    <2>1. n \in LegacyRecord
      BY <1>1 DEF LegacyRecord, Case
    <2> QED
      BY <1>1, <1>2, <2>1 DEF seed_legacy_booking_record
  <1>4. /\ UNCHANGED <<bookings, breaks, cases>>
        /\ \A u \in Workers \ {w} : req'[u] = req[u]
        /\ req'[w] = Idle /\ ~Pending(req[w]) /\ ~Pending(req'[w])
    BY <1>0, IdleType DEF seed_legacy_booking_record, Pending
  <1>5. \A s \in Trades : legacy[s] # NULL \/ s # t => legacy'[s] = legacy[s]
    BY <1>0, <1>3
  <1>6. ASSUME legacy[t] = NULL
        PROVE  /\ legacy'[t].base_amount_value = Latest(t)
               /\ \A u \in Workers : ~PendingOn(req[u], t)
    <2>1. legacy'[t].base_amount_value = cases[c].observed_value
      BY <1>0, <1>3, <1>6
    <2>2. cases[c].observed_value = Latest(t)
      BY <1>1, <1>2, <1>6 DEF LedgerInv, PastInv, Past
    <2>3. Balanced(rank, t)
      BY DEF LedgerInv
    <2> QED
      BY <1>6, <2>1, <2>2, <2>3 DEF Balanced, Even, CarriedBy
  <1>7. ASSUME NEW s \in Trades PROVE Balanced(rank, s)'
    <2>1. Balanced(rank, s)
      BY DEF LedgerInv
    <2>2. ASSUME NEW u \in Workers PROVE PendingOn(req[u], s)' <=> PendingOn(req[u], s)
      BY <1>4 DEF PendingOn, Pending
    <2>3. ASSUME NEW u \in Workers, PendingOn(req[u], s) PROVE CarriedBy(u, s)'
      <3>1. CarriedBy(u, s) /\ req'[u] = req[u]
        BY <1>4, <2>1, <2>3 DEF Balanced, Even, PendingOn
      <3>2. legacy'[s] = legacy[s]
        BY <1>5, <3>1 DEF CarriedBy
      <3> QED
        BY <1>4, <2>2, <3>1, <3>2 DEF CarriedBy, Latest
    <2>4. CASE legacy'[s] = legacy[s]
      BY <1>4, <2>1, <2>2, <2>3, <2>4 DEF Balanced, Even, Latest
    <2>5. CASE legacy'[s] # legacy[s]
      <3>1. s = t /\ legacy[t] = NULL
        BY <1>5, <2>5
      <3> QED
        BY <1>4, <1>6, <2>2, <3>1 DEF Balanced, Even, Latest
    <2> QED
      BY <2>4, <2>5
  <1>8. ASSUME NEW s \in Trades, NEW v \in Values, Past(rank, s, v) PROVE Past(rank, s, v)'
    BY <1>4, <1>5, <1>8 DEF Past, Latest
  <1>9. PastInv(rank)'
    BY <1>4, <1>8, IdleType, PastMoves DEF LedgerInv
  <1> QED
    BY <1>7, <1>9 DEF LedgerInv

\* apply_legacy_booking_correction: the record holds the observed value only
\* while no other correction of the trade is under way.
LEMMA LedgerApply ==
    ASSUME IInv, NEW rank \in [Values -> Nat], ForwardInv(rank), LedgerInv(rank),
           NEW w \in Workers, apply_legacy_booking_correction(w)
    PROVE  LedgerInv(rank)'
  <1> USE DEF sources, store, clock
  <1>0. /\ req \in [Workers -> Request] /\ req[w] \in Request /\ RequestOK(req[w])
        /\ req[w].pc = "apply" /\ legacy \in [Trades -> LegacyRecord \cup {NULL}]
        /\ [Next]_vars
    BY DEF IInv, TypeOK, apply_legacy_booking_correction, Next, Proceed
  <1>1. PICK c \in CaseIds, e \in ActionEnvelope, t \in Trades :
           c = req[w].case /\ e = req[w].envelope /\ t = e.trade_id
    BY <1>0 DEF RequestOK, OfCase, Approved, Enveloped, Points, Request, ActionEnvelope
  <1>2. /\ cases[c] # NULL /\ cases[c] \in Case
        /\ t = cases[c].trade_id
        /\ e.approved_value = cases[c].expected_value
        /\ e.expected_old_value = cases[c].observed_value
    <2>1. CaseOK(c)
      BY DEF IInv
    <2>2. e # NULL /\ e = envelopes[c] /\ Eligible(c)
      BY <1>0, <1>1 DEF RequestOK, OfCase, Approved, Enveloped, Points
    <2> QED
      BY <1>1, <2>1, <2>2 DEF CaseOK, Eligible, IInv, TypeOK
  <1>3. PICK o : o = ApplyOutcome(legacy[t], c, e)
    OBVIOUS
  <1>4. /\ \A u \in Workers \ {w} : req'[u] = req[u]
        /\ req'[w].pc = "record" /\ req'[w].outcome = o /\ req'[w].case = c
        /\ UNCHANGED <<bookings, breaks, cases>> /\ ~Pending(req[w])
    BY <1>0, <1>1, <1>3 DEF apply_legacy_booking_correction, Request, Pending
  <1>5. CASE o # "SUCCESS"
    <2>1. UNCHANGED legacy
      BY <1>1, <1>3, <1>5 DEF apply_legacy_booking_correction
    <2>2. ~Pending(req'[w])
      BY <1>4, <1>5 DEF Pending
    <2> QED
      BY <1>0, <1>4, <2>1, <2>2, LedgerQuiet
  <1>6. CASE o = "SUCCESS"
    <2>1. /\ legacy' = [legacy EXCEPT ![t] = Corrected(legacy[t], c, e)]
          /\ legacy[t] # NULL /\ legacy[t].base_amount_value = cases[c].observed_value
      BY <1>1, <1>2, <1>3, <1>6 DEF apply_legacy_booking_correction, ApplyOutcome
    <2>2. /\ legacy'[t].base_amount_value = cases[c].expected_value
          /\ legacy'[t] # NULL
          /\ \A s \in Trades \ {t} : legacy'[s] = legacy[s]
      <3>1. legacy'[t] = Corrected(legacy[t], c, e) /\ \A s \in Trades \ {t} : legacy'[s] = legacy[s]
        BY <1>0, <2>1
      <3>2. Corrected(legacy[t], c, e) \in LegacyRecord
        BY <1>0, <2>1 DEF Corrected, LegacyRecord, ActionEnvelope
      <3> QED
        BY <1>2, <3>1, <3>2, NullIsNoRow DEF Corrected
    <2>3. ASSUME NEW u \in Workers, PendingOn(req[u], t) PROVE FALSE
      <3>1. PICK d \in CaseIds : d = req[u].case /\ cases[d] # NULL /\ cases[d] \in Case
        BY <2>3, PendingCase DEF PendingOn
      <3>2. /\ legacy[t].base_amount_value = cases[d].expected_value
            /\ Latest(t) = cases[d].observed_value
        BY <2>3, <3>1 DEF LedgerInv, Balanced, Even, CarriedBy
      <3>3. Behind(rank, cases[c].observed_value, Latest(t))
        BY <1>2 DEF LedgerInv, PastInv, Past
      <3>4. /\ rank[cases[d].observed_value] < rank[cases[d].expected_value]
            /\ rank[cases[d].observed_value] \in Nat /\ rank[cases[d].expected_value] \in Nat
        BY <3>1 DEF ForwardInv, LeadsForward, Case
      <3> QED
        BY <2>1, <3>2, <3>3, <3>4 DEF Behind
    <2>4. Latest(t) = cases[c].observed_value
      <3>1. Even(rank, t)
        BY <2>1, <2>3 DEF LedgerInv, Balanced
      <3>2. Behind(rank, cases[c].observed_value, Latest(t))
        BY <1>2 DEF LedgerInv, PastInv, Past
      <3>3. rank[Latest(t)] \in Nat /\ rank[cases[c].observed_value] \in Nat
        BY <1>2, LatestType DEF Case, Latest
      <3> QED
        BY <2>1, <3>1, <3>2, <3>3 DEF Even, Behind
    <2>5. ASSUME NEW u \in Workers, NEW s \in Trades
          PROVE  PendingOn(req[u], s)' <=> PendingOn(req[u], s) \/ (u = w /\ s = t)
      BY <1>2, <1>4, <1>6 DEF PendingOn, Pending
    <2>6. Balanced(rank, t)'
      <3>1. CarriedBy(w, t)'
        BY <1>2, <1>4, <2>2, <2>3, <2>4, <2>5 DEF CarriedBy, Latest
      <3> QED
        BY <2>3, <2>5, <3>1 DEF Balanced, Even
    <2>7. ASSUME NEW s \in Trades, s # t PROVE Balanced(rank, s)'
      <3>1. Balanced(rank, s) /\ legacy'[s] = legacy[s]
        BY <2>2, <2>7 DEF LedgerInv
      <3>2. ASSUME NEW u \in Workers, PendingOn(req[u], s) PROVE CarriedBy(u, s)'
        <4>1. CarriedBy(u, s) /\ req'[u] = req[u]
          BY <1>4, <3>1, <3>2 DEF Balanced, Even, PendingOn
        <4> QED
          BY <1>4, <2>5, <2>7, <3>1, <4>1 DEF CarriedBy, Latest
      <3> QED
        BY <1>4, <2>5, <2>7, <3>1, <3>2 DEF Balanced, Even, Latest
    <2>8. ASSUME NEW s \in Trades, NEW v \in Values, Past(rank, s, v) PROVE Past(rank, s, v)'
      BY <1>4, <2>2, <2>8 DEF Past, Latest
    <2>9. PastInv(rank)'
      BY <1>4, <2>8, PastMoves DEF LedgerInv
    <2> QED
      BY <2>6, <2>7, <2>9 DEF LedgerInv
  <1> QED
    BY <1>5, <1>6

\* ingest_corrected_booking_observation finds the version it expects, and the
\* new booking brings the first book to the value of the second.
LEMMA LedgerIngest ==
    ASSUME IInv, NEW rank \in [Values -> Nat], ForwardInv(rank), LedgerInv(rank),
           NEW w \in Workers, ingest_corrected_booking_observation(w)
    PROVE  LedgerInv(rank)'
  <1> USE DEF sources, store, clock
  <1>0. /\ req \in [Workers -> Request] /\ req[w] \in Request /\ RequestOK(req[w])
        /\ req[w].pc = "ingest" /\ Pending(req[w])
        /\ [Next]_vars
    BY DEF IInv, TypeOK, ingest_corrected_booking_observation, Next, Proceed, Pending
  <1>1. PICK c \in CaseIds, t \in Trades :
           /\ c = req[w].case /\ t = req[w].envelope.trade_id
           /\ cases[c] # NULL /\ cases[c] \in Case /\ t = cases[c].trade_id
           /\ req[w].envelope.approved_value = cases[c].expected_value
    BY <1>0, PendingCase DEF Case
  <1>2. CarriedBy(w, t) /\ PendingOn(req[w], t)
    BY <1>0, <1>1 DEF LedgerInv, Balanced, Even, PendingOn
  <1>3. Len(bookings[t]) = req[w].latest
    BY <1>0, <1>2 DEF CarriedBy
  <1>4. /\ bookings' = [bookings EXCEPT ![t] =
                          Append(bookings[t], [value |-> cases[c].expected_value, origin |-> c])]
        /\ req' = [req EXCEPT ![w].pc = "rerun_read"]
        /\ UNCHANGED <<legacy, breaks, cases>>
    BY <1>1, <1>3 DEF ingest_corrected_booking_observation
  <1>5. /\ \A u \in Workers \ {w} : req'[u] = req[u]
        /\ req'[w].pc = "rerun_read" /\ ~Pending(req'[w])
    BY <1>0, <1>4 DEF Request, Pending
  <1>6. /\ Latest(t)' = cases[c].expected_value
        /\ \A s \in Trades \ {t} : bookings'[s] = bookings[s]
    <2>1. bookings \in [Trades -> Seq(Booking)]
      BY DEF IInv, TypeOK
    <2>2. bookings'[t] = Append(bookings[t], [value |-> cases[c].expected_value, origin |-> c])
      BY <1>4, <2>1
    <2>3. bookings'[t][Len(bookings'[t])] = [value |-> cases[c].expected_value, origin |-> c]
      BY <2>1, <2>2
    <2> QED
      BY <1>4, <2>1, <2>3 DEF Latest
  <1>7. ASSUME NEW u \in Workers, NEW s \in Trades
        PROVE  PendingOn(req[u], s)' <=> PendingOn(req[u], s) /\ u # w
    BY <1>4, <1>5 DEF PendingOn, Pending
  <1>8. Balanced(rank, t)'
    <2>1. \A u \in Workers : ~PendingOn(req[u], t)'
      BY <1>2, <1>7 DEF CarriedBy
    <2>2. legacy'[t].base_amount_value = Latest(t)'
      BY <1>1, <1>2, <1>4, <1>6 DEF CarriedBy
    <2> QED
      BY <2>1, <2>2 DEF Balanced, Even
  <1>9. ASSUME NEW s \in Trades, s # t PROVE Balanced(rank, s)'
    <2>1. Balanced(rank, s) /\ bookings'[s] = bookings[s]
      BY <1>6, <1>9 DEF LedgerInv
    <2>2. ~PendingOn(req[w], s)
      BY <1>1, <1>9 DEF PendingOn
    <2>3. ASSUME NEW u \in Workers, PendingOn(req[u], s) PROVE CarriedBy(u, s)'
      <3>1. CarriedBy(u, s) /\ req'[u] = req[u]
        BY <1>5, <2>1, <2>2, <2>3 DEF Balanced, Even
      <3> QED
        BY <1>4, <1>7, <2>1, <3>1 DEF CarriedBy, Latest
    <2> QED
      BY <1>4, <1>7, <2>1, <2>2, <2>3 DEF Balanced, Even, Latest
  <1>10. ASSUME NEW s \in Trades, NEW v \in Values, Past(rank, s, v) PROVE Past(rank, s, v)'
    <2>1. CASE s # t
      BY <1>4, <1>6, <1>10, <2>1 DEF Past, Latest
    <2>2. CASE s = t
      <3>1. /\ rank[cases[c].observed_value] < rank[cases[c].expected_value]
            /\ rank[cases[c].observed_value] \in Nat /\ rank[cases[c].expected_value] \in Nat
            /\ rank[v] \in Nat
        BY <1>1 DEF ForwardInv, LeadsForward, Case
      <3>2. Behind(rank, v, cases[c].observed_value)
        BY <1>1, <1>2, <1>10, <2>2 DEF Past, CarriedBy
      <3>3. Behind(rank, v, Latest(t)')
        BY <1>6, <3>1, <3>2 DEF Behind
      <3>4. legacy'[t] # NULL
        BY <1>2, <1>4 DEF CarriedBy
      <3> QED
        BY <2>2, <3>3, <3>4 DEF Past, Behind
    <2> QED
      BY <2>1, <2>2
  <1>11. PastInv(rank)'
    BY <1>4, <1>5, <1>10, PastMoves DEF LedgerInv
  <1> QED
    BY <1>8, <1>9, <1>11 DEF LedgerInv

\* Every later transaction of a request keeps the books balanced.
LEMMA LedgerProceed ==
    ASSUME IInv, NEW rank \in [Values -> Nat], ForwardInv(rank), LedgerInv(rank),
           NEW w \in Workers, Proceed(w)
    PROVE  LedgerInv(rank)'
  <1> USE DEF sources, store, clock
  <1>0. /\ req \in [Workers -> Request] /\ req[w] \in Request /\ RequestOK(req[w])
        /\ [Next]_vars
    BY DEF IInv, TypeOK, Next
  <1>1. CASE persist_canonical_states(w)
    <2>1. UNCHANGED <<bookings, legacy, breaks, cases>> /\ req[w].pc = "persist_canonical"
      BY <1>1 DEF persist_canonical_states
    <2>2. /\ \A u \in Workers \ {w} : req'[u] = req[u]
          /\ req'[w].pc = "persist_run" /\ req'[w].seen = req[w].seen
      BY <1>0, <1>1 DEF persist_canonical_states, Request
    <2>3. \A t \in Trades : Balanced(rank, t)'
      BY <1>0, <2>1, <2>2, BalanceKept DEF LedgerInv, Pending
    <2>4. ASSUME NEW u \in Workers PROVE SeenPast(rank, req[u])'
      <3>1. CASE u # w
        BY <2>1, <2>2, <3>1 DEF LedgerInv, PastInv, SeenPast, Past, Latest
      <3>2. CASE u = w
        <4>1. SeenPast(rank, req[w])
          BY DEF LedgerInv, PastInv
        <4> QED
          BY <2>1, <2>2, <3>2, <4>1 DEF SeenPast, Past, Latest
      <3> QED
        BY <3>1, <3>2
    <2>5. /\ \A b \in breaks' : Past(rank, b.trade_id, b.observed_value)'
          /\ \A c \in CaseIds : cases'[c] # NULL =>
                Past(rank, cases[c].trade_id, cases[c].observed_value)'
      BY <2>1 DEF LedgerInv, PastInv, Past, Latest
    <2> QED
      BY <2>3, <2>4, <2>5 DEF LedgerInv, PastInv
  <1>2. CASE persist_run(w)
    <2>1. /\ UNCHANGED <<bookings, legacy, cases>> /\ req[w].pc = "persist_run"
          /\ breaks' = breaks \cup UNION { BreakOf(t, req[w].seen[t]) : t \in Trades }
      BY <1>2 DEF persist_run
    <2>2. (\A u \in Workers \ {w} : req'[u] = req[u]) /\ req'[w] = Idle
      BY <1>0, <1>2 DEF persist_run
    <2>3. \A t \in Trades : Balanced(rank, t)'
      BY <1>0, <2>1, <2>2, IdleType, BalanceKept DEF LedgerInv, Pending
    <2>4. ASSUME NEW u \in Workers PROVE SeenPast(rank, req[u])'
      BY <2>1, <2>2, IdleType DEF LedgerInv, PastInv, SeenPast, Past, Latest
    <2>5. ASSUME NEW b \in breaks' PROVE Past(rank, b.trade_id, b.observed_value)'
      <3>1. CASE b \in breaks
        BY <2>1, <3>1 DEF LedgerInv, PastInv, Past, Latest
      <3>2. CASE b \notin breaks
        <4>1. PICK t \in Trades : b \in BreakOf(t, req[w].seen[t])
          BY <2>1, <3>2
        <4>2. b.trade_id = t /\ b.observed_value = req[w].seen[t].booking
          BY <4>1 DEF BreakOf
        <4>3. Past(rank, t, req[w].seen[t].booking)
          BY <2>1 DEF LedgerInv, PastInv, SeenPast
        <4> QED
          BY <2>1, <4>2, <4>3 DEF Past, Latest
      <3> QED
        BY <3>1, <3>2
    <2>6. \A c \in CaseIds : cases'[c] # NULL =>
              Past(rank, cases[c].trade_id, cases[c].observed_value)'
      BY <2>1 DEF LedgerInv, PastInv, Past, Latest
    <2> QED
      BY <2>3, <2>4, <2>5, <2>6 DEF LedgerInv, PastInv
  <1>3. CASE seed_legacy_booking_record(w)
    BY <1>3, LedgerSeed
  <1>4. CASE apply_legacy_booking_correction(w)
    BY <1>4, LedgerApply
  <1>5. CASE ingest_corrected_booking_observation(w)
    BY <1>5, LedgerIngest
  <1>6. CASE insert_execution(w)
    <2>1. UNCHANGED <<bookings, legacy, breaks, cases>> /\ req[w].pc = "record"
      BY <1>6 DEF insert_execution
    <2>2. \A u \in Workers \ {w} : req'[u] = req[u]
      BY <1>0, <1>6 DEF insert_execution
    <2>3. CASE req[w].outcome = "SUCCESS"
      <3>1. req'[w] = [req[w] EXCEPT !.pc = "read_booking"]
        BY <1>0, <1>6, <2>3 DEF insert_execution
      <3>2. req'[w].pc = "read_booking" /\ req'[w].case = req[w].case
        BY <1>0, <3>1 DEF Request
      <3>3. \A t \in Trades : Balanced(rank, t)'
        BY <1>0, <2>1, <2>2, <2>3, <3>2, BalanceCarried DEF LedgerInv, Pending
      <3>4. PastInv(rank)'
        BY <2>1, <2>2, <3>2, PastKept DEF LedgerInv
      <3> QED
        BY <3>3, <3>4 DEF LedgerInv
    <2>4. CASE req[w].outcome # "SUCCESS"
      <3>1. req'[w] = Idle
        BY <1>0, <1>6, <2>4 DEF insert_execution
      <3> QED
        BY <1>0, <2>1, <2>2, <2>4, <3>1, IdleType, LedgerQuiet DEF Pending
    <2> QED
      BY <2>3, <2>4
  <1>7. CASE read_latest_booking(w)
    <2>1. UNCHANGED <<bookings, legacy, breaks, cases>> /\ req[w].pc = "read_booking"
      BY <1>7 DEF read_latest_booking
    <2>2. /\ \A u \in Workers \ {w} : req'[u] = req[u]
          /\ req'[w].pc = "ingest" /\ req'[w].case = req[w].case
          /\ req'[w].latest = Len(bookings[req[w].envelope.trade_id])
      BY <1>0, <1>7 DEF read_latest_booking, Request
    <2>3. req[w].envelope.trade_id = cases[req[w].case].trade_id
      BY <2>1, PendingCase DEF Pending
    <2>4. \A t \in Trades : Balanced(rank, t)'
      BY <1>0, <2>1, <2>2, <2>3, BalanceCarried DEF LedgerInv, Pending
    <2>5. PastInv(rank)'
      BY <2>1, <2>2, PastKept DEF LedgerInv
    <2> QED
      BY <2>4, <2>5 DEF LedgerInv
  <1>8. CASE verify_envelope(w)
    <2>1. UNCHANGED <<bookings, legacy, breaks, cases>> /\ req[w].pc = "verify"
      BY <1>8 DEF verify_envelope
    <2>2. \A u \in Workers \ {w} : req'[u] = req[u]
      BY <1>0, <1>8 DEF verify_envelope
    <2>3. \/ req'[w] = [req[w] EXCEPT !.pc = "apply"]
          \/ /\ req'[w] = [req[w] EXCEPT !.pc = "record", !.outcome = Rejection(req[w])]
             /\ Rejection(req[w]) # NULL
      BY <1>0, <1>8 DEF verify_envelope
    <2>4. Rejection(req[w]) # NULL => Rejection(req[w]) # "SUCCESS"
      BY DEF Rejection
    <2>5. req'[w].pc = "apply" \/ (req'[w].pc = "record" /\ req'[w].outcome # "SUCCESS")
      BY <1>0, <2>3, <2>4 DEF Request
    <2> QED
      BY <1>0, <2>1, <2>2, <2>5, LedgerQuiet DEF Pending
  <1>9. CASE \/ persist_canonical_violation(w) \/ insert_approval(w)
             \/ insert_envelope_if_absent(w) \/ rerun_read(w) \/ rerun_version(w)
             \/ rerun_persist(w) \/ rerun_persist_violation(w) \/ finalize_evidence(w)
    <2> USE DEF persist_canonical_violation, insert_approval, insert_envelope_if_absent,
                rerun_read, rerun_version, rerun_persist, rerun_persist_violation,
                finalize_evidence
    <2>1. UNCHANGED <<bookings, legacy, breaks, cases>>
      BY <1>9
    <2>2. \A u \in Workers \ {w} : req'[u] = req[u]
      BY <1>0, <1>9
    <2>3. req[w].pc \notin {"record", "read_booking", "ingest"}
      BY <1>9
    <2>4. req'[w].pc \in {"idle", "verify", "rerun_version", "rerun_persist", "finalize"}
      <3>1. \/ req'[w] = Idle
            \/ req'[w].pc \in {"verify", "rerun_version", "rerun_persist", "finalize"}
        BY <1>0, <1>9 DEF Request
      <3> QED
        BY <3>1, IdleType
    <2> HIDE DEF persist_canonical_violation, insert_approval, insert_envelope_if_absent,
                rerun_read, rerun_version, rerun_persist, rerun_persist_violation,
                finalize_evidence
    <2>5. ~Pending(req[w]) /\ ~Pending(req'[w])
      BY <2>3, <2>4 DEF Pending
    <2> QED
      BY <1>0, <2>1, <2>2, <2>4, <2>5, LedgerQuiet
  <1> QED
    BY <1>1, <1>2, <1>3, <1>4, <1>5, <1>6, <1>7, <1>8, <1>9, Zenon DEF Proceed

\* The invariant is inductive next to IInv and ForwardInv.
LEMMA LedgerStep ==
    ASSUME OnlyCorrections, NEW rank \in [Values -> Nat]
    PROVE  IInv /\ ForwardInv(rank) /\ LedgerInv(rank) /\ [Next]_vars => LedgerInv(rank)'
  <1> SUFFICES ASSUME IInv, ForwardInv(rank), LedgerInv(rank), [Next]_vars
               PROVE  LedgerInv(rank)'
    OBVIOUS
  <1>1. CASE World
    BY <1>1, LedgerWorld DEF OnlyCorrections
  <1>2. ASSUME NEW w \in Workers, Call(w) PROVE LedgerInv(rank)'
    BY <1>2, LedgerCall
  <1>3. ASSUME NEW w \in Workers, Proceed(w) PROVE LedgerInv(rank)'
    BY <1>3, LedgerProceed
  <1>4. CASE UNCHANGED vars
    <2>1. UNCHANGED <<bookings, legacy, breaks, cases, req>>
      BY <1>4 DEF vars, sources, store
    <2>2. PastInv(rank)'
      BY <2>1, PastKept DEF LedgerInv
    <2>3. \A t \in Trades : Balanced(rank, t)'
      BY <2>1, BalanceKept DEF LedgerInv
    <2> QED
      BY <2>2, <2>3 DEF LedgerInv
  <1> QED
    BY <1>1, <1>2, <1>3, <1>4 DEF Next

\* What the invariant says of a moment at which no request is in flight, and of
\* a request between the two halves of ingest_corrected_booking_observation.
LEMMA LedgerConsequences ==
    ASSUME IInv, NEW rank \in [Values -> Nat], LedgerInv(rank)
    PROVE  /\ MaxCrashes = 0 => LedgersAgreeAtRest
           /\ CorrectionsNeverCollide
  <1>1. ASSUME MaxCrashes = 0 PROVE LedgersAgreeAtRest
    <2> SUFFICES ASSUME \A w \in Workers : req[w].pc = "idle",
                        NEW t \in Trades, legacy[t] # NULL
                 PROVE  legacy[t].base_amount_value = observation_documents[t].booking
      BY DEF LedgersAgreeAtRest
    <2>1. \A w \in Workers : ~PendingOn(req[w], t)
      BY DEF PendingOn, Pending
    <2> QED
      BY <1>1, <2>1 DEF LedgerInv, Balanced, Even, Latest, observation_documents
  <1>2. CorrectionsNeverCollide
    <2> SUFFICES ASSUME NEW w \in Workers, req[w].pc = "ingest"
                 PROVE  Len(bookings[req[w].envelope.trade_id]) = req[w].latest
      BY DEF CorrectionsNeverCollide
    <2>1. Pending(req[w])
      BY DEF Pending
    <2>2. PICK t \in Trades : t = cases[req[w].case].trade_id /\ t = req[w].envelope.trade_id
      BY <2>1, PendingCase DEF Case
    <2>3. CarriedBy(w, t)
      BY <2>1, <2>2 DEF LedgerInv, Balanced, PendingOn
    <2> QED
      BY <2>2, <2>3 DEF CarriedBy
  <1> QED
    BY <1>1, <1>2

\* While no request dies, the booking system sends nothing of its own and the
\* feeds move forward, the legacy record and the newest booking the
\* reconciliation reads agree whenever no request is in flight, however many
\* corrections of a trade have raced (store.py, seed_legacy_booking_record and
\* apply_legacy_booking_correction; service.py).
THEOREM BooksAgreeAtRest == Undisturbed => (Spec => []LedgersAgreeAtRest)
  <1> SUFFICES ASSUME Undisturbed, NEW rank \in [Values -> Nat], ForwardBy(rank)
               PROVE  Spec => []LedgersAgreeAtRest
    BY DEF Undisturbed, OnlyCorrections, ForwardFeeds
  <1>1. Init => ForwardInv(rank) /\ LedgerInv(rank)
    BY ForwardInit, LedgerInit
  <1>2. IInv /\ ForwardInv(rank) /\ [Next]_vars => ForwardInv(rank)'
    BY ForwardStep
  <1>3. IInv /\ ForwardInv(rank) /\ LedgerInv(rank) /\ [Next]_vars => LedgerInv(rank)'
    BY LedgerStep DEF Undisturbed
  <1>4. IInv /\ LedgerInv(rank) => LedgersAgreeAtRest
    BY LedgerConsequences DEF Undisturbed
  <1> QED
    BY <1>1, <1>2, <1>3, <1>4, Consistency, PTL DEF Spec

\* Requests may even die: as long as bookings come from corrections only and the
\* feeds move forward, the inbox never raises SourceConflictError on a corrected
\* booking.  The version read before the insert is still the newest, although
\* nothing locks the inbox between the two (service.py,
\* ingest_corrected_booking_observation).
THEOREM IngestFindsItsVersion == OnlyCorrections => (Spec => []CorrectionsNeverCollide)
  <1> SUFFICES ASSUME OnlyCorrections, NEW rank \in [Values -> Nat], ForwardBy(rank)
               PROVE  Spec => []CorrectionsNeverCollide
    BY DEF OnlyCorrections, ForwardFeeds
  <1>1. Init => ForwardInv(rank) /\ LedgerInv(rank)
    BY ForwardInit, LedgerInit
  <1>2. IInv /\ ForwardInv(rank) /\ [Next]_vars => ForwardInv(rank)'
    BY ForwardStep
  <1>3. IInv /\ ForwardInv(rank) /\ LedgerInv(rank) /\ [Next]_vars => LedgerInv(rank)'
    BY LedgerStep
  <1>4. IInv /\ LedgerInv(rank) => CorrectionsNeverCollide
    BY LedgerConsequences
  <1> QED
    BY <1>1, <1>2, <1>3, <1>4, Consistency, PTL DEF Spec

=============================================================================
