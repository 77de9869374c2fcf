----------------------------- MODULE RunsProofs -----------------------------
(***************************************************************************)
(* Machine-checked proofs about Runs, for any number of invocations,       *)
(* trades, portfolios and loads.  First what each step does to the locals  *)
(* of its invocation, then the invariant action by action, then that the   *)
(* runs implement RunLedger.                                               *)
(***************************************************************************)
EXTENDS Runs, TLAPS

\* What an evaluation reports on a portfolio has the shape of a row's counters.
LEMMA EntryType ==
    ASSUME NEW raws \in SUBSET Observations, NEW k \in 1..N
    PROVE  /\ Entry(raws, k) \in Entries
           /\ BreaksIn(raws, k) \in SUBSET (Trades \X TradeBreaks)
           /\ Entry(raws, k).breaks = BreaksIn(raws, k)
           /\ Entry(raws, k).trades \subseteq Evaluated(raws)
  <1>1. Evaluated(raws) \in SUBSET Trades
    BY RunsAssumption DEF Evaluated
  <1>2. TradesIn(raws, k) \in SUBSET Trades /\ TradesIn(raws, k) \subseteq Evaluated(raws)
    BY <1>1 DEF TradesIn
  <1>3. BreaksIn(raws, k) \in SUBSET (Trades \X TradeBreaks)
    BY <1>2 DEF BreaksIn
  <1> QED
    BY <1>2, <1>3 DEF Entry, Entries

\* Only invocation i moves, and its locals stay well formed.
OnlyMoves(i) ==
    /\ work' \in [Invocations -> Work]
    /\ \A j \in Invocations : j # i => work'[j] = work[j]

\* An invocation that continues with well-formed locals has them, and no other moves.
LEMMA ContinueMoves ==
    ASSUME TypeOK, NEW i \in Invocations, NEW locals \in Work, Continue(i, locals)
    PROVE  OnlyMoves(i) /\ work'[i] = locals
  BY DEF TypeOK, Continue, OnlyMoves

\* Moving on changes the point reached and the time, nothing else.
LEMMA GotoMoves ==
    ASSUME TypeOK, NEW i \in Invocations, NEW pc \in Points, Goto(i, pc)
    PROVE  /\ OnlyMoves(i)
           /\ work'[i].pc = pc /\ work'[i].saved = work[i].saved
           /\ work'[i].run_id = work[i].run_id /\ work'[i].raws = work[i].raws
  <1>1. work[i] \in Work /\ clock \in RunIds
    BY DEF TypeOK
  <1> DEFINE locals == [work[i] EXCEPT !.pc = pc, !.since = clock]
  <1>2. /\ locals \in Work /\ locals.pc = pc /\ locals.saved = work[i].saved
        /\ locals.run_id = work[i].run_id /\ locals.raws = work[i].raws
    BY <1>1 DEF Work
  <1>3. Continue(i, locals)
    BY DEF Goto
  <1> HIDE DEF locals
  <1> QED
    BY <1>2, <1>3, ContinueMoves

\* An invocation starts with the second it is called in.
LEMMA StartMoves ==
    ASSUME TypeOK, NEW i \in Invocations, run_reconciliation(i)
    PROVE  /\ OnlyMoves(i)
           /\ work'[i].pc = "inbox" /\ work'[i].saved = work[i].saved
           /\ work'[i].raws = work[i].raws
  <1>1. work[i] \in Work /\ clock \in RunIds
    BY DEF TypeOK
  <1> DEFINE locals == [work[i] EXCEPT !.pc = "inbox", !.run_id = clock, !.since = clock]
  <1>2. /\ locals \in Work /\ locals.pc = "inbox" /\ locals.saved = work[i].saved
        /\ locals.raws = work[i].raws
    BY <1>1 DEF Work, Points
  <1>3. Continue(i, locals)
    BY DEF run_reconciliation
  <1> HIDE DEF locals
  <1> QED
    BY <1>2, <1>3, ContinueMoves

\* The first read takes the inbox.
LEMMA FirstReadMoves ==
    ASSUME TypeOK, NEW i \in Invocations, observation_documents(i)
    PROVE  /\ OnlyMoves(i)
           /\ work'[i].pc = "quarantine" /\ work'[i].saved = work[i].saved
           /\ work'[i].raws = inbox
  <1>1. work[i] \in Work /\ inbox \in SUBSET Observations /\ ReadOrder[1] = inbox
    BY DEF TypeOK, ReadOrder
  <1> DEFINE locals == [work[i] EXCEPT !.pc = "quarantine", !.raws = inbox]
  <1>2. /\ locals \in Work /\ locals.pc = "quarantine" /\ locals.saved = work[i].saved
        /\ locals.raws = inbox
    BY <1>1 DEF Work, Points
  <1>3. Continue(i, locals)
    BY <1>1 DEF observation_documents
  <1> HIDE DEF locals
  <1> QED
    BY <1>2, <1>3, ContinueMoves

\* The second read adds the quarantine, unless the evaluation fails.
LEMMA SecondReadMoves ==
    ASSUME TypeOK, NEW i \in Invocations, conflict_documents(i)
    PROVE  /\ OnlyMoves(i)
           /\ work'[i].saved = work[i].saved
           /\ \/ work'[i].pc = "refused"
              \/ work'[i].pc = "select" /\ work'[i].raws = work[i].raws \cup conflicts
  <1> DEFINE raws == work[i].raws \cup conflicts
             locals == [work[i] EXCEPT !.pc = "select", !.raws = raws]
  <1>1. work[i] \in Work /\ raws \in SUBSET Observations /\ ReadOrder[2] = conflicts
    BY DEF TypeOK, ReadOrder, Work
  <1>2. CASE Goto(i, "refused")
    BY <1>2, GotoMoves DEF Points
  <1>3. CASE Continue(i, locals)
    <2>1. /\ locals \in Work /\ locals.pc = "select" /\ locals.saved = work[i].saved
          /\ locals.raws = raws
      BY <1>1 DEF Work, Points
    <2> HIDE DEF locals
    <2> QED
      BY <1>3, <2>1, ContinueMoves
  <1> QED
    BY <1>1, <1>2, <1>3 DEF conflict_documents

\* The SELECTs find the states that are stored.
LEMMA SelectMoves ==
    ASSUME TypeOK, NEW i \in Invocations, select_existing_states(i)
    PROVE  /\ OnlyMoves(i)
           /\ work'[i].pc = "insert" /\ work'[i].saved = work[i].saved
           /\ work'[i].raws = work[i].raws
           /\ work'[i].existing = {t \in Evaluated(work[i].raws) : canonical[t] # NULL}
  <1> DEFINE stored == {t \in Evaluated(work[i].raws) : canonical[t] # NULL}
             locals == [work[i] EXCEPT !.pc = "insert", !.existing = stored]
  <1>1. work[i] \in Work /\ stored \in SUBSET Trades
    BY RunsAssumption DEF TypeOK, Evaluated, Work
  <1>2. Continue(i, locals)
    BY DEF select_existing_states
  <1> HIDE DEF stored
  <1>3. /\ locals \in Work /\ locals.pc = "insert" /\ locals.saved = work[i].saved
        /\ locals.raws = work[i].raws /\ locals.existing = stored
    BY <1>1 DEF Work, Points
  <1> HIDE DEF locals
  <1> QED
    BY <1>2, <1>3, ContinueMoves DEF stored

\* A persisted portfolio counts, and the last one ends the run.
LEMMA SaveMoves ==
    ASSUME TypeOK, NEW i \in Invocations, NEW k, SaveRow(i, k), work[i].saved < N
    PROVE  /\ OnlyMoves(i)
           /\ work'[i].saved = work[i].saved + 1
           /\ work'[i].pc = IF work[i].saved + 1 = N THEN "done" ELSE "persist"
           /\ work'[i].run_id = work[i].run_id /\ work'[i].raws = work[i].raws
  <1>1. work[i] \in Work /\ clock \in RunIds /\ work[i].saved + 1 \in 0..N
    BY RunsAssumption DEF TypeOK, Work
  <1>2. /\ Saved(i) \in Work /\ Saved(i).saved = work[i].saved + 1
        /\ Saved(i).pc = IF work[i].saved + 1 = N THEN "done" ELSE "persist"
        /\ Saved(i).run_id = work[i].run_id /\ Saved(i).raws = work[i].raws
    BY <1>1 DEF Saved, Work, Points
  <1>3. Continue(i, Saved(i))
    BY DEF SaveRow
  <1> QED
    BY <1>2, <1>3, ContinueMoves

-----------------------------------------------------------------------------
\* The invariant, step by step.

\* Nobody has written when nothing has happened.
LEMMA InitConsistent == Init => Consistent
  <1> SUFFICES ASSUME Init PROVE Consistent
    OBVIOUS
  <1> USE RunsAssumption
  <1>1. 0 \in RunIds /\ 0 \in 0..N
    BY DEF RunIds
  <1>2. \A i \in Invocations :
          /\ work[i] \in Work /\ work[i].pc = "idle" /\ work[i].saved = 0
          /\ work[i].raws = {}
    BY <1>1 DEF Init, Work, Points
  <1>3. TypeOK
    <2>1. work \in [Invocations -> Work]
      BY <1>2 DEF Init
    <2>2. canonical \in [Trades -> {NULL} \cup SUBSET Observations]
      BY DEF Init
    <2>3. reconciliation_runs \in [RunIds -> [1..N -> {NULL} \cup Row]]
      BY DEF Init
    <2>4. trade_breaks \in [RunIds -> [1..N -> SUBSET (Trades \X TradeBreaks)]]
      BY DEF Init
    <2> QED
      BY <1>1, <2>1, <2>2, <2>3, <2>4 DEF TypeOK, Init
  <1>4. ASSUME NEW i \in Invocations PROVE Located(i) /\ RowsOK(i) /\ ReadOK(i)
    <2>1. work[i].pc = "idle" /\ work[i].saved = 0 /\ work[i].raws = {}
      BY <1>2
    <2>2. Located(i)
      BY <2>1 DEF Located
    <2>3. RowsOK(i)
      BY <2>1 DEF RowsOK
    <2>4. ReadOK(i)
      BY <2>1 DEF ReadOK
    <2> QED
      BY <2>2, <2>3, <2>4
  <1>5. OneWriter
    BY <1>2 DEF OneWriter, Wrote, Init
  <1>6. LoadsAreWhole
    BY DEF LoadsAreWhole, Init
  <1> QED
    BY <1>3, <1>4, <1>5, <1>6 DEF Consistent

\* While the run tables stay as they are, and whoever has written keeps what it
\* wrote from, rows and writers agree as before.
LEMMA RowsKept ==
    ASSUME Consistent, NEW i \in Invocations, OnlyMoves(i),
           UNCHANGED <<reconciliation_runs, trade_breaks>>,
           work'[i].saved = work[i].saved,
           work[i].saved > 0 => /\ work'[i].run_id = work[i].run_id
                                /\ work'[i].raws = work[i].raws
    PROVE  OneWriter' /\ \A j \in Invocations : RowsOK(j)'
  <1>1. \A j \in Invocations :
          /\ work'[j].saved = work[j].saved
          /\ work[j].saved > 0 => /\ work'[j].run_id = work[j].run_id
                                  /\ work'[j].raws = work[j].raws
    BY DEF OnlyMoves
  <1>2. \A j \in Invocations, id \in RunIds : Wrote(j, id)' <=> Wrote(j, id)
    BY <1>1 DEF Wrote
  <1>3. OneWriter'
    BY <1>2 DEF Consistent, OneWriter
  <1>4. ASSUME NEW j \in Invocations PROVE RowsOK(j)'
    <2> SUFFICES ASSUME work'[j].saved > 0, NEW k \in 1..N
                 PROVE  LET row == reconciliation_runs'[work'[j].run_id][k] IN
                        /\ row # NULL <=> k <= work'[j].saved
                        /\ row # NULL =>
                              /\ row.entry = Entry(work'[j].raws, k)
                              /\ trade_breaks'[work'[j].run_id][k] = BreaksIn(work'[j].raws, k)
      BY DEF RowsOK, Entry, BreaksIn, TradesIn
    <2>1. RowsOK(j) /\ work[j].saved > 0
      BY <1>1 DEF Consistent
    <2> QED
      BY <1>1, <2>1 DEF RowsOK
  <1> QED
    BY <1>3, <1>4

\* Nobody moves and no row is written: rows and locals agree as before.
LEMMA RowsUntouched ==
    ASSUME Consistent, NEW j \in Invocations,
           work' = work, reconciliation_runs' = reconciliation_runs, trade_breaks' = trade_breaks
    PROVE  RowsOK(j)'
  <1> SUFFICES ASSUME work[j].saved > 0, NEW k \in 1..N
               PROVE  LET row == reconciliation_runs[work[j].run_id][k] IN
                      /\ row # NULL <=> k <= work[j].saved
                      /\ row # NULL =>
                            /\ row.entry = Entry(work[j].raws, k)
                            /\ trade_breaks[work[j].run_id][k] = BreaksIn(work[j].raws, k)
    BY DEF RowsOK, Entry, BreaksIn, TradesIn
  <1>1. RowsOK(j)
    BY DEF Consistent
  <1> QED
    BY <1>1 DEF RowsOK

\* Whoever does not move keeps its place: states are never removed and the
\* quarantine only grows.
LEMMA OthersOK ==
    ASSUME Consistent, NEW j \in Invocations, work'[j] = work[j],
           \A t \in Trades : canonical[t] # NULL => canonical'[t] # NULL,
           conflicts \subseteq conflicts'
    PROVE  Located(j)' /\ ReadOK(j)'
  <1>1. work[j] \in Work
    BY DEF Consistent, TypeOK
  <1>2. work[j].raws \subseteq Observations /\ work[j].existing \subseteq Trades
    BY <1>1 DEF Work
  <1>3. Evaluated(work[j].raws) \subseteq Trades
    BY <1>2, RunsAssumption DEF Evaluated
  <1>4. Located(j)'
    BY <1>2, <1>3 DEF Consistent, Located, Evaluated
  <1>5. ReadOK(j)'
    BY DEF Consistent, ReadOK
  <1> QED
    BY <1>4, <1>5

\* A step that touches no table keeps the invariant if its own invocation does.
LEMMA LocalStepOK ==
    ASSUME Consistent, NEW i \in Invocations, OnlyMoves(i),
           UNCHANGED <<clock, sources, tables>>,
           work'[i].saved = work[i].saved,
           work[i].saved > 0 => /\ work'[i].run_id = work[i].run_id
                                /\ work'[i].raws = work[i].raws,
           Located(i)', ReadOK(i)'
    PROVE  Consistent'
  <1>1. TypeOK'
    BY DEF Consistent, TypeOK, OnlyMoves, sources, tables
  <1>2. OneWriter' /\ \A j \in Invocations : RowsOK(j)'
    BY RowsKept DEF tables
  <1>3. \A j \in Invocations : Located(j)' /\ ReadOK(j)'
    BY OthersOK DEF OnlyMoves, tables, sources
  <1>4. LoadsAreWhole'
    BY DEF Consistent, LoadsAreWhole, sources
  <1> QED
    BY <1>1, <1>2, <1>3, <1>4 DEF Consistent

\* Start, the two reads, the SELECTs, and death.
LEMMA ReadersOK ==
    ASSUME Consistent, NEW i \in Invocations,
           \/ run_reconciliation(i) \/ observation_documents(i)
           \/ conflict_documents(i) \/ select_existing_states(i) \/ die(i)
    PROVE  Consistent'
  <1>1. TypeOK /\ Located(i) /\ ReadOK(i) /\ LoadsAreWhole
    BY DEF Consistent
  <1>2. CASE run_reconciliation(i)
    <2>1. OnlyMoves(i) /\ work'[i].pc = "inbox" /\ work'[i].saved = work[i].saved
      BY <1>1, <1>2, StartMoves
    <2>2. work[i].saved = 0 /\ UNCHANGED <<clock, sources, tables>>
      BY <1>1, <1>2 DEF run_reconciliation, Located
    <2>3. Located(i)' /\ ReadOK(i)'
      BY <2>1, <2>2 DEF Located, ReadOK
    <2> QED
      BY <2>1, <2>2, <2>3, LocalStepOK
  <1>3. CASE observation_documents(i)
    <2>1. /\ OnlyMoves(i) /\ work'[i].pc = "quarantine" /\ work'[i].saved = work[i].saved
          /\ work'[i].raws = inbox
      BY <1>1, <1>3, FirstReadMoves
    <2>2. work[i].saved = 0 /\ UNCHANGED <<clock, sources, tables>>
      BY <1>1, <1>3 DEF observation_documents, Located
    <2>3. Located(i)'
      BY <2>1, <2>2 DEF Located
    <2>4. ReadOK(i)'
      BY <1>1, <2>1, <2>2 DEF ReadOK, LoadsAreWhole, sources
    <2> QED
      BY <2>1, <2>2, <2>3, <2>4, LocalStepOK
  <1>4. CASE conflict_documents(i)
    <2>1. /\ OnlyMoves(i) /\ work'[i].saved = work[i].saved
          /\ \/ work'[i].pc = "refused"
             \/ work'[i].pc = "select" /\ work'[i].raws = work[i].raws \cup conflicts
      BY <1>1, <1>4, SecondReadMoves
    <2>2. /\ work[i].saved = 0 /\ work[i].pc = "quarantine"
          /\ UNCHANGED <<clock, sources, tables>>
      BY <1>1, <1>4 DEF conflict_documents, Located
    <2>3. Located(i)'
      BY <2>1, <2>2 DEF Located
    <2>4. ReadOK(i)'
      BY <1>1, <2>1, <2>2 DEF ReadOK, LoadsAreWhole, sources
    <2> QED
      BY <2>1, <2>2, <2>3, <2>4, LocalStepOK
  <1>5. CASE select_existing_states(i)
    <2>1. /\ OnlyMoves(i) /\ work'[i].pc = "insert" /\ work'[i].saved = work[i].saved
          /\ work'[i].raws = work[i].raws
          /\ work'[i].existing = {t \in Evaluated(work[i].raws) : canonical[t] # NULL}
      BY <1>1, <1>5, SelectMoves
    <2>2. /\ work[i].saved = 0 /\ work[i].pc = "select"
          /\ UNCHANGED <<clock, sources, tables>>
      BY <1>1, <1>5 DEF select_existing_states, Located
    <2>3. Located(i)'
      BY <2>1, <2>2 DEF Located, tables
    <2>4. ReadOK(i)'
      BY <1>1, <2>1, <2>2 DEF ReadOK
    <2> QED
      BY <2>1, <2>2, <2>3, <2>4, LocalStepOK
  <1>6. CASE die(i)
    <2>1. /\ OnlyMoves(i) /\ work'[i].pc = "killed" /\ work'[i].saved = work[i].saved
          /\ work'[i].run_id = work[i].run_id /\ work'[i].raws = work[i].raws
      BY <1>1, <1>6, GotoMoves DEF die, Points
    <2>2. UNCHANGED <<clock, sources, tables>>
      BY <1>6 DEF die
    <2>3. Located(i)'
      BY <1>1, <2>1, <2>2 DEF Located, tables, Evaluated
    <2>4. ReadOK(i)'
      BY <2>1 DEF ReadOK
    <2> QED
      BY <2>1, <2>2, <2>3, <2>4, LocalStepOK
  <1> QED
    BY <1>2, <1>3, <1>4, <1>5, <1>6

\* Inserting the missing states, or being refused because one is there.
LEMMA InsertOK ==
    ASSUME Consistent, NEW i \in Invocations, insert_missing_states(i)
    PROVE  Consistent'
  <1> DEFINE missing == Evaluated(work[i].raws) \ work[i].existing
  <1>1. TypeOK /\ Located(i) /\ ReadOK(i) /\ LoadsAreWhole /\ work[i] \in Work
    BY DEF Consistent, TypeOK
  <1>2. work[i].saved = 0 /\ work[i].pc = "insert"
    BY <1>1 DEF insert_missing_states, Located
  <1>3. UNCHANGED <<clock, sources, reconciliation_runs, trade_breaks, row_id_seq>>
    BY DEF insert_missing_states
  <1>4. Evaluated(work[i].raws) \subseteq Trades /\ work[i].raws \subseteq Observations
    BY <1>1, RunsAssumption DEF Work, Evaluated
  <1>5. CASE Goto(i, "refused") /\ UNCHANGED canonical
    <2>1. /\ OnlyMoves(i) /\ work'[i].pc = "refused" /\ work'[i].saved = work[i].saved
          /\ work'[i].run_id = work[i].run_id /\ work'[i].raws = work[i].raws
      BY <1>1, <1>5, GotoMoves DEF Points
    <2>2. Located(i)' /\ ReadOK(i)'
      BY <1>2, <2>1 DEF Located, ReadOK
    <2> QED
      BY <1>3, <1>5, <2>1, <2>2, LocalStepOK DEF tables
  <1>6. CASE /\ canonical' = [t \in Trades |-> IF t \in missing THEN Group(work[i].raws, t)
                                                                ELSE canonical[t]]
             /\ Goto(i, "persist")
    <2>1. /\ OnlyMoves(i) /\ work'[i].pc = "persist" /\ work'[i].saved = work[i].saved
          /\ work'[i].run_id = work[i].run_id /\ work'[i].raws = work[i].raws
      BY <1>1, <1>6, GotoMoves DEF Points
    <2>2. \A t \in Trades : Group(work[i].raws, t) \in SUBSET Observations
      BY <1>4 DEF Group
    <2>3. \A t \in Trades : Group(work[i].raws, t) # NULL
      BY <2>2, RunsAssumption
    <2>4. /\ \A t \in Trades : canonical[t] # NULL => canonical'[t] # NULL
          /\ \A t \in missing : canonical'[t] # NULL
      BY <1>4, <1>6, <2>3
    <2>5. canonical' \in [Trades -> {NULL} \cup SUBSET Observations]
      BY <1>1, <1>6, <2>2 DEF TypeOK
    <2>6. TypeOK'
      BY <1>1, <1>3, <2>1, <2>5 DEF TypeOK, OnlyMoves, sources
    <2>7. \A t \in Evaluated(work[i].raws) : canonical'[t] # NULL
      BY <1>1, <1>2, <1>4, <2>4 DEF Located
    <2>8. Located(i)'
      BY <1>2, <2>1, <2>7, RunsAssumption DEF Located, Evaluated
    <2>9. ReadOK(i)'
      BY <1>1, <1>2, <2>1 DEF ReadOK
    <2>10. \A j \in Invocations : Located(j)' /\ ReadOK(j)'
      BY <1>3, <2>1, <2>4, <2>8, <2>9, OthersOK DEF OnlyMoves, sources
    <2>11. OneWriter' /\ \A j \in Invocations : RowsOK(j)'
      BY <1>3, <2>1, RowsKept
    <2>12. LoadsAreWhole'
      BY <1>1, <1>3 DEF LoadsAreWhole, sources
    <2> QED
      BY <2>6, <2>10, <2>11, <2>12 DEF Consistent
  <1> QED
    BY <1>5, <1>6 DEF insert_missing_states

\* Who is refused a row has none: only the first portfolio can be taken.
LEMMA RefusedOK ==
    ASSUME Consistent, NEW i \in Invocations, persist_run(i),
           reconciliation_runs[work[i].run_id][work[i].saved + 1] # NULL
    PROVE  Consistent'
  <1>1. TypeOK /\ Located(i) /\ RowsOK(i) /\ work[i] \in Work
    BY DEF Consistent, TypeOK
  <1>2. /\ Goto(i, "refused") /\ work[i].saved < N
        /\ UNCHANGED <<clock, sources, tables>>
    BY <1>1 DEF persist_run, tables, Located
  <1>3. work[i].saved \in Nat /\ work[i].saved + 1 \in 1..N
    BY <1>1, <1>2, RunsAssumption DEF Work
  <1>4. work[i].saved = 0
    BY <1>1, <1>3 DEF RowsOK
  <1>5. /\ OnlyMoves(i) /\ work'[i].pc = "refused" /\ work'[i].saved = work[i].saved
        /\ work'[i].run_id = work[i].run_id /\ work'[i].raws = work[i].raws
    BY <1>1, <1>2, GotoMoves DEF Points
  <1>6. Located(i)' /\ ReadOK(i)'
    BY <1>4, <1>5 DEF Located, ReadOK
  <1> QED
    BY <1>2, <1>5, <1>6, LocalStepOK

\* The next row of an invocation goes to a run_id that nobody else writes to, and
\* that holds exactly the rows it has written.
LEMMA NextRowIsFree ==
    ASSUME Consistent, NEW i \in Invocations, work[i].saved < N,
           reconciliation_runs[work[i].run_id][work[i].saved + 1] = NULL
    PROVE  /\ \A j \in Invocations : j # i => ~Wrote(j, work[i].run_id)
           /\ \A k \in 1..N : reconciliation_runs[work[i].run_id][k] # NULL
                                  <=> k <= work[i].saved
           /\ \A k \in 1..N : reconciliation_runs[work[i].run_id][k] # NULL =>
                 /\ reconciliation_runs[work[i].run_id][k].entry = Entry(work[i].raws, k)
                 /\ trade_breaks[work[i].run_id][k] = BreaksIn(work[i].raws, k)
  <1>1. work[i] \in Work /\ work[i].run_id \in RunIds /\ work[i].saved \in Nat
    BY RunsAssumption DEF Consistent, TypeOK, Work
  <1>2. ASSUME NEW j \in Invocations, j # i, Wrote(j, work[i].run_id) PROVE FALSE
    <2>1. CASE work[i].saved = 0
      <3>1. work[j] \in Work /\ work[j].saved \in Nat /\ work[j].saved > 0
        BY <1>2, RunsAssumption DEF Consistent, TypeOK, Work, Wrote
      <3>2. 1 \in 1..N /\ 1 <= work[j].saved
        BY <3>1, RunsAssumption
      <3>3. reconciliation_runs[work[j].run_id][1] # NULL
        BY <3>1, <3>2 DEF Consistent, RowsOK
      <3> QED
        BY <1>2, <2>1, <3>3 DEF Wrote
    <2>2. CASE work[i].saved > 0
      BY <1>1, <1>2, <2>2 DEF Consistent, OneWriter, Wrote
    <2> QED
      BY <1>1, <2>1, <2>2
  <1>3. CASE work[i].saved > 0
    BY <1>2, <1>3 DEF Consistent, RowsOK
  <1>4. CASE work[i].saved = 0
    <2>1. \A k \in 1..N : reconciliation_runs[work[i].run_id][k] = NULL
      BY <1>1, <1>2, <1>4 DEF Consistent, OneWriter, Wrote
    <2> QED
      BY <1>2, <1>4, <2>1
  <1> QED
    BY <1>1, <1>3, <1>4

\* What saving a row does to the tables.
LEMMA SaveWrites ==
    ASSUME TypeOK, NEW i \in Invocations, NEW k \in 1..N, SaveRow(i, k)
    PROVE  LET id == work[i].run_id IN
           /\ reconciliation_runs' \in [RunIds -> [1..N -> {NULL} \cup Row]]
           /\ trade_breaks' \in [RunIds -> [1..N -> SUBSET (Trades \X TradeBreaks)]]
           /\ row_id_seq' \in Nat /\ row_id_seq' = row_id_seq + 1
           /\ reconciliation_runs'[id][k] # NULL
           /\ reconciliation_runs'[id][k].row_id = row_id_seq'
           /\ reconciliation_runs'[id][k].completed_at \in RunIds
           /\ reconciliation_runs'[id][k].entry = Entry(work[i].raws, k)
           /\ trade_breaks'[id][k] = BreaksIn(work[i].raws, k)
           /\ \A x \in RunIds, m \in 1..N : <<x, m>> # <<id, k>> =>
                 /\ reconciliation_runs'[x][m] = reconciliation_runs[x][m]
                 /\ trade_breaks'[x][m] = trade_breaks[x][m]
  <1> DEFINE id == work[i].run_id
             entry == Entry(work[i].raws, k)
  <1>1. id \in RunIds /\ work[i].raws \in SUBSET Observations /\ work[i].since \in RunIds
    BY DEF TypeOK, Work
  <1>2. /\ Entry(work[i].raws, k) \in Entries
        /\ Entry(work[i].raws, k).breaks = BreaksIn(work[i].raws, k)
        /\ BreaksIn(work[i].raws, k) \in SUBSET (Trades \X TradeBreaks)
    BY <1>1, EntryType, Zenon
  <1>3. PICK now \in work[i].since .. clock :
          reconciliation_runs' = [reconciliation_runs EXCEPT ![id][k] =
              [entry |-> entry, completed_at |-> now, row_id |-> row_id_seq + 1]]
    BY DEF SaveRow
  <1> DEFINE row == [entry |-> entry, completed_at |-> now, row_id |-> row_id_seq + 1]
  <1>4. trade_breaks' = [trade_breaks EXCEPT ![id][k] = entry.breaks]
        /\ row_id_seq' = row_id_seq + 1
    BY DEF SaveRow
  <1>5. now \in Nat /\ now \in RunIds
    BY <1>1, RunsAssumption DEF TypeOK, RunIds
  <1>typed. entry \in Entries /\ entry.breaks = BreaksIn(work[i].raws, k)
    BY <1>2
  <1> HIDE DEF entry
  <1>6. /\ row \in Row /\ row.entry = entry
        /\ row.row_id = row_id_seq + 1 /\ row.completed_at = now
    BY <1>typed, <1>5 DEF TypeOK, Row
  <1>7. row # NULL
    BY <1>6, NullIsNoRow
  <1> HIDE DEF row, id
  <1>8. reconciliation_runs' = [reconciliation_runs EXCEPT ![id][k] = row]
    BY <1>3 DEF row
  <1>9. /\ reconciliation_runs' \in [RunIds -> [1..N -> {NULL} \cup Row]]
        /\ reconciliation_runs'[id][k] = row
        /\ \A x \in RunIds, m \in 1..N : <<x, m>> # <<id, k>> =>
              reconciliation_runs'[x][m] = reconciliation_runs[x][m]
    BY <1>1, <1>6, <1>8 DEF TypeOK
  <1>10. /\ trade_breaks' \in [RunIds -> [1..N -> SUBSET (Trades \X TradeBreaks)]]
         /\ trade_breaks'[id][k] = entry.breaks
         /\ \A x \in RunIds, m \in 1..N : <<x, m>> # <<id, k>> =>
               trade_breaks'[x][m] = trade_breaks[x][m]
    BY <1>1, <1>2, <1>4, <1>typed DEF TypeOK
  <1>11. row_id_seq' \in Nat
    BY <1>4 DEF TypeOK
  <1> QED
    BY <1>4, <1>5, <1>6, <1>7, <1>9, <1>10, <1>11, <1>typed DEF entry, id

\* One more portfolio of a run.
LEMMA SaveOK ==
    ASSUME Consistent, NEW i \in Invocations, persist_run(i),
           reconciliation_runs[work[i].run_id][work[i].saved + 1] = NULL
    PROVE  Consistent'
  <1> DEFINE id == work[i].run_id
             k  == work[i].saved + 1
  <1>1. TypeOK /\ Located(i) /\ ReadOK(i) /\ LoadsAreWhole /\ work[i] \in Work
    BY DEF Consistent, TypeOK
  <1>2. /\ SaveRow(i, k) /\ work[i].pc = "persist" /\ work[i].saved < N
        /\ UNCHANGED <<clock, sources, canonical>>
    BY <1>1 DEF persist_run, Located
  <1>3. work[i].saved \in Nat /\ k \in 1..N /\ id \in RunIds
    BY <1>1, <1>2, RunsAssumption DEF Work
  <1>4. /\ OnlyMoves(i)
        /\ work'[i].saved = k
        /\ work'[i].pc = IF k = N THEN "done" ELSE "persist"
        /\ work'[i].run_id = id /\ work'[i].raws = work[i].raws
    BY <1>1, <1>2, SaveMoves
  <1>5. /\ reconciliation_runs' \in [RunIds -> [1..N -> {NULL} \cup Row]]
        /\ trade_breaks' \in [RunIds -> [1..N -> SUBSET (Trades \X TradeBreaks)]]
        /\ row_id_seq' \in Nat
        /\ reconciliation_runs'[id][k] # NULL
        /\ reconciliation_runs'[id][k].entry = Entry(work[i].raws, k)
        /\ trade_breaks'[id][k] = BreaksIn(work[i].raws, k)
        /\ \A x \in RunIds, m \in 1..N : <<x, m>> # <<id, k>> =>
              /\ reconciliation_runs'[x][m] = reconciliation_runs[x][m]
              /\ trade_breaks'[x][m] = trade_breaks[x][m]
    BY <1>1, <1>2, <1>3, SaveWrites
  <1>6. /\ \A j \in Invocations : j # i => ~Wrote(j, id)
        /\ \A m \in 1..N : reconciliation_runs[id][m] # NULL <=> m <= work[i].saved
        /\ \A m \in 1..N : reconciliation_runs[id][m] # NULL =>
              /\ reconciliation_runs[id][m].entry = Entry(work[i].raws, m)
              /\ trade_breaks[id][m] = BreaksIn(work[i].raws, m)
    BY <1>2, NextRowIsFree
  <1>7. TypeOK'
    BY <1>1, <1>2, <1>4, <1>5 DEF TypeOK, OnlyMoves, sources
  <1>8. OneWriter'
    <2>1. \A j \in Invocations, x \in RunIds : j # i => (Wrote(j, x)' <=> Wrote(j, x))
      BY <1>4 DEF Wrote, OnlyMoves
    <2>2. \A x \in RunIds : Wrote(i, x)' <=> x = id
      BY <1>3, <1>4 DEF Wrote
    <2>3. \A j, h \in Invocations, x \in RunIds : Wrote(j, x)' /\ Wrote(h, x)' => j = h
      BY <1>6, <2>1, <2>2 DEF Consistent, OneWriter
    <2>4. ASSUME NEW x \in RunIds, NEW m \in 1..N, reconciliation_runs'[x][m] # NULL
          PROVE  \E j \in Invocations : Wrote(j, x)'
      <3>1. CASE x = id
        BY <2>2, <3>1
      <3>2. CASE x # id
        <4>1. PICK j \in Invocations : Wrote(j, x)
          BY <1>5, <2>4, <3>2 DEF Consistent, OneWriter
        <4>2. j # i
          BY <3>2, <4>1 DEF Wrote
        <4> QED
          BY <2>1, <4>1, <4>2
      <3> QED
        BY <3>1, <3>2
    <2> QED
      BY <2>3, <2>4 DEF OneWriter
  <1>9. ASSUME NEW j \in Invocations PROVE RowsOK(j)'
    <2> SUFFICES ASSUME work'[j].saved > 0, NEW m \in 1..N
                 PROVE  LET row == reconciliation_runs'[work'[j].run_id][m] IN
                        /\ row # NULL <=> m <= work'[j].saved
                        /\ row # NULL =>
                              /\ row.entry = Entry(work'[j].raws, m)
                              /\ trade_breaks'[work'[j].run_id][m] = BreaksIn(work'[j].raws, m)
      BY DEF RowsOK, Entry, BreaksIn, TradesIn
    <2>1. CASE j # i
      <3>1. work'[j] = work[j] /\ work[j].run_id \in RunIds /\ RowsOK(j)
        BY <1>1, <1>4, <2>1 DEF OnlyMoves, TypeOK, Work, Consistent
      <3>2. work[j].run_id # id
        BY <1>6, <2>1, <3>1 DEF Wrote
      <3>3. /\ reconciliation_runs'[work[j].run_id][m] = reconciliation_runs[work[j].run_id][m]
            /\ trade_breaks'[work[j].run_id][m] = trade_breaks[work[j].run_id][m]
        BY <1>5, <3>1, <3>2
      <3> QED
        BY <3>1, <3>3 DEF RowsOK
    <2>2. CASE j = i /\ m = k
      BY <1>3, <1>4, <1>5, <2>2
    <2>3. CASE j = i /\ m # k
      <3>1. /\ reconciliation_runs'[id][m] = reconciliation_runs[id][m]
            /\ trade_breaks'[id][m] = trade_breaks[id][m]
        BY <1>3, <1>5, <2>3
      <3>2. m <= work[i].saved <=> m <= k
        BY <1>3, <2>3
      <3> HIDE DEF id, k
      <3> QED
        BY <1>4, <1>6, <2>3, <3>1, <3>2
    <2> QED
      BY <2>1, <2>2, <2>3
  <1>10. Located(i)'
    <2>1. \A t \in Evaluated(work[i].raws) : canonical[t] # NULL
      BY <1>1, <1>2 DEF Located
    <2>2. k = N \/ k < N
      BY <1>3, RunsAssumption
    <2> QED
      BY <1>2, <1>4, <2>1, <2>2 DEF Located, Evaluated
  <1>11. ReadOK(i)'
    BY <1>1, <1>2, <1>4 DEF ReadOK
  <1>12. \A j \in Invocations : Located(j)' /\ ReadOK(j)'
    BY <1>2, <1>4, <1>10, <1>11, OthersOK DEF OnlyMoves, sources
  <1>13. LoadsAreWhole'
    BY <1>1, <1>2 DEF LoadsAreWhole, sources
  <1> QED
    BY <1>7, <1>8, <1>9, <1>12, <1>13 DEF Consistent

\* A batch brings its quarantined deliveries with the others.
LEMMA LoadOK ==
    ASSUME Consistent, Load
    PROVE  Consistent'
  <1>1. TypeOK /\ LoadsAreWhole /\ UNCHANGED <<clock, tables, work>>
    BY DEF Consistent, Load
  <1>2. PICK l \in Loads : inbox' = inbox \cup l.inbox /\ conflicts' = conflicts \cup l.conflicts
    BY DEF Load
  <1>3. l.inbox \subseteq Observations /\ l.conflicts \subseteq Observations
    BY LoadsAssumption
  <1>4. TypeOK'
    BY <1>1, <1>2, <1>3 DEF TypeOK, tables
  <1>5. LoadsAreWhole'
    <2> SUFFICES ASSUME NEW m \in Loads
                 PROVE  /\ m.inbox \cap conflicts' = {}
                        /\ m.inbox \cap inbox' # {} => m.conflicts \subseteq conflicts'
      BY DEF LoadsAreWhole
    <2>1. m.inbox \cap conflicts = {} /\ m.inbox \cap l.conflicts = {}
      BY <1>1, LoadsAssumption DEF LoadsAreWhole
    <2>2. m # l => m.inbox \cap l.inbox = {}
      BY LoadsAssumption
    <2>3. m.inbox \cap inbox # {} => m.conflicts \subseteq conflicts
      BY <1>1 DEF LoadsAreWhole
    <2> QED
      BY <1>2, <2>1, <2>2, <2>3
  <1>6. \A j \in Invocations : Located(j)' /\ ReadOK(j)'
    BY <1>1, <1>2, OthersOK DEF tables
  <1>7. \A j \in Invocations : RowsOK(j)'
    BY <1>1, RowsUntouched DEF tables
  <1>8. OneWriter'
    BY <1>1 DEF Consistent, OneWriter, Wrote, tables
  <1> QED
    BY <1>4, <1>5, <1>6, <1>7, <1>8 DEF Consistent

\* The clock concerns only the stamps; a stuttering step nothing.
LEMMA ClockOK ==
    ASSUME Consistent, UNCHANGED <<sources, tables, work>>, clock' \in RunIds
    PROVE  Consistent'
  <1>1. TypeOK'
    BY DEF Consistent, TypeOK, sources, tables
  <1>2. \A j \in Invocations : Located(j)' /\ ReadOK(j)'
    BY OthersOK DEF tables, sources
  <1>3. \A j \in Invocations : RowsOK(j)'
    BY RowsUntouched DEF tables
  <1>4. OneWriter' /\ LoadsAreWhole'
    BY DEF Consistent, OneWriter, Wrote, LoadsAreWhole, tables, sources
  <1> QED
    BY <1>1, <1>2, <1>3, <1>4 DEF Consistent

\* Every step keeps the invariant.
LEMMA NextConsistent == Consistent /\ [Next]_vars => Consistent'
  <1> SUFFICES ASSUME Consistent, [Next]_vars PROVE Consistent'
    OBVIOUS
  <1>1. ASSUME NEW i \in Invocations, Step(i) \/ die(i) PROVE Consistent'
    <2>1. CASE persist_run(i)
      BY <2>1, SaveOK, RefusedOK
    <2>2. CASE insert_missing_states(i)
      BY <2>2, InsertOK
    <2> QED
      BY <1>1, <2>1, <2>2, ReadersOK DEF Step
  <1>2. CASE Load
    BY <1>2, LoadOK
  <1>3. CASE Tick
    BY <1>3, ClockOK, RunsAssumption DEF Tick, Consistent, TypeOK, RunIds
  <1>4. CASE UNCHANGED vars
    BY <1>4, ClockOK DEF vars, Consistent, TypeOK, sources, tables
  <1> QED
    BY <1>1, <1>2, <1>3, <1>4 DEF Next

\* The tables and the locals of all invocations stay consistent, for any number
\* of concurrent run_reconciliation calls, loads, deaths and portfolios.
THEOREM RunsStayConsistent == Spec => []Consistent
  BY InitConsistent, NextConsistent, PTL DEF Spec

\* Rows, stored states and locals of run_reconciliation keep their shape; run_id
\* and the number of portfolios persisted stay in range.
THEOREM RunsTypeCorrect == Spec => []TypeOK
  <1>1. Consistent => TypeOK
    BY DEF Consistent
  <1> QED
    BY <1>1, RunsStayConsistent, PTL

\* No run overlooks a conflict that was known when the delivery it contradicts
\* was read, although run_reconciliation reads the two tables one after the other.
THEOREM ConflictsAreSeen == Spec => []NoConflictOverlooked
  <1>1. Consistent => NoConflictOverlooked
    <2> SUFFICES ASSUME Consistent, NEW i \in Invocations, NEW l \in Loads,
                        work[i].pc \notin {"idle", "inbox", "quarantine", "refused", "killed"},
                        l.inbox \cap work[i].raws # {}
                 PROVE  l.conflicts \subseteq work[i].raws
      BY DEF NoConflictOverlooked
    <2>1. work[i].pc \in {"select", "insert", "persist", "done"}
      BY DEF Consistent, TypeOK, Work, Points
    <2> QED
      BY <2>1 DEF Consistent, ReadOK
  <1> QED
    BY <1>1, RunsStayConsistent, PTL

\* A refused run leaves no row and an answered one all of them, whatever shares
\* its second: persist_run's unique key turns away the second run at once.
THEOREM HalfRunsWereKilled == Spec => []OnlyKilledRunsAreHalf
  <1>1. Consistent => OnlyKilledRunsAreHalf
    <2> SUFFICES ASSUME Consistent, NEW i \in Invocations
                 PROVE  /\ work[i].pc = "refused" => work[i].saved = 0
                        /\ work[i].pc = "done" =>
                              \A k \in 1..N :
                                 /\ reconciliation_runs[work[i].run_id][k] # NULL
                                 /\ reconciliation_runs[work[i].run_id][k].entry
                                       = Entry(work[i].raws, k)
      BY DEF OnlyKilledRunsAreHalf
    <2>1. Located(i) /\ RowsOK(i)
      BY DEF Consistent
    <2>2. work[i].pc = "done" => work[i].saved = N /\ work[i].saved > 0
      BY <2>1, RunsAssumption DEF Located
    <2> QED
      BY <2>1, <2>2, RunsAssumption DEF Located, RowsOK
  <1> QED
    BY <1>1, RunsStayConsistent, PTL

\* Every trade a stored row counts has its canonical state: the states are
\* committed before the first row.
THEOREM ReportsCanBeOpened == Spec => []ReportedTradesAreStored
  <1>1. Consistent => ReportedTradesAreStored
    <2> SUFFICES ASSUME Consistent, NEW id \in RunIds, NEW k \in 1..N,
                        reconciliation_runs[id][k] # NULL,
                        NEW t \in reconciliation_runs[id][k].entry.trades
                 PROVE  canonical[t] # NULL
      BY DEF ReportedTradesAreStored
    <2>1. PICK i \in Invocations : Wrote(i, id)
      BY DEF Consistent, OneWriter
    <2>2. Located(i) /\ RowsOK(i) /\ work[i] \in Work
      BY DEF Consistent, TypeOK
    <2>3. reconciliation_runs[id][k].entry = Entry(work[i].raws, k)
      BY <2>1, <2>2 DEF RowsOK, Wrote
    <2>4. t \in Evaluated(work[i].raws)
      BY <2>2, <2>3, EntryType DEF Work
    <2> QED
      BY <2>1, <2>2, <2>4 DEF Located, Wrote
  <1> QED
    BY <1>1, RunsStayConsistent, PTL

-----------------------------------------------------------------------------
\* The refinement of RunLedger.

\* The refinement mapping.
LedgerView     == [id \in RunIds |-> [k \in 1..N |-> Cell(id, k)]]
EvaluationView == [id \in RunIds |-> IF reconciliation_runs[id][1] = NULL THEN NULL
                                     ELSE work[Owner(id)].raws]

\* The owner of a run_id is its writer, and the mapping shows what that one read.
OwnersShown ==
    \A i \in Invocations, id \in RunIds : Wrote(i, id) =>
        /\ Owner(id) = i
        /\ reconciliation_runs[id][1] # NULL
        /\ EvaluationView[id] = work[i].raws

\* A run_id that is in use has one owner, and the mapping shows its evaluation.
LEMMA OwnerIsTheWriter == Consistent => OwnersShown
  <1> SUFFICES ASSUME Consistent, NEW i \in Invocations, NEW id \in RunIds, Wrote(i, id)
               PROVE  /\ Owner(id) = i
                      /\ reconciliation_runs[id][1] # NULL
                      /\ EvaluationView[id] = work[i].raws
    BY DEF OwnersShown
  <1>1. \A j \in Invocations : Wrote(j, id) => j = i
    BY DEF Consistent, OneWriter
  <1>2. Owner(id) = i
    BY <1>1 DEF Owner
  <1>3. work[i].saved \in 0..N /\ work[i].saved > 0 /\ work[i].run_id = id
    BY DEF Consistent, TypeOK, Work, Wrote
  <1>4. 1 \in 1..N /\ 1 <= work[i].saved
    BY <1>3, RunsAssumption
  <1>5. reconciliation_runs[id][1] # NULL
    BY <1>3, <1>4 DEF Consistent, RowsOK
  <1> QED
    BY <1>2, <1>5 DEF EvaluationView

\* The rows and what they were written from stay.
Unwritten ==
    /\ UNCHANGED <<reconciliation_runs, trade_breaks, row_id_seq>>
    /\ \A j \in Invocations : /\ work'[j].saved = work[j].saved
                              /\ work[j].saved > 0 => /\ work'[j].run_id = work[j].run_id
                                                      /\ work'[j].raws = work[j].raws

\* A step that writes no row is invisible in the ledger.
LEMMA UnwrittenIsInvisible ==
    ASSUME Consistent, Consistent', Unwritten
    PROVE  LedgerView' = LedgerView /\ EvaluationView' = EvaluationView
  <1>1. LedgerView' = LedgerView
    BY DEF LedgerView, Cell, Unwritten
  <1>2. ASSUME NEW id \in RunIds PROVE EvaluationView'[id] = EvaluationView[id]
    <2>1. CASE reconciliation_runs[id][1] = NULL
      BY <2>1 DEF EvaluationView, Unwritten
    <2>2. CASE reconciliation_runs[id][1] # NULL
      <3>1. 1 \in 1..N
        BY RunsAssumption
      <3>2. PICK i \in Invocations : Wrote(i, id)
        BY <2>2, <3>1 DEF Consistent, OneWriter
      <3>3. Wrote(i, id)'
        BY <3>2 DEF Wrote, Unwritten
      <3>4. EvaluationView[id] = work[i].raws
        BY <3>2, OwnerIsTheWriter DEF OwnersShown
      <3>5. OwnersShown'
        BY OwnerIsTheWriter, PTL
      <3>6. EvaluationView'[id] = work'[i].raws
        BY <3>3, <3>5 DEF OwnersShown
      <3> QED
        BY <3>2, <3>4, <3>6 DEF Unwritten, Wrote
    <2> QED
      BY <2>1, <2>2
  <1>3. EvaluationView' = EvaluationView
    BY <1>2 DEF EvaluationView
  <1> QED
    BY <1>1, <1>3

\* Everything but a persisted portfolio writes no row.
LEMMA OnlySavingWrites ==
    ASSUME Consistent, [Next]_vars
    PROVE  \/ Unwritten
           \/ \E i \in Invocations :
                 /\ persist_run(i)
                 /\ reconciliation_runs[work[i].run_id][work[i].saved + 1] = NULL
  <1>1. TypeOK
    BY DEF Consistent
  <1>2. ASSUME NEW i \in Invocations, OnlyMoves(i),
               UNCHANGED <<reconciliation_runs, trade_breaks, row_id_seq>>,
               work'[i].saved = work[i].saved,
               \/ work[i].saved = 0
               \/ work'[i].run_id = work[i].run_id /\ work'[i].raws = work[i].raws
        PROVE  Unwritten
    BY <1>2 DEF Unwritten, OnlyMoves
  <1>3. ASSUME NEW i \in Invocations, Step(i) \/ die(i),
               ~(/\ persist_run(i)
                 /\ reconciliation_runs[work[i].run_id][work[i].saved + 1] = NULL)
        PROVE  Unwritten
    <2>1. Located(i)
      BY DEF Consistent
    <2>2. CASE run_reconciliation(i)
      BY <1>1, <1>2, <2>1, <2>2, StartMoves DEF run_reconciliation, Located, tables
    <2>3. CASE observation_documents(i)
      BY <1>1, <1>2, <2>1, <2>3, FirstReadMoves DEF observation_documents, Located, tables
    <2>4. CASE conflict_documents(i)
      BY <1>1, <1>2, <2>1, <2>4, SecondReadMoves DEF conflict_documents, Located, tables
    <2>5. CASE select_existing_states(i)
      BY <1>1, <1>2, <2>1, <2>5, SelectMoves DEF select_existing_states, Located, tables
    <2>6. CASE insert_missing_states(i)
      <3>1. Goto(i, "persist") \/ Goto(i, "refused")
        BY <2>6 DEF insert_missing_states
      <3>2. OnlyMoves(i) /\ work'[i].saved = work[i].saved
        BY <1>1, <3>1, GotoMoves DEF Points
      <3> QED
        BY <1>2, <2>1, <2>6, <3>2 DEF insert_missing_states, Located
    <2>7. CASE persist_run(i)
      <3>1. Goto(i, "refused") /\ UNCHANGED <<reconciliation_runs, trade_breaks, row_id_seq>>
        BY <1>3, <2>7 DEF persist_run
      <3> QED
        BY <1>1, <1>2, <3>1, GotoMoves DEF Points
    <2>8. CASE die(i)
      BY <1>1, <1>2, <2>8, GotoMoves DEF die, Points, tables
    <2> QED
      BY <1>3, <2>2, <2>3, <2>4, <2>5, <2>6, <2>7, <2>8 DEF Step
  <1>4. CASE Load \/ Tick \/ UNCHANGED vars
    BY <1>4 DEF Load, Tick, vars, tables, Unwritten
  <1> QED
    BY <1>3, <1>4 DEF Next

\* A persisted portfolio shows in the ledger as its place of the report, and the
\* first one as the evaluation behind the run_id.
LEMMA SavingShows ==
    ASSUME Consistent, Consistent', NEW i \in Invocations, persist_run(i),
           reconciliation_runs[work[i].run_id][work[i].saved + 1] = NULL
    PROVE  \E id \in RunIds : Ledger!Publish(id) \/ Ledger!Extend(id)
  <1>1. TypeOK /\ Located(i) /\ work[i] \in Work
    BY DEF Consistent, TypeOK
  <1>2. SaveRow(i, work[i].saved + 1) /\ work[i].saved < N /\ work[i].saved \in Nat
    BY <1>1, RunsAssumption DEF persist_run, Located, Work
  <1>3. PICK id \in RunIds, k \in 1..N, e \in SUBSET Observations :
          id = work[i].run_id /\ k = work[i].saved + 1 /\ e = work[i].raws
    <2>1. work[i].run_id \in RunIds /\ work[i].raws \in SUBSET Observations
      BY <1>1 DEF Work
    <2>2. work[i].saved + 1 \in 1..N
      BY <1>2, RunsAssumption
    <2> QED
      BY <2>1, <2>2, Zenon
  <1>4. /\ OnlyMoves(i) /\ work'[i].saved = k
        /\ work'[i].run_id = id /\ work'[i].raws = e
    BY <1>1, <1>2, <1>3, SaveMoves
  <1>5. /\ reconciliation_runs'[id][k] # NULL
        /\ reconciliation_runs'[id][k].entry = Entry(e, k)
        /\ trade_breaks'[id][k] = BreaksIn(e, k)
        /\ \A x \in RunIds, m \in 1..N : <<x, m>> # <<id, k>> =>
              /\ reconciliation_runs'[x][m] = reconciliation_runs[x][m]
              /\ trade_breaks'[x][m] = trade_breaks[x][m]
    BY <1>1, <1>2, <1>3, SaveWrites
  <1>6. /\ \A j \in Invocations : j # i => ~Wrote(j, id)
        /\ \A m \in 1..N : reconciliation_runs[id][m] # NULL <=> m <= work[i].saved
    BY <1>2, <1>3, NextRowIsFree
  <1>7. OwnersShown /\ OwnersShown'
    BY OwnerIsTheWriter, PTL
  <1>8. Wrote(i, id)' /\ EvaluationView'[id] = e
    BY <1>3, <1>4, <1>7 DEF Wrote, OwnersShown
  <1>9. ASSUME NEW x \in RunIds, x # id PROVE EvaluationView'[x] = EvaluationView[x]
    <2>1. 1 \in 1..N /\ reconciliation_runs'[x][1] = reconciliation_runs[x][1]
      BY <1>5, <1>9, RunsAssumption
    <2>2. CASE reconciliation_runs[x][1] = NULL
      BY <2>1, <2>2 DEF EvaluationView
    <2>3. CASE reconciliation_runs[x][1] # NULL
      <3>1. PICK j \in Invocations : Wrote(j, x)
        BY <2>1, <2>3 DEF Consistent, OneWriter
      <3>2. j # i /\ work'[j] = work[j]
        BY <1>3, <1>4, <1>9, <3>1 DEF Wrote, OnlyMoves
      <3>3. Wrote(j, x)'
        BY <3>1, <3>2 DEF Wrote
      <3> QED
        BY <1>7, <3>1, <3>2, <3>3 DEF OwnersShown
    <2> QED
      BY <2>2, <2>3
  <1>10. LedgerView' = [LedgerView EXCEPT ![id][k] = Published(e, k)]
    <2>1. Cell(id, k)' = Published(e, k)
      BY <1>5 DEF Cell, Published
    <2>2. \A x \in RunIds, m \in 1..N : <<x, m>> # <<id, k>> => Cell(x, m)' = Cell(x, m)
      BY <1>5 DEF Cell
    <2> QED
      BY <1>3, <2>1, <2>2 DEF LedgerView
  <1>11. CASE k = 1
    <2>1. EvaluationView[id] = NULL
      BY <1>3, <1>11 DEF EvaluationView
    <2>2. EvaluationView' = [EvaluationView EXCEPT ![id] = e]
      BY <1>3, <1>8, <1>9 DEF EvaluationView
    <2>3. Ledger!Publish(id)
      BY <1>3, <1>10, <1>11, <2>1, <2>2
         DEF Ledger!Publish, LedgerView, EvaluationView
    <2> QED
      BY <1>3, <2>3
  <1>12. CASE k # 1
    <2>1. k \in 2..N /\ k - 1 \in 1..N /\ work[i].saved > 0 /\ k - 1 <= work[i].saved
      BY <1>2, <1>3, <1>12, RunsAssumption
    <2>2. Wrote(i, id) /\ EvaluationView[id] = e
      BY <1>3, <1>7, <2>1 DEF Wrote, OwnersShown
    <2>3. EvaluationView' = EvaluationView
      BY <1>8, <1>9, <2>2 DEF EvaluationView
    <2>4. reconciliation_runs[id][k - 1] # NULL
      BY <1>6, <2>1
    <2>5. LedgerView[id][k - 1] # NULL
      <3>1. reconciliation_runs[id][k - 1] \in Row
        BY <1>1, <1>3, <2>1, <2>4 DEF TypeOK
      <3>2. reconciliation_runs[id][k - 1].entry \in Entries
        BY <3>1 DEF Row
      <3>3. trade_breaks[id][k - 1] \in SUBSET (Trades \X TradeBreaks)
        <4>1. trade_breaks[id] \in [1..N -> SUBSET (Trades \X TradeBreaks)]
          BY <1>1, <1>3, Zenon DEF TypeOK
        <4> QED
          BY <2>1, <4>1, Zenon
      <3>4. Cell(id, k - 1) \in Entries \X SUBSET (Trades \X TradeBreaks)
        BY <2>4, <3>2, <3>3 DEF Cell
      <3> QED
        BY <1>3, <2>1, <3>4, NullIsNoRow DEF LedgerView
    <2>6. LedgerView[id][k] = NULL
      BY <1>3 DEF LedgerView, Cell
    <2>7. Ledger!Extend(id)
      BY <1>10, <2>1, <2>2, <2>3, <2>5, <2>6
         DEF Ledger!Extend, LedgerView, EvaluationView
    <2> QED
      BY <1>3, <2>7
  <1> QED
    BY <1>11, <1>12

\* The runs implement the ledger: under each run_id readers see a growing prefix
\* of one evaluation's report, however many run_reconciliation calls share the
\* second, die between two portfolios or are refused.
THEOREM RunsImplementTheLedger == Spec => ImplementsLedger
  <1>1. Init => Ledger!Init
    BY RunsAssumption DEF Init, Ledger!Init, Cell
  <1>2. Consistent /\ Consistent' /\ [Next]_vars => [Ledger!Next]_(Ledger!ledgerVars)
    <2> SUFFICES ASSUME Consistent, Consistent', [Next]_vars
                 PROVE  [Ledger!Next]_(Ledger!ledgerVars)
      OBVIOUS
    <2>1. CASE Unwritten
      BY <2>1, UnwrittenIsInvisible DEF Ledger!ledgerVars, LedgerView, EvaluationView
    <2>2. CASE ~Unwritten
      BY <2>2, OnlySavingWrites, SavingShows DEF Ledger!Next
    <2> QED
      BY <2>1, <2>2
  <1> QED
    BY <1>1, <1>2, RunsStayConsistent, PTL DEF Spec, ImplementsLedger, Ledger!Spec

=============================================================================
