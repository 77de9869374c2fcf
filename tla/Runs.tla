-------------------------------- MODULE Runs --------------------------------
(***************************************************************************)
(* Full reconciliation runs (apps/api/service.py, run_reconciliation) over *)
(* the PostgreSQL adapter: concurrent invocations, each a sequence of      *)
(* transactions, against loads of source observations and the clock.       *)
(*                                                                         *)
(* A portfolio is its place in DEMO_PORTFOLIO_IDS, a lineage group its     *)
(* trade, a run_id the second it is formatted from.  Counters of a run row *)
(* are kept as the sets they count.  The engine is the constant breaks_of; *)
(* MCReporting takes it from Engine.                                         *)
(***************************************************************************)
EXTENDS Naturals

CONSTANTS
    Invocations,    \* calls of run_reconciliation
    Trades,         \* lineage groups
    Observations,   \* what the sources send
    trade_of,       \* [Observations -> Trades]
    N,              \* Len(DEMO_PORTFOLIO_IDS)
    portfolio_of,   \* [Trades -> 1..N]
    TradeBreaks,
    breaks_of,      \* the breaks of a group of observations, NULL if the engine raises
    Loads,          \* the batches that ingest_observations commits
    MaxSecond,      \* bound: seconds the clock may reach
    NULL

RunIds == 0..MaxSecond

ASSUME RunsAssumption ==
    /\ MaxSecond \in Nat
    /\ N \in Nat \ {0}
    /\ trade_of \in [Observations -> Trades]
    /\ portfolio_of \in [Trades -> 1..N]
    /\ breaks_of \in [SUBSET Observations -> {NULL} \cup SUBSET TradeBreaks]
    /\ \A S \in SUBSET Observations : S # NULL

\* A batch writes its first deliveries to the inbox and the conflicting ones to
\* the quarantine; a delivery belongs to one batch.
ASSUME LoadsAssumption ==
    /\ Loads \subseteq [inbox : SUBSET Observations, conflicts : SUBSET Observations]
    /\ \A l, m \in Loads :
          /\ l # m => l.inbox \cap m.inbox = {}
          /\ l.inbox \cap m.conflicts = {}

VARIABLES
    clock,                  \* the current second
    inbox,                  \* source_event_inbox
    conflicts,              \* source_event_conflicts
    canonical,              \* version 1 of a trade: what it was assembled from
    reconciliation_runs,    \* [run_id -> [portfolio -> Row or NULL]]
    trade_breaks,           \* [run_id -> [portfolio -> the breaks with their trades]]
    row_id_seq,             \* the identity column of reconciliation_runs
    work                    \* where each invocation is, and its locals

tables  == <<canonical, reconciliation_runs, trade_breaks, row_id_seq>>
sources == <<inbox, conflicts>>
vars    == <<clock, sources, tables, work>>

-----------------------------------------------------------------------------
\* What an evaluation finds.

Group(raws, t) == {o \in raws : trade_of[o] = t}

Evaluated(raws) == {trade_of[o] : o \in raws}

\* An exception of one lineage group ends the whole evaluation.
EngineRaises(raws) == \E t \in Evaluated(raws) : breaks_of[Group(raws, t)] = NULL

TradesIn(raws, k) == {t \in Evaluated(raws) : portfolio_of[t] = k}

BreaksIn(raws, k) ==
    {b \in TradesIn(raws, k) \X TradeBreaks : b[2] \in breaks_of[Group(raws, b[1])]}

\* trades_evaluated, observations_ingested, broken_trades and break_count of one
\* portfolio; the clean trades are the others.
Entry(raws, k) ==
    [ trades       |-> TradesIn(raws, k),
      observations |-> {o \in raws : portfolio_of[trade_of[o]] = k},
      broken       |-> {t \in TradesIn(raws, k) : breaks_of[Group(raws, t)] # {}},
      breaks       |-> BreaksIn(raws, k) ]

Entries ==
    [ trades : SUBSET Trades, observations : SUBSET Observations,
      broken : SUBSET Trades, breaks : SUBSET (Trades \X TradeBreaks) ]

Row == [entry : Entries, completed_at : Nat, row_id : Nat]

\* No row is not a row.
ASSUME NullIsNoRow == NULL \notin Row /\ NULL \notin Entries \X SUBSET (Trades \X TradeBreaks)

\* The points between two transactions of an invocation, and its ends.
Points == {"idle", "inbox", "quarantine", "select", "insert", "persist",
           "done", "refused", "killed"}

\* since: when the last transaction ended.  saved: the portfolios persisted.
Work ==
    [ pc : Points, run_id : RunIds, since : RunIds, raws : SUBSET Observations,
      existing : SUBSET Trades, saved : 0..N ]

TypeOK ==
    /\ clock \in RunIds
    /\ inbox \subseteq Observations /\ conflicts \subseteq Observations
    /\ canonical \in [Trades -> {NULL} \cup SUBSET Observations]
    /\ reconciliation_runs \in [RunIds -> [1..N -> {NULL} \cup Row]]
    /\ trade_breaks \in [RunIds -> [1..N -> SUBSET (Trades \X TradeBreaks)]]
    /\ row_id_seq \in Nat
    /\ work \in [Invocations -> Work]

Init ==
    /\ clock = 0
    /\ inbox = {} /\ conflicts = {}
    /\ canonical = [t \in Trades |-> NULL]
    /\ reconciliation_runs = [id \in RunIds |-> [k \in 1..N |-> NULL]]
    /\ trade_breaks = [id \in RunIds |-> [k \in 1..N |-> {}]]
    /\ row_id_seq = 0
    /\ work = [i \in Invocations |->
                 [ pc |-> "idle", run_id |-> 0, since |-> 0, raws |-> {},
                   existing |-> {}, saved |-> 0 ]]

-----------------------------------------------------------------------------
\* Invocation i goes on with its locals as they are now.
Continue(i, locals) == work' = [work EXCEPT ![i] = locals]

\* Invocation i moves on to pc and keeps the rest.
Goto(i, pc) == Continue(i, [work[i] EXCEPT !.pc = pc, !.since = clock])

\* Slip: the stamp is rounded up to the next second.
StampRoundedUp(i) ==
    /\ work[i].pc = "idle"
    /\ Continue(i, [work[i] EXCEPT !.pc = "inbox", !.run_id = clock + 1, !.since = clock])
    /\ UNCHANGED <<clock, sources, tables>>

\* started_at, and the run_id with its resolution of one second.
run_reconciliation(i) ==
    /\ work[i].pc = "idle"
    /\ Continue(i, [work[i] EXCEPT !.pc = "inbox", !.run_id = clock, !.since = clock])
    /\ UNCHANGED <<clock, sources, tables>>

\* Slip: the quarantine is read first.
QuarantineFirst == <<conflicts, inbox>>

\* What the two reads return, in their order.
ReadOrder == <<inbox, conflicts>>

observation_documents(i) ==
    /\ work[i].pc = "inbox"
    /\ Continue(i, [work[i] EXCEPT !.pc = "quarantine", !.raws = ReadOrder[1]])
    /\ UNCHANGED <<clock, sources, tables>>

\* The second read, and the evaluation of everything read: ValueError when there
\* is nothing, or whatever the engine raises.
conflict_documents(i) ==
    LET raws == work[i].raws \cup ReadOrder[2] IN
    /\ work[i].pc = "quarantine"
    /\ IF raws = {} \/ EngineRaises(raws)
         THEN Goto(i, "refused")
         ELSE Continue(i, [work[i] EXCEPT !.pc = "select", !.raws = raws])
    /\ UNCHANGED <<clock, sources, tables>>

\* persist_canonical_states: which of the states, all version 1, are stored.
select_existing_states(i) ==
    /\ work[i].pc = "select"
    /\ Continue(i, [work[i] EXCEPT !.pc = "insert", !.existing =
                                      {t \in Evaluated(work[i].raws) : canonical[t] # NULL}])
    /\ UNCHANGED <<clock, sources, tables>>

\* Slip: the run is recorded before its canonical states.
PersistRowsOnly(i) ==
    /\ work[i].pc = "insert"
    /\ Goto(i, "persist")
    /\ UNCHANGED <<clock, sources, tables>>

\* The others are inserted, all or none; a version that was stored meanwhile is a
\* unique violation and the call fails.
insert_missing_states(i) ==
    LET missing == Evaluated(work[i].raws) \ work[i].existing IN
    /\ work[i].pc = "insert"
    /\ \/ /\ \A t \in missing : canonical[t] = NULL
          /\ canonical' = [t \in Trades |-> IF t \in missing THEN Group(work[i].raws, t)
                                                             ELSE canonical[t]]
          /\ Goto(i, "persist")
       \/ /\ \E t \in missing : canonical[t] # NULL
          /\ Goto(i, "refused")
          /\ UNCHANGED canonical
    /\ UNCHANGED <<clock, sources, reconciliation_runs, trade_breaks, row_id_seq>>

\* The locals once one more portfolio is persisted; after the last one, the answer.
Saved(i) ==
    [work[i] EXCEPT !.saved = @ + 1, !.since = clock,
                    !.pc = IF work[i].saved + 1 = N THEN "done" ELSE "persist"]

\* Slip: the breaks of a portfolio are committed after its row.
SaveRowFirst(i, k) ==
    LET id == work[i].run_id IN
    /\ reconciliation_runs' = [reconciliation_runs EXCEPT ![id][k] =
           [entry |-> Entry(work[i].raws, k), completed_at |-> clock, row_id |-> row_id_seq + 1]]
    /\ trade_breaks' = [trade_breaks EXCEPT ![id] =
           [j \in 1..N |-> IF j < k THEN BreaksIn(work[i].raws, j) ELSE @[j]]]
    /\ row_id_seq' = row_id_seq + 1
    /\ Continue(i, Saved(i))

\* Invocation i commits the row of portfolio k and its breaks.
SaveRow(i, k) ==
    LET id    == work[i].run_id
        entry == Entry(work[i].raws, k)
    IN  /\ \E now \in work[i].since .. clock :
              reconciliation_runs' = [reconciliation_runs EXCEPT ![id][k] =
                  [entry |-> entry, completed_at |-> now, row_id |-> row_id_seq + 1]]
        /\ trade_breaks' = [trade_breaks EXCEPT ![id][k] = entry.breaks]
        /\ row_id_seq' = row_id_seq + 1
        /\ Continue(i, Saved(i))

\* Slip: reconciliation_runs lacks its unique constraint.
PersistWithoutConstraint(i) ==
    /\ work[i].pc = "persist"
    /\ SaveRow(i, work[i].saved + 1)
    /\ UNCHANGED <<clock, sources, canonical>>

\* Slip: the portfolios are a set, in an order that differs between processes.
PersistInAnyOrder(i) ==
    /\ work[i].pc = "persist"
    /\ \E k \in 1..N :
          \/ reconciliation_runs[work[i].run_id][k] = NULL /\ SaveRow(i, k)
          \/ /\ reconciliation_runs[work[i].run_id][k] # NULL
             /\ Goto(i, "refused")
             /\ UNCHANGED <<reconciliation_runs, trade_breaks, row_id_seq>>
    /\ UNCHANGED <<clock, sources, canonical>>

\* persist_run of the next portfolio: the row and its breaks in one transaction,
\* refused when another run has the run_id.
persist_run(i) ==
    LET k == work[i].saved + 1 IN
    /\ work[i].pc = "persist"
    /\ \/ reconciliation_runs[work[i].run_id][k] = NULL /\ SaveRow(i, k)
       \/ /\ reconciliation_runs[work[i].run_id][k] # NULL
          /\ Goto(i, "refused")
          /\ UNCHANGED <<reconciliation_runs, trade_breaks, row_id_seq>>
    /\ UNCHANGED <<clock, sources, canonical>>

Ended == {"done", "refused", "killed"}

\* The process dies, or the database cannot be reached: what was committed stays.
die(i) ==
    /\ work[i].pc \notin Ended \cup {"idle"}
    /\ Goto(i, "killed")
    /\ UNCHANGED <<clock, sources, tables>>

\* ingest_observations commits a batch (Inbox: whole, and a repeated one changes
\* nothing).
Load ==
    /\ \E l \in Loads : inbox' = inbox \cup l.inbox /\ conflicts' = conflicts \cup l.conflicts
    /\ UNCHANGED <<clock, tables, work>>

Tick ==
    /\ clock < MaxSecond
    /\ clock' = clock + 1
    /\ UNCHANGED <<sources, tables, work>>

Step(i) ==
    \/ run_reconciliation(i) \/ observation_documents(i) \/ conflict_documents(i)
    \/ select_existing_states(i) \/ insert_missing_states(i) \/ persist_run(i)

Next == (\E i \in Invocations : Step(i) \/ die(i)) \/ Load \/ Tick

Spec == Init /\ [][Next]_vars

-----------------------------------------------------------------------------
\* Invocation i has written to its run_id.
Wrote(i, id) == work[i].run_id = id /\ work[i].saved > 0

Owner(id) == CHOOSE i \in Invocations : Wrote(i, id)

\* A run never overlooks a quarantined delivery that was known when the delivery
\* it contradicts was read, although the two tables are read by two transactions
\* (service.py: "reconciliation must see them to raise
\* DUPLICATE_SOURCE_CONFLICT").
NoConflictOverlooked ==
    \A i \in Invocations, l \in Loads :
        /\ work[i].pc \notin {"idle", "inbox", "quarantine", "refused", "killed"}
        /\ l.inbox \cap work[i].raws # {}
        => l.conflicts \subseteq work[i].raws

\* Half a run is visible only while its invocation is writing or if that one was
\* killed: runs of the same second never leave a row behind when they are
\* refused, and a run that answers is there in full.
OnlyKilledRunsAreHalf ==
    \A i \in Invocations :
        /\ work[i].pc = "refused" => work[i].saved = 0
        /\ work[i].pc = "done" =>
              \A k \in 1..N : /\ reconciliation_runs[work[i].run_id][k] # NULL
                              /\ reconciliation_runs[work[i].run_id][k].entry
                                    = Entry(work[i].raws, k)

\* Every trade a visible run counts, broken or clean, has a canonical state: the
\* states are committed before the first row, and a run that skipped a state
\* found it stored (GET /trades of a reported break is never 404).
ReportedTradesAreStored ==
    \A id \in RunIds, k \in 1..N :
        reconciliation_runs[id][k] # NULL =>
            \A t \in reconciliation_runs[id][k].entry.trades : canonical[t] # NULL

-----------------------------------------------------------------------------
\* What makes these inductive.

\* How far an invocation has come, and that the states it counts on are stored.
Located(i) ==
    /\ work[i].pc \in {"idle", "inbox", "quarantine", "select", "insert", "refused"} =>
          work[i].saved = 0
    /\ work[i].pc = "persist" => work[i].saved < N
    /\ work[i].pc = "done" => work[i].saved = N
    /\ work[i].pc = "insert" => \A t \in work[i].existing : canonical[t] # NULL
    /\ work[i].pc \in {"persist", "done"} \/ work[i].saved > 0 =>
          \A t \in Evaluated(work[i].raws) : canonical[t] # NULL

\* An invocation that has written has written exactly its first portfolios.
RowsOK(i) ==
    work[i].saved > 0 =>
        \A k \in 1..N :
            LET row == reconciliation_runs[work[i].run_id][k] IN
            /\ row # NULL <=> k <= work[i].saved
            /\ row # NULL => /\ row.entry = Entry(work[i].raws, k)
                             /\ trade_breaks[work[i].run_id][k] = BreaksIn(work[i].raws, k)

\* What an invocation reads is complete once it has read both tables.
ReadOK(i) ==
    \A l \in Loads :
        l.inbox \cap work[i].raws # {} =>
            /\ work[i].pc = "quarantine" => l.conflicts \subseteq conflicts
            /\ work[i].pc \in {"select", "insert", "persist", "done"} =>
                  l.conflicts \subseteq work[i].raws

\* A run_id is written by one invocation, and every row by some invocation.
OneWriter ==
    /\ \A i, j \in Invocations, id \in RunIds : Wrote(i, id) /\ Wrote(j, id) => i = j
    /\ \A id \in RunIds, k \in 1..N :
          reconciliation_runs[id][k] # NULL => \E i \in Invocations : Wrote(i, id)

\* A batch's quarantined deliveries are there as soon as its others are.
LoadsAreWhole ==
    \A l \in Loads :
        /\ l.inbox \cap conflicts = {}
        /\ l.inbox \cap inbox # {} => l.conflicts \subseteq conflicts

\* The tables and the locals of every invocation stay consistent, whoever writes
\* at the same time, dies or is refused: the inductive invariant.
Consistent ==
    /\ TypeOK
    /\ \A i \in Invocations : Located(i) /\ RowsOK(i) /\ ReadOK(i)
    /\ OneWriter
    /\ LoadsAreWhole

-----------------------------------------------------------------------------
\* The rows of a run with their breaks, as readers see them, and the evaluation
\* behind them.
Cell(id, k) ==
    IF reconciliation_runs[id][k] = NULL THEN NULL
    ELSE <<reconciliation_runs[id][k].entry, trade_breaks[id][k]>>

Published(raws, k) == <<Entry(raws, k), BreaksIn(raws, k)>>

Ledger == INSTANCE RunLedger WITH
    Evaluations <- SUBSET Observations,
    ledger      <- [id \in RunIds |-> [k \in 1..N |-> Cell(id, k)]],
    evaluation  <- [id \in RunIds |-> IF reconciliation_runs[id][1] = NULL THEN NULL
                                      ELSE work[Owner(id)].raws]

\* Whatever runs at the same time, dies or is refused: readers see, under each
\* run_id, a prefix of one evaluation's report.  The first portfolio's unique
\* key decides who owns the run_id; nobody else writes under it.
ImplementsLedger == Ledger!Spec

-----------------------------------------------------------------------------
\* DDL 0001: late arrivals always INSERT the next canonical_state_version.  So
\* once a run has answered, the stored state of a trade it evaluated was
\* assembled from what that run evaluated, or more.
LateArrivalsAreAssembled ==
    \A i \in Invocations : work[i].pc = "done" =>
        \A t \in Evaluated(work[i].raws) : Group(work[i].raws, t) \subseteq canonical[t]

=============================================================================
