--------------------------- MODULE ReportingProofs ---------------------------
(***************************************************************************)
(* Machine-checked proofs about Reporting, for any number of runs being    *)
(* written while a page is put together.  First counting: a sum of counts  *)
(* by family is the count of the whole.  Then what the tables never take   *)
(* back, then the page, query by query.                                    *)
(***************************************************************************)
EXTENDS Reporting, RunsProofs, FiniteSetTheorems, WellFoundedInduction

Less == {p \in Nat \X Nat : p[1] < p[2]}

\* Every set of numbers that is not empty has a least element.
LEMMA LeastNumber ==
    ASSUME NEW T \in SUBSET Nat, T # {}
    PROVE  \E n \in T : \A m \in T : ~(m < n)
  <1>1. IsWellFoundedOn(Less, Nat)
    BY NatLessThanWellFounded, Zenon DEF OpToRel, Less
  <1>2. \E n \in T : \A m \in T : <<m, n>> \notin Less
    BY <1>1, WFMin
  <1> QED
    BY <1>2 DEF Less

\* The rows of C whose key is in s, a key being what the function key says.
Keyed(C, key, s) == {b \in C : key[b] \in s}

\* What SumFunction goes through: the sum over each subset of the keys.
Sums(count, total) ==
    total = [s \in SUBSET DOMAIN count |->
                IF s = {} THEN 0
                ELSE LET x == CHOOSE y \in s : TRUE IN count[x] + total[s \ {x}]]

\* SumFunction is the last of its partial sums.
LEMMA SumIsFold ==
    ASSUME NEW count
    PROVE  SumFunction(count) = (CHOOSE total : Sums(count, total))[DOMAIN count]
  BY DEF SumFunction, SumFunctionOnSet, FoldFunctionOnSet, MapThenFoldSet, Sums

\* How many elements of C have each key.
CountBy(C, key) == [f \in {key[b] : b \in C} |-> Cardinality({b \in C : key[b] = f})]

\* The counts by key of a finite set add up to the count of the whole, in
\* whatever order they are added (SumFunction's CHOOSE).
LEMMA CountsAddUp ==
    ASSUME NEW C, IsFiniteSet(C), NEW key
    PROVE  SumFunction(CountBy(C, key)) = Cardinality(C)
  <1> DEFINE K == {key[b] : b \in C}
             count == CountBy(C, key)
             whole == [s \in SUBSET K |-> Cardinality(Keyed(C, key, s))]
  <1>1. DOMAIN count = K /\ \A f \in K : count[f] = Cardinality({b \in C : key[b] = f})
    BY DEF CountBy
  <1>2. ASSUME NEW s \in SUBSET K
        PROVE  IsFiniteSet(Keyed(C, key, s)) /\ whole[s] = Cardinality(Keyed(C, key, s))
               /\ whole[s] \in Nat
    <2>1. Keyed(C, key, s) \in SUBSET C
      BY DEF Keyed
    <2>2. IsFiniteSet(Keyed(C, key, s))
      BY <2>1, FS_Subset
    <2> QED
      BY <2>2, FS_CardinalityType
  <1>3. ASSUME NEW s \in SUBSET K, NEW x \in s
        PROVE  /\ whole[s] = count[x] + whole[s \ {x}]
               /\ s \ {x} \in SUBSET K
               /\ whole[s \ {x}] < whole[s]
    <2> DEFINE fibre == {b \in C : key[b] = x}
               rest  == Keyed(C, key, s \ {x})
    <2>1. fibre \in SUBSET C /\ fibre # {} /\ x \in K /\ s \ {x} \in SUBSET K
      OBVIOUS
    <2>2. IsFiniteSet(fibre) /\ Cardinality(fibre) \in Nat /\ Cardinality(fibre) # 0
      <3>1. IsFiniteSet(fibre)
        BY <2>1, FS_Subset
      <3> HIDE DEF fibre
      <3> QED
        BY <2>1, <3>1, FS_CardinalityType, FS_EmptySet
    <2>3. IsFiniteSet(rest) /\ whole[s \ {x}] = Cardinality(rest) /\ whole[s \ {x}] \in Nat
      BY <1>2, <2>1
    <2>4. Keyed(C, key, s) = fibre \cup rest /\ fibre \cap rest = {}
      BY DEF Keyed
    <2>5. whole[s] = Cardinality(fibre \cup rest)
      BY <1>2, <2>4
    <2>6. Cardinality(fibre \cup rest) = Cardinality(fibre) + Cardinality(rest) - Cardinality({})
      <3> HIDE DEF fibre, rest
      <3> QED
        BY <2>2, <2>3, <2>4, FS_Union
    <2>7. count[x] = Cardinality(fibre)
      BY <1>1, <2>1
    <2> HIDE DEF fibre, rest, whole, count, K
    <2> QED
      BY <2>1, <2>2, <2>3, <2>5, <2>6, <2>7, FS_EmptySet
  <1>4. whole[{}] = 0 /\ {} \in SUBSET K
    <2>1. Keyed(C, key, {}) = {} /\ {} \in SUBSET K
      BY DEF Keyed
    <2> QED
      BY <2>1, FS_EmptySet
  <1>5. Sums(count, whole)
    <2> SUFFICES ASSUME NEW s \in SUBSET K
                 PROVE  whole[s] = IF s = {} THEN 0
                                   ELSE LET x == CHOOSE y \in s : TRUE
                                        IN  count[x] + whole[s \ {x}]
      BY <1>1 DEF Sums
    <2> HIDE DEF whole, count, K
    <2>1. CASE s = {}
      BY <1>4, <2>1
    <2>2. CASE s # {}
      <3>1. (CHOOSE y \in s : TRUE) \in s
        BY <2>2
      <3> QED
        BY <1>3, <2>2, <3>1
    <2> QED
      BY <2>1, <2>2
  <1> DEFINE total == CHOOSE t : Sums(count, t)
  <1>6. Sums(count, total)
    BY <1>5
  <1> HIDE DEF total
  <1> DEFINE T == {whole[s] : s \in {u \in SUBSET K : total[u] # whole[u]}}
  <1>7. ASSUME T # {} PROVE FALSE
    <2>1. T \in SUBSET Nat
      BY <1>2
    <2>2. PICK n \in T : \A m \in T : ~(m < n)
      <3> HIDE DEF T
      <3> QED
        BY <1>7, <2>1, LeastNumber
    <2>3. PICK s \in SUBSET K : total[s] # whole[s] /\ whole[s] = n
      OBVIOUS
    <2>4. ASSUME NEW u \in SUBSET K, whole[u] < whole[s] PROVE total[u] = whole[u]
      <3>1. total[u] # whole[u] => whole[u] \in T
        OBVIOUS
      <3> HIDE DEF T, whole, K
      <3> QED
        BY <2>2, <2>3, <2>4, <3>1
    <2> HIDE DEF T, whole, count, K
    <2>5. total[s] = IF s = {} THEN 0
                     ELSE LET x == CHOOSE y \in s : TRUE IN count[x] + total[s \ {x}]
      BY <1>1, <1>6 DEF Sums
    <2>6. CASE s = {}
      BY <1>4, <2>3, <2>5, <2>6
    <2>7. CASE s # {}
      <3>1. PICK x \in s : x = CHOOSE y \in s : TRUE
        BY <2>7
      <3>2. total[s] = count[x] + total[s \ {x}]
        BY <2>5, <2>7, <3>1
      <3>3. total[s \ {x}] = whole[s \ {x}]
        BY <1>3, <2>4
      <3> QED
        BY <1>3, <2>3, <3>2, <3>3
    <2> QED
      BY <2>6, <2>7
  <1>8. total[K] = whole[K]
    BY <1>7
  <1>9. Keyed(C, key, K) = C
    BY DEF Keyed
  <1>10. SumFunction(count) = total[K]
    BY <1>1, SumIsFold DEF total
  <1> QED
    BY <1>8, <1>9, <1>10

-----------------------------------------------------------------------------
\* What the tables never take back.

\* A row number is given once, in the order of the sequence, and breaks come with
\* the row of their portfolio.
RowsInOrder ==
    /\ \A id \in RunIds, k \in 1..N :
          /\ reconciliation_runs[id][k] = NULL => trade_breaks[id][k] = {}
          /\ reconciliation_runs[id][k] # NULL =>
                /\ reconciliation_runs[id][k].row_id <= row_id_seq
                /\ reconciliation_runs[id][k].completed_at \in RunIds
    /\ \A x, y \in RunIds, k, m \in 1..N :
          /\ reconciliation_runs[x][k] # NULL /\ reconciliation_runs[y][m] # NULL
          /\ reconciliation_runs[x][k].row_id = reconciliation_runs[y][m].row_id
          => x = y /\ k = m

\* Only what the engine could evaluate is written.
Evaluable(i) ==
    work[i].pc \in {"select", "insert", "persist", "done"} \/ work[i].saved > 0 =>
        ~EngineRaises(work[i].raws)

\* The state of the database while pages are put together.
TablesInv ==
    /\ Consistent
    /\ RowsInOrder
    /\ \A i \in Invocations : Evaluable(i)

\* From one state to the next: states, rows and breaks stay, and so does who
\* wrote a run and from what.
Grows ==
    /\ \A t \in Trades : canonical[t] # NULL => canonical'[t] # NULL
    /\ \A id \in RunIds, k \in 1..N :
          /\ trade_breaks[id][k] \subseteq trade_breaks'[id][k]
          /\ reconciliation_runs[id][k] # NULL =>
                reconciliation_runs'[id][k] = reconciliation_runs[id][k]
    /\ \A i \in Invocations, id \in RunIds : Wrote(i, id) =>
          /\ work'[i].run_id = id /\ work'[i].saved > 0
          /\ work'[i].raws = work[i].raws

\* A free place of the invocation's own run is filled and nothing else is touched.
LEMMA SavePlaces ==
    ASSUME Consistent, NEW i \in Invocations, persist_run(i),
           reconciliation_runs[work[i].run_id][work[i].saved + 1] = NULL
    PROVE  /\ work[i].run_id \in RunIds /\ work[i].saved + 1 \in 1..N
           /\ work[i].saved \in Nat
           /\ SaveRow(i, work[i].saved + 1)
           /\ OnlyMoves(i) /\ work'[i].saved = work[i].saved + 1
           /\ work'[i].run_id = work[i].run_id /\ work'[i].raws = work[i].raws
           /\ UNCHANGED canonical
  <1>1. TypeOK /\ Located(i) /\ work[i] \in Work
    BY DEF Consistent, TypeOK
  <1>2. /\ SaveRow(i, work[i].saved + 1) /\ work[i].saved < N /\ work[i].saved \in Nat
        /\ UNCHANGED canonical
    BY <1>1, RunsAssumption DEF persist_run, Located, Work
  <1>3. work[i].run_id \in RunIds /\ work[i].saved + 1 \in 1..N
    BY <1>1, <1>2, RunsAssumption DEF Work
  <1> QED
    BY <1>1, <1>2, <1>3, SaveMoves

\* No step takes a canonical state away.
LEMMA StatesStay ==
    ASSUME Consistent, [Next]_vars
    PROVE  \A t \in Trades : canonical[t] # NULL => canonical'[t] # NULL
  <1>1. ASSUME NEW i \in Invocations, insert_missing_states(i), NEW t \in Trades,
               canonical[t] # NULL
        PROVE  canonical'[t] # NULL
    <2>1. Group(work[i].raws, t) \in SUBSET Observations
      BY DEF Group, Consistent, TypeOK, Work
    <2>2. Group(work[i].raws, t) # NULL
      BY <2>1, RunsAssumption
    <2> QED
      BY <1>1, <2>2 DEF insert_missing_states
  <1>2. ASSUME NEW i \in Invocations, Step(i) \/ die(i), ~insert_missing_states(i)
        PROVE  UNCHANGED canonical
    BY <1>2 DEF Step, die, run_reconciliation, observation_documents, conflict_documents,
                select_existing_states, persist_run, tables
  <1>3. CASE Load \/ Tick \/ UNCHANGED vars
    BY <1>3 DEF Load, Tick, vars, tables
  <1> QED
    BY <1>1, <1>2, <1>3 DEF Next

\* Every step keeps what readers may already have seen.
LEMMA TablesGrow ==
    ASSUME Consistent, RowsInOrder, [Next]_vars
    PROVE  Grows
  <1>1. CASE Unwritten
    BY <1>1, StatesStay DEF Unwritten, Grows, Wrote
  <1>2. ASSUME NEW i \in Invocations, persist_run(i),
               reconciliation_runs[work[i].run_id][work[i].saved + 1] = NULL
        PROVE  Grows
    <2> DEFINE id == work[i].run_id
               k  == work[i].saved + 1
    <2>1. /\ id \in RunIds /\ k \in 1..N /\ SaveRow(i, k) /\ OnlyMoves(i)
          /\ work'[i].run_id = id /\ work'[i].raws = work[i].raws
          /\ work'[i].saved > 0 /\ TypeOK
      BY <1>2, SavePlaces DEF Consistent
    <2>2. reconciliation_runs[id][k] = NULL /\ trade_breaks[id][k] = {}
      BY <1>2, <2>1 DEF RowsInOrder
    <2>3. \A x \in RunIds, m \in 1..N : <<x, m>> # <<id, k>> =>
                 /\ reconciliation_runs'[x][m] = reconciliation_runs[x][m]
                 /\ trade_breaks'[x][m] = trade_breaks[x][m]
      BY <2>1, SaveWrites
    <2>4. \A x \in RunIds, m \in 1..N :
            /\ trade_breaks[x][m] \subseteq trade_breaks'[x][m]
            /\ reconciliation_runs[x][m] # NULL =>
                  reconciliation_runs'[x][m] = reconciliation_runs[x][m]
      BY <2>2, <2>3
    <2>5. \A j \in Invocations, x \in RunIds : Wrote(j, x) =>
            /\ work'[j].run_id = x /\ work'[j].saved > 0
            /\ work'[j].raws = work[j].raws
      BY <2>1 DEF OnlyMoves, Wrote
    <2> QED
      BY <2>4, <2>5, StatesStay DEF Grows
  <1> QED
    BY <1>1, <1>2, OnlySavingWrites

\* Rows keep their order and their breaks.
LEMMA RowsStayInOrder ==
    ASSUME Consistent, RowsInOrder, [Next]_vars
    PROVE  RowsInOrder'
  <1>1. CASE Unwritten
    BY <1>1 DEF Unwritten, RowsInOrder
  <1>2. ASSUME NEW i \in Invocations, persist_run(i),
               reconciliation_runs[work[i].run_id][work[i].saved + 1] = NULL
        PROVE  RowsInOrder'
    <2> DEFINE id == work[i].run_id
               k  == work[i].saved + 1
    <2>1. id \in RunIds /\ k \in 1..N /\ SaveRow(i, k) /\ TypeOK
      BY <1>2, SavePlaces DEF Consistent
    <2>2. /\ row_id_seq' = row_id_seq + 1 /\ row_id_seq \in Nat
          /\ reconciliation_runs'[id][k] # NULL
          /\ reconciliation_runs'[id][k].row_id = row_id_seq'
          /\ reconciliation_runs'[id][k].completed_at \in RunIds
          /\ \A x \in RunIds, m \in 1..N : <<x, m>> # <<id, k>> =>
                /\ reconciliation_runs'[x][m] = reconciliation_runs[x][m]
                /\ trade_breaks'[x][m] = trade_breaks[x][m]
      BY <2>1, SaveWrites DEF TypeOK
    <2> HIDE DEF id, k
    <2>3. ASSUME NEW x \in RunIds, NEW m \in 1..N, reconciliation_runs[x][m] # NULL
          PROVE  reconciliation_runs[x][m].row_id \in Nat
      BY <2>1, <2>3 DEF TypeOK, Row
    <2>4. ASSUME NEW x \in RunIds, NEW m \in 1..N
          PROVE  /\ reconciliation_runs'[x][m] = NULL => trade_breaks'[x][m] = {}
                 /\ reconciliation_runs'[x][m] # NULL =>
                       /\ reconciliation_runs'[x][m].row_id <= row_id_seq'
                       /\ reconciliation_runs'[x][m].completed_at \in RunIds
      <3>1. CASE <<x, m>> = <<id, k>>
        BY <2>2, <3>1
      <3>2. CASE <<x, m>> # <<id, k>>
        BY <2>2, <2>3, <3>2 DEF RowsInOrder
      <3> QED
        BY <3>1, <3>2
    <2>5. ASSUME NEW x \in RunIds, NEW y \in RunIds, NEW j \in 1..N, NEW m \in 1..N,
                 reconciliation_runs'[x][j] # NULL, reconciliation_runs'[y][m] # NULL,
                 reconciliation_runs'[x][j].row_id = reconciliation_runs'[y][m].row_id
          PROVE  x = y /\ j = m
      <3>1. ASSUME NEW z \in RunIds, NEW n \in 1..N, <<z, n>> # <<id, k>>,
                   reconciliation_runs'[z][n] # NULL
            PROVE  /\ reconciliation_runs'[z][n] = reconciliation_runs[z][n]
                   /\ reconciliation_runs[z][n].row_id <= row_id_seq
                   /\ reconciliation_runs[z][n].row_id \in Nat
        BY <2>2, <2>3, <3>1 DEF RowsInOrder
      <3>2. CASE <<x, j>> = <<id, k>> /\ <<y, m>> # <<id, k>>
        BY <2>2, <2>5, <3>1, <3>2
      <3>3. CASE <<x, j>> # <<id, k>> /\ <<y, m>> = <<id, k>>
        BY <2>2, <2>5, <3>1, <3>3
      <3>4. CASE <<x, j>> # <<id, k>> /\ <<y, m>> # <<id, k>>
        BY <2>5, <3>1, <3>4 DEF RowsInOrder
      <3> QED
        BY <3>2, <3>3, <3>4
    <2> QED
      BY <2>4, <2>5 DEF RowsInOrder
  <1> QED
    BY <1>1, <1>2, OnlySavingWrites

\* The second read refuses what the engine cannot evaluate.
LEMMA RefusedUnlessEvaluable ==
    ASSUME TypeOK, NEW i \in Invocations, conflict_documents(i), work'[i].pc = "select"
    PROVE  ~EngineRaises(work'[i].raws)
  <1> DEFINE raws == work[i].raws \cup ReadOrder[2]
  <1>1. work'[i].raws = raws
    BY SecondReadMoves DEF ReadOrder
  <1>2. CASE Goto(i, "refused")
    BY <1>2, GotoMoves DEF Points
  <1>3. CASE ~EngineRaises(raws)
    BY <1>1, <1>3
  <1> QED
    BY <1>2, <1>3 DEF conflict_documents

\* Only evaluations that succeeded reach the tables.
LEMMA EvaluableKept ==
    ASSUME Consistent, \A i \in Invocations : Evaluable(i), [Next]_vars
    PROVE  \A i \in Invocations : Evaluable(i)'
  <1>1. TypeOK
    BY DEF Consistent
  <1>2. ASSUME NEW i \in Invocations, OnlyMoves(i),
               \/ work'[i].pc \notin {"select", "insert", "persist", "done"} /\ work'[i].saved = 0
               \/ ~EngineRaises(work'[i].raws)
               \/ /\ work'[i].raws = work[i].raws
                  /\ work[i].pc \in {"select", "insert", "persist", "done"} \/ work[i].saved > 0
        PROVE  \A j \in Invocations : Evaluable(j)'
    <2>1. ASSUME NEW j \in Invocations, j # i PROVE Evaluable(j)'
      <3>1. work'[j] = work[j]
        BY <1>2, <2>1 DEF OnlyMoves
      <3> QED
        BY <3>1 DEF Evaluable, EngineRaises, Evaluated, Group
    <2>2. Evaluable(i)'
      <3>1. CASE work'[i].pc \notin {"select", "insert", "persist", "done"} /\ work'[i].saved = 0
        BY <3>1 DEF Evaluable
      <3>2. CASE ~EngineRaises(work'[i].raws)
        BY <3>2 DEF Evaluable, EngineRaises, Evaluated, Group
      <3>3. CASE /\ work'[i].raws = work[i].raws
                 /\ work[i].pc \in {"select", "insert", "persist", "done"} \/ work[i].saved > 0
        <4>1. ~EngineRaises(work[i].raws)
          BY <3>3 DEF Evaluable
        <4>2. ~EngineRaises(work'[i].raws)
          BY <3>3, <4>1
        <4> QED
          BY <3>2, <4>2
      <3> QED
        BY <1>2, <3>1, <3>2, <3>3
    <2> QED
      BY <2>1, <2>2
  <1>3. ASSUME NEW i \in Invocations, Step(i) \/ die(i)
        PROVE  \A j \in Invocations : Evaluable(j)'
    <2>1. Located(i) /\ work[i].saved \in Nat
      BY RunsAssumption DEF Consistent, TypeOK, Work
    <2>2. CASE run_reconciliation(i)
      <3>1. OnlyMoves(i) /\ work'[i].pc = "inbox" /\ work'[i].saved = 0
        BY <1>1, <2>1, <2>2, StartMoves DEF run_reconciliation, Located
      <3> QED
        BY <1>2, <3>1
    <2>3. CASE observation_documents(i)
      <3>1. OnlyMoves(i) /\ work'[i].pc = "quarantine" /\ work'[i].saved = 0
        BY <1>1, <2>1, <2>3, FirstReadMoves DEF observation_documents, Located
      <3> QED
        BY <1>2, <3>1
    <2>4. CASE conflict_documents(i)
      <3>1. /\ OnlyMoves(i) /\ work'[i].saved = 0
            /\ work'[i].pc = "refused" \/ work'[i].pc = "select"
        BY <1>1, <2>1, <2>4, SecondReadMoves DEF conflict_documents, Located
      <3> QED
        BY <1>1, <1>2, <2>4, <3>1, RefusedUnlessEvaluable
    <2>5. CASE select_existing_states(i)
      <3>1. OnlyMoves(i) /\ work'[i].raws = work[i].raws /\ work[i].pc = "select"
        BY <1>1, <2>5, SelectMoves DEF select_existing_states
      <3> QED
        BY <1>2, <3>1
    <2>6. CASE insert_missing_states(i)
      <3>1. (Goto(i, "persist") \/ Goto(i, "refused")) /\ work[i].pc = "insert"
        BY <2>6 DEF insert_missing_states
      <3>2. OnlyMoves(i) /\ work'[i].raws = work[i].raws
        BY <1>1, <3>1, GotoMoves DEF Points
      <3> QED
        BY <1>2, <3>1, <3>2
    <2>7. CASE persist_run(i)
      <3>1. work[i].pc = "persist" /\ work[i].saved < N
        BY <2>1, <2>7 DEF persist_run, Located
      <3>2. SaveRow(i, work[i].saved + 1) \/ Goto(i, "refused")
        BY <2>7 DEF persist_run
      <3>3. OnlyMoves(i) /\ work'[i].raws = work[i].raws
        BY <1>1, <3>1, <3>2, GotoMoves, SaveMoves DEF Points
      <3> QED
        BY <1>2, <3>1, <3>3
    <2>8. CASE die(i)
      <3>1. /\ OnlyMoves(i) /\ work'[i].raws = work[i].raws
            /\ work'[i].saved = work[i].saved /\ work'[i].pc = "killed"
        BY <1>1, <2>8, GotoMoves DEF die, Points
      <3>2. CASE work[i].saved > 0
        BY <1>2, <3>1, <3>2
      <3>3. CASE work[i].saved = 0
        BY <1>2, <3>1, <3>3
      <3> QED
        BY <2>1, <3>2, <3>3
    <2> QED
      BY <1>3, <2>2, <2>3, <2>4, <2>5, <2>6, <2>7, <2>8 DEF Step
  <1>4. CASE Load \/ Tick \/ UNCHANGED vars
    <2>1. work' = work
      BY <1>4 DEF Load, Tick, vars
    <2> QED
      BY <2>1 DEF Evaluable, EngineRaises, Evaluated, Group
  <1> QED
    BY <1>3, <1>4 DEF Next

\* Before anything has happened no row has a number and nothing was evaluated.
LEMMA InitTables == Init => TablesInv
  <1> SUFFICES ASSUME Init PROVE TablesInv
    OBVIOUS
  <1>1. Consistent
    BY InitConsistent
  <1>2. RowsInOrder
    BY DEF Init, RowsInOrder
  <1>3. \A i \in Invocations : Evaluable(i)
    BY DEF Init, Evaluable
  <1> QED
    BY <1>1, <1>2, <1>3 DEF TablesInv

\* Every step keeps the tables so.
LEMMA NextTables == TablesInv /\ [Next]_vars => TablesInv' /\ Grows
  BY NextConsistent, RowsStayInOrder, EvaluableKept, TablesGrow DEF TablesInv

-----------------------------------------------------------------------------
\* What the queries return.

AllRows == UNION {Rows(id) : id \in RunIds}

\* A row of the table, and the run and portfolio it is the row of.
LEMMA RowIsSomewhere ==
    ASSUME TablesInv, NEW row \in AllRows
    PROVE  /\ \E id \in RunIds, k \in 1..N :
                 reconciliation_runs[id][k] # NULL /\ reconciliation_runs[id][k] = row
           /\ row.completed_at \in Nat /\ row.completed_at <= MaxSecond
           /\ row.row_id \in Nat /\ row.row_id <= row_id_seq
           /\ \A other \in AllRows : other.row_id = row.row_id => other = row
  <1>1. ASSUME NEW r \in AllRows
        PROVE  \E id \in RunIds, k \in 1..N :
                 reconciliation_runs[id][k] # NULL /\ reconciliation_runs[id][k] = r
    BY DEF AllRows, Rows
  <1>2. PICK id \in RunIds, k \in 1..N :
          reconciliation_runs[id][k] # NULL /\ reconciliation_runs[id][k] = row
    BY <1>1
  <1>3. row \in Row
    BY <1>2 DEF TablesInv, Consistent, TypeOK
  <1>4. row.row_id <= row_id_seq /\ row.completed_at \in RunIds
    BY <1>2 DEF TablesInv, RowsInOrder
  <1>5. ASSUME NEW other \in AllRows, other.row_id = row.row_id PROVE other = row
    <2>1. PICK x \in RunIds, m \in 1..N :
            reconciliation_runs[x][m] # NULL /\ reconciliation_runs[x][m] = other
      BY <1>1
    <2>2. x = id /\ m = k
      BY <1>2, <1>5, <2>1 DEF TablesInv, RowsInOrder
    <2> QED
      BY <1>2, <2>1, <2>2
  <1> QED
    BY <1>2, <1>3, <1>4, <1>5, RunsAssumption DEF Row, RunIds

\* ORDER BY completed_at DESC, row_id DESC has a first row: the order is total
\* because no row number is given twice.
LEMMA NewestExists ==
    ASSUME TablesInv, AllRows # {}
    PROVE  \E row \in AllRows : \A other \in AllRows \ {row} : Later(row, other)
  <1> DEFINE Age(row) == MaxSecond - row.completed_at
             Ages == {Age(row) : row \in AllRows}
  <1>1. ASSUME NEW row \in AllRows
        PROVE  /\ Age(row) \in Nat /\ row.completed_at = MaxSecond - Age(row)
               /\ row_id_seq - row.row_id \in Nat
               /\ row.row_id \in Nat /\ row_id_seq \in Nat
    BY <1>1, RowIsSomewhere, RunsAssumption DEF TablesInv, Consistent, TypeOK
  <1>2. PICK a \in Ages : \A b \in Ages : ~(b < a)
    <2>1. Ages \in SUBSET Nat /\ Ages # {}
      BY <1>1
    <2> HIDE DEF Ages
    <2> QED
      BY <2>1, LeastNumber
  <1> DEFINE Young == {row \in AllRows : Age(row) = a}
             Behind == {row_id_seq - row.row_id : row \in Young}
  <1>3. PICK n \in Behind : \A m \in Behind : ~(m < n)
    <2>1. Behind \in SUBSET Nat /\ Behind # {}
      BY <1>1, <1>2
    <2> HIDE DEF Behind
    <2> QED
      BY <2>1, LeastNumber
  <1>4. PICK row \in AllRows : Age(row) = a /\ row_id_seq - row.row_id = n
    BY <1>3
  <1>5. ASSUME NEW other \in AllRows \ {row} PROVE Later(row, other)
    <2>1. ~(Age(other) < a) /\ Age(other) \in Nat /\ a \in Nat
      BY <1>1, <1>2, <1>4
    <2>2. CASE Age(other) = a
      <3>1. ~(row_id_seq - other.row_id < n)
        BY <1>3, <2>2
      <3>2. other.row_id # row.row_id
        BY RowIsSomewhere
      <3> QED
        BY <1>1, <1>4, <2>2, <3>1, <3>2, RunsAssumption DEF Later
    <2>3. CASE Age(other) > a
      BY <1>1, <1>4, <2>3, RowIsSomewhere, RunsAssumption DEF Later
    <2> QED
      BY <2>1, <2>2, <2>3
  <1> QED
    BY <1>5

\* The run has a row.
HasRows(id) == \E k \in 1..N : reconciliation_runs[id][k] # NULL

\* The latest run is a run with a row, unless there is no row at all.
LEMMA LatestIsStored ==
    ASSUME TablesInv
    PROVE  \/ LatestRunId = NULL /\ \A id \in RunIds : ~HasRows(id)
           \/ LatestRunId \in RunIds /\ HasRows(LatestRunId)
  <1>1. CASE AllRows = {}
    BY <1>1 DEF LatestRunId, AllRows, Rows, HasRows
  <1>2. CASE AllRows # {}
    <2> DEFINE newest == CHOOSE row \in AllRows :
                             \A other \in AllRows \ {row} : Later(row, other)
    <2>1. newest \in AllRows
      BY <1>2, NewestExists
    <2>2. LatestRunId = CHOOSE id \in RunIds : newest \in Rows(id)
      BY <1>2 DEF LatestRunId, AllRows
    <2> HIDE DEF newest
    <2>3. LatestRunId \in RunIds /\ newest \in Rows(LatestRunId)
      BY <2>1, <2>2 DEF AllRows
    <2> QED
      BY <2>3 DEF Rows, HasRows
  <1> QED
    BY <1>1, <1>2

\* A break of a run is one of the breaks its writer found; its trade is stored.
LEMMA BreaksAreStored ==
    ASSUME TablesInv, NEW id \in RunIds, NEW b \in BreaksOfRun(id)
    PROVE  /\ b \in Trades \X TradeBreaks /\ canonical[b[1]] # NULL
           /\ HasRows(id)
  <1>1. PICK k \in 1..N : b \in trade_breaks[id][k]
    BY DEF BreaksOfRun
  <1>2. reconciliation_runs[id][k] # NULL
    BY <1>1 DEF TablesInv, RowsInOrder
  <1>3. PICK i \in Invocations : Wrote(i, id)
    BY <1>2 DEF TablesInv, Consistent, OneWriter
  <1>4. work[i] \in Work /\ Located(i) /\ RowsOK(i)
    BY DEF TablesInv, Consistent, TypeOK
  <1>5. b \in BreaksIn(work[i].raws, k)
    BY <1>1, <1>2, <1>3, <1>4 DEF RowsOK, Wrote
  <1>6. b[1] \in Evaluated(work[i].raws)
    BY <1>5 DEF BreaksIn, TradesIn
  <1>7. canonical[b[1]] # NULL
    BY <1>3, <1>4, <1>6 DEF Located, Wrote
  <1>8. b \in Trades \X TradeBreaks
    BY <1>4, <1>5, EntryType DEF Work
  <1> QED
    BY <1>2, <1>7, <1>8 DEF HasRows

\* A run has finitely many breaks.
LEMMA BreaksAreFinite ==
    ASSUME TablesInv, NEW id \in RunIds
    PROVE  /\ BreaksOfRun(id) \in SUBSET (Trades \X TradeBreaks)
           /\ IsFiniteSet(BreaksOfRun(id)) /\ Cardinality(BreaksOfRun(id)) \in Nat
  <1>1. BreaksOfRun(id) \in SUBSET (Trades \X TradeBreaks)
    BY BreaksAreStored
  <1>2. IsFiniteSet(Trades \X TradeBreaks)
    BY ReportingAssumption, FS_Product
  <1> QED
    BY <1>1, <1>2, FS_Subset, FS_CardinalityType

\* The breaks of a run only become more.
LEMMA BreaksStay ==
    ASSUME Grows, NEW id \in RunIds
    PROVE  BreaksOfRun(id) \subseteq BreaksOfRun(id)'
  BY DEF Grows, BreaksOfRun

-----------------------------------------------------------------------------
\* The page.

\* The page has its fields, is about known runs and ran into no missing row.
Formed ==
    /\ DOMAIN page = DOMAIN Blank
    /\ page.pc \in PagePoints \ {"broken link"}
    /\ page.run_id \in RunIds \cup {NULL}
    /\ page.listed_run \in RunIds \cup {NULL}
    /\ page.trade_run \in RunIds \cup {NULL}
    /\ page.related \subseteq Trades \X TradeBreaks

\* Its list is of breaks of the run it lists, which are still there, and empty
\* before it is read.
Listing ==
    /\ page.listed # {} => /\ page.listed_run \in RunIds
                           /\ page.listed \subseteq BreaksOfRun(page.listed_run)
    /\ page.pc = "list" => page.listed_run \in RunIds
    /\ page.pc \in {"latest", "products", "runs", "families", "listed run", "list"} =>
          page.listed = {} /\ page.selected = NULL

\* What is opened is in the list.  A page shown in full has the opened break among
\* those of its trade, unless another run came between or the limit cut it off.
Opening ==
    /\ page.selected \in page.listed \cup {NULL}
    /\ page.pc \in {"trade", "trade run", "trade breaks"} => page.selected \in page.listed
    /\ page.pc = "trade breaks" => page.trade_run \in RunIds
    /\ page.pc = "shown" /\ page.selected # NULL =>
          /\ page.trade_run \in RunIds
          /\ \/ page.selected \in page.related
             \/ page.trade_run # page.listed_run
             \/ Cardinality(BreaksOfRun(page.trade_run)) > PageLimit

\* What the rows read so far count.
RowBreaks == UNION {entry.breaks : entry \in page.runs}
RowTrades == UNION {entry.trades : entry \in page.runs}
RowBroken == UNION {entry.broken : entry \in page.runs}

\* The products count every trade of the run, which one invocation has begun to
\* write: its states were stored before its first row.
ProductsCover ==
    /\ SumFunction(page.trades_by_product) \in Nat
    /\ \E i \in Invocations :
          /\ Wrote(i, page.run_id)
          /\ Cardinality(Evaluated(work[i].raws)) <= SumFunction(page.trades_by_product)

\* The summary, query by query.
Summing ==
    /\ page.pc \in {"latest", "products", "runs"} => page.runs = {}
    /\ page.pc = "products" /\ page.run_id # NULL =>
          \E i \in Invocations : Wrote(i, page.run_id)
    /\ page.pc = "runs" => page.run_id \in RunIds /\ ProductsCover
    /\ page.pc = "families" => page.run_id \in RunIds /\ RowBreaks \subseteq BreaksOfRun(page.run_id)
    /\ page.pc \notin {"latest", "products", "runs"} /\ page.runs # {} =>
          /\ Cardinality(RowTrades) <= SumFunction(page.trades_by_product)
          /\ Cardinality(RowBroken) <= Cardinality(RowBreaks)
    /\ page.pc \notin {"latest", "products", "runs", "families"} /\ page.runs # {} =>
          Cardinality(RowBreaks) <= SumFunction(page.breaks_by_family)

\* The inductive invariant of the pages.
PageInv == TablesInv /\ Formed /\ Listing /\ Opening /\ Summing

\* Every run has finitely many breaks.
FiniteRuns ==
    \A id \in RunIds : IsFiniteSet(BreaksOfRun(id)) /\ Cardinality(BreaksOfRun(id)) \in Nat

\* So in every state.
LEMMA RunsAreFinite == TablesInv => FiniteRuns
  BY BreaksAreFinite DEF FiniteRuns

\* Writers at work disturb no page: what it has read is still there.
LEMMA WritersKeepPages ==
    ASSUME PageInv, TablesInv', Grows, UNCHANGED page
    PROVE  PageInv'
  <1>1. Formed'
    BY DEF PageInv, Formed
  <1>2. Listing'
    <2>1. page.listed # {} => /\ page.listed_run \in RunIds
                              /\ page.listed \subseteq BreaksOfRun(page.listed_run)'
      BY BreaksStay DEF PageInv, Listing
    <2> QED
      BY <2>1 DEF PageInv, Listing, BreaksOfRun
  <1>3. Opening'
    <2>1. ASSUME page.pc = "shown", page.selected # NULL,
                 Cardinality(BreaksOfRun(page.trade_run)) > PageLimit
          PROVE  Cardinality(BreaksOfRun(page.trade_run)') > PageLimit
      <3>1. page.trade_run \in RunIds
        BY <2>1 DEF PageInv, Opening
      <3> DEFINE old == BreaksOfRun(page.trade_run)
                 new == BreaksOfRun(page.trade_run)'
      <3>2. old \in SUBSET new
        BY <3>1, BreaksStay
      <3>3. Cardinality(old) \in Nat
        BY <3>1, BreaksAreFinite DEF PageInv
      <3>4. IsFiniteSet(new) /\ Cardinality(new) \in Nat
        <4>1. FiniteRuns'
          BY RunsAreFinite, PTL
        <4> QED
          BY <3>1, <4>1 DEF FiniteRuns
      <3> HIDE DEF old, new
      <3>5. Cardinality(old) <= Cardinality(new)
        BY <3>2, <3>4, FS_Subset
      <3> QED
        BY <2>1, <3>3, <3>4, <3>5, ReportingAssumption DEF old, new
    <2> QED
      BY <2>1 DEF PageInv, Opening, BreaksOfRun
  <1>4. Summing'
    <2>1. ASSUME NEW i \in Invocations, page.run_id \in RunIds, Wrote(i, page.run_id)
          PROVE  /\ Wrote(i, page.run_id)'
                 /\ Evaluated(work[i].raws)' = Evaluated(work[i].raws)
      BY <2>1 DEF Grows, Wrote, Evaluated
    <2>2. page.pc = "products" /\ page.run_id # NULL =>
             \E i \in Invocations : Wrote(i, page.run_id)'
      BY <2>1 DEF PageInv, Formed, Summing
    <2>3. page.pc = "runs" => page.run_id \in RunIds /\ ProductsCover'
      BY <2>1 DEF PageInv, Summing, ProductsCover
    <2>4. page.pc = "families" => /\ page.run_id \in RunIds
                                  /\ RowBreaks \subseteq BreaksOfRun(page.run_id)'
      BY BreaksStay DEF PageInv, Summing
    <2>5. UNCHANGED <<RowBreaks, RowTrades, RowBroken>>
      BY DEF RowBreaks, RowTrades, RowBroken
    <2> QED
      BY <2>2, <2>3, <2>4, <2>5 DEF PageInv, Summing, BreaksOfRun
  <1> QED
    BY <1>1, <1>2, <1>3, <1>4 DEF PageInv

-----------------------------------------------------------------------------
\* The queries of the page, one by one.

\* A query changes no table.
LEMMA QueriesOnlyRead ==
    ASSUME PageInv, UNCHANGED vars
    PROVE  /\ TablesInv' /\ trade_breaks' = trade_breaks /\ work' = work
           /\ reconciliation_runs' = reconciliation_runs /\ canonical' = canonical
  BY NextTables DEF PageInv, vars, tables

\* The queries of the summary come before the list.
LEMMA SummaryLeavesTheList ==
    ASSUME PageInv, page.pc \in {"latest", "products", "runs", "families"},
           page'.pc \in {"products", "runs", "families", "listed run"},
           page'.listed = page.listed, page'.selected = page.selected
    PROVE  Listing' /\ Opening'
  BY DEF PageInv, Listing, Opening

\* The other queries leave the summary as it is.
LEMMA ListLeavesTheSummary ==
    ASSUME PageInv, page.pc \notin {"latest", "products", "runs", "families"},
           page'.pc \notin {"latest", "products", "runs", "families"},
           page'.runs = page.runs, page'.trades_by_product = page.trades_by_product,
           page'.breaks_by_family = page.breaks_by_family
    PROVE  Summing'
  <1>1. UNCHANGED <<RowBreaks, RowTrades, RowBroken>>
    BY DEF RowBreaks, RowTrades, RowBroken
  <1> QED
    BY <1>1 DEF PageInv, Summing

\* The latest run has been written to by one invocation.
LEMMA LatestOK ==
    ASSUME PageInv, latest_completed_run_id
    PROVE  PageInv'
  <1>1. UNCHANGED vars /\ TablesInv' /\ work' = work
    BY QueriesOnlyRead DEF latest_completed_run_id, Reads
  <1>2. /\ page.pc = "latest" /\ DOMAIN page' = DOMAIN Blank
        /\ page'.pc = "products" /\ page'.run_id = LatestRunId
        /\ page'.listed_run = page.listed_run /\ page'.trade_run = page.trade_run
        /\ page'.listed = page.listed /\ page'.related = page.related
        /\ page'.selected = page.selected /\ page'.runs = page.runs
    BY DEF latest_completed_run_id, Reads, PageInv, Formed, Blank
  <1>3. \/ LatestRunId = NULL
        \/ LatestRunId \in RunIds /\ \E i \in Invocations : Wrote(i, LatestRunId)
    BY LatestIsStored DEF PageInv, TablesInv, Consistent, OneWriter, HasRows
  <1>4. Formed'
    BY <1>2, <1>3 DEF PageInv, Formed, PagePoints
  <1>5. Listing' /\ Opening'
    BY <1>2, SummaryLeavesTheList
  <1>6. Summing'
    BY <1>1, <1>2, <1>3 DEF PageInv, Summing, Wrote
  <1> QED
    BY <1>1, <1>4, <1>5, <1>6 DEF PageInv

\* An invocation that has written evaluated only trades that are stored.
LEMMA WrittenAreStored ==
    ASSUME TablesInv, NEW i \in Invocations, NEW id \in RunIds, Wrote(i, id)
    PROVE  /\ Evaluated(work[i].raws) \in SUBSET {t \in Trades : canonical[t] # NULL}
           /\ IsFiniteSet(Evaluated(work[i].raws))
           /\ Cardinality(Evaluated(work[i].raws)) \in Nat
  <1>1. work[i].raws \in SUBSET Observations /\ Located(i)
    BY DEF TablesInv, Consistent, TypeOK, Work
  <1>2. Evaluated(work[i].raws) \in SUBSET Trades
    BY <1>1, RunsAssumption DEF Evaluated
  <1>3. \A t \in Evaluated(work[i].raws) : canonical[t] # NULL
    BY <1>1 DEF Located, Wrote
  <1> QED
    BY <1>2, <1>3, ReportingAssumption, FS_Subset, FS_CardinalityType

\* The products cover every trade of the run the summary is about, rows to come
\* included.
LEMMA ProductsOK ==
    ASSUME PageInv, product_counts
    PROVE  PageInv'
  <1> DEFINE stored == {t \in Trades : canonical[t] # NULL}
  <1>1. UNCHANGED vars /\ TablesInv' /\ work' = work
    BY QueriesOnlyRead DEF product_counts, Reads
  <1>2. page' = [page EXCEPT !.pc = IF page.run_id = NULL THEN "listed run" ELSE "runs",
                             !.trades_by_product = CountBy(stored, product_of)]
    BY DEF product_counts, Reads, CountBy
  <1> HIDE DEF stored
  <1>3. /\ page.pc = "products" /\ DOMAIN page' = DOMAIN Blank
        /\ page'.pc = IF page.run_id = NULL THEN "listed run" ELSE "runs"
        /\ page'.trades_by_product = CountBy(stored, product_of)
        /\ page'.run_id = page.run_id
        /\ page'.listed_run = page.listed_run /\ page'.trade_run = page.trade_run
        /\ page'.listed = page.listed /\ page'.related = page.related
        /\ page'.selected = page.selected /\ page'.runs = page.runs
    BY <1>2 DEF product_counts, PageInv, Formed, Blank
  <1>4. Formed'
    BY <1>3 DEF PageInv, Formed, PagePoints
  <1>5. Listing' /\ Opening'
    BY <1>3, SummaryLeavesTheList
  <1>6. ASSUME page.run_id # NULL PROVE page.run_id \in RunIds /\ ProductsCover'
    <2>1. PICK i \in Invocations : Wrote(i, page.run_id)
      BY <1>3, <1>6 DEF PageInv, Summing
    <2>2. page.run_id \in RunIds
      BY <1>6 DEF PageInv, Formed
    <2>3. /\ Evaluated(work[i].raws) \in SUBSET stored
          /\ Cardinality(Evaluated(work[i].raws)) \in Nat
      BY <2>1, <2>2, WrittenAreStored DEF PageInv, stored
    <2>4. IsFiniteSet(stored)
      BY ReportingAssumption, FS_Subset DEF stored
    <2>5. Cardinality(Evaluated(work[i].raws)) <= Cardinality(stored)
      BY <2>3, <2>4, FS_Subset
    <2>6. /\ SumFunction(CountBy(stored, product_of)) = Cardinality(stored)
          /\ Cardinality(stored) \in Nat
      BY <2>4, CountsAddUp, FS_CardinalityType
    <2>7. /\ Cardinality(Evaluated(work[i].raws)) <= SumFunction(page'.trades_by_product)
          /\ SumFunction(page'.trades_by_product) \in Nat
      BY <1>3, <2>5, <2>6
    <2>8. Wrote(i, page.run_id)' /\ Evaluated(work[i].raws)' = Evaluated(work[i].raws)
      BY <1>1, <1>3, <2>1 DEF Wrote, Evaluated
    <2> QED
      BY <1>3, <2>2, <2>7, <2>8 DEF ProductsCover
  <1>7. Summing'
    BY <1>3, <1>6 DEF PageInv, Summing
  <1> QED
    BY <1>1, <1>4, <1>5, <1>7 DEF PageInv

\* What the rows of a run count is what their writer evaluated, and every broken
\* trade has one of its breaks.
LEMMA RowsAreTheWriters ==
    ASSUME TablesInv, NEW id \in RunIds, NEW i \in Invocations, Wrote(i, id),
           NEW row \in Rows(id)
    PROVE  /\ row.entry.trades \subseteq Evaluated(work[i].raws)
           /\ row.entry.breaks \subseteq BreaksOfRun(id)
           /\ \A t \in row.entry.broken : \E b \in row.entry.breaks : b[1] = t
  <1>1. PICK k \in 1..N : row = reconciliation_runs[id][k] /\ row # NULL
    BY DEF Rows
  <1>2. work[i].raws \in SUBSET Observations /\ RowsOK(i) /\ ~EngineRaises(work[i].raws)
    BY DEF TablesInv, Consistent, TypeOK, Work, Evaluable, Wrote
  <1>3. /\ row.entry = Entry(work[i].raws, k)
        /\ trade_breaks[id][k] = BreaksIn(work[i].raws, k)
    BY <1>1, <1>2 DEF RowsOK, Wrote
  <1>4. /\ row.entry.trades \subseteq Evaluated(work[i].raws)
        /\ row.entry.breaks = BreaksIn(work[i].raws, k)
    BY <1>2, <1>3, EntryType
  <1>5. row.entry.breaks \subseteq BreaksOfRun(id)
    BY <1>3, <1>4 DEF BreaksOfRun
  <1>6. row.entry.broken =
          {t \in TradesIn(work[i].raws, k) : breaks_of[Group(work[i].raws, t)] # {}}
    BY <1>3 DEF Entry
  <1>7. ASSUME NEW t \in row.entry.broken PROVE \E b \in row.entry.breaks : b[1] = t
    <2>1. /\ t \in TradesIn(work[i].raws, k) /\ t \in Evaluated(work[i].raws)
          /\ breaks_of[Group(work[i].raws, t)] # {}
      BY <1>6 DEF TradesIn
    <2>2. Group(work[i].raws, t) \in SUBSET Observations
      BY <1>2 DEF Group
    <2>3. breaks_of[Group(work[i].raws, t)] \in SUBSET TradeBreaks
      BY <1>2, <2>1, <2>2, RunsAssumption DEF EngineRaises
    <2>4. PICK d \in TradeBreaks : d \in breaks_of[Group(work[i].raws, t)]
      BY <2>1, <2>3
    <2>5. <<t, d>> \in BreaksIn(work[i].raws, k)
      BY <2>1, <2>4 DEF BreaksIn
    <2> QED
      BY <1>4, <2>5
  <1> QED
    BY <1>4, <1>5, <1>7

\* A set is no larger than another in which each of its elements has a pair of
\* its own.
LEMMA PairsCover ==
    ASSUME NEW R, NEW B, IsFiniteSet(B), \A t \in R : \E b \in B : b[1] = t
    PROVE  Cardinality(R) <= Cardinality(B)
  <1> DEFINE f == [t \in R |-> CHOOSE b \in B : b[1] = t]
  <1>1. \A t \in R : f[t] \in B /\ f[t][1] = t
    OBVIOUS
  <1>2. f \in Injection(R, B)
    BY <1>1 DEF Injection, IsInjective
  <1> HIDE DEF f
  <1> QED
    BY <1>2, FS_Injection

\* The rows that are there count no trade the products lack, and no more broken
\* trades than breaks.
LEMMA RunsReadOK ==
    ASSUME PageInv, runs_by_run_id
    PROVE  PageInv'
  <1>1. UNCHANGED vars /\ TablesInv' /\ trade_breaks' = trade_breaks
    BY QueriesOnlyRead DEF runs_by_run_id, Reads
  <1>2. /\ page.pc = "runs" /\ DOMAIN page' = DOMAIN Blank
        /\ page'.pc = "families" /\ page'.runs = {row.entry : row \in Rows(page.run_id)}
        /\ page'.run_id = page.run_id /\ page'.trades_by_product = page.trades_by_product
        /\ page'.listed_run = page.listed_run /\ page'.trade_run = page.trade_run
        /\ page'.listed = page.listed /\ page'.related = page.related
        /\ page'.selected = page.selected
    BY DEF runs_by_run_id, Reads, PageInv, Formed, Blank
  <1>3. Formed'
    BY <1>2 DEF PageInv, Formed, PagePoints
  <1>4. Listing' /\ Opening'
    BY <1>2, SummaryLeavesTheList
  <1>5. page.run_id \in RunIds /\ TablesInv
    BY <1>2 DEF PageInv, Summing
  <1>6. PICK i \in Invocations :
          /\ Wrote(i, page.run_id)
          /\ Cardinality(Evaluated(work[i].raws)) <= SumFunction(page.trades_by_product)
    BY <1>2 DEF PageInv, Summing, ProductsCover
  <1>7. ASSUME NEW entry \in page'.runs
        PROVE  /\ entry.trades \subseteq Evaluated(work[i].raws)
               /\ entry.breaks \subseteq BreaksOfRun(page.run_id)
               /\ \A t \in entry.broken : \E b \in entry.breaks : b[1] = t
    BY <1>2, <1>5, <1>6, RowsAreTheWriters
  <1>8. /\ RowTrades' \in SUBSET Evaluated(work[i].raws)
        /\ RowBreaks' \in SUBSET BreaksOfRun(page.run_id)
        /\ \A t \in RowBroken' : \E b \in RowBreaks' : b[1] = t
    BY <1>7 DEF RowTrades, RowBreaks, RowBroken
  <1>9. Cardinality(RowTrades') <= SumFunction(page'.trades_by_product)
    <2>1. /\ IsFiniteSet(Evaluated(work[i].raws))
          /\ Cardinality(Evaluated(work[i].raws)) \in Nat
      BY <1>5, <1>6, WrittenAreStored
    <2>2. /\ Cardinality(RowTrades') <= Cardinality(Evaluated(work[i].raws))
          /\ Cardinality(RowTrades') \in Nat
      BY <1>8, <2>1, FS_Subset, FS_CardinalityType
    <2>3. SumFunction(page.trades_by_product) \in Nat
      BY <1>2 DEF PageInv, Summing, ProductsCover
    <2> QED
      BY <1>2, <1>6, <2>1, <2>2, <2>3
  <1>10. Cardinality(RowBroken') <= Cardinality(RowBreaks')
    <2>1. IsFiniteSet(RowBreaks')
      BY <1>5, <1>8, BreaksAreFinite, FS_Subset
    <2> QED
      BY <1>8, <2>1, PairsCover
  <1>11. Summing'
    <2>1. BreaksOfRun(page.run_id)' = BreaksOfRun(page.run_id)
      BY <1>1, <1>2 DEF BreaksOfRun
    <2> QED
      BY <1>2, <1>5, <1>8, <1>9, <1>10, <2>1 DEF Summing
  <1> QED
    BY <1>1, <1>3, <1>4, <1>11 DEF PageInv

\* The breaks by family add up to all breaks of the run, those of the rows read
\* before among them.
LEMMA FamiliesOK ==
    ASSUME PageInv, break_family_counts
    PROVE  PageInv'
  <1> DEFINE counted == BreaksOfRun(page.run_id)
             family  == [b \in counted |-> family_of[b[2]]]
  <1>1. UNCHANGED vars /\ TablesInv'
    BY QueriesOnlyRead DEF break_family_counts, Reads
  <1>2. page' = [page EXCEPT !.pc = "listed run", !.breaks_by_family = CountBy(counted, family)]
    <2>1. CountBy(counted, family) =
            [f \in {family_of[b[2]] : b \in counted} |->
                Cardinality({b \in counted : family_of[b[2]] = f})]
      <3>1. {family[b] : b \in counted} = {family_of[b[2]] : b \in counted}
        OBVIOUS
      <3>2. \A f : {b \in counted : family[b] = f} = {b \in counted : family_of[b[2]] = f}
        OBVIOUS
      <3> HIDE DEF family, counted
      <3> QED
        BY <3>1, <3>2 DEF CountBy
    <2> QED
      BY <2>1 DEF break_family_counts, Reads
  <1> HIDE DEF family
  <1>3. /\ page.pc = "families" /\ DOMAIN page' = DOMAIN Blank
        /\ page'.pc = "listed run" /\ page'.breaks_by_family = CountBy(counted, family)
        /\ page'.run_id = page.run_id /\ page'.trades_by_product = page.trades_by_product
        /\ page'.listed_run = page.listed_run /\ page'.trade_run = page.trade_run
        /\ page'.listed = page.listed /\ page'.related = page.related
        /\ page'.selected = page.selected /\ page'.runs = page.runs
    BY <1>2 DEF break_family_counts, PageInv, Formed, Blank
  <1>4. Formed'
    BY <1>3 DEF PageInv, Formed, PagePoints
  <1>5. Listing' /\ Opening'
    BY <1>3, SummaryLeavesTheList
  <1>6. /\ RowBreaks' = RowBreaks /\ RowTrades' = RowTrades /\ RowBroken' = RowBroken
    BY <1>3 DEF RowBreaks, RowTrades, RowBroken
  <1>7. page.run_id \in RunIds /\ RowBreaks \in SUBSET counted
    BY <1>3 DEF PageInv, Summing
  <1>8. IsFiniteSet(counted)
    BY <1>7, BreaksAreFinite DEF PageInv
  <1>9. Cardinality(RowBreaks) <= Cardinality(counted)
    BY <1>7, <1>8, FS_Subset
  <1>10. SumFunction(page'.breaks_by_family) = Cardinality(counted)
    BY <1>3, <1>8, CountsAddUp
  <1> HIDE DEF counted
  <1>11. Summing'
    BY <1>3, <1>6, <1>9, <1>10 DEF PageInv, Summing
  <1> QED
    BY <1>1, <1>4, <1>5, <1>11 DEF PageInv

\* The list is of the latest run, if there is one.
LEMMA BreaksOK ==
    ASSUME PageInv, breaks
    PROVE  PageInv'
  <1>1. UNCHANGED vars /\ TablesInv'
    BY QueriesOnlyRead DEF breaks, Reads
  <1>2. /\ page.pc = "listed run" /\ DOMAIN page' = DOMAIN Blank
        /\ page'.pc = IF LatestRunId = NULL THEN "shown" ELSE "list"
        /\ page'.listed_run = LatestRunId
        /\ page'.run_id = page.run_id /\ page'.trade_run = page.trade_run
        /\ page'.listed = page.listed /\ page'.related = page.related
        /\ page'.selected = page.selected /\ page'.runs = page.runs
        /\ page'.trades_by_product = page.trades_by_product
        /\ page'.breaks_by_family = page.breaks_by_family
    BY DEF breaks, Reads, PageInv, Formed, Blank
  <1>3. LatestRunId \in RunIds \cup {NULL}
    BY LatestIsStored DEF PageInv
  <1>4. Formed'
    BY <1>2, <1>3 DEF PageInv, Formed, PagePoints
  <1>5. page.listed = {} /\ page.selected = NULL
    BY <1>2 DEF PageInv, Listing
  <1>6. Listing' /\ Opening'
    BY <1>2, <1>3, <1>5 DEF Listing, Opening
  <1>7. Summing'
    BY <1>2, ListLeavesTheSummary
  <1> QED
    BY <1>1, <1>4, <1>6, <1>7 DEF PageInv

\* As many of the breaks as the limit admits.
LEMMA LimitedIsPart ==
    ASSUME NEW found, NEW S \in Limited(found)
    PROVE  S \subseteq found /\ (S = found \/ ~(Cardinality(found) <= PageLimit))
  BY DEF Limited

\* The list is of breaks that are there.
LEMMA ListOK ==
    ASSUME PageInv, query_breaks
    PROVE  PageInv'
  <1>1. UNCHANGED vars /\ TablesInv' /\ trade_breaks' = trade_breaks
    BY QueriesOnlyRead DEF query_breaks, Reads
  <1>2. PICK found \in Limited(BreaksOfRun(page.listed_run)) :
          page' = [page EXCEPT !.pc = IF found = {} THEN "shown" ELSE "detail", !.listed = found]
    BY DEF query_breaks, Reads
  <1>3. /\ page.pc = "list" /\ DOMAIN page' = DOMAIN Blank
        /\ page'.pc = IF found = {} THEN "shown" ELSE "detail"
        /\ page'.listed = found /\ page'.listed_run = page.listed_run
        /\ page'.run_id = page.run_id /\ page'.trade_run = page.trade_run
        /\ page'.selected = page.selected /\ page'.related = page.related
        /\ page'.runs = page.runs
        /\ page'.trades_by_product = page.trades_by_product
        /\ page'.breaks_by_family = page.breaks_by_family
    BY <1>2 DEF query_breaks, PageInv, Formed, Blank
  <1>4. Formed'
    BY <1>3 DEF PageInv, Formed, PagePoints
  <1>5. /\ page.selected = NULL /\ page.listed_run \in RunIds
        /\ found \subseteq BreaksOfRun(page.listed_run)
    BY <1>3, LimitedIsPart DEF PageInv, Listing
  <1>6. BreaksOfRun(page.listed_run)' = BreaksOfRun(page.listed_run)
    BY <1>1, <1>3 DEF BreaksOfRun
  <1>7. Listing' /\ Opening'
    BY <1>3, <1>5, <1>6 DEF Listing, Opening
  <1>8. Summing'
    BY <1>3, ListLeavesTheSummary
  <1> QED
    BY <1>1, <1>4, <1>7, <1>8 DEF PageInv

\* The pages of a listed break and of its trade change the selection, the trade's
\* run and its breaks, never the list.
LEMMA ListIsKept ==
    ASSUME PageInv, UNCHANGED vars,
           page.pc \in {"detail", "trade", "trade run", "trade breaks"},
           page'.pc \in {"trade", "trade run", "trade breaks", "shown"},
           page'.listed = page.listed, page'.listed_run = page.listed_run
    PROVE  Listing' /\ BreaksOfRun(page.listed_run)' = BreaksOfRun(page.listed_run)
  <1>1. trade_breaks' = trade_breaks
    BY QueriesOnlyRead
  <1>2. BreaksOfRun(page.listed_run)' = BreaksOfRun(page.listed_run)
    BY <1>1 DEF BreaksOfRun
  <1> QED
    BY <1>2 DEF PageInv, Listing

\* A listed break is still there.
LEMMA DetailOK ==
    ASSUME PageInv, break_detail
    PROVE  PageInv'
  <1>1. UNCHANGED vars /\ TablesInv'
    BY QueriesOnlyRead DEF break_detail, Reads
  <1>2. PICK b \in page.listed :
          page' = [page EXCEPT !.pc = IF b \in BreaksOfRun(page.listed_run)
                                        THEN "trade" ELSE "broken link",
                               !.selected = b]
    BY DEF break_detail, Reads
  <1>3. page.pc = "detail" /\ b \in BreaksOfRun(page.listed_run)
    BY DEF break_detail, PageInv, Listing
  <1>4. /\ DOMAIN page' = DOMAIN Blank
        /\ page'.pc = "trade" /\ page'.selected = b
        /\ page'.listed = page.listed /\ page'.listed_run = page.listed_run
        /\ page'.run_id = page.run_id /\ page'.trade_run = page.trade_run
        /\ page'.related = page.related /\ page'.runs = page.runs
        /\ page'.trades_by_product = page.trades_by_product
        /\ page'.breaks_by_family = page.breaks_by_family
    BY <1>2, <1>3 DEF PageInv, Formed, Blank
  <1>5. Formed'
    BY <1>4 DEF PageInv, Formed, PagePoints
  <1>6. Listing'
    BY <1>1, <1>3, <1>4, ListIsKept
  <1>7. Opening'
    BY <1>4 DEF Opening
  <1>8. Summing'
    BY <1>3, <1>4, ListLeavesTheSummary
  <1> QED
    BY <1>1, <1>5, <1>6, <1>7, <1>8 DEF PageInv

\* The trade of a listed break has a canonical state.
LEMMA StateOK ==
    ASSUME PageInv, canonical_state_document
    PROVE  PageInv'
  <1>1. UNCHANGED vars /\ TablesInv'
    BY QueriesOnlyRead DEF canonical_state_document, Reads
  <1>2. /\ page.pc = "trade" /\ page.listed_run \in RunIds
        /\ page.selected \in page.listed
        /\ page.selected \in BreaksOfRun(page.listed_run)
    BY DEF canonical_state_document, PageInv, Opening, Listing
  <1>3. canonical[page.selected[1]] # NULL
    BY <1>2, BreaksAreStored DEF PageInv
  <1>4. /\ DOMAIN page' = DOMAIN Blank
        /\ page'.pc = "trade run" /\ page'.selected = page.selected
        /\ page'.listed = page.listed /\ page'.listed_run = page.listed_run
        /\ page'.run_id = page.run_id /\ page'.trade_run = page.trade_run
        /\ page'.related = page.related /\ page'.runs = page.runs
        /\ page'.trades_by_product = page.trades_by_product
        /\ page'.breaks_by_family = page.breaks_by_family
    BY <1>3 DEF canonical_state_document, Reads, PageInv, Formed, Blank
  <1>5. Formed'
    BY <1>4 DEF PageInv, Formed, PagePoints
  <1>6. Listing'
    BY <1>1, <1>2, <1>4, ListIsKept
  <1>7. Opening'
    BY <1>2, <1>4 DEF Opening
  <1>8. Summing'
    BY <1>2, <1>4, ListLeavesTheSummary
  <1> QED
    BY <1>1, <1>5, <1>6, <1>7, <1>8 DEF PageInv

\* There is a latest run when a trade is opened: the listed one has a row.
LEMMA TradeRunOK ==
    ASSUME PageInv, trade_detail
    PROVE  PageInv'
  <1>1. UNCHANGED vars /\ TablesInv'
    BY QueriesOnlyRead DEF trade_detail, Reads
  <1>2. /\ page.pc = "trade run" /\ page.listed_run \in RunIds
        /\ page.selected \in page.listed
        /\ page.selected \in BreaksOfRun(page.listed_run)
    BY DEF trade_detail, PageInv, Opening, Listing
  <1>3. HasRows(page.listed_run)
    BY <1>2, BreaksAreStored DEF PageInv
  <1>4. LatestRunId \in RunIds
    BY <1>2, <1>3, LatestIsStored DEF PageInv
  <1>5. /\ DOMAIN page' = DOMAIN Blank
        /\ page'.pc = "trade breaks" /\ page'.trade_run = LatestRunId
        /\ page'.selected = page.selected
        /\ page'.listed = page.listed /\ page'.listed_run = page.listed_run
        /\ page'.run_id = page.run_id
        /\ page'.related = page.related /\ page'.runs = page.runs
        /\ page'.trades_by_product = page.trades_by_product
        /\ page'.breaks_by_family = page.breaks_by_family
    BY DEF trade_detail, Reads, PageInv, Formed, Blank
  <1>6. Formed'
    BY <1>4, <1>5 DEF PageInv, Formed, PagePoints
  <1>7. Listing'
    BY <1>1, <1>2, <1>5, ListIsKept
  <1>8. Opening'
    BY <1>2, <1>4, <1>5 DEF Opening
  <1>9. Summing'
    BY <1>2, <1>5, ListLeavesTheSummary
  <1> QED
    BY <1>1, <1>6, <1>7, <1>8, <1>9 DEF PageInv

\* The opened break is among those of its trade unless it was cut off.
LEMMA RelatedOK ==
    ASSUME PageInv, related_breaks
    PROVE  PageInv'
  <1>1. UNCHANGED vars /\ TablesInv' /\ trade_breaks' = trade_breaks
    BY QueriesOnlyRead DEF related_breaks, Reads
  <1>2. /\ page.pc = "trade breaks" /\ page.listed_run \in RunIds
        /\ page.selected \in page.listed /\ page.trade_run \in RunIds
        /\ page.selected \in BreaksOfRun(page.listed_run)
    BY DEF related_breaks, PageInv, Opening, Listing
  <1>3. PICK found \in Limited(BreaksOfRun(page.trade_run)) :
          page' = [page EXCEPT !.pc = "shown",
                               !.related = {b \in found : b[1] = page.selected[1]}]
    BY DEF related_breaks, Reads
  <1>4. /\ DOMAIN page' = DOMAIN Blank
        /\ page'.pc = "shown" /\ page'.trade_run = page.trade_run
        /\ page'.related = {b \in found : b[1] = page.selected[1]}
        /\ page'.selected = page.selected
        /\ page'.listed = page.listed /\ page'.listed_run = page.listed_run
        /\ page'.run_id = page.run_id /\ page'.runs = page.runs
        /\ page'.trades_by_product = page.trades_by_product
        /\ page'.breaks_by_family = page.breaks_by_family
    BY <1>3 DEF PageInv, Formed, Blank
  <1>5. /\ found \subseteq BreaksOfRun(page.trade_run)
        /\ found = BreaksOfRun(page.trade_run)
           \/ ~(Cardinality(BreaksOfRun(page.trade_run)) <= PageLimit)
    BY LimitedIsPart
  <1>6. /\ BreaksOfRun(page.trade_run) \subseteq Trades \X TradeBreaks
        /\ Cardinality(BreaksOfRun(page.trade_run)) \in Nat
    BY <1>2, BreaksAreFinite DEF PageInv
  <1>7. Formed'
    BY <1>4, <1>5, <1>6 DEF PageInv, Formed, PagePoints
  <1>8. Listing'
    BY <1>1, <1>2, <1>4, ListIsKept
  <1>9. Opening'
    <2>1. BreaksOfRun(page.trade_run)' = BreaksOfRun(page.trade_run)
      BY <1>1, <1>4 DEF BreaksOfRun
    <2>2. CASE page.trade_run # page.listed_run
      BY <1>2, <1>4, <2>2 DEF Opening
    <2>3. CASE found = BreaksOfRun(page.trade_run) /\ page.trade_run = page.listed_run
      <3>1. page.selected \in page'.related
        BY <1>2, <1>4, <2>3
      <3> QED
        BY <1>2, <1>4, <3>1 DEF Opening
    <2>4. CASE ~(Cardinality(BreaksOfRun(page.trade_run)) <= PageLimit)
      <3>1. Cardinality(BreaksOfRun(page.trade_run)) > PageLimit
        BY <1>6, <2>4, ReportingAssumption
      <3> QED
        BY <1>2, <1>4, <2>1, <3>1 DEF Opening
    <2> QED
      BY <1>5, <2>2, <2>3, <2>4
  <1>10. Summing'
    BY <1>2, <1>4, ListLeavesTheSummary
  <1> QED
    BY <1>1, <1>7, <1>8, <1>9, <1>10 DEF PageInv

-----------------------------------------------------------------------------
\* The theorems.

\* Every step, of a reader or of a writer, keeps the invariant.
LEMMA PageStep == PageInv /\ [PageNext]_pageVars => PageInv'
  <1> SUFFICES ASSUME PageInv, [PageNext]_pageVars PROVE PageInv'
    OBVIOUS
  <1>1. CASE Render
    BY <1>1, LatestOK, ProductsOK, RunsReadOK, FamiliesOK, BreaksOK, ListOK, DetailOK,
       StateOK, TradeRunOK, RelatedOK DEF Render
  <1>2. CASE [Next]_vars /\ UNCHANGED page
    BY <1>2, NextTables, WritersKeepPages DEF PageInv
  <1> QED
    BY <1>1, <1>2 DEF PageNext, pageVars

\* A page begins with nothing read.
LEMMA InitPage == PageInit => PageInv
  <1> SUFFICES ASSUME PageInit PROVE PageInv
    OBVIOUS
  <1>1. TablesInv
    BY InitTables DEF PageInit
  <1>2. page = Blank
    BY DEF PageInit
  <1>3. /\ DOMAIN page = DOMAIN Blank /\ page.pc = "latest" /\ page.run_id = NULL
        /\ page.listed_run = NULL /\ page.trade_run = NULL /\ page.related = {}
        /\ page.listed = {} /\ page.selected = NULL /\ page.runs = {}
    BY <1>2 DEF Blank
  <1>4. Formed
    BY <1>3 DEF Formed, PagePoints
  <1>5. Listing /\ Opening /\ Summing
    BY <1>3 DEF Listing, Opening, Summing
  <1> QED
    BY <1>1, <1>4, <1>5 DEF PageInv

\* Whatever a page has read stays true of the tables, however many runs are being
\* written, killed or refused meanwhile.
THEOREM PagesStaySound == PageSpec => []PageInv
  BY InitPage, PageStep, PTL DEF PageSpec

\* A page is about stored runs, and what is opened is in its list.
THEOREM PagesAreTyped == PageSpec => []PageTypeOK
  <1>1. PageInv => PageTypeOK
    <2> SUFFICES ASSUME PageInv PROVE PageTypeOK
      OBVIOUS
    <2>1. page.listed \subseteq Trades \X TradeBreaks
      BY BreaksAreFinite DEF PageInv, Listing
    <2> QED
      BY <2>1 DEF PageInv, Formed, Opening, PageTypeOK
  <1> QED
    BY <1>1, PagesStaySound, PTL

\* A listed break and its trade can always be opened, and the trade's page shows
\* the break unless another run came between or the limit of query_breaks cut the
\* page off: each of the four queries may find another state of the database.
THEOREM LinksOpen == PageSpec => []EveryLinkOpens
  <1>1. PageInv => EveryLinkOpens
    BY DEF PageInv, Formed, Opening, EveryLinkOpens
  <1> QED
    BY <1>1, PagesStaySound, PTL

\* The totals of build_summary never exceed what its details account for, though
\* the rows it adds up are read after the products and before the families of a
\* run that is still being written.
THEOREM SummariesAddUp == PageSpec => []SummaryNeverOverstates
  <1>1. PageInv => SummaryNeverOverstates
    BY DEF PageInv, Summing, SummaryNeverOverstates, Total, RowBreaks, RowTrades, RowBroken
  <1> QED
    BY <1>1, PagesStaySound, PTL

=============================================================================
