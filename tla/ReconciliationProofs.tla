------------------------ MODULE ReconciliationProofs ------------------------
(***************************************************************************)
(* Machine-checked proofs about Reconciliation, for any feed, any trades   *)
(* and any tolerances and windows.  First that every choice the engine     *)
(* makes by an order is determined: the first observation, the most common *)
(* key, the authoritative observation.  Then what a lineage group can hold,*)
(* that the engine and the oracle find the same, family by family, and     *)
(* when the engine raises.                                                 *)
(***************************************************************************)
EXTENDS Reconciliation, FiniteSetTheorems, WellFoundedInduction, TLAPS

Less == {p \in Nat \X Nat : p[1] < p[2]}

\* Every set of numbers that is not empty has a least element.
LEMMA LeastNumber ==
    ASSUME NEW T \in SUBSET Nat, T # {}
    PROVE  \E n \in T : \A m \in T : ~(m < n)
  <1>1. IsWellFoundedOn(Less, Nat)
    BY NatLessThanWellFounded, Zenon DEF OpToRel, Less
  <1>2. \E n \in T : \A m \in T : <<m, n>> \notin Less
    BY <1>1, WFMin
  <1> QED
    BY <1>2 DEF Less

\* R orders S strictly.
Orders(R, S) ==
    /\ \A o \in S : <<o, o>> \notin R
    /\ \A o, p, q \in S : <<o, p>> \in R /\ <<p, q>> \in R => <<o, q>> \in R

\* A finite set has an element that no other comes before.
LEMMA Undominated ==
    ASSUME NEW S, IsFiniteSet(S), S # {}, NEW R, Orders(R, S)
    PROVE  \E o \in S : \A p \in S : <<p, o>> \notin R
  <1> DEFINE Above(o) == {p \in S : <<p, o>> \in R}
             T == {Cardinality(Above(o)) : o \in S}
  <1>1. ASSUME NEW o \in S PROVE IsFiniteSet(Above(o)) /\ Cardinality(Above(o)) \in Nat
    <2>1. Above(o) \in SUBSET S
      OBVIOUS
    <2> HIDE DEF Above
    <2> QED
      BY <2>1, FS_Subset, FS_CardinalityType
  <1>2. PICK n \in T : \A m \in T : ~(m < n)
    <2>1. T \in SUBSET Nat /\ T # {}
      BY <1>1
    <2> HIDE DEF T
    <2> QED
      BY <2>1, LeastNumber
  <1>3. PICK o \in S : Cardinality(Above(o)) = n
    OBVIOUS
  <1>4. ASSUME NEW p \in S, <<p, o>> \in R PROVE FALSE
    <2>1. /\ Above(p) \in SUBSET Above(o)
          /\ p \in Above(o) /\ p \notin Above(p)
      BY <1>3, <1>4 DEF Orders
    <2>2. ~(Cardinality(Above(p)) < Cardinality(Above(o)))
      BY <1>2, <1>3
    <2>3. /\ IsFiniteSet(Above(o)) /\ Cardinality(Above(o)) \in Nat
          /\ Cardinality(Above(p)) \in Nat
      BY <1>1
    <2> HIDE DEF Above
    <2> QED
      BY <2>1, <2>2, <2>3, FS_Subset
  <1> QED
    BY <1>4

\* If any two are ordered, that element comes before all others.
LEMMA FirstExists ==
    ASSUME NEW S, IsFiniteSet(S), S # {}, NEW R, Orders(R, S),
           \A o, p \in S : o # p => <<o, p>> \in R \/ <<p, o>> \in R
    PROVE  \E o \in S : \A p \in S \ {o} : <<o, p>> \in R
  BY Undominated

-----------------------------------------------------------------------------
\* What the engine is given: finitely many observations, no identifier twice.
Locked(S) ==
    /\ S \in SUBSET Observation /\ IsFiniteSet(S)
    /\ \A o, p \in S : o.observation_id = p.observation_id => o = p

\* And that they are of one portfolio and correlation.
OneScope(S) ==
    \A o, p \in S : o.portfolio_id = p.portfolio_id /\ o.correlation_id = p.correlation_id

\* The shape of an observation.
LEMMA ObservationFields ==
    ASSUME NEW o \in Observation
    PROVE  /\ o.observation_id \in Nat \ {0} /\ o.observation_kind \in Kinds
           /\ o.source_business_key \in Trades /\ o.source_version \in Nat \ {0}
           /\ o.source_sequence \in Nat /\ o.supersedes_observation_id \in Nat
           /\ o.portfolio_id \in Nat /\ o.correlation_id \in Nat /\ o.ingest_time \in Nat
           /\ o.source_trade_id \in Trades /\ o.product_type \in Products
           /\ o.value \in [Fields -> Nat]
           /\ o.lifecycle_status \in LifecycleStatus[o.observation_kind]
           /\ _OBSERVATION_RANK[o.observation_kind] \in 1..4
           /\ _OBSERVATION_RANK[o.observation_kind] \in Nat
  <1>1. o.observation_kind \in Kinds
    BY DEF Observation
  <1>2. _OBSERVATION_RANK[o.observation_kind] \in 1..4
    BY <1>1 DEF Kinds, _OBSERVATION_RANK
  <1> QED
    BY <1>1, <1>2 DEF Observation

\* The assembler's check on identifiers and scope is the engine's precondition.
LEMMA LockedSources ==
    ASSUME NEW S \in SUBSET Observation, IsFiniteSet(S), _locked_source_set(S)
    PROVE  Locked(S) /\ S # {} /\ OneScope(S)
  <1> DEFINE f == [o \in S |-> o.observation_id]
  <1>1. f \in Surjection(S, Ids(S))
    BY DEF Ids, Surjection
  <1>2. Cardinality(Ids(S)) = Cardinality(S) /\ S # {}
    BY DEF _locked_source_set
  <1> HIDE DEF f
  <1>3. f \in Injection(S, Ids(S))
    BY <1>1, <1>2, FS_Surjection
  <1>4. \A o, p \in S : f[o] = f[p] => o = p
    BY <1>3 DEF Injection, IsInjective
  <1>5. OneScope(S)
    BY DEF _locked_source_set, OneScope
  <1> QED
    BY <1>2, <1>4, <1>5 DEF Locked, f

\* And the precondition is all that it checks.
LEMMA LockedAccepted ==
    ASSUME NEW S, Locked(S), S # {}, OneScope(S)
    PROVE  _locked_source_set(S)
  <1> DEFINE f == [p \in S |-> p.observation_id]
             I == Ids(S)
  <1>1. f \in Surjection(S, I) /\ f \in Injection(S, I)
    BY DEF Locked, Ids, Injection, Surjection, IsInjective
  <1>2. IsFiniteSet(S)
    BY DEF Locked
  <1> HIDE DEF f, I
  <1>3. Cardinality(I) = Cardinality(S)
    BY <1>1, <1>2, FS_Surjection
  <1> QED
    BY <1>3 DEF _locked_source_set, OneScope, I

\* Any part of it is as good.
LEMMA LockedPart ==
    ASSUME NEW S, Locked(S), NEW T \in SUBSET S
    PROVE  Locked(T)
  BY FS_Subset DEF Locked

\* The order of _ordered_observations.
LEMMA BeforeOrders ==
    ASSUME NEW S, Locked(S)
    PROVE  /\ \A o \in S : ~Before(o, o)
           /\ \A o, p, q \in S : Before(o, p) /\ Before(p, q) => Before(o, q)
           /\ \A o, p \in S : o # p => Before(o, p) \/ Before(p, o)
           /\ \A o, p \in S : ~(Before(o, p) /\ Before(p, o))
  <1>1. \A o \in S : /\ _OBSERVATION_RANK[o.observation_kind] \in Nat
                     /\ o.source_sequence \in Nat /\ o.observation_id \in Nat
    BY ObservationFields DEF Locked
  <1> DEFINE rank(o) == _OBSERVATION_RANK[o.observation_kind]
  <1>2. \A o, p \in S :
          Before(o, p) <=> \/ rank(o) < rank(p)
                           \/ rank(o) = rank(p) /\ o.source_sequence < p.source_sequence
                           \/ /\ rank(o) = rank(p) /\ o.source_sequence = p.source_sequence
                              /\ o.observation_id < p.observation_id
    BY DEF Before
  <1>3. \A o, p \in S : o # p => o.observation_id # p.observation_id
    BY DEF Locked
  <1>4. \A o \in S : rank(o) \in Nat
    BY <1>1
  <1> HIDE DEF rank
  <1> QED
    BY <1>1, <1>2, <1>3, <1>4

\* _ordered_observations(S)[0] is the first of S.
LEMMA FirstIsFirst ==
    ASSUME NEW S, Locked(S), S # {}
    PROVE  FirstOf(S) \in S /\ \A p \in S \ {FirstOf(S)} : Before(FirstOf(S), p)
  <1> DEFINE R == {r \in S \X S : Before(r[1], r[2])}
  <1>1. \A o, p \in S : <<o, p>> \in R <=> Before(o, p)
    OBVIOUS
  <1> HIDE DEF R
  <1>2. Orders(R, S) /\ \A o, p \in S : o # p => <<o, p>> \in R \/ <<p, o>> \in R
    BY <1>1, BeforeOrders DEF Orders
  <1>3. \E o \in S : \A p \in S \ {o} : <<o, p>> \in R
    BY <1>2, FirstExists DEF Locked
  <1>4. \E o \in S : \A p \in S \ {o} : Before(o, p)
    BY <1>1, <1>3
  <1> QED
    BY <1>4 DEF FirstOf

\* There is only one.
LEMMA FirstIsUnique ==
    ASSUME NEW S, Locked(S), NEW o \in S, \A p \in S \ {o} : Before(o, p)
    PROVE  FirstOf(S) = o
  <1>1. FirstOf(S) \in S /\ \A p \in S \ {FirstOf(S)} : Before(FirstOf(S), p)
    BY FirstIsFirst
  <1> QED
    BY <1>1, BeforeOrders

\* The most common key is the key of an observation, and no key is more frequent.
LEMMA MostCommonIsFrequent ==
    ASSUME NEW group, NEW S, Locked(S), S # {}
    PROVE  \E o \in S :
              /\ MostCommonKey(group, S) = o.source_business_key
              /\ \A t \in Trades : Cardinality({p \in S : p.source_business_key = t})
                     <= Cardinality({p \in S : p.source_business_key = o.source_business_key})
  <1> DEFINE count(t) == Cardinality({o \in S : o.source_business_key = t})
             More == {r \in S \X S : count(r[1].source_business_key)
                                        > count(r[2].source_business_key)}
             keys == {o.source_business_key : o \in S}
             frequent == {o \in S : \A t \in keys : count(t) <= count(o.source_business_key)}
  <1>1. ASSUME NEW t PROVE count(t) \in Nat
    <2>1. {o \in S : o.source_business_key = t} \in SUBSET S
      OBVIOUS
    <2> QED
      BY <2>1, FS_Subset, FS_CardinalityType DEF Locked
  <1>2. frequent # {}
    <2>1. \A o, p \in S : <<o, p>> \in More
                            <=> count(o.source_business_key) > count(p.source_business_key)
      OBVIOUS
    <2>2. Orders(More, S)
      <3> HIDE DEF More, count
      <3> QED
        BY <1>1, <2>1 DEF Orders
    <2>3. PICK o \in S : \A p \in S : <<p, o>> \notin More
      <3> HIDE DEF More
      <3> QED
        BY <2>2, Undominated DEF Locked
    <2>4. ASSUME NEW t \in keys PROVE count(t) <= count(o.source_business_key)
      <3>1. PICK p \in S : p.source_business_key = t
        OBVIOUS
      <3>2. ~(count(t) > count(o.source_business_key))
        BY <2>1, <2>3, <3>1
      <3> HIDE DEF count
      <3> QED
        BY <1>1, <3>2
    <2> QED
      BY <2>4
  <1> HIDE DEF frequent
  <1>3. frequent \in SUBSET S /\ Locked(frequent)
    <2>1. frequent \in SUBSET S
      BY DEF frequent
    <2> QED
      BY <2>1, LockedPart
  <1> DEFINE R == {r \in frequent \X frequent : ReadBefore(group, r[1], r[2])}
  <1>4. \A o, p \in frequent : <<o, p>> \in R <=> ReadBefore(group, o, p)
    OBVIOUS
  <1> HIDE DEF R
  <1>5. /\ \A o \in frequent : ~ReadBefore(group, o, o)
        /\ \A o, p, q \in frequent :
              ReadBefore(group, o, p) /\ ReadBefore(group, p, q) => ReadBefore(group, o, q)
        /\ \A o, p \in frequent : o # p => ReadBefore(group, o, p) \/ ReadBefore(group, p, o)
    <2>1. \A o \in frequent : o.source_sequence \in Nat /\ o.observation_id \in Nat
      BY <1>3, ObservationFields DEF Locked
    <2>2. \A o, p \in frequent : o # p => o.observation_id # p.observation_id
      BY <1>3 DEF Locked
    <2> QED
      BY <2>1, <2>2 DEF ReadBefore
  <1>6. \E o \in frequent : \A p \in frequent \ {o} : <<o, p>> \in R
    <2>1. Orders(R, frequent)
      BY <1>4, <1>5 DEF Orders
    <2>2. \A o, p \in frequent : o # p => <<o, p>> \in R \/ <<p, o>> \in R
      BY <1>4, <1>5
    <2> QED
      BY <1>2, <1>3, <2>1, <2>2, FirstExists DEF Locked
  <1> DEFINE chosen == CHOOSE o \in frequent : \A p \in frequent \ {o} : ReadBefore(group, o, p)
  <1>7. chosen \in frequent
    BY <1>4, <1>6
  <1>8. MostCommonKey(group, S) = chosen.source_business_key
    BY DEF MostCommonKey, frequent
  <1>9. ASSUME NEW t \in Trades PROVE count(t) <= count(chosen.source_business_key)
    <2>1. CASE t \in keys
      BY <1>7, <2>1 DEF frequent
    <2>2. CASE t \notin keys
      <3>1. {p \in S : p.source_business_key = t} = {}
        BY <2>2
      <3>2. count(t) = 0
        BY <3>1, FS_EmptySet
      <3> HIDE DEF count
      <3> QED
        BY <1>1, <3>2
    <2> QED
      BY <2>1, <2>2
  <1> HIDE DEF chosen
  <1> QED
    BY <1>3, <1>7, <1>8, <1>9

\* The most common key is the key of an observation.
LEMMA MostCommonIsThere ==
    ASSUME NEW group, NEW S, Locked(S), S # {}
    PROVE  \E o \in S : MostCommonKey(group, S) = o.source_business_key
  BY MostCommonIsFrequent

\* The authoritative observation is the preferred one of the most trusted source
\* that knows the trade.
LEMMA ResolvedIsPreferred ==
    ASSUME NEW S, Locked(S), NEW trade_id, \E o \in S : _eligible_for_trade(o, trade_id)
    PROVE  LET r == _resolved_observation(S, trade_id) IN
           /\ r \in S /\ _eligible_for_trade(r, trade_id)
           /\ \A p \in S : _eligible_for_trade(p, trade_id) =>
                 /\ _OBSERVATION_RANK[r.observation_kind] <= _OBSERVATION_RANK[p.observation_kind]
                 /\ p.observation_kind = r.observation_kind /\ p # r => Preferred(r, p)
  <1> DEFINE eligible == {o \in S : _eligible_for_trade(o, trade_id)}
             from(i)  == {o \in eligible : o.observation_kind = source_precedence[i]}
             place    == CHOOSE i \in 1..4 : from(i) # {} /\ \A j \in 1..(i-1) : from(j) = {}
             r        == _resolved_observation(S, trade_id)
  <1>1. \A o \in S : /\ o.observation_kind \in Kinds /\ o.source_version \in Nat
                     /\ o.observation_id \in Nat
                     /\ _OBSERVATION_RANK[o.observation_kind] \in 1..4
                     /\ source_precedence[_OBSERVATION_RANK[o.observation_kind]] = o.observation_kind
    BY ObservationFields DEF Locked, Kinds, _OBSERVATION_RANK, source_precedence
  <1>2. \A i \in 1..4 : /\ source_precedence[i] \in Kinds
                        /\ _OBSERVATION_RANK[source_precedence[i]] = i
    BY DEF Kinds, _OBSERVATION_RANK, source_precedence
  <1>3. place \in 1..4 /\ from(place) # {} /\ \A j \in 1..(place - 1) : from(j) = {}
    <2> DEFINE T == {i \in 1..4 : from(i) # {}}
    <2>1. PICK o \in eligible : TRUE
      OBVIOUS
    <2>2. o \in from(_OBSERVATION_RANK[o.observation_kind])
      BY <1>1
    <2>3. T \in SUBSET Nat /\ T # {}
      BY <1>1, <2>1, <2>2
    <2>4. PICK n \in T : \A m \in T : ~(m < n)
      <3> HIDE DEF T
      <3> QED
        BY <2>3, LeastNumber
    <2>5. n \in 1..4 /\ from(n) # {} /\ \A j \in 1..(n - 1) : from(j) = {}
      <3>1. n \in 1..4 /\ from(n) # {}
        OBVIOUS
      <3>2. ASSUME NEW j \in 1..(n - 1) PROVE from(j) = {}
        <4>1. j \in 1..4 /\ j < n
          BY <3>1
        <4>2. j \notin T
          BY <2>4, <4>1
        <4> QED
          BY <4>1, <4>2
      <3> QED
        BY <3>1, <3>2
    <2> HIDE DEF from
    <2> QED
      BY <2>5
  <1> DEFINE candidates == from(place)
  <1>4. r = CHOOSE o \in candidates : \A p \in candidates \ {o} : Preferred(o, p)
    BY DEF _resolved_observation
  <1>5. /\ candidates \in SUBSET S
        /\ \A o \in candidates : /\ _eligible_for_trade(o, trade_id)
                                 /\ o.observation_kind = source_precedence[place]
    OBVIOUS
  <1>6. ASSUME NEW p \in S, _eligible_for_trade(p, trade_id)
        PROVE  /\ place <= _OBSERVATION_RANK[p.observation_kind]
               /\ p.observation_kind = source_precedence[place] => p \in candidates
    <2> DEFINE k == _OBSERVATION_RANK[p.observation_kind]
    <2>1. k \in 1..4 /\ source_precedence[k] = p.observation_kind
      BY <1>1
    <2>2. p \in from(k)
      BY <1>6, <2>1
    <2>3. k \notin 1..(place - 1)
      BY <1>3, <2>2
    <2>4. place <= k
      <3> HIDE DEF k, place
      <3> QED
        BY <1>3, <2>1, <2>3
    <2> QED
      BY <1>6, <2>4
  <1>7. candidates # {}
    BY <1>3
  <1> HIDE DEF place, candidates
  <1>8. Locked(candidates)
    BY <1>5, LockedPart
  <1> DEFINE R == {q \in candidates \X candidates : Preferred(q[1], q[2])}
  <1>9. \A o, p \in candidates : <<o, p>> \in R <=> Preferred(o, p)
    OBVIOUS
  <1> HIDE DEF R
  <1>10. /\ \A o \in candidates : ~Preferred(o, o)
         /\ \A o, p, q \in candidates : Preferred(o, p) /\ Preferred(p, q) => Preferred(o, q)
         /\ \A o, p \in candidates : o # p => Preferred(o, p) \/ Preferred(p, o)
    <2>1. \A o \in candidates : o.source_version \in Nat /\ o.observation_id \in Nat
      BY <1>1, <1>5
    <2>2. \A o, p \in candidates : o # p => o.observation_id # p.observation_id
      BY <1>8 DEF Locked
    <2> QED
      BY <2>1, <2>2 DEF Preferred
  <1>11. \E o \in candidates : \A p \in candidates \ {o} : Preferred(o, p)
    <2>1. Orders(R, candidates)
      BY <1>9, <1>10 DEF Orders
    <2>2. \A o, p \in candidates : o # p => <<o, p>> \in R \/ <<p, o>> \in R
      BY <1>9, <1>10
    <2>3. \E o \in candidates : \A p \in candidates \ {o} : <<o, p>> \in R
      BY <1>7, <1>8, <2>1, <2>2, FirstExists DEF Locked
    <2> QED
      BY <1>9, <2>3
  <1>12. r \in candidates /\ \A p \in candidates \ {r} : Preferred(r, p)
    BY <1>4, <1>11
  <1> HIDE DEF r
  <1>13. _OBSERVATION_RANK[r.observation_kind] = place
    BY <1>2, <1>3, <1>5, <1>12
  <1> QED
    BY <1>5, <1>6, <1>12, <1>13 DEF r

-----------------------------------------------------------------------------
\* What a lineage group can hold.

\* The inductive invariant: rows are observations under their keys, and finitely
\* many have arrived.
GroupInv == TypeOK /\ IsFiniteSet(inbox) /\ IsFiniteSet(conflicts)

\* A group of the sources that is accepted is what the choices above need.
LEMMA AcceptedSources ==
    ASSUME GroupInv, _locked_source_set(Sources)
    PROVE  /\ Locked(Sources) /\ Sources # {} /\ OneScope(Sources)
           /\ \E o \in Sources : TradeId = o.source_business_key
           /\ TradeId \in Trades
           /\ _resolved_observation(Sources, TradeId) \in Sources
           /\ _resolved_observation(Sources, TradeId) \in Observation
  <1>1. IsFiniteSet(inbox \cup conflicts) /\ inbox \cup conflicts \in SUBSET Observation
    BY FS_Union DEF GroupInv, TypeOK
  <1>2. Sources \in SUBSET (inbox \cup conflicts)
    BY DEF Sources, NotSuperseded
  <1>3. IsFiniteSet(Sources) /\ Sources \in SUBSET Observation
    BY <1>1, <1>2, FS_Subset
  <1>4. Locked(Sources) /\ Sources # {} /\ OneScope(Sources)
    BY <1>3, LockedSources
  <1>5. PICK o \in Sources : TradeId = o.source_business_key
    BY <1>4, MostCommonIsThere DEF TradeId
  <1>6. _eligible_for_trade(o, TradeId)
    BY <1>5 DEF _eligible_for_trade
  <1>7. _resolved_observation(Sources, TradeId) \in Sources
    BY <1>4, <1>6, ResolvedIsPreferred
  <1> QED
    BY <1>3, <1>4, <1>5, <1>7, ObservationFields

\* A delivery is inserted under a new key, or is kept once in the quarantine.
LEMMA DeliverOK ==
    ASSUME GroupInv, NEW o \in Feed, ingest_observations(o), UNCHANGED report
    PROVE  GroupInv'
  <1>1. o \in Observation
    BY FeedAssumption
  <1>2. CASE /\ {p \in inbox : identity_key(p) = identity_key(o)} = {}
             /\ inbox' = inbox \cup {o} /\ UNCHANGED conflicts
    BY <1>1, <1>2, FS_AddElement DEF GroupInv, TypeOK
  <1>3. CASE UNCHANGED <<inbox, conflicts>>
    BY <1>3 DEF GroupInv, TypeOK
  <1>4. CASE /\ \A q \in conflicts : conflict_key(q) # conflict_key(o)
             /\ conflicts' = conflicts \cup {o} /\ UNCHANGED inbox
    BY <1>1, <1>4, FS_AddElement DEF GroupInv, TypeOK
  <1> QED
    BY <1>2, <1>3, <1>4 DEF ingest_observations

\* A run reports a trade and an amount that some observation names.
LEMMA RunOK ==
    ASSUME GroupInv, run_reconciliation
    PROVE  GroupInv'
  <1> DEFINE mended == [ trade_id |-> TradeId,
                         approved_value |->
                             _resolved_observation(Sources, TradeId).value["base_amount"] ]
  <1>1. UNCHANGED <<inbox, conflicts>>
    BY DEF run_reconciliation
  <1>2. report' = report \/ report' = NULL \/ (Verdict.result # "ERROR" /\ report' = mended)
    BY DEF run_reconciliation
  <1>3. ASSUME Verdict.result # "ERROR" PROVE mended \in Report
    <2>1. _locked_source_set(Sources)
      BY <1>3 DEF Verdict, _reconcile_lineage_group, Sources, Group, Raised
    <2>2. TradeId \in Trades /\ _resolved_observation(Sources, TradeId) \in Observation
      BY <2>1, AcceptedSources
    <2>3. _resolved_observation(Sources, TradeId).value["base_amount"] \in Nat
      BY <2>2, ObservationFields DEF Fields, EconomicFields
    <2> QED
      BY <2>2, <2>3 DEF Report
  <1> HIDE DEF mended
  <1>4. report' \in Report
    BY <1>2, <1>3 DEF GroupInv, TypeOK, Report
  <1> QED
    BY <1>1, <1>4 DEF GroupInv, TypeOK

\* What a correction takes from the booking.
LEMMA CorrectedFields ==
    ASSUME NEW latest \in Observation, NEW id, NEW now, NEW amount, NEW new,
           new = CorrectedObservation(latest, id, now, amount)
    PROVE  /\ new.observation_id = id /\ new.ingest_time = now
           /\ new.source_version = latest.source_version + 1
           /\ new.source_sequence = latest.source_sequence + 1
           /\ new.supersedes_observation_id = latest.observation_id
           /\ new.observation_kind = latest.observation_kind
           /\ new.source_business_key = latest.source_business_key
           /\ new.portfolio_id = latest.portfolio_id
           /\ new.correlation_id = latest.correlation_id
           /\ new.source_trade_id = latest.source_trade_id
           /\ new.product_type = latest.product_type
           /\ new.lifecycle_status = latest.lifecycle_status
           /\ new.record = latest.record
  BY DEF CorrectedObservation, Observation

\* And what it changes in the payload.
LEMMA CorrectedValue ==
    ASSUME NEW latest \in Observation, NEW id, NEW now, NEW amount, NEW new,
           new = CorrectedObservation(latest, id, now, amount)
    PROVE  new.value = [latest.value EXCEPT !["base_amount"] = amount]
  BY DEF CorrectedObservation, Observation

\* It is an observation again.
LEMMA CorrectedIsObservation ==
    ASSUME NEW latest \in Observation, NEW id \in Nat \ {0}, NEW now \in Nat, NEW amount \in Nat
    PROVE  CorrectedObservation(latest, id, now, amount) \in Observation
  <1> DEFINE new      == CorrectedObservation(latest, id, now, amount)
             value    == [latest.value EXCEPT !["base_amount"] = amount]
             statuses == UNION {LifecycleStatus[k] : k \in Kinds}
             Rows     == [ observation_id : Nat \ {0}, observation_kind : Kinds,
                           source_business_key : Trades, source_version : Nat \ {0},
                           source_sequence : Nat, supersedes_observation_id : Nat,
                           portfolio_id : Nat, correlation_id : Nat, ingest_time : Nat,
                           source_trade_id : Trades, product_type : Products,
                           lifecycle_status : statuses, record : Nat, value : [Fields -> Nat] ]
             r1 == [latest EXCEPT !.observation_id = id]
             r2 == [r1 EXCEPT !.ingest_time = now]
             r3 == [r2 EXCEPT !.source_version = latest.source_version + 1]
             r4 == [r3 EXCEPT !.source_sequence = latest.source_sequence + 1]
             r5 == [r4 EXCEPT !.supersedes_observation_id = latest.observation_id]
             r6 == [r5 EXCEPT !.value = value]
  <1>1. new = r6
    <2>1. r5.value = latest.value
      BY DEF Observation
    <2>2. new = [r5 EXCEPT !.value["base_amount"] = amount]
      BY DEF CorrectedObservation
    <2> HIDE DEF new, r5
    <2> QED
      BY <2>1, <2>2
  <1>2. value \in [Fields -> Nat]
    BY ObservationFields DEF Fields, EconomicFields
  <1>3. /\ latest.source_version + 1 \in Nat \ {0} /\ latest.source_sequence + 1 \in Nat
        /\ latest.observation_id \in Nat
    BY ObservationFields
  <1>4. latest \in Rows
    BY DEF Observation
  <1> HIDE DEF new, value, statuses
  <1>5. r1 \in Rows
    BY <1>4
  <1> HIDE DEF r1
  <1>6. r2 \in Rows
    BY <1>5
  <1> HIDE DEF r2
  <1>7. r3 \in Rows
    BY <1>3, <1>6
  <1> HIDE DEF r3
  <1>8. r4 \in Rows
    BY <1>3, <1>7
  <1> HIDE DEF r4
  <1>9. r5 \in Rows
    BY <1>3, <1>8
  <1> HIDE DEF r5
  <1>10. r6 \in Rows
    BY <1>2, <1>9
  <1>11. /\ new.lifecycle_status = latest.lifecycle_status
         /\ new.observation_kind = latest.observation_kind
    BY CorrectedFields DEF new
  <1>12. latest.lifecycle_status \in LifecycleStatus[latest.observation_kind]
    BY ObservationFields
  <1>13. new.lifecycle_status \in LifecycleStatus[new.observation_kind]
    BY <1>11, <1>12
  <1>14. new \in Rows
    BY <1>1, <1>10
  <1> HIDE DEF r6
  <1> QED
    BY <1>13, <1>14 DEF Observation, statuses, new

\* A correction is a booking of the next version, which nobody has sent.
LEMMA CorrectionOK ==
    ASSUME GroupInv, ingest_corrected_booking_observation
    PROVE  GroupInv'
  <1>1. PICK id \in CorrectionIds \ Ids(inbox), now \in CorrectionTimes, latest \in inbox :
          /\ IsBookingOf(latest, report.trade_id)
          /\ \A p \in inbox : IsBookingOf(p, report.trade_id) =>
                p.source_version <= latest.source_version
          /\ inbox' = inbox \cup {CorrectedObservation(latest, id, now, report.approved_value)}
    BY DEF ingest_corrected_booking_observation
  <1>2. report # NULL /\ report' = NULL /\ UNCHANGED conflicts
    BY DEF ingest_corrected_booking_observation
  <1> DEFINE new == CorrectedObservation(latest, id, now, report.approved_value)
  <1>3. report.approved_value \in Nat
    BY <1>2 DEF GroupInv, TypeOK, Report
  <1>4. latest \in Observation /\ id \in Nat \ {0} /\ now \in Nat
    BY <1>1, FeedAssumption DEF GroupInv, TypeOK
  <1>5. /\ new \in Observation
        /\ new.observation_kind = latest.observation_kind
        /\ new.source_business_key = latest.source_business_key
        /\ new.source_version = latest.source_version + 1
    <2>1. new = CorrectedObservation(latest, id, now, report.approved_value)
      OBVIOUS
    <2>2. new \in Observation
      BY <1>3, <1>4, CorrectedIsObservation
    <2> HIDE DEF new
    <2> QED
      BY <1>4, <2>1, <2>2, CorrectedFields
  <1> HIDE DEF new
  <1>6. \A p \in inbox : identity_key(p) # identity_key(new)
    <2>1. ASSUME NEW p \in inbox, identity_key(p) = identity_key(new) PROVE FALSE
      <3>1. p.source_version \in Nat /\ latest.source_version \in Nat
        BY <1>4, ObservationFields DEF GroupInv, TypeOK
      <3>2. /\ p.source_version = latest.source_version + 1
            /\ IsBookingOf(p, report.trade_id)
        BY <1>1, <1>5, <2>1 DEF identity_key, IsBookingOf
      <3> QED
        BY <1>1, <3>1, <3>2
    <2> QED
      BY <2>1
  <1>7. inbox' = inbox \cup {new}
    BY <1>1 DEF new
  <1> QED
    BY <1>2, <1>5, <1>6, <1>7, FS_AddElement DEF GroupInv, TypeOK, Report

\* Whatever bounds it, a delivery is one of the feed.
LEMMA DeliversFeed ==
    ASSUME Deliver
    PROVE  (\E o \in Feed : ingest_observations(o)) /\ UNCHANGED report
  <1>1. PICK bound \in Bounds :
            (\E o \in bound.deliveries : ingest_observations(o)) /\ UNCHANGED report
    BY DEF Deliver
  <1>2. bound.deliveries \subseteq Feed
    BY FeedAssumption
  <1> QED
    BY <1>1, <1>2

\* Every step keeps it.
LEMMA GroupStep == GroupInv /\ [Next]_vars => GroupInv'
  <1> SUFFICES ASSUME GroupInv, [Next]_vars PROVE GroupInv'
    OBVIOUS
  <1>1. CASE UNCHANGED vars
    BY <1>1 DEF vars, GroupInv, TypeOK
  <1>2. CASE Deliver
    BY <1>2, DeliversFeed, DeliverOK
  <1> QED
    BY <1>1, <1>2, RunOK, CorrectionOK DEF Next

\* A lineage group stays well formed, through any deliveries, runs and corrections.
THEOREM GroupsStayFormed == Spec => []GroupInv
  <1>1. Init => GroupInv
    BY FS_EmptySet DEF Init, GroupInv, TypeOK, Report
  <1> QED
    BY <1>1, GroupStep, PTL DEF Spec

\* The inbox has one row per source identity and version and the quarantine one
\* per identifier: a correction takes the version after the newest booking.
THEOREM ReconciliationTypeCorrect == Spec => []TypeOK
  <1>1. GroupInv => TypeOK
    BY DEF GroupInv
  <1> QED
    BY <1>1, GroupsStayFormed, PTL

-----------------------------------------------------------------------------
\* The engine and the oracle, family by family.

\* What a context of the accepted group S holds, whenever it is evaluated and
\* whatever verification comes with it.
ContextOf(c, S, trade_id) ==
    /\ c.observations = S /\ c.trade_id = trade_id
    /\ c.canonical = _resolved_observation(S, trade_id)
    /\ c.linkage = _linkage_decision(S, trade_id)
    /\ c.wait \in Nat

\* The facts that a set of breaks shows.
FactsOf(found) ==
    UNION {{<<b.family, comparison.field>> : comparison \in b.comparisons} : b \in found}

\* A fact is the family of a break and the field of one of its comparisons.
LEMMA FactIn ==
    ASSUME NEW found, NEW fact
    PROVE  fact \in FactsOf(found)
             <=> \E b \in found : \E x \in b.comparisons : fact = <<b.family, x.field>>
  BY DEF FactsOf

\* A break shows the fields of its comparisons.
LEMMA BreakFacts ==
    ASSUME NEW family, NEW comparisons
    PROVE  FactsOf({Break(family, comparisons)}) = {<<family, x.field>> : x \in comparisons}
  <1> DEFINE b == Break(family, comparisons)
  <1>1. b.family = family /\ b.comparisons = comparisons
    BY DEF Break
  <1> HIDE DEF b
  <1>2. FactsOf({b}) = {<<b.family, x.field>> : x \in b.comparisons}
    BY DEF FactsOf
  <1>3. FactsOf({b}) = {<<family, x.field>> : x \in comparisons}
    BY <1>1, <1>2
  <1> QED
    BY <1>3 DEF b

\* A family with no comparison has no break.
LEMMA BreakOfFacts ==
    ASSUME NEW family, NEW comparisons
    PROVE  FactsOf(BreakOf(family, comparisons)) = {<<family, x.field>> : x \in comparisons}
  <1>1. CASE comparisons = {}
    BY <1>1 DEF BreakOf, FactsOf
  <1>2. CASE comparisons # {}
    <2>1. BreakOf(family, comparisons) = {Break(family, comparisons)}
      BY <1>2 DEF BreakOf
    <2> QED
      BY <2>1, BreakFacts
  <1> QED
    BY <1>1, <1>2

\* The facts of several sets of breaks are those of each.
LEMMA FactsOfUnion ==
    ASSUME NEW found
    PROVE  FactsOf(UNION found) = UNION {FactsOf(B) : B \in found}
  BY DEF FactsOf

\* MISSING_REQUIRED_SOURCE: the same kinds have not arrived in their window.
LEMMA MissingAgrees ==
    ASSUME NEW S, NEW trade_id, NEW c, ContextOf(c, S, trade_id)
    PROVE  FactsOf(_missing_source_breaks(c)) = _missing_source_facts(c)
  <1> DEFINE late    == { k \in RequiredKinds : /\ \A o \in c.observations : o.observation_kind # k
                                                /\ c.wait >= window_seconds[k] }
             overdue == { k \in RequiredKinds :
                            /\ k \notin {o.observation_kind : o \in c.observations}
                            /\ ~ c.wait < window_seconds[k] }
  <1>1. late = overdue
    BY ConfigAssumption DEF ContextOf
  <1>2. FactsOf(_missing_source_breaks(c)) = {<<"MISSING_REQUIRED_SOURCE", k>> : k \in late}
    <2> HIDE DEF late
    <2> DEFINE first == FirstOf(c.observations).observation_id
    <2>1. _missing_source_breaks(c) =
            {Break("MISSING_REQUIRED_SOURCE", {Comparison(k, 0, first, TRUE)}) : k \in late}
      BY DEF _missing_source_breaks, late
    <2> DEFINE shown(k) == Break("MISSING_REQUIRED_SOURCE", {Comparison(k, 0, first, TRUE)})
    <2>2. ASSUME NEW k, NEW fact
          PROVE  (\E x \in shown(k).comparisons : fact = <<shown(k).family, x.field>>)
                   <=> fact = <<"MISSING_REQUIRED_SOURCE", k>>
      <3> DEFINE x == Comparison(k, 0, first, TRUE)
      <3>1. x.field = k
        BY DEF Comparison
      <3> HIDE DEF x
      <3>2. Break("MISSING_REQUIRED_SOURCE", {x}).family = "MISSING_REQUIRED_SOURCE"
            /\ Break("MISSING_REQUIRED_SOURCE", {x}).comparisons = {x}
        BY DEF Break
      <3>3. shown(k).family = "MISSING_REQUIRED_SOURCE" /\ shown(k).comparisons = {x}
        BY <3>2 DEF x
      <3> HIDE DEF shown
      <3> QED
        BY <3>1, <3>3
    <2> HIDE DEF shown
    <2>3. _missing_source_breaks(c) = {shown(k) : k \in late}
      BY <2>1 DEF shown
    <2>4. ASSUME NEW fact
          PROVE  fact \in FactsOf(_missing_source_breaks(c))
                   <=> \E k \in late : fact = <<"MISSING_REQUIRED_SOURCE", k>>
      <3>1. fact \in FactsOf(_missing_source_breaks(c))
              <=> \E b \in {shown(k) : k \in late} :
                     \E x \in b.comparisons : fact = <<b.family, x.field>>
        BY <2>3, FactIn
      <3>2. fact \in FactsOf(_missing_source_breaks(c))
              <=> \E k \in late : \E x \in shown(k).comparisons : fact = <<shown(k).family, x.field>>
        BY <3>1
      <3> QED
        BY <2>2, <3>2
    <2> QED
      BY <2>4
  <1>3. _missing_source_facts(c) = {<<"MISSING_REQUIRED_SOURCE", k>> : k \in overdue}
    BY DEF _missing_source_facts, Fact
  <1> QED
    BY <1>1, <1>2, <1>3

\* AMBIGUOUS_OR_UNMATCHED_LINKAGE: an accepted decision has one candidate, the trade.
LEMMA LinkageAgrees ==
    ASSUME NEW S, NEW trade_id, NEW c, ContextOf(c, S, trade_id)
    PROVE  FactsOf(_linkage_break(c)) = _linkage_facts(c)
  <1> DEFINE valid == /\ c.linkage # NULL /\ c.linkage.decision = "ACCEPTED"
                      /\ c.linkage.chosen_trade_id = c.trade_id /\ c.linkage.candidates = 1
             invalid == \/ c.linkage = NULL
                        \/ c.linkage.decision
                             \in {"REJECTED", "UNMATCHED", "AMBIGUOUS", "CROSS_SCOPE_REJECTED"}
                        \/ c.linkage.chosen_trade_id # c.trade_id
                        \/ c.linkage.candidates # 1
             the_fact == <<"AMBIGUOUS_OR_UNMATCHED_LINKAGE", "trade_id">>
  <1>1. c.linkage.decision \in {"AMBIGUOUS", "UNMATCHED", "ACCEPTED"}
    BY DEF ContextOf, _linkage_decision
  <1>2. invalid <=> ~valid
    BY <1>1
  <1>3. FactsOf(_linkage_break(c)) = IF valid THEN {} ELSE {the_fact}
    <2> DEFINE observed == FirstOf(c.observations).observation_id
               shown == Comparison("trade_id", observed, observed, TRUE)
    <2>1. _linkage_break(c) =
            IF valid THEN {} ELSE {Break("AMBIGUOUS_OR_UNMATCHED_LINKAGE", {shown})}
      BY DEF _linkage_break
    <2>2. shown.field = "trade_id"
      BY DEF Comparison
    <2> HIDE DEF shown, valid
    <2>3. FactsOf({Break("AMBIGUOUS_OR_UNMATCHED_LINKAGE", {shown})}) = {the_fact}
      BY <2>2, BreakFacts
    <2>4. FactsOf({}) = {}
      BY DEF FactsOf
    <2> QED
      BY <2>1, <2>3, <2>4
  <1>4. _linkage_facts(c) = IF invalid THEN {the_fact} ELSE {}
    BY DEF _linkage_facts, Fact
  <1> QED
    BY <1>2, <1>3, <1>4

\* DUPLICATE_SOURCE_CONFLICT: both see the same groups.
LEMMA DuplicatesAgree ==
    ASSUME NEW c
    PROVE  FactsOf(_duplicate_breaks(c)) = _duplicate_facts(c)
  <1> DEFINE broken(group) ==
               LET expected == FirstOf(group)
                   observed == FirstOf(group \ {expected})
               IN  Break("DUPLICATE_SOURCE_CONFLICT",
                         {Comparison("content_hash", expected.observation_id,
                                     observed.observation_id,
                                     content_hash(expected) # content_hash(observed))})
             groups == ConflictGroups(c.observations)
  <1>1. _duplicate_breaks(c) = {broken(group) : group \in groups}
    BY DEF _duplicate_breaks
  <1>2. \A group : {<<broken(group).family, x.field>> : x \in broken(group).comparisons}
                     = {<<"DUPLICATE_SOURCE_CONFLICT", "content_hash">>}
    BY DEF Break, Comparison
  <1> HIDE DEF broken, groups
  <1>3. FactsOf(_duplicate_breaks(c)) =
          UNION {{<<"DUPLICATE_SOURCE_CONFLICT", "content_hash">>} : group \in groups}
    BY <1>1, <1>2 DEF FactsOf
  <1> QED
    BY <1>3 DEF _duplicate_facts, Fact, groups

\* The fields in which some other observation disagrees with the authority.
Disagreed(c, fields) ==
    {g \in fields : \E o \in Others(c) : ~ Agree(g, c.canonical.value[g], o.value[g])}

\* The three families that compare fields with the authoritative observation.
LEMMA DivergenceFacts ==
    ASSUME NEW c, NEW family, NEW fields
    PROVE  FactsOf(BreakOf(family, Divergence(c, fields)))
             = {<<family, g>> : g \in Disagreed(c, fields)}
  <1> DEFINE divergent(f) == { o \in c.observations :
                                 /\ o.observation_id # c.canonical.observation_id
                                 /\ ~ Agree(f, c.canonical.value[f], o.value[f]) }
             shown(f) == Comparison(f, c.canonical.observation_id,
                                    FirstOf(divergent(f)).observation_id, TRUE)
             parted == {g \in fields : divergent(g) # {}}
  <1>1. Divergence(c, fields) = {shown(f) : f \in parted}
    BY DEF Divergence
  <1>2. \A f : shown(f).field = f
    BY DEF Comparison
  <1>3. parted = Disagreed(c, fields)
    BY DEF Disagreed, Others
  <1> HIDE DEF shown, parted
  <1>4. {<<family, x.field>> : x \in Divergence(c, fields)} = {<<family, f>> : f \in parted}
    BY <1>1, <1>2
  <1> QED
    BY <1>3, <1>4, BreakOfFacts

\* CURRENCY_PAIR_OR_SIDE_MISMATCH: any difference counts.
LEMMA CurrencyAgrees ==
    ASSUME NEW c
    PROVE  FactsOf(_currency_breaks(c)) = _comparison_facts(c)
  <1>1. \A g \in CurrencyFields : g \notin EconomicFields
    BY DEF CurrencyFields, EconomicFields
  <1>2. Disagreed(c, CurrencyFields) =
          {g \in CurrencyFields : \E o \in Others(c) : o.value[g] # c.canonical.value[g]}
    BY <1>1 DEF Disagreed, Agree
  <1> QED
    BY <1>2, DivergenceFacts DEF _currency_breaks, _comparison_facts, Fact

\* TRADE_OR_VALUE_DATE_MISMATCH: any difference counts.
LEMMA DatesAgree ==
    ASSUME NEW c
    PROVE  FactsOf(_date_break(c)) = _date_facts(c)
  <1>1. \A g \in DateFields : g \notin EconomicFields
    BY DEF DateFields, EconomicFields
  <1>2. Disagreed(c, DateFields) =
          {g \in DateFields : \E o \in Others(c) : o.value[g] # c.canonical.value[g]}
    BY <1>1 DEF Disagreed, Agree
  <1> QED
    BY <1>2, DivergenceFacts DEF _date_break, _date_facts, Fact

\* The two ways of measuring a tolerance, as a distance and as an interval.
LEMMA TolerancesAgree ==
    ASSUME NEW expected \in Nat, NEW observed \in Nat, NEW rule \in Tolerances
    PROVE  _within_tolerance(expected, observed, rule) <=> OracleWithin(expected, observed, rule)
  <1> DEFINE difference == IF expected < observed THEN observed - expected ELSE expected - observed
             margin == expected * rule.value
  <1>1. rule.value \in Nat /\ rule.per \in Nat /\ rule.per > 0
        /\ rule.mode \in {"NONE", "ABSOLUTE_DECIMAL", "RELATIVE_DECIMAL"}
    BY DEF Tolerances
  <1>2. CASE rule.mode = "NONE"
    BY <1>2 DEF _within_tolerance, OracleWithin
  <1>3. CASE rule.mode = "ABSOLUTE_DECIMAL"
    BY <1>1, <1>3 DEF _within_tolerance, OracleWithin
  <1>4. CASE rule.mode = "RELATIVE_DECIMAL"
    <2>1. /\ _within_tolerance(expected, observed, rule) <=> difference * rule.per <= margin
          /\ OracleWithin(expected, observed, rule)
               <=> (observed - expected) * rule.per \in (-margin)..margin
      BY <1>4 DEF _within_tolerance, OracleWithin
    <2> DEFINE scaled == (observed - expected) * rule.per
    <2>2. margin \in Nat /\ scaled \in Int
      BY <1>1
    <2>3. CASE expected < observed
      <3>1. difference * rule.per = scaled /\ scaled >= 0
        BY <1>1, <2>3
      <3> HIDE DEF margin, scaled, difference
      <3> QED
        BY <2>1, <2>2, <3>1 DEF scaled
    <2>4. CASE ~(expected < observed)
      <3>1. difference * rule.per = -scaled /\ scaled <= 0
        BY <1>1, <2>4
      <3> HIDE DEF margin, difference
      <3>2. (observed - expected) * rule.per = scaled
        OBVIOUS
      <3> HIDE DEF scaled
      <3> QED
        BY <2>1, <2>2, <3>1, <3>2
    <2> QED
      BY <2>3, <2>4
  <1> QED
    BY <1>1, <1>2, <1>3, <1>4

\* ECONOMIC_VALUE_MISMATCH: the same differences are beyond the tolerance.
LEMMA EconomicsAgree ==
    ASSUME NEW S \in SUBSET Observation, NEW c, c.observations = S, c.canonical \in S
    PROVE  FactsOf(_economic_breaks(c)) = _economic_facts(c)
  <1>1. ASSUME NEW g \in EconomicFields, NEW o \in S
        PROVE  Agree(g, c.canonical.value[g], o.value[g])
                 <=> OracleWithin(c.canonical.value[g], o.value[g], tolerance[g])
    <2>1. g \in Fields /\ tolerance[g] \in Tolerances
      BY ConfigAssumption DEF Fields
    <2>2. c.canonical.value[g] \in Nat /\ o.value[g] \in Nat
      BY <2>1, ObservationFields
    <2> QED
      BY <2>1, <2>2, TolerancesAgree DEF Agree
  <1>2. Others(c) \in SUBSET S
    BY DEF Others
  <1>3. Disagreed(c, EconomicFields) =
          { g \in EconomicFields : \E o \in Others(c) :
              ~ OracleWithin(c.canonical.value[g], o.value[g], tolerance[g]) }
    BY <1>1, <1>2 DEF Disagreed
  <1> QED
    BY <1>3, DivergenceFacts DEF _economic_breaks, _economic_facts, Fact

\* LIFECYCLE_STATUS_MISMATCH: a wrong status, unless all sources say the trade was
\* amended or cancelled.  With one observation only, the engine has nothing to
\* compare it with.
LEMMA LifecycleAgrees ==
    ASSUME NEW c, IsFiniteSet(c.observations), Cardinality(c.observations) > 1
    PROVE  FactsOf(_lifecycle_break(c)) = _lifecycle_facts(c)
  <1> DEFINE S        == c.observations
             right    == {o \in S : o.lifecycle_status = lifecycle_rule[o.observation_kind]}
             observed == FirstOf(S \ right)
             others   == S \ {observed}
             none     == \/ \E s \in {"AMENDED", "CANCELLED"} : \A o \in S : o.lifecycle_status = s
                         \/ S = right
                         \/ others = {}
             statuses == {o.lifecycle_status : o \in S}
             wrong    == /\ statuses \notin {{"AMENDED"}, {"CANCELLED"}}
                         /\ \E o \in S : o.lifecycle_status # lifecycle_rule[o.observation_kind]
             the_fact == <<"LIFECYCLE_STATUS_MISMATCH", "lifecycle_status">>
  <1>1. FactsOf(_lifecycle_break(c)) = IF none THEN {} ELSE {the_fact}
    <2> DEFINE different == {o \in others : o.lifecycle_status # observed.lifecycle_status}
               expected == FirstOf(IF right # {} THEN right
                                   ELSE IF different # {} THEN different ELSE others)
               shown == Comparison("lifecycle_status", expected.observation_id,
                                   observed.observation_id,
                                   ShownStatus(expected, observed) # observed.lifecycle_status)
    <2>1. _lifecycle_break(c) = IF none THEN {} ELSE {Break("LIFECYCLE_STATUS_MISMATCH", {shown})}
      BY DEF _lifecycle_break
    <2>2. shown.field = "lifecycle_status"
      BY DEF Comparison
    <2> HIDE DEF shown, none
    <2>3. FactsOf({Break("LIFECYCLE_STATUS_MISMATCH", {shown})}) = {the_fact}
      BY <2>2, BreakFacts
    <2>4. FactsOf({}) = {}
      BY DEF FactsOf
    <2> QED
      BY <2>1, <2>3, <2>4
  <1>2. _lifecycle_facts(c) = IF wrong THEN {the_fact} ELSE {}
    BY DEF _lifecycle_facts, Fact
  <1>3. others # {} /\ S # {}
    <2>1. ASSUME S \in SUBSET {observed} PROVE FALSE
      <3> HIDE DEF observed
      <3>1. IsFiniteSet({observed}) /\ Cardinality({observed}) = 1
        BY FS_Singleton
      <3>2. Cardinality(S) <= 1
        BY <2>1, <3>1, FS_Subset
      <3>3. Cardinality(S) \in Nat
        BY FS_CardinalityType
      <3> QED
        BY <3>2, <3>3
    <2> QED
      BY <2>1
  <1>4. ASSUME NEW s
        PROVE  (\A o \in S : o.lifecycle_status = s) <=> statuses = {s}
    BY <1>3
  <1>5. none <=> ~wrong
    <2>1. S = right <=> \A o \in S : o.lifecycle_status = lifecycle_rule[o.observation_kind]
      OBVIOUS
    <2> HIDE DEF others, right, S, statuses
    <2> QED
      BY <1>3, <1>4, <2>1
  <1> HIDE DEF none, wrong
  <1> QED
    BY <1>1, <1>2, <1>5

\* POST_ACTION_VERIFICATION_FAILURE: the readback shows a change, or nothing at
\* all where it should, or the break is still there.
LEMMA PostActionAgrees ==
    ASSUME NEW c
    PROVE  FactsOf(_post_action_break(c)) = _post_action_facts(c)
  <1> DEFINE v       == c.verification
             after   == IF v.post_action = NULL THEN v.pre_action ELSE v.post_action
             changed == v.changed_fields \cup
                        { f \in DOMAIN PostActionValue(after) :
                            PostActionValue(v.pre_action)[f] # PostActionValue(after)[f] }
             shown   == IF changed = {} /\ (~ v.readback_available \/ v.original_break_remaining)
                          THEN {"book_id"} ELSE changed
             readback == { f \in {"lifecycle_status", "booking_version", "record_fingerprint"} :
                             /\ v.post_action # NULL
                             /\ OraclePostActionValue(v.pre_action)[f]
                                  # OraclePostActionValue(v.post_action)[f] }
             mutated  == v.changed_fields \cup readback
             paths    == IF mutated # {} THEN mutated
                         ELSE IF ~ v.original_break_remaining /\ v.readback_available THEN {}
                         ELSE {"book_id"}
  <1>1. CASE v = NULL
    BY <1>1 DEF _post_action_break, _post_action_facts, FactsOf
  <1>2. CASE v # NULL
    <2>1. \A o : /\ PostActionValue(o) = OraclePostActionValue(o)
                 /\ DOMAIN PostActionValue(o)
                      = {"lifecycle_status", "booking_version", "record_fingerprint"}
      BY DEF PostActionValue, OraclePostActionValue
    <2>2. changed = mutated
      <3>1. CASE v.post_action = NULL
        BY <2>1, <3>1
      <3>2. CASE v.post_action # NULL
        BY <2>1, <3>2
      <3> QED
        BY <3>1, <3>2
    <2>3. shown = paths
      <3> HIDE DEF changed, mutated
      <3> QED
        BY <2>2
    <2> DEFINE all == {Comparison(f, v.pre_action.observation_id, after.observation_id, TRUE) :
                         f \in shown}
    <2>4. _post_action_break(c) = BreakOf("POST_ACTION_VERIFICATION_FAILURE", all)
      BY <1>2 DEF _post_action_break
    <2>5. {<<"POST_ACTION_VERIFICATION_FAILURE", x.field>> : x \in all}
            = {<<"POST_ACTION_VERIFICATION_FAILURE", f>> : f \in shown}
      <3>1. \A f : Comparison(f, v.pre_action.observation_id, after.observation_id, TRUE).field = f
        BY DEF Comparison
      <3> HIDE DEF shown, after
      <3> QED
        BY <3>1
    <2>6. _post_action_facts(c) = {<<"POST_ACTION_VERIFICATION_FAILURE", f>> : f \in paths}
      BY <1>2 DEF _post_action_facts, Fact
    <2> HIDE DEF all, shown, paths
    <2> QED
      BY <2>3, <2>4, <2>5, <2>6, BreakOfFacts
  <1> QED
    BY <1>1, <1>2

\* What a context shows is what its families show.
LEMMA BreaksByFamily ==
    ASSUME NEW c
    PROVE  FactsOf(Breaks(c)) =
             UNION { FactsOf(_missing_source_breaks(c)), FactsOf(_linkage_break(c)),
                     FactsOf(_duplicate_breaks(c)), FactsOf(_currency_breaks(c)),
                     FactsOf(_economic_breaks(c)), FactsOf(_date_break(c)),
                     FactsOf(_lifecycle_break(c)), FactsOf(_post_action_break(c)) }
  <1> DEFINE B == { _missing_source_breaks(c), _linkage_break(c), _duplicate_breaks(c),
                    _currency_breaks(c), _economic_breaks(c), _date_break(c),
                    _lifecycle_break(c), _post_action_break(c) }
  <1>1. FactsOf(Breaks(c)) = UNION {FactsOf(found) : found \in B}
    BY FactsOfUnion DEF Breaks
  <1>2. {FactsOf(found) : found \in B} =
          { FactsOf(_missing_source_breaks(c)), FactsOf(_linkage_break(c)),
            FactsOf(_duplicate_breaks(c)), FactsOf(_currency_breaks(c)),
            FactsOf(_economic_breaks(c)), FactsOf(_date_break(c)),
            FactsOf(_lifecycle_break(c)), FactsOf(_post_action_break(c)) }
    OBVIOUS
  <1> HIDE DEF B
  <1> QED
    BY <1>1, <1>2

\* All families together: what the engine finds is what the oracle expects.
LEMMA FamiliesAgree ==
    ASSUME NEW S, NEW trade_id, NEW c, ContextOf(c, S, trade_id),
           Locked(S), Cardinality(S) > 1, c.canonical \in S
    PROVE  FactsOf(Breaks(c)) = evaluate(c)
  <1>1. c.observations = S /\ S \in SUBSET Observation /\ IsFiniteSet(S)
    BY DEF ContextOf, Locked
  <1>2. /\ FactsOf(_missing_source_breaks(c)) = _missing_source_facts(c)
        /\ FactsOf(_linkage_break(c)) = _linkage_facts(c)
    BY MissingAgrees, LinkageAgrees
  <1>3. /\ FactsOf(_duplicate_breaks(c)) = _duplicate_facts(c)
        /\ FactsOf(_currency_breaks(c)) = _comparison_facts(c)
        /\ FactsOf(_date_break(c)) = _date_facts(c)
        /\ FactsOf(_post_action_break(c)) = _post_action_facts(c)
    BY DuplicatesAgree, CurrencyAgrees, DatesAgree, PostActionAgrees
  <1>4. FactsOf(_economic_breaks(c)) = _economic_facts(c)
    BY <1>1, EconomicsAgree
  <1>5. FactsOf(_lifecycle_break(c)) = _lifecycle_facts(c)
    BY <1>1, LifecycleAgrees
  <1> QED
    BY <1>2, <1>3, <1>4, <1>5, BreaksByFamily DEF evaluate

\* The engine and the independent oracle never disagree on a lineage, whatever
\* has arrived of it and whenever it is evaluated, unless the engine raises or
\* has one observation only.
THEOREM EngineMeetsOracle == Spec => []OracleAgrees
  <1>1. ASSUME GroupInv PROVE OracleAgrees
    <2> DEFINE now   == Context(Sources, TradeId)
               waits == {[now EXCEPT !.wait = wait] : wait \in 0..MaxWait}
               after == {[now EXCEPT !.verification = v] : v \in Verifications}
    <2> SUFFICES ASSUME _locked_source_set(Sources), Cardinality(Sources) > 1,
                        NEW c \in waits \cup after
                 PROVE  run(c).result = "ERROR" \/ Facts(run(c)) = evaluate(c)
      BY DEF OracleAgrees
    <2>1. ContextOf(c, Sources, TradeId)
      <3>1. CASE c \in waits
        <4>1. PICK wait \in 0..MaxWait : c = [now EXCEPT !.wait = wait]
          BY <3>1
        <4>2. wait \in Nat
          BY FeedAssumption
        <4> QED
          BY <4>1, <4>2 DEF Context, ContextOf
      <3>2. CASE c \in after
        <4>1. PICK v \in Verifications : c = [now EXCEPT !.verification = v]
          BY <3>2
        <4> QED
          BY <4>1 DEF Context, ContextOf
      <3> QED
        BY <3>1, <3>2
    <2>2. Locked(Sources) /\ c.canonical \in Sources
      BY <1>1, <2>1, AcceptedSources DEF ContextOf
    <2>3. FactsOf(Breaks(c)) = evaluate(c)
      BY <2>1, <2>2, FamiliesAgree
    <2>4. run(c).result = "ERROR" \/ run(c).breaks = Breaks(c)
      BY DEF run, Raised
    <2> QED
      BY <2>3, <2>4 DEF Facts, FactsOf
  <1> QED
    BY <1>1, GroupsStayFormed, PTL

-----------------------------------------------------------------------------
\* When the engine raises.

\* More than one means two that differ.
LEMMA TwoOfThem ==
    ASSUME NEW X, IsFiniteSet(X)
    PROVE  Cardinality(X) > 1 <=> \E x, y \in X : x # y
  <1>1. Cardinality(X) \in Nat
    BY FS_CardinalityType
  <1>2. ASSUME NEW x \in X, \A y \in X : x = y PROVE Cardinality(X) = 1
    <2>1. X = {x}
      BY <1>2
    <2> QED
      BY <2>1, FS_Singleton
  <1>3. ASSUME X = {} PROVE Cardinality(X) = 0
    BY <1>3, FS_EmptySet
  <1>4. ASSUME NEW x \in X, NEW y \in X, x # y PROVE Cardinality(X) > 1
    <2>1. IsFiniteSet({x}) /\ Cardinality({x}) = 1
      BY FS_Singleton
    <2>2. Cardinality({x} \cup {y}) = 2 /\ {x} \cup {y} \in SUBSET X
      BY <1>4, <2>1, FS_AddElement
    <2>3. Cardinality({x} \cup {y}) <= Cardinality(X)
      BY <2>2, FS_Subset
    <2> QED
      BY <1>1, <2>2, <2>3
  <1> QED
    BY <1>1, <1>2, <1>3, <1>4

\* What a function makes of a finite set is finite.
LEMMA FiniteImage ==
    ASSUME NEW S, IsFiniteSet(S), NEW f, f = [x \in S |-> f[x]]
    PROVE  IsFiniteSet({f[x] : x \in S})
  <1> DEFINE T == {f[x] : x \in S}
  <1>1. f \in Surjection(S, T)
    BY DEF Surjection
  <1> HIDE DEF T
  <1>2. IsFiniteSet(T)
    BY <1>1, FS_Surjection
  <1> QED
    BY <1>2 DEF T

\* validate_context_scope refuses a context whose payloads contradict the linkage.
LEMMA ScopeFails ==
    ASSUME NEW S, NEW trade_id \in Trades, Locked(S), _resolved_observation(S, trade_id) \in S
    PROVE  ~ validate_context_scope(Context(S, trade_id))
             <=> \/ /\ _linkage_decision(S, trade_id).decision = "ACCEPTED"
                    /\ \E o \in S : o.source_trade_id # trade_id
                 \/ Cardinality({o.product_type : o \in S}) > 1
  <1> DEFINE c == Context(S, trade_id)
             d == _linkage_decision(S, trade_id)
  <1>1. /\ c.observations = S /\ c.trade_id = trade_id /\ c.linkage = d
        /\ c.canonical = _resolved_observation(S, trade_id) /\ c.verification = NULL
    BY DEF Context
  <1>2. d # NULL
    <2>1. Cardinality({o.source_trade_id : o \in S}) \in Nat
      <3> DEFINE f == [o \in S |-> o.source_trade_id]
      <3>1. {f[o] : o \in S} = {o.source_trade_id : o \in S} /\ f = [o \in S |-> f[o]]
        OBVIOUS
      <3> HIDE DEF f
      <3>2. IsFiniteSet({o.source_trade_id : o \in S})
        BY <3>1, FiniteImage DEF Locked
      <3> QED
        BY <3>2, FS_CardinalityType
    <2>2. d \in LinkageDecision
      BY <2>1 DEF _linkage_decision, LinkageDecision
    <2> QED
      BY <2>2, NullAssumption
  <1>3. (\E o \in S : o.product_type # c.canonical.product_type)
          <=> Cardinality({o.product_type : o \in S}) > 1
    <2> DEFINE products == {o.product_type : o \in S}
    <2>1. IsFiniteSet(products)
      <3> DEFINE f == [o \in S |-> o.product_type]
      <3>1. {f[o] : o \in S} = products /\ f = [o \in S |-> f[o]]
        OBVIOUS
      <3> HIDE DEF f, products
      <3> QED
        BY <3>1, FiniteImage DEF Locked
    <2>2. (\E o \in S : o.product_type # c.canonical.product_type)
            <=> \E x, y \in products : x # y
      BY <1>1
    <2> HIDE DEF products
    <2>3. Cardinality(products) > 1 <=> \E x, y \in products : x # y
      BY <2>1, TwoOfThem
    <2> QED
      BY <2>2, <2>3 DEF products
  <1> HIDE DEF c, d
  <1>4. validate_context_scope(c) <=>
          /\ d.decision = "ACCEPTED" => \A o \in S : o.source_trade_id = trade_id
          /\ \A o \in S : o.product_type = c.canonical.product_type
    BY <1>1, <1>2 DEF validate_context_scope
  <1> QED
    BY <1>3, <1>4 DEF c, d

\* A break with one comparison is refused if its operands show the same value,
\* or are the same observation.
LEMMA OneComparison ==
    ASSUME NEW family, NEW field, NEW expected, NEW observed, NEW differ \in BOOLEAN
    PROVE  validate_break_invariants(
               Break(family, {Comparison(field, expected, observed, differ)}))
             <=> /\ differ
                 /\ family \in _BREAK_DISTINCT_SOURCE_FAMILIES => expected # observed
  <1> DEFINE x == Comparison(field, expected, observed, differ)
             b == Break(family, {x})
  <1>1. x.differ = differ /\ x.expected_source = expected /\ x.observed_source = observed
    BY DEF Comparison
  <1> HIDE DEF x
  <1>2. b.family = family /\ b.comparisons = {x}
    BY DEF Break
  <1> HIDE DEF b
  <1>3. validate_break_invariants(b)
          <=> /\ x.differ
              /\ family \in _BREAK_DISTINCT_SOURCE_FAMILIES => x.expected_source # x.observed_source
    BY <1>2 DEF validate_break_invariants
  <1> QED
    BY <1>1, <1>3 DEF x, b

\* The comparisons with the authoritative observation are never refused.
LEMMA DivergenceHolds ==
    ASSUME NEW S, Locked(S), NEW c, c.observations = S, NEW family, NEW fields,
           NEW b \in BreakOf(family, Divergence(c, fields))
    PROVE  validate_break_invariants(b)
  <1> DEFINE divergent(f) == { o \in c.observations :
                                 /\ o.observation_id # c.canonical.observation_id
                                 /\ ~ Agree(f, c.canonical.value[f], o.value[f]) }
             shown(f) == Comparison(f, c.canonical.observation_id,
                                    FirstOf(divergent(f)).observation_id, TRUE)
             parted == {g \in fields : divergent(g) # {}}
  <1>1. Divergence(c, fields) = {shown(f) : f \in parted}
    BY DEF Divergence
  <1>2. b.family = family /\ b.comparisons = Divergence(c, fields)
    BY DEF BreakOf, Break
  <1>3. ASSUME NEW f \in parted
        PROVE  shown(f).differ /\ shown(f).expected_source # shown(f).observed_source
    <2> DEFINE T == divergent(f)
    <2>1. T \in SUBSET S /\ T # {}
      BY <1>3
    <2>2. \A o \in T : o.observation_id # c.canonical.observation_id
      OBVIOUS
    <2>3. /\ shown(f).differ = TRUE
          /\ shown(f).expected_source = c.canonical.observation_id
          /\ shown(f).observed_source = FirstOf(T).observation_id
      BY DEF Comparison
    <2> HIDE DEF T, shown, divergent
    <2>4. FirstOf(T) \in T
      BY <2>1, LockedPart, FirstIsFirst
    <2> QED
      BY <2>2, <2>3, <2>4
  <1> HIDE DEF shown, parted
  <1> QED
    BY <1>1, <1>2, <1>3 DEF validate_break_invariants

\* A late source and a refused linkage are never refused.
LEMMA MissingHolds ==
    ASSUME NEW c, NEW b \in _missing_source_breaks(c) \cup _linkage_break(c)
    PROVE  validate_break_invariants(b)
  <1>1. /\ "MISSING_REQUIRED_SOURCE" \notin _BREAK_DISTINCT_SOURCE_FAMILIES
        /\ "AMBIGUOUS_OR_UNMATCHED_LINKAGE" \notin _BREAK_DISTINCT_SOURCE_FAMILIES
    BY DEF _BREAK_DISTINCT_SOURCE_FAMILIES
  <1> DEFINE first == FirstOf(c.observations).observation_id
  <1>2. CASE b \in _missing_source_breaks(c)
    <2>1. PICK k : b = Break("MISSING_REQUIRED_SOURCE", {Comparison(k, 0, first, TRUE)})
      BY <1>2 DEF _missing_source_breaks
    <2> HIDE DEF first
    <2> QED
      BY <1>1, <2>1, OneComparison
  <1>3. CASE b \in _linkage_break(c)
    <2>1. b = Break("AMBIGUOUS_OR_UNMATCHED_LINKAGE",
                    {Comparison("trade_id", first, first, TRUE)})
      BY <1>3 DEF _linkage_break
    <2> HIDE DEF first
    <2> QED
      BY <1>1, <2>1, OneComparison
  <1> QED
    BY <1>2, <1>3

\* A conflicting delivery is refused if it was sent twice and both copies sort first.
LEMMA DuplicateFails ==
    ASSUME NEW S, Locked(S), NEW c, c.observations = S
    PROVE  (\E b \in _duplicate_breaks(c) : ~ validate_break_invariants(b))
             <=> \E group \in ConflictGroups(S) :
                   \E o, p \in group :
                     /\ o # p /\ content_hash(o) = content_hash(p)
                     /\ \A q \in group \ {o, p} : Before(o, q) /\ Before(p, q)
  <1> DEFINE first(group)  == FirstOf(group)
             second(group) == FirstOf(group \ {first(group)})
             differ(group) == content_hash(first(group)) # content_hash(second(group))
             broken(group) == Break("DUPLICATE_SOURCE_CONFLICT",
                                    {Comparison("content_hash", first(group).observation_id,
                                                second(group).observation_id, differ(group))})
  <1>1. _duplicate_breaks(c) = {broken(group) : group \in ConflictGroups(S)}
    BY DEF _duplicate_breaks
  <1>2. ASSUME NEW group \in ConflictGroups(S)
        PROVE  /\ Locked(group) /\ group # {}
               /\ \A o \in group : group \ {o} # {}
    <2>1. group \in SUBSET S /\ Cardinality({content_hash(p) : p \in group}) >= 2
      BY DEF ConflictGroups
    <2>2. ASSUME NEW o, group \in SUBSET {o} PROVE FALSE
      <3>1. {content_hash(p) : p \in group} \in SUBSET {content_hash(o)}
        BY <2>2
      <3> DEFINE H == {content_hash(p) : p \in group}
                 h == content_hash(o)
      <3>2. H \in SUBSET {h}
        BY <3>1
      <3> HIDE DEF H, h
      <3>3. IsFiniteSet({h}) /\ Cardinality({h}) = 1
        BY FS_Singleton
      <3>4. Cardinality(H) <= 1 /\ IsFiniteSet(H)
        BY <3>2, <3>3, FS_Subset
      <3>5. Cardinality(H) \in Nat
        BY <3>4, FS_CardinalityType
      <3>6. Cardinality(H) >= 2
        BY <2>1 DEF H
      <3> QED
        BY <3>4, <3>5, <3>6
    <2> QED
      BY <2>1, <2>2, LockedPart
  <1>3. ASSUME NEW group \in ConflictGroups(S)
        PROVE  /\ first(group) \in group
               /\ \A p \in group \ {first(group)} : Before(first(group), p)
               /\ second(group) \in group \ {first(group)}
               /\ \A p \in (group \ {first(group)}) \ {second(group)} : Before(second(group), p)
               /\ first(group).observation_id # second(group).observation_id
    <2>1. /\ first(group) \in group
          /\ \A p \in group \ {first(group)} : Before(first(group), p)
      BY <1>2, FirstIsFirst
    <2> DEFINE rest == group \ {first(group)}
    <2>2. Locked(rest) /\ rest # {}
      BY <1>2, <2>1, LockedPart
    <2>3. FirstOf(rest) \in rest /\ \A p \in rest \ {FirstOf(rest)} : Before(FirstOf(rest), p)
      <3> HIDE DEF rest
      <3> QED
        BY <2>2, FirstIsFirst
    <2>4. \A o, p \in group : o.observation_id = p.observation_id => o = p
      BY <1>2 DEF Locked
    <2> QED
      BY <2>1, <2>3, <2>4
  <1>4. ASSUME NEW group \in ConflictGroups(S)
        PROVE  validate_break_invariants(broken(group)) <=> differ(group)
    <2>1. differ(group) \in BOOLEAN
      OBVIOUS
    <2>2. first(group).observation_id # second(group).observation_id
      BY <1>3
    <2> HIDE DEF first, second, differ
    <2> QED
      BY <2>1, <2>2, OneComparison
  <1>5. ASSUME NEW group \in ConflictGroups(S), ~ differ(group)
        PROVE  \E o, p \in group :
                 /\ o # p /\ content_hash(o) = content_hash(p)
                 /\ \A q \in group \ {o, p} : Before(o, q) /\ Before(p, q)
    <2>1. /\ first(group) \in group /\ second(group) \in group
          /\ first(group) # second(group)
          /\ content_hash(first(group)) = content_hash(second(group))
          /\ \A q \in group \ {first(group), second(group)} :
                Before(first(group), q) /\ Before(second(group), q)
      BY <1>3, <1>5
    <2> HIDE DEF first, second
    <2> QED
      BY <2>1
  <1>6. ASSUME NEW group \in ConflictGroups(S), NEW o \in group, NEW p \in group,
               o # p, content_hash(o) = content_hash(p), Before(o, p),
               \A q \in group \ {o, p} : Before(o, q) /\ Before(p, q)
        PROVE  ~ differ(group)
    <2>1. first(group) = o
      BY <1>2, <1>6, FirstIsUnique
    <2> DEFINE rest == group \ {o}
    <2>2. Locked(rest) /\ p \in rest /\ \A q \in rest \ {p} : Before(p, q)
      BY <1>2, <1>6, LockedPart
    <2>3. FirstOf(rest) = p
      <3> HIDE DEF rest
      <3> QED
        BY <2>2, FirstIsUnique
    <2>4. second(group) = p
      BY <2>1, <2>3
    <2> HIDE DEF first, second
    <2> QED
      BY <1>6, <2>1, <2>4
  <1>7. ASSUME NEW group \in ConflictGroups(S), NEW o \in group, NEW p \in group,
               o # p, content_hash(o) = content_hash(p),
               \A q \in group \ {o, p} : Before(o, q) /\ Before(p, q)
        PROVE  ~ differ(group)
    <2>1. Before(o, p) \/ Before(p, o)
      BY <1>2, <1>7, BeforeOrders
    <2>2. \A q \in group \ {p, o} : Before(p, q) /\ Before(o, q)
      BY <1>7
    <2> HIDE DEF differ
    <2> QED
      BY <1>6, <1>7, <2>1, <2>2
  <1> HIDE DEF broken, differ
  <1> QED
    BY <1>1, <1>4, <1>5, <1>7

\* The statuses that two kinds share with what the rule says of one of them.
LEMMA SharedStatus ==
    ASSUME NEW o \in Observation, NEW kind \in Kinds,
           o.lifecycle_status = lifecycle_rule[kind],
           o.lifecycle_status # lifecycle_rule[o.observation_kind]
    PROVE  o.observation_kind = "CONFIRMATION" /\ kind = "TRADE_CAPTURE"
  <1>1. /\ o.observation_kind \in Kinds
        /\ o.lifecycle_status \in LifecycleStatus[o.observation_kind]
    BY ObservationFields
  <1> QED
    BY <1>1 DEF Kinds, LifecycleStatus, lifecycle_rule

\* Of two kinds, the more trusted one is read first.
LEMMA RankedFirst ==
    ASSUME NEW S, Locked(S), NEW o \in S, NEW p \in S, Before(o, p)
    PROVE  _OBSERVATION_RANK[o.observation_kind] <= _OBSERVATION_RANK[p.observation_kind]
  <1>1. /\ _OBSERVATION_RANK[o.observation_kind] \in Nat
        /\ _OBSERVATION_RANK[p.observation_kind] \in Nat
    BY ObservationFields DEF Locked
  <1> QED
    BY <1>1 DEF Before

\* A wrong status is refused if it is a pending confirmation of a captured trade.
LEMMA LifecycleFails ==
    ASSUME NEW S, Locked(S), NEW c, c.observations = S
    PROVE  (\E b \in _lifecycle_break(c) : ~ validate_break_invariants(b))
             <=> LET of(kind) == {o \in S : o.observation_kind = kind}
                     unconfirmed == {o \in of("CONFIRMATION") : o.lifecycle_status # "CONFIRMED"}
                 IN  /\ of("EXECUTION") = {} /\ of("TRADE_CAPTURE") # {}
                     /\ \A o \in of("TRADE_CAPTURE") : o.lifecycle_status = "CAPTURED"
                     /\ unconfirmed # {} /\ FirstOf(unconfirmed).lifecycle_status = "CAPTURED"
  <1> DEFINE of(kind) == {o \in S : o.observation_kind = kind}
             unconfirmed == {o \in of("CONFIRMATION") : o.lifecycle_status # "CONFIRMED"}
             right     == {o \in S : o.lifecycle_status = lifecycle_rule[o.observation_kind]}
             wrong     == S \ right
             observed  == FirstOf(wrong)
             others    == S \ {observed}
             different == {o \in others : o.lifecycle_status # observed.lifecycle_status}
             pool      == IF right # {} THEN right
                          ELSE IF different # {} THEN different ELSE others
             expected  == FirstOf(pool)
             differ    == ShownStatus(expected, observed) # observed.lifecycle_status
             none      == \/ \E s \in {"AMENDED", "CANCELLED"} : \A o \in S : o.lifecycle_status = s
                          \/ S = right
                          \/ others = {}
             broken    == Break("LIFECYCLE_STATUS_MISMATCH",
                                {Comparison("lifecycle_status", expected.observation_id,
                                            observed.observation_id, differ)})
             pending   == /\ of("EXECUTION") = {} /\ of("TRADE_CAPTURE") # {}
                          /\ \A o \in of("TRADE_CAPTURE") : o.lifecycle_status = "CAPTURED"
                          /\ unconfirmed # {} /\ FirstOf(unconfirmed).lifecycle_status = "CAPTURED"
  <1>1. _lifecycle_break(c) = IF none THEN {} ELSE {broken}
    BY DEF _lifecycle_break
  <1>2. \A o \in S : /\ o \in Observation /\ o.observation_kind \in Kinds
                     /\ o.lifecycle_status \in LifecycleStatus[o.observation_kind]
    BY ObservationFields DEF Locked
  <1>3. ASSUME ~ none
        PROVE  /\ observed \in wrong /\ \A p \in wrong \ {observed} : Before(observed, p)
               /\ expected \in pool /\ \A p \in pool \ {expected} : Before(expected, p)
               /\ pool \in SUBSET S /\ observed \notin pool
               /\ expected.observation_id # observed.observation_id
    <2>1. wrong \in SUBSET S /\ wrong # {} /\ others # {}
      BY <1>3
    <2>2. observed \in wrong /\ \A p \in wrong \ {observed} : Before(observed, p)
      <3> HIDE DEF wrong
      <3> QED
        BY <2>1, LockedPart, FirstIsFirst
    <2>3. pool \in SUBSET S /\ pool # {} /\ observed \notin pool
      <3>1. observed \notin right /\ observed \notin others
        BY <2>2
      <3> HIDE DEF observed
      <3> QED
        BY <2>1, <3>1
    <2>4. expected \in pool /\ \A p \in pool \ {expected} : Before(expected, p)
      <3> HIDE DEF pool
      <3> QED
        BY <2>3, LockedPart, FirstIsFirst
    <2>5. expected \in S /\ observed \in S /\ expected # observed
      <3> HIDE DEF pool, expected, observed
      <3> QED
        BY <2>1, <2>2, <2>3, <2>4
    <2>6. expected.observation_id # observed.observation_id
      <3> HIDE DEF expected, observed
      <3> QED
        BY <2>5 DEF Locked
    <2> QED
      BY <2>2, <2>3, <2>4, <2>6
  <1>4. ASSUME ~ none
        PROVE  ~ validate_break_invariants(broken)
                 <=> /\ expected.lifecycle_status = observed.lifecycle_status
                     /\ lifecycle_rule[expected.observation_kind] = observed.lifecycle_status
    <2>1. expected.observation_id # observed.observation_id
      BY <1>3, <1>4
    <2> HIDE DEF none, observed, expected
    <2>2. differ \in BOOLEAN
      OBVIOUS
    <2>3. differ <=> ~ /\ expected.lifecycle_status = observed.lifecycle_status
                       /\ lifecycle_rule[expected.observation_kind] = observed.lifecycle_status
      BY DEF ShownStatus
    <2> HIDE DEF differ
    <2> QED
      BY <2>1, <2>2, <2>3, OneComparison
  <1>5. ASSUME ~ none, ~ validate_break_invariants(broken) PROVE pending
    <2>1. /\ observed \in wrong /\ \A p \in wrong \ {observed} : Before(observed, p)
          /\ expected \in pool /\ \A p \in pool \ {expected} : Before(expected, p)
          /\ pool \in SUBSET S
      BY <1>3, <1>5
    <2>2. /\ expected.lifecycle_status = observed.lifecycle_status
          /\ lifecycle_rule[expected.observation_kind] = observed.lifecycle_status
      BY <1>4, <1>5
    <2>3. /\ expected \in S /\ observed \in S
          /\ observed.lifecycle_status # lifecycle_rule[observed.observation_kind]
          /\ expected \in right
      <3> HIDE DEF expected, observed, pool
      <3> QED
        BY <2>1, <2>2
    <2>4. pool = right
      BY <2>3
    <2>5. /\ observed.observation_kind = "CONFIRMATION"
          /\ expected.observation_kind = "TRADE_CAPTURE"
          /\ observed.lifecycle_status = "CAPTURED"
      <3> HIDE DEF expected, observed
      <3>1. /\ observed.observation_kind = "CONFIRMATION"
            /\ expected.observation_kind = "TRADE_CAPTURE"
        BY <1>2, <2>2, <2>3, SharedStatus
      <3> QED
        BY <2>2, <3>1 DEF lifecycle_rule
    <2> HIDE DEF none, expected, observed
    <2>6. ASSUME NEW o \in S, o.observation_kind \in {"EXECUTION", "TRADE_CAPTURE"}
          PROVE  o \in right
      <3>1. SUFFICES ASSUME o \in wrong PROVE FALSE
        OBVIOUS
      <3>2. Before(observed, o)
        BY <2>1, <2>5, <2>6, <3>1
      <3>3. _OBSERVATION_RANK["CONFIRMATION"] <= _OBSERVATION_RANK[o.observation_kind]
        BY <2>3, <2>5, <3>2, RankedFirst
      <3> QED
        BY <2>6, <3>3 DEF _OBSERVATION_RANK
    <2>7. of("EXECUTION") = {}
      <3>1. ASSUME NEW o \in S, o.observation_kind = "EXECUTION" PROVE FALSE
        <4>1. Before(expected, o)
          BY <2>1, <2>4, <2>5, <2>6, <3>1
        <4>2. _OBSERVATION_RANK["TRADE_CAPTURE"] <= _OBSERVATION_RANK["EXECUTION"]
          BY <2>3, <2>5, <3>1, <4>1, RankedFirst
        <4> QED
          BY <4>2 DEF _OBSERVATION_RANK
      <3> QED
        BY <3>1
    <2>8. of("TRADE_CAPTURE") # {} /\ \A o \in of("TRADE_CAPTURE") : o.lifecycle_status = "CAPTURED"
      BY <2>3, <2>5, <2>6 DEF lifecycle_rule
    <2>9. observed \in unconfirmed
      BY <2>3, <2>5
    <2>10. FirstOf(unconfirmed) = observed
      <3>1. unconfirmed \in SUBSET wrong
        BY DEF lifecycle_rule
      <3>2. unconfirmed \in SUBSET S
        OBVIOUS
      <3> HIDE DEF unconfirmed, wrong
      <3> QED
        BY <2>1, <2>9, <3>1, <3>2, LockedPart, FirstIsUnique
    <2> QED
      BY <2>5, <2>7, <2>8, <2>9, <2>10
  <1>6. ASSUME pending PROVE ~ none /\ ~ validate_break_invariants(broken)
    <2> DEFINE first == FirstOf(unconfirmed)
    <2>1. /\ first \in unconfirmed /\ \A p \in unconfirmed \ {first} : Before(first, p)
          /\ first.lifecycle_status = "CAPTURED"
      <3>1. unconfirmed \in SUBSET S /\ unconfirmed # {} /\ FirstOf(unconfirmed).lifecycle_status = "CAPTURED"
        BY <1>6
      <3> HIDE DEF unconfirmed
      <3> QED
        BY <3>1, LockedPart, FirstIsFirst
    <2>2. PICK captured \in S : /\ captured.observation_kind = "TRADE_CAPTURE"
                                /\ captured.lifecycle_status = "CAPTURED"
      BY <1>6
    <2>3. captured \in right /\ right # {}
      BY <2>2 DEF lifecycle_rule
    <2>4. first \in wrong /\ first \in S /\ first.observation_kind = "CONFIRMATION"
      <3> HIDE DEF first
      <3> QED
        BY <2>1 DEF lifecycle_rule
    <2>5. ASSUME NEW o \in wrong, o # first PROVE Before(first, o)
      <3>1. o \in S /\ o.observation_kind \in {"CONFIRMATION", "BOOKING"}
        BY <1>2, <1>6, <2>5 DEF Kinds, lifecycle_rule
      <3>2. CASE o.observation_kind = "CONFIRMATION"
        <4>1. o \in unconfirmed
          BY <2>5, <3>1, <3>2 DEF lifecycle_rule
        <4> HIDE DEF first
        <4> QED
          BY <2>1, <2>5, <4>1
      <3>3. CASE o.observation_kind = "BOOKING"
        <4> HIDE DEF first
        <4> QED
          BY <2>4, <3>3 DEF Before, _OBSERVATION_RANK
      <3> QED
        BY <3>1, <3>2, <3>3
    <2>6. observed = first
      <3>1. wrong \in SUBSET S
        OBVIOUS
      <3> HIDE DEF wrong, first
      <3> QED
        BY <2>4, <2>5, <3>1, LockedPart, FirstIsUnique
    <2>7. ~ none
      <3>1. \A s \in {"AMENDED", "CANCELLED"} : first.lifecycle_status # s
        BY <2>1
      <3>2. S # right
        BY <2>4
      <3>3. others # {}
        BY <2>2, <2>4, <2>6
      <3> HIDE DEF first, right, others
      <3> QED
        BY <2>4, <3>1, <3>2, <3>3
    <2>8. /\ expected \in right /\ \A p \in right \ {expected} : Before(expected, p)
      <3>1. pool = right
        BY <2>3
      <3>2. expected \in pool /\ \A p \in pool \ {expected} : Before(expected, p)
        BY <1>3, <2>7
      <3> HIDE DEF expected, pool
      <3> QED
        BY <3>1, <3>2
    <2> HIDE DEF expected, observed, first, none
    <2>9. expected.observation_kind = "TRADE_CAPTURE"
      <3>1. expected \in S /\ expected.observation_kind \in Kinds
            /\ expected.observation_kind # "EXECUTION"
        BY <1>2, <1>6, <2>8
      <3>2. \/ expected = captured
            \/ _OBSERVATION_RANK[expected.observation_kind] <= _OBSERVATION_RANK["TRADE_CAPTURE"]
        BY <2>2, <2>3, <2>8, <3>1, RankedFirst
      <3> QED
        BY <2>2, <3>1, <3>2 DEF Kinds, _OBSERVATION_RANK
    <2>10. expected.lifecycle_status = "CAPTURED" /\ observed.lifecycle_status = "CAPTURED"
      BY <2>1, <2>6, <2>8, <2>9 DEF lifecycle_rule
    <2> QED
      BY <1>4, <2>7, <2>9, <2>10 DEF lifecycle_rule
  <1> HIDE DEF none, broken, pending
  <1>7. (\E b \in _lifecycle_break(c) : ~ validate_break_invariants(b)) <=> pending
    BY <1>1, <1>5, <1>6
  <1> QED
    BY <1>7 DEF pending

\* A break of any family is refused for one of two reasons.
LEMMA BreaksFail ==
    ASSUME NEW S, Locked(S), NEW c, c.observations = S, c.verification = NULL
    PROVE  (\E b \in Breaks(c) : ~ validate_break_invariants(b))
             <=> \/ \E b \in _duplicate_breaks(c) : ~ validate_break_invariants(b)
                 \/ \E b \in _lifecycle_break(c) : ~ validate_break_invariants(b)
  <1>1. ASSUME NEW b \in Breaks(c),
               b \notin _duplicate_breaks(c), b \notin _lifecycle_break(c)
        PROVE  validate_break_invariants(b)
    <2>1. _post_action_break(c) = {}
      BY DEF _post_action_break
    <2>2. \/ b \in _missing_source_breaks(c) \/ b \in _linkage_break(c)
          \/ b \in _currency_breaks(c) \/ b \in _economic_breaks(c) \/ b \in _date_break(c)
      BY <1>1, <2>1 DEF Breaks
    <2>3. CASE b \in _currency_breaks(c) \/ b \in _economic_breaks(c) \/ b \in _date_break(c)
      BY <2>3, DivergenceHolds DEF _currency_breaks, _economic_breaks, _date_break
    <2> QED
      BY <2>2, <2>3, MissingHolds
  <1>2. _duplicate_breaks(c) \in SUBSET Breaks(c) /\ _lifecycle_break(c) \in SUBSET Breaks(c)
    BY DEF Breaks
  <1> QED
    BY <1>1, <1>2

\* The reasons of an accepted group S, as OnlyKnownFailures names them.
Contradicts(S, t) ==
    \/ /\ _linkage_decision(S, t).decision = "ACCEPTED"
       /\ \E o \in S : o.source_trade_id # t
    \/ Cardinality({o.product_type : o \in S}) > 1

Retransmitted(S) ==
    \E group \in ConflictGroups(S) :
        \E o, p \in group :
            /\ o # p /\ content_hash(o) = content_hash(p)
            /\ \A q \in group \ {o, p} : Before(o, q) /\ Before(p, q)

Pending(S) ==
    LET of(kind) == {o \in S : o.observation_kind = kind}
        unconfirmed == {o \in of("CONFIRMATION") : o.lifecycle_status # "CONFIRMED"}
    IN  /\ of("EXECUTION") = {} /\ of("TRADE_CAPTURE") # {}
        /\ \A o \in of("TRADE_CAPTURE") : o.lifecycle_status = "CAPTURED"
        /\ unconfirmed # {} /\ FirstOf(unconfirmed).lifecycle_status = "CAPTURED"

\* The watermark is the time of the observation that came last.
LEMMA WatermarkIsLatest ==
    ASSUME NEW S, Locked(S), S # {}
    PROVE  /\ \E o \in S : source_watermark(S) = o.ingest_time
           /\ \A o \in S : o.ingest_time <= source_watermark(S)
  <1> DEFINE R == {r \in S \X S : r[1].ingest_time > r[2].ingest_time}
             times == {o.ingest_time : o \in S}
  <1>1. \A o \in S : o.ingest_time \in Nat
    BY ObservationFields DEF Locked
  <1>2. \A o, p \in S : <<o, p>> \in R <=> o.ingest_time > p.ingest_time
    OBVIOUS
  <1> HIDE DEF R
  <1>3. Orders(R, S)
    BY <1>1, <1>2 DEF Orders
  <1>4. PICK o \in S : \A p \in S : <<p, o>> \notin R
    BY <1>3, Undominated DEF Locked
  <1>5. o.ingest_time \in times /\ \A p \in S : p.ingest_time <= o.ingest_time
    <2>1. o.ingest_time \in times
      OBVIOUS
    <2>2. ASSUME NEW p \in S PROVE p.ingest_time <= o.ingest_time
      <3>1. ~ (p.ingest_time > o.ingest_time)
        BY <1>2, <1>4
      <3> QED
        BY <1>1, <3>1
    <2> QED
      BY <2>1, <2>2
  <1>6. source_watermark(S) \in times /\ \A p \in S : p.ingest_time <= source_watermark(S)
    BY <1>5 DEF source_watermark
  <1> QED
    BY <1>6

\* Everything came too early, or something too late.
Outside(S) ==
    \/ S # {} /\ \A o \in S : o.ingest_time < effective_from
    \/ effective_to # NULL /\ \E o \in S : o.ingest_time >= effective_to

\* The configuration is in effect at the watermark unless that is so.
LEMMA EffectFails ==
    ASSUME NEW S, Locked(S), S # {}
    PROVE  ~ IsEffective(source_watermark(S) + 0) <=> Outside(S)
  <1>1. \A o \in S : o.ingest_time \in Nat
    BY ObservationFields DEF Locked
  <1>2. PICK last \in S : source_watermark(S) = last.ingest_time
    BY WatermarkIsLatest
  <1>3. \A o \in S : o.ingest_time <= last.ingest_time
    BY <1>2, WatermarkIsLatest
  <1>4. source_watermark(S) + 0 = last.ingest_time
    BY <1>1, <1>2
  <1>5. effective_from \in Nat /\ (effective_to # NULL => effective_to \in Nat)
    BY ConfigAssumption
  <1>6. last.ingest_time < effective_from <=> \A o \in S : o.ingest_time < effective_from
    BY <1>1, <1>3, <1>5
  <1>7. ASSUME effective_to # NULL
        PROVE  last.ingest_time >= effective_to <=> \E o \in S : o.ingest_time >= effective_to
    BY <1>1, <1>3, <1>5, <1>7
  <1>8. IsEffective(last.ingest_time)
          <=> /\ ~(last.ingest_time < effective_from)
              /\ effective_to # NULL => ~(last.ingest_time >= effective_to)
    BY <1>1, <1>5 DEF IsEffective
  <1> QED
    BY <1>4, <1>6, <1>7, <1>8 DEF Outside

\* A linkage decision has no more candidates than there are observations, and can
\* be built with eight.
LEMMA CandidatesFit ==
    ASSUME NEW S, NEW t, Locked(S)
    PROVE  ~ valid_evidence_hashes(_linkage_decision(S, t))
             <=> Cardinality({o.source_trade_id : o \in S}) > 8
  <1> DEFINE named == {o.source_trade_id : o \in S}
             f     == [o \in S |-> o.source_trade_id]
  <1>1. f \in Surjection(S, named)
    BY DEF Surjection
  <1> HIDE DEF f, named
  <1>2. /\ Cardinality(named) <= Cardinality(S)
        /\ Cardinality(named) \in Nat /\ Cardinality(S) \in Nat
    BY <1>1, FS_Surjection, FS_CardinalityType DEF Locked
  <1>3. _linkage_decision(S, t).candidates
          = IF Cardinality(S) > 4 /\ Cardinality(named) > 1 THEN Cardinality(named)
            ELSE IF \E o \in S : o.source_business_key # t THEN 0 ELSE 1
    BY DEF _linkage_decision, named
  <1> QED
    BY <1>2, <1>3 DEF valid_evidence_hashes, named

\* An accepted group fails when its context, its time or one of two breaks is refused.
LEMMA RunFails ==
    ASSUME NEW S, NEW t \in Trades, Locked(S), _resolved_observation(S, t) \in S
    PROVE  run(Context(S, t)).result = "ERROR"
             <=> Contradicts(S, t) \/ Retransmitted(S) \/ Pending(S) \/ Outside(S)
  <1> DEFINE c == Context(S, t)
  <1>1. c.observations = S /\ c.verification = NULL /\ c.wait = 0
    BY DEF Context
  <1>2. ~ validate_context_scope(c) <=> Contradicts(S, t)
    BY ScopeFails DEF Contradicts
  <1> HIDE DEF c
  <1>3. (\E b \in _duplicate_breaks(c) : ~ validate_break_invariants(b)) <=> Retransmitted(S)
    BY <1>1, DuplicateFails DEF Retransmitted
  <1>4. (\E b \in _lifecycle_break(c) : ~ validate_break_invariants(b)) <=> Pending(S)
    BY <1>1, LifecycleFails DEF Pending
  <1>5. run(c).result = "ERROR"
          <=> \/ ~ validate_context_scope(c)
              \/ ~ IsEffective(source_watermark(c.observations) + c.wait)
              \/ \E b \in Breaks(c) : ~ validate_break_invariants(b)
    <2>1. ASSUME NEW a \in BOOLEAN, NEW breaks
          PROVE  (IF a
                  THEN [result |-> IF breaks = {} THEN "PASS" ELSE "BREAKS_DETECTED",
                        breaks |-> breaks]
                  ELSE Raised).result = "ERROR" <=> ~ a
      BY DEF Raised
    <2> QED
      BY <2>1 DEF run
  <1>6. (\E b \in Breaks(c) : ~ validate_break_invariants(b)) <=> Retransmitted(S) \/ Pending(S)
    BY <1>1, <1>3, <1>4, BreaksFail
  <1>7. ~ IsEffective(source_watermark(c.observations) + c.wait) <=> Outside(S)
    BY <1>1, EffectFails
  <1> QED
    BY <1>2, <1>5, <1>6, <1>7 DEF c

\* A group that is not accepted is empty, or has two observations under one
\* identifier or in two scopes.
LEMMA NotAccepted ==
    ASSUME GroupInv
    PROVE  ~ _locked_source_set(Sources) <=> NothingLeft \/ AmbiguousIdentity \/ MixedScope
  <1>1. IsFiniteSet(Sources) /\ Sources \in SUBSET Observation
    <2>1. IsFiniteSet(inbox \cup conflicts) /\ inbox \cup conflicts \in SUBSET Observation
      BY FS_Union DEF GroupInv, TypeOK
    <2> QED
      BY <2>1, FS_Subset DEF Sources, NotSuperseded
  <1>2. ASSUME ~ NothingLeft, ~ AmbiguousIdentity, ~ MixedScope PROVE _locked_source_set(Sources)
    <2>1. Locked(Sources) /\ Sources # {} /\ OneScope(Sources)
      BY <1>1, <1>2 DEF NothingLeft, AmbiguousIdentity, MixedScope, Locked, OneScope
    <2> QED
      BY <2>1, LockedAccepted
  <1>3. ASSUME _locked_source_set(Sources)
        PROVE  ~ (NothingLeft \/ AmbiguousIdentity \/ MixedScope)
    <2>1. Locked(Sources) /\ Sources # {} /\ OneScope(Sources)
      BY <1>1, <1>3, LockedSources
    <2> QED
      BY <2>1 DEF NothingLeft, AmbiguousIdentity, MixedScope, Locked, OneScope
  <1> QED
    BY <1>2, <1>3

\* A lineage makes the run fail for the known reasons and for no other: nothing
\* that is not superseded, an identifier twice, two scopes, times outside the
\* configuration's interval, more than eight trades, a payload against the linkage,
\* a pending confirmation of a captured trade, and a conflict that was sent again.
THEOREM RunsFailForKnownReasons == Spec => []OnlyKnownFailures
  <1>1. ASSUME GroupInv PROVE OnlyKnownFailures
    <2> DEFINE linkage == _linkage_decision(Sources, TradeId)
    <2>1. CASE ~ _locked_source_set(Sources)
      <3>1. Verdict = Raised
        BY <2>1 DEF Verdict, _reconcile_lineage_group, Sources, Group
      <3>2. NothingLeft \/ AmbiguousIdentity \/ MixedScope
        BY <1>1, <2>1, NotAccepted
      <3> QED
        BY <3>1, <3>2 DEF OnlyKnownFailures, Raised
    <2>2. CASE _locked_source_set(Sources)
      <3>1. /\ Locked(Sources) /\ TradeId \in Trades
            /\ _resolved_observation(Sources, TradeId) \in Sources
        BY <1>1, <2>2, AcceptedSources
      <3>2. Verdict = IF valid_evidence_hashes(linkage) THEN run(Context(Sources, TradeId))
                                                        ELSE Raised
        BY <2>2 DEF Verdict, _reconcile_lineage_group, Sources, Group, TradeId, Context
      <3>3. run(Context(Sources, TradeId)).result = "ERROR"
              <=> \/ Contradicts(Sources, TradeId) \/ Retransmitted(Sources)
                  \/ Pending(Sources) \/ Outside(Sources)
        BY <3>1, RunFails
      <3>4. ~ valid_evidence_hashes(linkage) <=> TooManyCandidates
        BY <3>1, CandidatesFit DEF TooManyCandidates
      <3>5. /\ Contradicts(Sources, TradeId) <=> ContradictsLinkage
            /\ Retransmitted(Sources) <=> RetransmittedConflict
            /\ Pending(Sources) <=> PendingWithoutExecution
            /\ Outside(Sources) <=> NotEffective
        BY DEF Contradicts, ContradictsLinkage, Retransmitted, RetransmittedConflict,
               Pending, PendingWithoutExecution, Outside, NotEffective
      <3>6. ~ (NothingLeft \/ AmbiguousIdentity \/ MixedScope)
        BY <1>1, <2>2, NotAccepted
      <3> HIDE DEF linkage
      <3>7. Verdict.result = "ERROR"
              <=> \/ ~ valid_evidence_hashes(linkage)
                  \/ run(Context(Sources, TradeId)).result = "ERROR"
        BY <3>2 DEF Raised
      <3> QED
        BY <3>3, <3>4, <3>5, <3>6, <3>7 DEF OnlyKnownFailures
    <2> QED
      BY <2>1, <2>2
  <1> QED
    BY <1>1, GroupsStayFormed, PTL

-----------------------------------------------------------------------------
\* The authority of a trade.

\* What the contracts say of observation identity (packages/contracts/README.md,
\* Version and identity rules): an identifier names one revision of one record,
\* and a revision supersedes an older version of its own record.  No source knows
\* the identifiers drawn for corrections.
RevisionsGoForward ==
    \A o, p \in Feed :
        /\ o.observation_id = p.observation_id =>
              identity_key(o) = identity_key(p) /\ o.source_trade_id = p.source_trade_id
        /\ o.supersedes_observation_id = p.observation_id =>
              /\ o.observation_kind = p.observation_kind
              /\ o.source_business_key = p.source_business_key
              /\ o.source_trade_id = p.source_trade_id
              /\ o.source_version > p.source_version
        /\ o.supersedes_observation_id \notin CorrectionIds

\* A later version of the same record.
Later(o, p) ==
    /\ o.observation_kind = p.observation_kind
    /\ o.source_business_key = p.source_business_key
    /\ o.source_trade_id = p.source_trade_id
    /\ o.source_version > p.source_version

\* A row was sent, or is a correction under an identifier of its own.
Sent(o) ==
    \/ o \in Feed
    \/ /\ o \in inbox /\ o.observation_id \in CorrectionIds
       /\ o.supersedes_observation_id \in Ids(inbox)

\* What is quarantined contradicts a row, and whatever supersedes a row is a
\* later version of it.
ChainInv ==
    /\ GroupInv
    /\ conflicts \subseteq Feed
    /\ \A o \in conflicts : \E p \in inbox : identity_key(p) = identity_key(o)
    /\ \A o \in inbox : Sent(o)
    /\ \A o, p \in inbox : o.observation_id = p.observation_id /\ o.observation_id \in CorrectionIds => o = p
    /\ \A o, p \in inbox \cup conflicts :
          o.supersedes_observation_id = p.observation_id => Later(o, p)

\* A delivery brings the links of the feed only.
LEMMA DeliverLinks ==
    ASSUME RevisionsGoForward, ChainInv, GroupInv',
           NEW o \in Feed, ingest_observations(o)
    PROVE  ChainInv'
  <1> DEFINE all == inbox \cup conflicts
  <1>1. /\ inbox' \in {inbox, inbox \cup {o}} /\ conflicts' \in {conflicts, conflicts \cup {o}}
        /\ inbox' \cup conflicts' \in SUBSET (all \cup {o})
    BY DEF ingest_observations
  <1>2. \A p \in Feed : p.observation_id \notin CorrectionIds
    BY FeedAssumption DEF Ids
  <1>3. conflicts' \subseteq Feed
    BY <1>1 DEF ChainInv
  <1>4. \A p \in conflicts' : \E q \in inbox' : identity_key(q) = identity_key(p)
    <2>1. conflicts' = conflicts \/ \E q \in inbox : identity_key(q) = identity_key(o)
      BY DEF ingest_observations
    <2> QED
      BY <1>1, <2>1 DEF ChainInv
  <1>5. \A p \in inbox' : Sent(p)'
    BY <1>1 DEF ChainInv, Sent, Ids
  <1>6. \A p, q \in inbox' :
          p.observation_id = q.observation_id /\ p.observation_id \in CorrectionIds => p = q
    BY <1>1, <1>2 DEF ChainInv
  <1>7. ASSUME NEW p \in all \cup {o}, NEW q \in all \cup {o},
               p.supersedes_observation_id = q.observation_id
        PROVE  Later(p, q)
    <2>1. CASE p \in Feed /\ q \in Feed
      BY <1>7, <2>1 DEF RevisionsGoForward, Later
    <2>2. CASE p \in Feed /\ q \notin Feed
      <3>1. q.observation_id \in CorrectionIds
        BY <2>2 DEF ChainInv, Sent
      <3> QED
        BY <1>7, <2>2, <3>1 DEF RevisionsGoForward
    <2>3. CASE p \notin Feed
      <3>1. p \in inbox /\ p.supersedes_observation_id \in Ids(inbox)
        BY <2>3 DEF ChainInv, Sent
      <3>2. CASE q \in all
        BY <1>7, <3>1, <3>2 DEF ChainInv
      <3>3. CASE q = o
        <4>1. PICK z \in inbox : p.supersedes_observation_id = z.observation_id
          BY <3>1 DEF Ids
        <4>2. Later(p, z)
          BY <3>1, <4>1 DEF ChainInv
        <4>3. z \in Feed
          BY <1>2, <1>7, <3>3, <4>1 DEF ChainInv, Sent
        <4>4. identity_key(z) = identity_key(o) /\ z.source_trade_id = o.source_trade_id
          BY <1>7, <3>3, <4>1, <4>3 DEF RevisionsGoForward
        <4> QED
          BY <3>3, <4>2, <4>4 DEF Later, identity_key
      <3> QED
        BY <3>2, <3>3
    <2> QED
      BY <2>1, <2>2, <2>3
  <1> QED
    BY <1>1, <1>3, <1>4, <1>5, <1>6, <1>7 DEF ChainInv

\* A correction is the later version of the newest booking, and of what was
\* sent under its identifier.
LEMMA CorrectionLinks ==
    ASSUME RevisionsGoForward, ChainInv, GroupInv', ingest_corrected_booking_observation
    PROVE  ChainInv'
  <1>1. PICK id \in CorrectionIds \ Ids(inbox), now \in CorrectionTimes, latest \in inbox :
          inbox' = inbox \cup {CorrectedObservation(latest, id, now, report.approved_value)}
    BY DEF ingest_corrected_booking_observation
  <1>2. conflicts' = conflicts
    BY DEF ingest_corrected_booking_observation
  <1> DEFINE new == CorrectedObservation(latest, id, now, report.approved_value)
  <1>3. latest \in Observation
    BY DEF ChainInv, GroupInv, TypeOK
  <1>4. /\ new.observation_id = id /\ new.supersedes_observation_id = latest.observation_id
        /\ new.observation_kind = latest.observation_kind
        /\ new.source_business_key = latest.source_business_key
        /\ new.source_trade_id = latest.source_trade_id
        /\ new.source_version = latest.source_version + 1
    <2>1. new = CorrectedObservation(latest, id, now, report.approved_value)
      OBVIOUS
    <2> HIDE DEF new
    <2> QED
      BY <1>3, <2>1, CorrectedFields
  <1>5. latest.source_version \in Nat
    BY <1>3, ObservationFields
  <1> HIDE DEF new
  <1>6. inbox' = inbox \cup {new}
    BY <1>1 DEF new
  <1>7. \A p \in Feed : p.observation_id \notin CorrectionIds
    BY FeedAssumption DEF Ids
  <1>8. \A p \in inbox : p.observation_id # id
    BY <1>1 DEF Ids
  <1>9. \A p \in inbox' : Sent(p)'
    BY <1>1, <1>4, <1>6 DEF ChainInv, Sent, Ids
  <1>10. \A p, q \in inbox' :
          p.observation_id = q.observation_id /\ p.observation_id \in CorrectionIds => p = q
    BY <1>4, <1>6, <1>8 DEF ChainInv
  <1>11. ASSUME NEW p \in inbox' \cup conflicts', NEW q \in inbox' \cup conflicts',
                p.supersedes_observation_id = q.observation_id
         PROVE  Later(p, q)
    <2>1. CASE p # new /\ q # new
      BY <1>2, <1>6, <1>11, <2>1 DEF ChainInv
    <2>2. CASE q = new
      <3>1. p.supersedes_observation_id = id
        BY <1>4, <1>11, <2>2
      <3>2. p.supersedes_observation_id \in Ids(inbox) \/ p \in Feed
        BY <1>2, <1>4, <1>6 DEF ChainInv, Sent, Ids
      <3> QED
        BY <1>1, <3>1, <3>2 DEF RevisionsGoForward
    <2>3. CASE p = new /\ q # new
      <3>1. q.observation_id = latest.observation_id /\ q \in inbox \cup conflicts
        BY <1>2, <1>4, <1>6, <1>11, <2>3
      <3>2. CASE q = latest
        BY <1>4, <1>5, <2>3, <3>2 DEF Later
      <3>3. CASE q # latest
        <4>1. q \in Feed /\ latest \in Feed
          BY <1>7, <3>1, <3>3 DEF ChainInv, Sent
        <4>2. identity_key(q) = identity_key(latest)
              /\ q.source_trade_id = latest.source_trade_id
          BY <3>1, <4>1 DEF RevisionsGoForward
        <4> QED
          BY <1>4, <1>5, <2>3, <4>2 DEF Later, identity_key
      <3> QED
        BY <3>2, <3>3
    <2> QED
      BY <2>1, <2>2, <2>3
  <1> QED
    BY <1>2, <1>6, <1>9, <1>10, <1>11 DEF ChainInv

\* Every step keeps the links.
LEMMA ChainStep == RevisionsGoForward /\ ChainInv /\ [Next]_vars => ChainInv'
  <1> SUFFICES ASSUME RevisionsGoForward, ChainInv, [Next]_vars PROVE ChainInv'
    OBVIOUS
  <1>1. GroupInv'
    BY GroupStep DEF ChainInv
  <1>2. CASE UNCHANGED vars
    BY <1>1, <1>2 DEF vars, ChainInv, Sent
  <1>3. CASE Deliver
    BY <1>1, <1>3, DeliversFeed, DeliverLinks
  <1>4. CASE run_reconciliation
    BY <1>1, <1>4 DEF run_reconciliation, ChainInv, Sent
  <1> QED
    BY <1>1, <1>2, <1>3, <1>4, CorrectionLinks DEF Next

\* A row that is no longer the newest has a successor that nothing supersedes.
LEMMA SuccessorExists ==
    ASSUME NEW all, IsFiniteSet(all), all \in SUBSET Observation,
           \A o, p \in all : o.supersedes_observation_id = p.observation_id => Later(o, p),
           NEW o \in all
    PROVE  \E x \in NotSuperseded(all) : x = o \/ Later(x, o)
  <1> DEFINE X == {x \in all : x = o \/ Later(x, o)}
             R == {r \in X \X X : Later(r[1], r[2])}
  <1>2. \A x \in all : x.source_version \in Nat
    BY ObservationFields
  <1>3. \A x, y, z \in all : Later(x, y) /\ Later(y, z) => Later(x, z)
    BY <1>2 DEF Later
  <1>4. IsFiniteSet(X) /\ X # {}
    <2>1. X \in SUBSET all /\ o \in X
      OBVIOUS
    <2> HIDE DEF X
    <2> QED
      BY <2>1, FS_Subset
  <1>5. \A x, y \in X : <<x, y>> \in R <=> Later(x, y)
    OBVIOUS
  <1>6. \A x \in X : ~ Later(x, x)
    BY <1>2 DEF Later
  <1>7. Orders(R, X)
    <2>1. X \in SUBSET all
      OBVIOUS
    <2> HIDE DEF R, X
    <2> QED
      BY <1>3, <1>5, <1>6, <2>1 DEF Orders
  <1>8. PICK x \in X : \A y \in X : <<y, x>> \notin R
    <2> HIDE DEF R, X
    <2> QED
      BY <1>4, <1>7, Undominated
  <1>9. ASSUME NEW y \in all, y.supersedes_observation_id = x.observation_id PROVE FALSE
    <2>1. Later(y, x)
      BY <1>9
    <2>2. y \in X
      BY <1>3, <2>1
    <2> HIDE DEF R, X
    <2> QED
      BY <1>5, <1>8, <2>1, <2>2
  <1>10. x \in NotSuperseded(all)
    BY <1>9 DEF NotSuperseded
  <1> QED
    BY <1>10

\* Rows are only added, so the old authority is still there or has a successor,
\* which the new authority is at least as good as.
LEMMA AuthorityStep ==
    ASSUME ChainInv, ChainInv', inbox \subseteq inbox', conflicts \subseteq conflicts',
           _locked_source_set(Sources), _locked_source_set(Sources'), TradeId' = TradeId
    PROVE  LET old == _resolved_observation(Sources, TradeId)
               new == _resolved_observation(Sources', TradeId)
           IN  \/ _OBSERVATION_RANK[new.observation_kind] < _OBSERVATION_RANK[old.observation_kind]
               \/ /\ new.observation_kind = old.observation_kind
                  /\ new.source_version >= old.source_version
  <1> DEFINE old == _resolved_observation(Sources, TradeId)
             new == _resolved_observation(Sources', TradeId)
  <1>1. old \in Sources /\ _eligible_for_trade(old, TradeId) /\ TradeId \in Trades
    <2>1. /\ Locked(Sources) /\ TradeId \in Trades
          /\ \E o \in Sources : TradeId = o.source_business_key
      BY AcceptedSources DEF ChainInv
    <2>2. \E o \in Sources : _eligible_for_trade(o, TradeId)
      BY <2>1 DEF _eligible_for_trade
    <2> QED
      BY <2>1, <2>2, ResolvedIsPreferred
  <1>2. Locked(Sources')
    <2>1. IsFiniteSet(inbox' \cup conflicts') /\ inbox' \cup conflicts' \in SUBSET Observation
      BY FS_Union DEF ChainInv, GroupInv, TypeOK
    <2>2. Sources' \in SUBSET (inbox' \cup conflicts')
      BY DEF Sources, NotSuperseded
    <2>3. IsFiniteSet(Sources') /\ Sources' \in SUBSET Observation
      BY <2>1, <2>2, FS_Subset
    <2> QED
      BY <2>3, LockedSources
  <1> HIDE DEF old
  <1>3. old \in inbox' \cup conflicts'
    BY <1>1 DEF Sources, NotSuperseded
  <1>4. PICK x \in Sources' : x = old \/ Later(x, old)
    <2> DEFINE all == inbox' \cup conflicts'
    <2>1. /\ IsFiniteSet(all) /\ all \in SUBSET Observation
          /\ \A o, p \in all : o.supersedes_observation_id = p.observation_id => Later(o, p)
      BY FS_Union DEF ChainInv, GroupInv, TypeOK
    <2>2. NotSuperseded(all) = Sources'
      BY DEF Sources
    <2> HIDE DEF all
    <2>3. \E y \in NotSuperseded(all) : y = old \/ Later(y, old)
      BY <1>3, <2>1, SuccessorExists DEF all
    <2> QED
      BY <2>2, <2>3
  <1>5. _eligible_for_trade(x, TradeId) /\ x.observation_kind = old.observation_kind
        /\ x.source_version >= old.source_version /\ x.source_version \in Nat
    <2>1. old \in Observation /\ x \in Observation
      BY <1>2, <1>3 DEF ChainInv, GroupInv, TypeOK, Locked
    <2>2. old.source_version \in Nat /\ x.source_version \in Nat
      BY <2>1, ObservationFields
    <2> QED
      BY <1>1, <1>4, <2>2 DEF Later, _eligible_for_trade
  <1>6. /\ new \in Sources'
        /\ _OBSERVATION_RANK[new.observation_kind] <= _OBSERVATION_RANK[x.observation_kind]
        /\ x.observation_kind = new.observation_kind /\ x # new => Preferred(new, x)
    BY <1>2, <1>4, <1>5, ResolvedIsPreferred
  <1> HIDE DEF new
  <1>7. /\ new \in Observation /\ old \in Observation
    BY <1>2, <1>3, <1>6 DEF ChainInv, GroupInv, TypeOK, Locked
  <1>8. /\ new.source_version \in Nat /\ old.source_version \in Nat
        /\ new.observation_kind \in Kinds /\ old.observation_kind \in Kinds
        /\ _OBSERVATION_RANK[new.observation_kind] \in Nat
        /\ _OBSERVATION_RANK[old.observation_kind] \in Nat
    BY <1>7, ObservationFields
  <1>9. new.observation_kind # old.observation_kind
          => _OBSERVATION_RANK[new.observation_kind] # _OBSERVATION_RANK[old.observation_kind]
    BY <1>8 DEF Kinds, _OBSERVATION_RANK
  <1> QED
    BY <1>5, <1>6, <1>8, <1>9 DEF Preferred, old, new

\* A late or older revision never takes the canonical fields back, whatever is
\* delivered, as long as revisions name and number their records forwards.
THEOREM AuthorityHolds == RevisionsGoForward => (Spec => AuthorityNeverRegresses)
  <1> SUFFICES ASSUME RevisionsGoForward PROVE Spec => AuthorityNeverRegresses
    OBVIOUS
  <1> DEFINE later == [inbox |-> inbox', conflicts |-> conflicts']
             S     == NotSuperseded(inbox' \cup conflicts')
             old   == _resolved_observation(Sources, TradeId)
             new   == _resolved_observation(S, TradeId)
             Holds == /\ _locked_source_set(Sources) /\ _locked_source_set(S)
                      /\ MostCommonKey(later, S) = TradeId
                      => \/ _OBSERVATION_RANK[new.observation_kind]
                              < _OBSERVATION_RANK[old.observation_kind]
                         \/ /\ new.observation_kind = old.observation_kind
                            /\ new.source_version >= old.source_version
  <1>1. Init => ChainInv
    BY FS_EmptySet DEF Init, ChainInv, GroupInv, TypeOK, Report
  <1>2. ChainInv /\ [Next]_vars => ChainInv'
    BY ChainStep
  <1>3. ChainInv /\ ChainInv' /\ [Next]_vars => [Holds]_<<inbox, conflicts>>
    <2> SUFFICES ASSUME ChainInv, ChainInv', [Next]_vars,
                        _locked_source_set(Sources), _locked_source_set(S),
                        MostCommonKey(later, S) = TradeId
                 PROVE  \/ _OBSERVATION_RANK[new.observation_kind]
                             < _OBSERVATION_RANK[old.observation_kind]
                        \/ /\ new.observation_kind = old.observation_kind
                           /\ new.source_version >= old.source_version
      OBVIOUS
    <2>1. inbox \subseteq inbox' /\ conflicts \subseteq conflicts'
      BY DeliversFeed DEF Next, vars, ingest_observations, run_reconciliation,
             ingest_corrected_booking_observation
    <2>2. Sources' = S /\ TradeId' = MostCommonKey(later, S)
      BY DEF Sources, TradeId, Group
    <2> HIDE DEF S, later
    <2>3. LET a == _resolved_observation(Sources, TradeId)
              b == _resolved_observation(Sources', TradeId)
          IN  \/ _OBSERVATION_RANK[b.observation_kind] < _OBSERVATION_RANK[a.observation_kind]
              \/ b.observation_kind = a.observation_kind /\ b.source_version >= a.source_version
      BY <2>1, <2>2, AuthorityStep
    <2> QED
      BY <2>2, <2>3
  <1>4. [][Holds]_<<inbox, conflicts>> => AuthorityNeverRegresses
    BY DEF AuthorityNeverRegresses
  <1> HIDE DEF Holds
  <1> QED
    BY <1>1, <1>2, <1>3, <1>4, PTL DEF Spec

-----------------------------------------------------------------------------
\* What a correction does to the breaks of a trade.

\* In the accepted group S the booking b gives way to the correction o, which is
\* alike but for the base amount and the identity.
Corrects(S, S2, b, o) ==
    /\ Locked(S) /\ Locked(S2) /\ b \in S /\ o \in S2 /\ o \notin S
    /\ S2 = (S \ {b}) \cup {o}
    /\ o.observation_kind = "BOOKING" /\ b.observation_kind = "BOOKING"
    /\ o.source_business_key = b.source_business_key
    /\ o.portfolio_id = b.portfolio_id /\ o.correlation_id = b.correlation_id
    /\ o.source_trade_id = b.source_trade_id /\ o.product_type = b.product_type
    /\ o.lifecycle_status = b.lifecycle_status
    /\ \A f \in Fields \ {"base_amount"} : o.value[f] = b.value[f]
    /\ o.source_version = b.source_version + 1
    /\ \A p \in S : identity_key(p) # identity_key(o)

\* The correction of an accepted group takes the place of the newest booking,
\* which nothing else has superseded.
LEMMA CorrectionReplaces ==
    ASSUME ChainInv, ChainInv', Locked(Sources), ingest_corrected_booking_observation,
           NEW o \in inbox' \ inbox
    PROVE  \E b \in Sources :
              /\ o.supersedes_observation_id = b.observation_id
              /\ Corrects(Sources, NotSuperseded(inbox' \cup conflicts'), b, o)
  <1>1. PICK id \in CorrectionIds \ Ids(inbox), now \in CorrectionTimes, b \in inbox :
          /\ b.observation_kind = "BOOKING"
          /\ b.source_business_key = report.trade_id
          /\ \A p \in inbox : IsBookingOf(p, report.trade_id) =>
                p.source_version <= b.source_version
          /\ inbox' = inbox \cup {CorrectedObservation(b, id, now, report.approved_value)}
    BY DEF ingest_corrected_booking_observation, IsBookingOf
  <1>2. conflicts' = conflicts
    BY DEF ingest_corrected_booking_observation
  <1> DEFINE all == inbox \cup conflicts
             S   == Sources
             S2  == NotSuperseded(inbox' \cup conflicts')
  <1>3. o = CorrectedObservation(b, id, now, report.approved_value) /\ inbox' = inbox \cup {o}
    BY <1>1
  <1>4. b \in Observation /\ o \in Observation /\ o \in inbox' /\ o \notin inbox
    BY <1>3 DEF ChainInv, GroupInv, TypeOK
  <1>5. /\ o.observation_id = id /\ o.supersedes_observation_id = b.observation_id
        /\ o.observation_kind = "BOOKING" /\ o.source_business_key = b.source_business_key
        /\ o.portfolio_id = b.portfolio_id /\ o.correlation_id = b.correlation_id
        /\ o.source_trade_id = b.source_trade_id /\ o.product_type = b.product_type
        /\ o.lifecycle_status = b.lifecycle_status
        /\ o.source_version = b.source_version + 1
    BY <1>1, <1>3, <1>4, CorrectedFields
  <1>6. \A f \in Fields \ {"base_amount"} : o.value[f] = b.value[f]
    <2>1. o.value = [b.value EXCEPT !["base_amount"] = report.approved_value]
      BY <1>3, <1>4, CorrectedValue
    <2>2. b.value \in [Fields -> Nat]
      BY <1>4, ObservationFields
    <2> QED
      BY <2>1, <2>2
  <1>7. \A p \in all : p.source_version \in Nat /\ b.source_version \in Nat
    BY ObservationFields DEF ChainInv, GroupInv, TypeOK
  \* Whatever is newer than b would be in the inbox, or its counterpart would.
  <1>8. ASSUME NEW p \in all, p.observation_kind = "BOOKING",
               p.source_business_key = b.source_business_key
        PROVE  p.source_version <= b.source_version
    <2>1. PICK q \in inbox : identity_key(q) = identity_key(p)
      BY DEF ChainInv
    <2>2. IsBookingOf(q, report.trade_id) /\ q.source_version = p.source_version
      BY <1>1, <1>8, <2>1 DEF identity_key, IsBookingOf
    <2> QED
      BY <1>1, <2>2
  <1>9. ASSUME NEW p \in all PROVE identity_key(p) # identity_key(o)
    BY <1>1, <1>5, <1>7, <1>8, <1>9 DEF identity_key
  <1>10. ASSUME NEW p \in all PROVE p.supersedes_observation_id # b.observation_id
    <2>1. SUFFICES ASSUME Later(p, b) PROVE FALSE
      BY <1>10 DEF ChainInv
    <2> QED
      BY <1>1, <1>7, <1>8, <2>1 DEF Later
  <1>11. ASSUME NEW p \in all \cup {o} PROVE p.supersedes_observation_id # o.observation_id
    <2>1. SUFFICES ASSUME Later(p, o) PROVE FALSE
      BY <1>2, <1>3, <1>11 DEF ChainInv
    <2>2. o.source_version \in Nat
      BY <1>5, <1>7
    <2>3. p # o
      BY <2>1, <2>2 DEF Later
    <2>4. p.source_version <= b.source_version
      BY <1>5, <1>8, <2>1, <2>3 DEF Later
    <2> QED
      BY <1>5, <1>7, <2>1, <2>3, <2>4 DEF Later
  <1>12. b \in S
    BY <1>10 DEF Sources, NotSuperseded
  <1>13. ASSUME NEW p \in all PROVE p.observation_id # o.observation_id
    <2>1. p \in inbox \/ p \in Feed
      BY DEF ChainInv
    <2> QED
      BY <1>1, <1>5, <2>1, FeedAssumption DEF Ids
  <1>14. o \notin S
    BY <1>13 DEF Sources, NotSuperseded
  <1>15. S2 = (S \ {b}) \cup {o}
    <2>1. \A p \in S : p.observation_id = b.observation_id => p = b
      BY <1>12 DEF Locked
    <2>2. inbox' \cup conflicts' = all \cup {o}
      BY <1>2, <1>3
    <2>3. ASSUME NEW p \in all, p # b PROVE p \in S2 <=> p \in S
      BY <1>5, <1>12, <2>1, <2>2, <2>3 DEF Sources, NotSuperseded
    <2>4. b \notin S2
      BY <1>5, <2>2 DEF NotSuperseded
    <2>5. o \in S2
      BY <1>11, <2>2 DEF NotSuperseded
    <2>6. S \in SUBSET all /\ S2 \in SUBSET (all \cup {o})
      BY <2>2 DEF Sources, NotSuperseded
    <2> HIDE DEF all, S, S2
    <2> QED
      BY <1>14, <2>3, <2>4, <2>5, <2>6
  <1>16. Locked(S2)
    <2>1. S \in SUBSET all
      BY DEF Sources, NotSuperseded
    <2>2. \A p \in S : p.observation_id # o.observation_id
      BY <1>13, <2>1
    <2> HIDE DEF S, S2
    <2>3. Locked(S)
      BY DEF S
    <2>4. IsFiniteSet(S2)
      <3>1. IsFiniteSet(S \ {b})
        BY <2>3, FS_Subset DEF Locked
      <3> QED
        BY <1>15, <3>1, FS_AddElement
    <2> QED
      BY <1>4, <1>15, <2>2, <2>3, <2>4 DEF Locked
  <1>17. \A p \in S : identity_key(p) # identity_key(o)
    BY <1>9 DEF Sources, NotSuperseded
  <1>18. o \in S2
    BY <1>15
  <1> HIDE DEF S, S2
  <1>19. Corrects(S, S2, b, o)
    BY <1>1, <1>5, <1>6, <1>12, <1>14, <1>15, <1>16, <1>17, <1>18 DEF Corrects, S
  <1> QED
    BY <1>5, <1>12, <1>19 DEF S, S2

\* The correction knows the trades that the booking knew, and the others stay.
LEMMA CorrectionKeeps ==
    ASSUME NEW S, NEW S2, NEW b, NEW o, Corrects(S, S2, b, o)
    PROVE  /\ \A t : _eligible_for_trade(o, t) <=> _eligible_for_trade(b, t)
           /\ Cardinality(S2) = Cardinality(S)
           /\ {p.source_trade_id : p \in S2} = {p.source_trade_id : p \in S}
           /\ {p.source_business_key : p \in S2} = {p.source_business_key : p \in S}
           /\ {p.product_type : p \in S2} = {p.product_type : p \in S}
           /\ {p.observation_kind : p \in S2} = {p.observation_kind : p \in S}
  <1>1. Cardinality(S2) = Cardinality(S)
    <2>1. IsFiniteSet(S) /\ b \in S /\ o \notin S \ {b} /\ S2 = (S \ {b}) \cup {o}
      BY DEF Corrects, Locked
    <2>2. IsFiniteSet(S \ {b}) /\ Cardinality(S \ {b}) = Cardinality(S) - 1
      BY <2>1, FS_RemoveElement
    <2>3. Cardinality((S \ {b}) \cup {o}) = Cardinality(S \ {b}) + 1
      BY <2>1, <2>2, FS_AddElement
    <2>4. Cardinality(S) \in Nat
      BY <2>1, FS_CardinalityType
    <2> QED
      BY <2>1, <2>2, <2>3, <2>4
  <1>2. b \in S /\ S2 = (S \ {b}) \cup {o}
    BY DEF Corrects
  <1>3. /\ o.source_trade_id = b.source_trade_id
        /\ o.source_business_key = b.source_business_key
        /\ o.product_type = b.product_type /\ o.observation_kind = b.observation_kind
    BY DEF Corrects
  <1> QED
    BY <1>1, <1>2, <1>3 DEF _eligible_for_trade

\* The correction is the authority if the booking was, and changes it no other way.
LEMMA AuthorityStays ==
    ASSUME NEW S, NEW S2, NEW b, NEW o, Corrects(S, S2, b, o),
           NEW t, \E p \in S : _eligible_for_trade(p, t),
           LET r == _resolved_observation(S, t) IN r.observation_kind = "BOOKING" => r = b
    PROVE  LET r == _resolved_observation(S, t) IN
           /\ r \in S
           /\ _resolved_observation(S2, t) = IF r = b THEN o ELSE r
  <1> DEFINE r  == _resolved_observation(S, t)
             r2 == _resolved_observation(S2, t)
             m  == IF r = b THEN o ELSE r
  <1>1. Locked(S) /\ Locked(S2) /\ b \in S /\ S2 = (S \ {b}) \cup {o}
    BY DEF Corrects
  <1>2. \A p : _eligible_for_trade(o, p) <=> _eligible_for_trade(b, p)
    BY CorrectionKeeps
  <1>3. /\ r \in S /\ _eligible_for_trade(r, t)
        /\ \A p \in S : _eligible_for_trade(p, t) =>
              /\ _OBSERVATION_RANK[r.observation_kind] <= _OBSERVATION_RANK[p.observation_kind]
              /\ p.observation_kind = r.observation_kind /\ p # r => Preferred(r, p)
    BY <1>1, ResolvedIsPreferred
  <1>4. r.observation_kind = "BOOKING" => r = b
    OBVIOUS
  <1> HIDE DEF r
  <1>5. m \in S2 /\ _eligible_for_trade(m, t) /\ m.observation_kind = r.observation_kind
    BY <1>1, <1>2, <1>3 DEF Corrects
  <1>6. /\ r2 \in S2 /\ _eligible_for_trade(r2, t)
        /\ \A p \in S2 : _eligible_for_trade(p, t) =>
              /\ _OBSERVATION_RANK[r2.observation_kind] <= _OBSERVATION_RANK[p.observation_kind]
              /\ p.observation_kind = r2.observation_kind /\ p # r2 => Preferred(r2, p)
    BY <1>1, <1>5, ResolvedIsPreferred
  <1> HIDE DEF m, r2
  <1>7. PICK x \in S : /\ _eligible_for_trade(x, t) /\ x.observation_kind = r2.observation_kind
                       /\ r2 # o => x = r2
    BY <1>1, <1>2, <1>6 DEF Corrects
  <1>8. r2.observation_kind = m.observation_kind
    <2>1. /\ r2.observation_kind \in Kinds /\ m.observation_kind \in Kinds
          /\ _OBSERVATION_RANK[r2.observation_kind] \in Nat
          /\ _OBSERVATION_RANK[m.observation_kind] \in Nat
      BY <1>1, <1>5, <1>6, ObservationFields DEF Locked
    <2>2. _OBSERVATION_RANK[r2.observation_kind] = _OBSERVATION_RANK[m.observation_kind]
      BY <1>3, <1>5, <1>6, <1>7, <2>1
    <2> QED
      BY <2>1, <2>2 DEF Kinds, _OBSERVATION_RANK
  <1>9. \A p \in S \cup S2 : /\ p.source_version \in Nat /\ p.observation_id \in Nat
    BY <1>1, ObservationFields DEF Locked
  <1>10. ASSUME r2 # m PROVE FALSE
    <2>1. Preferred(r2, m)
      BY <1>5, <1>6, <1>8, <1>10
    <2>2. CASE r = b
      <3>1. m = o /\ r2 \in S /\ r2 # b /\ x = r2
        BY <1>1, <1>6, <1>7, <1>10, <2>2 DEF m
      <3>2. Preferred(b, r2)
        BY <1>3, <1>5, <1>7, <1>8, <2>2, <3>1
      <3>3. o.source_version = b.source_version + 1 /\ o \in S2
        BY DEF Corrects
      <3>4. /\ r2.source_version \in Nat /\ b.source_version \in Nat
            /\ o.source_version \in Nat /\ r2.observation_id \in Nat
        BY <1>1, <1>9, <3>1, <3>3
      <3> QED
        BY <2>1, <3>1, <3>2, <3>3, <3>4 DEF Preferred
    <2>3. CASE r # b
      <3>1. m = r /\ r.observation_kind # "BOOKING"
        BY <1>4, <2>3 DEF m
      <3>2. r2 # o /\ x = r2
        BY <1>5, <1>7, <1>8, <3>1 DEF Corrects
      <3>3. Preferred(r, r2)
        BY <1>3, <1>5, <1>7, <1>8, <1>10, <3>1, <3>2
      <3>4. /\ r2.source_version \in Nat /\ r.source_version \in Nat
            /\ r2.observation_id \in Nat /\ r.observation_id \in Nat
        BY <1>3, <1>6, <1>9
      <3> QED
        BY <2>1, <3>1, <3>3, <3>4 DEF Preferred
    <2> QED
      BY <2>2, <2>3
  <1> QED
    BY <1>3, <1>10 DEF m, r, r2

\* Conflicting deliveries are two that differ under one key.
LEMMA ConflictIsAPair ==
    ASSUME NEW S, Locked(S)
    PROVE  ConflictGroups(S) # {} <=>
             \E x, y \in S : identity_key(x) = identity_key(y) /\ content_hash(x) # content_hash(y)
  <1> DEFINE same(o) == {p \in S : identity_key(p) = identity_key(o)}
             hashes(o) == {content_hash(p) : p \in same(o)}
  <1>1. ConflictGroups(S) # {} <=> \E o \in S : Cardinality(hashes(o)) >= 2
    BY DEF ConflictGroups
  <1>2. ASSUME NEW o \in S
        PROVE  Cardinality(hashes(o)) >= 2
                 <=> \E x, y \in same(o) : content_hash(x) # content_hash(y)
    <2> DEFINE f == [p \in same(o) |-> content_hash(p)]
    <2>1. IsFiniteSet(same(o))
      BY FS_Subset DEF Locked
    <2>2. {f[p] : p \in same(o)} = hashes(o) /\ f = [p \in same(o) |-> f[p]]
      OBVIOUS
    <2>3. (\E x, y \in same(o) : content_hash(x) # content_hash(y))
            <=> \E h, k \in hashes(o) : h # k
      OBVIOUS
    <2> HIDE DEF same, f, hashes
    <2>4. IsFiniteSet(hashes(o))
      BY <2>1, <2>2, FiniteImage
    <2>5. Cardinality(hashes(o)) \in Nat
      BY <2>4, FS_CardinalityType
    <2>6. Cardinality(hashes(o)) > 1 <=> \E h, k \in hashes(o) : h # k
      BY <2>4, TwoOfThem
    <2> QED
      BY <2>3, <2>5, <2>6
  <1> HIDE DEF hashes
  <1> QED
    BY <1>1, <1>2

\* Every other observation still says what it said, of every field but the amount.
LEMMA OthersStay ==
    ASSUME NEW S, NEW S2, NEW b, NEW o, Corrects(S, S2, b, o), NEW r \in S,
           NEW x \in S2, x.observation_id # (IF r = b THEN o ELSE r).observation_id
    PROVE  \E y \in S : /\ y.observation_id # r.observation_id
                        /\ \A f \in Fields \ {"base_amount"} : y.value[f] = x.value[f]
                        /\ x # o => y = x /\ y # b
  <1>1. b \in S /\ S2 = (S \ {b}) \cup {o}
        /\ \A p, q \in S : p.observation_id = q.observation_id => p = q
    BY DEF Corrects, Locked
  <1>2. CASE x = o
    <2>1. r # b
      BY <1>2
    <2> QED
      BY <1>1, <1>2, <2>1 DEF Corrects
  <1>3. CASE x # o
    <2>1. x \in S /\ x # b
      BY <1>1, <1>3
    <2>2. x.observation_id # r.observation_id
      BY <1>1, <2>1
    <2> QED
      BY <2>1, <2>2
  <1> QED
    BY <1>2, <1>3

\* The fields that others disagree on, the base amount excepted, were disagreed
\* on before; the base amount too, if the approved value is the authority's.
LEMMA DisagreedBefore ==
    ASSUME NEW S, NEW S2, NEW b, NEW o, Corrects(S, S2, b, o), NEW c, NEW d,
           c.observations = S, d.observations = S2, c.canonical \in S,
           d.canonical = IF c.canonical = b THEN o ELSE c.canonical,
           o.value["base_amount"] = c.canonical.value["base_amount"],
           NEW fields \in SUBSET Fields
    PROVE  /\ Disagreed(d, fields) \subseteq Disagreed(c, fields)
           /\ "base_amount" \in Disagreed(d, fields) =>
                \E p \in S \ {b} : p.value["base_amount"] # c.canonical.value["base_amount"]
  <1> DEFINE r  == c.canonical
             r2 == IF r = b THEN o ELSE r
  <1>1. \A f \in Fields : r2.value[f] = r.value[f]
    BY DEF Corrects
  <1>2. d.canonical = r2 /\ r \in S
    OBVIOUS
  <1>3. r.value \in [Fields -> Nat] /\ o.value \in [Fields -> Nat]
    BY ObservationFields DEF Corrects, Locked
  <1>4. \A f \in Fields : Agree(f, r.value[f], r.value[f])
    <2>1. ASSUME NEW f \in EconomicFields, NEW v \in Nat PROVE Agree(f, v, v)
      <3>1. tolerance[f] \in Tolerances
        BY ConfigAssumption
      <3>2. OracleWithin(v, v, tolerance[f])
        <4> DEFINE rule == tolerance[f]
        <4>1. /\ rule.mode \in {"NONE", "ABSOLUTE_DECIMAL", "RELATIVE_DECIMAL"}
              /\ rule.value \in Nat /\ rule.per \in Nat
          BY <3>1 DEF Tolerances
        <4>2. v * rule.value \in Nat
          BY <4>1
        <4>3. (v - v) * rule.per = 0 /\ v - v = 0
          BY <4>1
        <4> DEFINE margin == v * rule.value
        <4>4. 0 \in (-margin)..margin /\ 0 \in (-rule.value)..rule.value
          <5> HIDE DEF margin
          <5>1. margin \in Nat
            BY <4>2 DEF margin
          <5> HIDE DEF rule
          <5> QED
            BY <4>1, <5>1
        <4> HIDE DEF rule
        <4>5. OracleWithin(v, v, rule)
          BY <4>1, <4>3, <4>4 DEF OracleWithin
        <4> QED
          BY <4>5 DEF rule
      <3> QED
        BY <3>1, <3>2, TolerancesAgree DEF Agree
    <2>2. ASSUME NEW f \in Fields PROVE Agree(f, r.value[f], r.value[f])
      <3>1. r.value[f] \in Nat
        BY <1>3
      <3> QED
        BY <2>1, <3>1 DEF Agree
    <2> QED
      BY <2>2
  <1> HIDE DEF r, r2
  <1>5. ASSUME NEW f \in fields, NEW x \in Others(d), ~ Agree(f, r2.value[f], x.value[f])
        PROVE  /\ \E y \in Others(c) : ~ Agree(f, r.value[f], y.value[f])
               /\ f = "base_amount" => x \in S \ {b} /\ x.value[f] # r.value[f]
    <2>1. x \in S2 /\ x.observation_id # r2.observation_id
      BY <1>2 DEF Others
    <2>2. PICK y \in S : /\ y.observation_id # r.observation_id
                         /\ \A g \in Fields \ {"base_amount"} : y.value[g] = x.value[g]
                         /\ x # o => y = x /\ y # b
      BY <1>2, <2>1, OthersStay DEF r2
    <2>3. y \in Others(c)
      BY <2>2 DEF Others, r
    <2>4. f = "base_amount" => x # o
      BY <1>1, <1>4, <1>5 DEF r
    <2>5. y.value[f] = x.value[f]
      BY <2>2, <2>4
    <2>6. x.value[f] # r.value[f]
      BY <1>1, <1>4, <1>5
    <2> QED
      BY <1>1, <1>5, <2>2, <2>3, <2>4, <2>5, <2>6
  <1>6. \A f \in Disagreed(d, fields) :
           f \in fields /\ \E x \in Others(d) : ~ Agree(f, r2.value[f], x.value[f])
    BY <1>2 DEF Disagreed
  <1>7. Disagreed(d, fields) \subseteq Disagreed(c, fields)
    BY <1>5, <1>6 DEF Disagreed, r
  <1>8. ASSUME "base_amount" \in Disagreed(d, fields)
        PROVE  \E p \in S \ {b} : p.value["base_amount"] # r.value["base_amount"]
    BY <1>5, <1>6, <1>8
  <1> QED
    BY <1>7, <1>8 DEF r

\* What a run finds after a correction it found before.
LEMMA FindingsMend ==
    ASSUME NEW S, NEW S2, NEW b, NEW o, Corrects(S, S2, b, o),
           NEW t, \E p \in S : _eligible_for_trade(p, t),
           LET r == _resolved_observation(S, t)
           IN  /\ r.observation_kind = "BOOKING" => r = b
               /\ o.value["base_amount"] = r.value["base_amount"]
    PROVE  LET c == Context(S, t)
               d == Context(S2, t)
           IN  /\ FactsOf(Breaks(d)) \subseteq FactsOf(Breaks(c))
               /\ <<"ECONOMIC_VALUE_MISMATCH", "base_amount">> \in FactsOf(Breaks(d)) =>
                    \E p \in S \ {b} : p.value["base_amount"] # c.canonical.value["base_amount"]
  <1> DEFINE c == Context(S, t)
             d == Context(S2, t)
             r == _resolved_observation(S, t)
             the_fact == <<"ECONOMIC_VALUE_MISMATCH", "base_amount">>
  <1>1. /\ c.observations = S /\ c.trade_id = t /\ c.canonical = r
        /\ c.linkage = _linkage_decision(S, t) /\ c.wait = 0 /\ c.verification = NULL
        /\ d.observations = S2 /\ d.trade_id = t
        /\ d.canonical = _resolved_observation(S2, t)
        /\ d.linkage = _linkage_decision(S2, t) /\ d.wait = 0 /\ d.verification = NULL
    BY DEF Context
  <1>2. ContextOf(c, S, t) /\ ContextOf(d, S2, t)
    BY <1>1 DEF ContextOf
  <1>3. r \in S /\ d.canonical = IF r = b THEN o ELSE r
    BY <1>1, AuthorityStays
  <1>4. Locked(S) /\ Locked(S2) /\ b \in S /\ S2 = (S \ {b}) \cup {o} /\ o \in S2
    BY DEF Corrects
  <1>5. /\ Cardinality(S2) = Cardinality(S)
        /\ {p.source_trade_id : p \in S2} = {p.source_trade_id : p \in S}
        /\ {p.source_business_key : p \in S2} = {p.source_business_key : p \in S}
        /\ {p.observation_kind : p \in S2} = {p.observation_kind : p \in S}
    BY CorrectionKeeps
  <1>6. o.value["base_amount"] = r.value["base_amount"]
    OBVIOUS
  <1> HIDE DEF c, d, r
  <1>7. _linkage_decision(S2, t) = _linkage_decision(S, t)
    <2>1. (\E p \in S2 : p.source_business_key # t) <=> \E p \in S : p.source_business_key # t
      BY <1>5
    <2> QED
      BY <1>5, <2>1 DEF _linkage_decision
  <1>8. FactsOf(_missing_source_breaks(d)) = FactsOf(_missing_source_breaks(c))
    <2>1. _missing_source_facts(d) = _missing_source_facts(c)
      BY <1>1, <1>5 DEF _missing_source_facts
    <2> QED
      BY <1>2, <2>1, MissingAgrees
  <1>9. FactsOf(_linkage_break(d)) = FactsOf(_linkage_break(c))
    <2>1. _linkage_facts(d) = _linkage_facts(c)
      BY <1>1, <1>7 DEF _linkage_facts
    <2> QED
      BY <1>2, <2>1, LinkageAgrees
  <1>10. FactsOf(_duplicate_breaks(d)) \subseteq FactsOf(_duplicate_breaks(c))
    <2>1. ASSUME NEW x \in S2, NEW y \in S2, identity_key(x) = identity_key(y),
                 content_hash(x) # content_hash(y)
          PROVE  x \in S /\ y \in S
      BY <1>4, <2>1 DEF Corrects
    <2>2. ConflictGroups(S2) # {} => ConflictGroups(S) # {}
      BY <1>4, <2>1, ConflictIsAPair
    <2>3. _duplicate_facts(d) \subseteq _duplicate_facts(c)
      BY <1>1, <2>2 DEF _duplicate_facts
    <2> QED
      BY <2>3, DuplicatesAgree
  <1>11. ASSUME NEW fields \in SUBSET Fields
         PROVE  /\ Disagreed(d, fields) \subseteq Disagreed(c, fields)
                /\ "base_amount" \in Disagreed(d, fields) =>
                     \E p \in S \ {b} : p.value["base_amount"] # r.value["base_amount"]
    BY <1>1, <1>3, <1>6, DisagreedBefore
  <1>12. /\ CurrencyFields \in SUBSET Fields /\ EconomicFields \in SUBSET Fields
         /\ DateFields \in SUBSET Fields
    BY DEF Fields
  <1>13. ASSUME NEW family, NEW fields \in SUBSET Fields
         PROVE  FactsOf(BreakOf(family, Divergence(d, fields)))
                  \subseteq FactsOf(BreakOf(family, Divergence(c, fields)))
    <2>1. Disagreed(d, fields) \subseteq Disagreed(c, fields)
      BY <1>11
    <2> QED
      BY <2>1, DivergenceFacts
  <1>14. /\ FactsOf(_currency_breaks(d)) \subseteq FactsOf(_currency_breaks(c))
         /\ FactsOf(_economic_breaks(d)) \subseteq FactsOf(_economic_breaks(c))
         /\ FactsOf(_date_break(d)) \subseteq FactsOf(_date_break(c))
    BY <1>12, <1>13 DEF _currency_breaks, _economic_breaks, _date_break
  <1>15. FactsOf(_lifecycle_break(d)) \subseteq FactsOf(_lifecycle_break(c))
    <2>1. CASE Cardinality(S) > 1
      <3>1. /\ FactsOf(_lifecycle_break(c)) = _lifecycle_facts(c)
            /\ FactsOf(_lifecycle_break(d)) = _lifecycle_facts(d)
        BY <1>1, <1>4, <1>5, <2>1, LifecycleAgrees DEF Locked
      <3>2. {p.lifecycle_status : p \in S2} = {p.lifecycle_status : p \in S}
        BY <1>4 DEF Corrects
      <3>3. (\E p \in S2 : p.lifecycle_status # lifecycle_rule[p.observation_kind])
              <=> \E p \in S : p.lifecycle_status # lifecycle_rule[p.observation_kind]
        BY <1>4 DEF Corrects
      <3>4. _lifecycle_facts(d) = _lifecycle_facts(c)
        BY <1>1, <3>2, <3>3 DEF _lifecycle_facts
      <3> QED
        BY <3>1, <3>4
    <2>2. CASE ~(Cardinality(S) > 1)
      <3> DEFINE right == {p \in S2 : p.lifecycle_status = lifecycle_rule[p.observation_kind]}
                 observed == FirstOf(S2 \ right)
      <3>1. S2 = {o}
        <4>1. S2 \in SUBSET S2 /\ \A x, y \in S2 : x = y
          BY <1>4, <1>5, <2>2, TwoOfThem DEF Locked
        <4> QED
          BY <1>4, <4>1
      <3>2. S2 = right \/ S2 \ {observed} = {}
        <4>1. CASE o \in right
          BY <3>1, <4>1
        <4>2. CASE o \notin right
          <5>1. S2 \ right = {o}
            BY <3>1, <4>2
          <5>2. Locked({o}) /\ \A p \in {o} \ {o} : Before(o, p)
            BY <1>4, <3>1
          <5>3. FirstOf({o}) = o
            BY <5>2, FirstIsUnique
          <5> QED
            BY <3>1, <5>1, <5>3
        <4> QED
          BY <4>1, <4>2
      <3>3. _lifecycle_break(d) = {}
        BY <1>1, <3>2 DEF _lifecycle_break
      <3> QED
        BY <3>3 DEF FactsOf
    <2> QED
      BY <2>1, <2>2
  <1>16. FactsOf(_post_action_break(d)) = {}
    BY <1>1 DEF _post_action_break, FactsOf
  <1>17. FactsOf(Breaks(d)) \subseteq FactsOf(Breaks(c))
    BY <1>8, <1>9, <1>10, <1>14, <1>15, <1>16, BreaksByFamily
  <1>18. ASSUME the_fact \in FactsOf(Breaks(d))
         PROVE  \E p \in S \ {b} : p.value["base_amount"] # r.value["base_amount"]
    <2>1. /\ the_fact \notin FactsOf(_missing_source_breaks(d))
          /\ the_fact \notin FactsOf(_linkage_break(d))
          /\ the_fact \notin FactsOf(_duplicate_breaks(d))
      <3>1. /\ FactsOf(_missing_source_breaks(d)) = _missing_source_facts(d)
            /\ FactsOf(_linkage_break(d)) = _linkage_facts(d)
            /\ FactsOf(_duplicate_breaks(d)) = _duplicate_facts(d)
        BY <1>2, MissingAgrees, LinkageAgrees, DuplicatesAgree
      <3> QED
        BY <3>1 DEF _missing_source_facts, _linkage_facts, _duplicate_facts, Fact
    <2>2. /\ the_fact \notin FactsOf(_currency_breaks(d))
          /\ the_fact \notin FactsOf(_date_break(d))
      BY DivergenceFacts DEF _currency_breaks, _date_break
    <2>3. the_fact \notin FactsOf(_lifecycle_break(d))
      <3> DEFINE lifecycle == <<"LIFECYCLE_STATUS_MISMATCH", "lifecycle_status">>
      <3>1. \A v \in _lifecycle_break(d) : v.family = "LIFECYCLE_STATUS_MISMATCH"
        BY DEF _lifecycle_break, Break
      <3> QED
        BY <3>1 DEF FactsOf
    <2>4. the_fact \in FactsOf(_economic_breaks(d))
      BY <1>16, <1>18, <2>1, <2>2, <2>3, BreaksByFamily
    <2>5. "base_amount" \in Disagreed(d, EconomicFields)
      BY <2>4, DivergenceFacts DEF _economic_breaks
    <2> QED
      BY <1>11, <1>12, <2>5
  <1> QED
    BY <1>1, <1>17, <1>18 DEF c, d, r

\* The deliveries that conflict with the booking b.
Rivals(S, b) == {p \in S \ {b} : identity_key(p) = identity_key(b)}

\* After a correction, the linkage decision is the same.
LEMMA SameLinkage ==
    ASSUME NEW S, NEW S2, NEW b, NEW o, Corrects(S, S2, b, o), NEW t
    PROVE  _linkage_decision(S2, t) = _linkage_decision(S, t)
  <1>1. /\ Cardinality(S2) = Cardinality(S)
        /\ {p.source_trade_id : p \in S2} = {p.source_trade_id : p \in S}
        /\ {p.source_business_key : p \in S2} = {p.source_business_key : p \in S}
    BY CorrectionKeeps
  <1>2. (\E p \in S2 : p.source_business_key # t) <=> \E p \in S : p.source_business_key # t
    BY <1>1
  <1> QED
    BY <1>1, <1>2 DEF _linkage_decision

\* It is in the scope of the others, and in time if it was made in time.
LEMMA StaysInScope ==
    ASSUME NEW S, NEW S2, NEW b, NEW o, Corrects(S, S2, b, o),
           OneScope(S), IsEffective(o.ingest_time), ~ Outside(S)
    PROVE  OneScope(S2) /\ ~ Outside(S2)
  <1>1. Locked(S2) /\ b \in S /\ o \in S2 /\ S2 = (S \ {b}) \cup {o}
    BY DEF Corrects
  <1>2. OneScope(S2)
    BY <1>1 DEF Corrects, OneScope
  <1>3. \A p \in S2 : p.ingest_time \in Nat
    BY <1>1, ObservationFields DEF Locked
  <1>4. effective_from \in Nat /\ (effective_to # NULL => effective_to \in Nat)
    BY ConfigAssumption
  <1>5. /\ ~(o.ingest_time < effective_from)
        /\ effective_to # NULL => ~(o.ingest_time >= effective_to)
    BY <1>1, <1>3, <1>4 DEF IsEffective
  <1>6. effective_to # NULL => \A p \in S : ~(p.ingest_time >= effective_to)
    BY DEF Outside
  <1> QED
    BY <1>1, <1>2, <1>5, <1>6 DEF Outside

\* After a correction the engine raises for no reason that it had not before.
LEMMA NoNewFailure ==
    ASSUME NEW S, NEW S2, NEW b, NEW o, Corrects(S, S2, b, o), NEW t,
           \A p, q \in Rivals(S, b) : content_hash(p) = content_hash(q) => p = q,
           Contradicts(S2, t) \/ Retransmitted(S2) \/ Pending(S2)
    PROVE  Contradicts(S, t) \/ Retransmitted(S) \/ Pending(S)
  <1>1. Locked(S) /\ Locked(S2) /\ b \in S /\ S2 = (S \ {b}) \cup {o} /\ o \in S2
    BY DEF Corrects
  <1>2. CASE Contradicts(S2, t)
    <2>1. /\ Cardinality(S2) = Cardinality(S)
          /\ {p.source_trade_id : p \in S2} = {p.source_trade_id : p \in S}
          /\ {p.product_type : p \in S2} = {p.product_type : p \in S}
      BY CorrectionKeeps
    <2>3. _linkage_decision(S2, t) = _linkage_decision(S, t)
      BY SameLinkage
    <2>4. (\E p \in S2 : p.source_trade_id # t) <=> \E p \in S : p.source_trade_id # t
      BY <2>1
    <2> QED
      BY <1>2, <2>1, <2>3, <2>4 DEF Contradicts
  <1>3. CASE Pending(S2)
    <2>1. \A kind : kind # "BOOKING" => {p \in S2 : p.observation_kind = kind}
                                          = {p \in S : p.observation_kind = kind}
      BY <1>1 DEF Corrects
    <2>2. /\ {p \in S2 : p.observation_kind = "EXECUTION"}
               = {p \in S : p.observation_kind = "EXECUTION"}
          /\ {p \in S2 : p.observation_kind = "TRADE_CAPTURE"}
               = {p \in S : p.observation_kind = "TRADE_CAPTURE"}
          /\ {p \in S2 : p.observation_kind = "CONFIRMATION"}
               = {p \in S : p.observation_kind = "CONFIRMATION"}
      BY <2>1
    <2> QED
      BY <1>3, <2>2 DEF Pending
  <1>4. CASE Retransmitted(S2)
    <2> PICK group \in ConflictGroups(S2) :
             \E x, y \in group :
                /\ x # y /\ content_hash(x) = content_hash(y)
                /\ \A q \in group \ {x, y} : Before(x, q) /\ Before(y, q)
      BY <1>4 DEF Retransmitted
    <2>1. PICK x, y \in group : /\ x # y /\ content_hash(x) = content_hash(y)
                                /\ \A q \in group \ {x, y} : Before(x, q) /\ Before(y, q)
      OBVIOUS
    <2>2. /\ group = {p \in S2 : identity_key(p) = identity_key(x)}
          /\ Cardinality({content_hash(p) : p \in group}) >= 2
          /\ x \in S2 /\ y \in S2 /\ identity_key(y) = identity_key(x)
      BY <2>1 DEF ConflictGroups
    <2>3. identity_key(x) # identity_key(o) /\ x # o /\ y # o
      BY <1>1, <2>1, <2>2 DEF Corrects
    <2>4. x \in S \ {b} /\ y \in S \ {b}
      BY <1>1, <2>2, <2>3
    <2>5. identity_key(x) # identity_key(b)
      BY <2>1, <2>2, <2>4 DEF Rivals
    <2>6. group = {p \in S : identity_key(p) = identity_key(x)}
      BY <1>1, <2>2, <2>3, <2>5
    <2>7. group \in ConflictGroups(S)
      BY <2>2, <2>4, <2>6 DEF ConflictGroups
    <2> QED
      BY <2>1, <2>7 DEF Retransmitted
  <1> QED
    BY <1>2, <1>3, <1>4

\* A correction mends the trade and breaks nothing else, whatever the sources
\* send, as long as their revisions name and number their records forwards.
THEOREM CorrectionsMend == RevisionsGoForward => (Spec => CorrectionOnlyMends)
  <1> SUFFICES ASSUME RevisionsGoForward PROVE Spec => CorrectionOnlyMends
    OBVIOUS
  <1> DEFINE later       == [inbox |-> inbox', conflicts |-> conflicts']
             S2          == NotSuperseded(inbox' \cup conflicts')
             authority   == _resolved_observation(Sources, TradeId)
             amount(p)   == p.value["base_amount"]
             after       == _reconcile_lineage_group(later)
             corrects(o, p) == p.observation_id = o.supersedes_observation_id
             rivals(o)   == { p \in Sources : /\ ~ corrects(o, p)
                                /\ IsBookingOf(p, o.source_business_key)
                                /\ p.source_version + 1 = o.source_version }
             Taken(o)    == /\ o.observation_id \in CorrectionIds
                            /\ Verdict.result # "ERROR"
                            /\ amount(o) = amount(authority)
                            /\ IsEffective(o.ingest_time)
                            /\ MostCommonKey(later, S2) = TradeId
                            /\ authority.observation_kind = "BOOKING" => corrects(o, authority)
                            /\ \A p, q \in rivals(o) : content_hash(p) = content_hash(q) => p = q
             Mended(o)   == /\ after.result # "ERROR"
                            /\ Facts(after) \subseteq Facts(Verdict)
                            /\ \/ <<"ECONOMIC_VALUE_MISMATCH", "base_amount">> \notin Facts(after)
                               \/ \E p \in Sources :
                                     ~ corrects(o, p) /\ amount(p) # amount(authority)
             Mends       == \A o \in inbox' \ inbox : Taken(o) => Mended(o)
  <1>1. Init => ChainInv
    BY FS_EmptySet DEF Init, ChainInv, GroupInv, TypeOK, Report
  <1>2. ChainInv /\ [Next]_vars => ChainInv'
    BY ChainStep
  <1>3. ChainInv /\ ChainInv' /\ [Next]_vars => [Mends]_<<inbox, conflicts>>
    <2> SUFFICES ASSUME ChainInv, ChainInv', [Next]_vars, NEW o \in inbox' \ inbox, Taken(o)
                 PROVE  Mended(o)
      OBVIOUS
    <2> DEFINE c == Context(Sources, TradeId)
               d == Context(S2, TradeId)
    <2>1. ingest_corrected_booking_observation
      <3>1. o \notin Feed
        BY FeedAssumption DEF Ids
      <3> QED
        BY <3>1, DeliversFeed DEF Next, vars, ingest_observations, run_reconciliation
    <2>2. /\ _locked_source_set(Sources) /\ Verdict = run(c)
          /\ valid_evidence_hashes(_linkage_decision(Sources, TradeId))
      BY DEF Verdict, _reconcile_lineage_group, Sources, Group, TradeId, Raised, Context
    <2>3. /\ Locked(Sources) /\ OneScope(Sources) /\ TradeId \in Trades /\ authority \in Sources
          /\ \E p \in Sources : TradeId = p.source_business_key
      BY <2>2, AcceptedSources DEF ChainInv
    <2>4. PICK b \in Sources : /\ o.supersedes_observation_id = b.observation_id
                               /\ Corrects(Sources, S2, b, o)
      BY <2>1, <2>3, CorrectionReplaces
    <2>5. \A p \in Sources : corrects(o, p) <=> p = b
      BY <2>3, <2>4 DEF Locked
    <2>6. authority.observation_kind = "BOOKING" => authority = b
      BY <2>3, <2>5
    <2>7. \E p \in Sources : _eligible_for_trade(p, TradeId)
      BY <2>3 DEF _eligible_for_trade
    <2>8. /\ FactsOf(Breaks(d)) \subseteq FactsOf(Breaks(c))
          /\ <<"ECONOMIC_VALUE_MISMATCH", "base_amount">> \in FactsOf(Breaks(d)) =>
               \E p \in Sources \ {b} : amount(p) # amount(authority)
      <3>1. c.canonical = authority
        BY DEF Context
      <3>2. /\ FactsOf(Breaks(d)) \subseteq FactsOf(Breaks(c))
            /\ <<"ECONOMIC_VALUE_MISMATCH", "base_amount">> \in FactsOf(Breaks(d)) =>
                 \E p \in Sources \ {b} : amount(p) # amount(c.canonical)
        <4> HIDE DEF S2
        <4> QED
          BY <2>4, <2>6, <2>7, FindingsMend
      <3> QED
        BY <3>1, <3>2
    <2>20. /\ ~ (\/ Contradicts(Sources, TradeId) \/ Retransmitted(Sources)
                 \/ Pending(Sources) \/ Outside(Sources))
      BY <2>2, <2>3, RunFails
    <2>21. OneScope(S2) /\ ~ Outside(S2)
      <3> HIDE DEF S2
      <3> QED
        BY <2>3, <2>4, <2>20, StaysInScope
    <2>9. /\ _resolved_observation(S2, TradeId) \in S2
          /\ Locked(S2) /\ _locked_source_set(S2)
      <3>1. /\ _resolved_observation(S2, TradeId) = IF authority = b THEN o ELSE authority
            /\ S2 = (Sources \ {b}) \cup {o} /\ Locked(S2) /\ o \in S2
        <4> HIDE DEF S2
        <4>1. /\ S2 = (Sources \ {b}) \cup {o} /\ Locked(S2) /\ o \in S2
          BY <2>4 DEF Corrects
        <4> HIDE DEF Corrects
        <4>2. _resolved_observation(S2, TradeId) = IF authority = b THEN o ELSE authority
          BY <2>4, <2>6, <2>7, AuthorityStays, SMTT(30)
        <4> QED
          BY <4>1, <4>2
      <3>2. _locked_source_set(S2)
        <4> HIDE DEF S2
        <4> QED
          BY <2>21, <3>1, LockedAccepted
      <3> QED
        BY <2>3, <3>1, <3>2
    <2>10. after = run(d)
      <3>1. _linkage_decision(S2, TradeId) = _linkage_decision(Sources, TradeId)
        <4> HIDE DEF S2
        <4> QED
          BY <2>4, SameLinkage
      <3> QED
        BY <2>2, <2>9, <3>1 DEF _reconcile_lineage_group, Context
    <2>11. \A p, q \in Rivals(Sources, b) : content_hash(p) = content_hash(q) => p = q
      <3>1. Rivals(Sources, b) \in SUBSET rivals(o)
        BY <2>4, <2>5 DEF Rivals, Corrects, identity_key, IsBookingOf
      <3> QED
        BY <3>1
    <2>12. after.result # "ERROR"
      <3> HIDE DEF S2
      <3>2. ~ (Contradicts(S2, TradeId) \/ Retransmitted(S2) \/ Pending(S2))
        BY <2>4, <2>11, <2>20, NoNewFailure
      <3>3. run(d).result # "ERROR"
        BY <2>3, <2>9, <2>21, <3>2, RunFails
      <3> HIDE DEF d
      <3> QED
        BY <2>10, <3>3
    <2>13. Verdict.breaks = Breaks(c) /\ after.breaks = Breaks(d)
      BY <2>2, <2>10, <2>12 DEF run, Raised
    <2>14. Facts(Verdict) = FactsOf(Breaks(c)) /\ Facts(after) = FactsOf(Breaks(d))
      BY <2>13 DEF Facts, FactsOf
    <2> HIDE DEF c, d, S2, after, authority
    <2> QED
      BY <2>5, <2>8, <2>12, <2>14
  <1>4. [][Mends]_<<inbox, conflicts>> => CorrectionOnlyMends
    BY DEF CorrectionOnlyMends
  <1> HIDE DEF Mends
  <1> QED
    BY <1>1, <1>2, <1>3, <1>4, PTL DEF Spec

=============================================================================
