---------------------------- MODULE CorpusProofs ----------------------------
(***************************************************************************)
(* Machine-checked proofs about Corpus, for any trades, any correction     *)
(* identifiers and any number of loads, runs and corrections, on top of the*)
(* lemmas of ReconciliationProofs.                                         *)
(*                                                                         *)
(* A plan is known by the shape of its mutation (SpecShape), and what it   *)
(* sends by the set Delivered.  LoadInv says that the tables have settled  *)
(* every delivery, CorpusInv that they hold the deliveries, or these with  *)
(* one booking that stands for all corrections.  What is reported of       *)
(* either is PlanReported and MendedReported.                              *)
(***************************************************************************)
EXTENDS Corpus, ReconciliationProofs

Families ==
    { "MISSING_REQUIRED_SOURCE", "AMBIGUOUS_OR_UNMATCHED_LINKAGE", "DUPLICATE_SOURCE_CONFLICT",
      "CURRENCY_PAIR_OR_SIDE_MISMATCH", "ECONOMIC_VALUE_MISMATCH",
      "TRADE_OR_VALUE_DATE_MISMATCH", "LIFECYCLE_STATUS_MISMATCH",
      "POST_ACTION_VERIFICATION_FAILURE" }

\* What the mutations of a family look like.
Shape(family, mutation_type, target_kind, field) ==
    \/ /\ family = "MISSING_REQUIRED_SOURCE"
       /\ mutation_type = "MISSING" /\ target_kind \in RequiredKinds /\ field = target_kind
    \/ /\ family = "AMBIGUOUS_OR_UNMATCHED_LINKAGE"
       /\ mutation_type \in {"UNMATCHED", "AMBIGUOUS"}
       /\ target_kind \in Kinds \ {"BOOKING"} /\ field = "trade_id"
    \/ /\ family = "DUPLICATE_SOURCE_CONFLICT"
       /\ mutation_type = "DUPLICATE" /\ target_kind \in Kinds /\ field = "content_hash"
    \/ /\ family = "CURRENCY_PAIR_OR_SIDE_MISMATCH"
       /\ target_kind \in Kinds
       /\ \/ mutation_type = "CURRENCY" /\ field \in {"base_currency", "terms_currency"}
          \/ mutation_type = "SIDE" /\ field = "side"
    \/ /\ family = "ECONOMIC_VALUE_MISMATCH"
       /\ mutation_type = "DECIMAL" /\ target_kind \in Kinds /\ field \in EconomicFields
       /\ field = "base_amount" => target_kind \in {"EXECUTION", "BOOKING"}
       /\ target_kind = "BOOKING" => field = "base_amount"
    \/ /\ family = "TRADE_OR_VALUE_DATE_MISMATCH"
       /\ mutation_type = "DATE" /\ target_kind \in Kinds /\ field \in DateFields
    \/ /\ family = "LIFECYCLE_STATUS_MISMATCH"
       /\ mutation_type \in {"AMEND", "CANCEL"}
       /\ target_kind \in Kinds \ {"BOOKING"} /\ field = "lifecycle_status"
    \/ /\ family = "POST_ACTION_VERIFICATION_FAILURE"
       /\ target_kind = "BOOKING"
       /\ \/ mutation_type = "BOOK_ID" /\ field = "book_id"
          \/ mutation_type = "CANCEL" /\ field = "lifecycle_status"

ShapeOf(family, spec) == Shape(family, spec.mutation_type, spec.target_kind, spec.field)

\* The fields of a mutation; its place in the delivery and its copy do not count.
LEMMA SpecFields ==
    ASSUME NEW type, NEW kind, NEW field, NEW family, Shape(family, type, kind, field)
    PROVE  /\ ShapeOf(family, MutationSpec(type, kind, field))
           /\ ShapeOf(family, OutOfOrder(MutationSpec(type, kind, field)))
           /\ \A n : ShapeOf(family, [MutationSpec(type, kind, field) EXCEPT !.copy = n])
  BY DEF MutationSpec, OutOfOrder, ShapeOf

\* Every approved mutation has the shape of its family.
LEMMA SpecShape ==
    ASSUME NEW family \in BREAK_FAMILIES, NEW spec \in _mutation_specs[family]
    PROVE  family \in Families /\ ShapeOf(family, spec)
  <1> DEFINE NotBooking == Kinds \ {"BOOKING"}
  <1>1. BREAK_FAMILIES = Families
    BY DEF BREAK_FAMILIES, Families, _mutation_specs
  <1> SUFFICES ShapeOf(family, spec)
    BY <1>1
  <1>2. CASE family = "MISSING_REQUIRED_SOURCE"
    <2> DEFINE missing == {MutationSpec("MISSING", kind, kind) : kind \in RequiredKinds}
    <2>1. spec \in missing \cup {OutOfOrder(s) : s \in missing}
      BY <1>2 DEF _mutation_specs
    <2>2. PICK kind \in RequiredKinds : \/ spec = MutationSpec("MISSING", kind, kind)
                                        \/ spec = OutOfOrder(MutationSpec("MISSING", kind, kind))
      BY <2>1
    <2>3. Shape(family, "MISSING", kind, kind)
      BY <1>2 DEF Shape
    <2> QED
      BY <2>2, <2>3, SpecFields
  <1>3. CASE family = "AMBIGUOUS_OR_UNMATCHED_LINKAGE"
    <2>1. PICK kind \in NotBooking :
              \/ spec = MutationSpec("UNMATCHED", kind, "trade_id")
              \/ spec = OutOfOrder(MutationSpec("AMBIGUOUS", kind, "trade_id"))
      BY <1>3 DEF _mutation_specs
    <2>2. \A type \in {"UNMATCHED", "AMBIGUOUS"} : Shape(family, type, kind, "trade_id")
      BY <1>3 DEF Shape
    <2> QED
      BY <2>1, <2>2, SpecFields
  <1>4. CASE family = "DUPLICATE_SOURCE_CONFLICT"
    <2>1. PICK kind \in Kinds :
              \/ spec = MutationSpec("DUPLICATE", kind, "content_hash")
              \/ spec = OutOfOrder(MutationSpec("DUPLICATE", kind, "content_hash"))
      BY <1>4 DEF _mutation_specs, Kinds
    <2>2. Shape(family, "DUPLICATE", kind, "content_hash")
      BY <1>4 DEF Shape
    <2> QED
      BY <2>1, <2>2, SpecFields
  <1>5. CASE family = "CURRENCY_PAIR_OR_SIDE_MISMATCH"
    <2>1. \/ \E kind \in Kinds, field \in {"base_currency", "terms_currency"} :
                spec = MutationSpec("CURRENCY", kind, field)
          \/ \E kind \in Kinds : spec = MutationSpec("SIDE", kind, "side")
      BY <1>5 DEF _mutation_specs, Kinds
    <2>2. \A kind \in Kinds :
             /\ \A field \in {"base_currency", "terms_currency"} :
                   Shape(family, "CURRENCY", kind, field)
             /\ Shape(family, "SIDE", kind, "side")
      BY <1>5 DEF Shape
    <2> QED
      BY <2>1, <2>2, SpecFields
  <1>6. CASE family = "ECONOMIC_VALUE_MISMATCH"
    <2>1. \E kind \in Kinds, field \in EconomicFields :
              /\ spec = MutationSpec("DECIMAL", kind, field)
              /\ field = "base_amount" => kind \in {"EXECUTION", "BOOKING"}
              /\ kind = "BOOKING" => field = "base_amount"
      BY <1>6 DEF _mutation_specs, Kinds, EconomicFields
    <2> QED
      BY <1>6, <2>1, SpecFields DEF Shape
  <1>7. CASE family = "TRADE_OR_VALUE_DATE_MISMATCH"
    <2>1. \E kind \in Kinds, field \in DateFields :
              \/ spec = MutationSpec("DATE", kind, field)
              \/ spec = OutOfOrder(MutationSpec("DATE", kind, field))
      BY <1>7 DEF _mutation_specs, Kinds, DateFields
    <2>2. \A kind \in Kinds, field \in DateFields : Shape(family, "DATE", kind, field)
      BY <1>7 DEF Shape
    <2> QED
      BY <2>1, <2>2, SpecFields
  <1>8. CASE family = "LIFECYCLE_STATUS_MISMATCH"
    <2>1. \E operation \in {"AMEND", "CANCEL"}, kind \in NotBooking :
              spec = MutationSpec(operation, kind, "lifecycle_status")
      BY <1>8 DEF _mutation_specs
    <2>2. \A operation \in {"AMEND", "CANCEL"}, kind \in NotBooking :
              Shape(family, operation, kind, "lifecycle_status")
      BY <1>8 DEF Shape
    <2> QED
      BY <2>1, <2>2, SpecFields
  <1>9. CASE family = "POST_ACTION_VERIFICATION_FAILURE"
    <2> DEFINE book   == MutationSpec("BOOK_ID", "BOOKING", "book_id")
               cancel == MutationSpec("CANCEL", "BOOKING", "lifecycle_status")
    <2>1. \/ \E n \in 1..3 : spec = [book EXCEPT !.copy = n]
          \/ spec = cancel \/ spec = [cancel EXCEPT !.copy = 2] \/ spec = OutOfOrder(cancel)
      BY <1>9 DEF _mutation_specs
    <2>2. /\ Shape(family, "BOOK_ID", "BOOKING", "book_id")
          /\ Shape(family, "CANCEL", "BOOKING", "lifecycle_status")
      BY <1>9 DEF Shape
    <2> QED
      BY <2>1, <2>2, SpecFields
  <1> QED
    BY <1>1, <1>2, <1>3, <1>4, <1>5, <1>6, <1>7, <1>8, <1>9 DEF Families

\* The shape tells the family.
LEMMA FamilyOf ==
    ASSUME NEW family \in BREAK_FAMILIES, NEW spec \in _mutation_specs[family]
    PROVE  _family_for_spec(spec) = family
  <1>1. ASSUME NEW f \in BREAK_FAMILIES, spec \in _mutation_specs[f] PROVE f = family
    <2>1. ShapeOf(f, spec) /\ ShapeOf(family, spec)
      BY <1>1, SpecShape
    <2> QED
      BY <2>1 DEF ShapeOf, Shape
  <1> QED
    BY <1>1 DEF _family_for_spec

\* A plan is clean or has a mutation of the shape of its family.
LEMMA PlanShape ==
    ASSUME NEW p \in Plans
    PROVE  /\ p.product \in Products /\ p.side \in {1, 2}
           /\ \/ /\ p.spec = clean
                 /\ p.spec.mutation_type = "NONE" /\ p.spec.target_kind = "NONE"
              \/ /\ p.spec # clean
                 /\ ShapeOf(_family_for_spec(p.spec), p.spec)
                 /\ p.spec.target_kind \in Kinds
  <1>1. /\ p.product \in Products /\ p.side \in {1, 2}
        /\ p.spec = clean \/ \E f \in BREAK_FAMILIES : p.spec \in _mutation_specs[f]
    BY DEF Plans
  <1>2. clean.mutation_type = "NONE" /\ clean.target_kind = "NONE"
    BY DEF clean, MutationSpec
  <1>3. ASSUME NEW f \in BREAK_FAMILIES, p.spec \in _mutation_specs[f]
        PROVE  /\ p.spec # clean
               /\ ShapeOf(_family_for_spec(p.spec), p.spec)
               /\ p.spec.target_kind \in Kinds
    <2>1. ShapeOf(f, p.spec) /\ _family_for_spec(p.spec) = f
      BY <1>3, SpecShape, FamilyOf
    <2>2. p.spec.target_kind \in Kinds
      BY <2>1 DEF ShapeOf, Shape, RequiredKinds, Kinds
    <2>3. "NONE" \notin Kinds
      BY DEF Kinds
    <2> QED
      BY <1>2, <2>1, <2>2, <2>3
  <1> QED
    BY <1>1, <1>2, <1>3

-----------------------------------------------------------------------------
\* What is delivered.

Turn == [EXECUTION |-> 1, TRADE_CAPTURE |-> 2, BOOKING |-> 3, CONFIRMATION |-> 4]

\* What the source of a kind sends if nothing is mutated.
Honest(p, kind) == Agreed(p, kind, Turn[kind])

\* What is sent in place of the target.
Mutated(p) ==
    LET target == Honest(p, p.spec.target_kind) IN
    CASE p.spec.mutation_type \in {"NONE", "MISSING"} -> {}
      [] p.spec.mutation_type = "AMBIGUOUS"           -> {target, Candidate(p, target)}
      [] p.spec.mutation_type = "DUPLICATE"           -> {target, Duplicate(p, target)}
      [] OTHER                                        -> {Target(p.spec, target)}

Delivered(p) == {Honest(p, kind) : kind \in Kinds \ {p.spec.target_kind}} \cup Mutated(p)

\* The observations of a trade in their order.
LEMMA Lifecycle ==
    ASSUME NEW p
    PROVE  LET base == _build_lifecycle(p) IN
           /\ base = [n \in 1..4 |-> base[n]] /\ Len(base) = 4
           /\ \A kind \in Kinds : Turn[kind] \in 1..4 /\ base[Turn[kind]] = Honest(p, kind)
           /\ \A n \in 1..4 : \E kind \in Kinds : Turn[kind] = n
           /\ \A kind \in Kinds, k \in Kinds : Turn[kind] = Turn[k] => kind = k
           /\ \A kind \in Kinds : Honest(p, kind).observation_kind = kind
  <1>1. /\ \A kind \in Kinds : Turn[kind] \in 1..4
        /\ \A n \in 1..4 : \E kind \in Kinds : Turn[kind] = n
        /\ \A kind \in Kinds, k \in Kinds : Turn[kind] = Turn[k] => kind = k
    BY DEF Turn, Kinds
  <1>2. \A kind \in Kinds : Honest(p, kind).observation_kind = kind
    BY DEF Honest, Agreed
  <1>3. \A kind \in Kinds : _build_lifecycle(p)[Turn[kind]] = Honest(p, kind)
    BY DEF _build_lifecycle, Honest, Turn, Kinds
  <1>4. _build_lifecycle(p) = [n \in 1..4 |-> _build_lifecycle(p)[n]] /\ Len(_build_lifecycle(p)) = 4
    BY DEF _build_lifecycle
  <1> QED
    BY <1>1, <1>2, <1>3, <1>4

\* The elements of a sequence that loses, gains or changes one.
LEMMA Removed ==
    ASSUME NEW R, NEW s \in Seq(R), NEW i \in 1..Len(s)
    PROVE  /\ RemoveAt(s, i) \in Seq(R)
           /\ ToSet(RemoveAt(s, i)) = {s[j] : j \in 1..Len(s) \ {i}}
  <1> DEFINE before == SubSeq(s, 1, i - 1)
             after  == SubSeq(s, i + 1, Len(s))
             n      == Len(s)
  <1>1. n \in Nat /\ i \in Nat /\ 1 <= i /\ i <= n
    OBVIOUS
  <1>2. before \in Seq(R) /\ Len(before) = i - 1 /\ \A j \in 1..(i-1) : before[j] = s[j]
    BY <1>1
  <1>3. after \in Seq(R) /\ Len(after) = n - i /\ \A j \in 1..(n-i) : after[j] = s[i + j]
    BY <1>1
  <1> DEFINE t == before \o after
  <1> HIDE DEF before, after, n
  <1>4. /\ t \in Seq(R) /\ Len(t) = n - 1
        /\ \A j \in 1..(i-1) : t[j] = s[j]
        /\ \A j \in i..(n-1) : t[j] = s[j + 1]
    <2>1. t \in Seq(R)
      BY <1>2, <1>3
    <2>2. Len(t) = Len(before) + Len(after)
      <3>1. before \in Seq(R) /\ after \in Seq(R)
        BY <1>2, <1>3
      <3> QED
        BY <3>1
    <2>3. Len(t) = n - 1
      BY <1>1, <1>2, <1>3, <2>2
    <2>4. \A j \in 1..(i-1) : t[j] = s[j]
      BY <1>1, <1>2, <1>3
    <2>5. ASSUME NEW j \in i..(n-1) PROVE t[j] = s[j + 1]
      <3>1. j - (i - 1) \in 1..(n-i) /\ i + (j - (i - 1)) = j + 1
        BY <1>1
      <3>2. t[j] = after[j - (i - 1)]
        BY <1>1, <1>2, <1>3, <3>1
      <3> QED
        BY <1>3, <3>1, <3>2
    <2> QED
      BY <2>1, <2>3, <2>4, <2>5
  <1> HIDE DEF t
  <1>5. RemoveAt(s, i) = t
    BY DEF RemoveAt, t, before, after
  <1>6. ToSet(t) = {t[j] : j \in 1..(n-1)}
    <2>1. DOMAIN t = 1..(n-1)
      BY <1>4
    <2> QED
      BY <2>1 DEF ToSet
  <1>7. ASSUME NEW j \in 1..(n-1) PROVE \E k \in 1..n \ {i} : t[j] = s[k]
    <2>1. CASE j < i
      BY <1>1, <1>4, <2>1
    <2>2. CASE ~(j < i)
      <3>1. j \in i..(n-1) /\ j + 1 \in 1..n \ {i}
        BY <1>1, <2>2
      <3> QED
        BY <1>4, <3>1
    <2> QED
      BY <2>1, <2>2
  <1>8. ASSUME NEW k \in 1..n \ {i} PROVE \E j \in 1..(n-1) : t[j] = s[k]
    <2>1. CASE k < i
      BY <1>1, <1>4, <2>1
    <2>2. CASE ~(k < i)
      <3>1. k - 1 \in i..(n-1) /\ k - 1 \in 1..(n-1) /\ (k - 1) + 1 = k
        BY <1>1, <2>2
      <3> QED
        BY <1>4, <3>1
    <2> QED
      BY <2>1, <2>2
  <1>9. {t[j] : j \in 1..(n-1)} = {s[j] : j \in 1..n \ {i}}
    BY <1>7, <1>8
  <1> QED
    BY <1>4, <1>5, <1>6, <1>9 DEF n

LEMMA Appended ==
    ASSUME NEW R, NEW s \in Seq(R), NEW e \in R
    PROVE  /\ Append(s, e) \in Seq(R) /\ Len(Append(s, e)) = Len(s) + 1
           /\ \A j \in 1..Len(s) : Append(s, e)[j] = s[j]
           /\ Append(s, e)[Len(s) + 1] = e
           /\ ToSet(Append(s, e)) = ToSet(s) \cup {e}
  <1> DEFINE t == Append(s, e)
             n == Len(s)
  <1>1. /\ t \in Seq(R) /\ Len(t) = n + 1 /\ n \in Nat
        /\ \A j \in 1..n : t[j] = s[j]
        /\ t[n + 1] = e
    OBVIOUS
  <1>2. DOMAIN t = 1..(n + 1) /\ DOMAIN s = 1..n
    BY <1>1
  <1> HIDE DEF t, n
  <1>3. ToSet(t) = {t[j] : j \in 1..(n + 1)} /\ ToSet(s) = {s[j] : j \in 1..n}
    BY <1>2 DEF ToSet
  <1>4. 1..(n + 1) = 1..n \cup {n + 1}
    BY <1>1
  <1>5. ToSet(t) = ToSet(s) \cup {e}
    BY <1>1, <1>3, <1>4
  <1> QED
    BY <1>1, <1>5 DEF t, n

LEMMA Replaced ==
    ASSUME NEW R, NEW s \in Seq(R), NEW i \in 1..Len(s), NEW e \in R
    PROVE  /\ ReplaceAt(s, i, e) \in Seq(R) /\ Len(ReplaceAt(s, i, e)) = Len(s)
           /\ ReplaceAt(s, i, e)[i] = e
           /\ \A j \in 1..Len(s) \ {i} : ReplaceAt(s, i, e)[j] = s[j]
           /\ DOMAIN ReplaceAt(s, i, e) = 1..Len(s)
  <1> DEFINE t == [s EXCEPT ![i] = e]
  <1>1. /\ t \in Seq(R) /\ Len(t) = Len(s) /\ t[i] = e
        /\ \A j \in 1..Len(s) \ {i} : t[j] = s[j]
        /\ DOMAIN t = 1..Len(s)
    OBVIOUS
  <1> HIDE DEF t
  <1> QED
    BY <1>1 DEF ReplaceAt, t

LEMMA IsSequence ==
    ASSUME NEW S, NEW n \in Nat, NEW f \in [1..n -> S]
    PROVE  f \in Seq(S) /\ Len(f) = n
  OBVIOUS

\* What a plan has delivered, whatever the order.
LEMMA Deliveries ==
    ASSUME NEW p \in Plans
    PROVE  /\ ToSet(Generated(p)) = Delivered(p)
           /\ Generated(p) \in Seq(Delivered(p))
  <1> DEFINE base   == _build_lifecycle(p)
             spec   == p.spec
             kind   == spec.target_kind
             honest == {Honest(p, k) : k \in Kinds \ {kind}}
  <1>1. /\ base = [n \in 1..4 |-> base[n]] /\ Len(base) = 4
        /\ \A k \in Kinds : Turn[k] \in 1..4 /\ base[Turn[k]] = Honest(p, k)
        /\ \A n \in 1..4 : \E k \in Kinds : Turn[k] = n
        /\ \A k, l \in Kinds : Turn[k] = Turn[l] => k = l
        /\ \A k \in Kinds : Honest(p, k).observation_kind = k
    BY Lifecycle
  <1> HIDE DEF base
  <1>2. SUFFICES ToSet(Generated(p)) = Delivered(p) /\ Generated(p) \in Seq(ToSet(Generated(p)))
    OBVIOUS
  <1>3. ASSUME NEW R, NEW s \in Seq(R) PROVE s \in Seq(ToSet(s))
    <2>1. DOMAIN s = 1..Len(s) /\ Len(s) \in Nat
      OBVIOUS
    <2>2. ToSet(s) = {s[n] : n \in 1..Len(s)}
      BY <2>1 DEF ToSet
    <2>3. s = [n \in 1..Len(s) |-> s[n]]
      OBVIOUS
    <2>4. s \in [1..Len(s) -> ToSet(s)]
      BY <2>2, <2>3
    <2> QED
      BY <2>1, <2>4
  <1>4. base \in Seq(ToSet(base))
    <2>1. \A n \in 1..4 : base[n] \in {base[m] : m \in 1..4}
      OBVIOUS
    <2>2. base \in [1..4 -> {base[n] : n \in 1..4}]
      BY <1>1, <2>1
    <2>3. base \in Seq({base[n] : n \in 1..4})
      BY <2>2, IsSequence
    <2> QED
      BY <1>3, <2>3
  <1>5. DOMAIN base = 1..4
    BY <1>1
  <1>6. CASE spec = clean
    <2>1. spec.mutation_type = "NONE" /\ kind = "NONE"
      BY <1>6 DEF clean, MutationSpec
    <2>2. Mutated(p) = {} /\ Kinds \ {kind} = Kinds
      BY <2>1 DEF Mutated, Kinds
    <2>3. ToSet(base) = {Honest(p, k) : k \in Kinds}
      BY <1>1, <1>5 DEF ToSet
    <2>4. Generated(p) = base
      BY <1>6 DEF Generated, base
    <2> QED
      BY <1>4, <2>2, <2>3, <2>4 DEF Delivered
  <1>7. CASE spec # clean
    <2> DEFINE place   == CHOOSE n \in 1..4 : base[n].observation_kind = kind
               target  == Target(spec, base[place])
               changed == ReplaceAt(base, place, target)
               other   == CASE spec.mutation_type = "AMBIGUOUS" -> {Candidate(p, target)}
                            [] spec.mutation_type = "DUPLICATE" -> {Duplicate(p, target)}
                            [] OTHER                            -> {}
               all     == CASE spec.mutation_type = "AMBIGUOUS" -> Append(changed, Candidate(p, target))
                            [] spec.mutation_type = "DUPLICATE" -> Append(changed, Duplicate(p, target))
                            [] OTHER                            -> changed
               R       == ToSet(base) \cup {target, Candidate(p, target), Duplicate(p, target)}
    <2>1. kind \in Kinds /\ ShapeOf(_family_for_spec(spec), spec)
      BY <1>7, PlanShape
    <2>2. place = Turn[kind] /\ place \in 1..4 /\ base[place] = Honest(p, kind)
      <3>1. ASSUME NEW n \in 1..4, base[n].observation_kind = kind PROVE n = Turn[kind]
        BY <1>1, <3>1
      <3>2. Turn[kind] \in 1..4 /\ base[Turn[kind]].observation_kind = kind
        BY <1>1, <2>1
      <3> QED
        BY <1>1, <2>1, <3>1, <3>2
    <2> HIDE DEF place
    <2>3. {base[n] : n \in 1..4 \ {place}} = honest
      <3>1. \A k \in Kinds \ {kind} : Turn[k] \in 1..4 \ {place} /\ base[Turn[k]] = Honest(p, k)
        BY <1>1, <2>1, <2>2
      <3>2. \A n \in 1..4 \ {place} : \E k \in Kinds \ {kind} : Turn[k] = n
        BY <1>1, <2>2
      <3> HIDE DEF kind
      <3> QED
        BY <3>1, <3>2
    <2> HIDE DEF honest
    <2>4. base \in Seq(R)
      <3>1. base \in [1..4 -> R]
        BY <1>1, <1>5 DEF ToSet
      <3> QED
        BY <3>1, IsSequence
    <2> HIDE DEF R
    <2>8. Len(base) = 4 /\ place \in 1..Len(base)
      BY <1>1, <2>2
    <2>5. Generated(p) = IF spec.mutation_type = "MISSING" THEN RemoveAt(base, place)
                         ELSE IF spec.out_of_order THEN Append(RemoveAt(all, place), target)
                         ELSE all
      BY <1>7 DEF Generated, _apply_mutation, base, place
    <2>6. CASE spec.mutation_type = "MISSING"
      <3>1. Mutated(p) = {}
        BY <2>6 DEF Mutated
      <3>2. RemoveAt(base, place) \in Seq(R) /\ ToSet(RemoveAt(base, place)) = honest
        BY <2>8, <2>3, <2>4, Removed
      <3> QED
        BY <1>3, <2>5, <2>6, <3>1, <3>2 DEF Delivered, honest
    <2>7. CASE spec.mutation_type # "MISSING"
      <3>1. Mutated(p) = {target} \cup other
        <4>1. spec.mutation_type \notin {"NONE", "MISSING"}
          BY <2>1, <2>7 DEF ShapeOf, Shape
        <4>2. CASE spec.mutation_type \in {"AMBIGUOUS", "DUPLICATE"}
          <5>1. target = Honest(p, kind)
            BY <2>2, <4>2 DEF Target
          <5> HIDE DEF target
          <5> QED
            BY <4>2, <5>1 DEF Mutated
        <4>3. CASE spec.mutation_type \notin {"AMBIGUOUS", "DUPLICATE"}
          <5>1. other = {} /\ target = Target(spec, Honest(p, kind))
            BY <2>2, <4>3
          <5> QED
            BY <4>1, <4>3, <5>1 DEF Mutated
        <4> QED
          BY <4>2, <4>3
      <3>2. target \in R /\ Candidate(p, target) \in R /\ Duplicate(p, target) \in R
        BY DEF R
      <3> HIDE DEF target
      <3>3. /\ changed \in Seq(R) /\ Len(changed) = 4 /\ ToSet(changed) = honest \cup {target}
            /\ \A n \in 1..4 \ {place} : changed[n] = base[n]
        <4>0. place \in 1..Len(base) /\ target \in R
          BY <2>8, <3>2
        <4>1. /\ changed \in Seq(R) /\ Len(changed) = Len(base)
              /\ \A n \in 1..Len(base) \ {place} : changed[n] = base[n]
              /\ ToSet(changed) = {base[n] : n \in 1..Len(base) \ {place}} \cup {target}
          <5>1. changed \in Seq(R) /\ Len(changed) = Len(base)
            BY <2>4, <4>0, Replaced
          <5>2. \A n \in 1..Len(base) \ {place} : changed[n] = base[n]
            BY <2>4, <4>0, Replaced
          <5>3. ToSet(changed) = {base[n] : n \in 1..Len(base) \ {place}} \cup {target}
            <6>1. DOMAIN changed = 1..Len(base) /\ changed[place] = target
              BY <2>4, <4>0, Replaced
            <6>2. ToSet(changed) = {changed[n] : n \in 1..Len(base)}
              BY <6>1 DEF ToSet
            <6>3. place \in 1..Len(base)
              BY <4>0
            <6> HIDE DEF changed
            <6> QED
              BY <5>2, <6>1, <6>2, <6>3
          <5> QED
            BY <5>1, <5>2, <5>3
        <4> QED
          BY <2>3, <2>8, <4>1
      <3>4. \A n \in 1..4 \ {place} : base[n] \in honest
        BY <2>3
      <3> HIDE DEF changed
      <3>5. /\ all \in Seq(R) /\ Len(all) \in 4..5 /\ ToSet(all) = honest \cup {target} \cup other
            /\ {all[n] : n \in 1..Len(all) \ {place}} = honest \cup other
        <4>1. CASE spec.mutation_type \in {"AMBIGUOUS", "DUPLICATE"}
          <5>1. PICK e \in R : all = Append(changed, e) /\ other = {e}
            BY <3>2, <4>1
          <5>2. /\ all \in Seq(R) /\ Len(all) = 5 /\ ToSet(all) = ToSet(changed) \cup {e}
                /\ \A n \in 1..4 : all[n] = changed[n]
                /\ all[5] = e
            <6>1. changed \in Seq(R) /\ Len(changed) = 4
              BY <3>3
            <6> DEFINE longer == Append(changed, e)
            <6>2. /\ longer \in Seq(R) /\ Len(longer) = Len(changed) + 1
                  /\ \A n \in 1..Len(changed) : longer[n] = changed[n]
                  /\ longer[Len(changed) + 1] = e
                  /\ ToSet(longer) = ToSet(changed) \cup {e}
              BY <6>1, Appended
            <6>3. all = longer
              BY <5>1
            <6> HIDE DEF all, longer
            <6> QED
              BY <6>1, <6>2, <6>3
          <5> HIDE DEF all, other
          <5>3. 1..5 \ {place} = (1..4 \ {place}) \cup {5}
            BY <2>2
          <5>4. /\ \A n \in 1..4 \ {place} : all[n] = base[n]
                /\ all[5] = e
            BY <3>3, <5>2
          <5>5. {all[n] : n \in 1..5 \ {place}} = {base[n] : n \in 1..4 \ {place}} \cup {e}
            BY <5>3, <5>4
          <5> QED
            <6>1. ToSet(changed) = honest \cup {target}
              BY <3>3
            <6>2. Len(all) = 5 /\ Len(all) \in 4..5
              BY <5>2
            <6> QED
              BY <2>3, <5>1, <5>2, <5>5, <6>1, <6>2
        <4>2. CASE spec.mutation_type \notin {"AMBIGUOUS", "DUPLICATE"}
          <5>1. all = changed /\ other = {}
            BY <4>2
          <5> HIDE DEF all, other
          <5>2. {changed[n] : n \in 1..4 \ {place}} = {base[n] : n \in 1..4 \ {place}}
            BY <3>3
          <5> QED
            <6>1. Len(all) = 4 /\ Len(all) \in 4..5
              BY <3>3, <5>1
            <6>2. all \in Seq(R) /\ ToSet(all) = honest \cup {target}
              BY <3>3, <5>1
            <6> QED
              BY <2>3, <5>1, <5>2, <6>1, <6>2
        <4> QED
          BY <4>1, <4>2
      <3> HIDE DEF all, other
      <3>6. CASE spec.out_of_order
        <4>1. place \in 1..Len(all)
          <5>1. Len(all) \in 4..5 /\ place \in 1..4
            BY <2>2, <3>5
          <5> QED
            BY <5>1
        <4>2. RemoveAt(all, place) \in Seq(R) /\ ToSet(RemoveAt(all, place)) = honest \cup other
          BY <3>5, <4>1, Removed
        <4>3. /\ Append(RemoveAt(all, place), target) \in Seq(R)
              /\ ToSet(Append(RemoveAt(all, place), target)) = honest \cup other \cup {target}
          BY <3>2, <4>2, Appended
        <4> QED
          BY <1>3, <2>5, <2>7, <3>1, <3>6, <4>3 DEF Delivered, honest
      <3>7. CASE ~ spec.out_of_order
        BY <1>3, <2>5, <2>7, <3>1, <3>5, <3>7 DEF Delivered, honest
      <3> QED
        BY <3>6, <3>7
    <2> QED
      BY <2>6, <2>7
  <1> QED
    BY <1>6, <1>7

-----------------------------------------------------------------------------
\* What the deliveries look like.

Row(id, kind, key, version, trade_id, product, status, record, value) ==
    [ observation_id |-> id, observation_kind |-> kind, source_business_key |-> key,
      source_version |-> version, source_sequence |-> Turn[kind],
      supersedes_observation_id |-> 0, portfolio_id |-> 1, correlation_id |-> 1,
      ingest_time |-> 60 * (Turn[kind] - 1) + 3, source_trade_id |-> trade_id, product_type |-> product,
      lifecycle_status |-> status, record |-> record, value |-> value ]

\* It satisfies the contracts if its parts do.
LEMMA RowIsObservation ==
    ASSUME NEW id \in Nat \ {0}, NEW kind \in Kinds, NEW key \in Trades, NEW version \in Nat \ {0},
           NEW trade_id \in Trades, NEW product \in Products,
           NEW status \in LifecycleStatus[kind], NEW record \in Nat, NEW value \in [Fields -> Nat]
    PROVE  Row(id, kind, key, version, trade_id, product, status, record, value) \in Observation
  <1> DEFINE row == Row(id, kind, key, version, trade_id, product, status, record, value)
             statuses == UNION {LifecycleStatus[k] : k \in Kinds}
  <1>1. Turn[kind] \in Nat /\ 60 * (Turn[kind] - 1) + 3 \in Nat
    BY DEF Turn, Kinds
  <1>2. status \in statuses
    OBVIOUS
  <1> HIDE DEF statuses
  <1>3. row \in [ observation_id : Nat \ {0}, observation_kind : Kinds,
                  source_business_key : Trades, source_version : Nat \ {0},
                  source_sequence : Nat, supersedes_observation_id : Nat,
                  portfolio_id : Nat, correlation_id : Nat, ingest_time : Nat,
                  source_trade_id : Trades, product_type : Products,
                  lifecycle_status : statuses, record : Nat, value : [Fields -> Nat] ]
    BY <1>1, <1>2 DEF Row
  <1>4. row.lifecycle_status \in LifecycleStatus[row.observation_kind]
    BY DEF Row
  <1> QED
    BY <1>3, <1>4 DEF Observation, statuses

\* The two identifiers of a kind.
LEMMA TwoIds ==
    ASSUME NEW p \in Plans, NEW kind \in Kinds
    PROVE  /\ BaseId(kind) \in Nat \ {0} /\ AlternateId(p, kind) \in Nat \ {0}
           /\ BaseId(kind) # AlternateId(p, kind)
           /\ BaseId(kind) \notin CorrectionIds /\ AlternateId(p, kind) \notin CorrectionIds
           /\ \A k \in Kinds \ {kind} : /\ BaseId(k) # BaseId(kind)
                                        /\ BaseId(k) # AlternateId(p, kind)
  <1>1. /\ BaseId(kind) \in Nat /\ BaseId(kind) >= 15
        /\ \A k \in Kinds \ {kind} : BaseId(k) \in Nat
              /\ (BaseId(k) >= BaseId(kind) + 10 \/ BaseId(kind) >= BaseId(k) + 10)
    BY DEF BaseId, Kinds, _OBSERVATION_RANK
  <1>2. AlternateId(p, kind) = BaseId(kind) - 1 \/ AlternateId(p, kind) = BaseId(kind) + 1
    BY DEF AlternateId
  <1>3. /\ BaseId(kind) - 1 \notin CorrectionIds /\ BaseId(kind) \notin CorrectionIds
        /\ BaseId(kind) + 1 \notin CorrectionIds
    BY CorrectionIdsAreNew
  <1> HIDE DEF BaseId
  <1> QED
    BY <1>1, <1>2, <1>3

\* What all sources agree on.
LEMMA Common ==
    ASSUME NEW p \in Plans
    PROVE  LET v == common_payload(p) IN
           /\ v \in [Fields -> Nat]
           /\ v["base_currency"] \in {EUR, USD} /\ v["terms_currency"] \in {USD, JPY}
           /\ v["base_currency"] # v["terms_currency"] /\ v["side"] \in {1, 2}
           /\ v["base_amount"] = 1000000 /\ v["terms_amount"] = 1000000 /\ v["quoted_rate"] = 10000
           /\ v["trade_date"] = 1
           /\ \/ p.product = "FX_SPOT" /\ v["value_date"] = 3
              \/ p.product = "FX_FORWARD" /\ v["value_date"] = 91
  <1> DEFINE v == common_payload(p)
  <1>1. p.product \in {"FX_SPOT", "FX_FORWARD"} /\ p.side \in {1, 2}
    BY PlanShape, CorpusAssumption
  <1>2. PICK base, terms, date :
          /\ v = [ base_currency |-> base, terms_currency |-> terms, side |-> p.side,
                   base_amount |-> 1000000, terms_amount |-> 1000000, quoted_rate |-> 10000,
                   trade_date |-> 1, value_date |-> date ]
          /\ \/ p.product = "FX_SPOT" /\ base = EUR /\ terms = USD /\ date = 3
             \/ p.product = "FX_FORWARD" /\ base = USD /\ terms = JPY /\ date = 91
    BY <1>1 DEF common_payload, _PRODUCT_CONFIG
  <1>3. /\ v["base_currency"] = base /\ v["terms_currency"] = terms /\ v["side"] = p.side
        /\ v["base_amount"] = 1000000 /\ v["terms_amount"] = 1000000 /\ v["quoted_rate"] = 10000
        /\ v["trade_date"] = 1 /\ v["value_date"] = date
    BY <1>2
  <1>4. v \in [Fields -> Nat]
    <2>1. DOMAIN v = Fields /\ v = [f \in Fields |-> v[f]]
      BY <1>2 DEF Fields, CurrencyFields, EconomicFields, DateFields
    <2>2. \A f \in Fields : v[f] \in Nat
      BY <1>1, <1>2, <1>3 DEF Fields, CurrencyFields, EconomicFields, DateFields, EUR, USD, JPY
    <2> HIDE DEF v
    <2> QED
      BY <2>1, <2>2
  <1> QED
    BY <1>1, <1>2, <1>3, <1>4 DEF EUR, USD, JPY

\* What a source sends of a trade on which all agree.
LEMMA HonestRow ==
    ASSUME NEW p \in Plans, NEW kind \in Kinds
    PROVE  Honest(p, kind) = Row(BaseId(kind), kind, trade, 1, trade, p.product,
                                 lifecycle_rule[kind], 1, common_payload(p))
  <1>1. _kind_payload(kind) = lifecycle_rule[kind]
    BY DEF _kind_payload, lifecycle_rule, Kinds
  <1> QED
    BY <1>1 DEF Honest, Agreed, Row

\* The mutations that restate a field, and what they put there.
ValueTypes == {"CURRENCY", "SIDE", "DECIMAL", "DATE"}

NewValue(p) ==
    LET f == p.spec.field IN
    CASE f = "side"           -> 3 - p.side
      [] f = "base_currency"  -> GBP
      [] f = "terms_currency" -> CHF
      [] f = "base_amount"    -> 1100000
      [] f = "terms_amount"   -> 1000100
      [] f = "quoted_rate"    -> 10100
      [] f = "trade_date"     -> 2
      [] f = "value_date"     -> IF p.product = "FX_SPOT" THEN 4 ELSE 92

RestatedValue(p) == [common_payload(p) EXCEPT ![p.spec.field] = NewValue(p)]

\* The new value is another one.
LEMMA NewValueDiffers ==
    ASSUME NEW p \in Plans, p.spec.mutation_type \in ValueTypes
    PROVE  /\ p.spec.field \in Fields /\ NewValue(p) \in Nat
           /\ NewValue(p) # common_payload(p)[p.spec.field]
           /\ RestatedValue(p) \in [Fields -> Nat]
           /\ RestatedValue(p)[p.spec.field] = NewValue(p)
           /\ \A f \in Fields \ {p.spec.field} : RestatedValue(p)[f] = common_payload(p)[f]
  <1> DEFINE v == common_payload(p)
  <1>1. /\ p.spec # clean /\ ShapeOf(_family_for_spec(p.spec), p.spec) /\ p.side \in {1, 2}
        /\ p.product \in {"FX_SPOT", "FX_FORWARD"}
    BY PlanShape, CorpusAssumption DEF ValueTypes
  <1>2. p.spec.field \in CurrencyFields \cup EconomicFields \cup DateFields
    BY <1>1 DEF ShapeOf, Shape, ValueTypes, CurrencyFields
  <1>3. p.spec.field \in Fields
    BY <1>2 DEF Fields
  <1>4. /\ v \in [Fields -> Nat]
        /\ v["base_currency"] \in {EUR, USD} /\ v["terms_currency"] \in {USD, JPY}
        /\ v["side"] = p.side
        /\ v["base_amount"] = 1000000 /\ v["terms_amount"] = 1000000 /\ v["quoted_rate"] = 10000
        /\ v["trade_date"] = 1
        /\ \/ p.product = "FX_SPOT" /\ v["value_date"] = 3
           \/ p.product = "FX_FORWARD" /\ v["value_date"] = 91
    <2>1. v["side"] = p.side
      BY DEF common_payload
    <2> QED
      BY <2>1, Common
  <1> HIDE DEF v
  <1>5. NewValue(p) \in Nat /\ NewValue(p) # v[p.spec.field]
    BY <1>1, <1>2, <1>4
    DEF NewValue, CurrencyFields, EconomicFields, DateFields, EUR, USD, JPY, GBP, CHF
  <1>6. RestatedValue(p) = [v EXCEPT ![p.spec.field] = NewValue(p)]
    BY DEF RestatedValue, v
  <1>7. /\ RestatedValue(p) \in [Fields -> Nat]
        /\ RestatedValue(p)[p.spec.field] = NewValue(p)
        /\ \A f \in Fields \ {p.spec.field} : RestatedValue(p)[f] = v[f]
    BY <1>3, <1>4, <1>5, <1>6
  <1> QED
    BY <1>3, <1>5, <1>7 DEF v

\* What is sent in place of the target, by mutation.
LEMMA MutatedRows ==
    ASSUME NEW p \in Plans, p.spec # clean
    PROVE  LET kind == p.spec.target_kind
               type == p.spec.mutation_type
               of(id, key, version, trade_id, status, record, value) ==
                   Row(id, kind, key, version, trade_id, p.product, status, record, value)
               v == common_payload(p)
               s == lifecycle_rule[kind]
               base  == BaseId(kind)
               other == AlternateId(p, kind)
           IN
           /\ type = "MISSING"   => Mutated(p) = {}
           /\ type = "UNMATCHED" => Mutated(p) = {of(base, alternate, 1, alternate, s, 1, v)}
           /\ type = "AMBIGUOUS" => Mutated(p) = {Honest(p, kind), of(other, trade, 2, alternate, s, 2, v)}
           /\ type = "DUPLICATE" => Mutated(p) = {Honest(p, kind), of(other, trade, 1, trade, s, 2, v)}
           /\ type \in ValueTypes => Mutated(p) = {of(base, trade, 1, trade, s, 1, RestatedValue(p))}
           /\ type = "AMEND"     => Mutated(p) = {of(base, trade, 1, trade, "AMENDED", 1, v)}
           /\ type = "CANCEL"    => Mutated(p) = {of(base, trade, 1, trade, "CANCELLED", 1, v)}
           /\ type = "BOOK_ID"   => Mutated(p) = {of(base, trade, 1, trade, s, 2, v)}
  <1> DEFINE kind == p.spec.target_kind
             type == p.spec.mutation_type
             v == common_payload(p)
             s == lifecycle_rule[kind]
             h == Honest(p, kind)
  <1>1. kind \in Kinds /\ ShapeOf(_family_for_spec(p.spec), p.spec)
    BY PlanShape
  <1>2. h = Row(BaseId(kind), kind, trade, 1, trade, p.product, s, 1, v)
    BY <1>1, HonestRow
  <1> HIDE DEF v, s, h
  <1>3. ASSUME type = "MISSING" PROVE Mutated(p) = {}
    BY <1>3 DEF Mutated
  <1>4. ASSUME type = "UNMATCHED"
        PROVE  Mutated(p) = {Row(BaseId(kind), kind, alternate, 1, alternate, p.product, s, 1, v)}
    <2>1. Mutated(p) = {Unmatched(h)}
      BY <1>4 DEF Mutated, Target, h
    <2>2. Unmatched(h) = Row(BaseId(kind), kind, alternate, 1, alternate, p.product, s, 1, v)
      <3> DEFINE g == [h EXCEPT !.source_business_key = alternate]
      <3>1. g = Row(BaseId(kind), kind, alternate, 1, trade, p.product, s, 1, v)
        BY <1>2 DEF Row
      <3>2. Unmatched(h) = [g EXCEPT !.source_trade_id = alternate]
        BY DEF Unmatched
      <3> HIDE DEF g
      <3> QED
        BY <3>1, <3>2 DEF Row
    <2> QED
      BY <2>1, <2>2
  <1>5. ASSUME type = "AMBIGUOUS"
        PROVE  Mutated(p) = {h, Row(AlternateId(p, kind), kind, trade, 2, alternate, p.product, s, 2, v)}
    <2>1. Mutated(p) = {h, Candidate(p, h)}
      BY <1>5 DEF Mutated, h
    <2>2. Candidate(p, h)
            = Row(AlternateId(p, kind), kind, trade, 2, alternate, p.product, s, 2, v)
      <3> DEFINE id == AlternateId(p, kind)
                 g1 == [h EXCEPT !.observation_id = id]
                 g2 == [g1 EXCEPT !.source_version = 2]
                 g3 == [g2 EXCEPT !.source_trade_id = alternate]
      <3>1. g1 = Row(id, kind, trade, 1, trade, p.product, s, 1, v) /\ h.observation_kind = kind
        BY <1>2 DEF Row
      <3>2. Candidate(p, h) = [g3 EXCEPT !.record = 2]
        BY <3>1 DEF Candidate
      <3> HIDE DEF g1
      <3>3. g2 = Row(id, kind, trade, 2, trade, p.product, s, 1, v)
        BY <3>1 DEF Row
      <3> HIDE DEF g2
      <3>4. g3 = Row(id, kind, trade, 2, alternate, p.product, s, 1, v)
        BY <3>3 DEF Row
      <3> HIDE DEF g3
      <3> QED
        BY <3>2, <3>4 DEF Row
    <2> QED
      BY <2>1, <2>2
  <1>6. ASSUME type = "DUPLICATE"
        PROVE  Mutated(p) = {h, Row(AlternateId(p, kind), kind, trade, 1, trade, p.product, s, 2, v)}
    <2>1. Mutated(p) = {h, Duplicate(p, h)}
      BY <1>6 DEF Mutated, h
    <2>2. Duplicate(p, h)
            = Row(AlternateId(p, kind), kind, trade, 1, trade, p.product, s, 2, v)
      <3> DEFINE id == AlternateId(p, kind)
                 g  == [h EXCEPT !.observation_id = id]
      <3>1. g = Row(id, kind, trade, 1, trade, p.product, s, 1, v) /\ h.observation_kind = kind
        BY <1>2 DEF Row
      <3>2. Duplicate(p, h) = [g EXCEPT !.record = 2]
        BY <3>1 DEF Duplicate
      <3> HIDE DEF g
      <3> QED
        BY <3>1, <3>2 DEF Row
    <2> QED
      BY <2>1, <2>2
  <1>7. ASSUME type \in ValueTypes
        PROVE  Mutated(p) = {Row(BaseId(kind), kind, trade, 1, trade, p.product, s, 1, RestatedValue(p))}
    <2> DEFINE f == p.spec.field
    <2>1. Mutated(p) = {Target(p.spec, h)}
      BY <1>7 DEF Mutated, h, ValueTypes
    <2>2. h.value = v /\ h.product_type = p.product
      BY <1>2 DEF Row
    <2>3. /\ v["base_amount"] = 1000000 /\ v["terms_amount"] = 1000000 /\ v["quoted_rate"] = 10000
          /\ v["trade_date"] = 1 /\ v["side"] = p.side
      BY DEF common_payload, v
    <2>4. Target(p.spec, h) = [h EXCEPT !.value = [h.value EXCEPT ![f] = NewValue(p)]]
      <3>1. CASE type \in {"CURRENCY", "SIDE"}
        <4>1. Target(p.spec, h) = Recoded(p.spec, h)
          BY <3>1 DEF Target
        <4>2. f \in CurrencyFields
          BY <1>1, <3>1 DEF ShapeOf, Shape, CurrencyFields
        <4> QED
          BY <2>2, <2>3, <4>1, <4>2 DEF Recoded, NewValue, CurrencyFields
      <3>2. CASE type = "DECIMAL"
        <4>1. Target(p.spec, h) = Restated(p.spec, h)
          BY <3>2 DEF Target
        <4>2. f \in EconomicFields
          BY <1>1, <3>2 DEF ShapeOf, Shape
        <4> QED
          BY <2>2, <2>3, <4>1, <4>2 DEF Restated, NewValue, EconomicFields
      <3>3. CASE type = "DATE"
        <4>1. Target(p.spec, h) = Redated(p.spec, h)
          BY <3>3 DEF Target
        <4>2. f \in DateFields
          BY <1>1, <3>3 DEF ShapeOf, Shape
        <4> QED
          BY <2>2, <2>3, <4>1, <4>2 DEF Redated, NewValue, DateFields
      <3> QED
        BY <1>7, <3>1, <3>2, <3>3 DEF ValueTypes
    <2>5. Target(p.spec, h)
            = Row(BaseId(kind), kind, trade, 1, trade, p.product, s, 1, RestatedValue(p))
      BY <1>2, <2>2, <2>4 DEF Row, RestatedValue, v
    <2> QED
      BY <2>1, <2>5
  <1>8. ASSUME type \in {"AMEND", "CANCEL"}
        PROVE  LET status == IF type = "AMEND" THEN "AMENDED" ELSE "CANCELLED" IN
               Mutated(p) = {Row(BaseId(kind), kind, trade, 1, trade, p.product, status, 1, v)}
    <2>1. Mutated(p) = {_set_lifecycle(p.spec, h)}
      BY <1>8 DEF Mutated, Target, h
    <2> QED
      BY <1>2, <2>1 DEF _set_lifecycle, Row
  <1>9. ASSUME type = "BOOK_ID"
        PROVE  Mutated(p) = {Row(BaseId(kind), kind, trade, 1, trade, p.product, s, 2, v)}
    <2>1. Mutated(p) = {Rebooked(h)}
      BY <1>9 DEF Mutated, Target, h
    <2> QED
      BY <1>2, <2>1 DEF Rebooked, Row
  <1> QED
    BY <1>3, <1>4, <1>5, <1>6, <1>7, <1>8, <1>9 DEF v, s, h

\* The values that a plan's deliveries show.
Values(p) == {common_payload(p)} \cup {v \in {RestatedValue(p)} : p.spec.mutation_type \in ValueTypes}

\* Every delivery has these parts.
LEMMA DeliveredRow ==
    ASSUME NEW p \in Plans, NEW o \in Delivered(p)
    PROVE  \E kind \in Kinds : \E id \in {BaseId(kind), AlternateId(p, kind)},
              key \in {trade, alternate}, version \in {1, 2}, trade_id \in {trade, alternate},
              status \in LifecycleStatus[kind], record \in {1, 2}, value \in Values(p) :
                 o = Row(id, kind, key, version, trade_id, p.product, status, record, value)
  <1>1. \A kind \in Kinds :
           /\ lifecycle_rule[kind] \in LifecycleStatus[kind]
           /\ "AMENDED" \in LifecycleStatus[kind] /\ "CANCELLED" \in LifecycleStatus[kind]
    BY DEF lifecycle_rule, LifecycleStatus, Kinds
  <1>2. common_payload(p) \in Values(p)
    BY DEF Values
  <1>3. CASE \E k \in Kinds : o = Honest(p, k)
    <2>1. PICK k \in Kinds : o = Honest(p, k)
      BY <1>3
    <2>2. o = Row(BaseId(k), k, trade, 1, trade, p.product, lifecycle_rule[k], 1, common_payload(p))
      BY <2>1, HonestRow
    <2> QED
      BY <1>1, <1>2, <2>2
  <1>4. CASE o \in Mutated(p) /\ ~ \E k \in Kinds : o = Honest(p, k)
    <2> DEFINE kind == p.spec.target_kind
               type == p.spec.mutation_type
    <2>1. p.spec # clean
      <3>1. ASSUME p.spec = clean PROVE FALSE
        <4>1. type = "NONE"
          BY <3>1 DEF clean, MutationSpec
        <4> QED
          BY <1>4, <4>1 DEF Mutated
      <3> QED
        BY <3>1
    <2>2. kind \in Kinds /\ ShapeOf(_family_for_spec(p.spec), p.spec)
      BY <2>1, PlanShape
    <2>3. type \in {"MISSING", "UNMATCHED", "AMBIGUOUS", "DUPLICATE", "AMEND", "CANCEL", "BOOK_ID"}
                     \cup ValueTypes
      BY <2>2 DEF ShapeOf, Shape, ValueTypes
    <2>4. type \in ValueTypes => RestatedValue(p) \in Values(p)
      BY DEF Values
    <2> DEFINE s == lifecycle_rule[kind]
               v == common_payload(p)
               base  == BaseId(kind)
               other == AlternateId(p, kind)
    <2>5. \/ o = Row(base, kind, alternate, 1, alternate, p.product, s, 1, v)
          \/ o = Row(other, kind, trade, 2, alternate, p.product, s, 2, v)
          \/ o = Row(other, kind, trade, 1, trade, p.product, s, 2, v)
          \/ type \in ValueTypes /\ o = Row(base, kind, trade, 1, trade, p.product, s, 1, RestatedValue(p))
          \/ o = Row(base, kind, trade, 1, trade, p.product, "AMENDED", 1, v)
          \/ o = Row(base, kind, trade, 1, trade, p.product, "CANCELLED", 1, v)
          \/ o = Row(base, kind, trade, 1, trade, p.product, s, 2, v)
      BY <1>4, <2>1, <2>2, <2>3, MutatedRows
    <2> HIDE DEF s, v, base, other
    <2>6. s \in LifecycleStatus[kind] /\ v \in Values(p)
      BY <1>1, <1>2, <2>2 DEF s, v
    <2>7. base \in {BaseId(kind), AlternateId(p, kind)} /\ other \in {BaseId(kind), AlternateId(p, kind)}
      BY DEF base, other
    <2> QED
      BY <1>1, <2>2, <2>4, <2>5, <2>6, <2>7
  <1> QED
    BY <1>3, <1>4 DEF Delivered

\* Every delivery satisfies the contracts.
LEMMA DeliveredIsValid ==
    ASSUME NEW p \in Plans, NEW o \in Delivered(p)
    PROVE  /\ o \in Observation
           /\ o.source_sequence = Turn[o.observation_kind] /\ o.supersedes_observation_id = 0
           /\ o.portfolio_id = 1 /\ o.correlation_id = 1 /\ o.source_trade_id \in {trade, alternate}
           /\ o.product_type = p.product
           /\ o.observation_id \in {BaseId(o.observation_kind), AlternateId(p, o.observation_kind)}
           /\ o.value["base_currency"] # o.value["terms_currency"]
           /\ _validate_settlement_window(o)
  <1>1. PICK kind \in Kinds : \E id \in {BaseId(kind), AlternateId(p, kind)},
              key \in {trade, alternate}, version \in {1, 2}, trade_id \in {trade, alternate},
              status \in LifecycleStatus[kind], record \in {1, 2}, value \in Values(p) :
                 o = Row(id, kind, key, version, trade_id, p.product, status, record, value)
    BY DeliveredRow
  <1>2. PICK id \in {BaseId(kind), AlternateId(p, kind)},
              key \in {trade, alternate}, version \in {1, 2}, trade_id \in {trade, alternate},
              status \in LifecycleStatus[kind], record \in {1, 2}, value \in Values(p) :
                 o = Row(id, kind, key, version, trade_id, p.product, status, record, value)
    BY <1>1
  <1> DEFINE v == common_payload(p)
             f == p.spec.field
  <1>3. /\ v \in [Fields -> Nat]
        /\ v["base_currency"] \in {EUR, USD} /\ v["terms_currency"] \in {USD, JPY}
        /\ v["base_currency"] # v["terms_currency"]
        /\ v["trade_date"] = 1
        /\ \/ p.product = "FX_SPOT" /\ v["value_date"] = 3
           \/ p.product = "FX_FORWARD" /\ v["value_date"] = 91
    BY Common
  <1>4. /\ value \in [Fields -> Nat]
        /\ \/ value = v
           \/ /\ f \in Fields /\ value[f] = NewValue(p)
              /\ \A g \in Fields \ {f} : value[g] = v[g]
    <2>1. CASE value = v
      BY <1>3, <2>1
    <2>2. CASE value = RestatedValue(p) /\ p.spec.mutation_type \in ValueTypes
      BY <2>2, NewValueDiffers
    <2> QED
      BY <2>1, <2>2 DEF Values
  <1> HIDE DEF v
  <1>5. /\ "base_currency" \in Fields /\ "terms_currency" \in Fields
        /\ "trade_date" \in Fields /\ "value_date" \in Fields
    BY DEF Fields, CurrencyFields, DateFields
  <1>6. value["base_currency"] # value["terms_currency"]
    <2>1. CASE value = v
      BY <1>3, <2>1
    <2>2. CASE value # v
      <3>1. value["base_currency"] \in {GBP, EUR, USD} /\ value["terms_currency"] \in {CHF, USD, JPY}
        BY <1>3, <1>4, <1>5, <2>2 DEF NewValue
      <3>2. \/ value["base_currency"] = v["base_currency"]
            \/ value["terms_currency"] = v["terms_currency"]
        BY <1>4, <1>5, <2>2
      <3>3. \/ value["base_currency"] = GBP \/ value["base_currency"] = v["base_currency"]
        BY <1>4, <1>5, <2>2 DEF NewValue
      <3>4. \/ value["terms_currency"] = CHF \/ value["terms_currency"] = v["terms_currency"]
        BY <1>4, <1>5, <2>2 DEF NewValue
      <3> QED
        BY <1>3, <3>1, <3>2, <3>3, <3>4 DEF EUR, USD, JPY, GBP, CHF
    <2> QED
      BY <2>1, <2>2
  <1>7. /\ value["trade_date"] \in 1..2
        /\ p.product = "FX_SPOT" => value["value_date"] \in 3..4
        /\ p.product = "FX_FORWARD" => value["value_date"] \in 91..92
    <2>1. CASE value = v
      BY <1>3, <2>1
    <2>2. CASE value # v
      <3>1. value["trade_date"] = 2 \/ value["trade_date"] = v["trade_date"]
        BY <1>4, <1>5, <2>2 DEF NewValue
      <3>2. \/ value["value_date"] = (IF p.product = "FX_SPOT" THEN 4 ELSE 92)
            \/ value["value_date"] = v["value_date"]
        BY <1>4, <1>5, <2>2 DEF NewValue
      <3> QED
        BY <1>3, <3>1, <3>2
    <2> QED
      BY <2>1, <2>2
  <1>8. p.product \in {"FX_SPOT", "FX_FORWARD"} /\ p.product \in Products
    BY PlanShape, CorpusAssumption
  <1>9. o.value = value /\ o.product_type = p.product
    BY <1>2 DEF Row
  <1>10. _validate_settlement_window(o)
    BY <1>7, <1>8, <1>9 DEF _validate_settlement_window
  <1>11. o \in Observation
    <2>1. id \in Nat \ {0} /\ key \in Trades /\ trade_id \in Trades
      BY TwoIds, CorpusAssumption
    <2>2. version \in Nat \ {0} /\ record \in Nat
      OBVIOUS
    <2> QED
      BY <1>2, <1>4, <1>8, <2>1, <2>2, RowIsObservation
  <1>12. /\ o.source_sequence = Turn[o.observation_kind] /\ o.supersedes_observation_id = 0
         /\ o.portfolio_id = 1 /\ o.correlation_id = 1 /\ o.source_trade_id \in {trade, alternate}
         /\ o.observation_id \in {BaseId(o.observation_kind), AlternateId(p, o.observation_kind)}
    BY <1>2 DEF Row
  <1> QED
    BY <1>6, <1>9, <1>10, <1>11, <1>12

\* The plan is one of the population's and stays.
Planned == plan \in Plans

LEMMA PlanStays ==
    /\ CorpusInit => Planned
    /\ [CorpusNext]_corpusVars => UNCHANGED plan
    /\ Planned /\ [CorpusNext]_corpusVars => Planned'
  BY DEF Planned, CorpusInit, CorpusNext, corpusVars, load_demo_corpus

\* The whole population satisfies the contracts, so that they never keep
\* load_demo_corpus from taking place, whatever identifiers the seed draws.
THEOREM PopulationIsValid == CorpusSpec => []GeneratedIsValid
  <1>1. Planned => GeneratedIsValid
    <2> SUFFICES ASSUME Planned, NEW o \in ToSet(Generated(plan))
                 PROVE  /\ o \in Observation
                        /\ o.value["base_currency"] # o.value["terms_currency"]
                        /\ _validate_settlement_window(o)
      BY DEF GeneratedIsValid, _validate_sources
    <2>1. plan \in Plans /\ o \in Delivered(plan)
      BY Deliveries DEF Planned
    <2> QED
      BY <2>1, DeliveredIsValid
  <1> QED
    BY <1>1, PlanStays, PTL DEF CorpusSpec

-----------------------------------------------------------------------------
\* The provenance graph.

\* Its nodes are apart.
LEMMA NodesDiffer ==
    /\ \A a, b : Node(a) = Node(b) <=> a = b
    /\ \A i, j : Observed(i) = Observed(j) <=> i = j
    /\ \A a, i : Node(a) # Observed(i)
  <1>1. \A a, b : Node(a) = Node(b) <=> a = b
    BY DEF Node
  <1>2. \A i, j : Observed(i) = Observed(j) <=> i = j
    BY DEF Observed
  <1>3. ASSUME NEW a, NEW i PROVE Node(a) # Observed(i)
    <2>1. Len(Node(a)) = 1 /\ Len(Observed(i)) = 2
      BY DEF Node, Observed
    <2> QED
      BY <2>1
  <1> QED
    BY <1>1, <1>2, <1>3

\* The mutation's observations are those that the fact refers to, and they are
\* delivered; there is none exactly if the delivery is missing.
LEMMA MutatedIds ==
    ASSUME NEW p \in Plans, p.spec # clean
    PROVE  /\ MutatesObservation(p) = FactSources(p)
           /\ FactSources(p) \subseteq Ids(ToSet(Generated(p)))
           /\ FactSources(p) = {} <=> p.spec.mutation_type = "MISSING"
  <1> DEFINE kind == p.spec.target_kind
             type == p.spec.mutation_type
             status == lifecycle_rule[kind]
             v == common_payload(p)
  <1>1. kind \in Kinds /\ ShapeOf(_family_for_spec(p.spec), p.spec)
    BY PlanShape
  <1>2. ToSet(Generated(p)) = Delivered(p)
    BY Deliveries
  <1>3. \A k \in Kinds : Honest(p, k).observation_kind = k /\ Honest(p, k).observation_id = BaseId(k)
    BY HonestRow DEF Row
  <1>4. (\A o \in Mutated(p) : o.observation_kind = kind) /\ Ids(Mutated(p)) = FactSources(p)
    <2>1. CASE type = "MISSING"
      <3>1. Mutated(p) = {}
        BY <2>1, MutatedRows
      <3> QED
        BY <2>1, <3>1 DEF Ids, FactSources
    <2>2. CASE type \in {"AMBIGUOUS", "DUPLICATE"}
      <3>1. PICK o : /\ Mutated(p) = {Honest(p, kind), o}
                     /\ o.observation_kind = kind /\ o.observation_id = AlternateId(p, kind)
        <4>1. CASE type = "AMBIGUOUS"
          <5> DEFINE o == Row(AlternateId(p, kind), kind, trade, 2, alternate, p.product, status, 2, v)
          <5>1. Mutated(p) = {Honest(p, kind), o}
            BY <4>1, MutatedRows
          <5>2. o.observation_kind = kind /\ o.observation_id = AlternateId(p, kind)
            BY DEF Row
          <5> QED
            BY <5>1, <5>2
        <4>2. CASE type = "DUPLICATE"
          <5> DEFINE o == Row(AlternateId(p, kind), kind, trade, 1, trade, p.product, status, 2, v)
          <5>1. Mutated(p) = {Honest(p, kind), o}
            BY <4>2, MutatedRows
          <5>2. o.observation_kind = kind /\ o.observation_id = AlternateId(p, kind)
            BY DEF Row
          <5> QED
            BY <5>1, <5>2
        <4> QED
          BY <2>2, <4>1, <4>2
      <3>2. FactSources(p) = {BaseId(kind), AlternateId(p, kind)}
        BY <2>2 DEF FactSources
      <3> QED
        BY <1>1, <1>3, <3>1, <3>2 DEF Ids
    <2>3. CASE type \notin {"MISSING", "AMBIGUOUS", "DUPLICATE"}
      <3>1. type \in {"UNMATCHED", "AMEND", "CANCEL", "BOOK_ID"} \cup ValueTypes
        BY <1>1, <2>3 DEF ShapeOf, Shape, ValueTypes
      <3>2. PICK o : /\ Mutated(p) = {o}
                     /\ o.observation_kind = kind /\ o.observation_id = BaseId(kind)
        <4>1. CASE type = "UNMATCHED"
          <5> DEFINE o == Row(BaseId(kind), kind, alternate, 1, alternate, p.product, status, 1, v)
          <5>1. Mutated(p) = {o}
            BY <4>1, MutatedRows
          <5>2. o.observation_kind = kind /\ o.observation_id = BaseId(kind)
            BY DEF Row
          <5> QED
            BY <5>1, <5>2
        <4>2. CASE type = "AMEND"
          <5> DEFINE o == Row(BaseId(kind), kind, trade, 1, trade, p.product, "AMENDED", 1, v)
          <5>1. Mutated(p) = {o}
            BY <4>2, MutatedRows
          <5>2. o.observation_kind = kind /\ o.observation_id = BaseId(kind)
            BY DEF Row
          <5> QED
            BY <5>1, <5>2
        <4>3. CASE type = "CANCEL"
          <5> DEFINE o == Row(BaseId(kind), kind, trade, 1, trade, p.product, "CANCELLED", 1, v)
          <5>1. Mutated(p) = {o}
            BY <4>3, MutatedRows
          <5>2. o.observation_kind = kind /\ o.observation_id = BaseId(kind)
            BY DEF Row
          <5> QED
            BY <5>1, <5>2
        <4>4. CASE type = "BOOK_ID"
          <5> DEFINE o == Row(BaseId(kind), kind, trade, 1, trade, p.product, status, 2, v)
          <5>1. Mutated(p) = {o}
            BY <4>4, MutatedRows
          <5>2. o.observation_kind = kind /\ o.observation_id = BaseId(kind)
            BY DEF Row
          <5> QED
            BY <5>1, <5>2
        <4>5. CASE type \in ValueTypes
          <5> DEFINE o == Row(BaseId(kind), kind, trade, 1, trade, p.product, status, 1, RestatedValue(p))
          <5>1. Mutated(p) = {o}
            BY <4>5, MutatedRows
          <5>2. o.observation_kind = kind /\ o.observation_id = BaseId(kind)
            BY DEF Row
          <5> QED
            BY <5>1, <5>2
        <4> QED
          BY <3>1, <4>1, <4>2, <4>3, <4>4, <4>5
      <3>3. FactSources(p) = {BaseId(kind)}
        BY <2>3 DEF FactSources
      <3> QED
        BY <3>2, <3>3 DEF Ids
    <2> QED
      BY <2>1, <2>2, <2>3
  <1>5. {o \in Delivered(p) : o.observation_kind = kind} = Mutated(p)
    BY <1>3, <1>4 DEF Delivered
  <1>6. MutatesObservation(p) = FactSources(p)
    BY <1>2, <1>4, <1>5 DEF MutatesObservation, Ids
  <1>7. FactSources(p) \subseteq Ids(ToSet(Generated(p)))
    <2>1. Mutated(p) \in SUBSET Delivered(p)
      BY DEF Delivered
    <2> QED
      BY <1>2, <1>4, <2>1 DEF Ids
  <1>8. FactSources(p) = {} <=> type = "MISSING"
    BY DEF FactSources
  <1> QED
    BY <1>6, <1>7, <1>8

\* The truth ledger's chain from cause to break is complete, whatever is mutated
\* and in whatever order it is delivered.
THEOREM ChainIsComplete == CorpusSpec => []ProvenanceIsComplete
  <1>1. Planned => ProvenanceIsComplete
    <2> SUFFICES ASSUME plan \in Plans, plan.spec # clean PROVE ProvenanceIsComplete
      BY DEF Planned, ProvenanceIsComplete
    <2> DEFINE edges    == _provenance_graph(plan)
               into(n)  == {e[1] : e \in {d \in edges : d[2] = n}}
               missing  == plan.spec.mutation_type = "MISSING"
               sent     == Ids(ToSet(Generated(plan)))
               supports == FactSources(plan)
    <2>1. /\ MutatesObservation(plan) = supports /\ supports \cap sent = supports
          /\ supports \subseteq sent
          /\ supports = {} <=> missing
      BY MutatedIds
    <2> HIDE DEF sent, supports
    <2>2. \A e : e \in edges <=>
            \/ e = <<Node("cause"), Node("mutation")>>
            \/ e = <<Node("mutation"), Node("delivery")>>
            \/ missing /\ e = <<Node("mutation"), Node("absence")>>
            \/ missing /\ e = <<Node("delivery"), Node("absence")>>
            \/ /\ ~ missing \/ plan.spec.out_of_order
               /\ \E id \in sent : e = <<Node("delivery"), Observed(id)>>
            \/ \E id \in supports : e = <<Node("mutation"), Observed(id)>>
            \/ supports = {} /\ e = <<Node("mutation"), Node("fact")>>
            \/ supports # {} /\ \E id \in supports : e = <<Observed(id), Node("fact")>>
            \/ e = <<Node("fact"), Node("break")>>
      BY <2>1 DEF _provenance_graph, sent, supports
    <2> HIDE DEF edges, missing
    <2> DEFINE Edge(a, b) == <<a, b>> \in edges
    <2>7. \A n, x : x \in into(n) <=> Edge(x, n)
      <3>1. \A e \in edges : e = <<e[1], e[2]>>
        BY <2>2
      <3> HIDE DEF edges
      <3> QED
        BY <3>1
    <2>8. \A x, n : Edge(x, n) <=>
            \/ x = Node("cause") /\ n = Node("mutation")
            \/ x = Node("mutation") /\ n = Node("delivery")
            \/ missing /\ x \in {Node("mutation"), Node("delivery")} /\ n = Node("absence")
            \/ /\ ~ missing \/ plan.spec.out_of_order
               /\ \E id \in sent : x = Node("delivery") /\ n = Observed(id)
            \/ \E id \in supports : x = Node("mutation") /\ n = Observed(id)
            \/ supports = {} /\ x = Node("mutation") /\ n = Node("fact")
            \/ \E id \in supports : x = Observed(id) /\ n = Node("fact")
            \/ x = Node("fact") /\ n = Node("break")
      BY <2>2
    <2> HIDE DEF into, Edge
    <2>3. into(Node("fact")) = IF missing THEN {Node("mutation")} ELSE {Observed(id) : id \in supports}
      <3>1. \A x : Edge(x, Node("fact")) <=>
              (supports = {} /\ x = Node("mutation")) \/ \E id \in supports : x = Observed(id)
        BY <2>8, NodesDiffer
      <3> QED
        BY <2>1, <2>7, <3>1
    <2>4. into(Node("absence")) = IF missing THEN {Node("mutation"), Node("delivery")} ELSE {}
      <3>1. \A x : Edge(x, Node("absence")) <=>
              missing /\ x \in {Node("mutation"), Node("delivery")}
        BY <2>8, NodesDiffer
      <3> QED
        BY <2>7, <3>1
    <2>5. ASSUME NEW id \in supports, ~ missing
          PROVE  into(Observed(id)) = {Node("mutation"), Node("delivery")}
      <3>1. \A x : Edge(x, Observed(id)) <=> x \in {Node("mutation"), Node("delivery")}
        BY <2>8, <2>1, <2>5, NodesDiffer
      <3> QED
        BY <2>7, <3>1
    <2>6. /\ into(Node("fact")) # {}
          /\ \A n \in into(Node("fact")) \ {Node("mutation")} :
                into(n) = {Node("mutation"), Node("delivery")}
          /\ Node("mutation") \in into(Node("fact")) <=> missing
          /\ into(Node("absence")) # {} <=> missing
      BY <2>1, <2>3, <2>4, <2>5, NodesDiffer
    <2> QED
      BY <2>1, <2>6 DEF ProvenanceIsComplete, into, edges, missing, sent, supports
  <1> QED
    BY <1>1, PlanStays, PTL DEF CorpusSpec

-----------------------------------------------------------------------------
\* Loading, one delivery at a time.

Loaded(base, s) == FoldLeft(Ingested, base, s)

\* What FoldLeft goes through: the rows after any part of the deliveries.
Loads(s, base, rows) ==
    rows = [T \in SUBSET DOMAIN s |->
              IF T = {} THEN base ELSE Ingested(rows[T \ {Max(T)}], s[Max(T)])]

LEMMA LoadIsFold ==
    ASSUME NEW s, NEW base
    PROVE  Loaded(base, s) = (CHOOSE rows : Loads(s, base, rows))[DOMAIN s]
  BY DEF Loaded, FoldLeft, MapThenFoldSet, Loads

\* The last position of a part.
LEMMA LastIs ==
    ASSUME NEW k \in Nat, NEW T \in SUBSET (1..k), k \in T
    PROVE  Max(T) = k
  <1>1. \A x \in T : k >= x
    OBVIOUS
  <1>2. \A x \in T : x >= k => x = k
    OBVIOUS
  <1> QED
    BY <1>1, <1>2 DEF Max

\* There are such rows.
LEMMA LoadExists ==
    ASSUME NEW n \in Nat, NEW s, DOMAIN s = 1..n, NEW base
    PROVE  \E rows : Loads(s, base, rows)
  <1> DEFINE Step(h, T) == IF T = {} THEN base ELSE Ingested(h[T \ {Max(T)}], s[Max(T)])
             Upto(k) == \E h : h = [T \in SUBSET (1..k) |-> Step(h, T)]
             Fails == {k \in 0..n : ~ Upto(k)}
  <1>1. Fails = {}
    <2>1. SUFFICES ASSUME Fails # {} PROVE FALSE
      OBVIOUS
    <2>2. Fails \in SUBSET Nat
      OBVIOUS
    <2>3. PICK k \in Fails : \A m \in Fails : ~(m < k)
      <3> HIDE DEF Fails
      <3> QED
        BY <2>1, <2>2, LeastNumber
    <2>4. k # 0
      <3>1. ASSUME k = 0 PROVE Upto(k)
        <4> DEFINE h == [T \in SUBSET (1..k) |-> base]
        <4>1. SUBSET (1..k) = {{}}
          BY <3>1
        <4>2. h = [T \in SUBSET (1..k) |-> Step(h, T)]
          BY <4>1
        <4> QED
          BY <4>2
      <3> QED
        BY <3>1
    <2>5. k \in 0..n /\ k - 1 \in 0..n /\ k - 1 < k /\ k \in Nat /\ k - 1 \in Nat
      BY <2>4
    <2>6. k - 1 \notin Fails
      BY <2>3, <2>5
    <2>7. PICK h : h = [T \in SUBSET (1..(k-1)) |-> Step(h, T)]
      BY <2>5, <2>6
    <2> DEFINE g == [T \in SUBSET (1..k) |->
                       IF k \in T THEN Ingested(h[T \ {k}], s[k]) ELSE h[T]]
    <2>8. ASSUME NEW T \in SUBSET (1..k) PROVE g[T] = Step(g, T)
      <3>1. CASE k \in T
        <4>1. Max(T) = k /\ T # {}
          BY <2>5, <3>1, LastIs
        <4>2. T \ {k} \in SUBSET (1..k) /\ k \notin T \ {k}
          OBVIOUS
        <4>3. g[T \ {k}] = h[T \ {k}]
          BY <4>2
        <4>4. g[T] = Ingested(h[T \ {k}], s[k])
          BY <3>1
        <4> HIDE DEF g
        <4> QED
          BY <4>1, <4>3, <4>4
      <3>2. CASE k \notin T
        <4>1. T \in SUBSET (1..(k-1))
          BY <2>5, <3>2
        <4>2. g[T] = h[T] /\ h[T] = Step(h, T)
          BY <2>7, <3>2, <4>1
        <4>3. T \ {Max(T)} \in SUBSET (1..k) /\ k \notin T \ {Max(T)}
          BY <3>2
        <4>4. g[T \ {Max(T)}] = h[T \ {Max(T)}]
          BY <4>3
        <4> HIDE DEF g
        <4> QED
          BY <4>2, <4>4
      <3> QED
        BY <3>1, <3>2
    <2>9. g = [T \in SUBSET (1..k) |-> Step(g, T)]
      <3>1. g = [T \in SUBSET (1..k) |-> g[T]]
        OBVIOUS
      <3> HIDE DEF g, Step
      <3> QED
        BY <2>8, <3>1
    <2>10. Upto(k)
      <3> HIDE DEF g, Step
      <3> QED
        BY <2>9
    <2> HIDE DEF Upto
    <2> QED
      BY <2>10
  <1>2. Upto(n)
    <2>1. n \in 0..n
      OBVIOUS
    <2> HIDE DEF Upto
    <2> QED
      BY <1>1, <2>1
  <1> QED
    BY <1>2 DEF Loads

\* The rows after each of the deliveries.
LEMMA LoadStepwise ==
    ASSUME NEW n \in Nat, NEW s, DOMAIN s = 1..n, NEW base
    PROVE  \E rows :
              /\ rows[0] = base
              /\ \A k \in 1..n : rows[k] = Ingested(rows[k - 1], s[k])
              /\ Loaded(base, s) = rows[n]
  <1> DEFINE all == CHOOSE rows : Loads(s, base, rows)
  <1>1. Loads(s, base, all)
    BY LoadExists
  <1> HIDE DEF all
  <1>2. all = [T \in SUBSET (1..n) |->
                 IF T = {} THEN base ELSE Ingested(all[T \ {Max(T)}], s[Max(T)])]
    BY <1>1 DEF Loads
  <1> DEFINE rows == [k \in 0..n |-> all[1..k]]
  <1>3. rows[0] = base
    <2>1. 1..0 = {} /\ 0 \in 0..n /\ {} \in SUBSET (1..n)
      OBVIOUS
    <2>2. all[{}] = base
      BY <1>2, <2>1
    <2> QED
      BY <2>1, <2>2
  <1>4. ASSUME NEW k \in 1..n PROVE rows[k] = Ingested(rows[k - 1], s[k])
    <2>1. 1..k \in SUBSET (1..n) /\ k \in 1..k /\ k \in Nat /\ k \in 0..n /\ k - 1 \in 0..n
      OBVIOUS
    <2>2. Max(1..k) = k
      BY <2>1, LastIs
    <2>3. (1..k) \ {k} = 1..(k - 1) /\ 1..k # {}
      BY <2>1
    <2>4. all[1..k] = Ingested(all[(1..k) \ {Max(1..k)}], s[Max(1..k)])
      BY <1>2, <2>1, <2>3
    <2> QED
      BY <2>1, <2>2, <2>3, <2>4
  <1>5. Loaded(base, s) = rows[n]
    <2>1. Loaded(base, s) = all[1..n]
      BY LoadIsFold DEF all
    <2>2. n \in 0..n
      OBVIOUS
    <2> QED
      BY <2>1, <2>2
  <1> HIDE DEF rows
  <1> QED
    BY <1>3, <1>4, <1>5

\* What holds at first and is kept by every delivery holds at last.
LEMMA Climb ==
    ASSUME NEW n \in Nat, NEW Good, 0 \in Good, \A k \in 1..n : k - 1 \in Good => k \in Good
    PROVE  n \in Good
  <1> DEFINE Bad == {k \in 0..n : k \notin Good}
  <1>1. SUFFICES ASSUME Bad # {} PROVE FALSE
    OBVIOUS
  <1>2. Bad \in SUBSET Nat
    OBVIOUS
  <1>3. PICK k \in Bad : \A m \in Bad : ~(m < k)
    <2> HIDE DEF Bad
    <2> QED
      BY <1>1, <1>2, LeastNumber
  <1>4. k # 0
    OBVIOUS
  <1>5. k \in 1..n /\ k - 1 \in 0..n /\ k - 1 < k
    BY <1>4
  <1>6. k - 1 \in Good
    BY <1>3, <1>5
  <1> QED
    BY <1>5, <1>6

Quarantined(rows, o) == \E c \in rows.conflicts : conflict_key(c) = conflict_key(o)

\* The delivery is a row, a replay of one, or in quarantine.
Settled(rows, o) ==
    \E q \in rows.inbox :
        /\ identity_key(q) = identity_key(o)
        /\ content_hash(q) = content_hash(o) \/ Quarantined(rows, o)

\* Every quarantined delivery contradicts a row.
Contradictory(rows) ==
    \A c \in rows.conflicts : \E q \in rows.inbox :
        identity_key(q) = identity_key(c) /\ content_hash(q) # content_hash(c)

\* What the tables hold of one group.
FormedRows(rows) ==
    /\ rows = [inbox |-> rows.inbox, conflicts |-> rows.conflicts]
    /\ rows.inbox \subseteq Observation /\ rows.conflicts \subseteq Observation
    /\ IsFiniteSet(rows.inbox) /\ IsFiniteSet(rows.conflicts)
    /\ \A o, p \in rows.inbox : identity_key(o) = identity_key(p) => o = p
    /\ \A o, p \in rows.conflicts : conflict_key(o) = conflict_key(p) => o = p
    /\ Contradictory(rows)

\* One more delivery: it is settled, what was there stays, and a delivery that is
\* settled changes nothing.
LEMMA IngestOne ==
    ASSUME NEW rows, FormedRows(rows), NEW o \in Observation
    PROVE  LET next == Ingested(rows, o) IN
           /\ FormedRows(next) /\ Settled(next, o)
           /\ rows.inbox \subseteq next.inbox /\ next.inbox \subseteq rows.inbox \cup {o}
           /\ rows.conflicts \subseteq next.conflicts
           /\ next.conflicts \subseteq rows.conflicts \cup {o}
           /\ Settled(rows, o) => next = rows
  <1> DEFINE existing == {q \in rows.inbox : identity_key(q) = identity_key(o)}
             next == Ingested(rows, o)
             I == rows.inbox
             C == rows.conflicts
  <1>1. rows = [inbox |-> I, conflicts |-> C]
    BY DEF FormedRows
  <1>2. CASE existing = {}
    <2>1. next = [rows EXCEPT !.inbox = rows.inbox \cup {o}]
      BY <1>2 DEF Ingested
    <2>2. next.inbox = I \cup {o} /\ next.conflicts = C
          /\ next = [inbox |-> next.inbox, conflicts |-> next.conflicts]
      BY <1>1, <2>1
    <2> HIDE DEF next
    <2>3. Contradictory(next)
      BY <2>2 DEF FormedRows, Contradictory
    <2>4. \A q \in I : identity_key(q) # identity_key(o)
      BY <1>2
    <2>5. IsFiniteSet(I \cup {o})
      BY FS_AddElement DEF FormedRows
    <2>6. FormedRows(next)
      BY <2>2, <2>3, <2>4, <2>5 DEF FormedRows
    <2>7. Settled(next, o) /\ ~ Settled(rows, o)
      BY <2>2, <2>4 DEF Settled
    <2> QED
      BY <2>2, <2>6, <2>7 DEF next
  <1>3. CASE Settled(rows, o)
    <2>1. /\ existing # {}
          /\ \/ \E q \in existing : content_hash(q) = content_hash(o)
             \/ \E q \in rows.conflicts : conflict_key(q) = conflict_key(o)
      BY <1>3 DEF Settled, Quarantined
    <2>2. next = rows
      BY <2>1 DEF Ingested
    <2> QED
      BY <1>3, <2>2
  <1>4. CASE existing # {} /\ ~ Settled(rows, o)
    <2>1. /\ \A q \in existing : content_hash(q) # content_hash(o)
          /\ \A q \in rows.conflicts : conflict_key(q) # conflict_key(o)
      BY <1>4 DEF Settled, Quarantined
    <2>2. next = [rows EXCEPT !.conflicts = rows.conflicts \cup {o}]
      BY <1>4, <2>1 DEF Ingested
    <2>3. next.inbox = I /\ next.conflicts = C \cup {o}
          /\ next = [inbox |-> next.inbox, conflicts |-> next.conflicts]
      BY <1>1, <2>2
    <2> HIDE DEF next
    <2>4. PICK q \in I : identity_key(q) = identity_key(o) /\ content_hash(q) # content_hash(o)
      BY <1>4, <2>1
    <2>5. Contradictory(next)
      BY <2>3, <2>4 DEF FormedRows, Contradictory
    <2>6. \A c \in C : conflict_key(c) # conflict_key(o)
      BY <2>1
    <2>7. IsFiniteSet(C \cup {o})
      BY FS_AddElement DEF FormedRows
    <2>8. FormedRows(next)
      BY <2>3, <2>5, <2>6, <2>7 DEF FormedRows
    <2>9. Settled(next, o)
      BY <2>3, <2>4 DEF Settled, Quarantined
    <2> QED
      BY <1>4, <2>3, <2>8, <2>9 DEF next
  <1> QED
    BY <1>2, <1>3, <1>4

\* What is settled stays so.
LEMMA SettledStays ==
    ASSUME NEW rows, NEW next, NEW o, Settled(rows, o),
           rows.inbox \subseteq next.inbox, rows.conflicts \subseteq next.conflicts
    PROVE  Settled(next, o)
  BY DEF Settled, Quarantined

\* All the deliveries of a sequence.
LEMMA IngestAll ==
    ASSUME NEW D \in SUBSET Observation, NEW s \in Seq(D), ToSet(s) = D,
           NEW base, FormedRows(base)
    PROVE  LET rows == Loaded(base, s) IN
           /\ FormedRows(rows)
           /\ base.inbox \subseteq rows.inbox /\ rows.inbox \subseteq base.inbox \cup D
           /\ base.conflicts \subseteq rows.conflicts /\ rows.conflicts \subseteq base.conflicts \cup D
           /\ \A o \in D : Settled(rows, o)
           /\ (\A o \in D : Settled(base, o)) => rows = base
  <1> DEFINE n == Len(s)
  <1>1. n \in Nat /\ DOMAIN s = 1..n /\ \A k \in 1..n : s[k] \in D /\ s[k] \in Observation
    OBVIOUS
  <1>2. \A o \in D : \E k \in 1..n : o = s[k]
    BY <1>1 DEF ToSet
  <1> HIDE DEF n
  <1>3. PICK rows : /\ rows[0] = base
                    /\ \A k \in 1..n : rows[k] = Ingested(rows[k - 1], s[k])
                    /\ Loaded(base, s) = rows[n]
    BY <1>1, LoadStepwise
  <1> DEFINE Holds(k) ==
                /\ FormedRows(rows[k])
                /\ base.inbox \subseteq rows[k].inbox /\ rows[k].inbox \subseteq base.inbox \cup D
                /\ base.conflicts \subseteq rows[k].conflicts
                /\ rows[k].conflicts \subseteq base.conflicts \cup D
                /\ \A j \in 1..k : Settled(rows[k], s[j])
                /\ (\A o \in D : Settled(base, o)) => rows[k] = base
             Good == {k \in 0..n : Holds(k)}
  <1>4. 0 \in Good
    <2>1. Holds(0)
      BY <1>3
    <2> HIDE DEF Holds
    <2> QED
      BY <1>1, <2>1
  <1>5. ASSUME NEW k \in 1..n, k - 1 \in Good PROVE k \in Good
    <2>1. Holds(k - 1)
      BY <1>5
    <2> DEFINE old == rows[k - 1]
               new == rows[k]
               o   == s[k]
    <2>2. /\ FormedRows(old)
          /\ base.inbox \subseteq old.inbox /\ old.inbox \subseteq base.inbox \cup D
          /\ base.conflicts \subseteq old.conflicts
          /\ old.conflicts \subseteq base.conflicts \cup D
          /\ \A j \in 1..(k-1) : Settled(old, s[j])
          /\ (\A x \in D : Settled(base, x)) => old = base
      BY <2>1
    <2>3. o \in D /\ o \in Observation /\ new = Ingested(old, o)
      BY <1>1, <1>3
    <2> HIDE DEF old, new
    <2>4. /\ FormedRows(new) /\ Settled(new, o)
          /\ old.inbox \subseteq new.inbox /\ new.inbox \subseteq old.inbox \cup {o}
          /\ old.conflicts \subseteq new.conflicts
          /\ new.conflicts \subseteq old.conflicts \cup {o}
          /\ Settled(old, o) => new = old
      BY <2>2, <2>3, IngestOne
    <2>5. \A j \in 1..k : Settled(new, s[j])
      <3>1. ASSUME NEW j \in 1..k PROVE Settled(new, s[j])
        <4>1. CASE j = k
          BY <2>4, <4>1
        <4>2. CASE j # k
          <5>1. j \in 1..(k-1)
            BY <4>2, <1>1
          <5>2. Settled(old, s[j])
            BY <2>2, <5>1
          <5> QED
            BY <2>4, <5>2, SettledStays
        <4> QED
          BY <4>1, <4>2
      <3> QED
        BY <3>1
    <2>6. (\A x \in D : Settled(base, x)) => new = base
      BY <2>2, <2>3, <2>4
    <2>7. /\ base.inbox \subseteq new.inbox /\ new.inbox \subseteq base.inbox \cup D
          /\ base.conflicts \subseteq new.conflicts
          /\ new.conflicts \subseteq base.conflicts \cup D
      BY <2>2, <2>3, <2>4
    <2>8. Holds(k)
      BY <2>4, <2>5, <2>6, <2>7 DEF new
    <2> HIDE DEF Holds
    <2> QED
      BY <1>1, <2>8
  <1> HIDE DEF Good
  <1>6. n \in Good
    BY <1>1, <1>4, <1>5, Climb
  <1>7. Holds(n)
    BY <1>6 DEF Good
  <1>8. \A o \in D : Settled(rows[n], o)
    BY <1>2, <1>7
  <1> QED
    BY <1>3, <1>7, <1>8

\* The inductive invariant of the loading: the tables are formed, and once the
\* corpus is loaded each of its deliveries is settled.
LoadInv ==
    /\ Planned /\ GroupInv /\ Contradictory(Group)
    /\ inbox = {} => conflicts = {} /\ report = NULL
    /\ inbox # {} => \A o \in Delivered(plan) : Settled(Group, o)

LEMMA GroupIsFormed == LoadInv => FormedRows(Group)
  BY DEF LoadInv, GroupInv, TypeOK, FormedRows, Group

\* What one load does.
LEMMA LoadDoes ==
    ASSUME LoadInv, load_demo_corpus
    PROVE  /\ FormedRows(Group')
           /\ inbox \subseteq inbox' /\ inbox' \subseteq inbox \cup Delivered(plan)
           /\ conflicts \subseteq conflicts' /\ conflicts' \subseteq conflicts \cup Delivered(plan)
           /\ \A o \in Delivered(plan) : Settled(Group', o)
           /\ inbox # {} => UNCHANGED <<inbox, conflicts>>
           /\ UNCHANGED <<report, plan>>
  <1> DEFINE rows == Loaded(Group, Generated(plan))
             D == Delivered(plan)
  <1>1. plan \in Plans
    BY DEF LoadInv, Planned
  <1>2. D \in SUBSET Observation
    BY <1>1, DeliveredIsValid
  <1>3. Generated(plan) \in Seq(D) /\ ToSet(Generated(plan)) = D
    BY <1>1, Deliveries
  <1>4. inbox' = rows.inbox /\ conflicts' = rows.conflicts /\ UNCHANGED <<report, plan>>
    BY DEF load_demo_corpus, Loaded, Group
  <1>5. FormedRows(Group) /\ Group.inbox = inbox /\ Group.conflicts = conflicts
    BY GroupIsFormed DEF Group
  <1> HIDE DEF D, rows
  <1>6. /\ FormedRows(rows)
        /\ Group.inbox \subseteq rows.inbox /\ rows.inbox \subseteq Group.inbox \cup D
        /\ Group.conflicts \subseteq rows.conflicts
        /\ rows.conflicts \subseteq Group.conflicts \cup D
        /\ \A o \in D : Settled(rows, o)
        /\ (\A o \in D : Settled(Group, o)) => rows = Group
    BY <1>2, <1>3, <1>5, IngestAll DEF rows
  <1>7. Group' = rows
    <2>1. rows = [inbox |-> rows.inbox, conflicts |-> rows.conflicts]
      BY <1>6 DEF FormedRows
    <2>2. Group' = [inbox |-> inbox', conflicts |-> conflicts']
      BY DEF Group
    <2> QED
      BY <1>4, <2>1, <2>2
  <1>8. inbox # {} => UNCHANGED <<inbox, conflicts>>
    <2>1. inbox # {} => \A o \in D : Settled(Group, o)
      BY DEF LoadInv, D
    <2> QED
      BY <1>4, <1>5, <1>6, <2>1
  <1> QED
    BY <1>4, <1>5, <1>6, <1>7, <1>8 DEF D

LEMMA CorrectionLoads ==
    ASSUME LoadInv, ingest_corrected_booking_observation, UNCHANGED plan
    PROVE  LoadInv'
  <1>1. inbox # {} /\ inbox \subseteq inbox' /\ UNCHANGED conflicts
    BY DEF ingest_corrected_booking_observation
  <1>2. GroupInv'
    BY CorrectionOK DEF LoadInv
  <1>3. /\ Group.inbox = inbox /\ Group.conflicts = conflicts
        /\ Group'.inbox = inbox' /\ Group'.conflicts = conflicts'
    BY DEF Group
  <1>4. Contradictory(Group')
    BY <1>1, <1>3 DEF LoadInv, Contradictory
  <1>5. \A o \in Delivered(plan) : Settled(Group', o)
    BY <1>1, <1>3, SettledStays DEF LoadInv
  <1>6. Delivered(plan)' = Delivered(plan) /\ Planned' /\ Contradictory(Group)'
    BY <1>4 DEF LoadInv, Planned, Delivered, Mutated, Contradictory
  <1>7. \A o \in Delivered(plan') : Settled(Group, o)'
    BY <1>5 DEF Settled, Quarantined
  <1> QED
    BY <1>1, <1>2, <1>6, <1>7 DEF LoadInv

\* Every step keeps it.
LEMMA LoadStep == LoadInv /\ [CorpusNext]_corpusVars => LoadInv'
  <1> SUFFICES ASSUME LoadInv, [CorpusNext]_corpusVars PROVE LoadInv'
    OBVIOUS
  <1>1. UNCHANGED plan /\ Planned'
    BY PlanStays DEF LoadInv
  <1>2. CASE load_demo_corpus
    <2>1. /\ FormedRows(Group')
          /\ inbox \subseteq inbox' /\ conflicts' \subseteq conflicts \cup Delivered(plan)
          /\ \A o \in Delivered(plan) : Settled(Group', o)
          /\ UNCHANGED <<report, plan>>
      BY <1>2, LoadDoes
    <2>2. Group'.inbox = inbox' /\ Group'.conflicts = conflicts'
      BY DEF Group
    <2>3. GroupInv' /\ Contradictory(Group)'
      <3>1. report \in Report
        BY DEF LoadInv, GroupInv, TypeOK
      <3>2. report' \in Report
        BY <2>1, <3>1
      <3> QED
        BY <2>1, <2>2, <3>2 DEF FormedRows, GroupInv, TypeOK, Contradictory
    <2>4. \A o \in Delivered(plan') : Settled(Group, o)'
      BY <2>1 DEF Settled, Quarantined
    <2>5. Delivered(plan) # {}
      <3>1. PICK kind \in Kinds : kind # plan.spec.target_kind
        BY DEF Kinds
      <3> QED
        BY <3>1 DEF Delivered
    <2>6. inbox' # {}
      BY <2>1, <2>2, <2>5 DEF Settled
    <2> QED
      BY <1>1, <2>3, <2>4, <2>6 DEF LoadInv
  <1>3. CASE run_reconciliation /\ UNCHANGED plan
    <2>1. UNCHANGED <<inbox, conflicts>> /\ inbox # {}
      BY <1>3 DEF run_reconciliation
    <2>2. GroupInv'
      BY <1>3, RunOK DEF LoadInv
    <2> QED
      BY <1>1, <2>1, <2>2 DEF LoadInv, Group, Contradictory, Settled, Quarantined
  <1>4. CASE ingest_corrected_booking_observation /\ UNCHANGED plan
    BY <1>4, CorrectionLoads
  <1>5. CASE UNCHANGED corpusVars
    BY <1>1, <1>5 DEF corpusVars, vars, LoadInv, Group, Contradictory, Settled, Quarantined,
                          GroupInv, TypeOK
  <1> QED
    BY <1>2, <1>3, <1>4, <1>5 DEF CorpusNext

LEMMA LoadInit == CorpusInit => LoadInv
  <1> SUFFICES ASSUME CorpusInit PROVE LoadInv
    OBVIOUS
  <1>1. inbox = {} /\ conflicts = {} /\ report = NULL /\ Planned
    BY PlanStays DEF CorpusInit, Init
  <1>2. GroupInv
    BY <1>1, FS_EmptySet DEF GroupInv, TypeOK, Report
  <1>3. Contradictory(Group)
    BY <1>1 DEF Contradictory, Group
  <1> QED
    BY <1>1, <1>2, <1>3 DEF LoadInv

\* Whatever is loaded, run and corrected in between, the tables have one row per
\* source identity and version and quarantine an identifier once.
THEOREM CorpusTypeCorrect == CorpusSpec => []TypeOK
  <1>1. LoadInv => TypeOK
    BY DEF LoadInv, GroupInv
  <1> QED
    BY <1>1, LoadInit, LoadStep, PTL DEF CorpusSpec

\* Loading again is safe: every delivery is a row, a replay or in quarantine
\* already, with whatever corrections have been added (load_demo_corpus).
THEOREM ReloadIsSafe == CorpusSpec => ReloadChangesNothing
  <1>1. LoadInv /\ [CorpusNext]_corpusVars =>
          [inbox # {} /\ load_demo_corpus => UNCHANGED <<inbox, conflicts>>]_corpusVars
    BY LoadDoes
  <1> QED
    BY <1>1, LoadInit, LoadStep, PTL DEF CorpusSpec, ReloadChangesNothing

-----------------------------------------------------------------------------
\* What a run reports of a group.

LEMMA SomeAreThere ==
    ASSUME NEW S, Cardinality(S) > 1
    PROVE  S # {}
  <1>1. S = {} => Cardinality(S) = 0
    BY FS_EmptySet
  <1> QED
    BY <1>1

\* The sources of one scenario: one portfolio, one correlation, two trades at most.
Local(S) ==
    \A o \in S : /\ o.portfolio_id = 1 /\ o.correlation_id = 1
                 /\ o.source_trade_id \in {trade, alternate}

\* The assembler, the linkage contract and the configuration's interval take them.
LEMMA LocalIsTaken ==
    ASSUME NEW S, Locked(S), S # {}, Local(S), NEW t
    PROVE  /\ _locked_source_set(S) /\ valid_evidence_hashes(_linkage_decision(S, t))
           /\ ~ Outside(S)
  <1>1. _locked_source_set(S)
    BY LockedAccepted DEF Local, OneScope
  <1>2. ~ Cardinality({o.source_trade_id : o \in S}) > 8
    <2> DEFINE named == {o.source_trade_id : o \in S}
               pair  == {trade} \cup {alternate}
    <2>1. named \in SUBSET pair
      BY DEF Local
    <2>2. IsFiniteSet({alternate}) /\ Cardinality({alternate}) = 1
      BY FS_Singleton
    <2>3. IsFiniteSet({alternate} \cup {trade}) /\ Cardinality({alternate} \cup {trade}) <= 2
      <3>1. IsFiniteSet({alternate} \cup {trade})
        BY <2>2, FS_AddElement
      <3>2. Cardinality({alternate} \cup {trade})
              = IF trade \in {alternate} THEN Cardinality({alternate}) ELSE Cardinality({alternate}) + 1
        BY <2>2, FS_AddElement
      <3> QED
        BY <2>2, <3>1, <3>2
    <2>4. pair = {alternate} \cup {trade}
      OBVIOUS
    <2> HIDE DEF named, pair
    <2>5. /\ Cardinality(named) <= Cardinality(pair) /\ Cardinality(named) \in Nat
          /\ Cardinality(pair) \in Nat
      BY <2>1, <2>3, <2>4, FS_Subset, FS_CardinalityType
    <2> QED
      BY <2>3, <2>4, <2>5 DEF named
  <1>3. valid_evidence_hashes(_linkage_decision(S, t))
    BY <1>2, CandidatesFit
  <1>4. ~ Outside(S)
    <2>1. \A o \in S : o.ingest_time \in Nat
      BY ObservationFields DEF Locked
    <2> QED
      BY <2>1, CorpusAssumption DEF Outside
  <1> QED
    BY <1>1, <1>3, <1>4

\* A group that is accepted and has no reason to fail is reported as the oracle
\* expects.
LEMMA GroupReports ==
    ASSUME NEW group, NEW S, S = NotSuperseded(group.inbox \cup group.conflicts),
           Locked(S), Local(S), Cardinality(S) > 1, NEW t \in Trades, MostCommonKey(group, S) = t,
           ~ Contradicts(S, t), ~ Retransmitted(S), ~ Pending(S)
    PROVE  LET verdict == _reconcile_lineage_group(group)
               c == Context(S, t)
           IN  /\ verdict.result # "ERROR" /\ verdict.breaks = Breaks(c)
               /\ Facts(verdict) = evaluate(c)
               /\ c.canonical \in S
  <1> DEFINE verdict == _reconcile_lineage_group(group)
             c == Context(S, t)
  <1>1. S # {}
    BY SomeAreThere
  <1>2. verdict = run(c)
    <2>1. _locked_source_set(S) /\ valid_evidence_hashes(_linkage_decision(S, t))
      BY <1>1, LocalIsTaken
    <2>2. c.linkage = _linkage_decision(S, t)
      BY DEF Context
    <2> QED
      BY <2>1, <2>2 DEF _reconcile_lineage_group
  <1>3. PICK o \in S : o.source_business_key = t
    BY <1>1, MostCommonIsThere
  <1>4. _eligible_for_trade(o, t)
    BY <1>3 DEF _eligible_for_trade
  <1>5. _resolved_observation(S, t) \in S
    BY <1>4, ResolvedIsPreferred
  <1>6. c.canonical \in S /\ ContextOf(c, S, t)
    BY <1>5 DEF Context, ContextOf
  <1>7. run(c).result # "ERROR"
    <2>1. ~ Outside(S)
      BY <1>1, LocalIsTaken
    <2> QED
      BY <1>5, <2>1, RunFails
  <1> HIDE DEF c
  <1>8. run(c).breaks = Breaks(c)
    BY <1>7 DEF run, Raised
  <1>9. FactsOf(Breaks(c)) = evaluate(c)
    BY <1>6, FamiliesAgree
  <1>10. Facts(verdict) = FactsOf(verdict.breaks)
    BY DEF Facts, FactsOf
  <1> QED
    BY <1>2, <1>6, <1>7, <1>8, <1>9, <1>10 DEF c

\* The service's configuration (config.py, fixture_config): no arrival window, and
\* tolerances that tell the generator's restated amounts from the agreed ones.
FixtureConfig ==
    /\ \A kind \in RequiredKinds : window_seconds[kind] = 0
    /\ ~ Agree("base_amount", 1000000, 1100000) /\ ~ Agree("base_amount", 1100000, 1000000)
    /\ ~ Agree("terms_amount", 1000000, 1000100) /\ ~ Agree("terms_amount", 1000100, 1000000)
    /\ ~ Agree("quoted_rate", 10000, 10100) /\ ~ Agree("quoted_rate", 10100, 10000)

\* The tolerance of the service, one unit of the last digit, is of that kind, and so
\* is every absolute one below 1.00 and 0.0100.
LEMMA FixtureConfigHolds ==
    ASSUME \A kind \in RequiredKinds : window_seconds[kind] = 0,
           \A f \in EconomicFields : tolerance[f].mode = "ABSOLUTE_DECIMAL" /\ tolerance[f].value < 100
    PROVE  FixtureConfig
  <1>1. \A f \in EconomicFields : tolerance[f].value \in Nat
    BY ConfigAssumption DEF Tolerances
  <1>2. ASSUME NEW f \in EconomicFields, NEW a \in Nat, NEW b \in Nat, b - a >= 100
        PROVE  ~ Agree(f, a, b) /\ ~ Agree(f, b, a)
    <2>1. tolerance[f].mode = "ABSOLUTE_DECIMAL" /\ tolerance[f].value < 100
      OBVIOUS
    <2>2. tolerance[f].value \in Nat
      BY <1>1
    <2>3. /\ Agree(f, a, b) <=> b - a <= tolerance[f].value
          /\ Agree(f, b, a) <=> b - a <= tolerance[f].value
      BY <1>2, <2>1 DEF Agree, _within_tolerance
    <2> QED
      BY <1>2, <2>1, <2>2, <2>3
  <1>3. {"base_amount", "terms_amount", "quoted_rate"} = EconomicFields
    BY DEF EconomicFields
  <1> QED
    BY <1>2, <1>3, SMT DEF FixtureConfig

\* Some source has a status that is not the usual one, and not all say that the
\* trade was amended or cancelled.
Unusual(S) ==
    /\ {o.lifecycle_status : o \in S} \notin {{"AMENDED"}, {"CANCELLED"}}
    /\ \E o \in S : o.lifecycle_status # lifecycle_rule[o.observation_kind]

\* What the oracle finds when nothing is to be verified.
LEMMA Findings ==
    ASSUME FixtureConfig, NEW S \in SUBSET Observation, NEW t \in Trades,
           _resolved_observation(S, t) \in S
    PROVE  LET c == Context(S, t) IN
           \A fact : fact \in evaluate(c) <=>
              \/ \E k \in RequiredKinds : /\ \A o \in S : o.observation_kind # k
                                          /\ fact = <<"MISSING_REQUIRED_SOURCE", k>>
              \/ /\ _linkage_decision(S, t).decision # "ACCEPTED"
                 /\ fact = <<"AMBIGUOUS_OR_UNMATCHED_LINKAGE", "trade_id">>
              \/ /\ ConflictGroups(S) # {}
                 /\ fact = <<"DUPLICATE_SOURCE_CONFLICT", "content_hash">>
              \/ \E f \in Disagreed(c, CurrencyFields) : fact = <<"CURRENCY_PAIR_OR_SIDE_MISMATCH", f>>
              \/ \E f \in Disagreed(c, EconomicFields) : fact = <<"ECONOMIC_VALUE_MISMATCH", f>>
              \/ \E f \in Disagreed(c, DateFields) : fact = <<"TRADE_OR_VALUE_DATE_MISMATCH", f>>
              \/ Unusual(S) /\ fact = <<"LIFECYCLE_STATUS_MISMATCH", "lifecycle_status">>
  <1> DEFINE c == Context(S, t)
  <1>1. /\ c.observations = S /\ c.trade_id = t /\ c.linkage = _linkage_decision(S, t)
        /\ c.wait = 0 /\ c.verification = NULL /\ c.canonical \in S
    BY DEF Context
  <1> HIDE DEF c
  <1>2. \A fact : fact \in _missing_source_facts(c) <=>
          \E k \in RequiredKinds : /\ \A o \in S : o.observation_kind # k
                                   /\ fact = <<"MISSING_REQUIRED_SOURCE", k>>
    <2>1. \A k \in RequiredKinds : ~ c.wait < window_seconds[k]
      BY <1>1 DEF FixtureConfig
    <2> QED
      BY <1>1, <2>1 DEF _missing_source_facts, Fact
  <1>3. _linkage_facts(c) = IF _linkage_decision(S, t).decision = "ACCEPTED" THEN {}
                            ELSE {<<"AMBIGUOUS_OR_UNMATCHED_LINKAGE", "trade_id">>}
    <2> DEFINE l == _linkage_decision(S, t)
    <2>1. \/ /\ l.decision = "ACCEPTED" /\ l.chosen_trade_id = t /\ l.candidates = 1
             /\ l # NULL
          \/ l.decision \in {"UNMATCHED", "AMBIGUOUS"}
      <3>1. \/ \E n : l = [decision |-> "AMBIGUOUS", chosen_trade_id |-> NULL, candidates |-> n]
            \/ l = [decision |-> "UNMATCHED", chosen_trade_id |-> NULL, candidates |-> 0]
            \/ l = [decision |-> "ACCEPTED", chosen_trade_id |-> t, candidates |-> 1]
        BY DEF _linkage_decision
      <3> HIDE DEF l
      <3>2. CASE l = [decision |-> "ACCEPTED", chosen_trade_id |-> t, candidates |-> 1]
        <4>1. l \in LinkageDecision
          BY <3>2 DEF LinkageDecision
        <4>2. l # NULL
          BY <4>1, NullAssumption
        <4> QED
          BY <3>2, <4>2
      <3> QED
        BY <3>1, <3>2
    <2> HIDE DEF l
    <2> QED
      BY <1>1, <2>1 DEF _linkage_facts, Fact, l
  <1>4. _duplicate_facts(c) = IF ConflictGroups(S) = {} THEN {}
                              ELSE {<<"DUPLICATE_SOURCE_CONFLICT", "content_hash">>}
    BY <1>1 DEF _duplicate_facts, Fact
  <1>5. /\ _comparison_facts(c)
             = {<<"CURRENCY_PAIR_OR_SIDE_MISMATCH", f>> : f \in Disagreed(c, CurrencyFields)}
        /\ _date_facts(c) = {<<"TRADE_OR_VALUE_DATE_MISMATCH", f>> : f \in Disagreed(c, DateFields)}
        /\ _economic_facts(c) = {<<"ECONOMIC_VALUE_MISMATCH", f>> : f \in Disagreed(c, EconomicFields)}
    <2>1. FactsOf(_currency_breaks(c)) = _comparison_facts(c)
      BY CurrencyAgrees
    <2>2. FactsOf(_date_break(c)) = _date_facts(c)
      BY DatesAgree
    <2>3. FactsOf(_economic_breaks(c)) = _economic_facts(c)
      BY <1>1, EconomicsAgree
    <2> QED
      BY <2>1, <2>2, <2>3, DivergenceFacts DEF _currency_breaks, _date_break, _economic_breaks
  <1>6. _lifecycle_facts(c) = IF Unusual(S) THEN {<<"LIFECYCLE_STATUS_MISMATCH", "lifecycle_status">>}
                              ELSE {}
    BY <1>1 DEF _lifecycle_facts, Fact, Unusual
  <1>7. _post_action_facts(c) = {}
    BY <1>1 DEF _post_action_facts
  <1>8. \A fact : fact \in evaluate(c) <=>
          \/ fact \in _missing_source_facts(c) \/ fact \in _linkage_facts(c)
          \/ fact \in _duplicate_facts(c) \/ fact \in _comparison_facts(c)
          \/ fact \in _economic_facts(c) \/ fact \in _date_facts(c) \/ fact \in _lifecycle_facts(c)
    BY <1>7 DEF evaluate
  <1>9. \A fact : fact \in evaluate(c) <=>
              \/ \E k \in RequiredKinds : /\ \A o \in S : o.observation_kind # k
                                          /\ fact = <<"MISSING_REQUIRED_SOURCE", k>>
              \/ /\ _linkage_decision(S, t).decision # "ACCEPTED"
                 /\ fact = <<"AMBIGUOUS_OR_UNMATCHED_LINKAGE", "trade_id">>
              \/ /\ ConflictGroups(S) # {}
                 /\ fact = <<"DUPLICATE_SOURCE_CONFLICT", "content_hash">>
              \/ \E f \in Disagreed(c, CurrencyFields) : fact = <<"CURRENCY_PAIR_OR_SIDE_MISMATCH", f>>
              \/ \E f \in Disagreed(c, EconomicFields) : fact = <<"ECONOMIC_VALUE_MISMATCH", f>>
              \/ \E f \in Disagreed(c, DateFields) : fact = <<"TRADE_OR_VALUE_DATE_MISMATCH", f>>
              \/ Unusual(S) /\ fact = <<"LIFECYCLE_STATUS_MISMATCH", "lifecycle_status">>
    BY <1>2, <1>3, <1>4, <1>5, <1>6, <1>8
  <1> QED
    BY <1>9 DEF c

\* At most one source of each kind, and all speak of the trade.
Singles(S, product) ==
    /\ Locked(S) /\ Local(S)
    /\ \A o \in S : /\ o.source_business_key = trade /\ o.source_trade_id = trade
                    /\ o.product_type = product
                    /\ o.observation_kind = "CONFIRMATION" => o.lifecycle_status # "CAPTURED"
    /\ \A o, q \in S : o.observation_kind = q.observation_kind => o = q
    /\ \E o, q \in S : o # q

\* Deliveries of different versions or sources do not conflict.
LEMMA NoConflicts ==
    ASSUME NEW S, \A o, q \in S : identity_key(o) = identity_key(q) => o = q
    PROVE  ConflictGroups(S) = {}
  <1> SUFFICES ASSUME NEW o \in S
               PROVE  LET same == {q \in S : identity_key(q) = identity_key(o)} IN
                      ~ Cardinality({content_hash(q) : q \in same}) >= 2
    BY DEF ConflictGroups
  <1>1. {q \in S : identity_key(q) = identity_key(o)} = {o}
    OBVIOUS
  <1>2. {content_hash(q) : q \in {o}} = {content_hash(o)}
    OBVIOUS
  <1>3. Cardinality({content_hash(o)}) = 1
    BY FS_Singleton
  <1> QED
    BY <1>1, <1>2, <1>3

LEMMA OneProduct ==
    ASSUME NEW S, S # {}, NEW product, \A o \in S : o.product_type = product
    PROVE  ~ Cardinality({o.product_type : o \in S}) > 1
  <1>1. {o.product_type : o \in S} = {product}
    OBVIOUS
  <1>2. Cardinality({product}) = 1
    BY FS_Singleton
  <1> QED
    BY <1>1, <1>2

\* There is nothing to say of its linkage or of conflicts, and no reason to fail.
LEMMA SinglesQuiet ==
    ASSUME NEW S, NEW product, Singles(S, product)
    PROVE  /\ ConflictGroups(S) = {}
           /\ _linkage_decision(S, trade).decision = "ACCEPTED"
           /\ ~ Contradicts(S, trade) /\ ~ Retransmitted(S) /\ ~ Pending(S)
  <1>1. Locked(S) /\ S # {}
    BY DEF Singles
  <1>2. /\ {o.source_trade_id : o \in S} = {trade} /\ {o.product_type : o \in S} = {product}
        /\ \A o \in S : o.source_business_key = trade /\ o.source_trade_id = trade
    <2>1. \A o \in S : /\ o.source_business_key = trade /\ o.source_trade_id = trade
                       /\ o.product_type = product
      BY DEF Singles
    <2>2. {o.source_trade_id : o \in S} = {trade}
      BY <1>1, <2>1
    <2>3. {o.product_type : o \in S} = {product}
      BY <1>1, <2>1
    <2> QED
      BY <2>1, <2>2, <2>3
  <1>3. Cardinality({trade}) = 1 /\ Cardinality({product}) = 1
    BY FS_Singleton
  <1>4. _linkage_decision(S, trade).decision = "ACCEPTED"
    <2>1. ~ Cardinality({o.source_trade_id : o \in S}) > 1
      BY <1>2, <1>3
    <2>2. _linkage_decision(S, trade) = [decision |-> "ACCEPTED", chosen_trade_id |-> trade, candidates |-> 1]
      BY <1>2, <2>1, Zenon DEF _linkage_decision
    <2> QED
      BY <2>2
  <1>5. ConflictGroups(S) = {}
    <2>1. \A o, q \in S : o.observation_kind = q.observation_kind => o = q
      BY DEF Singles
    <2>2. \A o, q \in S : identity_key(o) = identity_key(q) => o = q
      BY <2>1 DEF identity_key
    <2> QED
      BY <2>2, NoConflicts
  <1>6. ~ Contradicts(S, trade)
    <2>1. \A o \in S : o.product_type = product
      BY DEF Singles
    <2>2. ~ Cardinality({o.product_type : o \in S}) > 1
      BY <1>1, <2>1, OneProduct
    <2> QED
      BY <1>2, <2>2 DEF Contradicts
  <1>7. ~ Retransmitted(S)
    BY <1>5 DEF Retransmitted
  <1>8. ~ Pending(S)
    <2> DEFINE unconfirmed == {o \in {q \in S : q.observation_kind = "CONFIRMATION"} :
                                 o.lifecycle_status # "CONFIRMED"}
    <2>1. unconfirmed # {} => FirstOf(unconfirmed) \in unconfirmed
      <3>1. Locked(unconfirmed)
        BY <1>1, LockedPart
      <3> QED
        BY <3>1, FirstIsFirst
    <2>2. \A o \in unconfirmed : o.lifecycle_status # "CAPTURED"
      BY DEF Singles
    <2> QED
      BY <2>1, <2>2 DEF Pending
  <1> QED
    BY <1>4, <1>5, <1>6, <1>7, <1>8

\* Such a group is reported.
LEMMA SinglesReport ==
    ASSUME NEW group, NEW S, S = NotSuperseded(group.inbox \cup group.conflicts),
           NEW product, Singles(S, product)
    PROVE  LET verdict == _reconcile_lineage_group(group)
               c == Context(S, trade)
           IN  /\ MostCommonKey(group, S) = trade
               /\ verdict.result # "ERROR" /\ verdict.breaks = Breaks(c)
               /\ Facts(verdict) = evaluate(c) /\ c.canonical \in S
  <1>1. Locked(S) /\ Local(S) /\ IsFiniteSet(S) /\ S # {} /\ trade \in Trades
    BY CorpusAssumption DEF Singles, Locked
  <1>2. Cardinality(S) > 1
    BY <1>1, TwoOfThem DEF Singles
  <1>3. MostCommonKey(group, S) = trade
    <2>1. PICK o \in S : MostCommonKey(group, S) = o.source_business_key
      BY <1>1, MostCommonIsThere
    <2>2. o.source_business_key = trade
      BY DEF Singles
    <2> QED
      BY <2>1, <2>2
  <1>4. ~ Contradicts(S, trade) /\ ~ Retransmitted(S) /\ ~ Pending(S)
    BY SinglesQuiet
  <1> QED
    BY <1>1, <1>2, <1>3, <1>4, GroupReports

\* A value is within every tolerance of itself.
LEMMA SelfAgrees ==
    ASSUME NEW f \in Fields, NEW n \in Nat
    PROVE  Agree(f, n, n)
  <1>1. CASE f \in EconomicFields
    <2>1. tolerance[f] \in Tolerances
      BY <1>1, ConfigAssumption
    <2>2. /\ tolerance[f].mode \in {"NONE", "ABSOLUTE_DECIMAL", "RELATIVE_DECIMAL"}
          /\ tolerance[f].value \in Nat /\ tolerance[f].per \in Nat
      BY <2>1 DEF Tolerances
    <2>3. n * tolerance[f].value \in Nat /\ 0 * tolerance[f].per = 0 /\ n - n = 0
      BY <2>2
    <2>4. 0 * tolerance[f].per <= n * tolerance[f].value
      BY <2>3
    <2> DEFINE rule == tolerance[f]
    <2> HIDE DEF rule
    <2>5. /\ rule.mode \in {"NONE", "ABSOLUTE_DECIMAL", "RELATIVE_DECIMAL"}
          /\ rule.value \in Nat /\ 0 <= rule.value /\ (n - n) * rule.per <= n * rule.value
      BY <2>2, <2>3, <2>4 DEF rule
    <2>6. _within_tolerance(n, n, rule)
      <3>1. ~ n < n /\ n - n = 0
        OBVIOUS
      <3>2. CASE rule.mode = "NONE"
        BY <3>1, <3>2 DEF _within_tolerance
      <3>3. CASE rule.mode = "ABSOLUTE_DECIMAL"
        BY <2>5, <3>1, <3>3 DEF _within_tolerance
      <3>4. CASE rule.mode = "RELATIVE_DECIMAL"
        BY <2>5, <3>1, <3>4 DEF _within_tolerance
      <3> QED
        BY <2>5, <3>2, <3>3, <3>4
    <2> QED
      BY <1>1, <2>6 DEF Agree, rule
  <1>2. CASE f \notin EconomicFields
    BY <1>2 DEF Agree
  <1> QED
    BY <1>1, <1>2

\* Sources that say the same disagree on nothing.
LEMMA NoneDisagreed ==
    ASSUME NEW S \in SUBSET Observation, NEW c, c.observations = S, c.canonical \in S,
           \A o, q \in S : o.value = q.value
    PROVE  \A fields \in SUBSET Fields : Disagreed(c, fields) = {}
  <1> SUFFICES ASSUME NEW fields \in SUBSET Fields, NEW f \in fields, NEW o \in S,
                      ~ Agree(f, c.canonical.value[f], o.value[f])
               PROVE  FALSE
    BY DEF Disagreed, Others
  <1>1. c.canonical.value[f] \in Nat
    BY ObservationFields
  <1>2. o.value[f] = c.canonical.value[f]
    OBVIOUS
  <1> QED
    BY <1>1, <1>2, SelfAgrees

\* The sources are of two opinions on one field.
Split(S, f, v, w) ==
    /\ f \in Fields /\ v \in [Fields -> Nat] /\ w \in [Fields -> Nat]
    /\ \A g \in Fields \ {f} : v[g] = w[g]
    /\ ~ Agree(f, v[f], w[f]) /\ ~ Agree(f, w[f], v[f])
    /\ \A o \in S : o.value = v \/ o.value = w
    /\ \E o \in S : o.value = v
    /\ \E o \in S : o.value = w

\* Whoever is the authority, this field is the one that is reported.
LEMMA OneDisagreed ==
    ASSUME NEW S, Locked(S), NEW c, c.observations = S, c.canonical \in S,
           NEW f, NEW v, NEW w, Split(S, f, v, w)
    PROVE  \A fields \in SUBSET Fields : Disagreed(c, fields) = fields \cap {f}
  <1> DEFINE base == c.canonical
  <1>1. base \in S /\ \A g \in Fields : base.value[g] \in Nat
    BY ObservationFields DEF Locked
  <1>2. base.value = v \/ base.value = w
    BY <1>1 DEF Split
  <1>3. \A g \in Fields \ {f} : \A o \in S : Agree(g, base.value[g], o.value[g])
    <2> SUFFICES ASSUME NEW g \in Fields \ {f}, NEW o \in S PROVE Agree(g, base.value[g], o.value[g])
      OBVIOUS
    <2>1. o.value[g] = base.value[g]
      BY <1>2 DEF Split
    <2> QED
      BY <1>1, <2>1, SelfAgrees
  <1>4. \E o \in S : o.observation_id # base.observation_id /\ ~ Agree(f, base.value[f], o.value[f])
    <2>1. Agree(f, base.value[f], base.value[f])
      BY <1>1, SelfAgrees DEF Split
    <2>2. PICK o \in S : ~ Agree(f, base.value[f], o.value[f])
      BY <1>2 DEF Split
    <2>3. o # base
      BY <2>1, <2>2
    <2> QED
      BY <1>1, <2>2, <2>3 DEF Locked
  <1> SUFFICES ASSUME NEW fields \in SUBSET Fields PROVE Disagreed(c, fields) = fields \cap {f}
    OBVIOUS
  <1>5. \A g \in fields : (\E o \in Others(c) : ~ Agree(g, base.value[g], o.value[g])) <=> g = f
    BY <1>3, <1>4 DEF Others
  <1> QED
    BY <1>5 DEF Disagreed

\* Breaks of one family that are told apart by the fields they compare.
Apart(found, family) ==
    /\ \A b \in found : b.family = family /\ b.comparisons # {}
    /\ \A a, b \in found : \A x \in a.comparisons, y \in b.comparisons : x.field = y.field => a = b

LEMMA OneOrNone ==
    ASSUME NEW family, NEW comparisons, NEW found, found \in SUBSET {Break(family, comparisons)},
           comparisons # {}
    PROVE  Apart(found, family)
  BY DEF Apart, Break

LEMMA FamiliesApart ==
    ASSUME NEW c, \A g, h \in ConflictGroups(c.observations) : g = h
    PROVE  /\ Apart(_missing_source_breaks(c), "MISSING_REQUIRED_SOURCE")
           /\ Apart(_linkage_break(c), "AMBIGUOUS_OR_UNMATCHED_LINKAGE")
           /\ Apart(_duplicate_breaks(c), "DUPLICATE_SOURCE_CONFLICT")
           /\ Apart(_currency_breaks(c), "CURRENCY_PAIR_OR_SIDE_MISMATCH")
           /\ Apart(_economic_breaks(c), "ECONOMIC_VALUE_MISMATCH")
           /\ Apart(_date_break(c), "TRADE_OR_VALUE_DATE_MISMATCH")
           /\ Apart(_lifecycle_break(c), "LIFECYCLE_STATUS_MISMATCH")
  <1>1. Apart(_missing_source_breaks(c), "MISSING_REQUIRED_SOURCE")
    <2> DEFINE of(k) == Comparison(k, 0, FirstOf(c.observations).observation_id, TRUE)
               brk(k) == Break("MISSING_REQUIRED_SOURCE", {of(k)})
    <2>1. \A b \in _missing_source_breaks(c) : \E k \in RequiredKinds : b = brk(k)
      BY DEF _missing_source_breaks
    <2>2. \A k : /\ brk(k).family = "MISSING_REQUIRED_SOURCE" /\ brk(k).comparisons = {of(k)}
                 /\ of(k).field = k
      BY DEF Break, Comparison
    <2> HIDE DEF of, brk
    <2> QED
      BY <2>1, <2>2 DEF Apart
  <1>2. Apart(_linkage_break(c), "AMBIGUOUS_OR_UNMATCHED_LINKAGE")
    <2> DEFINE observed == FirstOf(c.observations).observation_id
               comparisons == {Comparison("trade_id", observed, observed, TRUE)}
    <2>1. _linkage_break(c) \in SUBSET {Break("AMBIGUOUS_OR_UNMATCHED_LINKAGE", comparisons)}
      BY DEF _linkage_break
    <2>2. comparisons # {}
      OBVIOUS
    <2> HIDE DEF comparisons
    <2> QED
      BY <2>1, <2>2, OneOrNone
  <1>3. Apart(_duplicate_breaks(c), "DUPLICATE_SOURCE_CONFLICT")
    <2> DEFINE first(g)  == FirstOf(g)
               second(g) == FirstOf(g \ {first(g)})
               of(g) == Comparison("content_hash", first(g).observation_id, second(g).observation_id,
                                   content_hash(first(g)) # content_hash(second(g)))
    <2>1. CASE ConflictGroups(c.observations) = {}
      <3>1. _duplicate_breaks(c) = {}
        BY <2>1 DEF _duplicate_breaks
      <3> QED
        BY <3>1 DEF Apart
    <2>2. CASE ConflictGroups(c.observations) # {}
      <3>1. PICK g : g \in ConflictGroups(c.observations)
        BY <2>2
      <3>2. ConflictGroups(c.observations) = {g}
        BY <3>1
      <3>3. _duplicate_breaks(c) \in SUBSET {Break("DUPLICATE_SOURCE_CONFLICT", {of(g)})}
        BY <3>2 DEF _duplicate_breaks
      <3> HIDE DEF of
      <3> QED
        BY <3>3, OneOrNone
    <2> QED
      BY <2>1, <2>2
  <1>4. \A family, fields : Apart(BreakOf(family, Divergence(c, fields)), family)
    <2> SUFFICES ASSUME NEW family, NEW fields PROVE Apart(BreakOf(family, Divergence(c, fields)), family)
      OBVIOUS
    <2>1. CASE Divergence(c, fields) = {}
      BY <2>1 DEF BreakOf, Apart
    <2>2. CASE Divergence(c, fields) # {}
      BY <2>2, OneOrNone DEF BreakOf
    <2> QED
      BY <2>1, <2>2
  <1>5. Apart(_lifecycle_break(c), "LIFECYCLE_STATUS_MISMATCH")
    <2>1. CASE _lifecycle_break(c) = {}
      BY <2>1 DEF Apart
    <2>2. CASE _lifecycle_break(c) # {}
      <3>1. \E x : _lifecycle_break(c) = {Break("LIFECYCLE_STATUS_MISMATCH", {x})}
        BY <2>2 DEF _lifecycle_break
      <3>2. PICK x : _lifecycle_break(c) = {Break("LIFECYCLE_STATUS_MISMATCH", {x})}
        BY <3>1
      <3> QED
        BY <3>2, OneOrNone
    <2> QED
      BY <2>1, <2>2
  <1> QED
    BY <1>1, <1>2, <1>3, <1>4, <1>5 DEF _currency_breaks, _economic_breaks, _date_break

\* As many breaks as facts, if there is one fact at most.
LEMMA AsManyBreaks ==
    ASSUME NEW c, c.verification = NULL, \A g, h \in ConflictGroups(c.observations) : g = h
    PROVE  /\ FactsOf(Breaks(c)) = {} => Cardinality(Breaks(c)) = 0
           /\ \A fact : FactsOf(Breaks(c)) = {fact} => Cardinality(Breaks(c)) = 1
  <1>1. \A b \in Breaks(c) :
          \/ b \in _missing_source_breaks(c) \/ b \in _linkage_break(c) \/ b \in _duplicate_breaks(c)
          \/ b \in _currency_breaks(c) \/ b \in _economic_breaks(c) \/ b \in _date_break(c)
          \/ b \in _lifecycle_break(c)
    <2>1. _post_action_break(c) = {}
      BY DEF _post_action_break
    <2> QED
      BY <2>1 DEF Breaks
  <1>2. \A b \in Breaks(c) : b.comparisons # {}
    BY <1>1, FamiliesApart DEF Apart
  <1>3. \A a, b \in Breaks(c) : \A x \in a.comparisons, y \in b.comparisons :
           a.family = b.family /\ x.field = y.field => a = b
    <2> SUFFICES ASSUME NEW a \in Breaks(c), NEW b \in Breaks(c),
                        NEW x \in a.comparisons, NEW y \in b.comparisons,
                        a.family = b.family, x.field = y.field
                 PROVE  a = b
      OBVIOUS
    <2>1. /\ \A d \in _missing_source_breaks(c) : d.family = "MISSING_REQUIRED_SOURCE"
          /\ \A d \in _linkage_break(c) : d.family = "AMBIGUOUS_OR_UNMATCHED_LINKAGE"
          /\ \A d \in _duplicate_breaks(c) : d.family = "DUPLICATE_SOURCE_CONFLICT"
          /\ \A d \in _currency_breaks(c) : d.family = "CURRENCY_PAIR_OR_SIDE_MISMATCH"
          /\ \A d \in _economic_breaks(c) : d.family = "ECONOMIC_VALUE_MISMATCH"
          /\ \A d \in _date_break(c) : d.family = "TRADE_OR_VALUE_DATE_MISMATCH"
          /\ \A d \in _lifecycle_break(c) : d.family = "LIFECYCLE_STATUS_MISMATCH"
      BY FamiliesApart DEF Apart
    <2>2. \/ a \in _missing_source_breaks(c) /\ b \in _missing_source_breaks(c)
          \/ a \in _linkage_break(c) /\ b \in _linkage_break(c)
          \/ a \in _duplicate_breaks(c) /\ b \in _duplicate_breaks(c)
          \/ a \in _currency_breaks(c) /\ b \in _currency_breaks(c)
          \/ a \in _economic_breaks(c) /\ b \in _economic_breaks(c)
          \/ a \in _date_break(c) /\ b \in _date_break(c)
          \/ a \in _lifecycle_break(c) /\ b \in _lifecycle_break(c)
      BY <1>1, <2>1
    <2>3. \A found, family : Apart(found, family) /\ a \in found /\ b \in found => a = b
      BY DEF Apart
    <2> QED
      BY <2>2, <2>3, FamiliesApart
  <1>4. ASSUME FactsOf(Breaks(c)) = {} PROVE Cardinality(Breaks(c)) = 0
    <2>1. Breaks(c) = {}
      <3> SUFFICES ASSUME NEW b \in Breaks(c) PROVE FALSE
        OBVIOUS
      <3>1. PICK x : x \in b.comparisons
        BY <1>2
      <3>2. <<b.family, x.field>> \in FactsOf(Breaks(c))
        BY <3>1, FactIn
      <3> QED
        BY <1>4, <3>2
    <2> QED
      BY <2>1, FS_EmptySet
  <1>5. ASSUME NEW fact, FactsOf(Breaks(c)) = {fact} PROVE Cardinality(Breaks(c)) = 1
    <2>1. PICK b \in Breaks(c) : \E x \in b.comparisons : fact = <<b.family, x.field>>
      BY <1>5, FactIn
    <2>2. \A a \in Breaks(c) : a = b
      <3> SUFFICES ASSUME NEW a \in Breaks(c) PROVE a = b
        OBVIOUS
      <3>1. PICK y : y \in a.comparisons
        BY <1>2
      <3>2. <<a.family, y.field>> \in FactsOf(Breaks(c))
        BY <3>1, FactIn
      <3>3. PICK x \in b.comparisons : fact = <<b.family, x.field>>
        BY <2>1
      <3>4. a.family = b.family /\ y.field = x.field
        BY <1>5, <3>2, <3>3
      <3> QED
        BY <1>3, <3>1, <3>4
    <2>3. Breaks(c) = {b}
      BY <2>2
    <2> QED
      BY <2>3, FS_Singleton
  <1> QED
    BY <1>4, <1>5

\* A run reports these facts, one break for each.
Reports(group, facts) ==
    LET verdict == _reconcile_lineage_group(group) IN
    /\ Facts(verdict) = facts /\ Cardinality(verdict.breaks) = Cardinality(facts)
    /\ verdict.result # "ERROR"

LEMMA OneReported ==
    ASSUME NEW group, NEW c, c.verification = NULL,
           \A g, h \in ConflictGroups(c.observations) : g = h,
           NEW facts, facts = {} \/ \E fact : facts = {fact},
           Facts(_reconcile_lineage_group(group)) = facts,
           _reconcile_lineage_group(group).breaks = Breaks(c),
           _reconcile_lineage_group(group).result # "ERROR"
    PROVE  Reports(group, facts)
  <1>1. FactsOf(Breaks(c)) = facts
    BY DEF Facts, FactsOf
  <1>2. Cardinality(Breaks(c)) = Cardinality(facts)
    <2>1. CASE facts = {}
      BY <1>1, <2>1, AsManyBreaks, FS_EmptySet
    <2>2. ASSUME NEW fact, facts = {fact} PROVE Cardinality(Breaks(c)) = Cardinality(facts)
      BY <1>1, <2>2, AsManyBreaks, FS_Singleton
    <2> QED
      BY <2>1, <2>2
  <1> QED
    BY <1>2 DEF Reports

\* The facts of sources that are not there.
Absent(S) == {k \in RequiredKinds : \A o \in S : o.observation_kind # k}

Usual(S) == \A o \in S : o.lifecycle_status = lifecycle_rule[o.observation_kind]

FieldFamily(f) ==
    IF f \in CurrencyFields THEN "CURRENCY_PAIR_OR_SIDE_MISMATCH"
    ELSE IF f \in EconomicFields THEN "ECONOMIC_VALUE_MISMATCH" ELSE "TRADE_OR_VALUE_DATE_MISMATCH"

\* What is left to find in a group with one source of each kind.
LEMMA SinglesFacts ==
    ASSUME FixtureConfig, NEW S, NEW product, Singles(S, product),
           _resolved_observation(S, trade) \in S
    PROVE  LET c == Context(S, trade) IN
           \A fact : fact \in evaluate(c) <=>
              \/ \E k \in Absent(S) : fact = <<"MISSING_REQUIRED_SOURCE", k>>
              \/ \E f \in Disagreed(c, Fields) : fact = <<FieldFamily(f), f>>
              \/ Unusual(S) /\ fact = <<"LIFECYCLE_STATUS_MISMATCH", "lifecycle_status">>
  <1> DEFINE c == Context(S, trade)
  <1>1. S \in SUBSET Observation /\ trade \in Trades
    BY CorpusAssumption DEF Singles, Locked
  <1>2. ConflictGroups(S) = {} /\ _linkage_decision(S, trade).decision = "ACCEPTED"
    BY SinglesQuiet
  <1>3. \A fact : fact \in evaluate(c) <=>
              \/ \E k \in RequiredKinds : /\ \A o \in S : o.observation_kind # k
                                          /\ fact = <<"MISSING_REQUIRED_SOURCE", k>>
              \/ \E f \in Disagreed(c, CurrencyFields) : fact = <<"CURRENCY_PAIR_OR_SIDE_MISMATCH", f>>
              \/ \E f \in Disagreed(c, EconomicFields) : fact = <<"ECONOMIC_VALUE_MISMATCH", f>>
              \/ \E f \in Disagreed(c, DateFields) : fact = <<"TRADE_OR_VALUE_DATE_MISMATCH", f>>
              \/ Unusual(S) /\ fact = <<"LIFECYCLE_STATUS_MISMATCH", "lifecycle_status">>
    BY <1>1, <1>2, Findings
  <1> HIDE DEF c
  <1>4. \A f : /\ f \in Disagreed(c, CurrencyFields) <=> f \in Disagreed(c, Fields) /\ f \in CurrencyFields
               /\ f \in Disagreed(c, EconomicFields) <=> f \in Disagreed(c, Fields) /\ f \in EconomicFields
               /\ f \in Disagreed(c, DateFields) <=> f \in Disagreed(c, Fields) /\ f \in DateFields
               /\ f \in Disagreed(c, Fields) =>
                    f \in CurrencyFields \/ f \in EconomicFields \/ f \in DateFields
    BY DEF Disagreed, Fields
  <1>5. /\ \A f \in CurrencyFields : FieldFamily(f) = "CURRENCY_PAIR_OR_SIDE_MISMATCH"
        /\ \A f \in EconomicFields : FieldFamily(f) = "ECONOMIC_VALUE_MISMATCH"
        /\ \A f \in DateFields : FieldFamily(f) = "TRADE_OR_VALUE_DATE_MISMATCH"
    BY DEF FieldFamily, CurrencyFields, EconomicFields, DateFields
  <1>6. \A fact : (\E f \in Disagreed(c, Fields) : fact = <<FieldFamily(f), f>>) <=>
              \/ \E f \in Disagreed(c, CurrencyFields) : fact = <<"CURRENCY_PAIR_OR_SIDE_MISMATCH", f>>
              \/ \E f \in Disagreed(c, EconomicFields) : fact = <<"ECONOMIC_VALUE_MISMATCH", f>>
              \/ \E f \in Disagreed(c, DateFields) : fact = <<"TRADE_OR_VALUE_DATE_MISMATCH", f>>
    BY <1>4, <1>5
  <1>7. \A fact : (\E k \in Absent(S) : fact = <<"MISSING_REQUIRED_SOURCE", k>>) <=>
              \E k \in RequiredKinds : /\ \A o \in S : o.observation_kind # k
                                       /\ fact = <<"MISSING_REQUIRED_SOURCE", k>>
    BY DEF Absent
  <1>8. \A fact : fact \in evaluate(c) <=>
              \/ \E k \in Absent(S) : fact = <<"MISSING_REQUIRED_SOURCE", k>>
              \/ \E f \in Disagreed(c, Fields) : fact = <<FieldFamily(f), f>>
              \/ Unusual(S) /\ fact = <<"LIFECYCLE_STATUS_MISMATCH", "lifecycle_status">>
    BY <1>3, <1>6, <1>7
  <1> QED
    BY <1>8 DEF c

\* A group whose sources agree is reported with the one that is missing.
LEMMA AgreedReported ==
    ASSUME FixtureConfig, NEW group, NEW S, S = NotSuperseded(group.inbox \cup group.conflicts),
           NEW product, Singles(S, product), Usual(S),
           \A o, q \in S : o.value = q.value, \A j, k \in Absent(S) : j = k
    PROVE  Reports(group, {<<"MISSING_REQUIRED_SOURCE", k>> : k \in Absent(S)})
  <1> DEFINE c == Context(S, trade)
             facts == {<<"MISSING_REQUIRED_SOURCE", k>> : k \in Absent(S)}
             verdict == _reconcile_lineage_group(group)
  <1>1. /\ verdict.result # "ERROR" /\ verdict.breaks = Breaks(c)
        /\ Facts(verdict) = evaluate(c) /\ c.canonical \in S
    BY SinglesReport
  <1>2. /\ c.observations = S /\ c.canonical = _resolved_observation(S, trade)
        /\ c.verification = NULL
    BY DEF Context
  <1>3. S \in SUBSET Observation /\ ConflictGroups(S) = {}
    <2>1. S \in SUBSET Observation
      BY DEF Singles, Locked
    <2>2. ConflictGroups(S) = {}
      BY SinglesQuiet
    <2> QED
      BY <2>1, <2>2
  <1>4. \A fact : fact \in evaluate(c) <=>
              \/ \E k \in Absent(S) : fact = <<"MISSING_REQUIRED_SOURCE", k>>
              \/ \E f \in Disagreed(c, Fields) : fact = <<FieldFamily(f), f>>
              \/ Unusual(S) /\ fact = <<"LIFECYCLE_STATUS_MISMATCH", "lifecycle_status">>
    <2>1. _resolved_observation(S, trade) \in S
      BY <1>1, <1>2
    <2> QED
      BY <2>1, SinglesFacts
  <1> HIDE DEF c
  <1>5. Disagreed(c, Fields) = {}
    BY <1>1, <1>2, <1>3, NoneDisagreed
  <1>6. ~ Unusual(S)
    BY DEF Unusual, Usual
  <1>7. \A fact : fact \in evaluate(c) <=> \E k \in Absent(S) : fact = <<"MISSING_REQUIRED_SOURCE", k>>
    BY <1>4, <1>5, <1>6
  <1>8. evaluate(c) = facts
    BY <1>7
  <1>9. facts = {} \/ \E fact : facts = {fact}
    <2>1. CASE Absent(S) = {}
      BY <2>1
    <2>2. CASE Absent(S) # {}
      <3>1. PICK k : k \in Absent(S)
        BY <2>2
      <3>2. Absent(S) = {k}
        BY <3>1
      <3>3. facts = {<<"MISSING_REQUIRED_SOURCE", k>>}
        BY <3>2
      <3> QED
        BY <3>3
    <2> QED
      BY <2>1, <2>2
  <1> HIDE DEF facts, verdict
  <1>10. Reports(group, facts)
    BY <1>1, <1>2, <1>3, <1>8, <1>9, OneReported DEF verdict
  <1> QED
    BY <1>10 DEF facts

\* A group with one finding of another family is reported with that one.
LEMMA FindingReported ==
    ASSUME FixtureConfig, NEW group, NEW S, S = NotSuperseded(group.inbox \cup group.conflicts),
           NEW product, Singles(S, product), Absent(S) = {}
    PROVE  /\ \A f, v, w : Split(S, f, v, w) /\ Usual(S) => Reports(group, {<<FieldFamily(f), f>>})
           /\ (\A o, q \in S : o.value = q.value) /\ Unusual(S) =>
                 Reports(group, {<<"LIFECYCLE_STATUS_MISMATCH", "lifecycle_status">>})
  <1> DEFINE c == Context(S, trade)
             verdict == _reconcile_lineage_group(group)
  <1>1. /\ verdict.result # "ERROR" /\ verdict.breaks = Breaks(c)
        /\ Facts(verdict) = evaluate(c) /\ c.canonical \in S
    BY SinglesReport
  <1>2. /\ c.observations = S /\ c.canonical = _resolved_observation(S, trade)
        /\ c.verification = NULL
    BY DEF Context
  <1>3. Locked(S) /\ S \in SUBSET Observation /\ ConflictGroups(S) = {}
    <2>1. Locked(S) /\ S \in SUBSET Observation
      BY DEF Singles, Locked
    <2>2. ConflictGroups(S) = {}
      BY SinglesQuiet
    <2> QED
      BY <2>1, <2>2
  <1>4. \A fact : fact \in evaluate(c) <=>
              \/ \E f \in Disagreed(c, Fields) : fact = <<FieldFamily(f), f>>
              \/ Unusual(S) /\ fact = <<"LIFECYCLE_STATUS_MISMATCH", "lifecycle_status">>
    <2>1. _resolved_observation(S, trade) \in S
      BY <1>1, <1>2
    <2> QED
      BY <2>1, SinglesFacts
  <1> HIDE DEF c, verdict
  <1>5. \A fact : evaluate(c) = {fact} => Reports(group, {fact})
    BY <1>1, <1>2, <1>3, OneReported DEF verdict
  <1>6. ASSUME NEW f, NEW v, NEW w, Split(S, f, v, w), Usual(S)
        PROVE  Reports(group, {<<FieldFamily(f), f>>})
    <2>1. Disagreed(c, Fields) = {f}
      <3>1. \A fields \in SUBSET Fields : Disagreed(c, fields) = fields \cap {f}
        BY <1>1, <1>2, <1>3, <1>6, OneDisagreed
      <3> QED
        BY <1>6, <3>1 DEF Split
    <2>2. ~ Unusual(S)
      BY <1>6 DEF Unusual, Usual
    <2>3. evaluate(c) = {<<FieldFamily(f), f>>}
      BY <1>4, <2>1, <2>2
    <2> QED
      BY <1>5, <2>3
  <1>7. ASSUME \A o, q \in S : o.value = q.value, Unusual(S)
        PROVE  Reports(group, {<<"LIFECYCLE_STATUS_MISMATCH", "lifecycle_status">>})
    <2>1. Disagreed(c, Fields) = {}
      BY <1>1, <1>2, <1>3, <1>7, NoneDisagreed
    <2>2. evaluate(c) = {<<"LIFECYCLE_STATUS_MISMATCH", "lifecycle_status">>}
      BY <1>4, <1>7, <2>1
    <2> QED
      BY <1>5, <2>2
  <1> QED
    BY <1>6, <1>7

-----------------------------------------------------------------------------
\* The deliveries of a scenario, field by field.

LEMMA HonestFields ==
    ASSUME NEW p \in Plans, NEW kind \in Kinds
    PROVE  LET o == Honest(p, kind) IN
           /\ o.observation_id = BaseId(kind) /\ o.observation_kind = kind
           /\ o.source_business_key = trade /\ o.source_version = 1 /\ o.source_trade_id = trade
           /\ o.product_type = p.product /\ o.lifecycle_status = lifecycle_rule[kind]
           /\ o.record = 1 /\ o.value = common_payload(p)
  BY HonestRow DEF Row

\* The status and the value of a target that is sent once.
TargetStatus(p) ==
    IF p.spec.mutation_type = "AMEND" THEN "AMENDED"
    ELSE IF p.spec.mutation_type = "CANCEL" THEN "CANCELLED" ELSE lifecycle_rule[p.spec.target_kind]

TargetValue(p) == IF p.spec.mutation_type \in ValueTypes THEN RestatedValue(p) ELSE common_payload(p)

TargetTrade(p) == IF p.spec.mutation_type = "UNMATCHED" THEN alternate ELSE trade

LEMMA TargetFields ==
    ASSUME NEW p \in Plans, p.spec # clean,
           p.spec.mutation_type \notin {"MISSING", "AMBIGUOUS", "DUPLICATE"}
    PROVE  \E o : /\ Mutated(p) = {o}
                  /\ o.observation_id = BaseId(p.spec.target_kind)
                  /\ o.observation_kind = p.spec.target_kind
                  /\ o.source_business_key = TargetTrade(p) /\ o.source_trade_id = TargetTrade(p)
                  /\ o.source_version = 1 /\ o.product_type = p.product
                  /\ o.lifecycle_status = TargetStatus(p) /\ o.value = TargetValue(p)
  <1> DEFINE kind == p.spec.target_kind
             type == p.spec.mutation_type
  <1>1. kind \in Kinds /\ ShapeOf(_family_for_spec(p.spec), p.spec)
    BY PlanShape
  <1>2. type \in {"UNMATCHED", "AMEND", "CANCEL", "BOOK_ID"} \cup ValueTypes
    BY <1>1 DEF ShapeOf, Shape, ValueTypes
  <1>3. \E record : Mutated(p) = {Row(BaseId(kind), kind, TargetTrade(p), 1, TargetTrade(p),
                                      p.product, TargetStatus(p), record, TargetValue(p))}
    <2>1. CASE type = "UNMATCHED"
      BY <2>1, MutatedRows DEF TargetTrade, TargetStatus, TargetValue, ValueTypes
    <2>2. CASE type = "AMEND"
      BY <2>2, MutatedRows DEF TargetTrade, TargetStatus, TargetValue, ValueTypes
    <2>3. CASE type = "CANCEL"
      BY <2>3, MutatedRows DEF TargetTrade, TargetStatus, TargetValue, ValueTypes
    <2>4. CASE type = "BOOK_ID"
      BY <2>4, MutatedRows DEF TargetTrade, TargetStatus, TargetValue, ValueTypes
    <2>5. CASE type \in ValueTypes
      BY <2>5, MutatedRows DEF TargetTrade, TargetStatus, TargetValue, ValueTypes
    <2> QED
      BY <1>2, <2>1, <2>2, <2>3, <2>4, <2>5
  <1>4. PICK record : Mutated(p) = {Row(BaseId(kind), kind, TargetTrade(p), 1, TargetTrade(p),
                                        p.product, TargetStatus(p), record, TargetValue(p))}
    BY <1>3
  <1> DEFINE o == Row(BaseId(kind), kind, TargetTrade(p), 1, TargetTrade(p),
                      p.product, TargetStatus(p), record, TargetValue(p))
  <1>5. /\ o.observation_id = BaseId(kind) /\ o.observation_kind = kind
        /\ o.source_business_key = TargetTrade(p) /\ o.source_trade_id = TargetTrade(p)
        /\ o.source_version = 1 /\ o.product_type = p.product
        /\ o.lifecycle_status = TargetStatus(p) /\ o.value = TargetValue(p)
    BY DEF Row
  <1> HIDE DEF o
  <1>6. Mutated(p) = {o}
    BY <1>4 DEF o
  <1> QED
    BY <1>5, <1>6

\* The delivery that comes on top of the target.
SecondVersion(p) == IF p.spec.mutation_type = "AMBIGUOUS" THEN 2 ELSE 1
SecondTrade(p) == IF p.spec.mutation_type = "AMBIGUOUS" THEN alternate ELSE trade

LEMMA SecondFields ==
    ASSUME NEW p \in Plans, p.spec # clean, p.spec.mutation_type \in {"AMBIGUOUS", "DUPLICATE"}
    PROVE  \E o : /\ Mutated(p) = {Honest(p, p.spec.target_kind), o}
                  /\ o.observation_id = AlternateId(p, p.spec.target_kind)
                  /\ o.observation_kind = p.spec.target_kind
                  /\ o.source_business_key = trade /\ o.source_trade_id = SecondTrade(p)
                  /\ o.source_version = SecondVersion(p) /\ o.product_type = p.product
                  /\ o.lifecycle_status = lifecycle_rule[p.spec.target_kind]
                  /\ o.record = 2 /\ o.value = common_payload(p)
  <1> DEFINE kind == p.spec.target_kind
             o == Row(AlternateId(p, kind), kind, trade, SecondVersion(p), SecondTrade(p),
                      p.product, lifecycle_rule[kind], 2, common_payload(p))
  <1>1. Mutated(p) = {Honest(p, kind), o}
    <2>1. CASE p.spec.mutation_type = "AMBIGUOUS"
      BY <2>1, MutatedRows DEF SecondVersion, SecondTrade
    <2>2. CASE p.spec.mutation_type = "DUPLICATE"
      BY <2>2, MutatedRows DEF SecondVersion, SecondTrade
    <2> QED
      BY <2>1, <2>2
  <1>2. /\ o.observation_id = AlternateId(p, kind) /\ o.observation_kind = kind
        /\ o.source_business_key = trade /\ o.source_trade_id = SecondTrade(p)
        /\ o.source_version = SecondVersion(p) /\ o.product_type = p.product
        /\ o.lifecycle_status = lifecycle_rule[kind] /\ o.record = 2 /\ o.value = common_payload(p)
    BY DEF Row
  <1> HIDE DEF o
  <1> QED
    BY <1>1, <1>2

\* Every delivery is an honest one or the mutation's.
LEMMA DeliveredParts ==
    ASSUME NEW p \in Plans
    PROVE  /\ \A o \in Delivered(p) :
                 /\ o.observation_kind \in Kinds
                 /\ \/ o.observation_kind # p.spec.target_kind /\ o = Honest(p, o.observation_kind)
                    \/ o.observation_kind = p.spec.target_kind /\ o \in Mutated(p)
           /\ \A kind \in Kinds \ {p.spec.target_kind} : Honest(p, kind) \in Delivered(p)
           /\ Mutated(p) \subseteq Delivered(p)
  <1>1. \A o \in Mutated(p) : o.observation_kind = p.spec.target_kind /\ p.spec.target_kind \in Kinds
    <2>1. CASE p.spec.mutation_type \in {"NONE", "MISSING"}
      BY <2>1 DEF Mutated
    <2>2. CASE p.spec.mutation_type \notin {"NONE", "MISSING"}
      <3>1. p.spec # clean /\ p.spec.target_kind \in Kinds
        BY <2>2, PlanShape
      <3>2. CASE p.spec.mutation_type \in {"AMBIGUOUS", "DUPLICATE"}
        <4>1. Honest(p, p.spec.target_kind).observation_kind = p.spec.target_kind
          BY <3>1, HonestFields
        <4>2. PICK o : /\ Mutated(p) = {Honest(p, p.spec.target_kind), o}
                       /\ o.observation_kind = p.spec.target_kind
          BY <3>1, <3>2, SecondFields
        <4> QED
          BY <3>1, <4>1, <4>2
      <3>3. CASE p.spec.mutation_type \notin {"AMBIGUOUS", "DUPLICATE"}
        <4>1. PICK o : Mutated(p) = {o} /\ o.observation_kind = p.spec.target_kind
          BY <2>2, <3>1, <3>3, TargetFields
        <4> QED
          BY <3>1, <4>1
      <3> QED
        BY <3>2, <3>3
    <2> QED
      BY <2>1, <2>2
  <1>2. \A kind \in Kinds : Honest(p, kind).observation_kind = kind
    BY HonestFields
  <1> QED
    BY <1>1, <1>2 DEF Delivered

LEMMA DeliveredFinite ==
    ASSUME NEW p \in Plans
    PROVE  IsFiniteSet(Delivered(p))
  <1> DEFINE K == Kinds \ {p.spec.target_kind}
             f == [kind \in K |-> Honest(p, kind)]
  <1>1. IsFiniteSet(K)
    <2>1. IsFiniteSet(Kinds)
      <3>2. IsFiniteSet({"EXECUTION"})
        BY FS_Singleton
      <3>3. IsFiniteSet({"EXECUTION"} \cup {"TRADE_CAPTURE"})
        BY <3>2, FS_AddElement
      <3>4. IsFiniteSet(({"EXECUTION"} \cup {"TRADE_CAPTURE"}) \cup {"CONFIRMATION"})
        BY <3>3, FS_AddElement
      <3>5. IsFiniteSet((({"EXECUTION"} \cup {"TRADE_CAPTURE"}) \cup {"CONFIRMATION"}) \cup {"BOOKING"})
        BY <3>4, FS_AddElement
      <3>6. Kinds = (({"EXECUTION"} \cup {"TRADE_CAPTURE"}) \cup {"CONFIRMATION"}) \cup {"BOOKING"}
        BY DEF Kinds
      <3> QED
        BY <3>5, <3>6
    <2> QED
      BY <2>1, FS_Subset
  <1>2. IsFiniteSet({f[kind] : kind \in K})
    <2> HIDE DEF K
    <2>1. f = [kind \in K |-> f[kind]]
      OBVIOUS
    <2> HIDE DEF f
    <2> QED
      BY <1>1, <2>1, FiniteImage
  <1>3. IsFiniteSet(Mutated(p))
    <2>1. \A x, y : IsFiniteSet({}) /\ IsFiniteSet({x}) /\ IsFiniteSet({x, y})
      <3>1. \A x : IsFiniteSet({}) /\ IsFiniteSet({x})
        BY FS_EmptySet, FS_Singleton
      <3>2. ASSUME NEW x, NEW y PROVE IsFiniteSet({x, y})
        <4>1. {x, y} = {x} \cup {y}
          OBVIOUS
        <4> QED
          BY <3>1, <4>1, FS_AddElement
      <3> QED
        BY <3>1, <3>2
    <2>2. \/ Mutated(p) = {} \/ (\E x : Mutated(p) = {x}) \/ (\E x, y : Mutated(p) = {x, y})
      BY DEF Mutated
    <2> QED
      BY <2>1, <2>2
  <1>4. Delivered(p) = {f[kind] : kind \in K} \cup Mutated(p)
    BY DEF Delivered
  <1> QED
    BY <1>2, <1>3, <1>4, FS_Union

\* No identifier and no content is sent twice.
LEMMA DeliveredDistinct ==
    ASSUME NEW p \in Plans, NEW o \in Delivered(p), NEW q \in Delivered(p),
           \/ o.observation_id = q.observation_id
           \/ content_hash(o) = content_hash(q)
    PROVE  o = q
  <1> DEFINE kind == p.spec.target_kind
  <1>1. /\ o.observation_kind \in Kinds /\ q.observation_kind \in Kinds
        /\ o \in Observation /\ q \in Observation
        /\ o.observation_id \in {BaseId(o.observation_kind), AlternateId(p, o.observation_kind)}
        /\ q.observation_id \in {BaseId(q.observation_kind), AlternateId(p, q.observation_kind)}
    BY DeliveredParts, DeliveredIsValid
  <1>2. o.observation_kind = q.observation_kind
    <2>1. CASE o.observation_id = q.observation_id
      BY <1>1, <2>1 DEF BaseId, AlternateId, _OBSERVATION_RANK, Kinds
    <2>2. CASE content_hash(o) = content_hash(q)
      <3>1. \A x \in Observation : content_hash(x).observation_kind = x.observation_kind
        BY DEF content_hash, Observation
      <3> QED
        BY <1>1, <2>2, <3>1
    <2> QED
      BY <2>1, <2>2
  <1>3. CASE o.observation_kind # kind
    BY <1>2, <1>3, DeliveredParts
  <1>4. CASE o.observation_kind = kind
    <2>1. o \in Mutated(p) /\ q \in Mutated(p) /\ kind \in Kinds
      BY <1>1, <1>2, <1>4, DeliveredParts
    <2>2. p.spec # clean /\ p.spec.mutation_type \notin {"NONE", "MISSING"}
      <3>1. p.spec.mutation_type \notin {"NONE", "MISSING"}
        BY <2>1 DEF Mutated
      <3> QED
        BY <3>1, PlanShape
    <2>3. CASE p.spec.mutation_type \in {"AMBIGUOUS", "DUPLICATE"}
      <3>1. /\ Honest(p, kind).observation_id = BaseId(kind) /\ Honest(p, kind).record = 1
            /\ BaseId(kind) # AlternateId(p, kind)
        BY <2>1, HonestFields, TwoIds
      <3>2. PICK m : /\ Mutated(p) = {Honest(p, kind), m}
                     /\ m.observation_id = AlternateId(p, kind) /\ m.record = 2
        BY <2>2, <2>3, SecondFields
      <3>3. \A x \in Observation : content_hash(x).record = x.record
        BY DEF content_hash, Observation
      <3>4. content_hash(o) = content_hash(q) => o.record = q.record
        BY <1>1, <3>3
      <3> QED
        BY <2>1, <3>1, <3>2, <3>4
    <2>4. CASE p.spec.mutation_type \notin {"AMBIGUOUS", "DUPLICATE"}
      <3>1. \E x : Mutated(p) = {x}
        BY <2>2, <2>4, TargetFields
      <3> QED
        BY <2>1, <3>1
    <2> QED
      BY <2>3, <2>4
  <1> QED
    BY <1>3, <1>4

LEMMA DeliveredLocked ==
    ASSUME NEW p \in Plans
    PROVE  /\ Locked(Delivered(p)) /\ Local(Delivered(p))
           /\ NotSuperseded(Delivered(p)) = Delivered(p)
  <1>1. \A o \in Delivered(p) : o \in Observation /\ o.supersedes_observation_id = 0
    BY DeliveredIsValid
  <1>2. \A o \in Delivered(p) : o.observation_id # 0
    BY <1>1, ObservationFields
  <1>3. \A o, q \in Delivered(p) : o.observation_id = q.observation_id => o = q
    BY DeliveredDistinct
  <1>4. Local(Delivered(p))
    BY DeliveredIsValid DEF Local
  <1> QED
    BY <1>1, <1>2, <1>3, <1>4, DeliveredFinite DEF Locked, NotSuperseded

\* Two of the sources are always there as they should be.
LEMMA TwoHonest ==
    ASSUME NEW p \in Plans
    PROVE  \E j, k \in Kinds \ {p.spec.target_kind} :
              /\ j # k /\ Honest(p, j) \in Delivered(p) /\ Honest(p, k) \in Delivered(p)
              /\ Honest(p, j) # Honest(p, k)
  <1>1. PICK j, k \in Kinds \ {p.spec.target_kind} : j # k
    BY DEF Kinds
  <1>2. Honest(p, j).observation_kind = j /\ Honest(p, k).observation_kind = k
    BY HonestFields
  <1> QED
    BY <1>1, <1>2, DeliveredParts

LinkedTypes == {"UNMATCHED", "AMBIGUOUS", "DUPLICATE"}

\* But for linkage and duplicates, a scenario is one source of each kind at most.
LEMMA DeliveredSingles ==
    ASSUME NEW p \in Plans, p.spec.mutation_type \notin LinkedTypes
    PROVE  /\ Singles(Delivered(p), p.product)
           /\ \A o \in Delivered(p) : o.observation_kind = p.spec.target_kind =>
                 o.lifecycle_status = TargetStatus(p) /\ o.value = TargetValue(p)
           /\ \A o \in Delivered(p) : o.observation_kind # p.spec.target_kind =>
                 /\ o.lifecycle_status = lifecycle_rule[o.observation_kind]
                 /\ o.value = common_payload(p)
           /\ p.spec.mutation_type \notin {"NONE", "MISSING"} =>
                 \E o \in Delivered(p) : o.observation_kind = p.spec.target_kind
  <1> DEFINE kind == p.spec.target_kind
             D == Delivered(p)
  <1>1. ASSUME NEW o \in D, o.observation_kind # kind
        PROVE  /\ o = Honest(p, o.observation_kind)
               /\ o.source_business_key = trade /\ o.source_trade_id = trade
               /\ o.product_type = p.product /\ o.value = common_payload(p)
               /\ o.lifecycle_status = lifecycle_rule[o.observation_kind]
               /\ o.observation_kind \in Kinds
    <2>1. o.observation_kind \in Kinds /\ o = Honest(p, o.observation_kind)
      BY <1>1, DeliveredParts
    <2> DEFINE k == o.observation_kind
    <2>2. /\ Honest(p, k).source_business_key = trade /\ Honest(p, k).source_trade_id = trade
          /\ Honest(p, k).product_type = p.product /\ Honest(p, k).value = common_payload(p)
          /\ Honest(p, k).lifecycle_status = lifecycle_rule[k]
      BY <2>1, HonestFields
    <2> QED
      BY <2>1, <2>2
  <1>2. ASSUME NEW o \in D, o.observation_kind = kind
        PROVE  /\ Mutated(p) = {o} /\ kind \in Kinds
               /\ o.source_business_key = trade /\ o.source_trade_id = trade
               /\ o.product_type = p.product /\ o.value = TargetValue(p)
               /\ o.lifecycle_status = TargetStatus(p)
    <2>1. o \in Mutated(p) /\ kind \in Kinds
      BY <1>2, DeliveredParts
    <2>2. p.spec # clean /\ p.spec.mutation_type \notin {"NONE", "MISSING"}
      <3>1. p.spec.mutation_type \notin {"NONE", "MISSING"}
        BY <2>1 DEF Mutated
      <3> QED
        BY <3>1, PlanShape
    <2>3. TargetTrade(p) = trade
      BY DEF TargetTrade, LinkedTypes
    <2>4. PICK m : /\ Mutated(p) = {m}
                   /\ m.source_business_key = TargetTrade(p) /\ m.source_trade_id = TargetTrade(p)
                   /\ m.product_type = p.product
                   /\ m.lifecycle_status = TargetStatus(p) /\ m.value = TargetValue(p)
      BY <2>2, TargetFields DEF LinkedTypes
    <2> QED
      BY <2>1, <2>3, <2>4
  <1>3. ASSUME p.spec.mutation_type \notin {"NONE", "MISSING"}
        PROVE  \E o \in D : o.observation_kind = kind
    <2>1. p.spec # clean
      BY <1>3, PlanShape
    <2>2. PICK m : Mutated(p) = {m} /\ m.observation_kind = kind
      BY <1>3, <2>1, TargetFields DEF LinkedTypes
    <2> QED
      BY <2>2, DeliveredParts
  <1>4. \A o \in D : /\ o.source_business_key = trade /\ o.source_trade_id = trade
                     /\ o.product_type = p.product
    BY <1>1, <1>2
  <1>5. \A o \in D : o.observation_kind = "CONFIRMATION" => o.lifecycle_status # "CAPTURED"
    <2> SUFFICES ASSUME NEW o \in D, o.observation_kind = "CONFIRMATION"
                 PROVE  o.lifecycle_status # "CAPTURED"
      OBVIOUS
    <2>1. CASE o.observation_kind # kind
      BY <1>1, <2>1 DEF lifecycle_rule
    <2>2. CASE o.observation_kind = kind
      BY <1>2, <2>2 DEF lifecycle_rule, TargetStatus
    <2> QED
      BY <2>1, <2>2
  <1>6. \A o, q \in D : o.observation_kind = q.observation_kind => o = q
    <2> SUFFICES ASSUME NEW o \in D, NEW q \in D, o.observation_kind = q.observation_kind
                 PROVE  o = q
      OBVIOUS
    <2>1. CASE o.observation_kind # kind
      BY <1>1, <2>1
    <2>2. CASE o.observation_kind = kind
      BY <1>2, <2>2
    <2> QED
      BY <2>1, <2>2
  <1>7. \E o, q \in D : o # q
    BY TwoHonest
  <1>8. Singles(D, p.product)
    BY <1>4, <1>5, <1>6, <1>7, DeliveredLocked DEF Singles
  <1> QED
    BY <1>1, <1>2, <1>3, <1>8

-----------------------------------------------------------------------------
\* Every scenario is detected.

\* ExpectedFacts before any correction.
ExpectedOf(p) ==
    CASE p.spec.mutation_type = "BOOK_ID" -> {}
      [] p.spec.target_kind = "BOOKING" /\ p.spec.mutation_type = "CANCEL" ->
           {<<"LIFECYCLE_STATUS_MISMATCH", "lifecycle_status">>}
      [] OTHER -> _mutated_truth(p)

\* The agreed value and the restated one are out of every tolerance.
LEMMA RestatedIsSeen ==
    ASSUME FixtureConfig, NEW p \in Plans, p.spec.mutation_type \in ValueTypes
    PROVE  LET f == p.spec.field
               n == common_payload(p)[f]
           IN  ~ Agree(f, n, NewValue(p)) /\ ~ Agree(f, NewValue(p), n)
  <1> DEFINE f == p.spec.field
             n == common_payload(p)[f]
  <1>1. f \in Fields /\ NewValue(p) # n
    BY NewValueDiffers
  <1>2. CASE f \notin EconomicFields
    BY <1>1, <1>2 DEF Agree
  <1>3. CASE f \in EconomicFields
    <2>1. \/ f = "base_amount" /\ n = 1000000 /\ NewValue(p) = 1100000
          \/ f = "terms_amount" /\ n = 1000000 /\ NewValue(p) = 1000100
          \/ f = "quoted_rate" /\ n = 10000 /\ NewValue(p) = 10100
      <3>1. p.side \in {1, 2} /\ p.product \in {"FX_SPOT", "FX_FORWARD"}
        BY PlanShape, CorpusAssumption
      <3>2. /\ f = "base_amount" => NewValue(p) = 1100000
            /\ f = "terms_amount" => NewValue(p) = 1000100
            /\ f = "quoted_rate" => NewValue(p) = 10100
        BY <3>1 DEF NewValue, GBP, CHF
      <3> QED
        BY <1>3, <3>2, Common DEF EconomicFields
    <2>2. /\ ~ Agree("base_amount", 1000000, 1100000) /\ ~ Agree("base_amount", 1100000, 1000000)
          /\ ~ Agree("terms_amount", 1000000, 1000100) /\ ~ Agree("terms_amount", 1000100, 1000000)
          /\ ~ Agree("quoted_rate", 10000, 10100) /\ ~ Agree("quoted_rate", 10100, 10000)
      BY DEF FixtureConfig
    <2> HIDE DEF n, f
    <2>3. ~ Agree(f, n, NewValue(p)) /\ ~ Agree(f, NewValue(p), n)
      BY <2>1, <2>2
    <2> QED
      BY <2>3 DEF n, f
  <1> QED
    BY <1>2, <1>3

LEMMA ValueFamily ==
    ASSUME NEW p \in Plans, p.spec.mutation_type \in ValueTypes
    PROVE  _mutated_truth(p) = {<<FieldFamily(p.spec.field), p.spec.field>>}
  <1>1. p.spec # clean /\ ShapeOf(_family_for_spec(p.spec), p.spec)
    BY PlanShape DEF ValueTypes
  <1>2. _family_for_spec(p.spec) = FieldFamily(p.spec.field)
    BY <1>1 DEF ShapeOf, Shape, ValueTypes, FieldFamily, CurrencyFields, EconomicFields, DateFields
  <1> QED
    BY <1>1, <1>2 DEF _mutated_truth

\* The statuses that mutations set are nobody's usual ones.
LEMMA RulesAreUsual ==
    \A kind \in Kinds : lifecycle_rule[kind] \notin {"AMENDED", "CANCELLED"}
  BY DEF Kinds, lifecycle_rule

LEMMA SinglesReported ==
    ASSUME FixtureConfig, NEW p \in Plans, p.spec.mutation_type \notin LinkedTypes, NEW group,
           NotSuperseded(group.inbox \cup group.conflicts) = Delivered(p)
    PROVE  Reports(group, ExpectedOf(p)) /\ MostCommonKey(group, Delivered(p)) = trade
  <1> DEFINE kind == p.spec.target_kind
             type == p.spec.mutation_type
             D == Delivered(p)
  <1>1. /\ Singles(D, p.product)
        /\ \A o \in D : o.observation_kind = kind =>
              o.lifecycle_status = TargetStatus(p) /\ o.value = TargetValue(p)
        /\ \A o \in D : o.observation_kind # kind =>
              o.lifecycle_status = lifecycle_rule[o.observation_kind] /\ o.value = common_payload(p)
        /\ type \notin {"NONE", "MISSING"} => \E o \in D : o.observation_kind = kind
    BY DeliveredSingles
  <1>2. D = NotSuperseded(group.inbox \cup group.conflicts)
    OBVIOUS
  <1>3. MostCommonKey(group, D) = trade
    BY <1>1, <1>2, SinglesReport
  <1>4. \A k \in Kinds \ {kind} : \E o \in D : o.observation_kind = k
    BY DeliveredParts, HonestFields
  <1>5. type # "MISSING" => Absent(D) = {}
    <2>1. ASSUME type # "MISSING", NEW k \in Kinds PROVE \E o \in D : o.observation_kind = k
      <3>1. CASE type = "NONE"
        <4>1. kind \notin Kinds
          BY <3>1, PlanShape DEF ShapeOf, Shape, Kinds
        <4> QED
          BY <1>4, <4>1
      <3>2. CASE type # "NONE"
        BY <1>1, <1>4, <2>1, <3>2
      <3> QED
        BY <3>1, <3>2
    <2> QED
      BY <2>1 DEF Absent, RequiredKinds
  <1>6. CASE type \in {"NONE", "BOOK_ID"}
    <2>1. TargetStatus(p) = lifecycle_rule[kind] /\ TargetValue(p) = common_payload(p)
      BY <1>6 DEF TargetStatus, TargetValue, ValueTypes
    <2>2. Usual(D) /\ \A o, q \in D : o.value = q.value
      BY <1>1, <2>1 DEF Usual
    <2>3. Absent(D) = {}
      BY <1>5, <1>6
    <2>4. Reports(group, {<<"MISSING_REQUIRED_SOURCE", k>> : k \in Absent(D)})
      BY <1>1, <1>2, <2>2, <2>3, AgreedReported
    <2>5. {<<"MISSING_REQUIRED_SOURCE", k>> : k \in Absent(D)} = {}
      BY <2>3
    <2>6. ExpectedOf(p) = {}
      <3>1. type = "NONE" => p.spec = clean
        BY PlanShape DEF ShapeOf, Shape
      <3> QED
        BY <1>6, <3>1 DEF ExpectedOf, _mutated_truth
    <2> QED
      BY <1>3, <2>4, <2>5, <2>6
  <1>7. CASE type = "MISSING"
    <2>1. /\ p.spec # clean /\ kind \in RequiredKinds /\ p.spec.field = kind
          /\ _family_for_spec(p.spec) = "MISSING_REQUIRED_SOURCE"
      BY <1>7, PlanShape DEF ShapeOf, Shape
    <2>2. \A o \in D : o.observation_kind # kind
      BY <1>7, DeliveredParts DEF Mutated
    <2>3. Absent(D) = {kind}
      BY <1>4, <2>1, <2>2 DEF Absent, RequiredKinds
    <2>4. Usual(D) /\ \A o, q \in D : o.value = q.value
      BY <1>1, <2>2 DEF Usual
    <2>5. Reports(group, {<<"MISSING_REQUIRED_SOURCE", k>> : k \in Absent(D)})
      BY <1>1, <1>2, <2>3, <2>4, AgreedReported
    <2>6. ExpectedOf(p) = {<<"MISSING_REQUIRED_SOURCE", kind>>}
      BY <1>7, <2>1 DEF ExpectedOf, _mutated_truth
    <2>7. {<<"MISSING_REQUIRED_SOURCE", k>> : k \in Absent(D)} = ExpectedOf(p)
      BY <2>3, <2>6
    <2> QED
      BY <1>3, <2>5, <2>7
  <1>8. CASE type \in {"AMEND", "CANCEL"}
    <2>1. p.spec # clean /\ ShapeOf(_family_for_spec(p.spec), p.spec) /\ kind \in Kinds
      BY <1>8, PlanShape
    <2>2. ExpectedOf(p) = {<<"LIFECYCLE_STATUS_MISMATCH", "lifecycle_status">>}
      BY <1>8, <2>1 DEF ShapeOf, Shape, ExpectedOf, _mutated_truth
    <2>3. TargetStatus(p) \in {"AMENDED", "CANCELLED"} /\ TargetValue(p) = common_payload(p)
      BY <1>8 DEF TargetStatus, TargetValue, ValueTypes
    <2>4. \A o, q \in D : o.value = q.value
      BY <1>1, <2>3
    <2>5. Unusual(D)
      <3>1. PICK o \in D : o.observation_kind = kind
        BY <1>1, <1>8
      <3>2. o.lifecycle_status # lifecycle_rule[o.observation_kind]
        BY <1>1, <2>1, <2>3, <3>1, RulesAreUsual
      <3>3. PICK k \in Kinds : k # kind
        BY DEF Kinds
      <3>4. PICK q \in D : q.observation_kind = k
        BY <1>4, <3>3
      <3>5. q.lifecycle_status \notin {"AMENDED", "CANCELLED"}
        BY <1>1, <3>3, <3>4, RulesAreUsual
      <3> QED
        BY <3>2, <3>5 DEF Unusual
    <2>6. Absent(D) = {}
      BY <1>5, <1>8
    <2> QED
      BY <1>1, <1>2, <1>3, <2>2, <2>4, <2>5, <2>6, FindingReported
  <1>9. CASE type \in ValueTypes
    <2> DEFINE f == p.spec.field
               v == common_payload(p)
               w == RestatedValue(p)
    <2>1. p.spec # clean /\ kind \in Kinds
      BY <1>9, PlanShape DEF ValueTypes
    <2>2. TargetStatus(p) = lifecycle_rule[kind] /\ TargetValue(p) = w
      BY <1>9 DEF TargetStatus, TargetValue, ValueTypes
    <2>3. Usual(D)
      BY <1>1, <2>2 DEF Usual
    <2>4. Split(D, f, v, w)
      <3>1. /\ f \in Fields /\ v \in [Fields -> Nat] /\ w \in [Fields -> Nat]
            /\ \A g \in Fields \ {f} : v[g] = w[g]
            /\ w[f] = NewValue(p)
        BY <1>9, Common, NewValueDiffers
      <3>2. ~ Agree(f, v[f], w[f]) /\ ~ Agree(f, w[f], v[f])
        BY <1>9, <3>1, RestatedIsSeen
      <3>3. \A o \in D : o.value = v \/ o.value = w
        BY <1>1, <2>2
      <3>4. \E o \in D : o.value = w
        BY <1>1, <1>9, <2>2 DEF ValueTypes
      <3>5. \E o \in D : o.value = v
        <4>1. PICK k \in Kinds : k # kind
          BY DEF Kinds
        <4> QED
          BY <1>1, <1>4, <4>1
      <3> HIDE DEF v, w, f
      <3> QED
        BY <3>1, <3>2, <3>3, <3>4, <3>5 DEF Split
    <2>5. ExpectedOf(p) = {<<FieldFamily(f), f>>}
      BY <1>9, ValueFamily DEF ExpectedOf, ValueTypes
    <2>6. Absent(D) = {}
      BY <1>5, <1>9 DEF ValueTypes
    <2> HIDE DEF v, w
    <2> QED
      BY <1>1, <1>2, <1>3, <2>3, <2>4, <2>5, <2>6, FindingReported
  <1>10. type \in {"NONE", "BOOK_ID", "MISSING", "AMEND", "CANCEL"} \cup ValueTypes
    BY PlanShape DEF ShapeOf, Shape, ValueTypes, LinkedTypes
  <1> QED
    BY <1>6, <1>7, <1>8, <1>9, <1>10

\* Usual statuses are no finding and no reason to fail.
LEMMA UsualQuiet ==
    ASSUME NEW S, Usual(S)
    PROVE  ~ Pending(S) /\ ~ Unusual(S)
  <1>1. {o \in {q \in S : q.observation_kind = "CONFIRMATION"} : o.lifecycle_status # "CONFIRMED"} = {}
    BY DEF Usual, lifecycle_rule
  <1>2. ~ Pending(S)
    BY <1>1 DEF Pending
  <1>3. ~ Unusual(S)
    BY DEF Unusual, Usual
  <1> QED
    BY <1>2, <1>3

\* What is left to find when all sources are there and say the same.
LEMMA LinkedFacts ==
    ASSUME FixtureConfig, NEW S \in SUBSET Observation, _resolved_observation(S, trade) \in S,
           Usual(S), Absent(S) = {}, \A o, q \in S : o.value = q.value
    PROVE  LET c == Context(S, trade) IN
           \A fact : fact \in evaluate(c) <=>
              \/ /\ _linkage_decision(S, trade).decision # "ACCEPTED"
                 /\ fact = <<"AMBIGUOUS_OR_UNMATCHED_LINKAGE", "trade_id">>
              \/ ConflictGroups(S) # {} /\ fact = <<"DUPLICATE_SOURCE_CONFLICT", "content_hash">>
  <1> DEFINE c == Context(S, trade)
  <1>1. trade \in Trades
    BY CorpusAssumption
  <1>2. c.observations = S /\ c.canonical \in S
    BY DEF Context
  <1>3. \A fact : fact \in evaluate(c) <=>
              \/ \E k \in RequiredKinds : /\ \A o \in S : o.observation_kind # k
                                          /\ fact = <<"MISSING_REQUIRED_SOURCE", k>>
              \/ /\ _linkage_decision(S, trade).decision # "ACCEPTED"
                 /\ fact = <<"AMBIGUOUS_OR_UNMATCHED_LINKAGE", "trade_id">>
              \/ /\ ConflictGroups(S) # {}
                 /\ fact = <<"DUPLICATE_SOURCE_CONFLICT", "content_hash">>
              \/ \E f \in Disagreed(c, CurrencyFields) : fact = <<"CURRENCY_PAIR_OR_SIDE_MISMATCH", f>>
              \/ \E f \in Disagreed(c, EconomicFields) : fact = <<"ECONOMIC_VALUE_MISMATCH", f>>
              \/ \E f \in Disagreed(c, DateFields) : fact = <<"TRADE_OR_VALUE_DATE_MISMATCH", f>>
              \/ Unusual(S) /\ fact = <<"LIFECYCLE_STATUS_MISMATCH", "lifecycle_status">>
    BY <1>1, Findings
  <1> HIDE DEF c
  <1>4. /\ Disagreed(c, CurrencyFields) = {} /\ Disagreed(c, EconomicFields) = {}
        /\ Disagreed(c, DateFields) = {}
    <2>1. \A fields \in SUBSET Fields : Disagreed(c, fields) = {}
      BY <1>2, NoneDisagreed
    <2> QED
      BY <2>1 DEF Fields
  <1>5. \A k \in RequiredKinds : \E o \in S : o.observation_kind = k
    BY DEF Absent
  <1>6. \A fact : fact \in evaluate(c) <=>
              \/ /\ _linkage_decision(S, trade).decision # "ACCEPTED"
                 /\ fact = <<"AMBIGUOUS_OR_UNMATCHED_LINKAGE", "trade_id">>
              \/ ConflictGroups(S) # {} /\ fact = <<"DUPLICATE_SOURCE_CONFLICT", "content_hash">>
    BY <1>3, <1>4, <1>5, UsualQuiet
  <1> QED
    BY <1>6 DEF c

\* A group of the trade in which all values agree and nothing is missing or fails.
Linked(group, S) ==
    /\ S = NotSuperseded(group.inbox \cup group.conflicts)
    /\ Locked(S) /\ Local(S) /\ (\E o, q \in S : o # q) /\ MostCommonKey(group, S) = trade
    /\ ~ Contradicts(S, trade) /\ ~ Retransmitted(S) /\ Usual(S) /\ Absent(S) = {}
    /\ (\A o, q \in S : o.value = q.value) /\ (\A g, h \in ConflictGroups(S) : g = h)

\* With a linkage or a duplicate finding only it is reported with that one.
LEMMA LinkedReported ==
    ASSUME FixtureConfig, NEW group, NEW S, Linked(group, S)
    PROVE  LET accepted == _linkage_decision(S, trade).decision = "ACCEPTED" IN
           /\ ~ accepted /\ ConflictGroups(S) = {} =>
                 Reports(group, {<<"AMBIGUOUS_OR_UNMATCHED_LINKAGE", "trade_id">>})
           /\ accepted /\ ConflictGroups(S) # {} =>
                 Reports(group, {<<"DUPLICATE_SOURCE_CONFLICT", "content_hash">>})
  <1>0. /\ S = NotSuperseded(group.inbox \cup group.conflicts)
        /\ Locked(S) /\ Local(S) /\ (\E o, q \in S : o # q) /\ MostCommonKey(group, S) = trade
        /\ ~ Contradicts(S, trade) /\ ~ Retransmitted(S) /\ Usual(S) /\ Absent(S) = {}
        /\ (\A o, q \in S : o.value = q.value) /\ (\A g, h \in ConflictGroups(S) : g = h)
    BY DEF Linked
  <1> DEFINE c == Context(S, trade)
             verdict == _reconcile_lineage_group(group)
             accepted == _linkage_decision(S, trade).decision = "ACCEPTED"
  <1>1. S \in SUBSET Observation /\ IsFiniteSet(S) /\ trade \in Trades
    BY <1>0, CorpusAssumption DEF Locked
  <1>2. Cardinality(S) > 1
    BY <1>0, <1>1, TwoOfThem
  <1>3. ~ Pending(S)
    BY <1>0, UsualQuiet
  <1>4. /\ verdict.result # "ERROR" /\ verdict.breaks = Breaks(c)
        /\ Facts(verdict) = evaluate(c) /\ c.canonical \in S
    BY <1>0, <1>1, <1>2, <1>3, GroupReports
  <1>5. /\ c.observations = S /\ c.canonical = _resolved_observation(S, trade)
        /\ c.verification = NULL
    BY DEF Context
  <1>6. \A fact : fact \in evaluate(c) <=>
              \/ ~ accepted /\ fact = <<"AMBIGUOUS_OR_UNMATCHED_LINKAGE", "trade_id">>
              \/ ConflictGroups(S) # {} /\ fact = <<"DUPLICATE_SOURCE_CONFLICT", "content_hash">>
    <2>1. _resolved_observation(S, trade) \in S
      BY <1>4, <1>5
    <2> QED
      BY <1>0, <1>1, <2>1, LinkedFacts
  <1> HIDE DEF c, verdict
  <1>7. \A g, h \in ConflictGroups(c.observations) : g = h
    BY <1>0, <1>5
  <1>8. \A fact : evaluate(c) = {fact} => Reports(group, {fact})
    BY <1>4, <1>5, <1>7, OneReported DEF verdict
  <1> HIDE DEF accepted
  <1>9. ASSUME ~ accepted, ConflictGroups(S) = {}
         PROVE  Reports(group, {<<"AMBIGUOUS_OR_UNMATCHED_LINKAGE", "trade_id">>})
    <2>1. evaluate(c) = {<<"AMBIGUOUS_OR_UNMATCHED_LINKAGE", "trade_id">>}
      BY <1>6, <1>9
    <2> QED
      BY <1>8, <2>1
  <1>10. ASSUME accepted, ConflictGroups(S) # {}
         PROVE  Reports(group, {<<"DUPLICATE_SOURCE_CONFLICT", "content_hash">>})
    <2>1. evaluate(c) = {<<"DUPLICATE_SOURCE_CONFLICT", "content_hash">>}
      BY <1>6, <1>10
    <2> QED
      BY <1>8, <2>1
  <1> QED
    BY <1>9, <1>10 DEF accepted

\* With these mutations every source is there and says what all say.
LEMMA LinkedDelivered ==
    ASSUME NEW p \in Plans, p.spec.mutation_type \in LinkedTypes
    PROVE  LET kind == p.spec.target_kind
               D == Delivered(p)
           IN
           /\ p.spec # clean /\ kind \in Kinds
           /\ Usual(D) /\ Absent(D) = {}
           /\ \A o \in D : o.value = common_payload(p) /\ o.product_type = p.product
           /\ \A o \in D : o.observation_kind # kind =>
                 /\ o = Honest(p, o.observation_kind) /\ o.observation_kind \in Kinds
                 /\ o.source_business_key = trade /\ o.source_trade_id = trade
           /\ p.spec.mutation_type = "UNMATCHED" =>
                 \E m \in D : /\ m.observation_kind = kind
                              /\ m.source_business_key = alternate /\ m.source_trade_id = alternate
                              /\ \A o \in D : o.observation_kind = kind => o = m
           /\ p.spec.mutation_type # "UNMATCHED" =>
                 \E m \in D : /\ m.observation_kind = kind /\ Honest(p, kind) \in D /\ m.record = 2
                              /\ m # Honest(p, kind)
                              /\ m.source_business_key = trade /\ m.source_trade_id = SecondTrade(p)
                              /\ m.source_version = SecondVersion(p)
                              /\ \A o \in D : o.observation_kind = kind => o = m \/ o = Honest(p, kind)
  <1> DEFINE kind == p.spec.target_kind
             type == p.spec.mutation_type
             D == Delivered(p)
  <1>1. p.spec # clean /\ kind \in Kinds
    BY PlanShape DEF LinkedTypes
  <1>2. \A k \in Kinds : /\ Honest(p, k).observation_kind = k
                         /\ Honest(p, k).source_business_key = trade
                         /\ Honest(p, k).source_trade_id = trade
                         /\ Honest(p, k).product_type = p.product
                         /\ Honest(p, k).lifecycle_status = lifecycle_rule[k]
                         /\ Honest(p, k).value = common_payload(p) /\ Honest(p, k).record = 1
    BY HonestFields
  <1>3. ASSUME NEW o \in D, o.observation_kind # kind
        PROVE  o = Honest(p, o.observation_kind) /\ o.observation_kind \in Kinds
    BY <1>3, DeliveredParts
  <1>4. Mutated(p) = {o \in D : o.observation_kind = kind}
    <2>1. \A o \in Mutated(p) : o.observation_kind = kind
      <3>1. CASE type = "UNMATCHED"
        <4>1. PICK m : Mutated(p) = {m} /\ m.observation_kind = kind
          BY <1>1, <3>1, TargetFields
        <4> QED
          BY <4>1
      <3>2. CASE type \in {"AMBIGUOUS", "DUPLICATE"}
        <4>1. PICK m : Mutated(p) = {Honest(p, kind), m} /\ m.observation_kind = kind
          BY <1>1, <3>2, SecondFields
        <4> QED
          BY <1>1, <1>2, <4>1
      <3> QED
        BY <3>1, <3>2 DEF LinkedTypes
    <2> QED
      BY <2>1, DeliveredParts
  <1>5. CASE type = "UNMATCHED"
    <2>1. TargetTrade(p) = alternate /\ TargetStatus(p) = lifecycle_rule[kind]
      BY <1>5 DEF TargetTrade, TargetStatus
    <2>2. TargetValue(p) = common_payload(p)
      BY <1>5 DEF TargetValue, ValueTypes
    <2>3. PICK m : /\ Mutated(p) = {m} /\ m.observation_kind = kind
                   /\ m.source_business_key = alternate /\ m.source_trade_id = alternate
                   /\ m.product_type = p.product
                   /\ m.lifecycle_status = lifecycle_rule[kind] /\ m.value = common_payload(p)
      BY <1>1, <1>5, <2>1, <2>2, TargetFields
    <2>4. \A o \in D : /\ o.lifecycle_status = lifecycle_rule[o.observation_kind]
                       /\ o.value = common_payload(p) /\ o.product_type = p.product
      BY <1>2, <1>3, <1>4, <2>3
    <2>5. \A k \in Kinds : \E o \in D : o.observation_kind = k
      BY <1>2, <1>4, <2>3, DeliveredParts
    <2>6. m \in D /\ \A o \in D : o.observation_kind = kind => o = m
      BY <1>4, <2>3
    <2>7. Usual(D) /\ Absent(D) = {}
      BY <2>4, <2>5 DEF Usual, Absent, RequiredKinds
    <2> QED
      BY <1>1, <1>2, <1>3, <1>5, <2>3, <2>4, <2>6, <2>7
  <1>6. CASE type \in {"AMBIGUOUS", "DUPLICATE"}
    <2>1. PICK m : /\ Mutated(p) = {Honest(p, kind), m} /\ m.observation_kind = kind
                   /\ m.source_business_key = trade /\ m.source_trade_id = SecondTrade(p)
                   /\ m.source_version = SecondVersion(p) /\ m.product_type = p.product
                   /\ m.lifecycle_status = lifecycle_rule[kind]
                   /\ m.record = 2 /\ m.value = common_payload(p)
      BY <1>1, <1>6, SecondFields
    <2>2. \A o \in D : /\ o.lifecycle_status = lifecycle_rule[o.observation_kind]
                       /\ o.value = common_payload(p) /\ o.product_type = p.product
      BY <1>1, <1>2, <1>3, <1>4, <2>1
    <2>3. \A k \in Kinds : \E o \in D : o.observation_kind = k
      BY <1>2, <1>4, <2>1, DeliveredParts
    <2>4. /\ m \in D /\ Honest(p, kind) \in D /\ m # Honest(p, kind)
          /\ \A o \in D : o.observation_kind = kind => o = m \/ o = Honest(p, kind)
      BY <1>1, <1>2, <1>4, <2>1
    <2>5. Usual(D) /\ Absent(D) = {}
      BY <2>2, <2>3 DEF Usual, Absent, RequiredKinds
    <2> QED
      BY <1>1, <1>2, <1>3, <1>6, <2>1, <2>2, <2>4, <2>5
  <1> QED
    BY <1>5, <1>6 DEF LinkedTypes

\* One source under a foreign key: the others have the majority.
LEMMA UnmatchedReported ==
    ASSUME FixtureConfig, NEW p \in Plans, p.spec.mutation_type = "UNMATCHED", NEW group,
           NotSuperseded(group.inbox \cup group.conflicts) = Delivered(p)
    PROVE  /\ Reports(group, {<<"AMBIGUOUS_OR_UNMATCHED_LINKAGE", "trade_id">>})
           /\ MostCommonKey(group, Delivered(p)) = trade
  <1> DEFINE kind == p.spec.target_kind
             D == Delivered(p)
  <1>1. /\ Usual(D) /\ Absent(D) = {}
        /\ \A o \in D : o.value = common_payload(p) /\ o.product_type = p.product
        /\ \A o \in D : o.observation_kind # kind =>
              /\ o = Honest(p, o.observation_kind)
              /\ o.source_business_key = trade /\ o.source_trade_id = trade
    BY LinkedDelivered DEF LinkedTypes
  <1>2. PICK m \in D : /\ m.observation_kind = kind
                       /\ m.source_business_key = alternate /\ m.source_trade_id = alternate
                       /\ \A o \in D : o.observation_kind = kind => o = m
    BY LinkedDelivered DEF LinkedTypes
  <1>3. Locked(D) /\ Local(D) /\ IsFiniteSet(D) /\ D # {} /\ trade \in Trades /\ trade # alternate
    BY <1>2, DeliveredLocked, CorpusAssumption DEF Locked
  <1>4. MostCommonKey(group, D) = trade
    <2> DEFINE of(t) == {q \in D : q.source_business_key = t}
    <2>1. PICK o \in D : /\ MostCommonKey(group, D) = o.source_business_key
                         /\ \A t \in Trades : Cardinality(of(t)) <= Cardinality(of(o.source_business_key))
      BY <1>3, MostCommonIsFrequent
    <2>2. of(alternate) = {m}
      BY <1>1, <1>2, <1>3
    <2>3. Cardinality(of(alternate)) = 1
      BY <2>2, FS_Singleton
    <2>4. Cardinality(of(trade)) > 1
      <3>1. PICK j, k \in Kinds \ {kind} :
              Honest(p, j) \in D /\ Honest(p, k) \in D /\ Honest(p, j) # Honest(p, k)
        BY TwoHonest
      <3>2. Honest(p, j) \in of(trade) /\ Honest(p, k) \in of(trade)
        BY <3>1, HonestFields
      <3>3. IsFiniteSet(of(trade))
        BY <1>3, FS_Subset
      <3> HIDE DEF of
      <3> QED
        BY <3>1, <3>2, <3>3, TwoOfThem
    <2>5. o.source_business_key \in {trade, alternate}
      BY <1>1, <1>2
    <2>6. o.source_business_key # alternate
      <3>1. of(trade) \in SUBSET D
        OBVIOUS
      <3>2. Cardinality(of(trade)) \in Nat
        BY <1>3, <3>1, FS_Subset, FS_CardinalityType
      <3>3. Cardinality(of(trade)) <= Cardinality(of(o.source_business_key))
        BY <1>3, <2>1
      <3> HIDE DEF of
      <3> QED
        BY <2>3, <2>4, <3>2, <3>3
    <2> QED
      BY <2>1, <2>5, <2>6
  <1>5. _linkage_decision(D, trade).decision # "ACCEPTED"
    BY <1>2, <1>3 DEF _linkage_decision
  <1>6. ConflictGroups(D) = {}
    <2>1. \A o, q \in D : o.observation_kind = q.observation_kind => o = q
      BY <1>1, <1>2
    <2>2. \A o, q \in D : identity_key(o) = identity_key(q) => o = q
      BY <2>1 DEF identity_key
    <2> QED
      BY <2>2, NoConflicts
  <1>7. ~ Contradicts(D, trade) /\ ~ Retransmitted(D)
    <2>1. ~ Cardinality({o.product_type : o \in D}) > 1
      BY <1>1, <1>3, OneProduct
    <2> QED
      BY <1>5, <1>6, <2>1 DEF Contradicts, Retransmitted
  <1>8. (\E o, q \in D : o # q) /\ (\A o, q \in D : o.value = q.value)
    BY <1>1, TwoHonest
  <1>9. D = NotSuperseded(group.inbox \cup group.conflicts)
    OBVIOUS
  <1> HIDE DEF D
  <1>10. Reports(group, {<<"AMBIGUOUS_OR_UNMATCHED_LINKAGE", "trade_id">>})
    <2>1. Usual(D) /\ Absent(D) = {} /\ Locked(D) /\ Local(D)
      BY <1>1, <1>3
    <2>2. \A g, h \in ConflictGroups(D) : g = h
      BY <1>6
    <2>3. Linked(group, D)
      BY <1>4, <1>7, <1>8, <1>9, <2>1, <2>2 DEF Linked
    <2> QED
      BY <1>5, <1>6, <2>3, LinkedReported
  <1> QED
    BY <1>4, <1>10 DEF D

LEMMA OneMore ==
    ASSUME NEW S, IsFiniteSet(S), NEW n \in Nat, Cardinality(S) = n, NEW x, x \notin S
    PROVE  IsFiniteSet(S \cup {x}) /\ Cardinality(S \cup {x}) = n + 1
  BY FS_AddElement

\* One more than there are kinds.
LEMMA FiveOfThem ==
    ASSUME NEW S, IsFiniteSet(S), NEW a \in S, NEW b \in S, NEW c \in S, NEW d \in S, NEW e \in S,
           b # a, c \notin {a, b}, d \notin {a, b, c}, e \notin {a, b, c, d}
    PROVE  Cardinality(S) > 4
  <1> DEFINE two   == {a} \cup {b}
             three == two \cup {c}
             four  == three \cup {d}
             five  == four \cup {e}
  <1>1. b \notin {a} /\ c \notin two /\ d \notin three /\ e \notin four /\ five \in SUBSET S
    OBVIOUS
  <1>2. IsFiniteSet({a}) /\ Cardinality({a}) = 1
    BY FS_Singleton
  <1>3. IsFiniteSet(two) /\ Cardinality(two) = 2
    BY <1>1, <1>2, OneMore
  <1> HIDE DEF two
  <1>4. IsFiniteSet(three) /\ Cardinality(three) = 3
    BY <1>1, <1>3, OneMore
  <1> HIDE DEF three
  <1>5. IsFiniteSet(four) /\ Cardinality(four) = 4
    BY <1>1, <1>4, OneMore
  <1> HIDE DEF four
  <1>6. IsFiniteSet(five) /\ Cardinality(five) = 5
    BY <1>1, <1>5, OneMore
  <1> HIDE DEF five
  <1>7. Cardinality(five) <= Cardinality(S) /\ Cardinality(S) \in Nat
    BY <1>1, FS_Subset, FS_CardinalityType
  <1> QED
    BY <1>6, <1>7

\* A fifth delivery names another trade.
LEMMA AmbiguousReported ==
    ASSUME FixtureConfig, NEW p \in Plans, p.spec.mutation_type = "AMBIGUOUS", NEW group,
           NotSuperseded(group.inbox \cup group.conflicts) = Delivered(p)
    PROVE  /\ Reports(group, {<<"AMBIGUOUS_OR_UNMATCHED_LINKAGE", "trade_id">>})
           /\ MostCommonKey(group, Delivered(p)) = trade
  <1> DEFINE kind == p.spec.target_kind
             D == Delivered(p)
  <1>1. /\ Usual(D) /\ Absent(D) = {} /\ kind \in Kinds
        /\ \A o \in D : o.value = common_payload(p) /\ o.product_type = p.product
        /\ \A o \in D : o.observation_kind # kind =>
              /\ o = Honest(p, o.observation_kind)
              /\ o.source_business_key = trade /\ o.source_trade_id = trade
    BY LinkedDelivered DEF LinkedTypes
  <1>2. PICK m \in D : /\ m.observation_kind = kind /\ Honest(p, kind) \in D
                       /\ m # Honest(p, kind)
                       /\ m.source_business_key = trade /\ m.source_trade_id = alternate
                       /\ m.source_version = 2
                       /\ \A o \in D : o.observation_kind = kind => o = m \/ o = Honest(p, kind)
    BY LinkedDelivered DEF LinkedTypes, SecondTrade, SecondVersion
  <1>3. Locked(D) /\ Local(D) /\ IsFiniteSet(D) /\ D # {} /\ trade \in Trades /\ trade # alternate
    BY <1>2, DeliveredLocked, CorpusAssumption DEF Locked
  <1>4. \A k \in Kinds : /\ Honest(p, k) \in D /\ Honest(p, k).observation_kind = k
                         /\ Honest(p, k).source_business_key = trade
                         /\ Honest(p, k).source_trade_id = trade
                         /\ Honest(p, k).source_version = 1
    BY <1>2, DeliveredParts, HonestFields
  <1>5. \A o \in D : o.source_business_key = trade
    BY <1>1, <1>2, <1>4
  <1>6. MostCommonKey(group, D) = trade
    BY <1>3, <1>5, MostCommonIsThere
  <1>7. _linkage_decision(D, trade).decision # "ACCEPTED"
    <2>1. Cardinality(D) > 4
      <3> DEFINE a == Honest(p, "EXECUTION")
                 b == Honest(p, "TRADE_CAPTURE")
                 c == Honest(p, "CONFIRMATION")
                 d == Honest(p, "BOOKING")
      <3>1. /\ a \in D /\ b \in D /\ c \in D /\ d \in D
            /\ a.observation_kind = "EXECUTION" /\ b.observation_kind = "TRADE_CAPTURE"
            /\ c.observation_kind = "CONFIRMATION" /\ d.observation_kind = "BOOKING"
        BY <1>4 DEF Kinds
      <3>2. m \notin {a, b, c, d}
        BY <1>2, <3>1
      <3>3. b # a /\ c \notin {a, b} /\ d \notin {a, b, c}
        BY <3>1
      <3> HIDE DEF a, b, c, d, D
      <3> QED
        BY <1>2, <1>3, <3>1, <3>2, <3>3, FiveOfThem
    <2> DEFINE f == [o \in D |-> o.source_trade_id]
               named == {f[o] : o \in D}
    <2>2. Cardinality(named) > 1
      <3>1. f = [o \in D |-> f[o]]
        OBVIOUS
      <3>2. f[m] = alternate /\ f[Honest(p, kind)] = trade
        BY <1>1, <1>2, <1>4
      <3> HIDE DEF f, D
      <3>3. IsFiniteSet(named)
        BY <1>3, <3>1, FiniteImage
      <3>4. trade \in named /\ alternate \in named
        BY <1>2, <3>2
      <3> HIDE DEF named
      <3> QED
        BY <1>3, <3>3, <3>4, TwoOfThem
    <2>3. named = {o.source_trade_id : o \in D}
      OBVIOUS
    <2>4. Cardinality({o.source_trade_id : o \in D}) > 1
      BY <2>2, <2>3
    <2> QED
      BY <2>1, <2>4 DEF _linkage_decision
  <1>8. ConflictGroups(D) = {}
    <2>1. ASSUME NEW o \in D, NEW q \in D, identity_key(o) = identity_key(q) PROVE o = q
      <3>1. o.observation_kind = q.observation_kind /\ o.source_version = q.source_version
        BY <2>1 DEF identity_key
      <3>2. CASE o.observation_kind # kind
        BY <1>1, <3>1, <3>2
      <3>3. CASE o.observation_kind = kind
        <4>1. o \in {m, Honest(p, kind)} /\ q \in {m, Honest(p, kind)}
          BY <1>2, <3>1, <3>3
        <4>2. m.source_version = 2 /\ Honest(p, kind).source_version = 1
          BY <1>1, <1>2, <1>4
        <4> QED
          BY <3>1, <4>1, <4>2
      <3> QED
        BY <3>2, <3>3
    <2> QED
      BY <2>1, NoConflicts
  <1>9. ~ Contradicts(D, trade) /\ ~ Retransmitted(D)
    <2>1. ~ Cardinality({o.product_type : o \in D}) > 1
      BY <1>1, <1>3, OneProduct
    <2> QED
      BY <1>7, <1>8, <2>1 DEF Contradicts, Retransmitted
  <1>10. (\E o, q \in D : o # q) /\ (\A o, q \in D : o.value = q.value)
    BY <1>1, TwoHonest
  <1>11. D = NotSuperseded(group.inbox \cup group.conflicts)
    OBVIOUS
  <1> HIDE DEF D
  <1>12. Reports(group, {<<"AMBIGUOUS_OR_UNMATCHED_LINKAGE", "trade_id">>})
    <2>1. Usual(D) /\ Absent(D) = {} /\ Locked(D) /\ Local(D)
      BY <1>1, <1>3
    <2>2. \A g, h \in ConflictGroups(D) : g = h
      BY <1>8
    <2>3. Linked(group, D)
      BY <1>6, <1>9, <1>10, <1>11, <2>1, <2>2 DEF Linked
    <2> QED
      BY <1>7, <1>8, <2>3, LinkedReported
  <1> QED
    BY <1>6, <1>12 DEF D

\* The same version with other content: the one conflict of the group.
LEMMA DuplicateReported ==
    ASSUME FixtureConfig, NEW p \in Plans, p.spec.mutation_type = "DUPLICATE", NEW group,
           NotSuperseded(group.inbox \cup group.conflicts) = Delivered(p)
    PROVE  /\ Reports(group, {<<"DUPLICATE_SOURCE_CONFLICT", "content_hash">>})
           /\ MostCommonKey(group, Delivered(p)) = trade
  <1> DEFINE kind == p.spec.target_kind
             D == Delivered(p)
             same(o) == {q \in D : identity_key(q) = identity_key(o)}
             hashes(o) == {content_hash(q) : q \in same(o)}
             h == Honest(p, kind)
  <1>1. /\ Usual(D) /\ Absent(D) = {} /\ kind \in Kinds
        /\ \A o \in D : o.value = common_payload(p) /\ o.product_type = p.product
        /\ \A o \in D : o.observation_kind # kind =>
              /\ o = Honest(p, o.observation_kind)
              /\ o.source_business_key = trade /\ o.source_trade_id = trade
    BY LinkedDelivered DEF LinkedTypes
  <1>2. PICK m \in D : /\ m.observation_kind = kind /\ h \in D /\ m # h
                       /\ m.source_business_key = trade /\ m.source_trade_id = trade
                       /\ m.source_version = 1
                       /\ \A o \in D : o.observation_kind = kind => o = m \/ o = h
    BY LinkedDelivered DEF LinkedTypes, SecondTrade, SecondVersion
  <1>3. Locked(D) /\ Local(D) /\ IsFiniteSet(D) /\ D # {} /\ trade \in Trades
    BY <1>2, DeliveredLocked, CorpusAssumption DEF Locked
  <1>4. /\ h.observation_kind = kind /\ h.source_business_key = trade
        /\ h.source_trade_id = trade /\ h.source_version = 1
    BY <1>1, HonestFields
  <1> HIDE DEF h
  <1>5. \A o \in D : o.source_business_key = trade /\ o.source_trade_id = trade
    BY <1>1, <1>2, <1>4
  <1>6. MostCommonKey(group, D) = trade
    BY <1>3, <1>5, MostCommonIsThere
  <1>7. \A o, q \in D : content_hash(o) = content_hash(q) => o = q
    BY DeliveredDistinct
  <1> HIDE DEF D
  <1>8. _linkage_decision(D, trade).decision = "ACCEPTED"
    <2>1. {o.source_trade_id : o \in D} = {trade}
      BY <1>3, <1>5
    <2>2. Cardinality({trade}) = 1
      BY FS_Singleton
    <2>3. ~ Cardinality({o.source_trade_id : o \in D}) > 1
      BY <2>1, <2>2
    <2> QED
      BY <1>5, <2>3 DEF _linkage_decision
  <1>9. identity_key(m) = identity_key(h)
    BY <1>2, <1>3, <1>4 DEF identity_key, Local
  <1>10. ASSUME NEW o \in D, o.observation_kind # kind PROVE Cardinality(hashes(o)) = 1
    <2>1. same(o) = {o}
      BY <1>1, <1>10 DEF identity_key
    <2>2. hashes(o) = {content_hash(o)}
      BY <2>1
    <2> QED
      BY <2>2, FS_Singleton
  <1>11. same(m) = same(h)
    BY <1>9
  <1>12. Cardinality(hashes(m)) > 1
    <2> DEFINE f == [q \in same(m) |-> content_hash(q)]
    <2>1. IsFiniteSet(same(m))
      BY <1>3, FS_Subset
    <2>2. f = [q \in same(m) |-> f[q]]
      OBVIOUS
    <2>3. hashes(m) = {f[q] : q \in same(m)}
      OBVIOUS
    <2>4. m \in same(m) /\ h \in same(m) /\ content_hash(m) # content_hash(h)
      BY <1>2, <1>7, <1>9
    <2>5. content_hash(m) \in hashes(m) /\ content_hash(h) \in hashes(m)
      BY <2>4
    <2> HIDE DEF f, same
    <2>6. IsFiniteSet({f[q] : q \in same(m)})
      BY <2>1, <2>2, FiniteImage
    <2>7. IsFiniteSet(hashes(m))
      BY <2>3, <2>6
    <2> HIDE DEF hashes
    <2> QED
      BY <2>4, <2>5, <2>7, TwoOfThem
  <1>13. ConflictGroups(D) = {same(m)}
    <2>1. ConflictGroups(D) = {g \in {same(o) : o \in D} : Cardinality({content_hash(q) : q \in g}) >= 2}
      BY DEF ConflictGroups
    <2>2. \A o \in D : Cardinality(hashes(o)) >= 2 => same(o) = same(m)
      <3> SUFFICES ASSUME NEW o \in D, Cardinality(hashes(o)) >= 2 PROVE same(o) = same(m)
        OBVIOUS
      <3> HIDE DEF same, hashes
      <3>1. o.observation_kind = kind
        BY <1>10
      <3>2. o = m \/ o = h
        BY <1>2, <3>1
      <3> QED
        BY <1>11, <3>2
    <2>3. \A g \in ConflictGroups(D) : g = same(m)
      <3> SUFFICES ASSUME NEW g \in ConflictGroups(D) PROVE g = same(m)
        OBVIOUS
      <3>1. PICK o \in D : g = same(o) /\ Cardinality({content_hash(q) : q \in g}) >= 2
        BY <2>1
      <3>2. Cardinality(hashes(o)) >= 2
        BY <3>1
      <3> QED
        BY <2>2, <3>1, <3>2
    <2>4. same(m) \in ConflictGroups(D)
      <3>1. Cardinality(hashes(m)) >= 2
        <4>1. Cardinality(hashes(m)) \in Nat
          <5>1. hashes(m) = {content_hash(q) : q \in same(m)} /\ IsFiniteSet(same(m))
            BY <1>3, FS_Subset
          <5> DEFINE f == [q \in same(m) |-> content_hash(q)]
          <5>2. f = [q \in same(m) |-> f[q]] /\ hashes(m) = {f[q] : q \in same(m)}
            OBVIOUS
          <5> HIDE DEF f, same, hashes
          <5>3. IsFiniteSet(hashes(m))
            BY <5>1, <5>2, FiniteImage
          <5> QED
            BY <5>3, FS_CardinalityType
        <4> HIDE DEF hashes
        <4> QED
          BY <1>12, <4>1
      <3> QED
        BY <1>2, <2>1, <3>1
    <2> HIDE DEF same
    <2> QED
      BY <2>3, <2>4
  <1>14. ~ Contradicts(D, trade) /\ ~ Retransmitted(D)
    <2>1. ~ Cardinality({o.product_type : o \in D}) > 1
      BY <1>1, <1>3, OneProduct
    <2>2. ~ Contradicts(D, trade)
      BY <1>5, <2>1 DEF Contradicts
    <2>3. \A g \in ConflictGroups(D) : g \in SUBSET D
      BY <1>13
    <2>4. ~ Retransmitted(D)
      BY <1>7, <2>3 DEF Retransmitted
    <2> QED
      BY <2>2, <2>4
  <1>15. (\E o, q \in D : o # q) /\ (\A o, q \in D : o.value = q.value)
    BY <1>1, <1>2
  <1>16. D = NotSuperseded(group.inbox \cup group.conflicts)
    BY DEF D
  <1>17. (\A g, j \in ConflictGroups(D) : g = j) /\ ConflictGroups(D) # {}
    <2> HIDE DEF same
    <2> QED
      BY <1>13
  <1>18. Reports(group, {<<"DUPLICATE_SOURCE_CONFLICT", "content_hash">>})
    <2>1. Usual(D) /\ Absent(D) = {} /\ Locked(D) /\ Local(D)
      BY <1>1, <1>3
    <2>2. Linked(group, D)
      BY <1>6, <1>14, <1>15, <1>16, <1>17, <2>1 DEF Linked
    <2> QED
      BY <1>8, <1>17, <2>2, LinkedReported
  <1> QED
    BY <1>6, <1>18 DEF D

\* Every scenario that has not been corrected is reported as it should be.
LEMMA PlanReported ==
    ASSUME FixtureConfig, NEW p \in Plans, NEW group,
           NotSuperseded(group.inbox \cup group.conflicts) = Delivered(p)
    PROVE  Reports(group, ExpectedOf(p)) /\ MostCommonKey(group, Delivered(p)) = trade
  <1>1. CASE p.spec.mutation_type \notin LinkedTypes
    BY <1>1, SinglesReported
  <1>2. CASE p.spec.mutation_type \in {"UNMATCHED", "AMBIGUOUS"}
    <2>1. ExpectedOf(p) = {<<"AMBIGUOUS_OR_UNMATCHED_LINKAGE", "trade_id">>}
      BY <1>2, PlanShape DEF ShapeOf, Shape, ExpectedOf, _mutated_truth
    <2> QED
      BY <1>2, <2>1, UnmatchedReported, AmbiguousReported
  <1>3. CASE p.spec.mutation_type = "DUPLICATE"
    <2>1. ExpectedOf(p) = {<<"DUPLICATE_SOURCE_CONFLICT", "content_hash">>}
      BY <1>3, PlanShape DEF ShapeOf, Shape, ExpectedOf, _mutated_truth
    <2> QED
      BY <1>3, <2>1, DuplicateReported
  <1> QED
    BY <1>1, <1>2, <1>3 DEF LinkedTypes

-----------------------------------------------------------------------------
\* Corrections follow on a restated base amount only.

Restating(p) == p.spec.mutation_type = "DECIMAL" /\ p.spec.field = "base_amount"

\* The execution is the authority, restated or not.
MendedValue(p) ==
    IF p.spec.target_kind = "EXECUTION" THEN RestatedValue(p) ELSE common_payload(p)

Approved(p) == MendedValue(p)["base_amount"]

Unbooked(p) == {o \in Delivered(p) : o.observation_kind # "BOOKING"}

\* A booking revision that carries the approved value.
Mends(p, b) ==
    /\ b \in Observation /\ b.observation_id \in CorrectionIds
    /\ b.observation_kind = "BOOKING" /\ b.source_business_key = trade /\ b.source_trade_id = trade
    /\ b.portfolio_id = 1 /\ b.correlation_id = 1
    /\ b.product_type = p.product /\ b.lifecycle_status = lifecycle_rule["BOOKING"]
    /\ b.value = MendedValue(p)

\* A scenario that may be corrected: one source of each kind, two opinions.
LEMMA RestatingShape ==
    ASSUME NEW p \in Plans, Restating(p)
    PROVE  /\ p.spec.target_kind \in {"EXECUTION", "BOOKING"} /\ p.spec # clean
           /\ p.spec.mutation_type \in ValueTypes /\ p.spec.mutation_type \notin LinkedTypes
           /\ Singles(Delivered(p), p.product) /\ Usual(Delivered(p))
           /\ \A k \in Kinds : \E o \in Delivered(p) : o.observation_kind = k
           /\ \A o \in Delivered(p) :
                 o.value = IF o.observation_kind = p.spec.target_kind
                             THEN RestatedValue(p) ELSE common_payload(p)
           /\ \A o \in Delivered(p) : o.observation_id \notin CorrectionIds
           /\ MendedValue(p) \in [Fields -> Nat]
           /\ \A o \in Delivered(p) : \A f \in Fields \ {"base_amount"} :
                 o.value[f] = MendedValue(p)[f]
  <1> DEFINE D == Delivered(p)
             kind == p.spec.target_kind
  <1>1. /\ p.spec.mutation_type \in ValueTypes /\ p.spec.mutation_type \notin LinkedTypes
        /\ p.spec.mutation_type \notin {"NONE", "MISSING", "AMEND", "CANCEL"}
    BY DEF Restating, ValueTypes, LinkedTypes
  <1>2. p.spec # clean /\ kind \in {"EXECUTION", "BOOKING"}
    BY PlanShape DEF Restating, ShapeOf, Shape
  <1>3. /\ Singles(D, p.product)
        /\ \A o \in D : o.observation_kind = kind =>
              o.lifecycle_status = TargetStatus(p) /\ o.value = TargetValue(p)
        /\ \A o \in D : o.observation_kind # kind =>
              o.lifecycle_status = lifecycle_rule[o.observation_kind] /\ o.value = common_payload(p)
        /\ \E o \in D : o.observation_kind = kind
    BY <1>1, DeliveredSingles
  <1>4. TargetStatus(p) = lifecycle_rule[kind] /\ TargetValue(p) = RestatedValue(p)
    BY <1>1 DEF TargetStatus, TargetValue
  <1>5. Usual(D)
    BY <1>3, <1>4 DEF Usual
  <1>6. \A k \in Kinds : \E o \in D : o.observation_kind = k
    BY <1>3, DeliveredParts, HonestFields
  <1>7. \A o \in D : o.value = IF o.observation_kind = kind THEN RestatedValue(p) ELSE common_payload(p)
    BY <1>3, <1>4
  <1>8. \A o \in D : o.observation_id \notin CorrectionIds
    BY DeliveredIsValid, DeliveredParts, TwoIds
  <1>9. /\ RestatedValue(p) \in [Fields -> Nat] /\ common_payload(p) \in [Fields -> Nat]
        /\ \A f \in Fields \ {"base_amount"} : RestatedValue(p)[f] = common_payload(p)[f]
    <2>1. p.spec.field = "base_amount"
      BY DEF Restating
    <2> QED
      BY <1>1, <2>1, NewValueDiffers, Common
  <1>10. MendedValue(p) = RestatedValue(p) \/ MendedValue(p) = common_payload(p)
    BY DEF MendedValue
  <1>11. \A o \in D : \A f \in Fields \ {"base_amount"} : o.value[f] = MendedValue(p)[f]
    BY <1>7, <1>9, <1>10
  <1>12. MendedValue(p) \in [Fields -> Nat]
    BY <1>9, <1>10
  <1> QED
    BY <1>1, <1>2, <1>3, <1>5, <1>6, <1>7, <1>8, <1>11, <1>12

LEMMA LocalMended ==
    ASSUME NEW D, NEW T \in SUBSET D, Local(D), NEW p, NEW b, Mends(p, b)
    PROVE  Local(T \cup {b})
  BY DEF Local, Mends

\* The sources after a correction are still one of each kind.
LEMMA MendedSingles ==
    ASSUME NEW p \in Plans, Restating(p), NEW b, Mends(p, b)
    PROVE  LET S == Unbooked(p) \cup {b} IN
           Singles(S, p.product) /\ Usual(S) /\ Absent(S) = {}
  <1> DEFINE D == Delivered(p)
             S == Unbooked(p) \cup {b}
  <1>1. /\ Singles(D, p.product) /\ Usual(D)
        /\ \A k \in Kinds : \E o \in D : o.observation_kind = k
        /\ \A o \in D : o.observation_id \notin CorrectionIds
    BY RestatingShape
  <1>2. /\ b \in Observation /\ b.observation_id \in CorrectionIds /\ b.observation_kind = "BOOKING"
        /\ b.source_business_key = trade /\ b.source_trade_id = trade /\ b.product_type = p.product
        /\ b.lifecycle_status = lifecycle_rule["BOOKING"]
    BY DEF Mends
  <1>3. Unbooked(p) \in SUBSET D /\ \A o \in Unbooked(p) : o.observation_kind # "BOOKING"
    BY DEF Unbooked
  <1>4. Locked(D)
    BY <1>1 DEF Singles
  <1>5. Locked(S)
    <2>1. S \in SUBSET Observation
      BY <1>2, <1>3, <1>4 DEF Locked
    <2>2. IsFiniteSet(Unbooked(p))
      BY <1>3, <1>4, FS_Subset DEF Locked
    <2>3. IsFiniteSet(S)
      BY <2>2, FS_AddElement
    <2>4. \A o, q \in S : o.observation_id = q.observation_id => o = q
      BY <1>1, <1>2, <1>3, <1>4 DEF Locked
    <2> QED
      BY <2>1, <2>3, <2>4 DEF Locked
  <1>6. \A o \in S : /\ o.source_business_key = trade /\ o.source_trade_id = trade
                     /\ o.product_type = p.product
                     /\ o.observation_kind = "CONFIRMATION" => o.lifecycle_status # "CAPTURED"
    BY <1>1, <1>2, <1>3 DEF Singles
  <1>7. \A o, q \in S : o.observation_kind = q.observation_kind => o = q
    BY <1>1, <1>2, <1>3 DEF Singles
  <1>8. \A k \in Kinds : \E o \in S : o.observation_kind = k
    BY <1>1, <1>2 DEF Unbooked
  <1>9. \E o, q \in S : o # q
    <2>1. "EXECUTION" \in Kinds
      BY DEF Kinds
    <2> QED
      BY <1>2, <1>8, <2>1
  <1>10. Usual(S)
    BY <1>1, <1>2, <1>3 DEF Usual
  <1>11. Absent(S) = {}
    BY <1>8 DEF Absent, RequiredKinds
  <1> HIDE DEF S
  <1>12. Singles(S, p.product)
    <2>1. Local(S)
      BY <1>1, <1>3, <1>6, LocalMended DEF Singles, S
    <2> QED
      BY <1>5, <1>6, <1>7, <1>9, <2>1 DEF Singles
  <1> QED
    BY <1>10, <1>11, <1>12 DEF S

\* A mended booking settles the break; a restated execution still stands out.
LEMMA MendedReported ==
    ASSUME FixtureConfig, NEW p \in Plans, Restating(p), NEW b, Mends(p, b), NEW group,
           NotSuperseded(group.inbox \cup group.conflicts) = Unbooked(p) \cup {b}
    PROVE  /\ Reports(group, IF p.spec.target_kind = "BOOKING" THEN {} ELSE _mutated_truth(p))
           /\ MostCommonKey(group, Unbooked(p) \cup {b}) = trade
  <1> DEFINE S == Unbooked(p) \cup {b}
             v == common_payload(p)
             w == RestatedValue(p)
             f == p.spec.field
             kind == p.spec.target_kind
  <1>1. Singles(S, p.product) /\ Usual(S) /\ Absent(S) = {}
    BY MendedSingles
  <1>2. S = NotSuperseded(group.inbox \cup group.conflicts)
    OBVIOUS
  <1>3. /\ kind \in {"EXECUTION", "BOOKING"} /\ p.spec.mutation_type \in ValueTypes
        /\ \A k \in Kinds : \E o \in Delivered(p) : o.observation_kind = k
        /\ \A o \in Delivered(p) : o.value = IF o.observation_kind = kind THEN w ELSE v
    BY RestatingShape
  <1>4. b.value = MendedValue(p) /\ b.observation_kind = "BOOKING"
    BY DEF Mends
  <1>5. MostCommonKey(group, S) = trade
    BY <1>1, <1>2, SinglesReport
  <1>6. CASE kind = "BOOKING"
    <2>1. \A o \in S : o.value = v
      BY <1>3, <1>4, <1>6 DEF MendedValue, Unbooked
    <2>2. \A o, q \in S : o.value = q.value
      BY <2>1
    <2>3. {<<"MISSING_REQUIRED_SOURCE", k>> : k \in Absent(S)} = {}
      BY <1>1
    <2> HIDE DEF S
    <2>4. Reports(group, {<<"MISSING_REQUIRED_SOURCE", k>> : k \in Absent(S)})
      BY <1>1, <1>2, <2>2, AgreedReported
    <2> QED
      BY <1>5, <1>6, <2>3, <2>4 DEF S
  <1>7. CASE kind = "EXECUTION"
    <2>1. \A o \in S : o.value = v \/ o.value = w
      BY <1>3, <1>4 DEF MendedValue, Unbooked
    <2>2. \E o \in S : o.value = w
      BY <1>4, <1>7 DEF MendedValue
    <2>3. \E o \in S : o.value = v
      <3>1. PICK o \in Delivered(p) : o.observation_kind = "CONFIRMATION"
        BY <1>3 DEF Kinds
      <3> QED
        BY <1>3, <1>7, <3>1 DEF Unbooked
    <2>4. /\ f \in Fields /\ v \in [Fields -> Nat] /\ w \in [Fields -> Nat]
          /\ \A g \in Fields \ {f} : v[g] = w[g]
          /\ w[f] = NewValue(p)
      BY <1>3, Common, NewValueDiffers
    <2>5. ~ Agree(f, v[f], w[f]) /\ ~ Agree(f, w[f], v[f])
      BY <1>3, <2>4, RestatedIsSeen
    <2>6. Split(S, f, v, w)
      <3> HIDE DEF S, v, w, f
      <3> QED
        BY <2>1, <2>2, <2>3, <2>4, <2>5 DEF Split
    <2>7. _mutated_truth(p) = {<<FieldFamily(f), f>>}
      BY <1>3, ValueFamily
    <2> HIDE DEF S, v, w
    <2>8. Reports(group, {<<FieldFamily(f), f>>})
      BY <1>1, <1>2, <2>6, FindingReported
    <2> QED
      BY <1>5, <1>7, <2>7, <2>8 DEF S
  <1> QED
    BY <1>3, <1>6, <1>7

\* The booking that stands for all corrections so far.
MendedBy(b) ==
    /\ Restating(plan) /\ conflicts = {} /\ b \in inbox /\ Mends(plan, b)
    /\ NotSuperseded(inbox \cup conflicts) = Unbooked(plan) \cup {b}
    /\ \A o \in inbox :
          /\ o.source_business_key = trade
          /\ \/ o \in Unbooked(plan) \cup {b}
             \/ o.observation_kind = "BOOKING" /\ o.source_version < b.source_version

\* The tables hold what was delivered, and corrections on top of it only if the
\* base amount is off; what was approved is the amount of the execution.
CorpusInv ==
    /\ LoadInv
    /\ \A o \in inbox : o.supersedes_observation_id \in {0} \cup Ids(inbox)
    /\ inbox # {} => inbox \cup conflicts = Delivered(plan) \/ \E b : MendedBy(b)
    /\ report # NULL => /\ inbox # {} /\ Restating(plan)
                        /\ report.trade_id = trade /\ report.approved_value = Approved(plan)

LEMMA CorpusStart == CorpusInit => CorpusInv
  BY LoadInit DEF CorpusInv, CorpusInit, Init

\* The state is reported as it should be, and the trade is found.
LEMMA StateReported ==
    ASSUME FixtureConfig, CorpusInv, inbox # {}
    PROVE  Reports(Group, ExpectedFacts) /\ TradeId = trade
  <1>1. plan \in Plans
    BY DEF CorpusInv, LoadInv, Planned
  <1>2. Group.inbox \cup Group.conflicts = inbox \cup conflicts
    BY DEF Group
  <1>3. CASE inbox \cup conflicts = Delivered(plan)
    <2>1. NotSuperseded(Group.inbox \cup Group.conflicts) = Delivered(plan)
      BY <1>1, <1>2, <1>3, DeliveredLocked
    <2>2. Reports(Group, ExpectedOf(plan)) /\ MostCommonKey(Group, Delivered(plan)) = trade
      BY <1>1, <2>1, PlanReported
    <2>3. Sources = Delivered(plan)
      BY <1>2, <2>1 DEF Sources
    <2>4. ~ Corrected
      <3>1. \A o \in Delivered(plan) : o.observation_id \notin CorrectionIds
        BY <1>1, DeliveredIsValid, DeliveredParts, TwoIds
      <3> QED
        BY <1>3, <3>1 DEF Corrected
    <2>5. ExpectedFacts = ExpectedOf(plan)
      BY <2>4 DEF ExpectedFacts, ExpectedOf
    <2> QED
      BY <2>2, <2>3, <2>5 DEF TradeId
  <1>4. CASE \E b : MendedBy(b)
    <2>1. PICK b : MendedBy(b)
      BY <1>4
    <2>2. /\ Restating(plan) /\ Mends(plan, b) /\ b \in inbox
          /\ NotSuperseded(Group.inbox \cup Group.conflicts) = Unbooked(plan) \cup {b}
      BY <1>2, <2>1 DEF MendedBy
    <2>3. /\ Reports(Group, IF plan.spec.target_kind = "BOOKING" THEN {} ELSE _mutated_truth(plan))
          /\ MostCommonKey(Group, Unbooked(plan) \cup {b}) = trade
      BY <1>1, <2>2, MendedReported
    <2>4. Sources = Unbooked(plan) \cup {b}
      BY <1>2, <2>2 DEF Sources
    <2>5. Corrected
      BY <2>2 DEF Corrected, Mends
    <2>6. ExpectedFacts = IF plan.spec.target_kind = "BOOKING" THEN {} ELSE _mutated_truth(plan)
      BY <2>2, <2>5 DEF ExpectedFacts, Restating
    <2> QED
      BY <2>3, <2>4, <2>6 DEF TradeId
  <1> QED
    BY <1>3, <1>4 DEF CorpusInv

\* What a base_amount break leads to is the amount of the execution.
LEMMA ApprovedIsExecuted ==
    ASSUME FixtureConfig, CorpusInv, inbox # {},
           <<"ECONOMIC_VALUE_MISMATCH", "base_amount">> \in ExpectedFacts
    PROVE  /\ Restating(plan)
           /\ _resolved_observation(Sources, trade).value["base_amount"] = Approved(plan)
  <1> DEFINE kind == plan.spec.target_kind
  <1>1. plan \in Plans /\ trade \in Trades
    BY CorpusAssumption DEF CorpusInv, LoadInv, Planned
  <1>2. <<"ECONOMIC_VALUE_MISMATCH", "base_amount">> \in _mutated_truth(plan)
    BY DEF ExpectedFacts
  <1>3. /\ plan.spec # clean /\ _family_for_spec(plan.spec) = "ECONOMIC_VALUE_MISMATCH"
        /\ plan.spec.field = "base_amount"
    BY <1>2 DEF _mutated_truth
  <1>4. Restating(plan)
    BY <1>1, <1>3, PlanShape DEF ShapeOf, Shape, Restating
  <1>5. /\ Singles(Delivered(plan), plan.product) /\ kind \in {"EXECUTION", "BOOKING"}
        /\ \A k \in Kinds : \E o \in Delivered(plan) : o.observation_kind = k
        /\ \A o \in Delivered(plan) :
              o.value = IF o.observation_kind = kind THEN RestatedValue(plan) ELSE common_payload(plan)
    BY <1>1, <1>4, RestatingShape
  <1>6. PICK e \in Delivered(plan) : e.observation_kind = "EXECUTION"
    BY <1>5 DEF Kinds
  <1>7. e.value = MendedValue(plan)
    BY <1>5, <1>6 DEF MendedValue
  <1>8. Singles(Sources, plan.product) /\ e \in Sources
    <2>1. CASE inbox \cup conflicts = Delivered(plan)
      <3>1. Sources = Delivered(plan)
        BY <1>1, <2>1, DeliveredLocked DEF Sources
      <3> QED
        BY <1>5, <1>6, <3>1
    <2>2. CASE \E b : MendedBy(b)
      <3>1. PICK b : Mends(plan, b) /\ Sources = Unbooked(plan) \cup {b}
        BY <2>2 DEF MendedBy, Sources
      <3>2. Singles(Unbooked(plan) \cup {b}, plan.product)
        BY <1>1, <1>4, <3>1, MendedSingles
      <3>3. e \in Unbooked(plan)
        BY <1>6 DEF Unbooked
      <3> QED
        BY <3>1, <3>2, <3>3
    <2> QED
      BY <2>1, <2>2 DEF CorpusInv
  <1> DEFINE r == _resolved_observation(Sources, trade)
  <1>9. Locked(Sources) /\ _eligible_for_trade(e, trade)
    BY <1>8 DEF Singles, _eligible_for_trade
  <1>10. /\ r \in Sources
         /\ _OBSERVATION_RANK[r.observation_kind] <= _OBSERVATION_RANK[e.observation_kind]
    BY <1>8, <1>9, ResolvedIsPreferred
  <1> HIDE DEF r
  <1>11. r.observation_kind \in Kinds
    BY <1>9, <1>10, ObservationFields DEF Locked
  <1>12. r.observation_kind = "EXECUTION"
    BY <1>6, <1>10, <1>11 DEF _OBSERVATION_RANK, Kinds
  <1>13. r = e
    BY <1>6, <1>8, <1>10, <1>12 DEF Singles
  <1>14. r.value["base_amount"] = Approved(plan)
    BY <1>7, <1>13 DEF Approved
  <1> QED
    BY <1>4, <1>14 DEF r

\* A correction takes the place of the booking that it supersedes.
LEMMA TakesThePlace ==
    ASSUME NEW all, NEW o, NEW latest \in NotSuperseded(all), latest \in all,
           o.supersedes_observation_id = latest.observation_id,
           o.observation_id \notin Ids(all), o.observation_id # 0,
           \A q \in all : q.supersedes_observation_id \in {0} \cup Ids(all),
           \A q \in NotSuperseded(all) : q.observation_id = latest.observation_id => q = latest
    PROVE  NotSuperseded(all \cup {o}) = (NotSuperseded(all) \ {latest}) \cup {o}
  <1>1. o \notin all /\ latest.observation_id \in Ids(all)
    BY DEF Ids
  <1>2. o \in NotSuperseded(all \cup {o})
    BY <1>1 DEF NotSuperseded
  <1>3. \A q \in all : q \in NotSuperseded(all \cup {o})
                          <=> q \in NotSuperseded(all) /\ q.observation_id # latest.observation_id
    BY DEF NotSuperseded
  <1>4. \A q : q \in NotSuperseded(all \cup {o}) \/ q \in NotSuperseded(all) => q \in all \cup {o}
    BY DEF NotSuperseded
  <1> QED
    BY <1>1, <1>2, <1>3, <1>4

-----------------------------------------------------------------------------
\* The steps of the corpus.

\* The one booking that stands, which a correction copies.
Standing(latest) ==
    /\ conflicts = {} /\ latest \in inbox
    /\ latest \in NotSuperseded(inbox) /\ NotSuperseded(inbox) \ {latest} = Unbooked(plan)
    /\ Locked(NotSuperseded(inbox))
    /\ latest.portfolio_id = 1 /\ latest.correlation_id = 1
    /\ latest.source_trade_id = trade /\ latest.product_type = plan.product
    /\ latest.lifecycle_status = lifecycle_rule["BOOKING"]
    /\ \A f \in Fields \ {"base_amount"} : latest.value[f] = MendedValue(plan)[f]
    /\ \A o \in inbox :
          /\ o.source_business_key = trade
          /\ \/ o \in Unbooked(plan)
             \/ o.observation_kind = "BOOKING" /\ o.source_version <= latest.source_version

\* The newest booking of the inbox is that one.
LEMMA NewestStands ==
    ASSUME CorpusInv, inbox # {}, Restating(plan), NEW latest \in inbox,
           latest.observation_kind = "BOOKING", latest.source_business_key = trade,
           \A q \in inbox : IsBookingOf(q, trade) =>
                q.source_version <= latest.source_version
    PROVE  Standing(latest)
  <1> DEFINE D == Delivered(plan)
  <1>1. plan \in Plans /\ inbox \subseteq Observation
    BY DEF CorpusInv, LoadInv, Planned, GroupInv, TypeOK
  <1>2. /\ Singles(D, plan.product) /\ Usual(D)
        /\ \A o \in D : \A f \in Fields \ {"base_amount"} : o.value[f] = MendedValue(plan)[f]
    BY <1>1, RestatingShape
  <1>3. /\ \A o \in D : /\ o.source_business_key = trade /\ o.source_trade_id = trade
                        /\ o.product_type = plan.product
                        /\ o.portfolio_id = 1 /\ o.correlation_id = 1
        /\ \A o, q \in D : o.observation_kind = q.observation_kind => o = q
    BY <1>2 DEF Singles, Local
  <1>4. latest.source_version \in Nat
    BY <1>1, ObservationFields
  <1>5. CASE inbox \cup conflicts = D
    <2>1. conflicts = {}
      <3> SUFFICES ASSUME NEW c \in conflicts PROVE FALSE
        OBVIOUS
      <3>1. PICK q \in inbox : identity_key(q) = identity_key(c) /\ content_hash(q) # content_hash(c)
        BY DEF CorpusInv, LoadInv, Contradictory, Group
      <3>2. q.observation_kind = c.observation_kind
        BY <3>1 DEF identity_key
      <3> QED
        BY <1>3, <1>5, <3>1, <3>2
    <2>2. inbox = D
      BY <1>5, <2>1
    <2>3. NotSuperseded(inbox) = D /\ Locked(D)
      BY <1>1, <2>2, DeliveredLocked
    <2>4. D \ {latest} = Unbooked(plan)
      BY <1>3, <2>2 DEF Unbooked
    <2>5. \A o \in inbox : o \in Unbooked(plan) \/ o = latest
      BY <2>2, <2>4
    <2>6. latest.lifecycle_status = lifecycle_rule["BOOKING"]
      BY <1>2, <2>2 DEF Usual
    <2> QED
      BY <1>2, <1>3, <1>4, <2>1, <2>2, <2>3, <2>4, <2>5, <2>6 DEF Standing
  <1>6. CASE \E b : MendedBy(b)
    <2>1. PICK b : MendedBy(b)
      BY <1>6
    <2>2. /\ conflicts = {} /\ b \in inbox /\ Mends(plan, b)
          /\ NotSuperseded(inbox \cup conflicts) = Unbooked(plan) \cup {b}
          /\ \A o \in inbox :
                /\ o.source_business_key = trade
                /\ \/ o \in Unbooked(plan) \cup {b}
                   \/ o.observation_kind = "BOOKING" /\ o.source_version < b.source_version
      BY <2>1 DEF MendedBy
    <2>3. /\ b \in Observation /\ b.observation_kind = "BOOKING" /\ b.source_business_key = trade
          /\ b.portfolio_id = 1 /\ b.correlation_id = 1
          /\ b.source_trade_id = trade /\ b.product_type = plan.product
          /\ b.lifecycle_status = lifecycle_rule["BOOKING"] /\ b.value = MendedValue(plan)
      BY <2>2 DEF Mends
    <2>4. b.source_version \in Nat
      BY <2>3, ObservationFields
    <2>5. b.source_version <= latest.source_version
      BY <2>2, <2>3, <2>4 DEF IsBookingOf
    <2>6. latest = b
      BY <1>4, <2>2, <2>4, <2>5 DEF Unbooked
    <2>7. NotSuperseded(inbox) = Unbooked(plan) \cup {b}
      <3>1. inbox \cup conflicts = inbox
        BY <2>2
      <3> QED
        BY <2>2, <3>1
    <2>8. Locked(Unbooked(plan) \cup {b})
      BY <1>1, <2>2, MendedSingles DEF Singles
    <2>9. b \notin Unbooked(plan)
      BY <2>3 DEF Unbooked
    <2>10. \A o \in inbox : \/ o \in Unbooked(plan)
                            \/ o.observation_kind = "BOOKING" /\ o.source_version <= b.source_version
      <3> SUFFICES ASSUME NEW o \in inbox, o \notin Unbooked(plan)
                   PROVE  o.observation_kind = "BOOKING" /\ o.source_version <= b.source_version
        OBVIOUS
      <3>1. o.source_version \in Nat
        BY <1>1, ObservationFields
      <3> QED
        BY <2>2, <2>3, <2>4, <3>1
    <2> QED
      BY <2>2, <2>3, <2>6, <2>7, <2>8, <2>9, <2>10 DEF Standing
  <1> QED
    BY <1>5, <1>6 DEF CorpusInv

\* A correction of it mends, and takes its place.
LEMMA CorrectionMends ==
    ASSUME CorpusInv, ingest_corrected_booking_observation, UNCHANGED plan, LoadInv'
    PROVE  CorpusInv'
  <1>1. /\ report # NULL /\ inbox # {} /\ Restating(plan)
        /\ report.trade_id = trade /\ report.approved_value = Approved(plan)
        /\ UNCHANGED conflicts /\ report' = NULL
    BY DEF CorpusInv, ingest_corrected_booking_observation
  <1>2. plan \in Plans /\ inbox \subseteq Observation /\ inbox' \subseteq Observation
    BY DEF CorpusInv, LoadInv, Planned, GroupInv, TypeOK
  <1>3. PICK id \in CorrectionIds \ Ids(inbox), now \in CorrectionTimes, latest \in inbox :
          /\ latest.observation_kind = "BOOKING"
          /\ latest.source_business_key = report.trade_id
          /\ \A p \in inbox : IsBookingOf(p, report.trade_id) =>
                p.source_version <= latest.source_version
          /\ inbox' = inbox \cup {CorrectedObservation(latest, id, now, report.approved_value)}
    BY DEF ingest_corrected_booking_observation, IsBookingOf
  <1>4. Standing(latest)
    BY <1>1, <1>3, NewestStands
  <1>0. PICK o : o = CorrectedObservation(latest, id, now, Approved(plan))
    OBVIOUS
  <1>5. /\ o.observation_id = id /\ o.supersedes_observation_id = latest.observation_id
        /\ o.observation_kind = "BOOKING" /\ o.source_business_key = trade
        /\ o.source_version = latest.source_version + 1
        /\ o.portfolio_id = 1 /\ o.correlation_id = 1
        /\ o.source_trade_id = trade /\ o.product_type = plan.product
        /\ o.lifecycle_status = lifecycle_rule["BOOKING"]
        /\ o.value = [latest.value EXCEPT !["base_amount"] = Approved(plan)]
    <2>1. latest \in Observation
      BY <1>2
    <2>2. /\ o.observation_id = id /\ o.supersedes_observation_id = latest.observation_id
          /\ o.observation_kind = latest.observation_kind
          /\ o.source_business_key = latest.source_business_key
          /\ o.source_version = latest.source_version + 1
          /\ o.portfolio_id = latest.portfolio_id /\ o.correlation_id = latest.correlation_id
          /\ o.source_trade_id = latest.source_trade_id /\ o.product_type = latest.product_type
          /\ o.lifecycle_status = latest.lifecycle_status
      BY <1>0, <2>1, CorrectedFields
    <2>3. o.value = [latest.value EXCEPT !["base_amount"] = Approved(plan)]
      BY <1>0, <2>1, CorrectedValue
    <2> QED
      BY <1>1, <1>3, <1>4, <2>2, <2>3 DEF Standing
  <1>6. inbox' = inbox \cup {o} /\ o \in Observation
    BY <1>0, <1>1, <1>2, <1>3
  <1>7. id \in Nat \ {0} /\ latest.source_version \in Nat /\ latest.value \in [Fields -> Nat]
    BY <1>2, <1>3, FeedAssumption, ObservationFields
  <1>8. o.value = MendedValue(plan)
    <2>1. MendedValue(plan) \in [Fields -> Nat]
      BY <1>1, <1>2, RestatingShape
    <2>2. \A f \in Fields \ {"base_amount"} : latest.value[f] = MendedValue(plan)[f]
      BY <1>4 DEF Standing
    <2> QED
      BY <1>5, <1>7, <2>1, <2>2 DEF Approved
  <1>9. Mends(plan, o)
    BY <1>3, <1>5, <1>6, <1>8 DEF Mends
  <1>10. NotSuperseded(inbox \cup {o}) = (NotSuperseded(inbox) \ {latest}) \cup {o}
    <2>1. o.observation_id \notin Ids(inbox) /\ o.observation_id # 0
      BY <1>3, <1>5, <1>7
    <2>2. \A q \in inbox : q.supersedes_observation_id \in {0} \cup Ids(inbox)
      BY DEF CorpusInv
    <2>3. /\ latest \in NotSuperseded(inbox)
          /\ \A q \in NotSuperseded(inbox) : q.observation_id = latest.observation_id => q = latest
      BY <1>4 DEF Standing, Locked
    <2> QED
      BY <1>5, <2>1, <2>2, <2>3, TakesThePlace
  <1>11. conflicts' = {} /\ inbox' \cup conflicts' = inbox \cup {o}
    BY <1>1, <1>4, <1>6 DEF Standing
  <1>12. NotSuperseded(inbox' \cup conflicts') = Unbooked(plan) \cup {o}
    BY <1>4, <1>10, <1>11 DEF Standing
  <1>13. \A q \in inbox \cup {o} :
            /\ q.source_business_key = trade
            /\ \/ q \in Unbooked(plan) \cup {o}
               \/ q.observation_kind = "BOOKING" /\ q.source_version < o.source_version
    <2>1. \A q \in inbox : q.source_version \in Nat
      BY <1>2, ObservationFields
    <2>2. \A q \in inbox :
            /\ q.source_business_key = trade
            /\ \/ q \in Unbooked(plan)
               \/ q.observation_kind = "BOOKING" /\ q.source_version <= latest.source_version
      BY <1>4 DEF Standing
    <2> QED
      BY <1>5, <1>7, <2>1, <2>2
  <1>14. Unbooked(plan)' = Unbooked(plan) /\ Restating(plan)' /\ Mends(plan, o)'
    BY <1>1, <1>9 DEF Unbooked, Delivered, Mutated, Restating, Mends, MendedValue
  <1>15. MendedBy(o)'
    <2>1. NotSuperseded(inbox \cup conflicts)' = Unbooked(plan) \cup {o}
      BY <1>12 DEF NotSuperseded
    <2> QED
      BY <1>6, <1>11, <1>13, <1>14, <2>1 DEF MendedBy
  <1>16. \A q \in inbox' : q.supersedes_observation_id \in {0} \cup Ids(inbox')
    BY <1>3, <1>5, <1>6 DEF CorpusInv, Ids
  <1>17. Ids(inbox)' = Ids(inbox')
    BY DEF Ids
  <1> QED
    BY <1>1, <1>15, <1>16, <1>17 DEF CorpusInv

\* The first load leaves what was delivered, and a later one nothing new.
LEMMA LoadDelivers ==
    ASSUME CorpusInv, load_demo_corpus, LoadInv'
    PROVE  CorpusInv'
  <1> DEFINE D == Delivered(plan)
  <1>1. LoadInv /\ plan \in Plans
    BY DEF CorpusInv, LoadInv, Planned
  <1>2. /\ inbox' \subseteq inbox \cup D /\ conflicts' \subseteq conflicts \cup D
        /\ \A o \in D : Settled(Group', o)
        /\ inbox # {} => UNCHANGED <<inbox, conflicts>>
        /\ UNCHANGED <<report, plan>>
    BY <1>1, LoadDoes
  <1>3. D' = D
    BY <1>2 DEF Delivered, Mutated
  <1>4. CASE inbox # {}
    <2>1. \A b : MendedBy(b) => MendedBy(b)'
      BY <1>2, <1>3, <1>4 DEF MendedBy, Unbooked, Restating, Mends, MendedValue, NotSuperseded
    <2> QED
      BY <1>2, <1>3, <1>4, <2>1 DEF CorpusInv, Ids, Restating, Approved, MendedValue
  <1>5. CASE inbox = {}
    <2>1. conflicts = {} /\ report = NULL
      BY <1>1, <1>5 DEF LoadInv
    <2>2. inbox' \cup conflicts' \subseteq D
      BY <1>2, <1>5, <2>1
    <2>3. \A o \in D : o \in inbox' \cup conflicts'
      <3> SUFFICES ASSUME NEW o \in D PROVE o \in inbox' \cup conflicts'
        OBVIOUS
      <3>1. Group'.inbox = inbox' /\ Group'.conflicts = conflicts'
        BY DEF Group
      <3>2. PICK q \in inbox' :
               \/ content_hash(q) = content_hash(o)
               \/ \E c \in conflicts' : conflict_key(c) = conflict_key(o)
        BY <1>2, <3>1 DEF Settled, Quarantined
      <3>3. CASE content_hash(q) = content_hash(o)
        <4>1. q \in D
          BY <2>2
        <4>2. q = o
          BY <1>1, <3>3, <4>1, DeliveredDistinct
        <4> QED
          BY <4>2
      <3>4. CASE \E c \in conflicts' : conflict_key(c) = conflict_key(o)
        <4>1. PICK c \in conflicts' : c.observation_id = o.observation_id
          BY <3>4 DEF conflict_key
        <4>2. c \in D
          BY <2>2
        <4>3. c = o
          BY <1>1, <4>1, <4>2, DeliveredDistinct
        <4> QED
          BY <4>3
      <3> QED
        BY <3>2, <3>3, <3>4
    <2>4. inbox' \cup conflicts' = D
      BY <2>2, <2>3
    <2>5. \A o \in inbox' : o.supersedes_observation_id = 0
      BY <1>1, <2>2, DeliveredIsValid
    <2>6. report' = NULL
      BY <1>2, <2>1
    <2> QED
      BY <1>3, <2>4, <2>5, <2>6 DEF CorpusInv
  <1> QED
    BY <1>4, <1>5

\* A run approves the amount of the execution, or nothing.
LEMMA RunApproves ==
    ASSUME FixtureConfig, CorpusInv, run_reconciliation, UNCHANGED plan, LoadInv'
    PROVE  CorpusInv'
  <1>1. inbox # {} /\ UNCHANGED <<inbox, conflicts>>
    BY DEF run_reconciliation
  <1>2. Reports(Group, ExpectedFacts) /\ TradeId = trade
    BY <1>1, StateReported
  <1>3. Facts(Verdict) = ExpectedFacts /\ Verdict.result # "ERROR"
    BY <1>2 DEF Reports, Verdict
  <1> DEFINE fact == <<"ECONOMIC_VALUE_MISMATCH", "base_amount">>
             amount == _resolved_observation(Sources, trade).value["base_amount"]
  <1>4. report' = IF fact \in ExpectedFacts THEN [trade_id |-> trade, approved_value |-> amount]
                  ELSE NULL
    BY <1>2, <1>3 DEF run_reconciliation
  <1>5. fact \in ExpectedFacts => Restating(plan) /\ amount = Approved(plan)
    BY <1>1, ApprovedIsExecuted
  <1> HIDE DEF fact, amount
  <1>6. report' # NULL => /\ Restating(plan) /\ report'.trade_id = trade
                          /\ report'.approved_value = Approved(plan)
    BY <1>4, <1>5
  <1>7. Delivered(plan)' = Delivered(plan) /\ Restating(plan)' = Restating(plan) /\ Approved(plan)' = Approved(plan)
    BY DEF Delivered, Mutated, Restating, Approved, MendedValue
  <1>8. \A b : MendedBy(b) => MendedBy(b)'
    BY <1>1, <1>7 DEF MendedBy, Unbooked, Mends, MendedValue, NotSuperseded
  <1> QED
    BY <1>1, <1>6, <1>7, <1>8 DEF CorpusInv, Ids

\* Every step keeps the invariant.
LEMMA CorpusStep == FixtureConfig /\ CorpusInv /\ [CorpusNext]_corpusVars => CorpusInv'
  <1> SUFFICES ASSUME FixtureConfig, CorpusInv, [CorpusNext]_corpusVars PROVE CorpusInv'
    OBVIOUS
  <1>1. LoadInv' /\ UNCHANGED plan
    BY LoadStep, PlanStays DEF CorpusInv
  <1>2. CASE load_demo_corpus
    BY <1>1, <1>2, LoadDelivers
  <1>3. CASE run_reconciliation /\ UNCHANGED plan
    BY <1>1, <1>3, RunApproves
  <1>4. CASE ingest_corrected_booking_observation /\ UNCHANGED plan
    BY <1>1, <1>4, CorrectionMends
  <1>5. CASE UNCHANGED corpusVars
    <2>1. UNCHANGED <<inbox, conflicts, report, plan>>
      BY <1>5 DEF corpusVars, vars
    <2>2. \A b : MendedBy(b) => MendedBy(b)'
      BY <2>1 DEF MendedBy, Unbooked, Delivered, Mutated, Restating, Mends, MendedValue, NotSuperseded
    <2> QED
      BY <1>1, <2>1, <2>2 DEF CorpusInv, Ids, Delivered, Mutated, Restating, Approved, MendedValue
  <1> QED
    BY <1>2, <1>3, <1>4, <1>5 DEF CorpusNext

\* Under the service's configuration every scenario is reported with the break that
\* its mutation should lead to and with no other, at every moment: after the load,
\* after reloads, and after every correction, whatever identifiers are drawn
\* (_reconcile_lineage_group over generate_corpus).
THEOREM ScenariosAreDetected == FixtureConfig => (CorpusSpec => []CorpusIsDetected)
  <1> SUFFICES ASSUME FixtureConfig PROVE CorpusSpec => []CorpusIsDetected
    OBVIOUS
  <1>1. CorpusInv => CorpusIsDetected
    BY StateReported DEF CorpusIsDetected, Reports, Verdict
  <1>2. CorpusInv /\ [CorpusNext]_corpusVars => CorpusInv'
    BY CorpusStep
  <1> QED
    BY <1>1, <1>2, CorpusStart, PTL DEF CorpusSpec

-----------------------------------------------------------------------------
\* The scoped rerun.

\* But for the source under a foreign key, every row carries the key of the trade.
LEMMA RowsCarryTheKey ==
    ASSUME CorpusInv, inbox # {}, plan.spec.mutation_type # "UNMATCHED"
    PROVE  \A o \in inbox \cup conflicts : o.source_business_key = trade
  <1>1. plan \in Plans
    BY DEF CorpusInv, LoadInv, Planned
  <1>2. CASE inbox \cup conflicts = Delivered(plan)
    <2>1. CASE plan.spec.mutation_type \notin LinkedTypes
      BY <1>1, <1>2, <2>1, DeliveredSingles DEF Singles
    <2>2. CASE plan.spec.mutation_type \in LinkedTypes
      <3> DEFINE kind == plan.spec.target_kind
                 D == Delivered(plan)
      <3>1. /\ kind \in Kinds
            /\ \A o \in D : o.observation_kind # kind => o.source_business_key = trade
            /\ \E m \in D : /\ m.source_business_key = trade
                            /\ \A o \in D : o.observation_kind = kind => o = m \/ o = Honest(plan, kind)
        BY <1>1, <2>2, LinkedDelivered
      <3>2. Honest(plan, kind).source_business_key = trade
        BY <1>1, <3>1, HonestFields
      <3> HIDE DEF kind, D
      <3>3. \A o \in D : o.source_business_key = trade
        BY <3>1, <3>2
      <3> QED
        BY <1>2, <3>3 DEF D
    <2> QED
      BY <2>1, <2>2
  <1>3. CASE \E b : MendedBy(b)
    BY <1>3 DEF MendedBy
  <1> QED
    BY <1>2, <1>3 DEF CorpusInv

\* Without that source, what is left is one source of each kind, all agreeing.
LEMMA OthersReported ==
    ASSUME FixtureConfig, NEW p \in Plans, p.spec.mutation_type = "UNMATCHED", NEW group,
           group.inbox \cup group.conflicts = {o \in Delivered(p) : _eligible_for_trade(o, trade)}
    PROVE  Reports(group, { <<"MISSING_REQUIRED_SOURCE", k>> :
                              k \in {p.spec.target_kind} \cap RequiredKinds })
  <1> DEFINE kind == p.spec.target_kind
             D == Delivered(p)
             S == {o \in D : o.observation_kind # kind}
  <1>1. /\ kind \in Kinds /\ Usual(D) /\ Absent(D) = {}
        /\ \A o \in D : o.value = common_payload(p) /\ o.product_type = p.product
        /\ \A o \in D : o.observation_kind # kind =>
              /\ o = Honest(p, o.observation_kind)
              /\ o.source_business_key = trade /\ o.source_trade_id = trade
        /\ \E m \in D : /\ m.source_business_key = alternate /\ m.source_trade_id = alternate
                        /\ \A o \in D : o.observation_kind = kind => o = m
    BY LinkedDelivered DEF LinkedTypes
  <1>2. trade # alternate
    BY CorpusAssumption
  <1> HIDE DEF kind, D
  <1>3. {o \in D : _eligible_for_trade(o, trade)} = S
    BY <1>1, <1>2 DEF _eligible_for_trade
  <1>4. Locked(D) /\ \A o \in D : o.supersedes_observation_id = 0 /\ o.observation_id # 0
    <2>1. \A o \in D : o \in Observation /\ o.supersedes_observation_id = 0
      BY DeliveredIsValid DEF D
    <2>2. \A o \in D : o.observation_id # 0
      BY <2>1, ObservationFields
    <2> QED
      BY <2>1, <2>2, DeliveredLocked DEF D
  <1>5. NotSuperseded(S) = S
    BY <1>4 DEF NotSuperseded
  <1>6. Locked(S)
    BY <1>4, LockedPart
  <1>7. \E o, q \in S : o # q
    <2>1. PICK j, k \in Kinds \ {kind} : /\ Honest(p, j) \in D /\ Honest(p, k) \in D
                                         /\ Honest(p, j) # Honest(p, k)
      BY TwoHonest DEF kind, D
    <2>2. Honest(p, j).observation_kind = j /\ Honest(p, k).observation_kind = k
      BY <2>1, HonestFields
    <2> QED
      BY <2>1, <2>2
  <1>8. \A o \in S : /\ o.source_business_key = trade /\ o.source_trade_id = trade
                     /\ o.product_type = p.product
                     /\ o.observation_kind = "CONFIRMATION" => o.lifecycle_status # "CAPTURED"
    BY <1>1 DEF Usual, lifecycle_rule
  <1>9. \A o, q \in S : o.observation_kind = q.observation_kind => o = q
    BY <1>1
  <1>10. Usual(S) /\ \A o, q \in S : o.value = q.value
    BY <1>1 DEF Usual
  <1>11. Absent(S) = {kind} \cap RequiredKinds
    BY <1>1 DEF Absent
  <1> HIDE DEF S
  <1>12. Singles(S, p.product)
    <2>1. Local(S)
      BY DeliveredLocked DEF Local, S, D
    <2> QED
      BY <1>6, <1>7, <1>8, <1>9, <2>1 DEF Singles
  <1>13. S = NotSuperseded(group.inbox \cup group.conflicts)
    BY <1>3, <1>5 DEF D
  <1>14. \A j, k \in Absent(S) : j = k
    BY <1>11
  <1>15. Reports(group, {<<"MISSING_REQUIRED_SOURCE", k>> : k \in Absent(S)})
    BY <1>10, <1>12, <1>13, <1>14, AgreedReported
  <1> QED
    BY <1>11, <1>15 DEF kind

\* The scoped rerun reports what the full run reports of the trade; a source under
\* a foreign key escapes it, and then that source is reported missing if it is
\* required (rerun_trade_reconciliation).
THEOREM RerunIsFaithful == FixtureConfig => (CorpusSpec => []RerunSeesTheSame)
  <1> SUFFICES ASSUME FixtureConfig PROVE CorpusSpec => []RerunSeesTheSame
    OBVIOUS
  <1>1. ASSUME CorpusInv PROVE RerunSeesTheSame
    <2> SUFFICES ASSUME inbox # {}
                 PROVE  LET rerun == Facts(_reconcile_lineage_group(RerunGroup)) IN
                        IF plan.spec.mutation_type = "UNMATCHED"
                          THEN rerun = { <<"MISSING_REQUIRED_SOURCE", kind>> :
                                           kind \in {plan.spec.target_kind} \cap RequiredKinds }
                          ELSE rerun = Facts(Verdict)
      BY DEF RerunSeesTheSame
    <2>1. TradeId = trade
      BY <1>1, StateReported
    <2>2. CASE plan.spec.mutation_type # "UNMATCHED"
      <3>1. \A o \in inbox \cup conflicts : _eligible_for_trade(o, trade)
        BY <1>1, <2>2, RowsCarryTheKey DEF _eligible_for_trade
      <3>2. /\ {o \in inbox : _eligible_for_trade(o, TradeId)} = inbox
            /\ {o \in conflicts : _eligible_for_trade(o, TradeId)} = conflicts
        BY <2>1, <3>1
      <3>3. RerunGroup = Group
        BY <3>2 DEF RerunGroup, Group
      <3> QED
        BY <2>2, <3>3 DEF Verdict
    <2>3. CASE plan.spec.mutation_type = "UNMATCHED"
      <3>1. plan \in Plans
        BY <1>1 DEF CorpusInv, LoadInv, Planned
      <3>2. inbox \cup conflicts = Delivered(plan)
        <4>1. ~ Restating(plan)
          BY <2>3 DEF Restating
        <4> QED
          BY <1>1, <4>1 DEF CorpusInv, MendedBy
      <3>3. RerunGroup.inbox \cup RerunGroup.conflicts
              = {o \in Delivered(plan) : _eligible_for_trade(o, trade)}
        BY <2>1, <3>2 DEF RerunGroup
      <3>4. Reports(RerunGroup, { <<"MISSING_REQUIRED_SOURCE", k>> :
                                    k \in {plan.spec.target_kind} \cap RequiredKinds })
        BY <2>3, <3>1, <3>3, OthersReported
      <3> QED
        BY <2>3, <3>4 DEF Reports
    <2> QED
      BY <2>2, <2>3
  <1>2. CorpusInv /\ [CorpusNext]_corpusVars => CorpusInv'
    BY CorpusStep
  <1> QED
    BY <1>1, <1>2, CorpusStart, PTL DEF CorpusSpec

=============================================================================
