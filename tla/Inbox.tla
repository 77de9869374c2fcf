-------------------------------- MODULE Inbox --------------------------------
(***************************************************************************)
(* What the source-event inbox promises: packages/persistence/inbox.py,    *)
(* the in-memory reference implementation, taken one whole batch at a time.*)
(* A call is answered in one step: every delivery of the batch is          *)
(* classified against the rows as they are then, and either the whole      *)
(* batch takes effect or none of it.                                       *)
(*                                                                         *)
(* A fingerprint is modelled by the content it was computed from, so a     *)
(* delivery is genuine when the two are equal.                             *)
(***************************************************************************)
EXTENDS Naturals, Sequences

CONSTANTS
    Keys,           \* IdentityKeys: source-family identity and version
    Contents,       \* what a delivery may say
    ObservationIds,
    Deliveries,     \* the batches the program ingests, with their on_conflict
    Sessions,       \* connections in use at the same time
    NULL            \* no row, no call

Observation == [ observation_id : ObservationIds, key : Keys,
                 content : Contents, content_hash : Contents ]

Modes == {"raise", "quarantine"}

ASSUME DeliveriesAssumption ==
    /\ NULL \notin Observation \cup Deliveries
    /\ \A call \in Deliveries :
          /\ call.on_conflict \in Modes
          /\ call.observations \in Seq(Observation)

VARIABLES
    inbox,          \* source_event_inbox: [Keys -> Observation or NULL]
    conflicts,      \* source_event_conflicts, by observation_id
    call,           \* the ingest call each session is serving
    answer          \* its last answer

public == <<inbox, conflicts, call, answer>>

\* An IngestSummary, a SourceConflictError, another exception raised by the
\* batch itself, or the database giving up.
Answers ==
    [ status : {"none", "summary", "conflict", "error", "unavailable"},
      inserted : Nat, replayed : Nat, conflicted : Nat ]

Failure(status) == [status |-> status, inserted |-> 0, replayed |-> 0, conflicted |-> 0]

TypeOK ==
    /\ inbox     \in [Keys -> Observation \cup {NULL}]
    /\ conflicts \in [ObservationIds -> Observation \cup {NULL}]
    /\ call      \in [Sessions -> Deliveries \cup {NULL}]
    /\ answer    \in [Sessions -> Answers]

Init ==
    /\ inbox     = [k \in Keys |-> NULL]
    /\ conflicts = [id \in ObservationIds |-> NULL]
    /\ call      = [s \in Sessions |-> NULL]
    /\ answer    = [s \in Sessions |-> Failure("none")]

-----------------------------------------------------------------------------
\* compute_observation_content_hash(observation) = observation.content_hash
validate_observation_content_hash(o) == o.content_hash = o.content

\* How a delivery compares with the row it finds under its key.  A conflict is
\* between two observations: a DuplicateSourceConflict that would name one id
\* twice cannot be built, so a delivery that contradicts the row of its own id
\* fails the batch in either mode.
IngestOutcome(existing, o) ==
    IF ~ validate_observation_content_hash(o) THEN "INVALID"
    ELSE IF existing = NULL THEN "INSERTED"
    ELSE IF existing.content_hash = o.content_hash THEN "IDEMPOTENT_REPLAY"
    ELSE IF existing.observation_id = o.observation_id THEN "INVALID"
    ELSE "CONFLICT"

\* The effect of one delivery on what the batch has done so far.
ingest(batch, o, on_conflict) ==
    LET outcome == IngestOutcome(batch.inbox[o.key], o) IN
    IF batch.answer.status # "summary" THEN batch
    ELSE CASE outcome = "INVALID" -> [batch EXCEPT !.answer = Failure("error")]
           [] outcome = "INSERTED" ->
                 [batch EXCEPT !.inbox[o.key] = o, !.answer.inserted = @ + 1]
           [] outcome = "IDEMPOTENT_REPLAY" -> [batch EXCEPT !.answer.replayed = @ + 1]
           [] outcome = "CONFLICT" /\ on_conflict = "raise" ->
                 [batch EXCEPT !.answer = Failure("conflict")]
           [] outcome = "CONFLICT" /\ on_conflict = "quarantine" ->
                 [batch EXCEPT !.conflicts[o.observation_id] = IF @ = NULL THEN o ELSE @,
                               !.answer.conflicted = @ + 1]

\* The whole batch, in its order.
IngestBatch(c) ==
    LET done[i \in 0 .. Len(c.observations)] ==
            IF i = 0 THEN [ inbox |-> inbox, conflicts |-> conflicts,
                            answer |-> Failure("summary") ]
                     ELSE ingest(done[i - 1], c.observations[i], c.on_conflict)
    IN  done[Len(c.observations)]

-----------------------------------------------------------------------------
Begin(s) ==
    /\ call[s] = NULL
    /\ \E c \in Deliveries : call' = [call EXCEPT ![s] = c]
    /\ UNCHANGED <<inbox, conflicts, answer>>

Ingest(s) ==
    LET batch == IngestBatch(call[s]) IN
    /\ call[s] # NULL
    /\ IF batch.answer.status = "summary"
         THEN inbox' = batch.inbox /\ conflicts' = batch.conflicts
         ELSE UNCHANGED <<inbox, conflicts>>
    /\ answer' = [answer EXCEPT ![s] = batch.answer]
    /\ call' = [call EXCEPT ![s] = NULL]

\* The database may refuse a batch; then nothing of it is there.
Refuse(s) ==
    /\ call[s] # NULL
    /\ \E status \in {"error", "unavailable"} :
          answer' = [answer EXCEPT ![s] = Failure(status)]
    /\ call' = [call EXCEPT ![s] = NULL]
    /\ UNCHANGED <<inbox, conflicts>>

Next == \E s \in Sessions : Begin(s) \/ Ingest(s) \/ Refuse(s)

Spec == Init /\ [][Next]_public

=============================================================================
