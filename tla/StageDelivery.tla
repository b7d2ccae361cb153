--------------------------- MODULE StageDelivery ---------------------------
(***************************************************************************)
(* One pipeline stage of one file: the journal row                         *)
(* (pipeline_stage_journal), the broker's copies of the dispatch events    *)
(* for it, and the worker processes that consume them                      *)
(* (workers/pipeline_runtime/runtime.py, pipeline/stage_completion.py),    *)
(* together with the stuck-stage reclaimer of services/recovery_runtime.py *)
(* and the operator replay of pipeline/replay.py.                          *)
(*                                                                         *)
(* The stage is one of OCR, EMBED and CLASSIFY: completion and failure     *)
(* READ the row without a lock and write, when they commit, only the       *)
(* columns they changed; start, abandon and reclaim lock it.  (The sync    *)
(* stages have a replay of their own, which asks for no stage status and   *)
(* comes in batches; TRANSCODE locks its completion, see MediaGeneration.) *)
(* The events carry no recovery item, so the ceiling of an attempt is the  *)
(* broker's and a success always fans out.                                 *)
(*                                                                         *)
(* An outbox row may reach the broker more than once, hence several copies *)
(* of an event.  Time is abstracted (a lease can be stale at once); the    *)
(* two places where a duration matters say so.                             *)
(***************************************************************************)
EXTENDS Naturals, FiniteSets

CONSTANTS
  Workers,        \* consumers of the stage's queue; prefetch count 1
  NoTask,         \* a worker that runs no handler
  NoRow,          \* no journal row has been read
  MaxAttempts,    \* settings.pipeline_broker_retry_max_attempts
  MaxEvents,      \* bound of the model: the fan-out's event and its replays
  CopiesOf        \* CopiesOf[e]: broker copies the publisher may make of e

ASSUME MaxAttemptsAssumption == MaxAttempts \in Nat \ {0}
ASSUME MaxEventsAssumption == MaxEvents \in Nat \ {0}
ASSUME CopiesAssumption == CopiesOf \in [1 .. MaxEvents -> Nat \ {0}]

Events == 1 .. MaxEvents
Copies == UNION {{e} \X (1 .. CopiesOf[e]) : e \in Events}

VARIABLES
  row,            \* [status, count, event, retryable]: the stage's journal row
  next,           \* the next stage's journal row and its dispatch exist
  base,           \* base[e]: the attempt event e was dispatched with, 0 if not yet
  place,          \* place[c]: where the broker has copy c
  deaths,         \* deaths[c]: its x-death count for the retry queue
  holds,          \* holds[w]: the copies unacknowledged on w's channel
  task,           \* task[w]: the handler w runs
  replay,         \* the row an operator's replay request has read
  ledger,         \* events recorded in pipeline_dead_letters
  crossed         \* history: the row's failure was written over a row that
                  \* another transaction had changed since it was read

broker == <<place, deaths, holds>>
vars == <<row, next, base, broker, task, replay, ledger, crossed>>

-----------------------------------------------------------------------------
Statuses == {"pending", "processing", "succeeded", "failed"}
Places == {"unpublished", "ready", "held", "retry", "gone"}

(* _effective_attempt: the event's attempt plus its retry cycles.           *)
AttemptOf(c) == base[c[1]] + deaths[c]

Issued == {e \in Events : base[e] > 0}
NextEvent == Cardinality(Issued) + 1

(* A handler's transaction has read the row and not committed yet.          *)
Open(w) == task[w] # NoTask /\ task[w].seen # NoRow

Step(w, pc) ==
  task' = [task EXCEPT ![w] = [@ EXCEPT !.pc = pc, !.seen = NoRow, !.seenNext = FALSE]]
Finish(w) == task' = [task EXCEPT ![w] = NoTask]

(* A bound of the model on interleavings, which the code does not have:     *)
(* between the read and the commit of a transaction that locks nothing (a   *)
(* few round trips) at most one other transaction commits to the row.       *)
(* MayCommit(W) is what the others than W allow.                            *)
MayCommit(W) ==
  /\ \A v \in Workers \ W : Open(v) => row = task[v].seen
  /\ replay \in {NoRow, row}

(* Mutant: the whole row is written, columns nobody changed included.       *)
FlushedWhole(seen, new) == new

(* What the ORM writes: the columns whose new value differs from the one    *)
(* the transaction loaded; the others keep what is there by now.            *)
Flushed(seen, new) == [k \in DOMAIN row |-> IF new[k] # seen[k] THEN new[k] ELSE row[k]]

(* Where the broker has w's copy after w answered it; nothing happens on a  *)
(* channel that has lost the delivery.                                      *)
Answer(w, to) ==
  /\ place' = IF task[w].copy \in holds[w]
              THEN [place EXCEPT ![task[w].copy] = to] ELSE place
  /\ holds' = [holds EXCEPT ![w] = @ \ {task[w].copy}]
  /\ UNCHANGED deaths

-----------------------------------------------------------------------------
(* prepare_downstream_dispatches made the row and event 1 of this stage.    *)
Init ==
  /\ row = [status |-> "pending", count |-> 0, event |-> 1, retryable |-> TRUE]
  /\ next = FALSE
  /\ base = [e \in Events |-> IF e = 1 THEN 1 ELSE 0]
  /\ place = [c \in Copies |-> "unpublished"]
  /\ deaths = [c \in Copies |-> 0]
  /\ holds = [w \in Workers |-> {}]
  /\ task = [w \in Workers |-> NoTask]
  /\ replay = NoRow
  /\ ledger = {}
  /\ crossed = FALSE

(* The outbox relay hands a copy of an issued event to the broker.          *)
Publish(c) ==
  /\ place[c] = "unpublished" /\ c[1] \in Issued
  /\ place' = [place EXCEPT ![c] = "ready"]
  /\ UNCHANGED <<row, next, base, deaths, holds, task, replay, ledger, crossed>>

(* The retry queue's TTL returns a rejected copy to the stage's queue.      *)
RetryExpires(c) ==
  /\ place[c] = "retry"
  /\ place' = [place EXCEPT ![c] = "ready"]
  /\ deaths' = [deaths EXCEPT ![c] = @ + 1]
  /\ UNCHANGED <<row, next, base, holds, task, replay, ledger, crossed>>

-----------------------------------------------------------------------------
(* A delivery and start_stage_processing under the row lock.                *)
Receive(w, c) ==
  /\ task[w] = NoTask /\ holds[w] = {}
  /\ place[c] = "ready"
  /\ place' = [place EXCEPT ![c] = "held"]
  /\ holds' = [holds EXCEPT ![w] = {c}]
  /\ UNCHANGED <<next, base, deaths, replay, ledger>>

NewTask(c, pc) ==
  [copy |-> c, attempt |-> AttemptOf(c), pc |-> pc, cancelled |-> FALSE,
   seen |-> NoRow, seenNext |-> FALSE]

(* Mutant: an event that waits for its delivery counts as a duplicate.      *)
IsDuplicateWhenPending(c) == row.event = c[1] /\ row.status # "failed"

IsDuplicate(c) == row.event = c[1] /\ row.status \in {"processing", "succeeded"}

DeliverDuplicate(w, c) ==
  /\ Receive(w, c)
  /\ IsDuplicate(c)
  /\ task' = [task EXCEPT ![w] = NewTask(c, "duplicate")]
  /\ UNCHANGED <<row, crossed>>

(* ensure_stage_attempt_is_current raises, and raises again in              *)
(* _mark_stage_failed: the handler ends and leaves its message unacked.     *)
DeliverStale(w, c) ==
  /\ Receive(w, c)
  /\ ~IsDuplicate(c)
  /\ AttemptOf(c) < row.count
  /\ UNCHANGED <<row, task, crossed>>

DeliverAndStart(w, c) ==
  /\ Receive(w, c)
  /\ ~IsDuplicate(c)
  /\ AttemptOf(c) >= row.count
  /\ MayCommit({w})
  /\ row' = [status |-> "processing", count |-> AttemptOf(c), event |-> c[1],
             retryable |-> TRUE]
  /\ task' = [task EXCEPT ![w] = NewTask(c, "running")]
  /\ crossed' = FALSE

Deliver(w, c) == DeliverDuplicate(w, c) \/ DeliverStale(w, c) \/ DeliverAndStart(w, c)

-----------------------------------------------------------------------------
At(w, pc) == task[w] # NoTask /\ task[w].pc = pc

(* The provider call raises.                                                *)
ProviderFails(w, retryable) ==
  /\ At(w, "running")
  /\ Step(w, IF retryable THEN "failing" ELSE "refused")
  /\ UNCHANGED <<row, next, base, broker, replay, ledger, crossed>>

(* complete_*_stage loads the file with its journal rows, unlocked; a stale *)
(* attempt is a PipelineIngestError, which is terminal.                     *)
CompleteRead(w) ==
  /\ At(w, "running")
  /\ IF task[w].attempt < row.count
     THEN Step(w, "refused")
     ELSE task' = [task EXCEPT ![w] = [@ EXCEPT !.pc = "completing", !.seen = row,
                                                !.seenNext = next]]
  /\ UNCHANGED <<row, next, base, broker, replay, ledger, crossed>>

(* _finalize_stage_success commits, unless the next stage's row it inserts  *)
(* is there already: then everything is rolled back and the stage fails.    *)
CompleteCommit(w) ==
  /\ At(w, "completing") /\ MayCommit({w})
  /\ IF next /\ ~task[w].seenNext
     THEN Step(w, "refused") /\ UNCHANGED <<row, next>>
     ELSE /\ row' = Flushed(task[w].seen,
                       [status |-> "succeeded", event |-> task[w].copy[1],
                        count |-> task[w].attempt, retryable |-> FALSE])
          /\ next' = TRUE
          /\ Step(w, "ack")
  /\ UNCHANGED <<base, broker, replay, ledger, crossed>>

(* mark_stage_failed reads the row without a lock too, and its session does *)
(* not flush before it commits (core/database.py, autoflush=False).         *)
Failing(w) == At(w, "failing") \/ At(w, "refused")

Loads(w) ==
  task' = [task EXCEPT ![w] = [@ EXCEPT !.seen = row]]

(* A stale attempt raises, which leaves the message unacknowledged ...      *)
FailRead(w) ==
  /\ Failing(w) /\ ~Open(w)
  /\ IF task[w].attempt < row.count THEN Finish(w) ELSE Loads(w)
  /\ UNCHANGED <<row, next, base, broker, replay, ledger, crossed>>

(* ... and any other is written when it commits.                            *)
FailCommit(w) ==
  /\ Failing(w) /\ Open(w) /\ MayCommit({w})
  /\ LET retryable == task[w].pc = "failing"
     IN /\ row' = Flushed(task[w].seen,
                     [status |-> "failed", event |-> task[w].copy[1],
                      count |-> task[w].attempt, retryable |-> retryable])
        /\ Step(w, IF retryable /\ task[w].attempt < MaxAttempts THEN "reject" ELSE "bury")
  /\ crossed' = (row # task[w].seen)
  /\ UNCHANGED <<next, base, broker, replay, ledger>>

-----------------------------------------------------------------------------
Ack(w) ==
  /\ At(w, "ack")
  /\ Answer(w, "gone")
  /\ Finish(w)
  /\ UNCHANGED <<row, next, base, replay, ledger, crossed>>

(* The duplicate's acknowledgement is inside the handler's try: when the    *)
(* channel is gone it raises, and the failure is booked on the stage.       *)
AckDuplicate(w) ==
  /\ At(w, "duplicate")
  /\ IF holds[w] = {}
     THEN Step(w, "failing") /\ UNCHANGED broker
     ELSE Answer(w, "gone") /\ Finish(w)
  /\ UNCHANGED <<row, next, base, replay, ledger, crossed>>

(* Mutant: the worker goes on holding what it rejected.                     *)
RejectAndHold(w) ==
  /\ At(w, "reject")
  /\ place' = [place EXCEPT ![task[w].copy] = "retry"]
  /\ Finish(w)
  /\ UNCHANGED <<row, next, base, deaths, holds, replay, ledger, crossed>>

Reject(w) ==
  /\ At(w, "reject")
  /\ Answer(w, "retry")
  /\ Finish(w)
  /\ UNCHANGED <<row, next, base, replay, ledger, crossed>>

Requeue(w) ==
  /\ At(w, "requeue")
  /\ Answer(w, "ready")
  /\ Finish(w)
  /\ UNCHANGED <<row, next, base, replay, ledger, crossed>>

(* Mutant: acknowledged whether or not the ledger could be written.         *)
BuryUnrecorded(w, recorded) ==
  /\ At(w, "bury")
  /\ ledger' = IF recorded THEN ledger \cup {task[w].copy[1]} ELSE ledger
  /\ Answer(w, "gone")
  /\ Finish(w)
  /\ UNCHANGED <<row, next, base, replay, crossed>>

(* _dead_letter_or_requeue: the acknowledgement waits for the ledger.       *)
Bury(w, recorded) ==
  /\ At(w, "bury")
  /\ IF recorded
     THEN ledger' = ledger \cup {task[w].copy[1]} /\ Answer(w, "gone")
     ELSE Answer(w, "ready") /\ UNCHANGED ledger
  /\ Finish(w)
  /\ UNCHANGED <<row, next, base, replay, crossed>>

(* Mutant: what was cancelled is acknowledged, failed though it is now.     *)
AbandonAndAck(w) ==
  /\ task[w] # NoTask /\ ~task[w].cancelled /\ MayCommit({w})
  /\ task' = [task EXCEPT ![w] = [@ EXCEPT !.pc = "ack", !.cancelled = TRUE,
                                       !.seen = NoRow, !.seenNext = FALSE]]
  /\ row' = IF row.event = task[w].copy[1] /\ row.status = "processing"
            THEN [row EXCEPT !.status = "failed", !.retryable = TRUE]
            ELSE row
  /\ UNCHANGED <<next, base, broker, replay, ledger, crossed>>

(* A shutdown cancels the handler; abandon_stage_processing chooses, under  *)
(* the row lock, what happens to the row and to the message.                *)
Abandon(w) ==
  /\ task[w] # NoTask /\ ~task[w].cancelled /\ MayCommit({w})
  /\ LET mine == row.event = task[w].copy[1] /\ task[w].attempt >= row.count
         dead == ~row.retryable \/ task[w].attempt >= MaxAttempts
         pc == CASE mine /\ row.status = "processing" -> "requeue"
                 [] mine /\ row.status = "failed" -> IF dead THEN "bury" ELSE "requeue"
                 [] mine /\ row.status = "pending" -> "requeue"
                 [] OTHER -> "ack"
     IN /\ task' = [task EXCEPT ![w] = [@ EXCEPT !.pc = pc, !.cancelled = TRUE,
                                       !.seen = NoRow, !.seenNext = FALSE]]
        /\ row' = IF mine /\ row.status = "processing"
                  THEN [row EXCEPT !.status = "failed", !.retryable = TRUE,
                                   !.count = task[w].attempt]
                  ELSE row
  /\ UNCHANGED <<next, base, broker, replay, ledger, crossed>>

(* The process dies: the broker requeues what its channel held.             *)
Crash(w) ==
  /\ task[w] # NoTask \/ holds[w] # {}
  /\ Finish(w)
  /\ place' = [c \in Copies |-> IF c \in holds[w] THEN "ready" ELSE place[c]]
  /\ holds' = [holds EXCEPT ![w] = {}]
  /\ UNCHANGED <<row, next, base, deaths, replay, ledger, crossed>>

(* Only the channel closes; the handler does not notice until it answers.   *)
ChannelCloses(w) ==
  /\ task[w] # NoTask /\ holds[w] # {}
  /\ place' = [c \in Copies |-> IF c \in holds[w] THEN "ready" ELSE place[c]]
  /\ holds' = [holds EXCEPT ![w] = {}]
  /\ UNCHANGED <<row, next, base, deaths, task, replay, ledger, crossed>>

-----------------------------------------------------------------------------
Reserve(new) ==
  /\ base' = [base EXCEPT ![NextEvent] = new.count]
  /\ row' = new
  /\ crossed' = FALSE

(* _reclaim_next_stuck_stage and, in the same transaction, replay_item.     *)
(* The row has not changed for minutes (at least one, fifteen by default),  *)
(* so no handler is between its read and its commit then.                   *)
Reclaim ==
  /\ row.status = "processing"
  /\ \A w \in Workers : ~Open(w)
  /\ MayCommit({})
  /\ IF row.count >= MaxAttempts
     THEN /\ row' = [row EXCEPT !.status = "failed", !.retryable = TRUE]
          /\ UNCHANGED <<base, crossed>>
     ELSE /\ NextEvent \in Events
          /\ Reserve([status |-> "pending", count |-> row.count + 1,
                      event |-> NextEvent, retryable |-> TRUE])
  /\ UNCHANGED <<next, broker, task, replay, ledger>>

(* replay_item for an operator: reads the row without a lock ...            *)
ReplayRead ==
  /\ replay = NoRow
  /\ row.status = "failed" /\ row.retryable
  /\ NextEvent \in Events
  /\ replay' = row
  /\ UNCHANGED <<row, next, base, broker, task, ledger, crossed>>

(* ... and reserves it, with a new event, when it commits.                  *)
ReplayCommit ==
  /\ replay # NoRow /\ \A v \in Workers : Open(v) => row = task[v].seen
  /\ NextEvent \in Events
  /\ Reserve(Flushed(replay, [status |-> "pending", count |-> replay.count + 1,
                              event |-> NextEvent, retryable |-> TRUE]))
  /\ replay' = NoRow
  /\ UNCHANGED <<next, broker, task, ledger>>

-----------------------------------------------------------------------------
Next ==
  \/ \E c \in Copies : Publish(c) \/ RetryExpires(c)
  \/ \E w \in Workers, c \in Copies : Deliver(w, c)
  \/ \E w \in Workers, b \in BOOLEAN : ProviderFails(w, b) \/ Bury(w, b)
  \/ \E w \in Workers :
       \/ CompleteRead(w) \/ CompleteCommit(w)
       \/ FailRead(w) \/ FailCommit(w)
       \/ Ack(w) \/ AckDuplicate(w) \/ Reject(w) \/ Requeue(w)
       \/ Abandon(w) \/ Crash(w)
  \/ Reclaim \/ ReplayRead \/ ReplayCommit

Spec == Init /\ [][Next]_vars

(* The same system when a connection may drop and reconnect.                *)
NextWithLoss == Next \/ \E w \in Workers : ChannelCloses(w)

LossySpec == Init /\ [][NextWithLoss]_vars

-----------------------------------------------------------------------------
Rows == [status : Statuses, count : Nat, event : Events, retryable : BOOLEAN]

Tasks ==
  [copy : Copies, attempt : Nat, cancelled : BOOLEAN,
   pc : {"running", "completing", "failing", "refused", "duplicate",
         "ack", "reject", "bury", "requeue"},
   seen : {NoRow} \cup Rows, seenNext : BOOLEAN]

(* The type of every variable, and the broker's view of who holds a copy.   *)
TypeOK ==
  /\ row \in Rows
  /\ next \in BOOLEAN
  /\ base \in [Events -> Nat]
  /\ place \in [Copies -> Places]
  /\ deaths \in [Copies -> Nat]
  /\ holds \in [Workers -> SUBSET Copies]
  /\ task \in [Workers -> {NoTask} \cup Tasks]
  /\ replay \in {NoRow} \cup Rows
  /\ ledger \subseteq Events
  /\ crossed \in BOOLEAN
  /\ \A c \in Copies : place[c] = "held" <=> \E w \in Workers : c \in holds[w]

(* A copy that is not on its way out: in the outbox, in a queue, or held    *)
(* without being about to be acknowledged.                                  *)
Unsettled(c) ==
  \/ place[c] = "unpublished" /\ c[1] \in Issued /\ c[2] = 1
  \/ place[c] \in {"ready", "retry"}
  \/ \E w \in Workers :
       /\ c \in holds[w]
       /\ task[w] # NoTask => task[w].pc \notin {"ack", "duplicate"}

(* ... and that is not behind the row: its next delivery will start.        *)
Usable(c) == Unsettled(c) /\ AttemptOf(c) >= row.count

(* Pending work is owned by a broker message or an outbox row: nothing      *)
(* else ever looks at a PENDING row, so without one it would wait for ever. *)
(* A stage that failed with attempts left is retried.                       *)
WaitingIsOwned ==
  \/ row.status = "pending"
  \/ row.status = "failed" /\ row.retryable /\ row.count < MaxAttempts
  => \E c \in Copies : Usable(c)

(* A terminal failure no replay has superseded is in the dead-letter        *)
(* ledger, or its message is still there to get it there.                   *)
TerminalIsRecorded ==
  row.status = "failed" /\ ~row.retryable /\ Issued = {1}
    => ledger # {} \/ \E c \in Copies : Unsettled(c)

(* No path through acknowledgement, rejection, requeue, dead letter,        *)
(* shutdown and redelivery loses the last message of work that is to be     *)
(* done, or a failure an operator is to see.  Two cases are exempt, and in  *)
(* both the code can lose it: a stage that has been handed on (next) and    *)
(* fails again for a late handler, where three workers are enough, and a    *)
(* failure written over a row that changed under it (crossed), which keeps  *)
(* the other event's number, so that a shutdown takes the failed handler's  *)
(* message for superseded and acknowledges it.                              *)
NothingIsLost == ~next /\ ~crossed => WaitingIsOwned /\ TerminalIsRecorded

(* attempt_count, which fences stale deliveries, never goes back.           *)
AttemptsNeverRegress == [][row'.count >= row.count]_vars
=============================================================================
