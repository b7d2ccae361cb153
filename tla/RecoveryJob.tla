---------------------------- MODULE RecoveryJob ----------------------------
(***************************************************************************)
(* Replay & Repair jobs: the admin service plans them (services/           *)
(* admin_recovery.py), the scheduler and the telegram worker dispatch,     *)
(* reconcile and cancel them (services/recovery_runtime.py), the relay and *)
(* the stage workers spend their budgets and settle their deliveries       *)
(* (messaging/rabbitmq_outbox.py, workers/pipeline_runtime/runtime.py,     *)
(* pipeline/replay.py, pipeline/stage_completion.py), and the dead-letter  *)
(* ledger follows them (services/pipeline_reliability.py).                 *)
(*                                                                         *)
(* Work is of two kinds: pipeline stages, replayed by an event that a      *)
(* worker consumes, and source posts, replayed inside the telegram worker. *)
(* A stage's events are numbered in the order they are minted; 0 stands    *)
(* for whatever the row last saw before the model starts.  An event has    *)
(* one broker copy here (StageDelivery has several) and one outbox row     *)
(* whose leases are in Outbox.  A version string is abstracted to what     *)
(* comparing it tells: whether a row or a letter it covers was written.    *)
(***************************************************************************)
EXTENDS Naturals, FiniteSets

CONSTANTS
  Jobs, Items, Works,
  NoItem,         \* NULL where an item is referenced
  NoRow,          \* no snapshot of a stage row was taken
  JobOf,          \* JobOf[i]: RecoveryJobItem.recovery_job_id
  ParentOf,       \* ParentOf[i]: parent_item_id, NoItem for a root
  WorkOf,         \* WorkOf[i]: the row behind work_kind and work_id
  Posts,          \* the works that are source posts; the others are stages
  PrerequisiteOf, \* PrerequisiteOf[w]: the stages w's stage needs succeeded
  Recovers,       \* the items whose action is RECOVER_DEAD_LETTER
  Acknowledged,   \* the jobs that carry the terminal_override acknowledgement
  RetryLimit,     \* RetryLimit[j]: RecoveryJob.retry_limit (1, 3 or 5)
  MaxAttempts,    \* settings.pipeline_broker_retry_max_attempts
  MaxEvents,      \* MaxEvents[w]: bound of the model, events minted for w
  Operated,       \* bound of the model: the stages operators replay as well
  MaxCrashes,     \* bound of the model: process losses
  MaxFailures,    \* MaxFailures[w]: bound of the model, failed publications
  Scenarios       \* bound of the model: the rows at the start, the jobs created

ASSUME RetryLimitAssumption == RetryLimit \in [Jobs -> Nat \ {0}]
ASSUME MaxAttemptsAssumption == MaxAttempts \in Nat \ {0}
ASSUME MaxEventsAssumption == MaxEvents \in [Works -> Nat]
ASSUME MaxCrashesAssumption == MaxCrashes \in Nat
ASSUME MaxFailuresAssumption == MaxFailures \in [Works -> Nat]
ASSUME NoItemAssumption == NoItem \notin Items
ASSUME PlanAssumption ==
  /\ JobOf \in [Items -> Jobs] /\ WorkOf \in [Items -> Works]
  /\ ParentOf \in [Items -> Items \cup {NoItem}]
  /\ Posts \subseteq Works /\ Recovers \subseteq Items
  /\ PrerequisiteOf \in [Works -> SUBSET Works]
  \* uq_recovery_job_items_target: a job has one item for a work.
  /\ \A i, k \in Items : JobOf[i] = JobOf[k] /\ WorkOf[i] = WorkOf[k] => i = k

VARIABLES
  job,            \* job[j]: RecoveryJob.status
  item,           \* item[i]: the RecoveryJobItem
  row,            \* row[w]: the stage's journal row or the post's row
  msg,            \* msg[w][e]: outbox row and broker copy of event e
  letter,         \* letter[w][e]: the dead letter of event e of stage w
  minted,         \* minted[w]: events minted for w
  raised,         \* raised[i]: a dispatch raised and was rolled back
  call,           \* call[i]: where the telegram worker's replay of i is
  admitted,       \* the jobs that were scheduled
  crashes,        \* process losses so far
  done            \* the events, and posts (event 0), whose work was done

broker == <<msg, minted>>
history == <<admitted, crashes, done>>
vars == <<job, item, row, msg, letter, minted, raised, call, admitted, crashes, done>>

-----------------------------------------------------------------------------
Waiting == {"queued", "waiting_dependency", "waiting_capacity"}
Active == Waiting \cup {"dispatched"}
Terminal == {"succeeded", "failed", "skipped_stale", "skipped_dependency", "cancelled"}

Admitting == {"queued", "running"}
Live == Admitting \cup {"cancelling"}
Settled == {"completed", "completed_with_failures", "cancelled", "expired"}

Events(w) == 1 .. MaxEvents[w]
Letters(w) == 0 .. MaxEvents[w]

ItemsOf(j) == {i \in Items : JobOf[i] = j}
OnWork(w) == {i \in Items : WorkOf[i] = w}
IsPost(i) == WorkOf[i] \in Posts

Larger(m, n) == IF m > n THEN m ELSE n
Less(m, n) == IF m > n THEN m - n ELSE 0

LimitOf(i) == RetryLimit[JobOf[i]]

(* The items that an event was dispatched for, finished ones included.      *)
Riders(w, e) == {i \in OnWork(w) : item[i].event = e}

(* Mutant: only what is dispatched owns its work.                           *)
OwnedWhenDispatched(i) ==
  \E k \in OnWork(WorkOf[i]) \ {i} : item[k].status = "dispatched"

(* Another active item of a live job on the same work (_load_active_job and *)
(* the partial unique indexes on reservation_active).                       *)
Owned(i) ==
  \E k \in OnWork(WorkOf[i]) \ {i} :
    \/ item[k].reserved
    \/ job[JobOf[k]] \in Live /\ item[k].status \in Active

(* _with_linked_dead_letter: the oldest open letter, if it is the row's.    *)
OpenLetters(w) == {e \in Letters(w) : letter[w][e].status \in {"unresolved", "recovery_queued"}}
Linked(w) ==
  {e \in OpenLetters(w) : e = row[w].event /\ \A f \in OpenLetters(w) : e <= f}

-----------------------------------------------------------------------------
(* What a write does to the versions that active items expect: fresh, the   *)
(* expected version is the one a dispatch would compute but for the letters *)
(* it links; seen, the version reconciliation last charged.                 *)
RowWritten(f, w) ==
  [k \in Items |-> IF WorkOf[k] = w /\ f[k].status \in Active
                   THEN [f[k] EXCEPT !.fresh = FALSE, !.seen = FALSE]
                   ELSE f[k]]
LettersWritten(f, w, E) ==
  [k \in Items |-> IF WorkOf[k] = w /\ f[k].status \in Active /\ E # {}
                   THEN [f[k] EXCEPT !.fresh = @ /\ f[k].links \cap E = {}]
                   ELSE f[k]]

(* _finish_item: a terminal status releases the reservation.  What the item *)
(* expected is never read again.                                           *)
Finished(r, s) == [r EXCEPT !.status = s, !.reserved = FALSE, !.fresh = FALSE,
                            !.seen = FALSE, !.links = {}, !.snap = NoRow]

(* _reconcile_jobs on one job, from the items as they are now.              *)
AllEnded(f, j) == \A i \in ItemsOf(j) : f[i].status \in Terminal
(* Mutant: stale and skipped steps do not count as failures.                *)
VerdictOnFailures(f, j, status) ==
  IF status = "cancelling" THEN "cancelled"
  ELSE IF \E i \in ItemsOf(j) : f[i].status = "failed" THEN "completed_with_failures"
  ELSE "completed"

Verdict(f, j, status) ==
  IF status = "cancelling" THEN "cancelled"
  ELSE IF \A i \in ItemsOf(j) : f[i].status \in {"succeeded", "cancelled"}
  THEN "completed"
  ELSE "completed_with_failures"

Recounted(f, j) ==
  IF job[j] \in Live /\ AllEnded(f, j)
  THEN [job EXCEPT ![j] = Verdict(f, j, @)] ELSE job

(* _resolve_linked_dead_letter, for the letters item i owns.                *)
LettersOf(i) == {e \in Letters(WorkOf[i]) : letter[WorkOf[i]][e].owner = i}
Resolved(i, ok) ==
  [letter EXCEPT ![WorkOf[i]] =
     [e \in Letters(WorkOf[i]) |->
        IF e \notin LettersOf(i) THEN @[e]
        ELSE IF ok THEN [status |-> "resolved", owner |-> i]
        ELSE [status |-> "unresolved", owner |-> NoItem]]]

(* An item ends inside a transaction that resolves and recounts.            *)
End(i, f, s) ==
  LET g == LettersWritten([f EXCEPT ![i] = Finished(@, s)], WorkOf[i], LettersOf(i))
  IN /\ item' = g
     /\ letter' = Resolved(i, s = "succeeded")
     /\ job' = Recounted(g, JobOf[i])

-----------------------------------------------------------------------------
NoLetter == [status |-> "none", owner |-> NoItem]
NewItem == [status |-> "none", reserved |-> FALSE, event |-> 0, start |-> 0,
            consumed |-> 0, pub |-> 0, fresh |-> TRUE, seen |-> FALSE,
            links |-> {}, snap |-> NoRow]

(* Rows the pipeline leaves behind when nothing is under way.               *)
SucceededRow == [status |-> "succeeded", retryable |-> FALSE, count |-> 1, event |-> 0]
FailedRow(retryable) ==
  [status |-> "failed", retryable |-> retryable, count |-> 1, event |-> 0]
RestingRows == {SucceededRow} \cup {FailedRow(retryable) : retryable \in BOOLEAN}

ASSUME ScenarioAssumption == Scenarios \subseteq [jobs : SUBSET Jobs, rows : [Works -> RestingRows]]

Init ==
  /\ \E s \in Scenarios :
       /\ row = s.rows
       /\ job = [j \in Jobs |-> IF j \in s.jobs THEN "none" ELSE "never"]
  /\ item = [i \in Items |-> NewItem]
  /\ msg = [w \in Works |-> [e \in Events(w) |->
              [outbox |-> "none", fails |-> 0, place |-> "none", attempt |-> 0]]]
  /\ letter = [w \in Works |-> [e \in Letters(w) |->
                 IF e = 0 /\ w \notin Posts /\ row[w].status = "failed"
                 THEN [status |-> "unresolved", owner |-> NoItem] ELSE NoLetter]]
  /\ minted = [w \in Works |-> 0]
  /\ raised = [i \in Items |-> "no"]
  /\ call = [i \in Items |-> "no"]
  /\ admitted = {}
  /\ crashes = 0
  /\ done = {}

-----------------------------------------------------------------------------
(* Planning.  get_candidate offers the action for i's work when the stage   *)
(* rests, its prerequisites succeeded and nobody else owns it; a recovery   *)
(* needs the dead letter that matches the row, a post a retryable failure.  *)
Available(i) ==
  /\ ~Owned(i)
  /\ IF IsPost(i) THEN row[WorkOf[i]].status = "failed" /\ row[WorkOf[i]].retryable
     ELSE /\ row[WorkOf[i]].status \in {"failed", "succeeded"}
          /\ \A p \in PrerequisiteOf[WorkOf[i]] : row[p].status = "succeeded"
          /\ \/ row[WorkOf[i]].status = "succeeded" \/ row[WorkOf[i]].retryable
             \/ JobOf[i] \in Acknowledged
          /\ i \in Recovers => Linked(WorkOf[i]) # {}

(* _build_execution_items for a dependent stage.                            *)
Plannable(i) ==
  /\ ~Owned(i)
  /\ row[WorkOf[i]].status \notin {"pending", "processing"}
  /\ row[WorkOf[i]].status = "failed" /\ ~row[WorkOf[i]].retryable
       => JobOf[i] \in Acknowledged

Eligible(j) ==
  \A i \in ItemsOf(j) : IF ParentOf[i] = NoItem THEN Available(i) ELSE Plannable(i)

(* A root expects the version get_candidate showed, with its letter; a      *)
(* dependent step expects its row's version alone.                          *)
Planned(i, reserve) ==
  [NewItem EXCEPT !.status = IF ParentOf[i] = NoItem THEN "queued" ELSE "waiting_dependency",
                  !.reserved = reserve,
                  !.links = IF ParentOf[i] = NoItem THEN Linked(WorkOf[i]) ELSE {}]

Create(j, status) ==
  /\ job[j] = "none"
  /\ Eligible(j)
  /\ job' = [job EXCEPT ![j] = status]
  /\ item' = [i \in Items |->
                IF i \in ItemsOf(j) THEN Planned(i, status = "queued") ELSE item[i]]
  /\ admitted' = IF status = "queued" THEN admitted \cup {j} ELSE admitted
  /\ UNCHANGED <<row, broker, letter, raised, call, crashes, done>>

(* preview_batch stores the plan; perform_action schedules it at once.      *)
Preview(j) == Create(j, "preview")
Perform(j) == Create(j, "queued")

(* schedule_batch revalidates every root and rebuilds every step.           *)
Schedule(j) ==
  /\ job[j] = "preview"
  /\ Eligible(j)
  /\ \A i \in ItemsOf(j) : item[i].fresh /\ item[i].links = Planned(i, TRUE).links
  /\ job' = [job EXCEPT ![j] = "queued"]
  /\ item' = [i \in Items |->
                IF i \in ItemsOf(j) THEN [item[i] EXCEPT !.reserved = TRUE] ELSE item[i]]
  /\ admitted' = admitted \cup {j}
  /\ UNCHANGED <<row, broker, letter, raised, call, crashes, done>>

(* A preview older than its time to live is found when it is scheduled.     *)
Expire(j) ==
  /\ job[j] = "preview"
  /\ job' = [job EXCEPT ![j] = "expired"]
  /\ UNCHANGED <<item, row, broker, letter, raised, call, history>>

(* cancel_batch: what waits is cancelled, what is dispatched is awaited.    *)
Cancel(j) ==
  /\ job[j] \in Live \cup {"preview"}
  /\ item' = [i \in Items |->
                IF i \in ItemsOf(j) /\ item[i].status \in Waiting
                THEN Finished(item[i], "cancelled") ELSE item[i]]
  /\ job' = [job EXCEPT ![j] =
               IF \E i \in ItemsOf(j) : item[i].status = "dispatched"
               THEN "cancelling" ELSE "cancelled"]
  /\ UNCHANGED <<row, broker, letter, raised, call, history>>

-----------------------------------------------------------------------------
(* Dispatch.  _claim_next_item locks the job, then the item; a post whose   *)
(* telegram worker was lost is claimed again once its dispatch is stale.    *)
Claimable(i) ==
  /\ job[JobOf[i]] \in Admitting
  /\ raised[i] = "no" /\ call[i] = "no"
  /\ \/ /\ item[i].status \in Waiting
        /\ ParentOf[i] # NoItem => item[ParentOf[i]].status = "succeeded"
     \/ item[i].status = "dispatched" /\ IsPost(i)

Claimed(i) == [job EXCEPT ![JobOf[i]] = IF @ = "queued" THEN "running" ELSE @]

(* _validate_claimed_item and _lock_recovery_dead_letter.                   *)
Valid(i) ==
  /\ Available(i)
  /\ item[i].fresh
  /\ item[i].links = Linked(WorkOf[i])
  /\ i \in Recovers => \A e \in Linked(WorkOf[i]) :
       letter[WorkOf[i]][e].status = "unresolved" \/ letter[WorkOf[i]][e].owner = i

(* The item is finished without a look at its letter or at its job.         *)
DispatchStale(i) ==
  /\ Claimable(i) /\ ~Valid(i)
  /\ job' = Claimed(i)
  /\ item' = [item EXCEPT ![i] = Finished(@, "skipped_stale")]
  /\ UNCHANGED <<row, broker, letter, raised, call, history>>

(* The stage's backlog gate is closed, or storage cannot be asked.          *)
DispatchWaits(i) ==
  /\ Claimable(i) /\ Valid(i)
  /\ job' = Claimed(i)
  /\ item' = [item EXCEPT ![i].status = "waiting_capacity"]
  /\ UNCHANGED <<row, broker, letter, raised, call, history>>

(* Minting an event for stage w with reserve_replay and its outbox row.     *)
Mint(w) ==
  /\ minted[w] < MaxEvents[w]
  /\ minted' = [minted EXCEPT ![w] = @ + 1]
  /\ msg' = [msg EXCEPT ![w][minted[w] + 1] =
               [outbox |-> "pending", fails |-> 0, place |-> "none",
                attempt |-> row[w].count + 1]]
  /\ row' = [row EXCEPT ![w] = [status |-> "pending", retryable |-> TRUE,
                                count |-> @.count + 1, event |-> minted[w] + 1]]

(* Mutant: the row is reserved without a snapshot of what it was.           *)
NoSnapshot(w) == NoRow
Snapshot(w) == row[w]

(* _replay_admin_stage, or _recover_dead_letter which takes the letter too: *)
(* snapshot, event, outbox row and attachment commit together.              *)
Dispatch(i) ==
  LET w == WorkOf[i]
      taken == IF i \in Recovers THEN Linked(w) ELSE {}
  IN /\ ~IsPost(i) /\ Claimable(i) /\ Valid(i)
     /\ Mint(w)
     /\ letter' = [letter EXCEPT ![w] = [e \in Letters(w) |->
          IF e \in taken THEN [status |-> "recovery_queued", owner |-> i] ELSE @[e]]]
     /\ item' = [RowWritten(item, w) EXCEPT ![i] =
          [@ EXCEPT !.status = "dispatched", !.reserved = TRUE,
                    !.event = minted[w] + 1, !.snap = Snapshot(w),
                    !.pub = 0,
                    !.start = IF item[i].start = 0 THEN row[w].count + 1 ELSE item[i].start]]
     /\ job' = Claimed(i)
     /\ UNCHANGED <<raised, call, history>>

(* A source post's item is DISPATCHED and committed before the replay runs  *)
(* inside the telegram worker; there is no event.  Workers replay items     *)
(* side by side.  Bound of the model (call[i] = "no" in Claimable): a replay*)
(* has ended when its item is claimed again fifteen minutes later, whatever *)
(* that worker is doing; its calls to Telegram are limited to 30 and 120    *)
(* seconds by default (core/config.py:325-326).                             *)
BeginReplay(i) ==
  /\ IsPost(i) /\ Claimable(i) /\ Valid(i)
  /\ job' = Claimed(i)
  /\ item' = [item EXCEPT ![i] = [@ EXCEPT !.status = "dispatched", !.seen = TRUE]]
  /\ call' = [call EXCEPT ![i] = "fetching"]
  /\ UNCHANGED <<row, broker, letter, raised, history>>

(* Anything in a stage's dispatch raises: the transaction rolls back, and a *)
(* new one will record the failure.                                         *)
DispatchRaises(i, how) ==
  /\ ~IsPost(i) /\ Claimable(i) /\ Valid(i)
  /\ raised' = [raised EXCEPT ![i] = how]
  /\ UNCHANGED <<job, item, row, broker, letter, call, history>>

(* What get_work lists: failed rows, with whichever letter is the row's.    *)
Listed(w) == row[w].status = "failed"
ListedLinks(w) == {e \in OpenLetters(w) : e = row[w].event}

(* _record_dispatch_failure reads the item again in its own session.        *)
RecordFailure(i) ==
  LET r == [item[i] EXCEPT !.consumed = @ + (IF raised[i] = "retryable" THEN 1 ELSE 0)]
      w == WorkOf[i]
      f == [item EXCEPT ![i] = r]
  IN /\ raised[i] # "no"
     /\ raised' = [raised EXCEPT ![i] = "no"]
     /\ IF item[i].status \in Terminal
        THEN UNCHANGED <<job, item, letter>>
        ELSE IF raised[i] = "retryable" /\ r.consumed < LimitOf(i) /\ job[JobOf[i]] \in Admitting
        THEN IF Listed(w)
             THEN /\ item' = [f EXCEPT ![i] = [r EXCEPT
                        !.status = "queued", !.event = 0, !.fresh = TRUE, !.seen = TRUE,
                        !.links = ListedLinks(w)]]
                  /\ UNCHANGED <<job, letter>>
             ELSE LET g == [f EXCEPT ![i] = Finished(r, "skipped_stale")]
                  IN item' = g /\ job' = Recounted(g, JobOf[i]) /\ UNCHANGED letter
        ELSE End(i, f, "failed")
     /\ UNCHANGED <<row, broker, call, history>>

-----------------------------------------------------------------------------
(* The replay of a source post (TelegramCrawlerRuntime.replay_post).        *)
Step(i, pc) == call' = [call EXCEPT ![i] = pc]
Raise(i, how) == Step(i, "no") /\ raised' = [raised EXCEPT ![i] = how]

SetPost(i, status, retryable) ==
  /\ row' = [row EXCEPT ![WorkOf[i]] = [@ EXCEPT !.status = status, !.retryable = retryable]]
  /\ item' = RowWritten(item, WorkOf[i])

(* The message cannot be fetched: nothing was written.                      *)
FetchFails(i) ==
  /\ call[i] = "fetching"
  /\ Raise(i, "retryable")
  /\ UNCHANGED <<job, item, row, broker, letter, history>>

(* _observe_post commits OBSERVED before the media is downloaded.           *)
Observe(i) ==
  /\ call[i] = "fetching"
  /\ SetPost(i, "observed", FALSE)
  /\ Step(i, "observed")
  /\ UNCHANGED <<job, broker, letter, raised, history>>

(* A telegram error, or a channel paused meanwhile, marks the post failed.  *)
ReplayFails(i) ==
  /\ call[i] = "observed"
  /\ SetPost(i, "failed", TRUE)
  /\ Raise(i, "retryable")
  /\ UNCHANGED <<job, broker, letter, history>>

(* A message without media raises a retryable error, one that ingest        *)
(* refuses a terminal one.                                                  *)
ReplayUnsupported(i, how) ==
  /\ call[i] = "observed"
  /\ SetPost(i, "unsupported", FALSE)
  /\ Raise(i, how)
  /\ UNCHANGED <<job, broker, letter, history>>

(* Any other error of ingest leaves the post observed.                      *)
ReplayBreaks(i) ==
  /\ call[i] = "observed"
  /\ Raise(i, "retryable")
  /\ UNCHANGED <<job, item, row, broker, letter, history>>

ReplayAccepts(i) ==
  /\ call[i] = "observed"
  /\ SetPost(i, "accepted", FALSE)
  /\ Step(i, "accepted")
  /\ done' = done \cup {<<WorkOf[i], 0>>}
  /\ UNCHANGED <<job, broker, letter, raised, crashes, admitted>>

(* Mutant: the completion session does not look at the item's status.       *)
CompletePostBlindly(i) ==
  /\ call[i] = "accepted"
  /\ Step(i, "no")
  /\ End(i, item, "succeeded")
  /\ UNCHANGED <<row, broker, raised, history>>

(* The completion session finishes the item if it is still DISPATCHED.      *)
CompletePost(i) ==
  /\ call[i] = "accepted"
  /\ Step(i, "no")
  /\ IF item[i].status = "dispatched" THEN End(i, item, "succeeded")
     ELSE UNCHANGED <<job, item, letter>>
  /\ UNCHANGED <<row, broker, raised, history>>

-----------------------------------------------------------------------------
(* Publication.  The relay's outcome and what it charges to the item are    *)
(* one transaction; the publish before it may be accepted and still raise.  *)
PublishLimit(w, e) ==
  IF Riders(w, e) = {} THEN MaxAttempts
  ELSE LET i == CHOOSE k \in Riders(w, e) : TRUE
       IN Less(LimitOf(i), Less(item[i].consumed, item[i].pub))

Publishable(w, e) ==
  \/ msg[w][e].outbox = "pending" /\ (Riders(w, e) = {} \/ PublishLimit(w, e) > 0)
  \/ msg[w][e].outbox = "failed" /\ msg[w][e].fails < PublishLimit(w, e)

(* observe_recovery_stage_publication_outcome: n failed publications so far *)
(* are added to what the workers consumed.                                  *)
Observed(r, n) ==
  [r EXCEPT !.pub = Larger(@, n),
            !.consumed = Larger(@, Larger(r.pub, n) + Less(r.consumed, r.pub))]

Charge(w, e, n) ==
  item' = [k \in Items |-> IF k \in Riders(w, e) THEN Observed(item[k], n) ELSE item[k]]

Outcome(w, e, outbox, fails, accepted) ==
  /\ msg' = [msg EXCEPT ![w][e] =
       [@ EXCEPT !.outbox = outbox, !.fails = fails,
                 !.place = IF accepted /\ msg[w][e].place = "none" THEN "ready"
                           ELSE msg[w][e].place]]
  /\ UNCHANGED <<job, row, letter, minted, raised, call, history>>

Publish(w, e) ==
  /\ Publishable(w, e)
  /\ Outcome(w, e, "published", msg[w][e].fails, TRUE)
  /\ Charge(w, e, msg[w][e].fails)

PublishFails(w, e, accepted) ==
  /\ Publishable(w, e) /\ msg[w][e].fails < MaxFailures[w]
  /\ Outcome(w, e, "failed", msg[w][e].fails + 1, accepted)
  /\ Charge(w, e, msg[w][e].fails + 1)

-----------------------------------------------------------------------------
(* The stage worker that holds the copy of event e.                         *)
Move(w, e, place) == msg' = [msg EXCEPT ![w][e].place = place]
IsCurrent(w, e) == msg[w][e].attempt >= row[w].count

SetRow(w, e, status, retryable) ==
  row' = [row EXCEPT ![w] = [status |-> status, retryable |-> retryable,
                             count |-> msg[w][e].attempt, event |-> e]]

Deliver(w, e) ==
  /\ msg[w][e].place = "ready"
  /\ IF row[w].event = e /\ row[w].status \in {"processing", "succeeded"}
     THEN Move(w, e, "gone") /\ UNCHANGED <<row, item>>
     ELSE IF ~IsCurrent(w, e)
     THEN Move(w, e, "stuck") /\ UNCHANGED <<row, item>>
     ELSE /\ Move(w, e, "running")
          /\ SetRow(w, e, "processing", TRUE)
          /\ item' = RowWritten(item, w)
  /\ UNCHANGED <<job, letter, minted, raised, call, history>>

(* A handler whose attempt was superseded raises twice and is never acked.  *)
Superseded(w, e) ==
  /\ msg[w][e].place = "running" /\ ~IsCurrent(w, e)
  /\ Move(w, e, "stuck")
  /\ UNCHANGED <<job, item, row, letter, minted, raised, call, history>>

(* _finalize_stage_success; the rows of the next stages are there already.  *)
Complete(w, e) ==
  /\ msg[w][e].place = "running" /\ IsCurrent(w, e)
  /\ SetRow(w, e, "succeeded", FALSE)
  /\ item' = RowWritten(item, w)
  /\ Move(w, e, "gone")
  /\ done' = done \cup {<<w, e>>}
  /\ UNCHANGED <<job, letter, minted, raised, call, crashes, admitted>>

(* _apply_stage_failure: a retryable failure is charged by absolute attempt.*)
Charged(r, attempt) ==
  LET start == IF r.start = 0 THEN attempt ELSE r.start
  IN [r EXCEPT !.start = start,
               !.consumed = Larger(@, Less(r.pub + attempt + 1, start))]

MarkFailed(w, e, retryable) ==
  /\ msg[w][e].place = "running" /\ IsCurrent(w, e)
  /\ SetRow(w, e, "failed", retryable)
  /\ item' = RowWritten([k \in Items |->
       IF retryable /\ k \in Riders(w, e) THEN Charged(item[k], msg[w][e].attempt)
       ELSE item[k]], w)
  /\ Move(w, e, IF retryable THEN "failing" ELSE "refused")
  /\ UNCHANGED <<job, letter, minted, raised, call, history>>

(* record_pipeline_dead_letter: an upsert that reopens a resolved letter.   *)
Buried(w, e) ==
  [letter EXCEPT ![w][e] = IF @.status \in {"none", "resolved"}
                           THEN [status |-> "unresolved", owner |-> NoItem] ELSE @]

Bury(w, e) ==
  /\ Move(w, e, "gone")
  /\ letter' = Buried(w, e)
  /\ item' = LettersWritten(item, w, {e})

(* _finalize_failure_for_cancelling_recovery.                               *)
Cancelling(w, e) == {i \in Riders(w, e) : job[JobOf[i]] = "cancelling"
                                          /\ item[i].status # "succeeded"}
FinishCancelled(w, e) ==
  /\ msg[w][e].place \in {"failing", "refused"}
  /\ Cancelling(w, e) # {}
  /\ item' = [k \in Items |->
       IF k \in Cancelling(w, e) /\ item[k].status = "dispatched"
       THEN Finished(item[k], "failed") ELSE item[k]]
  /\ Move(w, e, "gone")
  /\ UNCHANGED <<job, row, letter, minted, raised, call, history>>

(* _recovery_retry_attempt_ceiling.                                         *)
WorkerLimit(w, e) ==
  IF Riders(w, e) = {} THEN MaxAttempts
  ELSE LET i == CHOOSE k \in Riders(w, e) : TRUE
       IN item[i].start + Larger(Less(LimitOf(i), item[i].pub), 1) - 1

Answer(w, e) ==
  /\ msg[w][e].place \in {"failing", "refused"}
  /\ Cancelling(w, e) = {}
  /\ IF msg[w][e].place = "failing" /\ msg[w][e].attempt < WorkerLimit(w, e)
     THEN Move(w, e, "retry") /\ UNCHANGED <<letter, item>>
     ELSE Bury(w, e)
  /\ UNCHANGED <<job, row, minted, raised, call, history>>

RetryExpires(w, e) ==
  /\ msg[w][e].place = "retry"
  /\ msg' = [msg EXCEPT ![w][e] =
       [@ EXCEPT !.place = "ready", !.attempt = msg[w][e].attempt + 1]]
  /\ UNCHANGED <<job, item, row, letter, minted, raised, call, history>>

(* A worker that shuts down gives its delivery back without a charge; the   *)
(* row it may have lost to the reclaimer decides otherwise.                 *)
Abandon(w, e) ==
  /\ msg[w][e].place = "running"
  /\ crashes < MaxCrashes /\ crashes' = crashes + 1
  /\ IF row[w].event # e \/ ~IsCurrent(w, e) \/ row[w].status = "succeeded"
     THEN Move(w, e, "gone") /\ UNCHANGED <<row, item, letter>>
     ELSE IF row[w].status = "processing"
     THEN /\ SetRow(w, e, "failed", TRUE)
          /\ item' = RowWritten(item, w)
          /\ Move(w, e, "ready")
          /\ UNCHANGED letter
     ELSE IF row[w].status = "failed"
             /\ (~row[w].retryable \/ msg[w][e].attempt >= MaxAttempts)
     THEN Bury(w, e) /\ UNCHANGED row
     ELSE Move(w, e, "ready") /\ UNCHANGED <<row, item, letter>>
  /\ UNCHANGED <<job, minted, raised, call, done, admitted>>

(* A worker's connection is lost with its delivery.                         *)
WorkerCrash(w, e) ==
  /\ msg[w][e].place \in {"running", "failing", "refused", "stuck"}
  /\ crashes < MaxCrashes /\ crashes' = crashes + 1
  /\ Move(w, e, "ready")
  /\ UNCHANGED <<job, item, row, letter, minted, raised, call, done, admitted>>

(* The scheduler, or the telegram worker, is lost with what it was doing.   *)
DispatcherCrash(i) ==
  /\ raised[i] # "no" \/ call[i] # "no"
  /\ crashes < MaxCrashes /\ crashes' = crashes + 1
  /\ raised' = [raised EXCEPT ![i] = "no"]
  /\ Step(i, "no")
  /\ UNCHANGED <<job, item, row, broker, letter, done, admitted>>

-----------------------------------------------------------------------------
(* Replays that no item asked for.  replay_item reserves a retryable row    *)
(* and looks at no reservation of a job.                                    *)
OperatorReplay(w) ==
  /\ w \in Operated \ Posts /\ \E i \in OnWork(w) : job[JobOf[i]] \notin {"none", "never"}
  /\ row[w].status = "failed" /\ row[w].retryable
  /\ Mint(w)
  /\ item' = RowWritten(item, w)
  /\ UNCHANGED <<job, letter, raised, call, history>>

(* _reclaim_next_stuck_stage: a lease is stale at once here.  At the        *)
(* attempt limit the row only fails; else the linked item moves along.      *)
ReclaimAtLimit(w) ==
  /\ w \notin Posts /\ row[w].status = "processing"
  /\ row[w].count >= MaxAttempts
  /\ row' = [row EXCEPT ![w] = [@ EXCEPT !.status = "failed", !.retryable = TRUE]]
  /\ item' = RowWritten(item, w)
  /\ UNCHANGED <<job, broker, letter, raised, call, history>>

Reclaim(w) ==
  /\ w \notin Posts /\ row[w].status = "processing"
  /\ row[w].count < MaxAttempts
  /\ Mint(w)
  /\ item' = [k \in Items |->
       IF k \in Riders(w, row[w].event) /\ item[k].status = "dispatched"
       THEN [RowWritten(item, w)[k] EXCEPT !.event = minted[w] + 1]
       ELSE RowWritten(item, w)[k]]
  /\ UNCHANGED <<job, letter, raised, call, history>>

-----------------------------------------------------------------------------
(* Reconciliation.  An item is looked at while it is DISPATCHED and its job *)
(* live, under both locks, together with the recount of its job.            *)
(* Mutant: the jobs being cancelled are left out.                           *)
ReconcilableUnlessCancelling(i) ==
  job[JobOf[i]] \in Admitting /\ item[i].status = "dispatched"

Reconcilable(i) == job[JobOf[i]] \in Live /\ item[i].status = "dispatched"

(* Mutant: the row is not checked to be the untouched reservation.          *)
ExhaustedByTheOutbox(i) ==
  /\ ~IsPost(i)
  /\ msg[WorkOf[i]][item[i].event].outbox = "failed"
  /\ item[i].consumed >= LimitOf(i)

(* _reconcile_exhausted_stage_dispatch_outbox restores an untouched row.    *)
Exhausted(i) ==
  LET w == WorkOf[i] IN
  /\ ~IsPost(i)
  /\ msg[w][item[i].event].outbox = "failed"
  /\ item[i].consumed >= LimitOf(i)
  /\ row[w].event = item[i].event /\ row[w].status = "pending"

ReconcileExhausted(i) ==
  /\ Reconcilable(i) /\ Exhausted(i)
  /\ row' = [row EXCEPT ![WorkOf[i]] = item[i].snap]
  /\ End(i, RowWritten(item, WorkOf[i]), "failed")
  /\ UNCHANGED <<broker, raised, call, history>>

(* _reconcile_item: the outcome of an item, from the row its work has now.  *)
PostOutcome(i) ==
  LET r == row[WorkOf[i]] IN
  IF r.status = "accepted" THEN "succeeded"
  ELSE IF r.status \in {"failed", "unsupported"} /\ ~r.retryable THEN "failed"
  ELSE "none"

(* Mutant: the status is read before the event that left it.                *)
StageOutcomeOfAnyEvent(i) ==
  LET r == row[WorkOf[i]] IN
  IF r.status = "succeeded" THEN "succeeded"
  ELSE IF r.event # item[i].event THEN "skipped_stale"
  ELSE IF r.status = "failed" /\ (~r.retryable \/ item[i].consumed >= LimitOf(i))
  THEN "failed"
  ELSE "none"

StageOutcome(i) ==
  LET r == row[WorkOf[i]] IN
  IF r.event # item[i].event THEN "skipped_stale"
  ELSE IF r.status = "succeeded" THEN "succeeded"
  ELSE IF r.status = "failed" /\ (~r.retryable \/ item[i].consumed >= LimitOf(i))
  THEN "failed"
  ELSE "none"

OutcomeOf(i) == IF IsPost(i) THEN PostOutcome(i) ELSE StageOutcome(i)

Reconcile(i) ==
  /\ Reconcilable(i) /\ ~Exhausted(i)
  /\ OutcomeOf(i) # "none"
  /\ End(i, item, OutcomeOf(i))
  /\ UNCHANGED <<row, broker, raised, call, history>>

(* _requeue_async_failure: a retryable failure of a post is charged if the  *)
(* post's version moved since it was last looked at.                        *)
RequeuePost(i) ==
  LET r == [item[i] EXCEPT !.consumed = @ + (IF item[i].seen THEN 0 ELSE 1), !.seen = TRUE]
      again == r.consumed < LimitOf(i) /\ job[JobOf[i]] \in Admitting
  IN /\ Reconcilable(i) /\ IsPost(i)
     /\ row[WorkOf[i]].status = "failed" /\ row[WorkOf[i]].retryable
     /\ IF again
        THEN /\ item' = [item EXCEPT ![i] = [r EXCEPT !.status = "queued", !.fresh = TRUE]]
             /\ UNCHANGED <<job, letter>>
        ELSE End(i, [item EXCEPT ![i] = r], "failed")
     /\ UNCHANGED <<row, broker, raised, call, history>>

(* _skip_failed_dependencies.                                               *)
SkipDependent(i) ==
  /\ job[JobOf[i]] \in Live
  /\ item[i].status = "waiting_dependency"
  /\ item[ParentOf[i]].status \in Terminal \ {"succeeded"}
  /\ LET f == [item EXCEPT ![i] = Finished(@, "skipped_dependency")]
     IN item' = f /\ job' = Recounted(f, JobOf[i])
  /\ UNCHANGED <<row, broker, letter, raised, call, history>>

(* The recount that ends each turn picks the live jobs, then locks them by  *)
(* id alone: between the two a job may settle and is judged again.          *)
RecountJob(j) ==
  /\ j \in admitted /\ AllEnded(item, j)
  /\ job' = [job EXCEPT ![j] = Verdict(item, j, @)]
  /\ UNCHANGED <<item, row, broker, letter, raised, call, history>>

-----------------------------------------------------------------------------
Plan(j) == Preview(j) \/ Perform(j) \/ Schedule(j) \/ Expire(j) \/ Cancel(j)

DispatchTurn(i) ==
  \/ DispatchStale(i) \/ DispatchWaits(i) \/ Dispatch(i) \/ BeginReplay(i)
  \/ \E how \in {"retryable", "terminal"} : DispatchRaises(i, how)

Replay(i) ==
  \/ FetchFails(i) \/ Observe(i)
  \/ ReplayFails(i) \/ ReplayBreaks(i) \/ ReplayAccepts(i)
  \/ \E how \in {"retryable", "terminal"} : ReplayUnsupported(i, how)
  \/ CompletePost(i)

Relay(w, e) ==
  Publish(w, e) \/ \E accepted \in BOOLEAN : PublishFails(w, e, accepted)

Run(w, e) ==
  \/ Superseded(w, e) \/ Complete(w, e)
  \/ \E retryable \in BOOLEAN : MarkFailed(w, e, retryable)

ReconcileTurn(i) ==
  ReconcileExhausted(i) \/ Reconcile(i) \/ RequeuePost(i) \/ SkipDependent(i)

Next ==
  \/ \E j \in Jobs : Plan(j) \/ RecountJob(j)
  \/ \E i \in Items : \/ DispatchTurn(i) \/ RecordFailure(i) \/ Replay(i)
                     \/ ReconcileTurn(i) \/ DispatcherCrash(i)
  \/ \E w \in Works : OperatorReplay(w) \/ ReclaimAtLimit(w) \/ Reclaim(w)
  \/ \E w \in Works : \E e \in Events(w) :
       \/ Relay(w, e) \/ Deliver(w, e) \/ Run(w, e)
       \/ FinishCancelled(w, e) \/ Answer(w, e) \/ RetryExpires(w, e)
       \/ Abandon(w, e) \/ WorkerCrash(w, e)

Spec == Init /\ [][Next]_vars

-----------------------------------------------------------------------------
(* Fairness: the scheduler and the telegram worker turn for ever, the relay *)
(* and the workers are restarted when they stop, a lease that is left       *)
(* expires.  No admin, operator or crash need ever act.                     *)
WorkerTurn(w, e) ==
  Deliver(w, e) \/ Run(w, e) \/ FinishCancelled(w, e) \/ Answer(w, e) \/ RetryExpires(w, e)

FairSpec ==
  /\ Spec
  /\ \A w \in Works :
       /\ WF_vars(ReclaimAtLimit(w) \/ Reclaim(w))
       /\ \A e \in Events(w) : WF_vars(Relay(w, e)) /\ WF_vars(WorkerTurn(w, e))
  /\ \A i \in Items : WF_vars(Replay(i) \/ RecordFailure(i)) /\ WF_vars(ReconcileTurn(i))
  /\ \A j \in Jobs : WF_vars(job[j] \in Live /\ RecountJob(j))

-----------------------------------------------------------------------------
Places == {"none", "ready", "running", "failing", "refused", "retry", "stuck", "gone"}
RowType == [status : {"pending", "processing", "succeeded", "failed",
                      "observed", "accepted", "unsupported"},
            retryable : BOOLEAN, count : Nat, event : Nat]

(* The values the tables, the queue and the processes can hold.             *)
TypeOK ==
  /\ job \in [Jobs -> {"never", "none", "preview"} \cup Live \cup Settled]
  /\ item \in [Items -> [status : {"none"} \cup Active \cup Terminal, reserved : BOOLEAN,
                         event : Nat, start : Nat, consumed : Nat, pub : Nat,
                         fresh : BOOLEAN, seen : BOOLEAN,
                         links : SUBSET Nat, snap : RowType \cup {NoRow}]]
  /\ row \in [Works -> RowType]
  /\ minted \in [Works -> Nat]
  /\ \A w \in Works :
       /\ msg[w] \in [Events(w) -> [outbox : {"none", "pending", "published", "failed"},
                                    fails : Nat, place : Places, attempt : Nat]]
       /\ letter[w] \in [Letters(w) ->
            [status : {"none", "unresolved", "recovery_queued", "resolved"},
             owner : Items \cup {NoItem}]]
       /\ minted[w] <= MaxEvents[w]
  /\ raised \in [Items -> {"no", "retryable", "terminal"}]
  /\ call \in [Items -> {"no", "fetching", "observed", "accepted"}]
  /\ admitted \subseteq Jobs /\ crashes \in 0 .. MaxCrashes

(* One job at a time works on a row: an item of a live job holds the        *)
(* reservation until it ends, through retries, reclaims and cancellation,   *)
(* no two items hold one work, and an ended or unscheduled item holds none  *)
(* (the partial unique indexes on reservation_active).                      *)
OneOwner ==
  /\ \A i \in Items :
       item[i].reserved <=> job[JobOf[i]] \in Live /\ item[i].status \in Active
  /\ \A i, k \in Items :
       i # k /\ WorkOf[i] = WorkOf[k] => ~(item[i].reserved /\ item[k].reserved)

(* A succeeded item stands for work that was done for it: the handler of    *)
(* the event it was dispatched with (or reclaimed into) committed, or the   *)
(* post was accepted; a dependent step was dispatched only after its        *)
(* parent's work was done; and a dead letter is resolved only by an item    *)
(* that succeeded (_reconcile_item, _reclaim_next_stuck_stage,              *)
(* _resolve_linked_dead_letter).                                            *)
(* A settled job's status tells what became of its items: nothing of it is  *)
(* under way, "completed" hides no failure and no skipped step, "cancelled" *)
(* waited for what was dispatched (_reconcile_jobs, cancel_batch).          *)
WorkDone(i) == <<WorkOf[i], item[i].event>> \in done

ReportIsTrue ==
  /\ \A j \in Jobs : job[j] \in Settled \ {"expired"} =>
       /\ \A i \in ItemsOf(j) : item[i].status \in Terminal
       /\ job[j] = "completed" =>
            \A i \in ItemsOf(j) : item[i].status \in {"succeeded", "cancelled"}
       /\ job[j] = "completed_with_failures" =>
            \E i \in ItemsOf(j) : item[i].status \notin {"succeeded", "cancelled"}
  /\ \A i \in Items :
       /\ item[i].status = "succeeded" => WorkDone(i)
       /\ item[i].event # 0 /\ ParentOf[i] # NoItem => WorkDone(ParentOf[i])
  /\ \A w \in Works : \A e \in Letters(w) :
       letter[w][e].status = "resolved" => item[letter[w][e].owner].status = "succeeded"

(* Another event of the same stage took the row: an operator's replay,      *)
(* which no reservation keeps away, or a copy that an item before this one  *)
(* left in flight when it ended.                                            *)
TakenOver(i) ==
  /\ row[WorkOf[i]].event # item[i].event
  /\ \/ WorkOf[i] \in Operated
     \/ \E k \in OnWork(WorkOf[i]) \ {i} : item[k].event # 0

(* An outcome is the right one and stands: no late delivery, failure        *)
(* record, reconciliation or reclaim changes the outcome of an item, and no *)
(* settled job is live again; and a stage item whose event was handled to   *)
(* the end is never reported failed or stale: neither the budget, a         *)
(* reclaim, a restored snapshot nor a late delivery hides finished work     *)
(* (_reconcile_item and the row's event), unless another's event took the   *)
(* row.                                                                     *)
OutcomeStands ==
  [][/\ \A i \in Items : item[i].status \in Terminal => item'[i].status = item[i].status
     /\ \A j \in Jobs : job[j] \in Settled => job'[j] \in Settled
     /\ \A i \in Items :
          ~IsPost(i) /\ item[i].status = "dispatched" /\ WorkDone(i) /\ ~TakenOver(i)
            => item'[i].status \in {"dispatched", "succeeded"}]_vars

(* Nothing under way can end a dispatched item: its stage was failed by the *)
(* reclaimer at the attempt limit with budget left; it was reclaimed into   *)
(* an event the spent budget forbids to publish; its post was left observed *)
(* by a replay that is over; or the model has no event left to reclaim with.*)
Stranded(i) ==
  LET w == WorkOf[i]
      r == row[w]
      m == msg[w][r.event]
  IN /\ item[i].status = "dispatched"
     /\ IF IsPost(i) THEN r.status = "observed" /\ call[i] = "no" /\ raised[i] = "no"
        ELSE /\ r.event = item[i].event
             /\ \/ /\ r.status = "failed" /\ r.retryable
                   /\ m.place = "gone" /\ item[i].consumed < LimitOf(i)
                \/ /\ r.status = "pending"
                   /\ m.outbox = "pending" /\ PublishLimit(w, r.event) = 0
                \/ r.status = "processing" /\ m.place = "gone" /\ minted[w] = MaxEvents[w]

(* A cancelled job settles: what it dispatched is awaited and ends, except  *)
(* where a dispatched item is stranded (cancel_batch, reconcile).           *)
CancelEnds ==
  <>[](\A j \in Jobs : job[j] = "cancelling" => \E i \in ItemsOf(j) : Stranded(i))
=============================================================================
