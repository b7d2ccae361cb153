------------------------------- MODULE Outbox -------------------------------
(***************************************************************************)
(* The RabbitMQ transactional outbox: messaging/rabbitmq_outbox.py, its    *)
(* scheduler job rabbitmq_outbox_runtime.py, and the REBUILD_OUTBOX        *)
(* recovery action of services/recovery_runtime.py.                        *)
(*                                                                         *)
(* Producers commit PENDING rows; relays (the scheduler's publisher job,   *)
(* and the best-effort relay every producer runs after its commit) claim   *)
(* rows in one transaction, publish outside it, and write the outcome in a *)
(* third step that looks at neither status nor lock_owner.  A relay may    *)
(* die between any two of those steps, a publish may be accepted and still *)
(* raise, and a lease may be declared stale while its relay is alive.      *)
(*                                                                         *)
(* Time is abstracted: a retry back-off has elapsed, and a lease is stale, *)
(* whenever the actions that need it are taken.  Rows carry at most one    *)
(* recovery item, of kind OUTBOX; stage items share a budget with workers  *)
(* and are outside this module.                                            *)
(***************************************************************************)
EXTENDS Naturals, FiniteSets

CONSTANTS
  Messages,      \* ids of rabbitmq_outbox_messages rows
  Relays,        \* processes that run a RabbitOutboxRelay
  NoRelay,       \* the value of lock_owner when it is NULL
  NotSent,       \* a relay that waits for no outcome to be written
  MaxAttempts,   \* settings.pipeline_broker_retry_max_attempts
  RetryLimit,    \* RecoveryJobItem.retry_limit (1, 3 or 5)
  AttemptBound   \* bound of the model: no rebuild grants attempts above it

ASSUME MaxAttemptsAssumption == MaxAttempts \in Nat \ {0}
ASSUME RetryLimitAssumption == RetryLimit \in Nat \ {0}
ASSUME AttemptBoundAssumption == AttemptBound \in Nat
ASSUME NoRelayAssumption == NoRelay \notin Relays
ASSUME NotSentAssumption ==
  NotSent \notin [lease : [msg : Messages, attempt : Nat], ok : BOOLEAN]

VARIABLES
  status,        \* RabbitMQOutboxMessage.status; "absent" before the commit
  attempts,      \* RabbitMQOutboxMessage.attempt_count
  owner,         \* RabbitMQOutboxMessage.lock_owner
  ceiling,       \* the attempts the newest item that names the row's message
                 \* grants up to (_recovery_attempt_ceiling), 0 if none does
  older,         \* what ceiling was before the newest item
  item,          \* status of the row's newest recovery item
  begun,         \* its attempt_budget_start, 0 for NULL
  consumed,      \* its retryable_failures_consumed
  fresh,         \* the row still has the version the queued item expects
  raising,       \* a dispatch of the item raised, and that is not recorded yet
  seen,          \* history: the row is as the operator was "shown" it, or as
                 \* the recording of a raised dispatch has "taken_over"; or "no"
  granted,       \* history: the most attempts that a rebuild granted up to,
                 \* or that the row had used when it was rebuilt
  lease,         \* lease[r]: claimed rows r holds in memory, not yet published
  sent,          \* sent[r]: the publish r returned from, outcome not yet saved
  copies         \* [msg, attempt] pairs the broker accepted

row == <<status, attempts, owner>>
allowance == <<ceiling, older, begun, consumed, granted>>
recovery == <<allowance, item, fresh, raising, seen>>
vars == <<row, recovery, lease, sent, copies>>

-----------------------------------------------------------------------------
Attempts == 1 .. (IF MaxAttempts > AttemptBound THEN MaxAttempts ELSE AttemptBound)

Lease == [msg : Messages, attempt : Attempts]

ItemStatus ==
  {"none", "queued", "dispatched", "succeeded", "failed", "skipped_stale"}

AtLeast(a, b) == IF a > b THEN a ELSE b

(* The attempts a row may be claimed up to.                                 *)
Budget(m) == IF ceiling[m] = 0 THEN MaxAttempts ELSE ceiling[m]

(* Mutants: the ceiling compared with <=, and no ceiling at all.            *)
ClaimableOnceTooOften(m) ==
  \/ status[m] = "pending"
  \/ status[m] = "failed" /\ attempts[m] <= Budget(m)
ClaimableForever(m) == status[m] \in {"pending", "failed"}

(* The WHERE clause of claim_due and of _claim_specific.                    *)
Claimable(m) ==
  \/ /\ status[m] = "pending"
     /\ ceiling[m] = 0 \/ attempts[m] < ceiling[m]
  \/ /\ status[m] = "failed"
     /\ attempts[m] < Budget(m)

(* Every write of a row moves updated_at, the version a queued item fences. *)
Touch(S) == fresh' = [m \in Messages |-> fresh[m] /\ m \notin S]

(* History: a row that changed is no longer what anybody was shown.         *)
Watch ==
  seen' = [m \in Messages |->
             IF /\ status'[m] = status[m]
                /\ attempts'[m] = attempts[m]
                /\ owner'[m] = owner[m]
             THEN seen[m] ELSE "no"]

-----------------------------------------------------------------------------
Init ==
  /\ status = [m \in Messages |-> "absent"]
  /\ attempts = [m \in Messages |-> 0]
  /\ owner = [m \in Messages |-> NoRelay]
  /\ ceiling = [m \in Messages |-> 0]
  /\ older = [m \in Messages |-> 0]
  /\ item = [m \in Messages |-> "none"]
  /\ begun = [m \in Messages |-> 0]
  /\ consumed = [m \in Messages |-> 0]
  /\ fresh = [m \in Messages |-> FALSE]
  /\ raising = [m \in Messages |-> FALSE]
  /\ seen = [m \in Messages |-> "no"]
  /\ granted = [m \in Messages |-> 0]
  /\ lease = [r \in Relays |-> {}]
  /\ sent = [r \in Relays |-> NotSent]
  /\ copies = {}

(* RabbitPublisher.publish: the row commits with the business transaction.  *)
Publish(m) ==
  /\ status[m] = "absent"
  /\ status' = [status EXCEPT ![m] = "pending"]
  /\ UNCHANGED <<attempts, owner, recovery, lease, sent, copies>>

(* Mutant: the attempt is counted with the outcome, not with the claim.     *)
ClaimUncounted(r, S) ==
  /\ lease[r] = {} /\ sent[r] = NotSent
  /\ S # {}
  /\ \A m \in S : Claimable(m)
  /\ status' = [m \in Messages |-> IF m \in S THEN "publishing" ELSE status[m]]
  /\ owner' = [m \in Messages |-> IF m \in S THEN r ELSE owner[m]]
  /\ lease' = [lease EXCEPT ![r] = {[msg |-> m, attempt |-> attempts[m] + 1] : m \in S}]
  /\ Touch(S)
  /\ UNCHANGED <<attempts, allowance, item, raising, sent, copies>>
  /\ Watch

(* claim_due / _claim_specific through _claim_query: one relay locks some   *)
(* claimable rows, counts the attempt and commits before publishing.        *)
Claim(r, S) ==
  /\ lease[r] = {} /\ sent[r] = NotSent
  /\ S # {}
  /\ \A m \in S : Claimable(m)
  /\ status' = [m \in Messages |-> IF m \in S THEN "publishing" ELSE status[m]]
  /\ attempts' = [m \in Messages |-> IF m \in S THEN attempts[m] + 1 ELSE attempts[m]]
  /\ owner' = [m \in Messages |-> IF m \in S THEN r ELSE owner[m]]
  /\ lease' = [lease EXCEPT ![r] = {[msg |-> m, attempt |-> attempts[m] + 1] : m \in S}]
  /\ Touch(S)
  /\ UNCHANGED <<allowance, item, raising, sent, copies>>
  /\ Watch

(* publish_rabbit_message_direct returns or raises.  It may raise after the *)
(* broker accepted the message (a timeout), never return without.           *)
Send(r, l, ok, accepted) ==
  /\ sent[r] = NotSent
  /\ l \in lease[r]
  /\ ok => accepted
  /\ lease' = [lease EXCEPT ![r] = @ \ {l}]
  /\ sent' = [sent EXCEPT ![r] = [lease |-> l, ok |-> ok]]
  /\ copies' = IF accepted THEN copies \cup {l} ELSE copies
  /\ UNCHANGED <<row, recovery>>

(* Mutant: an outcome leaves the version of the row as it was.              *)
MarkUntouched(r, ok, outcome) ==
  /\ sent[r] # NotSent
  /\ sent[r].ok = ok
  /\ status' = [status EXCEPT ![sent[r].lease.msg] = outcome]
  /\ owner' = [owner EXCEPT ![sent[r].lease.msg] = NoRelay]
  /\ sent' = [sent EXCEPT ![r] = NotSent]
  /\ UNCHANGED <<attempts, allowance, item, fresh, raising, lease, copies>>
  /\ Watch

(* _mark_published and _mark_failed: by id, whoever holds the row now.      *)
Mark(r, ok, outcome) ==
  /\ sent[r] # NotSent
  /\ sent[r].ok = ok
  /\ status' = [status EXCEPT ![sent[r].lease.msg] = outcome]
  /\ owner' = [owner EXCEPT ![sent[r].lease.msg] = NoRelay]
  /\ Touch({sent[r].lease.msg})
  /\ sent' = [sent EXCEPT ![r] = NotSent]
  /\ UNCHANGED <<attempts, allowance, item, raising, lease, copies>>
  /\ Watch

(* Mutant: a publish that raised is taken for one the broker accepted.      *)
MarkFailedAsPublished(r) == Mark(r, FALSE, "published")

MarkPublished(r) == Mark(r, TRUE, "published")
MarkFailed(r) == Mark(r, FALSE, "failed")

(* A relay dies, or a database error raised by a claim or a mark ends its   *)
(* batch: what it held in memory is gone, its rows stay publishing.         *)
Crash(r) ==
  /\ lease[r] # {} \/ sent[r] # NotSent
  /\ lease' = [lease EXCEPT ![r] = {}]
  /\ sent' = [sent EXCEPT ![r] = NotSent]
  /\ UNCHANGED <<row, recovery, copies>>

(* Mutants: only ownerless leases are recovered; a stale lease is taken for *)
(* a publish that went through.                                             *)
RecoverOwnerless(S) ==
  /\ S # {}
  /\ \A m \in S : status[m] = "publishing" /\ owner[m] = NoRelay
  /\ status' = [m \in Messages |-> IF m \in S THEN "failed" ELSE status[m]]
  /\ Touch(S)
  /\ UNCHANGED <<attempts, owner, allowance, item, raising, lease, sent, copies>>
  /\ Watch

RecoverAsPublished(S) ==
  /\ S # {}
  /\ \A m \in S : status[m] = "publishing"
  /\ status' = [m \in Messages |-> IF m \in S THEN "published" ELSE status[m]]
  /\ owner' = [m \in Messages |-> IF m \in S THEN NoRelay ELSE owner[m]]
  /\ Touch(S)
  /\ UNCHANGED <<attempts, allowance, item, raising, lease, sent, copies>>
  /\ Watch

(* recover_stale_publishing over the rows whose locked_at is too old.       *)
RecoverStale(S) ==
  /\ S # {}
  /\ \A m \in S : status[m] = "publishing"
  /\ status' = [m \in Messages |-> IF m \in S THEN "failed" ELSE status[m]]
  /\ owner' = [m \in Messages |-> IF m \in S THEN NoRelay ELSE owner[m]]
  /\ Touch(S)
  /\ UNCHANGED <<attempts, allowance, item, raising, lease, sent, copies>>
  /\ Watch

-----------------------------------------------------------------------------
(* An administrator schedules REBUILD_OUTBOX for a FAILED row no other      *)
(* active item owns, in the version on the screen.                          *)
ScheduleRebuild(m) ==
  /\ status[m] = "failed"
  /\ item[m] \notin {"queued", "dispatched"}
  /\ item' = [item EXCEPT ![m] = "queued"]
  /\ older' = [older EXCEPT ![m] = ceiling[m]]
  /\ begun' = [begun EXCEPT ![m] = 0]
  /\ consumed' = [consumed EXCEPT ![m] = 0]
  /\ fresh' = [fresh EXCEPT ![m] = TRUE]
  /\ raising' = [raising EXCEPT ![m] = FALSE]
  /\ seen' = [seen EXCEPT ![m] = "shown"]
  /\ UNCHANGED <<row, ceiling, granted, lease, sent, copies>>

(* _validate_claimed_item, with the row locked: it must have the version    *)
(* the item expects and still offer REBUILD_OUTBOX.                         *)
Valid(m) == fresh[m] /\ status[m] = "failed"

(* _rebuild_outbox: the row starts again, with what is left of the item's   *)
(* allowance; only the first dispatch of an item sets its start.            *)
Rebuild(m) ==
  LET first == IF begun[m] = 0 THEN attempts[m] + 1 ELSE begun[m]
      upto  == first + RetryLimit - consumed[m] - 1
  IN  /\ upto <= AttemptBound
      /\ status' = [status EXCEPT ![m] = "pending"]
      /\ owner' = [owner EXCEPT ![m] = NoRelay]
      /\ begun' = [begun EXCEPT ![m] = first]
      /\ ceiling' = [ceiling EXCEPT ![m] = upto]
      /\ granted' = [granted EXCEPT ![m] = AtLeast(@, AtLeast(upto, attempts[m]))]
      /\ item' = [item EXCEPT ![m] = "dispatched"]
      /\ Touch({m})
      /\ UNCHANGED <<attempts, older, consumed, lease, sent, copies>>
      /\ Watch

(* Mutant: the item is dispatched without looking at the row's version.     *)
DispatchUnfenced(m) ==
  /\ item[m] = "queued"
  /\ status[m] = "failed"
  /\ Rebuild(m)
  /\ UNCHANGED raising

(* _dispatch_next_general: validated and rebuilt in one transaction.        *)
DispatchRebuild(m) ==
  /\ item[m] = "queued"
  /\ Valid(m)
  /\ Rebuild(m)
  /\ UNCHANGED raising

DispatchStale(m) ==
  /\ item[m] = "queued"
  /\ ~Valid(m)
  /\ item' = [item EXCEPT ![m] = "skipped_stale"]
  /\ UNCHANGED <<row, allowance, fresh, raising, seen, lease, sent, copies>>

(* The dispatch raises: its transaction is rolled back, or had committed.   *)
DispatchRaises(m) ==
  /\ item[m] = "queued"
  /\ Valid(m)
  /\ ~raising[m]
  /\ raising' = [raising EXCEPT ![m] = TRUE]
  /\ \/ Rebuild(m)
     \/ UNCHANGED <<row, allowance, item, fresh, seen, lease, sent, copies>>

(* _record_dispatch_failure, in a session of its own, after whatever wrote  *)
(* the row meanwhile: the item goes back in the queue for the version the   *)
(* row has NOW, and no longer names the message; it is skipped when the row *)
(* is no longer on the list of failed work (a PUBLISHING row is on it only  *)
(* once it is stuck), and fails when nothing of its allowance is left.      *)
RecordFailure(m) ==
  /\ raising[m]
  /\ item[m] \in {"queued", "dispatched"}
  /\ raising' = [raising EXCEPT ![m] = FALSE]
  /\ consumed' = [consumed EXCEPT ![m] = @ + 1]
  /\ \/ /\ consumed[m] + 1 < RetryLimit
        /\ status[m] \in {"failed", "publishing"}
        /\ item' = [item EXCEPT ![m] = "queued"]
        /\ ceiling' = [ceiling EXCEPT ![m] = older[m]]
        /\ fresh' = [fresh EXCEPT ![m] = TRUE]
        /\ seen' = [seen EXCEPT ![m] = "taken_over"]
     \/ /\ consumed[m] + 1 < RetryLimit
        /\ status[m] # "failed"
        /\ item' = [item EXCEPT ![m] = "skipped_stale"]
        /\ UNCHANGED <<ceiling, fresh, seen>>
     \/ /\ consumed[m] + 1 >= RetryLimit
        /\ item' = [item EXCEPT ![m] = "failed"]
        /\ UNCHANGED <<ceiling, fresh, seen>>
  /\ UNCHANGED <<row, older, begun, granted, lease, sent, copies>>

(* _observe_outbox_retry_budget: the failures since the rebuild, with those *)
(* that were consumed before it.                                            *)
Observed(m) ==
  AtLeast((attempts[m] + RetryLimit) - ceiling[m], consumed[m])

(* Mutant: one failure more than the item's retry_limit is waited for.      *)
ReconcileLate(m) ==
  /\ item[m] = "dispatched"
  /\ \/ /\ status[m] = "published"
        /\ item' = [item EXCEPT ![m] = "succeeded"]
        /\ UNCHANGED consumed
     \/ /\ status[m] = "failed"
        /\ consumed' = [consumed EXCEPT ![m] = Observed(m)]
        /\ item' = [item EXCEPT ![m] =
                       IF Observed(m) > RetryLimit THEN "failed" ELSE @]
  /\ UNCHANGED <<row, ceiling, older, begun, granted, fresh, raising, seen, lease, sent, copies>>

(* _reconcile_item, work kind OUTBOX: a FAILED row's failures are counted,  *)
(* and the budget is spent when they reach the item's retry_limit.          *)
Reconcile(m) ==
  /\ item[m] = "dispatched"
  /\ \/ /\ status[m] = "published"
        /\ item' = [item EXCEPT ![m] = "succeeded"]
        /\ UNCHANGED consumed
     \/ /\ status[m] = "failed"
        /\ consumed' = [consumed EXCEPT ![m] = Observed(m)]
        /\ item' = [item EXCEPT ![m] =
                       IF Observed(m) >= RetryLimit THEN "failed" ELSE @]
  /\ UNCHANGED <<row, ceiling, older, begun, granted, fresh, raising, seen, lease, sent, copies>>

-----------------------------------------------------------------------------
RelayStep(r) ==
  \/ \E l \in lease[r], ok, accepted \in BOOLEAN : Send(r, l, ok, accepted)
  \/ MarkPublished(r)
  \/ MarkFailed(r)

Next ==
  \/ \E m \in Messages : Publish(m)
  \/ \E r \in Relays, S \in SUBSET Messages : Claim(r, S)
  \/ \E r \in Relays : RelayStep(r)
  \/ \E r \in Relays : Crash(r)
  \/ \E S \in SUBSET Messages : RecoverStale(S)
  \/ \E m \in Messages : ScheduleRebuild(m)
  \/ \E m \in Messages : DispatchRebuild(m)
  \/ \E m \in Messages : DispatchStale(m)
  \/ \E m \in Messages : DispatchRaises(m)
  \/ \E m \in Messages : RecordFailure(m)
  \/ \E m \in Messages : Reconcile(m)

(* The scheduler runs the publisher job every few seconds: it recovers      *)
(* stale leases and claims due rows; a relay that does not die goes on; the *)
(* recovery job reconciles dispatched items.  Crashes are not fair.         *)
Fairness ==
  /\ \A r \in Relays : WF_vars(RelayStep(r))
  /\ \A m \in Messages :
       /\ WF_vars(\E r \in Relays, S \in SUBSET Messages : m \in S /\ Claim(r, S))
       /\ WF_vars(\E S \in SUBSET Messages : m \in S /\ RecoverStale(S))
       /\ WF_vars(Reconcile(m))

Spec == Init /\ [][Next]_vars
FairSpec == Spec /\ Fairness

-----------------------------------------------------------------------------
(* The type of every variable.                                              *)
TypeOK ==
  /\ status \in [Messages -> {"absent", "pending", "publishing", "published", "failed"}]
  /\ attempts \in [Messages -> {0} \cup Attempts]
  /\ owner \in [Messages -> Relays \cup {NoRelay}]
  /\ ceiling \in [Messages -> 0 .. AttemptBound]
  /\ older \in [Messages -> 0 .. AttemptBound]
  /\ item \in [Messages -> ItemStatus]
  /\ begun \in [Messages -> 0 .. AttemptBound]
  /\ consumed \in [Messages -> Nat]
  /\ fresh \in [Messages -> BOOLEAN]
  /\ raising \in [Messages -> BOOLEAN]
  /\ seen \in [Messages -> {"no", "shown", "taken_over"}]
  /\ granted \in [Messages -> Nat]
  /\ lease \in [Relays -> SUBSET Lease]
  /\ sent \in [Relays -> {NotSent} \cup [lease : Lease, ok : BOOLEAN]]
  /\ copies \subseteq Lease

(* A row is PUBLISHED, and a recovery item SUCCEEDED, only if the broker    *)
(* really accepted a copy, whatever late relays wrote over the row since    *)
(* (_mark_published ignores status and lock_owner).                         *)
PublishedWasAccepted ==
  \A m \in Messages :
    status[m] = "published" \/ item[m] = "succeeded" => \E c \in copies : c.msg = m

(* The broker budget holds across crashes, stale leases and rebuilds: no    *)
(* row is attempted more often than pipeline_broker_retry_max_attempts, or  *)
(* than the retry_limit of the recovery item in force lets it; an item that *)
(* went back in the queue is no longer in force, and what its first         *)
(* dispatch had granted may have been used by then.                         *)
AttemptsWithinBudget ==
  \A m \in Messages : attempts[m] <= Budget(m) \/ attempts[m] <= granted[m]

(* Each durable claim lets at most one copy out: two relays never hold the  *)
(* same attempt, and an attempt still to be sent is not at the broker yet.  *)
(* The duplicates a consumer can see are bounded by attempt_count.          *)
OneCopyPerAttempt ==
  /\ \A r1, r2 \in Relays : r1 # r2 => lease[r1] \cap lease[r2] = {}
  /\ \A r \in Relays : lease[r] \cap copies = {}
  /\ \A c \in copies : c.attempt <= attempts[c.msg]

(* An administrator's rebuild resets a row only if nothing - no relay's     *)
(* late outcome, no retry, no recovered lease - changed it since it was on  *)
(* the administrator's screen.  The exception is the code's own: after a    *)
(* dispatch that raised, the row must be unchanged since the recording of   *)
(* that failure, which takes its version over unseen                        *)
(* (_record_dispatch_failure: item.expected_version = work.version).        *)
RebuildOnlyWhatWasSeen ==
  [][\A m \in Messages :
       status[m] \notin {"absent", "pending"} /\ status'[m] = "pending"
         => \/ seen[m] = "shown"
            \/ seen[m] = "taken_over" /\ consumed[m] > 0]_vars

(* A rebuilt row that no relay may claim: the dispatch that had committed   *)
(* and raised let it be attempted, the failures were not observed before    *)
(* the dispatch's own was recorded, and the second dispatch resets the row  *)
(* under a ceiling it has reached.  Nothing looks for such a row.           *)
Stranded(m) ==
  status[m] = "pending" /\ ceiling[m] # 0 /\ attempts[m] >= ceiling[m]

(* Every committed message is eventually published, or its attempts are     *)
(* used up and it waits in FAILED for an administrator: no crash leaves a   *)
(* row in PUBLISHING for good.  A dispatched rebuild is eventually          *)
(* reported, one way or the other, or goes back in the queue.  Stranded     *)
(* rows are the exception.                                                  *)
Settled(m) == status[m] = "published" \/ (status[m] = "failed" /\ ~Claimable(m))

EventuallySettled ==
  \A m \in Messages :
    /\ status[m] # "absent" ~> Settled(m) \/ Stranded(m)
    /\ item[m] = "dispatched" ~> item[m] # "dispatched" \/ Stranded(m)

-----------------------------------------------------------------------------
(* The outbox implements its promise.                                       *)
phase == [m \in Messages |->
            IF status[m] \in {"absent", "published"}
            THEN IF status[m] = "absent" THEN "absent" ELSE "delivered"
            ELSE "open"]

Promise == INSTANCE AtLeastOnce WITH phase <- phase, copies <- copies

ImplementsPromise == Promise!Spec
=============================================================================
