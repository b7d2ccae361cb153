------------------------------ MODULE Capture ------------------------------
(***************************************************************************)
(* Scheduled observation of Telegram posts and of channels' audiences:     *)
(* SourceEngagementCaptureScheduler and SourceEngagementCaptureService     *)
(* (services/source_engagement*.py), SourceChannelAudienceCaptureScheduler *)
(* and SourceChannelAudienceCaptureService (services/source_channel_       *)
(* audience*.py), their handlers in workers/pipeline_runtime/runtime.py    *)
(* and the operator's changes of channels in services/admin.py.            *)
(*                                                                         *)
(* A target, a post or a channel, is due at a slot.  The scheduler leases  *)
(* due targets and sends a message for each to the queue of the account    *)
(* (a Telegram session) of its channel; a worker asks Telegram and records *)
(* the answer for the slot.  A lease is a time, so another claim may       *)
(* follow while the first message is still about.  Slot k is due when the  *)
(* clock shows k.                                                          *)
(***************************************************************************)
EXTENDS Naturals, FiniteSets

CONSTANTS
  Posts, Channels,
  ChannelOf,       \* ChannelOf[t]: the channel of a post, or the channel itself
  Sessions,
  Handlers,        \* deliveries being handled by workers
  PerSession,      \* scheduler_..._capture_per_session_batch_size
  MaxNow,          \* bound of the model: the last slot that comes
  MaxCopies,       \* bound of the model: copies of one message
  MaxTroubles,     \* bound of the model: failed calls, flood waits, lost handlers,
                   \* revoked sessions and changes an operator makes, together
  FirstOwner,      \* FirstOwner[c]: the session channel c is assigned to at first
  FirstDue,        \* schedules there are at first: functions from targets to slots
  None

Targets == Posts \cup Channels
Kinds == {Posts, Channels}
KindOf(t) == IF t \in Posts THEN Posts ELSE Channels
Slots == 0..(MaxNow + 1)
Messages == [target : Targets, slot : Slots, session : Sessions]

ASSUME TargetsAreTargets == Posts \cap Channels = {} /\ ChannelOf \in [Targets -> Channels]
ASSUME ChannelsAreTheirOwn == \A c \in Channels : ChannelOf[c] = c
ASSUME NoneIsNone == None \notin Slots /\ None \notin Messages
ASSUME FirstAssumption ==
  FirstDue \subseteq [Targets -> Slots \cup {None}] /\ FirstOwner \in [Channels -> Sessions]
ASSUME BoundsAreNumbers ==
  \A n \in {PerSession, MaxNow, MaxCopies, MaxTroubles} : n \in Nat

VARIABLES
  now,
  next,       \* next[t]: next_engagement_check_at or next_audience_capture_at
  lease,      \* lease[t]: "free", "held", or "stale" once the timeout is over
  alive,      \* alive[t]: source_alive of a post
  snap,       \* snap[t][k]: fetch_status of the snapshot of slot k
  via,        \* history: the session of the last answer recorded for channel c
  owner,      \* owner[c]: the session channel c is assigned to
  paused,
  status,     \* status[s]: "active", "flood", "over" (the wait is over), "auth" or "quarantined"
  truth,      \* truth[s]: what Telegram makes of the session
  queue,      \* queue[m]: copies of message m waiting
  batch,      \* batch[kind]: what a run of the scheduler read of the sessions, or None
  handler,
  troubles

vars == <<now, next, lease, alive, snap, via, owner, paused, status, truth, queue, batch, handler, troubles>>

Trouble == troubles < MaxTroubles /\ troubles' = troubles + 1

Resting == [at |-> "idle", msg |-> None, got |-> "none", when |-> 0, held |-> FALSE]

Init ==
  /\ now = 0
  /\ next \in FirstDue
  /\ lease = [t \in Targets |-> "free"]
  /\ alive = [t \in Targets |-> TRUE]
  /\ snap = [t \in Targets |-> [k \in Slots |-> "none"]]
  /\ via = [c \in Channels |-> None]
  /\ owner = FirstOwner
  /\ paused = [c \in Channels |-> FALSE]
  /\ status = [s \in Sessions |-> "active"]
  /\ truth = [s \in Sessions |-> "fine"]
  /\ queue = [m \in Messages |-> 0]
  /\ batch = [kind \in Kinds |-> None]
  /\ handler = [h \in Handlers |-> Resting]
  /\ troubles = 0

Rows == <<next, lease, alive, snap, via>>
World == <<now, owner, paused, truth>>

-----------------------------------------------------------------------------
(* Time passes.                                                             *)
Tick ==
  /\ now < MaxNow
  /\ now' = now + 1
  /\ UNCHANGED <<Rows, owner, paused, status, truth, queue, batch, handler, troubles>>

LeaseExpires(t) ==
  /\ lease[t] = "held"
  /\ lease' = [lease EXCEPT ![t] = "stale"]
  /\ UNCHANGED <<World, next, alive, snap, via, status, queue, batch, handler, troubles>>

FloodEnds(s) ==
  /\ status[s] = "flood"
  /\ status' = [status EXCEPT ![s] = "over"]
  /\ UNCHANGED <<World, Rows, queue, batch, handler, troubles>>

(* The first slot after a time: next_source_engagement_schedule_slot and    *)
(* next_daily_source_channel_audience_capture_at.  Mutants: not before it;  *)
(* a day later even when today's is still to come.                          *)
SlotFrom(k) == k
SlotSkipped(k) == k + 2
SlotAfter(k) == k + 1

-----------------------------------------------------------------------------
(* Mutant: a lease is for good.                                             *)
UnleasedOnly(t) == lease[t] = "free"

Unleased(t) == lease[t] \in {"free", "stale"}

(* _eligible_source_engagement_filters and                                  *)
(* _eligible_audience_capture_filters: a paused channel's posts are still   *)
(* observed.                                                                *)
Eligible(t) ==
  /\ alive[t] /\ Unleased(t)
  /\ t \in Channels => ~paused[t]
  /\ next[t] = None \/ next[t] <= now

OfSession(kind, s) == {t \in kind : owner[ChannelOf[t]] = s}
Due(kind, s) == {t \in OfSession(kind, s) : Eligible(t)}
Runnable(s) == status[s] \in {"active", "over"}

(* A run of the scheduler reads the sessions that have work, without a lock *)
(* on them, ...                                                             *)
LoadSessions(kind) ==
  /\ batch[kind] = None
  /\ \E s \in Sessions : Runnable(s) /\ Due(kind, s) # {}
  /\ batch' = [batch EXCEPT ![kind] =
                 [s \in Sessions |-> IF Runnable(s) /\ Due(kind, s) # {} THEN status[s] ELSE "none"]]
  /\ UNCHANGED <<World, Rows, status, queue, handler, troubles>>

(* ... resumes the ones whose flood wait is over, and leases up to a limit  *)
(* of each session's due targets, the oldest first, with their messages     *)
(* (_resume_expired_flood_wait_session, _claim_due_sources_for_session,     *)
(* _claim_due_channels_for_session, and publish in the same transaction).   *)
Age(t) == IF next[t] = None THEN 0 ELSE next[t]
Oldest(kind, s) ==
  {C \in SUBSET Due(kind, s) :
     /\ Cardinality(C) = IF Cardinality(Due(kind, s)) < PerSession
                         THEN Cardinality(Due(kind, s)) ELSE PerSession
     /\ \A t \in C, u \in Due(kind, s) \ C : Age(t) <= Age(u)}

SlotOf(t) == IF next[t] = None THEN now ELSE next[t]
MessageFor(t) == [target |-> t, slot |-> SlotOf(t), session |-> owner[ChannelOf[t]]]

Resumed(kind) ==
  [s \in Sessions |-> IF batch[kind][s] = "over" THEN "active" ELSE status[s]]

ClaimDue(kind) ==
  /\ batch[kind] # None
  /\ \E claim \in [Sessions -> SUBSET kind] :
       /\ \A s \in Sessions :
            claim[s] \in IF batch[kind][s] # "none" /\ Resumed(kind)[s] \in {"active", "over"}
                         THEN Oldest(kind, s) ELSE {{}}
       /\ LET C == UNION {claim[s] : s \in Sessions}
          IN /\ \A t \in C : queue[MessageFor(t)] < MaxCopies
             /\ lease' = [t \in Targets |-> IF t \in C THEN "held" ELSE lease[t]]
             /\ next' = [t \in Targets |-> IF t \in C THEN SlotOf(t) ELSE next[t]]
             /\ queue' = [m \in Messages |-> IF \E t \in C : m = MessageFor(t) THEN queue[m] + 1 ELSE queue[m]]
  /\ status' = Resumed(kind)
  /\ batch' = [batch EXCEPT ![kind] = None]
  /\ UNCHANGED <<World, alive, snap, via, handler, troubles>>

-----------------------------------------------------------------------------
(* The worker.  A status that is not FAILED is final.                       *)
Final == {"success", "not found", "not accessible"}
Msg(h) == handler[h].msg
Observed(m) == snap[m.target][m.slot] \in Final

(* Mutant: as the message says.                                             *)
CurrentWhenSent(m) == TRUE

(* _event_is_current_for_channel.  A post's message is checked only for the *)
(* names of the post, which do not change.                                  *)
Current(m) ==
  m.target \in Channels =>
    owner[m.target] = m.session /\ ~paused[m.target] /\ next[m.target] = m.slot

(* _clear_matching_lease                                                    *)
ClearLease(m) ==
  lease' = IF next[m.target] = m.slot THEN [lease EXCEPT ![m.target] = "free"] ELSE lease

(* What is left is the acknowledgement, if the message is still its own.    *)
Done(h) ==
  handler' = [handler EXCEPT ![h] =
                IF @.held THEN [@ EXCEPT !.at = "done", !.got = "none", !.when = 0] ELSE Resting]

(* Each queue has one active consumer with one message at a time.           *)
SameQueue(m, n) == KindOf(m.target) = KindOf(n.target) /\ m.session = n.session

(* A delivery, up to the call of Telegram:                                  *)
(* _short_circuit_existing_terminal_snapshot.                               *)
Take(h, m) ==
  /\ handler[h].at = "idle" /\ queue[m] > 0
  /\ \A g \in Handlers : handler[g].held => ~SameQueue(Msg(g), m)
  /\ queue' = [queue EXCEPT ![m] = @ - 1]
  /\ handler' = [handler EXCEPT ![h] = [at |-> IF Current(m) /\ ~Observed(m) THEN "fetch" ELSE "done",
                                        msg |-> m, got |-> "none", when |-> 0, held |-> TRUE]]
  /\ IF Current(m) /\ Observed(m) THEN ClearLease(m) ELSE UNCHANGED lease
  /\ UNCHANGED <<World, next, alive, snap, via, status, batch, troubles>>

(* _fetch_metrics and _fetch_observation, with the client of                *)
(* source_engagement_client_for_event or                                    *)
(* source_channel_audience_client_for_event; the time is read afterwards.   *)
Gets(h, what) ==
  handler' = [handler EXCEPT ![h].at = "record", ![h].got = what, ![h].when = now]

Fetch(h) ==
  /\ handler[h].at = "fetch"
  /\ LET s == Msg(h).session
         post == Msg(h).target \in Posts
     IN \/ status[s] \in {"flood", "over"} /\ Gets(h, "flood") /\ UNCHANGED troubles
        \/ status[s] \in {"auth", "quarantined"} /\ Gets(h, "failed") /\ UNCHANGED troubles
        \/ /\ status[s] = "active"
           /\ \/ Gets(h, "flood") /\ Trouble
              \/ Gets(h, "failed") /\ Trouble
              \/ truth[s] = "fine" /\ Gets(h, "success") /\ UNCHANGED troubles
              \/ truth[s] = "fine" /\ post /\ Gets(h, "not found") /\ UNCHANGED troubles
              \/ truth[s] = "revoked" /\ Gets(h, IF post THEN "failed" ELSE "auth") /\ UNCHANGED troubles
              \/ truth[s] = "banned" /\ Gets(h, IF post THEN "not accessible" ELSE "quarantined")
                 /\ UNCHANGED troubles
  /\ UNCHANGED <<World, Rows, status, queue, batch>>

(* Mutant: what the first look said.                                        *)
NeverObserved(m) == FALSE

(* What another handler recorded meanwhile.                                 *)
RecordedMeanwhile(m) == Observed(m)

(* update_source_after_engagement_capture,                                  *)
(* record_source_channel_audience_observation, and what follows a failed    *)
(* one: the row of the snapshot and of its target.                          *)
Write(m, got, when) ==
  /\ snap' = [snap EXCEPT ![m.target][m.slot] = got]
  /\ via' = [c \in Channels |-> IF c = m.target THEN m.session ELSE via[c]]
  /\ next' = [next EXCEPT ![m.target] = IF got = "failed" THEN m.slot ELSE SlotAfter(when)]
  /\ lease' = [lease EXCEPT ![m.target] = "free"]
  /\ alive' = [alive EXCEPT ![m.target] = @ /\ got \notin {"not found", "not accessible"}]

(* The second transaction of capture                                        *)
Record(h) ==
  /\ handler[h].at = "record" /\ handler[h].got \in Final \cup {"failed"}
  /\ IF ~Current(Msg(h))
     THEN UNCHANGED Rows
     ELSE IF RecordedMeanwhile(Msg(h))
     THEN ClearLease(Msg(h)) /\ UNCHANGED <<next, alive, snap, via>>
     ELSE Write(Msg(h), handler[h].got, handler[h].when)
  /\ Done(h)
  /\ UNCHANGED <<World, status, queue, batch, troubles>>

(* _handle_flood_wait and _handle_terminal_session_failure                  *)
Park(h) ==
  /\ handler[h].at = "record" /\ handler[h].got \in {"flood", "auth", "quarantined"}
  /\ status' = [status EXCEPT ![Msg(h).session] = handler[h].got]
  /\ IF Current(Msg(h)) THEN ClearLease(Msg(h)) ELSE UNCHANGED lease
  /\ Done(h)
  /\ UNCHANGED <<World, next, alive, snap, via, queue, batch, troubles>>

Ack(h) ==
  /\ handler[h].at = "done"
  /\ handler' = [handler EXCEPT ![h] = Resting]
  /\ UNCHANGED <<World, Rows, status, queue, batch, troubles>>

(* A transaction raises: the message is rejected into the retry queue, or   *)
(* dead-lettered when its attempts are used up.                             *)
Raises(h) ==
  /\ handler[h].at \in {"fetch", "record"} /\ Trouble
  /\ handler' = [handler EXCEPT ![h] = Resting]
  /\ \/ handler[h].held /\ queue' = [queue EXCEPT ![Msg(h)] = @ + 1]
     \/ UNCHANGED queue
  /\ UNCHANGED <<World, Rows, status, batch>>

(* The worker dies, or its channel closes and the handler goes on.          *)
LosesMessage(h, after) ==
  /\ handler[h].held /\ Trouble
  /\ queue' = [queue EXCEPT ![Msg(h)] = @ + 1]
  /\ handler' = [handler EXCEPT ![h] = after]
  /\ UNCHANGED <<World, Rows, status, batch>>

Dies(h) == LosesMessage(h, Resting)
ChannelCloses(h) == LosesMessage(h, [handler[h] EXCEPT !.held = FALSE])

-----------------------------------------------------------------------------
(* Telegram revokes or bans a session; an operator logs in again.           *)
Revoke(s) ==
  /\ truth[s] = "fine" /\ Trouble
  /\ \E how \in {"revoked", "banned"} : truth' = [truth EXCEPT ![s] = how]
  /\ UNCHANGED <<now, owner, paused, Rows, status, queue, batch, handler>>

Repair(s) ==
  /\ status[s] \in {"auth", "quarantined"}
  /\ status' = [status EXCEPT ![s] = "active"]
  /\ truth' = [truth EXCEPT ![s] = "fine"]
  /\ UNCHANGED <<now, owner, paused, Rows, queue, batch, handler, troubles>>

(* assign_source_channel, set_source_channel_paused                         *)
Assign(c, s) ==
  /\ owner[c] # s /\ Trouble
  /\ owner' = [owner EXCEPT ![c] = s]
  /\ UNCHANGED <<now, paused, truth, Rows, status, queue, batch, handler>>

Pause(c) ==
  /\ Trouble
  /\ paused' = [paused EXCEPT ![c] = ~@]
  /\ UNCHANGED <<now, owner, truth, Rows, status, queue, batch, handler>>

(* add_source_channel_from_reference for a channel there is already: it is  *)
(* observed at once, which reschedules it.                                  *)
AddAgain(c, s) ==
  /\ ~paused[c] /\ status[s] = "active" /\ Trouble
  /\ owner' = [owner EXCEPT ![c] = s]
  /\ next' = [next EXCEPT ![c] = SlotAfter(now)]
  /\ lease' = [lease EXCEPT ![c] = "free"]
  /\ UNCHANGED <<now, paused, truth, alive, snap, via, status, queue, batch, handler>>

-----------------------------------------------------------------------------
Scheduler == \E kind \in Kinds : LoadSessions(kind) \/ ClaimDue(kind)
Worker(h) ==
  \/ \E m \in Messages : Take(h, m)
  \/ Fetch(h) \/ Record(h) \/ Park(h) \/ Ack(h)
Faults ==
  \/ \E h \in Handlers : Raises(h) \/ Dies(h) \/ ChannelCloses(h)
  \/ \E s \in Sessions : Revoke(s)
Operator ==
  \/ \E s \in Sessions : Repair(s)
  \/ \E c \in Channels, s \in Sessions : Assign(c, s) \/ AddAgain(c, s)
  \/ \E c \in Channels : Pause(c)
Time ==
  \/ Tick
  \/ \E t \in Targets : LeaseExpires(t)
  \/ \E s \in Sessions : FloodEnds(s)

Next == Scheduler \/ (\E h \in Handlers : Worker(h)) \/ Faults \/ Operator \/ Time

Spec == Init /\ [][Next]_vars

(* The scheduler's jobs run again and again; a queue with messages is       *)
(* served; a handler goes on; time passes.  Nothing is promised of faults   *)
(* and operators.                                                           *)
Serve(kind, s) ==
  \E h \in Handlers, m \in Messages :
    KindOf(m.target) = kind /\ m.session = s /\ Take(h, m)

Fairness ==
  /\ \A kind \in Kinds : WF_vars(LoadSessions(kind)) /\ WF_vars(ClaimDue(kind))
  /\ \A kind \in Kinds, s \in Sessions : WF_vars(Serve(kind, s))
  /\ \A h \in Handlers : WF_vars(Fetch(h) \/ Record(h) \/ Park(h) \/ Ack(h))
  /\ \A t \in Targets : WF_vars(LeaseExpires(t))
  /\ \A s \in Sessions : WF_vars(FloodEnds(s))

FairSpec == Spec /\ Fairness

-----------------------------------------------------------------------------
(* Type invariant.                                                          *)
TypeOK ==
  /\ now \in 0..MaxNow
  /\ next \in [Targets -> Slots \cup {None}]
  /\ lease \in [Targets -> {"free", "held", "stale"}]
  /\ alive \in [Targets -> BOOLEAN]
  /\ snap \in [Targets -> [Slots -> Final \cup {"none", "failed"}]]
  /\ via \in [Channels -> Sessions \cup {None}]
  /\ owner \in [Channels -> Sessions]
  /\ paused \in [Channels -> BOOLEAN]
  /\ status \in [Sessions -> {"active", "flood", "over", "auth", "quarantined"}]
  /\ truth \in [Sessions -> {"fine", "revoked", "banned"}]
  /\ \A m \in Messages : queue[m] <= MaxCopies + MaxTroubles
  /\ \A kind \in Kinds : batch[kind] = None \/ batch[kind] \in [Sessions -> {"none", "active", "over"}]
  /\ \A h \in Handlers :
       /\ handler[h].at \in {"idle", "fetch", "record", "done"}
       /\ handler[h].msg \in Messages \cup {None}
       /\ handler[h].when \in 0..now
       /\ handler[h].held => handler[h].at # "idle"

(* A target is never due at or before a slot that has its observation: the  *)
(* handlers would answer every claim of such a slot as a duplicate and      *)
(* leave it due (the lease is cleared, the schedule is not moved), and the  *)
(* target would be claimed for nothing ever after.                          *)
NeverBehind ==
  \A t \in Targets, k \in Slots : snap[t][k] \in Final => next[t] # None /\ next[t] > k

(* What is recorded of a channel was asked through the account that has the *)
(* channel, which is not paused and due at that slot, at the time it is     *)
(* recorded: a pause, a move to another account or a new schedule while     *)
(* Telegram was asked discards the answer.                                  *)
(* And the first final snapshot of a slot is immutable, whichever handlers  *)
(* of whichever claims, sessions and redeliveries answer after it           *)
(* (docs/ops/scheduler-batch-jobs.md:326).                                  *)
RecordedOnceForItsOwner ==
  [][/\ \A t \in Targets, k \in Slots : snap[t][k] \in Final => snap'[t][k] = snap[t][k]
     /\ \A c \in Channels, k \in Slots : snap'[c][k] # snap[c][k] =>
          via'[c] = owner[c] /\ ~paused[c] /\ next[c] = k]_vars

(* A slot that is due is observed: no lost message, dead letter, expired    *)
(* lease, flood wait or move to another account leaves a target unobserved  *)
(* for ever.  Telegram said that the post is not there, the channel itself  *)
(* is paused, or its account needs an operator; and two losses the code     *)
(* has are exempt, each by its name.  A banned account's answer marks a     *)
(* post that may well exist (TakenForGone): it stays marked after the       *)
(* account is repaired or the channel moved.  And accounts may be parked    *)
(* again and again without Telegram (KeepsParking): a handler that met an   *)
(* old wait parks its account after a claim for the other kind of target    *)
(* resumed it, and the message of that claim meets the new wait.            *)
Gone(t) == \E k \in Slots : snap[t][k] = "not found"
TakenForGone(t) == \E k \in Slots : snap[t][k] = "not accessible"
Unusable(s) == truth[s] # "fine" \/ status[s] \in {"auth", "quarantined"}
KeepsParking(s) == []<><<status[s] = "active" /\ status'[s] = "flood">>_vars

DueIsObserved ==
  \/ \E s \in Sessions : KeepsParking(s)
  \/ \A t \in Targets, k \in Slots :
       (next[t] = k /\ k <= now) ~>
         \/ next[t] # k
         \/ Gone(t) \/ TakenForGone(t)
         \/ t \in Channels /\ paused[t]
         \/ Unusable(owner[ChannelOf[t]])
=============================================================================
