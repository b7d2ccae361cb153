------------------------------ MODULE Crawler ------------------------------
(***************************************************************************)
(* The Telegram crawler on one channel of one account: live listening,     *)
(* catch-up sweeps (crawlers/telegram/main.py, manager.py, runtime.py) and *)
(* the page-by-page backfill of older history by the telegram workers.     *)
(*                                                                         *)
(* Posts are numbered as Telegram numbers them.  Three kinds of readers    *)
(* handle posts with the same code, each in a database session of its own: *)
(* the sweep, the live listener, and one per telegram worker.  A session   *)
(* never reloads the channel row it holds, so each reader compares with    *)
(* the checkpoint and the cursor it remembers, and its commit writes only  *)
(* the columns it changed.                                                 *)
(***************************************************************************)
EXTENDS Naturals, FiniteSets

CONSTANTS
  MaxPosts,       \* bound of the model: posts the channel publishes
  Limit,          \* catchup_message_limit: posts of one page
  MaxTries,       \* attempts at a post before history passes it (3 in the code)
  MaxAutomatic,   \* _BACKFILL_MAX_AUTOMATIC_ATTEMPTS (5 in the code)
  Workers,        \* the telegram workers that run backfill jobs
  NoWorker,       \* NULL lock_owner
  Sweep, Live,    \* the two readers of the crawler process
  Fate,           \* Fate[p]: bound of the model, what may go wrong with post p
  MaxDrops,       \* bound of the model: lost connections to Telegram
  MaxCrashes,     \* bound of the model: processes lost or stopped
  MaxStales,      \* bound of the model: leases taken from a slow owner
  Scenarios       \* bound of the model: the rows at the start

PostIds == 1 .. MaxPosts
Readers == Workers \cup {Sweep, Live}

ASSUME CrawlerBounds ==
  /\ MaxPosts \in Nat /\ MaxDrops \in Nat /\ MaxCrashes \in Nat /\ MaxStales \in Nat
  /\ Limit \in Nat \ {0} /\ MaxTries \in Nat \ {0} /\ MaxAutomatic \in Nat \ {0}
ASSUME CrawlerReaders == NoWorker \notin Workers /\ {Sweep, Live} \cap Workers = {} /\ Sweep # Live
ASSUME FateAssumption ==
  Fate \in [PostIds -> SUBSET {"unsupported", "malformed", "unavailable", "flood", "raises"}]
\* A new channel, or one between whose cursor and checkpoint all was accepted.
ASSUME RowsAtTheStart ==
  \A s \in Scenarios :
    /\ s.published \in 0 .. MaxPosts /\ s.accepted \subseteq 1 .. s.published
    /\ s.chan \in [last : 0 .. s.published, cursor : 0 .. s.published,
                   initial : BOOLEAN, exhausted : BOOLEAN]
    /\ s.chan.cursor # 0 => s.chan.cursor .. s.chan.last \subseteq s.accepted
    /\ ~s.chan.initial => s.chan.cursor = 0 /\ s.chan.last = 0
    /\ s.crawls \in BOOLEAN /\ s.requested \in Nat

VARIABLES
  published,      \* posts 1 .. published are in the channel
  post,           \* post[p]: the SourceChannelPost row
  chan,           \* the SourceChannel row: checkpoint, history cursor, flags
  ingested,       \* the posts an ingest request exists for
  reader,         \* reader[r]: where reader r is and what it remembers
  process,        \* the crawler process: its phase, what it must retry
  parked,         \* the Telegram session is in FLOOD_WAIT
  job,            \* the SourceChannelBackfillJob row
  faults,         \* what went wrong so far, against the bounds
  handled,        \* history: posts that were ingested or given an outcome
  overtaken       \* history: posts the checkpoint left behind unhandled

tables == <<published, post, chan, ingested>>
crawlerVars == <<tables, reader, process, parked, job, faults, handled, overtaken>>

-----------------------------------------------------------------------------
Least(S) == CHOOSE p \in S : \A q \in S : p <= q
Most(S) == CHOOSE p \in S : \A q \in S : q <= p
Smaller(m, n) == IF m < n THEN m ELSE n

(* The first and the last n posts of a set.                                 *)
Earliest(n, S) == {p \in S : Cardinality({q \in S : q < p}) < n}
Newest(n, S) == {p \in S : Cardinality({q \in S : q > p}) < n}

Off == [stage |-> "off", window |-> FALSE, page |-> {}, at |-> 0, seen |-> {}, cur |-> 0,
        tries |-> 0, got |-> 0, want |-> 0, from |-> 0, bad |-> FALSE, mine |-> FALSE]
Listening == [Off EXCEPT !.stage = "turn"]

Forward(r) == r \notin Workers                        \* advance_checkpoint
History(r) == r \in Workers \/ reader[r].window       \* advance_history_cursor

(* Pages as the adapter lists them: the newest posts of the channel, those  *)
(* above a checkpoint oldest first, those below the cursor newest first.    *)
LatestPage == Newest(Limit, 1 .. published)
(* Mutant: a forward page starts one post too late.                         *)
ForwardPageTooLate(last) == Earliest(Limit, (last + 2) .. published)
ForwardPage(last) == Earliest(Limit, (last + 1) .. published)
OlderPage(n) == Newest(n, {p \in 1 .. published : p < chan.cursor})

NextOf(r) == IF r \in Workers THEN Most(reader[r].page) ELSE Least(reader[r].page)

ActiveJob == {"queued", "running", "waiting_retry", "waiting_capacity"}

(* The rows a channel may have when the processes start: post p is none or  *)
(* accepted, as a completed initial window left it.                         *)
CrawlerInit ==
  /\ \E s \in Scenarios :
       /\ published = s.published
       /\ chan = s.chan
       /\ ingested = s.accepted
       /\ post = [p \in PostIds |-> IF p \in s.accepted THEN [status |-> "accepted", tries |-> 1]
                                  ELSE [status |-> "none", tries |-> 0]]
       /\ process = [pc |-> IF s.crawls THEN "down" ELSE "off", applied |-> FALSE, retry |-> FALSE]
       /\ job = [status |-> "none", owner |-> NoWorker, left |-> s.requested,
                 attempts |-> 0, open |-> FALSE, quarantined |-> FALSE]
       /\ handled = s.accepted
  /\ reader = [r \in Readers |-> Off]
  /\ parked = FALSE
  /\ faults = [drops |-> 0, crashes |-> 0, stales |-> 0]
  /\ overtaken = {}

Fault(kind, bound) == faults[kind] < bound /\ faults' = [faults EXCEPT ![kind] = @ + 1]

(* A handler queues what is published while the listener is registered.     *)
Publish ==
  /\ published < MaxPosts
  /\ published' = published + 1
  /\ reader' = IF reader[Live].stage = "off" THEN reader
               ELSE [reader EXCEPT ![Live].page = @ \cup {published + 1}]
  /\ UNCHANGED <<post, chan, ingested, process, parked, job, faults, handled, overtaken>>

-----------------------------------------------------------------------------
(* How a page ends for the backfill job of worker w.                        *)
Owns(w) == reader[w].mine /\ job.owner = w

(* Mutant: a failed page is retried for ever.                               *)
RetriedForEver(j, manual) ==
  [j EXCEPT !.status = IF manual THEN "failed" ELSE "waiting_retry",
            !.owner = NoWorker, !.open = FALSE]

(* _schedule_backfill_retry, whoever owns the lease.                        *)
Retried(j, manual) ==
  [j EXCEPT !.status = IF manual \/ j.attempts >= MaxAutomatic THEN "failed" ELSE "waiting_retry",
            !.owner = NoWorker, !.open = FALSE]

(* What the page scanned counts against the request, but for a post that    *)
(* must be retried.                                                         *)
Accounted(w, halted) ==
  [job EXCEPT !.left = @ - Smaller(@, reader[w].got - (IF halted THEN 1 ELSE 0)),
              !.quarantined = @ \/ reader[w].bad]

Completed(j) ==
  [j EXCEPT !.status = IF j.quarantined THEN "completed_with_failures" ELSE "completed",
            !.owner = NoWorker, !.open = FALSE]

(* Mutant: a page that ends keeps its lease.                                *)
ReleasedWithLease(j) == [j EXCEPT !.status = "queued"]
(* The next page is a new time slice of the same attempt.                   *)
Released(j) == [j EXCEPT !.status = "queued", !.owner = NoWorker]

Completes(w, exhausted) ==
  \/ reader[w].got < reader[w].want \/ exhausted \/ Accounted(w, FALSE).left = 0

JobAfter(w, how, exhausted) ==
  IF how = "raised" \/ ~Owns(w) THEN Retried(job, FALSE)
  ELSE IF how # "page" THEN Retried(Accounted(w, how = "halted"), FALSE)
  ELSE IF Completes(w, exhausted) THEN Completed(Accounted(w, FALSE))
  ELSE Released(Accounted(w, FALSE))

(* Reader r gives up: halted at a post to retry, interrupted between posts, *)
(* flooded, or raised out of the loop.  A sweep that raises, or ends with   *)
(* the session parked, takes the account's client and listener with it.     *)
Stop(r, how) ==
  /\ parked' = (parked \/ how = "flood")
  /\ reader' = [x \in Readers |->
       IF x = r \/ (r = Sweep /\ x = Live /\ (how = "raised" \/ parked')) THEN Off ELSE reader[x]]
  /\ process' = IF r = Sweep THEN [process EXCEPT !.pc = "idle", !.retry = TRUE] ELSE process
  /\ job' = IF r \in Workers THEN JobAfter(r, how, FALSE) ELSE job

(* Reader r moves on from post p: the checkpoint advances if ahead, the     *)
(* cursor if older, both by what r remembers.  The live listener may leave  *)
(* unhandled posts behind the checkpoint.                                   *)
Pass(r, stage, ahead, older, bad) ==
  LET p == reader[r].at
      moves == ahead /\ \A m \in reader[r].seen : p > m
      deeper == older /\ (reader[r].cur = 0 \/ p < reader[r].cur)
  IN /\ chan' = [chan EXCEPT !.last = IF moves THEN p ELSE @,
                             !.cursor = IF deeper THEN p ELSE @]
     /\ reader' = [reader EXCEPT ![r] =
          [@ EXCEPT !.stage = stage, !.at = IF stage = "turn" THEN 0 ELSE p,
                    !.tries = IF stage = "turn" THEN 0 ELSE reader[r].tries,
                    !.seen = IF moves THEN {p} ELSE reader[r].seen,
                    !.cur = IF deeper THEN p ELSE reader[r].cur,
                    !.bad = reader[r].bad \/ (bad /\ r # Live)]]
     /\ handled' = handled \cup {p}
     /\ overtaken' = IF moves /\ r = Live THEN overtaken \cup (1 .. (p - 1) \ handled) ELSE overtaken

-----------------------------------------------------------------------------
(* One post.  _observe_post commits before anything can fail.               *)
Observe(r) ==
  /\ reader[r].stage = "turn" /\ reader[r].page # {}
  /\ LET p == NextOf(r)
         tries == Smaller(post[p].tries + 1, MaxTries)
         seen == IF reader[r].seen = {} THEN {chan.last} ELSE reader[r].seen
     IN /\ post' = [post EXCEPT ![p] = [status |-> "observed", tries |-> tries]]
        /\ reader' = [reader EXCEPT ![r] =
             [@ EXCEPT !.stage = "observed", !.at = p, !.page = reader[r].page \ {p},
                       !.tries = IF History(r) THEN tries ELSE 0,
                       !.seen = seen, !.got = IF r = Live THEN 0 ELSE reader[r].got + 1]]
  /\ UNCHANGED <<published, chan, ingested, process, parked, job, faults, handled, overtaken>>

SetStatus(r, s) == post' = [post EXCEPT ![reader[r].at].status = s]

(* Unsupported media, or a payload that is too large.                       *)
Refuse(r) ==
  /\ reader[r].stage = "observed" /\ "unsupported" \in Fate[reader[r].at]
  /\ SetStatus(r, "unsupported")
  /\ Pass(r, "turn", Forward(r), History(r), FALSE)
  /\ UNCHANGED <<published, ingested, process, parked, job, faults>>

(* try_accept_without_media: known already, or to be downloaded.            *)
Resolve(r) ==
  /\ reader[r].stage = "observed"
  /\ reader' = [reader EXCEPT ![r].stage =
                  IF reader[r].at \in ingested THEN "accepted" ELSE "downloading"]
  /\ UNCHANGED <<tables, process, parked, job, faults, handled, overtaken>>

(* The post can never be ingested; history quarantines it.                  *)
Malformed(r) ==
  /\ reader[r].stage = "downloading" /\ "malformed" \in Fate[reader[r].at]
  /\ SetStatus(r, "failed")
  /\ Pass(r, "turn", Forward(r), History(r), r \in Workers)
  /\ UNCHANGED <<published, ingested, process, parked, job, faults>>

(* The download fails.  Forward, the post is left failed and not passed;    *)
(* in history the page halts at it, or quarantines it after its last try.   *)
Unavailable(r) ==
  /\ reader[r].stage = "downloading" /\ "unavailable" \in Fate[reader[r].at]
  /\ SetStatus(r, "failed")
  /\ IF History(r) /\ reader[r].tries < MaxTries
     THEN /\ Stop(r, "halted")
          /\ handled' = handled \cup {reader[r].at}
          /\ UNCHANGED <<chan, overtaken>>
     ELSE /\ Pass(r, "turn", History(r) /\ Forward(r), History(r), TRUE)
          /\ UNCHANGED <<process, parked, job>>
  /\ UNCHANGED <<published, ingested, faults>>

(* A flood wait commits the failure and parks the session.                  *)
Flood(r) ==
  /\ reader[r].stage = "downloading" /\ "flood" \in Fate[reader[r].at]
  /\ SetStatus(r, "failed")
  /\ Stop(r, "flood")
  /\ handled' = handled \cup {reader[r].at}
  /\ UNCHANGED <<published, chan, ingested, faults, overtaken>>

(* Accepting raises: what the session had not committed is lost.            *)
Raise(r) ==
  /\ reader[r].stage = "downloading" /\ "raises" \in Fate[reader[r].at]
  /\ Stop(r, "raised")
  /\ UNCHANGED <<tables, faults, handled, overtaken>>

(* accept_crawler_post commits the request; losing a race to another        *)
(* reader rolls back, and the session then reads the channel again.         *)
Accept(r) ==
  /\ reader[r].stage = "downloading"
  /\ ingested' = ingested \cup {reader[r].at}
  /\ handled' = handled \cup {reader[r].at}
  /\ \E reread \in {reader[r].at \in ingested, FALSE} :
       reader' = [reader EXCEPT ![r] =
         [@ EXCEPT !.stage = "accepted",
                   !.seen = IF reread THEN {chan.last} ELSE reader[r].seen,
                   !.cur = IF reread THEN chan.cursor ELSE reader[r].cur]]
  /\ UNCHANGED <<published, post, chan, process, parked, job, faults, overtaken>>

(* The ingest service commits the checkpoint before the post's outcome.     *)
Advance(r) ==
  /\ reader[r].stage = "accepted" /\ Forward(r)
  /\ Pass(r, "advanced", TRUE, FALSE, FALSE)
  /\ UNCHANGED <<published, post, ingested, process, parked, job, faults>>

RecordAccepted(r) ==
  /\ reader[r].stage = IF Forward(r) THEN "advanced" ELSE "accepted"
  /\ SetStatus(r, "accepted")
  /\ Pass(r, "turn", FALSE, History(r), FALSE)
  /\ UNCHANGED <<published, ingested, process, parked, job, faults>>

(* The connection is lost, or a flood wait is imposed, between two posts;   *)
(* the pages of history are loaded whole before their first post.           *)
Interrupt(r, how) ==
  /\ reader[r].stage = "turn"
  /\ History(r) => reader[r].got = 0
  /\ how = "flood" => r # Live
  /\ Fault("drops", MaxDrops)
  /\ Stop(r, how)
  /\ UNCHANGED <<tables, handled, overtaken>>

HandlePost(r) ==
  \/ Observe(r) \/ Refuse(r) \/ Resolve(r) \/ Malformed(r) \/ Unavailable(r)
  \/ Flood(r) \/ Raise(r) \/ Accept(r) \/ Advance(r) \/ RecordAccepted(r)

-----------------------------------------------------------------------------
(* The crawler process.  start_live_all: a parked session has no listener,  *)
(* a registered one is kept unless the reload stopped it first.             *)
Started(reloads, ok) ==
  IF parked THEN Off
  ELSE IF reader[Live].stage # "off" /\ ~reloads THEN reader[Live]
  ELSE IF ok THEN Listening ELSE Off

Reconciles(reloads, ok) ==
  /\ reader' = [reader EXCEPT ![Live] = Started(reloads, ok)]
  /\ process' = [pc |-> "reconciling", applied |-> parked,
                 retry |-> ~parked /\ Started(reloads, ok) = Off]
  /\ IF ok THEN UNCHANGED faults ELSE Fault("drops", MaxDrops)
  /\ UNCHANGED <<tables, parked, job, handled, overtaken>>

(* At the start, and when the session's state differs from the one applied; *)
(* a reload on a signal is as a stop and a start.                           *)
Reload ==
  /\ process.pc = "down" \/ (process.pc = "idle" /\ process.applied # parked)
  /\ \E ok \in BOOLEAN : Reconciles(TRUE, ok)

RetryIncomplete ==
  /\ process.pc = "idle" /\ process.applied = parked /\ process.retry
  /\ \E ok \in BOOLEAN : Reconciles(FALSE, ok)

(* supervise_live_listeners restarts what ended, without a catch-up.        *)
Supervise ==
  /\ process.pc = "idle"
  /\ Started(FALSE, TRUE) # reader[Live]
  /\ reader' = [reader EXCEPT ![Live] = Started(FALSE, TRUE)]
  /\ UNCHANGED <<tables, process, parked, job, faults, handled, overtaken>>

ForwardSweep(last) ==
  [Off EXCEPT !.stage = "turn", !.page = ForwardPage(last), !.seen = {last}, !.from = last]
WindowSweep ==
  [Off EXCEPT !.stage = "turn", !.page = LatestPage, !.seen = {chan.last},
              !.window = TRUE, !.cur = chan.cursor]

(* Posts that a restarted initial window leaves out.                        *)
OutOfWindow == {p \in 1 .. published : chan.cursor # 0 /\ p > chan.cursor} \ LatestPage

(* catch_up_channel, if the session is runnable.                            *)
BeginSweep ==
  /\ process.pc = "reconciling" /\ reader[Sweep] = Off
  /\ IF parked
     THEN /\ process' = [process EXCEPT !.pc = "idle"]
          /\ UNCHANGED <<reader, overtaken>>
     ELSE /\ reader' = [reader EXCEPT ![Sweep] =
                           IF chan.initial THEN ForwardSweep(chan.last) ELSE WindowSweep]
          /\ overtaken' = IF chan.initial THEN overtaken
                          ELSE overtaken \cup (OutOfWindow \ handled)
          /\ UNCHANGED process
  /\ UNCHANGED <<tables, parked, job, faults, handled>>

Remembered == Most(reader[Sweep].seen)

(* The initial window is done: the forward pages follow.                    *)
WindowEnds ==
  /\ reader[Sweep].stage = "turn" /\ reader[Sweep].page = {} /\ reader[Sweep].window
  /\ chan' = [chan EXCEPT !.initial = TRUE, !.exhausted = @ \/ reader[Sweep].got < Limit]
  /\ reader' = [reader EXCEPT ![Sweep] = [ForwardSweep(Remembered) EXCEPT !.bad = reader[Sweep].bad]]
  /\ UNCHANGED <<published, post, ingested, process, parked, job, faults, handled, overtaken>>

(* Mutant: a full page is followed by another even if nothing moved.        *)
AnotherFullPage == reader[Sweep].got = Limit
AnotherPage == reader[Sweep].got = Limit /\ Remembered # reader[Sweep].from

NextPage ==
  /\ reader[Sweep].stage = "turn" /\ reader[Sweep].page = {} /\ ~reader[Sweep].window
  /\ AnotherPage
  /\ reader' = [reader EXCEPT ![Sweep] = [ForwardSweep(Remembered) EXCEPT !.bad = reader[Sweep].bad]]
  /\ UNCHANGED <<tables, process, parked, job, faults, handled, overtaken>>

SweepEnds ==
  /\ reader[Sweep].stage = "turn" /\ reader[Sweep].page = {} /\ ~reader[Sweep].window
  /\ ~AnotherPage
  /\ reader' = [reader EXCEPT ![Sweep] = Off, ![Live] = IF parked THEN Off ELSE @]
  /\ process' = [process EXCEPT !.pc = "idle", !.retry = @ \/ reader[Sweep].bad]
  /\ UNCHANGED <<tables, parked, job, faults, handled, overtaken>>

(* The process is lost or stopped; the schedulers that capture engagement   *)
(* put a session whose flood wait is over back to ACTIVE.                   *)
CrawlerStops ==
  /\ process.pc \in {"reconciling", "idle"}
  /\ Fault("crashes", MaxCrashes)
  /\ process' = [process EXCEPT !.pc = "down", !.retry = FALSE]
  /\ reader' = [reader EXCEPT ![Sweep] = Off, ![Live] = Off]
  /\ UNCHANGED <<tables, parked, job, handled, overtaken>>

Unpark ==
  /\ parked /\ parked' = FALSE
  /\ UNCHANGED <<tables, reader, process, job, faults, handled, overtaken>>

-----------------------------------------------------------------------------
(* The telegram workers.  queue_source_channel_backfill by an admin.        *)
QueueBackfill ==
  /\ job.status = "none" /\ job.left > 0
  /\ ~parked /\ chan.initial /\ chan.cursor # 0 /\ ~chan.exhausted
  /\ job' = [job EXCEPT !.status = "queued"]
  /\ UNCHANGED <<tables, reader, process, parked, faults, handled, overtaken>>

(* A lease is stale when its owner is gone, or slower than five minutes.    *)
Claimable(w) ==
  /\ reader[w] = Off
  /\ \/ job.status \in ActiveJob \ {"running"} /\ UNCHANGED faults
     \/ job.status = "running" /\ reader[job.owner] = Off /\ UNCHANGED faults
     \/ job.status = "running" /\ reader[job.owner] # Off /\ Fault("stales", MaxStales)

(* Historical admission is closed.                                          *)
ClaimWaits(w) ==
  /\ Claimable(w)
  /\ job.status # "waiting_capacity"
  /\ job' = [job EXCEPT !.status = "waiting_capacity", !.owner = NoWorker]
  /\ UNCHANGED <<tables, reader, process, parked, handled, overtaken>>

(* A new lease generation; an attempt left open is taken up again.          *)
Claim(w) ==
  /\ Claimable(w)
  /\ job' = [job EXCEPT !.status = "running", !.owner = w, !.open = TRUE,
                        !.attempts = IF job.open THEN @ ELSE Smaller(@ + 1, MaxAutomatic)]
  /\ reader' = [r \in Readers |->
       IF r = w THEN [Off EXCEPT !.stage = "claimed", !.mine = TRUE]
       ELSE [reader[r] EXCEPT !.mine = FALSE]]
  /\ UNCHANGED <<tables, process, parked, handled, overtaken>>

(* One page below the history cursor; a session that is not runnable needs  *)
(* an operator.                                                             *)
BeginPage(w) ==
  /\ reader[w].stage = "claimed"
  /\ LET want == Smaller(job.left, Limit) IN
     IF parked
     THEN job' = Retried(job, TRUE) /\ reader' = [reader EXCEPT ![w] = Off]
     ELSE IF want = 0
     THEN job' = Completed(job) /\ reader' = [reader EXCEPT ![w] = Off]
     ELSE /\ reader' = [reader EXCEPT ![w] = [@ EXCEPT !.stage = "turn", !.want = want,
                           !.page = OlderPage(want), !.cur = chan.cursor]]
          /\ UNCHANGED job
  /\ UNCHANGED <<tables, process, parked, faults, handled, overtaken>>

PageEnds(w) ==
  /\ reader[w].stage = "turn" /\ reader[w].page = {}
  /\ chan' = [chan EXCEPT !.exhausted = @ \/ reader[w].got < reader[w].want]
  /\ job' = JobAfter(w, "page", chan'.exhausted)
  /\ reader' = [reader EXCEPT ![w] = Off]
  /\ UNCHANGED <<published, post, ingested, process, parked, faults, handled, overtaken>>

(* A worker that is stopped gives its job back, whoever owns it by then; a  *)
(* worker that is lost leaves its lease.                                    *)
WorkerStops(w, gently) ==
  /\ reader[w] # Off
  /\ Fault("crashes", MaxCrashes)
  /\ reader' = [reader EXCEPT ![w] = Off]
  /\ job' = IF gently THEN [job EXCEPT !.status = "queued", !.owner = NoWorker] ELSE job
  /\ UNCHANGED <<tables, process, parked, handled, overtaken>>

-----------------------------------------------------------------------------
SweepTurn ==
  \/ BeginSweep \/ HandlePost(Sweep) \/ WindowEnds \/ NextPage \/ SweepEnds
PageTurn(w) == BeginPage(w) \/ HandlePost(w) \/ PageEnds(w)

CrawlerNext ==
  \/ Publish \/ Reload \/ RetryIncomplete \/ Supervise \/ CrawlerStops \/ Unpark
  \/ SweepTurn \/ HandlePost(Live)
  \/ \E r \in Readers : \E how \in {"interrupted", "flood"} : Interrupt(r, how)
  \/ QueueBackfill
  \/ \E w \in Workers : \/ ClaimWaits(w) \/ Claim(w) \/ PageTurn(w)
                        \/ \E gently \in BOOLEAN : WorkerStops(w, gently)

CrawlerSpec == CrawlerInit /\ [][CrawlerNext]_crawlerVars

(* The sweep and the workers keep turning, and historical admission opens   *)
(* again some day.                                                          *)
FairCrawlerSpec ==
  /\ CrawlerSpec
  /\ WF_crawlerVars(SweepTurn)
  /\ WF_crawlerVars(\E w \in Workers : Claim(w))
  /\ \A w \in Workers : WF_crawlerVars(PageTurn(w))

-----------------------------------------------------------------------------
ReaderType ==
  [stage : {"off", "claimed", "turn", "observed", "downloading", "accepted", "advanced"},
   window : BOOLEAN, page : SUBSET PostIds, at : 0 .. MaxPosts, seen : SUBSET (0 .. MaxPosts),
   cur : 0 .. MaxPosts, tries : 0 .. MaxTries, got : 0 .. Limit, want : 0 .. Limit,
   from : 0 .. MaxPosts, bad : BOOLEAN, mine : BOOLEAN]

(* The values the rows and the processes can hold; a job is leased exactly  *)
(* while it runs.                                                           *)
CrawlerTypeOK ==
  /\ published \in 0 .. MaxPosts
  /\ post \in [PostIds -> [status : {"none", "observed", "accepted", "unsupported", "failed"},
                         tries : 0 .. MaxTries]]
  /\ chan \in [last : 0 .. MaxPosts, cursor : 0 .. MaxPosts, initial : BOOLEAN, exhausted : BOOLEAN]
  /\ ingested \subseteq PostIds /\ handled \subseteq PostIds /\ overtaken \subseteq PostIds
  /\ reader \in [Readers -> ReaderType]
  /\ process \in [pc : {"off", "down", "reconciling", "idle"}, applied : BOOLEAN, retry : BOOLEAN]
  /\ parked \in BOOLEAN
  /\ job \in [status : {"none", "failed", "completed", "completed_with_failures"} \cup ActiveJob,
              owner : Workers \cup {NoWorker}, left : Nat, attempts : 0 .. MaxAutomatic,
              open : BOOLEAN, quarantined : BOOLEAN]
  /\ job.owner # NoWorker <=> job.status = "running"
  /\ faults \in [drops : 0 .. MaxDrops, crashes : 0 .. MaxCrashes, stales : 0 .. MaxStales]

(* Between the history cursor and the checkpoint no post is silently left   *)
(* out: each was ingested or given an outcome, whatever readers raced over  *)
(* it, with whatever stale copies of the channel, and whatever stopped them *)
(* half-way; the exceptions are the posts a live post or a restarted        *)
(* initial window left behind (_drive_catchup_loop, _advance_checkpoint).   *)
NothingSkipped ==
  chan.cursor # 0 => chan.cursor .. chan.last \subseteq handled \cup overtaken

(* Every catch-up comes to an end, however many posts fail again and again  *)
(* (_drain_forward_pages), and so does a backfill job: posts that fail are  *)
(* quarantined, pages that fail are retried a bounded number of times, and  *)
(* a stale owner only reopens it as often as leases are lost                *)
(* (_claim_backfill_job, _schedule_backfill_retry).                         *)
ReadingEnds ==
  /\ process.pc = "reconciling" ~> process.pc # "reconciling"
  /\ <>[](job.status \notin ActiveJob)
=============================================================================
