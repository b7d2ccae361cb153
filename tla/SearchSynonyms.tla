--------------------------- MODULE SearchSynonyms ---------------------------
(***************************************************************************)
(* The synonyms of the text search: drafts and publications per locale     *)
(* (services/admin_search_synonyms.py), their reconciliation into          *)
(* Meilisearch by a job of the scheduler                                   *)
(* (services/meilisearch_settings_reconcile.py, core/meilisearch_settings  *)
(* .py), and the advisory lock that keeps schedulers apart                 *)
(* (scheduler/runtime.py, scheduler/locking.py).                           *)
(*                                                                         *)
(* A text stands for what its compilation yields; two texts conflict when  *)
(* they have a key in common.  Meilisearch carries out settings tasks one  *)
(* after the other, some time after it accepted them.                      *)
(***************************************************************************)
EXTENDS Naturals, FiniteSets, Sequences

CONSTANTS
  Locales,
  Texts,          \* source texts of catalogs
  KeysOf,         \* KeysOf[t]: the keys t compiles to, {} if it is not valid
  Empty,          \* the text of an empty catalog
  Schedulers,     \* processes of the scheduler
  MaxActs,        \* bound of the model: changes admins make
  MaxTroubles,    \* bound of the model: failed calls, failed tasks, timeouts,
                  \* lost lock connections, stops and broken runs
  Scenarios,      \* bound of the model: the rows and settings at the start
  None

ASSUME TextsAssumption ==
  Empty \in Texts /\ KeysOf[Empty] = {} /\ \A t \in Texts : IsFiniteSet(KeysOf[t])
ASSUME SynonymBounds == MaxActs \in Nat /\ MaxTroubles \in Nat

(* A revision that is or was published.                                     *)
Revisions == [rev : Nat, text : Texts, compiler : {"now", "before"}]

ASSUME NoneAssumption == None \notin Schedulers /\ None \notin Revisions

VARIABLES
  draft,          \* draft[l]: number and text of the DRAFT revision of locale l
  published,      \* published[l]: its PUBLISHED revision, or None
  archived,       \* archived[l]: texts of its ARCHIVED revisions
  sync,           \* the row search_synonym_sync_states: its status, and the
                  \* snapshots desired_hash and applied_hash are of, or None
  tx,             \* tx[l]: what the open publication of l will desire, or None
  settings,       \* the texts whose synonyms Meilisearch uses
  tasks,          \* settings tasks Meilisearch accepted, oldest first
  holder,         \* the scheduler whose session has the advisory lock, or None
  run,            \* run[s]: where scheduler s is in its reconciliation
  acts, troubles,
  shown           \* history: the settings were once those of the present
                  \* publications, since these are published

catalogs == <<draft, published, archived>>
admins == <<tx, acts>>
provider == <<settings, tasks>>
vars == <<catalogs, sync, admins, provider, holder, run, troubles, shown>>

-----------------------------------------------------------------------------
(* The published revisions, as load_published_snapshots reads them.  A      *)
(* revision's id is its locale and number.                                  *)
Current == [l \in {k \in Locales : published[k] # None} |-> published[l]]
MapOf(snap) == {snap[l].text : l \in DOMAIN snap}

Collide(t, u) == KeysOf[t] \cap KeysOf[u] # {}
(* combine_published_synonym_snapshots: compiled by this compiler, and no   *)
(* key with different alternatives in two locales.                          *)
Trusted(snap) ==
  /\ \A l \in DOMAIN snap : snap[l].compiler = "now"
  /\ \A k, l \in DOMAIN snap : snap[k].text = snap[l].text \/ ~Collide(snap[k].text, snap[l].text)

(* The rows at the start are such as publications and runs have left them.  *)
ASSUME ScenariosAssumption ==
  \A w \in Scenarios :
    LET current == [l \in {k \in Locales : w.published[k] # None} |-> w.published[l]] IN
    /\ DOMAIN w.draft = Locales /\ w.published \in [Locales -> {None} \cup Revisions]
    /\ \A l \in Locales : w.draft[l] \in [rev : Nat, text : Texts]
    /\ \A l \in DOMAIN current : current[l].rev < w.draft[l].rev
    /\ \A k, l \in DOMAIN current : k # l => ~Collide(current[k].text, current[l].text)
    /\ \E D \in SUBSET Locales :
         w.sync \in [status : {"idle", "pending", "syncing", "synced", "failed"},
                      desired : {None, current}, applied : {None} \cup [D -> Revisions]]
    /\ w.sync.status = "synced" => w.sync.desired = current /\ w.sync.applied = current

Nothing == [l \in {} |-> None]
Idle == [at |-> "idle", snap |-> Nothing, task |-> "none", ends |-> "none"]
Off == [Idle EXCEPT !.at = "off"]

Init ==
  /\ \E w \in Scenarios :
       /\ draft = w.draft /\ published = w.published
       /\ sync = w.sync /\ settings = w.settings
  /\ archived = [l \in Locales |-> {}]
  /\ tx = [l \in Locales |-> None]
  /\ tasks = <<>> /\ holder = None
  /\ run = [s \in Schedulers |-> Off]
  /\ acts = 0 /\ troubles = 0
  /\ shown = (sync.status = "synced" \/ settings = MapOf(Current))

Act == acts < MaxActs /\ acts' = acts + 1
Trouble == troubles < MaxTroubles /\ troubles' = troubles + 1

(* A publication locks its catalog with all revisions, and the sync row,    *)
(* which one publication has at a time.                                     *)
(* Mutant: publications of two locales go on side by side.                  *)
NoSyncLock == TRUE
SyncFree == \A l \in Locales : tx[l] = None

-----------------------------------------------------------------------------
(* Admins.  _assert_version refuses a request whose page has another number *)
(* than the version of the present draft.  Whichever page an accepted one   *)
(* comes from, of the present draft or of an earlier one that had as many   *)
(* changes, it does the same to the present draft.                          *)
Accepted(l) == tx[l] = None /\ Act

(* _apply_compile_result                                                    *)
Change(l, t) ==
  /\ Accepted(l)
  /\ draft' = [draft EXCEPT ![l].text = t]
  /\ UNCHANGED <<published, archived, sync, tx, provider, holder, run, troubles>>

(* save_draft, and import_seed with the text of the bundled file.           *)
SaveDraft == \E l \in Locales, t \in Texts : Change(l, t)

(* reset_draft: to the publication, or to a revision of the history.        *)
ResetDraft ==
  \E l \in Locales :
    \/ Change(l, IF published[l] = None THEN Empty ELSE published[l].text)
    \/ \E t \in archived[l] : Change(l, t)

(* publish_draft.  What is checked, and the combined snapshot that will be  *)
(* desired, is read once the locks are held.                                *)
PublishBegins(l) ==
  LET new == [rev |-> draft[l].rev, text |-> draft[l].text, compiler |-> "now"]
      others == (DOMAIN Current) \ {l}
  IN
  /\ Accepted(l) /\ SyncFree
  /\ KeysOf[new.text] # {}
  /\ \A k \in others : ~Collide(published[k].text, new.text)
  /\ tx' = [tx EXCEPT ![l] = [k \in others \cup {l} |-> IF k = l THEN new ELSE published[k]]]
  /\ UNCHANGED <<catalogs, sync, provider, holder, run, troubles>>

PublishCommits(l) ==
  /\ tx[l] # None
  /\ published' = [published EXCEPT ![l] = tx[l][l]]
  /\ archived' = [archived EXCEPT ![l] =
       @ \cup (IF published[l] = None THEN {} ELSE {published[l].text})]
  /\ draft' = [draft EXCEPT ![l].rev = @ + 1]
  /\ sync' = [sync EXCEPT !.status = "pending", !.desired = tx[l]]
  /\ tx' = [tx EXCEPT ![l] = None]
  /\ UNCHANGED <<acts, provider, holder, run, troubles>>

PublishFails(l) ==
  /\ tx[l] # None /\ Trouble
  /\ tx' = [tx EXCEPT ![l] = None]
  /\ UNCHANGED <<catalogs, sync, acts, provider, holder, run>>

(* retry_sync: any version of the row will do.                              *)
RetrySync ==
  /\ SyncFree /\ sync.desired # None /\ Act
  /\ sync' = [sync EXCEPT !.status = "pending"]
  /\ UNCHANGED <<catalogs, tx, provider, holder, run, troubles>>

-----------------------------------------------------------------------------
(* The scheduler.  It takes the lock with the session of a connection it    *)
(* never looks at again, or exits.                                          *)
Starts(s) ==
  /\ run[s] = Off /\ holder = None
  /\ holder' = s
  /\ run' = [run EXCEPT ![s] = Idle]
  /\ UNCHANGED <<catalogs, sync, admins, provider, troubles>>

(* What waits for a task of s waits no more; the task stays.                *)
Forgotten(s) == [i \in DOMAIN tasks |-> IF tasks[i].by = s THEN [tasks[i] EXCEPT !.by = None]
                                        ELSE tasks[i]]

(* A crash, or a stop: jobs under way are cancelled, the lock is released.  *)
Stops(s) ==
  /\ run[s] # Off /\ Trouble
  /\ run' = [run EXCEPT ![s] = Off]
  /\ tasks' = Forgotten(s)
  /\ holder' = IF holder = s THEN None ELSE holder
  /\ UNCHANGED <<catalogs, sync, admins, settings>>

(* PostgreSQL ends the session: the lock is free, the scheduler goes on.    *)
LosesLock ==
  /\ holder # None /\ Trouble
  /\ holder' = None
  /\ UNCHANGED <<catalogs, sync, admins, provider, run>>

-----------------------------------------------------------------------------
(* One reconciliation (MeilisearchSettingsReconciler.run).  A run that was  *)
(* superseded starts again at once (run_until_current), one that ended      *)
(* after the interval: both are RunBegins.  provider_task_uid is a number   *)
(* for the admin's page; record_task_uid writes nothing else.               *)
Goes(s, at) == run' = [run EXCEPT ![s].at = at]
Finishes(s) == run' = [run EXCEPT ![s] = Idle]
Ends(s, how) == run' = [run EXCEPT ![s] = [@ EXCEPT !.at = "record", !.ends = how]]

(* _snapshot_is_current, in the transaction that locked the sync row.       *)
(* Mutant: a run writes what it has found, whatever was published since.    *)
NotCompared(s) == TRUE
SnapshotIsCurrent(s) == run[s].snap = Current

(* Mutant: the ledger is believed instead of Meilisearch.                   *)
SyncedByTheLedger(s) ==
  IF sync.applied = None THEN settings = MapOf(run[s].snap) ELSE sync.applied = run[s].snap
(* get_synonyms and the comparison of the hashes.                           *)
InSync(s) == settings = MapOf(run[s].snap)

(* Mutant: compiled revisions of any release are taken as they are.         *)
RefusesTheEmpty(snap) == DOMAIN snap = {}
Refuses(snap) == DOMAIN snap = {} \/ ~Trusted(snap)

RunBegins(s) ==
  /\ run[s].at = "idle"
  /\ run' = [run EXCEPT ![s] = [Idle EXCEPT
       !.snap = Current,
       !.at = IF Refuses(Current) THEN "record" ELSE "read",
       !.ends = IF DOMAIN Current = {} THEN "nothing"
                ELSE IF Refuses(Current) THEN "untrusted" ELSE "none"]]
  /\ UNCHANGED <<catalogs, sync, admins, provider, holder, troubles>>

ReadSettings(s) ==
  /\ run[s].at = "read"
  /\ IF InSync(s) THEN Ends(s, "synced") ELSE Goes(s, "drifted")
  /\ UNCHANGED <<catalogs, sync, admins, provider, holder, troubles>>

RecordSyncing(s) ==
  /\ run[s].at = "drifted" /\ SyncFree
  /\ IF SnapshotIsCurrent(s)
     THEN /\ sync' = [sync EXCEPT !.status = "syncing", !.desired = run[s].snap]
          /\ Goes(s, "submit")
     ELSE Finishes(s) /\ UNCHANGED sync
  /\ UNCHANGED <<catalogs, admins, provider, holder, troubles>>

(* submit_synonyms: a full replacement is queued.                           *)
Submit(s) ==
  /\ run[s].at = "submit"
  /\ tasks' = Append(tasks, [map |-> MapOf(run[s].snap), by |-> s])
  /\ Goes(s, "wait")
  /\ UNCHANGED <<catalogs, sync, admins, settings, holder, troubles>>

(* It raises; Meilisearch may have queued the task all the same.            *)
SubmitFails(s, queued) ==
  /\ run[s].at = "submit" /\ Trouble
  /\ tasks' = IF queued THEN Append(tasks, [map |-> MapOf(run[s].snap), by |-> None]) ELSE tasks
  /\ Ends(s, "failed")
  /\ UNCHANGED <<catalogs, sync, admins, settings, holder>>

(* wait_for_task returns.                                                   *)
TaskEnds(s) ==
  /\ run[s].at = "wait" /\ run[s].task # "none"
  /\ IF run[s].task = "succeeded" THEN Goes(s, "verify") ELSE Ends(s, "failed")
  /\ UNCHANGED <<catalogs, sync, admins, provider, holder, troubles>>

(* It gives up after meilisearch_settings_task_timeout_seconds.             *)
WaitTimesOut(s) ==
  /\ run[s].at = "wait" /\ run[s].task = "none" /\ Trouble
  /\ tasks' = Forgotten(s)
  /\ Ends(s, "failed")
  /\ UNCHANGED <<catalogs, sync, admins, settings, holder>>

Verify(s) ==
  /\ run[s].at = "verify"
  /\ Ends(s, IF settings = MapOf(run[s].snap) THEN "synced" ELSE "failed")
  /\ UNCHANGED <<catalogs, sync, admins, provider, holder, troubles>>

ReadFails(s) ==
  /\ run[s].at \in {"read", "verify"} /\ Trouble
  /\ Ends(s, "failed")
  /\ UNCHANGED <<catalogs, sync, admins, provider, holder>>

(* record_no_published_revisions, record_success, record_failure: nothing   *)
(* when other revisions are published by now.                               *)
Recorded(s) ==
  LET snap == run[s].snap IN
  CASE run[s].ends = "nothing" ->
         [sync EXCEPT !.desired = None, !.status = IF sync.applied = None THEN "idle" ELSE "failed"]
    [] run[s].ends = "untrusted" -> [sync EXCEPT !.desired = None, !.status = "failed"]
    [] run[s].ends = "failed" -> [sync EXCEPT !.desired = snap, !.status = "failed"]
    [] run[s].ends = "synced" -> [status |-> "synced", desired |-> snap, applied |-> snap]

Record(s) ==
  /\ run[s].at = "record" /\ SyncFree
  /\ sync' = IF SnapshotIsCurrent(s) THEN Recorded(s) ELSE sync
  /\ Finishes(s)
  /\ UNCHANGED <<catalogs, admins, provider, holder, troubles>>

(* The database fails a run: it is logged and dropped.                      *)
RunBreaks(s) ==
  /\ run[s].at \in {"drifted", "record"} /\ Trouble
  /\ Finishes(s)
  /\ UNCHANGED <<catalogs, sync, admins, provider, holder>>

-----------------------------------------------------------------------------
(* Meilisearch carries out its oldest task, or fails it.                    *)
Carry(ok) ==
  LET task == Head(tasks) IN
  /\ tasks # <<>>
  /\ (IF ok THEN UNCHANGED troubles ELSE Trouble)
  /\ settings' = IF ok THEN task.map ELSE settings
  /\ tasks' = Tail(tasks)
  /\ run' = IF task.by = None THEN run
            ELSE [run EXCEPT ![task.by].task = IF ok THEN "succeeded" ELSE "failed"]
  /\ UNCHANGED <<catalogs, sync, admins, holder>>

-----------------------------------------------------------------------------
AdminStep == SaveDraft \/ ResetDraft \/ (\E l \in Locales : PublishBegins(l)) \/ RetrySync
PublishEnds == \E l \in Locales : PublishCommits(l) \/ PublishFails(l)
RunStep(s) ==
  \/ RunBegins(s) \/ ReadSettings(s) \/ RecordSyncing(s) \/ Submit(s)
  \/ TaskEnds(s) \/ Verify(s) \/ Record(s)
RunTrouble(s) ==
  \/ \E queued \in BOOLEAN : SubmitFails(s, queued)
  \/ WaitTimesOut(s) \/ ReadFails(s) \/ RunBreaks(s) \/ Stops(s)

(* Kept beside every step.                                                  *)
History == shown' = ((shown /\ Current' = Current) \/ settings' = MapOf(Current'))

Next ==
  /\ \/ AdminStep \/ PublishEnds \/ LosesLock
     \/ \E s \in Schedulers : Starts(s) \/ RunStep(s) \/ RunTrouble(s)
     \/ \E ok \in BOOLEAN : Carry(ok)
  /\ History

(* A transaction ends; a scheduler is started when none has the lock; its   *)
(* job runs again and again; Meilisearch gets its tasks done.               *)
Spec ==
  /\ Init /\ [][Next]_vars
  /\ WF_vars((\E l \in Locales : PublishCommits(l)) /\ History)
  /\ WF_vars((\E s \in Schedulers : Starts(s)) /\ History)
  /\ \A s \in Schedulers : WF_vars(RunStep(s) /\ History)
  /\ WF_vars(Carry(TRUE) /\ History)

-----------------------------------------------------------------------------
IsSnap(snap) == DOMAIN snap \subseteq Locales /\ \A l \in DOMAIN snap : snap[l] \in Revisions

(* Types, with what the steps of a run imply: a run that writes has a       *)
(* snapshot of trusted revisions or a reason to end, a task waited for has  *)
(* one waiter, and a lock's holder is running.                              *)
TypeOK ==
  /\ \A l \in Locales :
       /\ draft[l] \in [rev : Nat, text : Texts]
       /\ published[l] # None => published[l] \in Revisions /\ published[l].rev < draft[l].rev
       /\ archived[l] \subseteq Texts
  /\ sync.status \in {"idle", "pending", "syncing", "synced", "failed"}
  /\ \A field \in {"desired", "applied"} : sync[field] = None \/ IsSnap(sync[field])
  /\ \A l \in Locales : tx[l] # None => IsSnap(tx[l]) /\ l \in DOMAIN tx[l]
  /\ \A s \in Schedulers :
       /\ run[s].at \in {"off", "idle", "read", "drifted", "submit", "wait", "verify", "record"}
       /\ run[s].ends = "none" <=> run[s].at # "record"
       /\ run[s].at \in {"read", "drifted", "submit", "wait", "verify"} => Trusted(run[s].snap)
       /\ run[s].task # "none" => run[s].at \in {"wait", "verify", "record"}
       /\ run[s].at = "wait" /\ run[s].task = "none"
            <=> \E i \in DOMAIN tasks : tasks[i].by = s
       /\ \A i, j \in DOMAIN tasks : tasks[i].by = s /\ tasks[j].by = s => i = j
  /\ holder # None => holder \in Schedulers /\ run[holder] # Off
  /\ acts \in 0..MaxActs /\ troubles \in 0..MaxTroubles

(* What is published, what is asked of Meilisearch and what is reported     *)
(* agree, whichever publications, runs of two schedulers and late tasks     *)
(* overlap: no key is published in two locales; what the row desires, if    *)
(* anything, is what is published; and a row says SYNCED only of the        *)
(* present publications, and only when Meilisearch had their synonyms at    *)
(* some time since they are published.                                      *)
LedgerIsTrue ==
  /\ \A k, l \in DOMAIN Current : k # l => ~Collide(published[k].text, published[l].text)
  /\ sync.desired # None => sync.desired = Current
  /\ sync.status = "synced" => sync.desired = Current /\ sync.applied = Current /\ shown

(* Once admins are done and troubles are over, what is published is what    *)
(* Meilisearch has and what the row reports, whatever tasks of lost,        *)
(* superseded and given-up runs were still to be carried out.               *)
Converges ==
  <>[](DOMAIN Current # {} /\ Trusted(Current)
       => sync.status = "synced" /\ settings = MapOf(Current))
=============================================================================
