-------------------------- MODULE ServiceProofs --------------------------
(***************************************************************************)
(* Proofs about two services that lock rows in a set order: the search     *)
(* synonyms first, account linking after them.                             *)
(*                                                                         *)
(* SearchSynonyms, for any locales, texts and schedulers: the row never    *)
(* claims more than Meilisearch had, and no key is published in two        *)
(* locales.  Publications exclude each other by the lock of the sync row,  *)
(* so what one compiled and compared stands when it commits.  A run        *)
(* compares its snapshot instead: numbers of revisions only grow, so a     *)
(* snapshot that was superseded is never current again (SnapIsOld), and    *)
(* one that is has been current since it was taken.                        *)
(***************************************************************************)
EXTENDS SearchSynonyms, AccountLink, TLAPS, WellFoundedInduction

(* What an administrator changes: drafts and publications.  A publication   *)
(* under way has the published revisions and its own, which is the draft's  *)
(* number and conflicts with none.                                          *)
Drafts == [rev : Nat, text : Texts]

Texted ==
  /\ DOMAIN draft = Locales /\ \A l \in Locales : draft[l] \in Drafts
  /\ archived \in [Locales -> SUBSET Texts]

PublicationsOK ==
  /\ published \in [Locales -> {None} \cup Revisions]
  /\ \A l \in Locales : published[l] # None => published[l].rev < draft[l].rev
  /\ \A k, l \in Locales : k # l /\ published[k] # None /\ published[l] # None
       => ~Collide(published[k].text, published[l].text)

With(l, new) ==
  [k \in (DOMAIN Current \ {l}) \cup {l} |-> IF k = l THEN new ELSE published[k]]

TxOK ==
  /\ DOMAIN tx = Locales
  /\ \A k, l \in Locales : tx[k] # None /\ tx[l] # None => k = l
  /\ \A l \in Locales : tx[l] # None =>
       /\ tx[l] = With(l, tx[l][l])
       /\ tx[l][l] \in Revisions /\ tx[l][l].rev = draft[l].rev
       /\ \A k \in Locales \ {l} :
            published[k] # None => ~Collide(published[k].text, tx[l][l].text)

CatalogsOK == Texted /\ PublicationsOK /\ TxOK

Snaps == UNION {[D -> Revisions] : D \in SUBSET Locales}

(* The row.                                                                 *)
Statuses == {"idle", "pending", "syncing", "synced", "failed"}

SyncOK ==
  /\ sync \in [status : Statuses, desired : {None} \cup Snaps, applied : {None} \cup Snaps]
  /\ sync.desired # None => sync.desired = Current
  /\ sync.status = "synced" => sync.desired = Current /\ sync.applied = Current /\ shown

(* A run: its snapshot is older than every draft, so that no publication to *)
(* come can make it current again; and if it saw it in Meilisearch and it   *)
(* is current, Meilisearch had it since it is published.                    *)
Runs ==
  [at : {"off", "idle", "read", "drifted", "submit", "wait", "verify", "record"},
   snap : Snaps, task : {"none", "succeeded", "failed"},
   ends : {"none", "nothing", "untrusted", "failed", "synced"}]

RunShape(r) ==
  /\ r.ends = "none" <=> r.at # "record"
  /\ r.at \in {"read", "drifted", "submit", "wait", "verify"} => Trusted(r.snap)
  /\ r.task # "none" => r.at \in {"wait", "verify", "record"}

SnapIsOld(r) == \A l \in DOMAIN r.snap : r.snap[l].rev < draft[l].rev
SeenSince(r) == r.ends = "synced" /\ r.snap = Current => shown

RunsOK ==
  /\ run \in [Schedulers -> Runs]
  /\ \A s \in Schedulers : RunShape(run[s]) /\ SnapIsOld(run[s]) /\ SeenSince(run[s])

(* The tasks of Meilisearch, and who waits for one.                         *)
Awaits(s) == run[s].at = "wait" /\ run[s].task = "none"

QueueOK ==
  /\ tasks \in Seq([map : SUBSET Texts, by : Schedulers \cup {None}])
  /\ \A s \in Schedulers : Awaits(s) <=> \E i \in DOMAIN tasks : tasks[i].by = s
  /\ \A s \in Schedulers : \A i, j \in DOMAIN tasks :
       tasks[i].by = s /\ tasks[j].by = s => i = j

LockOK == holder # None => holder \in Schedulers /\ run[holder] # Off

CountsOK == acts \in 0 .. MaxActs /\ troubles \in 0 .. MaxTroubles /\ shown \in BOOLEAN

IInv == CatalogsOK /\ SyncOK /\ RunsOK /\ QueueOK /\ LockOK /\ CountsOK

-----------------------------------------------------------------------------
(* Snapshots.                                                               *)
LEMMA CurrentIsSnap ==
  ASSUME PublicationsOK
  PROVE  /\ Current \in Snaps
         /\ \A l \in DOMAIN Current : l \in Locales /\ published[l] # None /\ Current[l] = published[l]
<1> DEFINE D == {k \in Locales : published[k] # None}
<1>1. Current \in [D -> Revisions] /\ DOMAIN Current = D
  BY DEF PublicationsOK, Current
<1>2. \A l \in D : Current[l] = published[l]
  BY DEF Current
<1>. QED BY <1>1, <1>2 DEF Snaps

LEMMA SnapShape ==
  ASSUME NEW snap \in Snaps
  PROVE  IsSnap(snap)
BY DEF Snaps, IsSnap

LEMMA NothingIsSnap == Nothing \in Snaps /\ DOMAIN Nothing = {}
<1>1. Nothing \in [{} -> Revisions]
  BY DEF Nothing
<1>. QED BY <1>1 DEF Snaps, Nothing

LEMMA WithIsSnap ==
  ASSUME PublicationsOK, NEW l \in Locales, NEW new \in Revisions
  PROVE  /\ With(l, new) \in Snaps /\ l \in DOMAIN With(l, new) /\ With(l, new)[l] = new
         /\ DOMAIN With(l, new) \subseteq Locales
<1> DEFINE D == (DOMAIN Current \ {l}) \cup {l}
<1>1. \A k \in DOMAIN Current : k \in Locales /\ published[k] \in Revisions
  BY CurrentIsSnap DEF PublicationsOK
<1>2. With(l, new) \in [D -> Revisions] /\ D \in SUBSET Locales
  BY <1>1 DEF With
<1>. QED BY <1>2 DEF Snaps, With

(* What a step that changes no draft and no publication leaves as it is.    *)
LEMMA CatalogsKept ==
  ASSUME CatalogsOK, History, UNCHANGED <<draft, published, archived, tx>>
  PROVE  CatalogsOK' /\ Current' = Current /\ (shown => shown')
<1>1. Current' = Current
  BY DEF Current
<1>2. Texted' /\ PublicationsOK'
  BY DEF CatalogsOK, Texted, PublicationsOK, Drafts
<1>3. TxOK'
  BY <1>1 DEF CatalogsOK, TxOK, With
<1>. QED BY <1>1, <1>2, <1>3 DEF CatalogsOK, History

-----------------------------------------------------------------------------
(* Runs.  One scheduler's run becomes r.                                    *)
OneRun(s, r) == run' = [run EXCEPT ![s] = r]

LEMMA OneRunOnly ==
  ASSUME NEW s \in Schedulers, NEW r, run \in [Schedulers -> Runs], OneRun(s, r)
  PROVE  run'[s] = r /\ \A v \in Schedulers : v # s => run'[v] = run[v]
BY DEF OneRun

LEMMA RunMoves ==
  ASSUME RunsOK, NEW s \in Schedulers, NEW r \in Runs, OneRun(s, r),
         draft' = draft, Current' = Current, shown => shown',
         RunShape(r), SnapIsOld(r), r.ends = "synced" /\ r.snap = Current => shown'
  PROVE  RunsOK'
<1>1. run' \in [Schedulers -> Runs]
  BY DEF RunsOK, OneRun
<1>2. run'[s] = r /\ \A v \in Schedulers : v # s => run'[v] = run[v]
  BY OneRunOnly DEF RunsOK
<1>3. \A v \in Schedulers : RunShape(run[v]) /\ SnapIsOld(run[v]) /\ SeenSince(run[v])
  BY DEF RunsOK
<1>4. ASSUME NEW v \in Schedulers
      PROVE  (RunShape(run[v]) /\ SnapIsOld(run[v]) /\ SeenSince(run[v]))'
  <2>1. CASE v = s
    BY <1>2, <2>1 DEF RunShape, Trusted, SnapIsOld, SeenSince
  <2>2. CASE v # s
    BY <1>2, <1>3, <2>2 DEF RunShape, Trusted, SnapIsOld, SeenSince
  <2>. QED BY <2>1, <2>2
<1>. QED BY <1>1, <1>4 DEF RunsOK

LEMMA RunsKept ==
  ASSUME RunsOK, run' = run, draft' = draft, Current' = Current, shown => shown'
  PROVE  RunsOK'
BY DEF RunsOK, RunShape, Trusted, SnapIsOld, SeenSince

(* What the moves of a run leave in its record.                             *)
LEMMA GoesTo ==
  ASSUME run \in [Schedulers -> Runs], NEW s \in Schedulers,
         NEW at \in {"off", "idle", "read", "drifted", "submit", "wait", "verify", "record"}, Goes(s, at)
  PROVE  \E r \in Runs : /\ OneRun(s, r) /\ r.at = at /\ r.snap = run[s].snap
                         /\ r.task = run[s].task /\ r.ends = run[s].ends
<1> DEFINE r == [run[s] EXCEPT !.at = at]
<1>1. run[s] \in Runs
  OBVIOUS
<1>2. /\ r \in Runs /\ r.at = at /\ r.snap = run[s].snap
      /\ r.task = run[s].task /\ r.ends = run[s].ends
  BY <1>1 DEF Runs
<1>3. OneRun(s, r)
  BY DEF Goes, OneRun
<1>. QED BY <1>2, <1>3

LEMMA EndsAs ==
  ASSUME run \in [Schedulers -> Runs], NEW s \in Schedulers,
         NEW how \in {"nothing", "untrusted", "failed", "synced"}, Ends(s, how)
  PROVE  \E r \in Runs : /\ OneRun(s, r) /\ r.at = "record" /\ r.snap = run[s].snap
                         /\ r.task = run[s].task /\ r.ends = how
<1> DEFINE r == [run[s] EXCEPT !.at = "record", !.ends = how]
<1>1. run[s] \in Runs
  OBVIOUS
<1>2. /\ r \in Runs /\ r.at = "record" /\ r.snap = run[s].snap
      /\ r.task = run[s].task /\ r.ends = how
  BY <1>1 DEF Runs
<1>3. OneRun(s, r)
  BY DEF Ends, OneRun
<1>. QED BY <1>2, <1>3

LEMMA IdleAndOff ==
  /\ Idle \in Runs /\ Off \in Runs
  /\ Idle.at = "idle" /\ Idle.task = "none" /\ Idle.ends = "none" /\ Idle.snap = Nothing
  /\ Off.at = "off" /\ Off.task = "none" /\ Off.ends = "none" /\ Off.snap = Nothing
BY NothingIsSnap DEF Idle, Off, Runs

LEMMA Finished ==
  ASSUME NEW s \in Schedulers, Finishes(s)
  PROVE  OneRun(s, Idle)
BY DEF Finishes, OneRun

-----------------------------------------------------------------------------
(* Tasks and the lock.                                                      *)
Entries == [map : SUBSET Texts, by : Schedulers \cup {None}]

LEMMA QueueKept ==
  ASSUME QueueOK, tasks' = tasks, \A v \in Schedulers : Awaits(v)' <=> Awaits(v)
  PROVE  QueueOK'
BY DEF QueueOK

LEMMA AwaitsOne ==
  ASSUME run \in [Schedulers -> Runs], NEW s \in Schedulers, NEW r \in Runs, OneRun(s, r)
  PROVE  /\ \A v \in Schedulers : v # s => (Awaits(v)' <=> Awaits(v))
         /\ Awaits(s)' <=> (r.at = "wait" /\ r.task = "none")
BY OneRunOnly DEF Awaits

LEMMA QueueForgets ==
  ASSUME QueueOK, NEW s \in Schedulers, tasks' = Forgotten(s),
         \A v \in Schedulers : v # s => (Awaits(v)' <=> Awaits(v)), ~Awaits(s)'
  PROVE  QueueOK'
<1>1. tasks \in Seq(Entries) /\ None \notin Schedulers
  BY NoneAssumption DEF QueueOK, Entries
<1>2. DOMAIN tasks = 1 .. Len(tasks) /\ Len(tasks) \in Nat
  BY <1>1
<1>3. DOMAIN tasks' = DOMAIN tasks
  BY DEF Forgotten
<1>4. ASSUME NEW i \in DOMAIN tasks
      PROVE  /\ tasks'[i] \in Entries
             /\ tasks'[i].by = IF tasks[i].by = s THEN None ELSE tasks[i].by
  <2>1. tasks[i] \in Entries
    BY <1>1, <1>2
  <2>2. CASE tasks[i].by = s
    <3>1. tasks'[i] = [tasks[i] EXCEPT !.by = None]
      BY <2>2 DEF Forgotten
    <3>. QED BY <2>1, <2>2, <3>1 DEF Entries
  <2>3. CASE tasks[i].by # s
    <3>1. tasks'[i] = tasks[i]
      BY <2>3 DEF Forgotten
    <3>. QED BY <2>1, <2>3, <3>1
  <2>. QED BY <2>2, <2>3
<1>5. tasks' \in Seq(Entries)
  <2>1. tasks' = [i \in 1 .. Len(tasks) |-> tasks'[i]]
    BY <1>2, <1>3 DEF Forgotten
  <2>2. tasks' \in [1 .. Len(tasks) -> Entries]
    BY <1>2, <1>4, <2>1
  <2>. QED BY <1>2, <2>2
<1>6. ASSUME NEW v \in Schedulers
      PROVE  /\ Awaits(v)' <=> \E i \in DOMAIN tasks' : tasks'[i].by = v
             /\ \A i, j \in DOMAIN tasks' : tasks'[i].by = v /\ tasks'[j].by = v => i = j
  <2>1. CASE v = s
    BY <1>1, <1>3, <1>4, <2>1
  <2>2. CASE v # s
    BY <1>1, <1>3, <1>4, <2>2 DEF QueueOK
  <2>. QED BY <2>1, <2>2
<1>. QED BY <1>5, <1>6 DEF QueueOK, Entries

LEMMA QueueAppends ==
  ASSUME QueueOK, NEW e \in Entries, tasks' = Append(tasks, e),
         \A v \in Schedulers : IF v = e.by THEN ~Awaits(v) /\ Awaits(v)' ELSE Awaits(v)' <=> Awaits(v)
  PROVE  QueueOK'
<1>1. tasks \in Seq(Entries)
  BY DEF QueueOK, Entries
<1> DEFINE n == Len(tasks) + 1
<1>2. /\ DOMAIN tasks = 1 .. Len(tasks) /\ Len(tasks) \in Nat
      /\ DOMAIN tasks' = DOMAIN tasks \cup {n} /\ n \notin DOMAIN tasks
      /\ tasks'[n] = e /\ \A i \in DOMAIN tasks : tasks'[i] = tasks[i]
      /\ tasks' \in Seq(Entries)
  BY <1>1
<1> HIDE DEF n
<1>3. ASSUME NEW v \in Schedulers
      PROVE  /\ Awaits(v)' <=> \E i \in DOMAIN tasks' : tasks'[i].by = v
             /\ \A i, j \in DOMAIN tasks' : tasks'[i].by = v /\ tasks'[j].by = v => i = j
  <2>1. CASE v = e.by
    BY <1>2, <2>1 DEF QueueOK
  <2>2. CASE v # e.by
    BY <1>2, <2>2 DEF QueueOK
  <2>. QED BY <2>1, <2>2
<1>. QED BY <1>2, <1>3 DEF QueueOK, Entries

LEMMA QueueCarries ==
  ASSUME QueueOK, tasks # <<>>, tasks' = Tail(tasks),
         \A v \in Schedulers :
           IF v = Head(tasks).by THEN ~Awaits(v)' ELSE Awaits(v)' <=> Awaits(v)
  PROVE  QueueOK'
<1>1. tasks \in Seq(Entries)
  BY DEF QueueOK, Entries
<1>2. /\ DOMAIN tasks = 1 .. Len(tasks) /\ Len(tasks) \in Nat \ {0}
      /\ DOMAIN tasks' = 1 .. (Len(tasks) - 1)
      /\ \A i \in DOMAIN tasks' : i + 1 \in DOMAIN tasks /\ tasks'[i] = tasks[i + 1]
      /\ \A i \in DOMAIN tasks : i # 1 => i - 1 \in DOMAIN tasks' /\ tasks'[i - 1] = tasks[i]
      /\ tasks' \in Seq(Entries)
      /\ Head(tasks) = tasks[1] /\ 1 \in DOMAIN tasks
  BY <1>1
<1>3. ASSUME NEW v \in Schedulers
      PROVE  /\ Awaits(v)' <=> \E i \in DOMAIN tasks' : tasks'[i].by = v
             /\ \A i, j \in DOMAIN tasks' : tasks'[i].by = v /\ tasks'[j].by = v => i = j
  <2>1. \A i, j \in DOMAIN tasks : tasks[i].by = v /\ tasks[j].by = v => i = j
    BY DEF QueueOK
  <2>2. \A i \in DOMAIN tasks' : i \in Nat /\ i + 1 # 1
    BY <1>2
  <2>3. \A i, j \in DOMAIN tasks' : tasks'[i].by = v /\ tasks'[j].by = v => i = j
    BY <1>2, <2>1, <2>2
  <2>4. CASE v = tasks[1].by
    <3>1. ~Awaits(v)'
      BY <1>2, <2>4
    <3>2. \A i \in DOMAIN tasks' : tasks'[i].by # v
      BY <1>2, <2>1, <2>2, <2>4
    <3>. QED BY <2>3, <3>1, <3>2
  <2>5. CASE v # tasks[1].by
    <3>1. Awaits(v)' <=> \E i \in DOMAIN tasks : tasks[i].by = v
      BY <1>2, <2>5 DEF QueueOK
    <3>2. (\E i \in DOMAIN tasks : tasks[i].by = v) <=> \E i \in DOMAIN tasks' : tasks'[i].by = v
      BY <1>2, <2>5
    <3>. QED BY <2>3, <3>1, <3>2
  <2>. QED BY <2>4, <2>5
<1>. QED BY <1>2, <1>3 DEF QueueOK, Entries

LEMMA LockKept ==
  ASSUME LockOK, RunsOK, holder' = holder, NEW s \in Schedulers, NEW r \in Runs, OneRun(s, r),
         r.at # "off"
  PROVE  LockOK'
<1>1. r # Off
  BY IdleAndOff
<1>. QED BY <1>1, OneRunOnly DEF LockOK, RunsOK

LEMMA SyncKept ==
  ASSUME SyncOK, sync' = sync, Current' = Current, shown => shown'
  PROVE  SyncOK'
BY DEF SyncOK

LEMMA CountsKept ==
  ASSUME CountsOK, acts' = acts, troubles' = troubles \/ Trouble, History
  PROVE  CountsOK'
<1>1. shown' \in BOOLEAN
  BY DEF History
<1>. QED BY <1>1, SynonymBounds DEF CountsOK, Trouble

(* A step of a run that reads, ends or gives up, and writes nothing.        *)
LEMMA RunGoes ==
  ASSUME IInv, History, NEW s \in Schedulers, NEW r \in Runs, OneRun(s, r), RunShape(r),
         UNCHANGED <<catalogs, sync, admins, provider, holder>>, troubles' = troubles \/ Trouble,
         r.at # "off", r.snap = run[s].snap \/ r.snap = Current \/ r.snap = Nothing,
         r.ends = "synced" => settings = MapOf(r.snap),
         (r.at = "wait" /\ r.task = "none") <=> Awaits(s)
  PROVE  IInv'
<1>1. CatalogsOK' /\ Current' = Current /\ (shown => shown')
  BY CatalogsKept DEF IInv, catalogs, admins
<1>2. SyncOK' /\ CountsOK'
  BY <1>1, SyncKept, CountsKept DEF IInv, admins
<1>3. SnapIsOld(r)
  <2>1. CASE r.snap = run[s].snap
    BY <2>1 DEF IInv, RunsOK, SnapIsOld
  <2>2. CASE r.snap = Current
    BY <2>2, CurrentIsSnap DEF SnapIsOld, IInv, CatalogsOK, PublicationsOK
  <2>3. CASE r.snap = Nothing
    BY <2>3, NothingIsSnap DEF SnapIsOld
  <2>. QED BY <2>1, <2>2, <2>3
<1>4. r.ends = "synced" /\ r.snap = Current => shown'
  BY <1>1 DEF History, provider, MapOf
<1>5. RunsOK'
  BY <1>1, <1>3, <1>4, RunMoves DEF IInv, catalogs
<1>6. QueueOK'
  BY AwaitsOne, QueueKept DEF IInv, RunsOK, provider
<1>7. LockOK'
  BY LockKept DEF IInv
<1>. QED BY <1>1, <1>2, <1>5, <1>6, <1>7 DEF IInv

LEMMA RunBeginsKeeps == ASSUME IInv, History, NEW s \in Schedulers, RunBegins(s) PROVE IInv'
<1> DEFINE at == IF Refuses(Current) THEN "record" ELSE "read"
           ends == IF DOMAIN Current = {} THEN "nothing"
                   ELSE IF Refuses(Current) THEN "untrusted" ELSE "none"
           r == [Idle EXCEPT !.snap = Current, !.at = at, !.ends = ends]
<1>1. OneRun(s, r)
  BY DEF RunBegins, OneRun
<1>2. Current \in Snaps
  BY CurrentIsSnap DEF IInv, CatalogsOK
<1>3. r \in Runs /\ r.at = at /\ r.snap = Current /\ r.ends = ends /\ r.task = "none"
  BY <1>2 DEF Idle, Runs
<1>4. RunShape(r)
  BY <1>3 DEF RunShape, Refuses
<1>5. ~Awaits(s) /\ r.at \notin {"wait", "off"} /\ r.ends # "synced"
  BY <1>3 DEF RunBegins, Awaits
<1>6. UNCHANGED <<catalogs, sync, admins, provider, holder>> /\ troubles' = troubles
  BY DEF RunBegins
<1> HIDE DEF r
<1>. QED BY <1>1, <1>3, <1>4, <1>5, <1>6, RunGoes

(* Where a run stands, as its shape says it.                                *)
LEMMA RunAt ==
  ASSUME IInv, NEW s \in Schedulers
  PROVE  /\ run \in [Schedulers -> Runs] /\ run[s] \in Runs /\ RunShape(run[s])
         /\ run[s].at \notin {"record"} => run[s].ends = "none"
         /\ run[s].at \notin {"wait", "verify", "record"} => run[s].task = "none"
         /\ Awaits(s) <=> run[s].at = "wait" /\ run[s].task = "none"
<1>1. run \in [Schedulers -> Runs] /\ RunShape(run[s])
  BY DEF IInv, RunsOK
<1>2. run[s] \in Runs
  BY <1>1
<1>3. run[s].task \in {"none", "succeeded", "failed"}
  BY <1>2 DEF Runs
<1>. QED BY <1>1, <1>2, <1>3 DEF RunShape, Awaits

LEMMA RunReadsKeeps ==
  ASSUME IInv, History, NEW s \in Schedulers,
         ReadSettings(s) \/ Verify(s) \/ TaskEnds(s) \/ ReadFails(s)
  PROVE  IInv'
<1> USE RunAt
<1>1. UNCHANGED <<catalogs, sync, admins, provider, holder>>
  BY DEF ReadSettings, Verify, TaskEnds, ReadFails
<1>2. troubles' = troubles \/ Trouble
  BY DEF ReadSettings, Verify, TaskEnds, ReadFails
<1>3. /\ run[s].at \in {"read", "verify", "wait"} /\ ~Awaits(s)
      /\ Trusted(run[s].snap)
  BY DEF ReadSettings, Verify, TaskEnds, ReadFails, Awaits, RunShape
<1>4. ASSUME NEW how \in {"failed", "synced"}, Ends(s, how),
             how = "synced" => settings = MapOf(run[s].snap)
      PROVE  IInv'
  <2>1. PICK r \in Runs : /\ OneRun(s, r) /\ r.at = "record" /\ r.snap = run[s].snap
                          /\ r.task = run[s].task /\ r.ends = how
    BY <1>4, EndsAs
  <2>2. RunShape(r)
    BY <2>1 DEF RunShape
  <2>. QED BY <1>1, <1>2, <1>3, <1>4, <2>1, <2>2, RunGoes
<1>5. ASSUME NEW at \in {"drifted", "verify"}, Goes(s, at),
             at = "drifted" => run[s].task = "none"
      PROVE  IInv'
  <2>1. PICK r \in Runs : /\ OneRun(s, r) /\ r.at = at /\ r.snap = run[s].snap
                          /\ r.task = run[s].task /\ r.ends = run[s].ends
    BY <1>5, GoesTo
  <2>2. RunShape(r) /\ r.ends = "none"
    BY <1>3, <1>5, <2>1 DEF RunShape
  <2>. QED BY <1>1, <1>2, <1>3, <1>5, <2>1, <2>2, RunGoes
<1>6. CASE ReadSettings(s)
  BY <1>4, <1>5, <1>6 DEF ReadSettings, InSync
<1>7. CASE Verify(s)
  BY <1>4, <1>7 DEF Verify
<1>8. CASE TaskEnds(s)
  BY <1>4, <1>5, <1>8 DEF TaskEnds
<1>9. CASE ReadFails(s)
  BY <1>4, <1>9 DEF ReadFails
<1>. QED BY <1>6, <1>7, <1>8, <1>9

LEMMA RunBreaksKeeps == ASSUME IInv, History, NEW s \in Schedulers, RunBreaks(s) PROVE IInv'
<1>1. OneRun(s, Idle) /\ ~Awaits(s)
  BY Finished DEF RunBreaks, Awaits
<1>2. UNCHANGED <<catalogs, sync, admins, provider, holder>> /\ Trouble
  BY DEF RunBreaks
<1>3. RunShape(Idle)
  BY IdleAndOff DEF RunShape
<1>. QED BY <1>1, <1>2, <1>3, IdleAndOff, RunGoes

(* A step of a run on what Meilisearch queued.                              *)
LEMMA RunQueues ==
  ASSUME IInv, History, NEW s \in Schedulers, NEW r \in Runs, OneRun(s, r), RunShape(r),
         UNCHANGED <<catalogs, sync, admins, holder>>, troubles' = troubles \/ Trouble,
         r.at # "off", r.snap = run[s].snap, r.ends # "synced", QueueOK'
  PROVE  IInv'
<1>1. CatalogsOK' /\ Current' = Current /\ (shown => shown')
  BY CatalogsKept DEF IInv, catalogs, admins
<1>2. SyncOK' /\ CountsOK'
  BY <1>1, SyncKept, CountsKept DEF IInv, admins
<1>3. SnapIsOld(r)
  BY DEF IInv, RunsOK, SnapIsOld
<1>4. RunsOK'
  BY <1>1, <1>3, RunMoves DEF IInv, catalogs
<1>5. LockOK'
  BY LockKept DEF IInv
<1>. QED BY <1>1, <1>2, <1>4, <1>5 DEF IInv

LEMMA SnapMaps == ASSUME NEW snap \in Snaps PROVE MapOf(snap) \in SUBSET Texts
BY SnapShape DEF MapOf, IsSnap, Revisions

LEMMA SubmitKeeps ==
  ASSUME IInv, History, NEW s \in Schedulers, Submit(s) \/ \E q \in BOOLEAN : SubmitFails(s, q)
  PROVE  IInv'
<1> USE RunAt
<1>1. UNCHANGED <<catalogs, sync, admins, holder>> /\ run[s].at = "submit" /\ ~Awaits(s)
  BY DEF Submit, SubmitFails, Awaits
<1>2. MapOf(run[s].snap) \in SUBSET Texts
  BY SnapMaps DEF Runs
<1>3. CASE Submit(s)
  <2> DEFINE e == [map |-> MapOf(run[s].snap), by |-> s]
  <2>1. e \in Entries /\ e.by = s
    BY <1>2 DEF Entries
  <2>2. tasks' = Append(tasks, e) /\ Goes(s, "wait") /\ troubles' = troubles
    BY <1>3 DEF Submit
  <2> HIDE DEF e
  <2>3. PICK r \in Runs : /\ OneRun(s, r) /\ r.at = "wait" /\ r.snap = run[s].snap
                          /\ r.task = run[s].task /\ r.ends = run[s].ends
    BY <2>2, GoesTo
  <2>4. RunShape(r) /\ r.ends = "none" /\ r.task = "none"
    BY <1>1, <2>3 DEF RunShape
  <2>5. Awaits(s)' /\ \A v \in Schedulers : v # s => (Awaits(v)' <=> Awaits(v))
    BY <2>3, <2>4, AwaitsOne
  <2>6. QueueOK'
    BY <1>1, <2>1, <2>2, <2>5, QueueAppends DEF IInv
  <2>. QED BY <1>1, <2>2, <2>3, <2>4, <2>6, RunQueues
<1>4. ASSUME NEW q \in BOOLEAN, SubmitFails(s, q) PROVE IInv'
  <2> DEFINE e == [map |-> MapOf(run[s].snap), by |-> None]
  <2>1. e \in Entries /\ e.by \notin Schedulers
    BY <1>2, NoneAssumption DEF Entries
  <2>2. (tasks' = Append(tasks, e) \/ tasks' = tasks) /\ Ends(s, "failed") /\ Trouble
    BY <1>4 DEF SubmitFails
  <2> HIDE DEF e
  <2>3. PICK r \in Runs : /\ OneRun(s, r) /\ r.at = "record" /\ r.snap = run[s].snap
                          /\ r.task = run[s].task /\ r.ends = "failed"
    BY <2>2, EndsAs
  <2>4. RunShape(r)
    BY <2>3 DEF RunShape
  <2>5. \A v \in Schedulers : Awaits(v)' <=> Awaits(v)
    BY <1>1, <2>3, AwaitsOne
  <2>6. QueueOK'
    BY <2>1, <2>2, <2>5, QueueAppends, QueueKept DEF IInv
  <2>. QED BY <1>1, <2>2, <2>3, <2>4, <2>6, RunQueues
<1>. QED BY <1>3, <1>4

LEMMA TimesOutKeeps == ASSUME IInv, History, NEW s \in Schedulers, WaitTimesOut(s) PROVE IInv'
<1>1. UNCHANGED <<catalogs, sync, admins, holder>> /\ Trouble /\ Ends(s, "failed")
  BY DEF WaitTimesOut
<1>2. PICK r \in Runs : /\ OneRun(s, r) /\ r.at = "record" /\ r.snap = run[s].snap
                        /\ r.task = run[s].task /\ r.ends = "failed"
  BY <1>1, RunAt, EndsAs
<1>3. RunShape(r)
  BY <1>2 DEF RunShape
<1>4. ~Awaits(s)' /\ \A v \in Schedulers : v # s => (Awaits(v)' <=> Awaits(v))
  BY <1>2, AwaitsOne, RunAt
<1>5. QueueOK'
  BY <1>4, QueueForgets DEF IInv, WaitTimesOut
<1>. QED BY <1>1, <1>2, <1>3, <1>5, RunQueues

(* Meilisearch carries out a task, and whoever waits for it learns of it.   *)
LEMMA CarryKeeps == ASSUME IInv, History, NEW ok \in BOOLEAN, Carry(ok) PROVE IInv'
<1>1. UNCHANGED <<catalogs, sync, admins, holder>> /\ (troubles' = troubles \/ Trouble)
  BY DEF Carry
<1>2. tasks # <<>> /\ tasks' = Tail(tasks)
  BY DEF Carry
<1>3. tasks \in Seq(Entries) /\ 1 \in DOMAIN tasks /\ Head(tasks) = tasks[1]
  <2>1. tasks \in Seq(Entries)
    BY DEF IInv, QueueOK, Entries
  <2>. QED BY <1>2, <2>1
<1>4. tasks[1] \in Entries
  BY <1>3
<1>5. run \in [Schedulers -> Runs]
  BY DEF IInv, RunsOK
<1>6. CASE tasks[1].by = None
  <2>1. run' = run
    BY <1>3, <1>6 DEF Carry
  <2>2. CatalogsOK' /\ Current' = Current /\ (shown => shown')
    BY <1>1, CatalogsKept DEF IInv, catalogs, admins
  <2>3. SyncOK' /\ CountsOK'
    BY <1>1, <2>2, SyncKept, CountsKept DEF IInv, admins
  <2>4. RunsOK'
    BY <1>1, <2>1, <2>2, RunsKept DEF IInv, catalogs
  <2>5. LockOK'
    BY <1>1, <2>1 DEF IInv, LockOK
  <2>6. \A v \in Schedulers : (Awaits(v)' <=> Awaits(v)) /\ v # None
    BY <2>1, NoneAssumption DEF Awaits
  <2>7. QueueOK'
    BY <1>2, <1>3, <1>6, <2>6, QueueCarries DEF IInv
  <2>. QED BY <2>2, <2>3, <2>4, <2>5, <2>7 DEF IInv
<1>7. CASE tasks[1].by # None
  <2>1. PICK s \in Schedulers : s = tasks[1].by
    BY <1>4, <1>7 DEF Entries
  <2> DEFINE out == IF ok THEN "succeeded" ELSE "failed"
             r == [run[s] EXCEPT !.task = out]
  <2>2. run' = [run EXCEPT ![s].task = out]
    BY <1>3, <1>7, <2>1 DEF Carry
  <2>3. OneRun(s, r)
    BY <2>2 DEF OneRun
  <2>4. Awaits(s)
    BY <1>3, <2>1 DEF IInv, QueueOK
  <2>5. run[s].at = "wait" /\ run[s].ends = "none" /\ run[s] \in Runs
    BY <2>4, RunAt
  <2>6. /\ r \in Runs /\ r.at = "wait" /\ r.snap = run[s].snap /\ r.ends = "none"
        /\ r.task \in {"succeeded", "failed"}
    BY <2>5 DEF Runs
  <2>7. RunShape(r)
    BY <2>5, <2>6, RunAt DEF RunShape
  <2> HIDE DEF r
  <2>8. ~Awaits(s)' /\ \A v \in Schedulers : v # s => (Awaits(v)' <=> Awaits(v))
    BY <1>5, <2>3, <2>6, AwaitsOne
  <2>9. QueueOK'
    BY <1>2, <1>3, <2>1, <2>8, QueueCarries DEF IInv
  <2>. QED BY <1>1, <2>3, <2>6, <2>7, <2>9, RunQueues
<1>. QED BY <1>6, <1>7

-----------------------------------------------------------------------------
(* Schedulers come and go.                                                  *)
LEMMA SchedulersKeep ==
  ASSUME IInv, History, LosesLock \/ \E s \in Schedulers : Starts(s) \/ Stops(s)
  PROVE  IInv'
<1>1. UNCHANGED <<catalogs, sync, admins>> /\ (troubles' = troubles \/ Trouble)
  BY DEF LosesLock, Starts, Stops
<1>2. CatalogsOK' /\ Current' = Current /\ (shown => shown')
  BY <1>1, CatalogsKept DEF IInv, catalogs, admins
<1>3. SyncOK' /\ CountsOK'
  BY <1>1, <1>2, SyncKept, CountsKept DEF IInv, admins
<1>4. CASE LosesLock
  <2>1. run' = run /\ tasks' = tasks /\ holder' = None
    BY <1>4 DEF LosesLock, provider
  <2>2. RunsOK'
    BY <1>1, <1>2, <2>1, RunsKept DEF IInv, catalogs
  <2>3. QueueOK'
    BY <2>1, QueueKept DEF IInv, Awaits
  <2>. QED BY <1>2, <1>3, <2>1, <2>2, <2>3 DEF IInv, LockOK
<1>5. ASSUME NEW s \in Schedulers, Starts(s) PROVE IInv'
  <2>1. OneRun(s, Idle) /\ tasks' = tasks /\ holder' = s /\ run[s] = Off
    BY <1>5 DEF Starts, OneRun, provider
  <2>2. RunShape(Idle) /\ SnapIsOld(Idle)
    BY IdleAndOff, NothingIsSnap DEF RunShape, SnapIsOld
  <2>3. RunsOK'
    BY <1>1, <1>2, <2>1, <2>2, IdleAndOff, RunMoves DEF IInv, catalogs
  <2>4. \A v \in Schedulers : Awaits(v)' <=> Awaits(v)
    <3>1. ~Awaits(s)
      BY <2>1, IdleAndOff DEF Awaits
    <3>. QED BY <2>1, <3>1, IdleAndOff, AwaitsOne DEF IInv, RunsOK
  <2>5. QueueOK'
    BY <2>1, <2>4, QueueKept DEF IInv
  <2>6. Idle # Off /\ run'[s] = Idle
    BY <2>1, IdleAndOff, OneRunOnly DEF IInv, RunsOK
  <2>. QED BY <1>2, <1>3, <2>1, <2>3, <2>5, <2>6 DEF IInv, LockOK
<1>6. ASSUME NEW s \in Schedulers, Stops(s) PROVE IInv'
  <2>1. OneRun(s, Off) /\ tasks' = Forgotten(s)
        /\ holder' = IF holder = s THEN None ELSE holder
    BY <1>6 DEF Stops, OneRun
  <2>2. RunShape(Off) /\ SnapIsOld(Off)
    BY IdleAndOff, NothingIsSnap DEF RunShape, SnapIsOld
  <2>3. RunsOK'
    BY <1>1, <1>2, <2>1, <2>2, IdleAndOff, RunMoves DEF IInv, catalogs
  <2>4. ~Awaits(s)' /\ \A v \in Schedulers : v # s => (Awaits(v)' <=> Awaits(v))
    BY <2>1, IdleAndOff, AwaitsOne DEF IInv, RunsOK
  <2>5. QueueOK'
    BY <2>1, <2>4, QueueForgets DEF IInv
  <2>6. LockOK'
    BY <2>1, IdleAndOff, OneRunOnly DEF IInv, RunsOK, LockOK
  <2>. QED BY <1>2, <1>3, <2>3, <2>5, <2>6 DEF IInv
<1>. QED BY <1>4, <1>5, <1>6

-----------------------------------------------------------------------------
(* A run writes the row.                                                    *)
SyncStates == [status : Statuses, desired : {None} \cup Snaps, applied : {None} \cup Snaps]

LEMMA RunWrites ==
  ASSUME IInv, History, NEW s \in Schedulers, NEW r \in Runs, OneRun(s, r), RunShape(r),
         UNCHANGED <<catalogs, admins, provider, holder, troubles>>,
         r.at \in {"idle", "submit"}, ~Awaits(s), r.ends = "none",
         r.snap = run[s].snap \/ r.snap = Nothing,
         Current' = Current /\ (shown => shown') => SyncOK'
  PROVE  IInv'
<1>1. CatalogsOK' /\ Current' = Current /\ (shown => shown')
  BY CatalogsKept DEF IInv, catalogs, admins
<1>2. SyncOK' /\ CountsOK'
  BY <1>1, CountsKept DEF IInv, admins
<1>3. SnapIsOld(r)
  BY NothingIsSnap DEF IInv, RunsOK, SnapIsOld
<1>4. RunsOK'
  BY <1>1, <1>3, RunMoves DEF IInv, catalogs
<1>5. QueueOK'
  BY AwaitsOne, QueueKept DEF IInv, RunsOK, provider
<1>6. LockOK'
  BY LockKept DEF IInv
<1>. QED BY <1>1, <1>2, <1>4, <1>5, <1>6 DEF IInv

LEMMA RecordSyncingKeeps ==
  ASSUME IInv, History, NEW s \in Schedulers, RecordSyncing(s)
  PROVE  IInv'
<1> USE RunAt
<1>1. UNCHANGED <<catalogs, admins, provider, holder, troubles>> /\ run[s].at = "drifted"
  BY DEF RecordSyncing
<1>2. ~Awaits(s) /\ run[s].ends = "none" /\ run[s].task = "none"
  BY <1>1
<1>3. CASE SnapshotIsCurrent(s)
  <2>1. /\ sync' = [sync EXCEPT !.status = "syncing", !.desired = run[s].snap]
        /\ Goes(s, "submit")
    BY <1>3 DEF RecordSyncing
  <2>2. PICK r \in Runs : /\ OneRun(s, r) /\ r.at = "submit" /\ r.snap = run[s].snap
                          /\ r.task = run[s].task /\ r.ends = run[s].ends
    BY <2>1, GoesTo
  <2>3. RunShape(r)
    BY <1>1, <1>2, <2>2 DEF RunShape
  <2>4. sync \in SyncStates /\ run[s].snap \in Snaps /\ run[s].snap = Current
    BY <1>3 DEF IInv, SyncOK, SyncStates, Runs, SnapshotIsCurrent
  <2>5. sync' \in SyncStates /\ sync'.status = "syncing" /\ sync'.desired = Current
    BY <2>1, <2>4 DEF SyncStates, Statuses
  <2>6. Current' = Current => SyncOK'
    BY <2>5 DEF SyncOK, SyncStates
  <2>. QED BY <1>1, <1>2, <2>2, <2>3, <2>6, RunWrites
<1>4. CASE ~SnapshotIsCurrent(s)
  <2>1. sync' = sync /\ OneRun(s, Idle)
    BY <1>4, Finished DEF RecordSyncing
  <2>2. RunShape(Idle)
    BY IdleAndOff DEF RunShape
  <2>3. Current' = Current /\ (shown => shown') => SyncOK'
    BY <2>1, SyncKept DEF IInv
  <2>. QED BY <1>1, <1>2, <2>1, <2>2, <2>3, IdleAndOff, RunWrites
<1>. QED BY <1>3, <1>4

LEMMA RecordKeeps == ASSUME IInv, History, NEW s \in Schedulers, Record(s) PROVE IInv'
<1> USE RunAt
<1>1. UNCHANGED <<catalogs, admins, provider, holder, troubles>> /\ run[s].at = "record"
  BY DEF Record
<1>2. ~Awaits(s) /\ run[s].ends \in {"nothing", "untrusted", "failed", "synced"}
  BY <1>1 DEF RunShape, Runs
<1>3. OneRun(s, Idle) /\ RunShape(Idle)
  BY Finished, IdleAndOff DEF Record, RunShape
<1>4. ASSUME Current' = Current, shown => shown' PROVE SyncOK'
  <2>1. CASE ~SnapshotIsCurrent(s)
    BY <1>4, <2>1, SyncKept DEF Record, IInv
  <2>2. CASE SnapshotIsCurrent(s)
    <3>1. sync' = Recorded(s)
      BY <2>2 DEF Record
    <3>2. sync \in SyncStates /\ run[s].snap \in Snaps /\ run[s].snap = Current
      BY <2>2 DEF IInv, SyncOK, SyncStates, Runs, SnapshotIsCurrent
    <3>3. CASE run[s].ends = "nothing"
      <4>1. PICK st \in {"idle", "failed"} :
              Recorded(s) = [sync EXCEPT !.desired = None, !.status = st]
        BY <3>3 DEF Recorded
      <4>2. sync' \in SyncStates /\ sync'.desired = None /\ sync'.status # "synced"
        BY <3>1, <3>2, <4>1 DEF SyncStates, Statuses
      <4>. QED BY <4>2 DEF SyncOK, SyncStates
    <3>4. CASE run[s].ends = "untrusted"
      <4>1. Recorded(s) = [sync EXCEPT !.desired = None, !.status = "failed"]
        BY <3>4 DEF Recorded
      <4>2. sync' \in SyncStates /\ sync'.desired = None /\ sync'.status # "synced"
        BY <3>1, <3>2, <4>1 DEF SyncStates, Statuses
      <4>. QED BY <4>2 DEF SyncOK, SyncStates
    <3>5. CASE run[s].ends = "failed"
      <4>1. Recorded(s) = [sync EXCEPT !.desired = run[s].snap, !.status = "failed"]
        BY <3>5 DEF Recorded
      <4>2. sync' \in SyncStates /\ sync'.desired = Current /\ sync'.status # "synced"
        BY <3>1, <3>2, <4>1 DEF SyncStates, Statuses
      <4>. QED BY <1>4, <4>2 DEF SyncOK, SyncStates
    <3>6. CASE run[s].ends = "synced"
      <4>1. Recorded(s) = [status |-> "synced", desired |-> run[s].snap, applied |-> run[s].snap]
        BY <3>6 DEF Recorded
      <4>2. sync' \in SyncStates /\ sync'.desired = Current /\ sync'.applied = Current
        BY <3>1, <3>2, <4>1 DEF SyncStates, Statuses
      <4>3. shown
        BY <3>2, <3>6 DEF IInv, RunsOK, SeenSince
      <4>. QED BY <1>4, <4>2, <4>3 DEF SyncOK, SyncStates
    <3>. QED BY <1>2, <3>3, <3>4, <3>5, <3>6
  <2>. QED BY <2>1, <2>2
<1>. QED BY <1>1, <1>2, <1>3, <1>4, IdleAndOff, RunWrites

-----------------------------------------------------------------------------
(* Administrators.  Drafts only get later, so old snapshots stay old.       *)
LEMMA AdminFrame ==
  ASSUME IInv, UNCHANGED <<provider, holder, run>>, CatalogsOK',
         \A l \in Locales : draft'[l].rev >= draft[l].rev,
         Current' = Current => (shown => shown'),
         Current' # Current => \A s \in Schedulers : run[s].snap # Current'
  PROVE  RunsOK' /\ QueueOK' /\ LockOK'
<1>1. ASSUME NEW s \in Schedulers PROVE SnapIsOld(run[s])'
  <2>1. \A l \in DOMAIN run[s].snap :
          l \in Locales /\ run[s].snap[l].rev \in Nat /\ run[s].snap[l].rev < draft[l].rev
    BY RunAt, SnapShape DEF Runs, IsSnap, Revisions, IInv, RunsOK, SnapIsOld
  <2>2. \A l \in Locales : draft[l].rev \in Nat /\ draft'[l].rev \in Nat
    BY DEF IInv, CatalogsOK, Texted, Drafts
  <2>. QED BY <2>1, <2>2 DEF SnapIsOld
<1>2. ASSUME NEW s \in Schedulers PROVE SeenSince(run[s])'
  BY DEF IInv, RunsOK, SeenSince
<1>3. RunsOK'
  BY <1>1, <1>2 DEF IInv, RunsOK, RunShape, Trusted
<1>4. QueueOK' /\ LockOK'
  BY QueueKept DEF IInv, provider, Awaits, LockOK
<1>. QED BY <1>3, <1>4

LEMMA ChangeKeeps ==
  ASSUME IInv, History, NEW l \in Locales, NEW t \in Texts, Change(l, t)
  PROVE  IInv'
<1> DEFINE d == [draft[l] EXCEPT !.text = t]
<1>1. tx[l] = None /\ draft' = [draft EXCEPT ![l] = d]
  BY DEF Change, Accepted
<1>2. draft[l] \in Drafts /\ DOMAIN draft = Locales
  BY DEF IInv, CatalogsOK, Texted
<1>3. d \in Drafts /\ d.rev = draft[l].rev
  BY <1>2 DEF Drafts
<1> HIDE DEF d
<1>4. UNCHANGED <<published, archived, tx, sync, provider, holder, run, troubles>> /\ Act
  BY DEF Change, Accepted
<1>5. \A k \in Locales : draft'[k].rev = draft[k].rev /\ (k # l => draft'[k] = draft[k])
  BY <1>1, <1>2, <1>3
<1>6. Current' = Current /\ (shown => shown')
  BY <1>4 DEF Current, History
<1>7. Texted'
  BY <1>1, <1>2, <1>3, <1>4, <1>5 DEF IInv, CatalogsOK, Texted
<1>8. PublicationsOK'
  BY <1>4, <1>5 DEF IInv, CatalogsOK, PublicationsOK
<1>9. TxOK'
  BY <1>4, <1>5, <1>6 DEF IInv, CatalogsOK, TxOK, With
<1>10. SyncOK'
  BY <1>4, <1>6, SyncKept DEF IInv
<1>11. \A k \in Locales : draft'[k].rev >= draft[k].rev
  BY <1>5 DEF IInv, CatalogsOK, Texted, Drafts
<1>12. RunsOK' /\ QueueOK' /\ LockOK'
  BY <1>4, <1>6, <1>7, <1>8, <1>9, <1>11, AdminFrame DEF CatalogsOK
<1>13. CountsOK'
  BY <1>4, SynonymBounds DEF IInv, CountsOK, Act, History
<1>. QED BY <1>7, <1>8, <1>9, <1>10, <1>12, <1>13 DEF IInv, CatalogsOK

LEMMA DraftsKeep == ASSUME IInv, History, SaveDraft \/ ResetDraft PROVE IInv'
<1>1. ASSUME NEW l \in Locales, NEW t \in archived[l], Change(l, t) PROVE IInv'
  <2>1. t \in Texts
    BY <1>1 DEF IInv, CatalogsOK, Texted
  <2>. QED BY <1>1, <2>1, ChangeKeeps
<1>2. ASSUME NEW l \in Locales,
             Change(l, IF published[l] = None THEN Empty ELSE published[l].text)
      PROVE  IInv'
  <2>1. published[l] \in {None} \cup Revisions
    BY DEF IInv, CatalogsOK, PublicationsOK
  <2>2. (IF published[l] = None THEN Empty ELSE published[l].text) \in Texts
    BY <2>1, TextsAssumption DEF Revisions
  <2>. QED BY <1>2, <2>2, ChangeKeeps
<1>. QED BY <1>1, <1>2, ChangeKeeps DEF SaveDraft, ResetDraft

(* A publication begins or is given up, or the row is marked for a retry.   *)
LEMMA AdminKeeps ==
  ASSUME IInv, History, UNCHANGED <<catalogs, provider, holder, run>>, TxOK',
         acts' = acts \/ Act, troubles' = troubles \/ Trouble,
         sync' = sync \/ (sync' = [sync EXCEPT !.status = "pending"])
  PROVE  IInv'
<1>1. Current' = Current /\ (shown => shown') /\ UNCHANGED <<draft, published, archived>>
  BY DEF Current, History, catalogs
<1>2. Texted' /\ PublicationsOK'
  BY <1>1 DEF IInv, CatalogsOK, Texted, PublicationsOK, Drafts
<1>3. SyncOK'
  <2>1. CASE sync' = sync
    BY <1>1, <2>1, SyncKept DEF IInv
  <2>2. CASE sync' = [sync EXCEPT !.status = "pending"]
    <3>1. sync \in SyncStates
      BY DEF IInv, SyncOK, SyncStates
    <3>2. sync' \in SyncStates /\ sync'.status = "pending" /\ sync'.desired = sync.desired
      BY <2>2, <3>1 DEF SyncStates, Statuses
    <3>. QED BY <1>1, <3>2 DEF IInv, SyncOK, SyncStates
  <2>. QED BY <2>1, <2>2
<1>4. \A l \in Locales : draft'[l].rev >= draft[l].rev
  BY <1>1 DEF IInv, CatalogsOK, Texted, Drafts
<1>5. RunsOK' /\ QueueOK' /\ LockOK'
  BY <1>1, <1>2, <1>4, AdminFrame DEF CatalogsOK
<1>6. CountsOK'
  BY SynonymBounds DEF IInv, CountsOK, Act, Trouble, History
<1>. QED BY <1>2, <1>3, <1>5, <1>6 DEF IInv, CatalogsOK

LEMMA PublishBeginsKeeps ==
  ASSUME IInv, History, NEW l \in Locales, PublishBegins(l)
  PROVE  IInv'
<1> DEFINE new == [rev |-> draft[l].rev, text |-> draft[l].text, compiler |-> "now"]
<1>1. draft[l].rev \in Nat /\ draft[l].text \in Texts
  BY DEF IInv, CatalogsOK, Texted, Drafts
<1>2. new \in Revisions /\ new.rev = draft[l].rev
  BY <1>1 DEF Revisions
<1>3. /\ tx' = [tx EXCEPT ![l] = With(l, new)]
      /\ \A k \in Locales : tx[k] = None
      /\ \A k \in (DOMAIN Current) \ {l} : ~Collide(published[k].text, new.text)
      /\ UNCHANGED <<catalogs, sync, provider, holder, run, troubles>> /\ Act
  BY DEF PublishBegins, Accepted, SyncFree, With
<1> HIDE DEF new
<1>4. With(l, new)[l] = new
  BY <1>2, WithIsSnap DEF IInv, CatalogsOK
<1>5. \A k \in Locales : tx'[k] = IF k = l THEN With(l, new) ELSE None
  BY <1>3 DEF IInv, CatalogsOK, TxOK
<1>6. \A k \in Locales \ {l} : published[k] # None => ~Collide(published[k].text, new.text)
  BY <1>3 DEF Current
<1>7. Current' = Current /\ draft' = draft /\ published' = published
  BY <1>3 DEF Current, catalogs
<1>8. TxOK'
  <2>1. DOMAIN tx' = Locales
    BY <1>3 DEF IInv, CatalogsOK, TxOK
  <2>2. \A j, k \in Locales : tx'[j] # None /\ tx'[k] # None => j = k
    BY <1>5
  <2>3. ASSUME NEW k \in Locales, tx'[k] # None
        PROVE  /\ (tx[k] = With(k, tx[k][k]))'
               /\ tx'[k][k] \in Revisions /\ tx'[k][k].rev = draft'[k].rev
               /\ \A j \in Locales \ {k} :
                    published'[j] # None => ~Collide(published'[j].text, tx'[k][k].text)
    <3>1. k = l /\ tx'[l] = With(l, new) /\ tx'[l][l] = new
      BY <1>4, <1>5, <2>3
    <3>2. tx'[l] = [m \in ((DOMAIN Current) \ {l}) \cup {l} |->
                      IF m = l THEN tx'[l][l] ELSE published[m]]
      BY <3>1 DEF With
    <3>3. tx'[l] = [m \in ((DOMAIN Current') \ {l}) \cup {l} |->
                      IF m = l THEN tx'[l][l] ELSE published'[m]]
      BY <1>7, <3>2
    <3>. QED BY <1>2, <1>6, <1>7, <3>1, <3>3 DEF With
  <2>. QED BY <2>1, <2>2, <2>3 DEF TxOK, Collide
<1>. QED BY <1>3, <1>8, AdminKeeps

LEMMA GivenUpKeeps ==
  ASSUME IInv, History, RetrySync \/ \E l \in Locales : PublishFails(l)
  PROVE  IInv'
<1>1. CASE RetrySync
  <2>1. TxOK'
    BY <1>1 DEF RetrySync, catalogs, IInv, CatalogsOK, TxOK, With, Current
  <2>. QED BY <1>1, <2>1, AdminKeeps DEF RetrySync
<1>2. ASSUME NEW l \in Locales, PublishFails(l) PROVE IInv'
  <2>1. tx' = [tx EXCEPT ![l] = None] /\ UNCHANGED catalogs
    BY <1>2 DEF PublishFails
  <2>2. \A k \in Locales : tx'[k] = None \/ tx'[k] = tx[k]
    BY <2>1 DEF IInv, CatalogsOK, TxOK
  <2>3. TxOK'
    BY <2>1, <2>2 DEF catalogs, IInv, CatalogsOK, TxOK, With, Current
  <2>. QED BY <1>2, <2>3, AdminKeeps DEF PublishFails
<1>. QED BY <1>1, <1>2

(* What the commit of a publication publishes is what it compared: the lock *)
(* of the sync row kept all others from committing meanwhile.               *)
LEMMA PublishedIsDesired ==
  ASSUME CatalogsOK, NEW l \in Locales, tx[l] # None, published' = [published EXCEPT ![l] = tx[l][l]]
  PROVE  /\ Current' = tx[l] /\ tx[l] \in Snaps
         /\ l \in DOMAIN tx[l] /\ tx[l][l] \in Revisions /\ tx[l][l].rev = draft[l].rev
<1>1. /\ tx[l] = With(l, tx[l][l]) /\ tx[l][l] \in Revisions /\ tx[l][l].rev = draft[l].rev
  BY DEF CatalogsOK, TxOK
<1>2. PICK new \in Revisions : new = tx[l][l]
  BY <1>1
<1>3. tx[l] = With(l, new) /\ new # None
  BY <1>1, <1>2, NoneAssumption
<1>4. \A k \in Locales : published'[k] = IF k = l THEN new ELSE published[k]
  BY <1>2 DEF CatalogsOK, PublicationsOK
<1>5. {k \in Locales : published'[k] # None} = (DOMAIN Current \ {l}) \cup {l}
  BY <1>3, <1>4 DEF Current
<1>6. Current' = [k \in (DOMAIN Current \ {l}) \cup {l} |-> published'[k]]
  BY <1>5 DEF Current
<1>7. \A k \in (DOMAIN Current \ {l}) \cup {l} :
        published'[k] = IF k = l THEN new ELSE published[k]
  BY <1>4 DEF Current
<1>8. Current' = With(l, new)
  BY <1>6, <1>7 DEF With
<1>. QED BY <1>1, <1>3, <1>8, WithIsSnap DEF CatalogsOK

LEMMA CommitKeeps == ASSUME IInv, History, NEW l \in Locales, PublishCommits(l) PROVE IInv'
<1> DEFINE d == [draft[l] EXCEPT !.rev = @ + 1]
<1>1. /\ tx[l] # None /\ published' = [published EXCEPT ![l] = tx[l][l]]
      /\ draft' = [draft EXCEPT ![l] = d]
      /\ tx' = [tx EXCEPT ![l] = None]
      /\ sync' = [sync EXCEPT !.status = "pending", !.desired = tx[l]]
      /\ UNCHANGED <<acts, provider, holder, run, troubles>>
  BY DEF PublishCommits
<1>2. draft[l] \in Drafts /\ DOMAIN draft = Locales /\ draft[l].rev \in Nat
  BY DEF IInv, CatalogsOK, Texted, Drafts
<1>3. d \in Drafts /\ d.rev = draft[l].rev + 1
  <2>1. PICK n \in Nat : n = draft[l].rev + 1
    BY <1>2
  <2>2. [draft[l] EXCEPT !.rev = n] \in Drafts
    BY <1>2 DEF Drafts
  <2>3. [draft[l] EXCEPT !.rev = n].rev = n
    BY <1>2 DEF Drafts
  <2>. QED BY <2>1, <2>2, <2>3
<1> HIDE DEF d
<1>4. /\ Current' = tx[l] /\ tx[l] \in Snaps /\ l \in DOMAIN tx[l]
      /\ tx[l][l] \in Revisions /\ tx[l][l].rev = draft[l].rev
  BY <1>1, PublishedIsDesired DEF IInv
<1>5. \A k \in Locales :
        /\ draft'[k] = IF k = l THEN d ELSE draft[k]
        /\ tx'[k] = None
        /\ published'[k] = IF k = l THEN tx[l][l] ELSE published[k]
  BY <1>1, <1>2 DEF IInv, CatalogsOK, TxOK, PublicationsOK
<1>6. Texted'
  <2>1. published[l] \in {None} \cup Revisions /\ archived \in [Locales -> SUBSET Texts]
    BY DEF IInv, CatalogsOK, PublicationsOK, Texted
  <2>2. archived' \in [Locales -> SUBSET Texts]
    BY <2>1 DEF PublishCommits, Revisions
  <2>3. DOMAIN draft' = Locales /\ \A k \in Locales : draft'[k] \in Drafts
    BY <1>1, <1>2, <1>3, <1>5 DEF IInv, CatalogsOK, Texted
  <2>. QED BY <2>2, <2>3 DEF Texted, Drafts
<1>7. PublicationsOK'
  <2>1. published' \in [Locales -> {None} \cup Revisions]
    BY <1>1, <1>4 DEF IInv, CatalogsOK, PublicationsOK
  <2>2. \A k \in Locales : published'[k] # None => published'[k].rev < draft'[k].rev
    BY <1>2, <1>3, <1>4, <1>5 DEF IInv, CatalogsOK, PublicationsOK
  <2>3. \A k \in Locales \ {l} : published[k] # None => ~Collide(published[k].text, tx[l][l].text)
    BY <1>1 DEF IInv, CatalogsOK, TxOK
  <2>4. \A t, u : Collide(t, u) <=> Collide(u, t)
    BY DEF Collide
  <2>5. \A j, k \in Locales : j # k /\ published[j] # None /\ published[k] # None
          => ~Collide(published[j].text, published[k].text)
    BY DEF IInv, CatalogsOK, PublicationsOK
  <2>6. ASSUME NEW j \in Locales, NEW k \in Locales, j # k, published'[j] # None, published'[k] # None
        PROVE  ~Collide(published'[j].text, published'[k].text)
    BY <1>5, <2>3, <2>4, <2>5, <2>6
  <2>. QED BY <2>1, <2>2, <2>6 DEF PublicationsOK, Collide
<1>8. TxOK'
  <2>1. DOMAIN tx' = Locales
    BY <1>1 DEF IInv, CatalogsOK, TxOK
  <2>. QED BY <1>5, <2>1 DEF TxOK
<1>9. SyncOK'
  <2>1. sync \in SyncStates
    BY DEF IInv, SyncOK, SyncStates
  <2>2. sync' \in SyncStates /\ sync'.status = "pending" /\ sync'.desired = tx[l]
    BY <1>1, <1>4, <2>1 DEF SyncStates, Statuses
  <2>. QED BY <1>4, <2>2 DEF SyncOK, SyncStates
<1>10. \A k \in Locales : draft'[k].rev >= draft[k].rev
  <2>1. \A k \in Locales : draft[k].rev \in Nat
    BY DEF IInv, CatalogsOK, Texted, Drafts
  <2>. QED BY <1>3, <1>5, <2>1
<1>11. ASSUME NEW s \in Schedulers PROVE run[s].snap # Current'
  <2>1. \A k \in DOMAIN run[s].snap : run[s].snap[k].rev < draft[k].rev
    BY DEF IInv, RunsOK, SnapIsOld
  <2>. QED BY <1>2, <1>4, <2>1
<1>12. RunsOK' /\ QueueOK' /\ LockOK'
  <2>1. Current' = Current => (shown => shown')
    BY DEF History
  <2>. QED BY <1>1, <1>6, <1>7, <1>8, <1>10, <1>11, <2>1, AdminFrame DEF CatalogsOK
<1>13. CountsOK'
  BY <1>1, CountsKept DEF IInv
<1>. QED BY <1>6, <1>7, <1>8, <1>9, <1>12, <1>13 DEF IInv, CatalogsOK

-----------------------------------------------------------------------------
LEMMA Initially == Init => IInv
<1> SUFFICES ASSUME Init PROVE IInv
  OBVIOUS
<1>1. PICK w \in Scenarios :
        draft = w.draft /\ published = w.published /\ sync = w.sync /\ settings = w.settings
  BY DEF Init
<1>2. /\ DOMAIN draft = Locales /\ published \in [Locales -> {None} \cup Revisions]
      /\ \A l \in Locales : draft[l] \in Drafts
  BY <1>1, ScenariosAssumption DEF Drafts
<1>3. /\ \A l \in DOMAIN Current : Current[l].rev < draft[l].rev
      /\ \A k, l \in DOMAIN Current : k # l => ~Collide(Current[k].text, Current[l].text)
      /\ \E D \in SUBSET Locales :
           sync \in [status : Statuses, desired : {None, Current}, applied : {None} \cup [D -> Revisions]]
      /\ sync.status = "synced" => sync.desired = Current /\ sync.applied = Current
  <2> DEFINE cur == [l \in {k \in Locales : w.published[k] # None} |-> w.published[l]]
  <2>1. Current = cur
    BY <1>1 DEF Current
  <2>2. \A l \in DOMAIN cur : cur[l].rev < w.draft[l].rev
    BY ScenariosAssumption
  <2>3. \A k, l \in DOMAIN cur : k # l => ~Collide(cur[k].text, cur[l].text)
    BY ScenariosAssumption
  <2>4. \E D \in SUBSET Locales :
          w.sync \in [status : Statuses, desired : {None, cur}, applied : {None} \cup [D -> Revisions]]
    BY ScenariosAssumption DEF Statuses
  <2>5. w.sync.status = "synced" => w.sync.desired = cur /\ w.sync.applied = cur
    BY ScenariosAssumption
  <2> HIDE DEF cur
  <2>. QED BY <1>1, <2>1, <2>2, <2>3, <2>4, <2>5
<1>4. Texted
  BY <1>2 DEF Init, Texted
<1>5. PublicationsOK
  BY <1>2, <1>3 DEF PublicationsOK, Current
<1>6. TxOK
  BY DEF Init, TxOK
<1>7. SyncOK
  <2>1. Current \in Snaps
    BY <1>5, CurrentIsSnap
  <2>2. PICK D \in SUBSET Locales :
          sync \in [status : Statuses, desired : {None, Current}, applied : {None} \cup [D -> Revisions]]
    BY <1>3
  <2>3. sync \in SyncStates /\ (sync.desired # None => sync.desired = Current)
    <3>1. [D -> Revisions] \subseteq Snaps
      BY DEF Snaps
    <3>. QED BY <2>1, <2>2, <3>1 DEF SyncStates
  <2>4. sync.status = "synced" => shown
    BY DEF Init
  <2>. QED BY <1>3, <2>3, <2>4 DEF SyncOK, SyncStates
<1>8. RunsOK
  <2>1. run = [s \in Schedulers |-> Off]
    BY DEF Init
  <2>2. Off \in Runs /\ RunShape(Off) /\ SnapIsOld(Off) /\ SeenSince(Off)
    BY IdleAndOff, NothingIsSnap DEF RunShape, SnapIsOld, SeenSince
  <2>3. run \in [Schedulers -> Runs] /\ \A s \in Schedulers : run[s] = Off
    BY <2>1, <2>2
  <2>. QED BY <2>2, <2>3 DEF RunsOK
<1>9. QueueOK
  <2>1. \A s \in Schedulers : ~Awaits(s)
    BY IdleAndOff DEF Init, Awaits
  <2>. QED BY <2>1 DEF Init, QueueOK
<1>10. LockOK /\ CountsOK
  BY SynonymBounds DEF Init, LockOK, CountsOK
<1>. QED BY <1>4, <1>5, <1>6, <1>7, <1>8, <1>9, <1>10 DEF IInv, CatalogsOK

LEMMA Preserved == IInv /\ [Next]_vars => IInv'
<1> SUFFICES ASSUME IInv, [Next]_vars PROVE IInv'
  OBVIOUS
<1>1. CASE UNCHANGED vars
  <2>1. /\ UNCHANGED <<draft, published, archived, tx, sync, run, tasks, holder, acts, troubles>>
        /\ shown' = shown
    BY <1>1 DEF vars, catalogs, admins, provider
  <2>2. Current' = Current
    BY <2>1 DEF Current
  <2>3. CatalogsOK'
    <3>1. Texted'
      BY <2>1 DEF IInv, CatalogsOK, Texted
    <3>2. PublicationsOK'
      BY <2>1 DEF IInv, CatalogsOK, PublicationsOK
    <3>3. \A l \in Locales : With(l, tx[l][l])' = With(l, tx[l][l])
      BY <2>1, <2>2 DEF With
    <3>4. TxOK'
      BY <2>1, <3>3 DEF IInv, CatalogsOK, TxOK
    <3>. QED BY <3>1, <3>2, <3>4 DEF CatalogsOK
  <2>4. LockOK'
    BY <2>1 DEF IInv, LockOK
  <2>6. SyncOK' /\ CountsOK'
    BY <2>1, <2>2 DEF IInv, SyncOK, CountsOK
  <2>5. RunsOK' /\ QueueOK'
    BY <2>1, <2>2, RunsKept DEF IInv, QueueOK, Awaits
  <2>. QED BY <2>3, <2>4, <2>5, <2>6 DEF IInv
<1>2. CASE Next
  <2>1. History
    BY <1>2 DEF Next
  <2>2. CASE AdminStep
    BY <2>1, <2>2, DraftsKeep, PublishBeginsKeeps, GivenUpKeeps DEF AdminStep
  <2>3. CASE PublishEnds
    BY <2>1, <2>3, CommitKeeps, GivenUpKeeps DEF PublishEnds
  <2>4. ASSUME NEW s \in Schedulers, RunStep(s) PROVE IInv'
    BY <2>1, <2>4, RunBeginsKeeps, RunReadsKeeps, RecordSyncingKeeps, SubmitKeeps, RecordKeeps
       DEF RunStep
  <2>5. ASSUME NEW s \in Schedulers, RunTrouble(s) PROVE IInv'
    BY <2>1, <2>5, SubmitKeeps, TimesOutKeeps, RunReadsKeeps, RunBreaksKeeps, SchedulersKeep
       DEF RunTrouble
  <2>6. ASSUME LosesLock \/ \E s \in Schedulers : Starts(s) PROVE IInv'
    BY <2>1, <2>6, SchedulersKeep
  <2>. QED BY <1>2, <2>1, <2>2, <2>3, <2>4, <2>5, <2>6, CarryKeeps DEF Next
<1>. QED BY <1>1, <1>2

(* The inductive invariant holds in every reachable state.                  *)
THEOREM Invariant == Spec => []IInv
BY Initially, Preserved, PTL DEF Spec

(* The rows, runs and tasks keep the shape their readers expect, a settings *)
(* task has at most one waiter, and a lock's holder is running              *)
(* (MeilisearchSettingsReconciler, SchedulerAdvisoryLock).                  *)
THEOREM TypeCorrect == Spec => []TypeOK
<1>1. ASSUME IInv PROVE TypeOK
  <2>1. ASSUME NEW l \in Locales
        PROVE  /\ draft[l] \in [rev : Nat, text : Texts]
               /\ published[l] # None => published[l] \in Revisions /\ published[l].rev < draft[l].rev
               /\ archived[l] \subseteq Texts
    BY <1>1 DEF IInv, CatalogsOK, Texted, PublicationsOK, Drafts
  <2>2. ASSUME NEW l \in Locales, tx[l] # None PROVE IsSnap(tx[l]) /\ l \in DOMAIN tx[l]
    <3>1. tx[l] = With(l, tx[l][l]) /\ tx[l][l] \in Revisions
      BY <1>1, <2>2 DEF IInv, CatalogsOK, TxOK
    <3>. QED BY <1>1, <3>1, WithIsSnap, SnapShape DEF IInv, CatalogsOK
  <2>3. /\ sync.status \in {"idle", "pending", "syncing", "synced", "failed"}
        /\ sync.desired = None \/ IsSnap(sync.desired)
        /\ sync.applied = None \/ IsSnap(sync.applied)
    BY <1>1, SnapShape DEF IInv, SyncOK, Statuses
  <2>4. \A field \in {"desired", "applied"} : sync[field] = None \/ IsSnap(sync[field])
    BY <2>3
  <2>5. ASSUME NEW s \in Schedulers
        PROVE  /\ run[s].at \in {"off", "idle", "read", "drifted", "submit", "wait", "verify", "record"}
               /\ run[s].ends = "none" <=> run[s].at # "record"
               /\ run[s].at \in {"read", "drifted", "submit", "wait", "verify"} => Trusted(run[s].snap)
               /\ run[s].task # "none" => run[s].at \in {"wait", "verify", "record"}
    BY <1>1, RunAt DEF RunShape, Runs
  <2>6. ASSUME NEW s \in Schedulers
        PROVE  /\ run[s].at = "wait" /\ run[s].task = "none"
                    <=> \E i \in DOMAIN tasks : tasks[i].by = s
               /\ \A i, j \in DOMAIN tasks : tasks[i].by = s /\ tasks[j].by = s => i = j
    BY <1>1 DEF IInv, QueueOK, Awaits
  <2>7. /\ holder # None => holder \in Schedulers /\ run[holder] # Off
        /\ acts \in 0..MaxActs /\ troubles \in 0..MaxTroubles
    BY <1>1 DEF IInv, LockOK, CountsOK
  <2>. QED BY <2>1, <2>2, <2>3, <2>4, <2>5, <2>6, <2>7 DEF TypeOK
<1>2. IInv => TypeOK
  BY <1>1
<1>. QED BY <1>2, Invariant, PTL

(* publish_draft under the locks of the catalog and the sync row, and       *)
(* _snapshot_is_current before every write of a run: what is published, what*)
(* the row desires and what it reports agree.                               *)
THEOREM LedgerStaysTrue == Spec => []LedgerIsTrue
<1>1. ASSUME IInv PROVE LedgerIsTrue
  <2>1. \A l \in DOMAIN Current : l \in Locales /\ published[l] # None
    BY <1>1, CurrentIsSnap DEF IInv, CatalogsOK
  <2>. QED BY <1>1, <2>1 DEF LedgerIsTrue, IInv, SyncOK, CatalogsOK, PublicationsOK
<1>2. IInv => LedgerIsTrue
  BY <1>1
<1>. QED BY <1>2, Invariant, PTL

-----------------------------------------------------------------------------
(***************************************************************************)
(* AccountLink, for any users, calls, identities and codes: a guest is     *)
(* linked once and loses nothing it collected, what a call answers of it   *)
(* is so, and calls never wait for each other in a circle.                 *)
(*                                                                         *)
(* What a call found before it had its locks may be stale; what it found   *)
(* when it worked is not, for it holds the guest's row until it commits    *)
(* (GuestIsHeld, AboutToCommit).  In a circle of waiting calls there would *)
(* be one that waits for the least user; its holder has locked a row above *)
(* the one it waits for, against the order of the ids (LocksInOrder).      *)
(***************************************************************************)
(* A nonempty set of numbers has a least one.                               *)
LEMMA LeastNumber ==
  ASSUME NEW S, S \subseteq Nat, S # {}
  PROVE  \E m \in S : \A k \in S : m <= k
<1> DEFINE R == {ss \in Nat \X Nat : ss[1] < ss[2]}
<1>1. IsWellFoundedOn(R, Nat)
  BY NatLessThanWellFounded DEF OpToRel
<1>2. ASSUME NEW x \in Nat, NEW y \in Nat PROVE <<x, y>> \in R <=> x < y
  OBVIOUS
<1> HIDE DEF R
<1>3. PICK m \in S : \A k \in S : ~ (<<k, m>> \in R)
  BY <1>1, WFMin
<1>4. ASSUME NEW k \in S PROVE m <= k
  <2>1. k \in Nat /\ m \in Nat
    OBVIOUS
  <2>2. ~ (k < m)
    BY <2>1, <1>2, <1>3
  <2>. QED BY <2>1, <2>2
<1>. QED BY <1>4

(* What a call remembers.                                                   *)
CallType ==
  [at : Places, mine : BOOLEAN, was : BOOLEAN, before : SUBSET Calls,
   target : Ids \cup {Nobody}, attach : BOOLEAN, todo : Seq(Ids),
   writes : SUBSET Identities, carry : SUBSET Items, again : BOOLEAN, answer : Answers]

(* An account: a row with an identity.  It is never deleted, and never a    *)
(* guest again.                                                             *)
IsAccount(u) == u \in alive /\ ~IsGuest(u)

(* Who has an identity is there.                                            *)
OwnersLive == \A i \in Identities : owner[i] # Nobody => owner[i] \in alive

(* A call that found its target, and the order it locks in.                 *)
Headed(c) == call[c].at \in {"lock", "work", "commit"}
HasTarget(c) ==
  Headed(c) /\ call[c].target # Nobody =>
    /\ IsAccount(call[c].target) /\ call[c].target # GuestOf(c)
    /\ call[c].attach \/ \A i \in Proved(c) : owner[i] = call[c].target
    /\ call[c].attach => Kind[c] = "google"

Order(c) ==
  IF call[c].target = Nobody THEN <<GuestOf(c)>> ELSE InOrder(GuestOf(c), call[c].target)
LocksInOrder(c) ==
  /\ call[c].at = "lock" => call[c].todo \in {Order(c), Tail(Order(c))} \ {<<>>}
  /\ \A u \in Ids : lock[u] = c =>
       /\ call[c].at \in {"lock", "work", "commit", "expire"}
       /\ call[c].at = "lock" => u < Head(call[c].todo)

(* A guest that is there is locked once it was the call's turn to lock it.  *)
Passed(c) ==
  call[c].at \in {"work", "commit"}
    \/ (call[c].at = "lock" /\ \A k \in DOMAIN call[c].todo : call[c].todo[k] # GuestOf(c))
GuestIsHeld(c) == Passed(c) /\ Visible(c, GuestOf(c)) => lock[GuestOf(c)] = c

(* A call about to commit: what it found when it worked is still so.        *)
AboutToCommit(c) ==
  call[c].at = "commit" =>
    /\ Visible(c, GuestOf(c)) /\ IsGuest(GuestOf(c))
    /\ call[c].carry = saves[GuestOf(c)]
    /\ \A i \in call[c].writes : owner[i] = Nobody
    /\ call[c].target = Nobody => call[c].writes = Claims[c]
    /\ call[c].target # Nobody /\ call[c].attach =>
         \A i \in Proved(c) : i \in call[c].writes \/ owner[i] = call[c].target
WritesApart ==
  \A c, d \in Calls : c # d /\ call[c].at = "commit" /\ call[d].at = "commit"
    => call[c].writes \cap call[d].writes = {}

(* Who issues a code links nothing; an answer of success is the last.       *)
Course(c) ==
  /\ Kind[c] = "issue" => call[c].at \in {"idle", "expire", "done"}
  /\ call[c].at = "expire" => Kind[c] = "issue"
  /\ call[c].answer = "linked" => call[c].at = "done" /\ Kind[c] # "issue"
  /\ call[c].answer = "completed" => call[c].at = "done"

CallsOK ==
  \A c \in Calls :
    HasTarget(c) /\ LocksInOrder(c) /\ GuestIsHeld(c) /\ AboutToCommit(c) /\ Course(c)

(* A link's guest is a guest no more, and its account is one.               *)
LinksOK ==
  \A l \in links :
    /\ IsAccount(l.account)
    /\ l.guest = GuestOf(l.by) /\ call[l.by].at = "done"
    /\ l.guest \in alive => ~IsGuest(l.guest)
GivenOK ==
  \A g \in given : g[1] \in alive \/ \E l \in links : l.guest = g[1]

LinkInv ==
  /\ LinkTypeOK /\ OwnersLive /\ WritesApart /\ CallsOK /\ LinksOK /\ GivenOK
  /\ LinkedWhole /\ AnswerIsTrue

USE IdsAreNumbers, FreshAreFresh, RowsAreDistinct, MarksAreMarks, CallsAreCalls

-----------------------------------------------------------------------------
(* What a step of a call may do to the state short of a commit: only its    *)
(* own memory changes, and it takes free locks or gives its own back.       *)
Others(c) == \A d \in Calls \ {c} : call'[d] = call[d]
LockMove(c) ==
  \A r \in Rows : \/ lock'[r] = lock[r]
                  \/ lock[r] = Free /\ lock'[r] = c
                  \/ lock[r] = c /\ lock'[r] = Free
Locally(c) ==
  UNCHANGED <<alive, owner, saves, given, links>> /\ Others(c) /\ LockMove(c)

LEMMA GuestIsId == \A c \in Calls : GuestOf(c) \in Ids
BY DEF GuestOf, Ids

(* Two calls have no fresh guest in common.                                 *)
LEMMA FreshGuest ==
  ASSUME NEW c \in Calls, NEW d \in Calls, GuestOf(d) = Fresh[c]
  PROVE  c = d
BY DEF GuestOf

(* Giving locks back.                                                       *)
LEMMA ReleaseType ==
  ASSUME LinkTypeOK, NEW c \in Calls, lock' = Release(c)
  PROVE  /\ lock' \in [Rows -> Calls \cup {Free}] /\ LockMove(c)
         /\ \A r \in Rows : lock'[r] # c
         /\ \A r \in Rows : lock'[r] # Free => lock'[r] = lock[r] /\ lock[r] # c
BY DEF LinkTypeOK, Release, LockMove

(* Taking one.                                                              *)
LEMMA TakeType ==
  ASSUME LinkTypeOK, NEW c \in Calls, NEW r \in Rows, lock[r] = Free, lock' = [lock EXCEPT ![r] = c]
  PROVE  /\ lock' \in [Rows -> Calls \cup {Free}] /\ LockMove(c)
         /\ lock'[r] = c /\ \A s \in Rows \ {r} : lock'[s] = lock[s]
BY DEF LinkTypeOK, LockMove

LEMMA SameLocks == ASSUME NEW c \in Calls, UNCHANGED lock PROVE LockMove(c)
BY DEF LockMove

(* What a call's step leaves the others.                                    *)
LEMMA OthersKeep ==
  ASSUME LinkInv, NEW c \in Calls, Locally(c), NEW d \in Calls, d # c
  PROVE  HasTarget(d)' /\ LocksInOrder(d)' /\ GuestIsHeld(d)' /\ AboutToCommit(d)' /\ Course(d)'
<1>1. HasTarget(d) /\ LocksInOrder(d) /\ GuestIsHeld(d) /\ AboutToCommit(d) /\ Course(d)
  BY DEF LinkInv, CallsOK
<1>2. call'[d] = call[d] /\ alive' = alive /\ owner' = owner /\ saves' = saves
  BY DEF Locally, Others
<1>3. \A r \in Rows : lock'[r] = d => lock[r] = d
  BY DEF Locally, LockMove
<1>3a. \A r \in Rows : lock[r] = d => lock'[r] = d
  BY DEF Locally, LockMove
<1>4. HasTarget(d)'
  BY <1>1, <1>2 DEF HasTarget, Headed, IsAccount, IsGuest
<1>5. LocksInOrder(d)'
  BY <1>1, <1>2, <1>3 DEF LocksInOrder, Order, Rows
<1>6. GuestIsHeld(d)'
  <2>1. GuestOf(d) \in Rows
    BY GuestIsId DEF Rows
  <2>. QED BY <1>1, <1>2, <1>3a, <2>1 DEF GuestIsHeld, Passed, Visible
<1>7. AboutToCommit(d)'
  BY <1>1, <1>2 DEF AboutToCommit, Visible, IsGuest
<1>8. Course(d)'
  BY <1>1, <1>2 DEF Course
<1>. QED BY <1>4, <1>5, <1>6, <1>7, <1>8

(* A step short of a commit keeps the invariant if the call that takes it   *)
(* keeps its part.                                                          *)
LEMMA LocalStep ==
  ASSUME LinkInv, NEW c \in Calls, Locally(c), LinkTypeOK', call[c].at # "done",
         HasTarget(c)', LocksInOrder(c)', GuestIsHeld(c)', AboutToCommit(c)', Course(c)',
         call'[c].at = "commit" =>
           \A d \in Calls \ {c} : call[d].at = "commit" =>
             call'[c].writes \cap call[d].writes = {},
         call'[c].answer # "linked",
         call'[c].answer = "completed" => \E l \in links : l.guest = GuestOf(c)
  PROVE  LinkInv'
<1>1. OwnersLive'
  BY DEF LinkInv, OwnersLive, Locally
<1>2. WritesApart'
  BY DEF LinkInv, WritesApart, Locally, Others
<1>3. CallsOK'
  BY OthersKeep DEF CallsOK
<1>4. LinksOK'
  <2>1. ASSUME NEW l \in links PROVE call'[l.by].at = "done"
    <3>1. l.by \in Calls /\ call[l.by].at = "done"
      BY DEF LinkInv, LinksOK, LinkTypeOK
    <3>. QED BY <3>1 DEF Locally, Others
  <2>. QED BY <2>1 DEF LinkInv, LinksOK, Locally, IsAccount, IsGuest
<1>5. GivenOK'
  BY DEF LinkInv, GivenOK, Locally
<1>6. LinkedWhole'
  BY DEF LinkInv, LinkedWhole, Locally, Heir
<1>7. AnswerIsTrue'
  <2>1. ASSUME NEW d \in Calls, d # c
        PROVE  /\ call'[d].answer = "linked" =>
                    Account(d)' \in alive' /\ \A i \in Proved(d) : owner'[i] = Account(d)'
               /\ call'[d].answer = "completed" => \E l \in links' : l.guest = GuestOf(d)
    BY <2>1 DEF LinkInv, AnswerIsTrue, Locally, Others, Account
  <2>. QED BY <2>1 DEF AnswerIsTrue, Locally
<1>. QED BY <1>1, <1>2, <1>3, <1>4, <1>5, <1>6, <1>7 DEF LinkInv

-----------------------------------------------------------------------------
(* The ways a call's own memory changes.                                    *)
LEMMA CallRecord ==
  ASSUME LinkTypeOK, NEW c \in Calls, NEW r, r \in CallType, call' = [call EXCEPT ![c] = r]
  PROVE  call' \in [Calls -> CallType] /\ call'[c] = r /\ Others(c)
BY DEF LinkTypeOK, CallType, Others

LEMMA CallsAreTyped == LinkTypeOK => call \in [Calls -> CallType]
BY DEF LinkTypeOK, CallType

(* The lock conjunct of the type invariant, and the rest of it.             *)
LocksAreAlive ==
  \A r \in Rows : lock[r] # Free => call[lock[r]].at \notin {"idle", "post", "again", "done"}

LEMMA TypeStep ==
  ASSUME LinkTypeOK, NEW c \in Calls, Locally(c), call' \in [Calls -> CallType],
         lock' \in [Rows -> Calls \cup {Free}],
         code' \in [Codes -> {"none", "active", "expired", "redeemed"}],
         call'[c].at \in {"idle", "post", "again", "done"} => \A r \in Rows : lock'[r] # c
  PROVE  LinkTypeOK'
<1>1. LocksAreAlive'
  BY DEF LocksAreAlive, Locally, LockMove, Others, LinkTypeOK
<1>. QED BY <1>1 DEF LocksAreAlive, Locally, LinkTypeOK, CallType

(* A call that is over, or that holds no user and is not on its way to one. *)
LEMMA EndStep ==
  ASSUME LinkInv, NEW c \in Calls, NEW a \in Answers, call[c].at # "done", CallEnds(c, a),
         a # "linked", a = "completed" => \E l \in links : l.guest = GuestOf(c)
  PROVE  LinkInv'
<1> DEFINE r == [call[c] EXCEPT !.at = "done", !.answer = a, !.mine = FALSE]
<1>1. LinkTypeOK /\ call[c] \in CallType
  BY CallsAreTyped DEF LinkInv
<1>2. r \in CallType /\ r.at = "done" /\ r.answer = a
  BY <1>1 DEF CallType, Places
<1>3. call' = [call EXCEPT ![c] = r]
  <2>1. call' = [call EXCEPT ![c].at = "done", ![c].answer = a, ![c].mine = FALSE]
    BY DEF CallEnds
  <2>2. DOMAIN call = Calls
    BY <1>1, CallsAreTyped
  <2>. QED BY <2>1, <2>2
<1>4. call' \in [Calls -> CallType] /\ call'[c] = r /\ Others(c)
  BY <1>1, <1>2, <1>3, CallRecord
<1>5. Locally(c) /\ lock' \in [Rows -> Calls \cup {Free}] /\ \A s \in Rows : lock'[s] # c
  BY <1>1, <1>4, ReleaseType DEF CallEnds, Database, Locally
<1>6. LinkTypeOK'
  BY <1>1, <1>4, <1>5, TypeStep DEF CallEnds, Database, LinkTypeOK
<1>7. HasTarget(c)' /\ LocksInOrder(c)' /\ GuestIsHeld(c)' /\ AboutToCommit(c)' /\ Course(c)'
  BY <1>2, <1>4, <1>5 DEF HasTarget, Headed, LocksInOrder, Rows, GuestIsHeld, Passed,
     AboutToCommit, Course
<1> HIDE DEF r
<1>. QED BY <1>1, <1>2, <1>4, <1>5, <1>6, <1>7, LocalStep

LEMMA PostStep ==
  ASSUME LinkInv, NEW c \in Calls, NEW why \in Answers, call[c].at # "done", Fails(c, why),
         Kind[c] # "issue", why \notin {"linked", "completed"}
  PROVE  LinkInv'
<1>1. CASE call[c].again
  BY <1>1, EndStep DEF Fails
<1>2. CASE ~call[c].again
  <2> DEFINE r == [call[c] EXCEPT !.at = "post", !.answer = why, !.mine = FALSE]
  <2>1. LinkTypeOK /\ call[c] \in CallType
    BY CallsAreTyped DEF LinkInv
  <2>2. r \in CallType /\ r.at = "post" /\ r.answer = why
    BY <2>1 DEF CallType, Places
  <2>3. call' = [call EXCEPT ![c] = r]
    <3>1. call' = [call EXCEPT ![c].at = "post", ![c].answer = why, ![c].mine = FALSE]
      BY <1>2 DEF Fails
    <3>2. DOMAIN call = Calls
      BY <2>1, CallsAreTyped
    <3>. QED BY <3>1, <3>2
  <2>4. call' \in [Calls -> CallType] /\ call'[c] = r /\ Others(c)
    BY <2>1, <2>2, <2>3, CallRecord
  <2>5. Locally(c) /\ lock' \in [Rows -> Calls \cup {Free}] /\ \A s \in Rows : lock'[s] # c
    BY <1>2, <2>1, <2>4, ReleaseType DEF Fails, Database, Locally
  <2>5a. code' \in [Codes -> {"none", "active", "expired", "redeemed"}]
    BY <1>2, <2>1 DEF Fails, Database, LinkTypeOK
  <2>6. LinkTypeOK'
    BY <2>1, <2>4, <2>5, <2>5a, TypeStep
  <2>7. HasTarget(c)' /\ LocksInOrder(c)' /\ GuestIsHeld(c)' /\ AboutToCommit(c)' /\ Course(c)'
    BY <2>2, <2>4, <2>5 DEF HasTarget, Headed, LocksInOrder, Rows, GuestIsHeld, Passed,
       AboutToCommit, Course
  <2> HIDE DEF r
  <2>. QED BY <2>1, <2>2, <2>4, <2>5, <2>6, <2>7, LocalStep
<1>. QED BY <1>1, <1>2

(* A step that neither locks a user nor comes near one.                     *)
LEMMA PlainStep ==
  ASSUME LinkInv, NEW c \in Calls, call[c].at \notin {"done", "lock", "work", "commit", "expire"},
         NEW r, r \in CallType, call' = [call EXCEPT ![c] = r],
         UNCHANGED <<alive, owner, saves, given, links>>, UNCHANGED code,
         LockMove(c), lock' \in [Rows -> Calls \cup {Free}],
         \A u \in Ids : lock'[u] = lock[u],
         r.at \in {"begin", "resolve", "again"}, Kind[c] # "issue",
         r.at = "again" => \A s \in Rows : lock'[s] # c,
         r.answer \notin {"linked", "completed"}
  PROVE  LinkInv'
<1>1. LinkTypeOK /\ call[c] \in CallType /\ LocksInOrder(c)
  BY CallsAreTyped DEF LinkInv, CallsOK
<1>4. call' \in [Calls -> CallType] /\ call'[c] = r /\ Others(c)
  BY <1>1, CallRecord
<1>5. Locally(c)
  BY <1>4 DEF Locally
<1>6. LinkTypeOK'
  BY <1>1, <1>4, <1>5, TypeStep DEF LinkTypeOK
<1>7. HasTarget(c)' /\ LocksInOrder(c)' /\ GuestIsHeld(c)' /\ AboutToCommit(c)' /\ Course(c)'
  BY <1>1, <1>4 DEF HasTarget, Headed, LocksInOrder, GuestIsHeld, Passed, AboutToCommit, Course
<1>. QED BY <1>1, <1>4, <1>5, <1>6, <1>7, LocalStep

-----------------------------------------------------------------------------
(* The actions of a call.                                                   *)
LEMMA LockCodeStep ==
  ASSUME LinkInv, NEW c \in Calls, LockCode(c)
  PROVE  LinkInv'
<1>1. LinkTypeOK /\ call[c] \in CallType /\ CodeOf[c] \in Rows \ Ids
  BY CallsAreTyped DEF LinkInv, Rows
<1>2. CASE code[CodeOf[c]] = "active"
  <2> DEFINE r == [call[c] EXCEPT !.at = "begin"]
  <2>1. r \in CallType /\ r.at = "begin" /\ r.answer = call[c].answer
    BY <1>1 DEF CallType, Places
  <2>2. call' = [call EXCEPT ![c] = r]
    BY <1>1, <1>2, CallsAreTyped DEF LockCode, CallType
  <2>3a. lock[CodeOf[c]] = Free /\ lock' = [lock EXCEPT ![CodeOf[c]] = c]
    BY <1>2 DEF LockCode
  <2>3b. /\ LockMove(c) /\ lock' \in [Rows -> Calls \cup {Free}]
         /\ \A s \in Rows \ {CodeOf[c]} : lock'[s] = lock[s]
    BY <1>1, <2>3a, TakeType
  <2>3. /\ LockMove(c) /\ lock' \in [Rows -> Calls \cup {Free}]
        /\ \A u \in Ids : lock'[u] = lock[u]
    BY <1>1, <2>3b DEF Rows
  <2>4. call[c].answer \notin {"linked", "completed"} /\ call[c].at = "idle" /\ Kind[c] # "issue"
    BY DEF LockCode, LinkInv, CallsOK, Course
  <2>5. UNCHANGED <<alive, owner, saves, given, links>> /\ UNCHANGED code
    BY <1>2 DEF LockCode, Database
  <2> HIDE DEF r
  <2>. QED BY <1>1, <2>1, <2>2, <2>3, <2>4, <2>5, PlainStep
<1>3. CASE code[CodeOf[c]] # "active"
  BY <1>3, EndStep DEF LockCode, Answers
<1>. QED BY <1>2, <1>3

LEMMA BeginStep ==
  ASSUME LinkInv, NEW c \in Calls, Begin(c)
  PROVE  LinkInv'
<1> DEFINE fresh == Kind[c] # "redeem" /\ Guest[c] = Anonymous
           was == fresh \/ (GuestOf(c) \in alive /\ IsGuest(GuestOf(c)))
           before == {d \in Calls : call[d].at = "commit"} \cup {l.by : l \in links}
           r == [call[c] EXCEPT !.at = "resolve", !.mine = fresh, !.was = was, !.before = before]
<1>1. LinkTypeOK /\ call[c] \in CallType
  BY CallsAreTyped DEF LinkInv
<1>2. before \in SUBSET Calls /\ fresh \in BOOLEAN /\ was \in BOOLEAN
  BY <1>1 DEF LinkTypeOK
<1>3. r \in CallType /\ r.at = "resolve" /\ r.answer = call[c].answer
  BY <1>1, <1>2 DEF CallType, Places
<1>4. call' = [call EXCEPT ![c] = r]
  BY <1>1, CallsAreTyped DEF Begin, CallType
<1>5. /\ call[c].answer \notin {"linked", "completed"} /\ Kind[c] # "issue"
      /\ call[c].at \in {"idle", "begin"}
  BY DEF Begin, LinkInv, CallsOK, Course
<1>6. /\ UNCHANGED <<alive, owner, saves, given, links>> /\ UNCHANGED <<code, lock>>
      /\ lock \in [Rows -> Calls \cup {Free}]
  BY <1>1 DEF Begin, Database, LinkTypeOK
<1> HIDE DEF r
<1>. QED BY <1>1, <1>3, <1>4, <1>5, <1>6, PlainStep, SameLocks

LEMMA OneLeft == \A x : Tail(<<x>>) = <<>> /\ Head(<<x>>) = x /\ <<x>> # <<>>
OBVIOUS

LEMMA TwoLeft == \A x, y : Tail(<<x, y>>) = <<y>> /\ Head(<<x, y>>) = x /\ <<x, y>> # <<>>
OBVIOUS

(* The order in which two users are locked.                                 *)
LEMMA OrderedPair ==
  ASSUME NEW u \in Ids, NEW v \in Ids, u # v
  PROVE  \E a, b \in {u, v} : InOrder(u, v) = <<a, b>> /\ a < b /\ {a, b} = {u, v}
BY DEF InOrder

LEMMA Ordered ==
  ASSUME NEW u \in Ids, NEW v \in Ids, u # v
  PROVE  /\ InOrder(u, v) \in Seq(Ids) /\ Tail(InOrder(u, v)) \in Seq(Ids)
         /\ InOrder(u, v) # <<>> /\ Tail(InOrder(u, v)) # <<>>
         /\ Tail(Tail(InOrder(u, v))) = <<>>
         /\ Head(InOrder(u, v)) < Head(Tail(InOrder(u, v)))
         /\ {Head(InOrder(u, v)), Head(Tail(InOrder(u, v)))} = {u, v}
         /\ DOMAIN InOrder(u, v) = {1, 2} /\ DOMAIN Tail(InOrder(u, v)) = {1}
<1>1. PICK a \in {u, v}, b \in {u, v} : InOrder(u, v) = <<a, b>> /\ a < b /\ {a, b} = {u, v}
  BY OrderedPair
<1>2. Tail(<<a, b>>) = <<b>> /\ Tail(<<b>>) = <<>>
  OBVIOUS
<1>. QED BY <1>1, <1>2

(* A call that found its target starts to lock.                             *)
LEMMA HeadsStep ==
  ASSUME LinkInv, NEW c \in Calls, NEW target \in Ids \cup {Nobody}, Heads(c, target),
         call[c].at \in {"resolve", "again"}, UNCHANGED Database, UNCHANGED lock, Kind[c] # "issue",
         target # Nobody => target \in Targets(c) /\ target # GuestOf(c)
  PROVE  LinkInv'
<1> DEFINE todo == IF target = Nobody THEN <<GuestOf(c)>> ELSE InOrder(GuestOf(c), target)
           r == [call[c] EXCEPT !.at = "lock", !.target = target, !.attach = ByMail(c),
                                !.todo = todo]
<1>1. LinkTypeOK /\ call[c] \in CallType /\ GuestOf(c) \in Ids
  BY CallsAreTyped, GuestIsId DEF LinkInv
<1>2. todo \in Seq(Ids) /\ todo # <<>>
  BY <1>1, Ordered
<1>3. ByMail(c) \in BOOLEAN
  BY DEF ByMail
<1>4. /\ r \in CallType /\ r.at = "lock" /\ r.target = target /\ r.attach = ByMail(c)
      /\ r.todo = todo /\ r.answer = call[c].answer
  BY <1>1, <1>2, <1>3 DEF CallType, Places
<1>5. call' = [call EXCEPT ![c] = r]
  BY <1>1, CallsAreTyped DEF Heads, CallType
<1> HIDE DEF r
<1>6. call' \in [Calls -> CallType] /\ call'[c] = r /\ Others(c)
  BY <1>1, <1>4, <1>5, CallRecord
<1>7a. UNCHANGED <<alive, owner, saves, given, links>> /\ UNCHANGED <<code, lock>>
  BY DEF Database
<1>7b. LockMove(c)
  BY <1>7a, SameLocks
<1>7. Locally(c) /\ UNCHANGED <<code, lock>>
  BY <1>6, <1>7a, <1>7b DEF Locally
<1>8. LinkTypeOK'
  <2>1. code' \in [Codes -> {"none", "active", "expired", "redeemed"}] /\ lock' \in [Rows -> Calls \cup {Free}]
    BY <1>1, <1>7 DEF LinkTypeOK
  <2>. QED BY <1>1, <1>4, <1>6, <1>7, <2>1, TypeStep
<1>9. HasTarget(c)'
  <2>1. ASSUME target # Nobody
        PROVE  /\ IsAccount(target) /\ target # GuestOf(c)
               /\ ByMail(c) \/ \A i \in Proved(c) : owner[i] = target
               /\ ByMail(c) => Kind[c] = "google"
    <3>1. PICK i \in Claims[c] : owner[i] = target
      BY <2>1 DEF Targets, Holders
    <3>2. i \in Identities /\ target \in alive
      BY <2>1, <3>1 DEF LinkInv, OwnersLive
    <3>3. IsAccount(target)
      BY <3>1, <3>2 DEF IsAccount, IsGuest
    <3>4. CASE Kind[c] = "google"
      <4>1. PICK g \in Googles : Claims[c] \ Mails = {g}
        BY <3>4, OneIdentityIsProved
      <4>2. Claims[c] \cap Googles = {g}
        BY <4>1, OneIdentityIsProved, <3>4 DEF Identities
      <4>3. ~ByMail(c) => target \in Holders({g})
        BY <2>1, <3>4, <4>1 DEF Targets
      <4>. QED BY <2>1, <3>3, <3>4, <4>2, <4>3 DEF Proved, Holders
    <3>5. CASE Kind[c] # "google"
      <4>1. PICK k \in Identities : Claims[c] = {k}
        BY <3>5, OneIdentityIsProved
      <4>. QED BY <2>1, <3>1, <3>3, <3>5, <4>1 DEF Proved, ByMail
    <3>. QED BY <3>4, <3>5
  <2>. QED BY <1>4, <1>6, <1>7, <2>1 DEF HasTarget, Headed, Locally, IsAccount, IsGuest
<1>10. LocksInOrder(c)'
  <2>1. LocksInOrder(c)
    BY DEF LinkInv, CallsOK
  <2>2. \A u \in Ids : lock'[u] # c
    BY <2>1, <1>7 DEF LocksInOrder
  <2>3. Order(c)' = todo
    BY <1>4, <1>6 DEF Order
  <2>. QED BY <1>2, <1>4, <1>6, <2>2, <2>3 DEF LocksInOrder
<1>11. GuestIsHeld(c)'
  <2>1. \E k \in DOMAIN todo : todo[k] = GuestOf(c)
    <3>1. CASE target = Nobody
      BY <3>1
    <3>2. CASE target # Nobody
      BY <3>2 DEF InOrder
    <3>. QED BY <3>1, <3>2
  <2>. QED BY <1>4, <1>6, <2>1 DEF GuestIsHeld, Passed
<1>12. AboutToCommit(c)' /\ Course(c)'
  BY <1>4, <1>6 DEF LinkInv, CallsOK, AboutToCommit, Course
<1>13. call[c].answer \notin {"linked", "completed"}
  BY DEF LinkInv, CallsOK, Course
<1>. QED BY <1>4, <1>6, <1>7, <1>8, <1>9, <1>10, <1>11, <1>12, <1>13, LocalStep

LEMMA ResolveStep ==
  ASSUME LinkInv, NEW c \in Calls, Resolve(c)
  PROVE  LinkInv'
<1>1. call[c].at = "resolve" /\ Kind[c] # "issue" /\ LinkTypeOK
  BY DEF Resolve, LinkInv, CallsOK, Course
<1>2. CASE CallEnds(c, "credentials") \/ CallEnds(c, "taken")
  BY <1>1, <1>2, EndStep DEF Answers
<1>3. CASE Heads(c, Nobody) /\ UNCHANGED <<Database, lock>>
  <2>1. UNCHANGED Database /\ UNCHANGED lock
    BY <1>3
  <2>. QED BY <1>1, <1>3, <2>1, HeadsStep
<1>4. ASSUME NEW u \in Targets(c),
             IF u = GuestOf(c) THEN Fails(c, "self") ELSE Heads(c, u) /\ UNCHANGED <<Database, lock>>
      PROVE  LinkInv'
  <2>1. u \in Ids
    BY <1>1 DEF Targets, Holders, LinkTypeOK
  <2>2. CASE u = GuestOf(c)
    BY <1>1, <1>4, <2>2, PostStep DEF Answers
  <2>3. CASE u # GuestOf(c)
    <3>1. UNCHANGED Database /\ UNCHANGED lock /\ Heads(c, u)
      BY <1>4, <2>3
    <3>. QED BY <1>1, <1>4, <2>1, <2>3, <3>1, HeadsStep
  <2>. QED BY <2>2, <2>3
<1>. QED BY <1>2, <1>3, <1>4 DEF Resolve

LEMMA LockNextStep ==
  ASSUME LinkInv, NEW c \in Calls, LockNext(c)
  PROVE  LinkInv'
<1> DEFINE u == Head(call[c].todo)
           rest == Tail(call[c].todo)
           r == [call[c] EXCEPT !.todo = rest, !.at = IF rest = <<>> THEN "work" ELSE @]
<1>1. /\ LinkTypeOK /\ call[c] \in CallType /\ GuestOf(c) \in Ids /\ call[c].at = "lock"
      /\ HasTarget(c) /\ LocksInOrder(c) /\ GuestIsHeld(c) /\ Course(c)
  BY CallsAreTyped, GuestIsId DEF LinkInv, CallsOK, LockNext
<1>2. call[c].todo \in {Order(c), Tail(Order(c))} /\ call[c].todo # <<>>
  BY <1>1 DEF LocksInOrder
<1>3. \/ call[c].target = Nobody /\ Order(c) = <<GuestOf(c)>>
      \/ /\ call[c].target \in Ids /\ call[c].target # GuestOf(c)
         /\ Order(c) = InOrder(GuestOf(c), call[c].target)
  BY <1>1 DEF HasTarget, Headed, Order, CallType
<1>4. PICK a \in Ids, b \in Ids :
        \/ call[c].todo = <<a>> /\ rest = <<>> /\ a \in {GuestOf(c), call[c].target}
        \/ /\ call[c].todo = <<a, b>> /\ rest = <<b>> /\ a < b
           /\ GuestOf(c) \in {a, b} /\ Tail(Order(c)) = <<b>>
  <2>1. CASE call[c].target = Nobody
    <3>1. Order(c) = <<GuestOf(c)>> /\ Tail(Order(c)) = <<>>
      BY <1>3, <2>1, OneLeft
    <3>. QED BY <1>1, <1>2, <3>1, OneLeft
  <2>2. CASE call[c].target # Nobody
    <3>0. /\ call[c].target \in Ids /\ call[c].target # GuestOf(c)
          /\ Order(c) = InOrder(GuestOf(c), call[c].target)
      BY <1>3, <2>2
    <3>1. \E a, b \in {GuestOf(c), call[c].target} :
            /\ InOrder(GuestOf(c), call[c].target) = <<a, b>> /\ a < b
            /\ {a, b} = {GuestOf(c), call[c].target}
      BY <1>1, <3>0, OrderedPair
    <3>2. PICK a \in Ids, b \in Ids :
            /\ Order(c) = <<a, b>> /\ a < b /\ GuestOf(c) \in {a, b}
            /\ b \in {GuestOf(c), call[c].target}
      <4>1. PICK a, b \in {GuestOf(c), call[c].target} :
              /\ InOrder(GuestOf(c), call[c].target) = <<a, b>> /\ a < b
              /\ {a, b} = {GuestOf(c), call[c].target}
        BY <3>1
      <4>2. a \in Ids /\ b \in Ids /\ GuestOf(c) \in {a, b} /\ Order(c) = <<a, b>>
        BY <1>1, <3>0, <4>1
      <4>. QED BY <4>1, <4>2
    <3>3. Tail(Order(c)) = <<b>>
      BY <3>2, TwoLeft
    <3>4. CASE call[c].todo = Order(c)
      BY <3>2, <3>3, <3>4
    <3>5. CASE call[c].todo = <<b>>
      BY <3>2, <3>5, OneLeft
    <3>. QED BY <1>2, <3>3, <3>4, <3>5
  <2>. QED BY <2>1, <2>2
<1>5. /\ rest \in Seq(Ids) /\ u \in Ids /\ u = a
      /\ rest = <<>> \/ (rest = <<b>> /\ rest # <<>> /\ Head(rest) = b)
  <2>1. <<>> \in Seq(Ids) /\ <<b>> \in Seq(Ids)
    OBVIOUS
  <2>. QED BY <1>4, <2>1, OneLeft, TwoLeft
<1>6. /\ r \in CallType /\ r.at = (IF rest = <<>> THEN "work" ELSE "lock")
      /\ r.todo = rest /\ r.answer = call[c].answer /\ r.target = call[c].target
      /\ r.attach = call[c].attach /\ r.mine = call[c].mine
  BY <1>1, <1>5 DEF CallType, Places
<1>7. call' = [call EXCEPT ![c] = r]
  BY <1>1, CallsAreTyped DEF LockNext, CallType
<1> HIDE DEF r, rest, u
<1>8. call' \in [Calls -> CallType] /\ call'[c] = r /\ Others(c)
  BY <1>1, <1>6, <1>7, CallRecord
<1>9. /\ LockMove(c) /\ lock' \in [Rows -> Calls \cup {Free}]
      /\ \A v \in Ids \ {u} : lock'[v] = lock[v]
      /\ Visible(c, u) => lock'[u] = c
  <2>1. CASE Visible(c, u)
    <3>1. lock[u] = Free /\ lock' = [lock EXCEPT ![u] = c]
      BY <2>1 DEF LockNext, u
    <3>. QED BY <1>1, <1>5, <3>1, TakeType DEF Rows
  <2>2. CASE ~Visible(c, u)
    <3>1. lock' = lock
      BY <2>2 DEF LockNext, u
    <3>. QED BY <1>1, <2>2, <3>1 DEF LockMove, LinkTypeOK
  <2>. QED BY <2>1, <2>2
<1>10. Locally(c) /\ UNCHANGED code
  BY <1>8, <1>9 DEF Locally, LockNext, Database
<1>11. LinkTypeOK'
  <2>1. code' \in [Codes -> {"none", "active", "expired", "redeemed"}]
    BY <1>1, <1>10 DEF LinkTypeOK
  <2>. QED BY <1>1, <1>6, <1>8, <1>9, <1>10, <2>1, TypeStep
<1>12. HasTarget(c)'
  BY <1>1, <1>6, <1>8, <1>10 DEF HasTarget, Headed, Locally, IsAccount, IsGuest
<1>13. LocksInOrder(c)'
  <2>1. Order(c)' = Order(c)
    BY <1>6, <1>8 DEF Order
  <2>2. ASSUME NEW v \in Ids, lock'[v] = c
        PROVE  v = u \/ v < u
    BY <2>2, <1>1, <1>9 DEF LocksInOrder, u
  <2>3. CASE rest = <<>>
    BY <2>3, <1>6, <1>8 DEF LocksInOrder
  <2>4. CASE rest # <<>>
    <3>1. rest = Tail(Order(c)) /\ a < b /\ Head(rest) = b /\ r.at = "lock"
      BY <2>4, <1>4, <1>5, <1>6
    <3>2. ASSUME NEW v \in Ids, lock'[v] = c PROVE v < b
      <4>1. v = a \/ v < a
        BY <2>2, <3>2, <1>5
      <4>2. v \in Nat /\ a \in Nat /\ b \in Nat
        BY <1>4
      <4>. QED BY <3>1, <4>1, <4>2
    <3>3. call'[c].at = "lock" /\ call'[c].todo = rest
      BY <3>1, <1>6, <1>8
    <3>4. call'[c].todo = Tail(Order(c)') /\ Head(call'[c].todo) = b
      BY <2>1, <3>1, <3>3
    <3>. QED BY <2>4, <3>2, <3>3, <3>4 DEF LocksInOrder
  <2>. QED BY <2>3, <2>4
<1>14. GuestIsHeld(c)'
  <2>1. Visible(c, GuestOf(c))' <=> Visible(c, GuestOf(c))
    BY <1>6, <1>8, <1>10 DEF Visible, Locally
  <2>2. CASE u = GuestOf(c)
    BY <1>9, <2>1, <2>2 DEF GuestIsHeld
  <2>3. CASE u # GuestOf(c) /\ rest = <<>>
    <3>1. call[c].todo = <<a>> /\ a # GuestOf(c)
      BY <2>3, <1>4, <1>5
    <3>2. Passed(c)
      BY <3>1, <1>1 DEF Passed
    <3>. QED BY <1>1, <1>9, <2>1, <2>3, <3>2 DEF GuestIsHeld
  <2>4. CASE u # GuestOf(c) /\ rest # <<>>
    <3>1. rest = <<b>> /\ b = GuestOf(c) /\ r.at = "lock"
      BY <2>4, <1>4, <1>5, <1>6
    <3>. QED BY <3>1, <1>6, <1>8 DEF GuestIsHeld, Passed
  <2>. QED BY <2>2, <2>3, <2>4
<1>15. AboutToCommit(c)' /\ Course(c)'
  BY <1>1, <1>6, <1>8 DEF AboutToCommit, Course
<1>16. r.answer \notin {"linked", "completed"} /\ r.at # "commit"
  BY <1>1, <1>6 DEF Course
<1>. QED BY <1>1, <1>8, <1>10, <1>11, <1>12, <1>13, <1>14, <1>15, <1>16, LocalStep

LEMMA WorkStep ==
  ASSUME LinkInv, NEW c \in Calls, Work(c)
  PROVE  LinkInv'
<1>1. /\ LinkTypeOK /\ call[c] \in CallType /\ GuestOf(c) \in Ids /\ call[c].at = "work"
      /\ HasTarget(c) /\ LocksInOrder(c) /\ GuestIsHeld(c) /\ Course(c) /\ Kind[c] # "issue"
  BY CallsAreTyped, GuestIsId DEF LinkInv, CallsOK, Work, Course
<1>2. CASE ~CanLink(c) \/ (Unwritten(c) /\ Duplicate(c))
  <2>1. PICK why \in {"not a guest", "no such user", "duplicate"} : Fails(c, why)
    BY <1>2 DEF Work
  <2>2. why \in Answers /\ why \notin {"linked", "completed"}
    BY <2>1 DEF Answers
  <2>. QED BY <1>1, <2>1, <2>2, PostStep
<1>3. CASE CanLink(c) /\ Unwritten(c) /\ ~Duplicate(c)
  <2> DEFINE r == [call[c] EXCEPT !.at = "commit", !.writes = Writes(c), !.carry = saves[GuestOf(c)]]
  <2>1. Writes(c) \in SUBSET Identities /\ saves[GuestOf(c)] \in SUBSET Items
    BY <1>1 DEF Writes, LinkTypeOK
  <2>2. /\ r \in CallType /\ r.at = "commit" /\ r.writes = Writes(c) /\ r.answer = call[c].answer
        /\ r.carry = saves[GuestOf(c)] /\ r.target = call[c].target /\ r.attach = call[c].attach
        /\ r.mine = call[c].mine
    BY <1>1, <2>1 DEF CallType, Places
  <2>3. call' = [call EXCEPT ![c] = r] /\ UNCHANGED Database /\ UNCHANGED lock
    <3>1. /\ call' = [call EXCEPT ![c].at = "commit", ![c].writes = Writes(c),
                                  ![c].carry = saves[GuestOf(c)]]
          /\ UNCHANGED Database /\ UNCHANGED lock
      BY <1>3 DEF Work
    <3>2. DOMAIN call = Calls
      BY <1>1, CallsAreTyped
    <3>. QED BY <3>1, <3>2
  <2> HIDE DEF r
  <2>4. call' \in [Calls -> CallType] /\ call'[c] = r /\ Others(c)
    BY <1>1, <2>2, <2>3, CallRecord
  <2>5. Locally(c) /\ UNCHANGED code
    BY <2>3, <2>4, SameLocks DEF Locally, Database
  <2>6. LinkTypeOK'
    <3>1. /\ code' \in [Codes -> {"none", "active", "expired", "redeemed"}]
          /\ lock' \in [Rows -> Calls \cup {Free}]
      BY <1>1, <2>3, <2>5 DEF LinkTypeOK
    <3>. QED BY <1>1, <2>2, <2>4, <2>5, <3>1, TypeStep
  <2>7. HasTarget(c)'
    BY <1>1, <2>2, <2>4, <2>5 DEF HasTarget, Headed, Locally, IsAccount, IsGuest
  <2>8. LocksInOrder(c)' /\ Course(c)'
    BY <1>1, <2>2, <2>4 DEF LocksInOrder, Course
  <2>9. GuestIsHeld(c)'
    BY <1>1, <2>2, <2>3, <2>4, <2>5 DEF GuestIsHeld, Passed, Visible, Locally
  <2>10. AboutToCommit(c)'
    <3>1. Visible(c, GuestOf(c)) /\ IsGuest(GuestOf(c))
      BY <1>3 DEF CanLink
    <3>2. \A i \in Writes(c) : owner[i] = Nobody
      BY <1>3 DEF Duplicate, Holders
    <3>3. ASSUME call[c].target # Nobody, call[c].attach, NEW i \in Proved(c)
          PROVE  i \in Writes(c) \/ owner[i] = call[c].target
      BY <1>1, <3>3 DEF Writes, Proved, HasTarget, Headed
    <3>4. call[c].target = Nobody => Writes(c) = Claims[c]
      BY DEF Writes
    <3>. QED BY <2>2, <2>4, <2>5, <3>1, <3>2, <3>3, <3>4
             DEF AboutToCommit, Locally, Visible, IsGuest
  <2>11. \A d \in Calls \ {c} : call[d].at = "commit" => r.writes \cap call[d].writes = {}
    BY <1>3, <2>2 DEF Unwritten
  <2>12. r.answer \notin {"linked", "completed"}
    BY <1>1, <2>2 DEF Course
  <2>. QED BY <1>1, <2>4, <2>5, <2>6, <2>7, <2>8, <2>9, <2>10, <2>11, <2>12, LocalStep
<1>. QED BY <1>2, <1>3 DEF Work

-----------------------------------------------------------------------------
(* The commit of a link.                                                    *)
LEMMA ProvedSome ==
  ASSUME NEW c \in Calls, Kind[c] # "issue"
  PROVE  /\ Proved(c) \subseteq Claims[c] /\ Proved(c) \subseteq Identities
         /\ \E i \in Identities : i \in Proved(c)
<1>1. CASE Kind[c] = "google"
  <2>1. PICK g \in Googles : Claims[c] \ Mails = {g}
    BY <1>1, OneIdentityIsProved
  <2>. QED BY <1>1, <2>1 DEF Proved, Identities
<1>2. CASE Kind[c] # "google"
  <2>1. PICK i \in Identities : Claims[c] = {i}
    BY <1>2, OneIdentityIsProved
  <2>. QED BY <1>2, <2>1 DEF Proved
<1>. QED BY <1>1, <1>2

LEMMA ChosenLink ==
  ASSUME NEW L, NEW l \in L, \A m \in L : m.guest = l.guest => m = l
  PROVE  (CHOOSE m \in L : m.guest = l.guest) = l
OBVIOUS

(* What the call that commits knows.                                        *)
LEMMA Committing ==
  ASSUME LinkInv, NEW c \in Calls, call[c].at = "commit"
  PROVE  /\ GuestOf(c) \in Ids /\ Account(c) \in Ids /\ Kind[c] # "issue"
         /\ Visible(c, GuestOf(c)) /\ IsGuest(GuestOf(c)) /\ lock[GuestOf(c)] = c
         /\ call[c].carry = saves[GuestOf(c)]
         /\ call[c].writes \subseteq Identities /\ \A i \in call[c].writes : owner[i] = Nobody
         /\ call[c].target = Nobody => call[c].writes = Claims[c] /\ Account(c) = GuestOf(c)
         /\ call[c].target # Nobody =>
              /\ Account(c) = call[c].target /\ IsAccount(Account(c)) /\ Account(c) # GuestOf(c)
              /\ \A i \in Proved(c) : i \in call[c].writes \/ owner[i] = Account(c)
         /\ \A l \in links : l.guest # GuestOf(c)
<1>1. /\ LinkTypeOK /\ HasTarget(c) /\ GuestIsHeld(c) /\ AboutToCommit(c) /\ Course(c)
      /\ GuestOf(c) \in Ids /\ call[c] \in CallType
  BY GuestIsId, CallsAreTyped DEF LinkInv, CallsOK
<1>2. Visible(c, GuestOf(c)) /\ IsGuest(GuestOf(c)) /\ lock[GuestOf(c)] = c
  BY <1>1 DEF AboutToCommit, GuestIsHeld, Passed
<1>3. ASSUME NEW l \in links PROVE l.guest # GuestOf(c)
  <2>1. l.by \in Calls /\ l.guest = GuestOf(l.by) /\ call[l.by].at = "done"
    BY <1>1 DEF LinkInv, LinksOK, LinkTypeOK
  <2>2. l.guest \in alive => ~IsGuest(l.guest)
    BY DEF LinkInv, LinksOK
  <2>3. CASE GuestOf(c) \in alive
    BY <1>2, <2>2, <2>3
  <2>4. CASE GuestOf(c) = Fresh[c]
    BY <2>1, <2>4, FreshGuest
  <2>. QED BY <1>2, <2>3, <2>4 DEF Visible
<1>4. Account(c) \in Ids
  BY <1>1 DEF Account, CallType
<1>. QED BY <1>1, <1>2, <1>3, <1>4
     DEF HasTarget, Headed, AboutToCommit, Course, Account, CallType

IsAccountThen(u) == u \in alive' /\ \E i \in Identities : owner'[i] = u

LEMMA CommitStep ==
  ASSUME LinkInv, NEW c \in Calls, NEW answer \in {"linked", "timeout"}, Commit(c, answer)
  PROVE  LinkInv'
<1> DEFINE G == GuestOf(c)
           A == Account(c)
           W == call[c].writes
           new == [guest |-> G, account |-> A, by |-> c]
           r == [call[c] EXCEPT !.at = "done", !.answer = answer, !.mine = FALSE]
<1>1. LinkTypeOK /\ call[c] \in CallType /\ call[c].at = "commit"
  BY CallsAreTyped DEF LinkInv, Commit
<1>2. /\ G \in Ids /\ A \in Ids /\ Kind[c] # "issue"
      /\ Visible(c, G) /\ IsGuest(G) /\ lock[G] = c /\ call[c].carry = saves[G]
      /\ W \subseteq Identities /\ \A i \in W : owner[i] = Nobody
      /\ call[c].target = Nobody => W = Claims[c] /\ A = G
      /\ call[c].target # Nobody =>
           /\ A = call[c].target /\ IsAccount(A) /\ A # G
           /\ \A i \in Proved(c) : i \in W \/ owner[i] = A
      /\ \A l \in links : l.guest # G
  BY <1>1, Committing
<1>3. /\ owner' = [i \in Identities |-> IF i \in W THEN A ELSE owner[i]]
      /\ alive' = IF call[c].target = Nobody THEN alive \cup {G} ELSE alive \ {G}
      /\ call[c].target = Nobody => saves' = saves
      /\ call[c].target # Nobody =>
           saves' = [saves EXCEPT ![G] = {}, ![A] = @ \cup call[c].carry]
      /\ links' = links \cup {new} /\ given' = given
      /\ lock' = Release(c)
  BY DEF Commit
<1>4. r \in CallType /\ r.at = "done" /\ r.answer = answer /\ r.target = call[c].target
  BY <1>1 DEF CallType, Places, Answers
<1>5. call' = [call EXCEPT ![c] = r]
  BY <1>1, CallsAreTyped DEF Commit, CallType
<1>6. code' \in [Codes -> {"none", "active", "expired", "redeemed"}]
  BY <1>1 DEF Commit, LinkTypeOK
<1> HIDE DEF r, G, A, W
<1>7. call' \in [Calls -> CallType] /\ call'[c] = r /\ Others(c)
  BY <1>1, <1>4, <1>5, CallRecord
<1>8. /\ lock' \in [Rows -> Calls \cup {Free}] /\ \A s \in Rows : lock'[s] # c
      /\ LockMove(c)
  BY <1>1, <1>3, ReleaseType
<1>8a. A = Account(c)' /\ A = Account(c) /\ G = GuestOf(c) /\ W = call[c].writes
  BY <1>4, <1>7 DEF Account, A, G, W
(* Saves are only carried over; owners are only added.                      *)
<1>9. /\ \A u \in Ids \ {G} : saves[u] \subseteq saves'[u]
      /\ \A u \in Ids \ {G, A} : saves'[u] = saves[u]
      /\ call[c].target # Nobody => saves[G] \subseteq saves'[A]
      /\ call[c].target = Nobody => saves' = saves
      /\ saves' \in [Ids -> SUBSET Items]
  <2>1. saves \in [Ids -> SUBSET Items] /\ saves[G] \in SUBSET Items
    BY <1>1, <1>2 DEF LinkTypeOK
  <2>. QED BY <1>2, <1>3, <2>1
<1>10. /\ \A i \in Identities : owner[i] # Nobody => owner'[i] = owner[i]
       /\ \A i \in W : owner'[i] = A
       /\ \A i \in Identities \ W : owner'[i] = owner[i]
       /\ owner' \in [Identities -> Ids \cup {Nobody}]
  BY <1>1, <1>2, <1>3 DEF LinkTypeOK
<1>11. ASSUME NEW u, IsAccount(u)
       PROVE  IsAccountThen(u) /\ IsAccount(u)' /\ u # G /\ u \in alive' /\ u \in Ids
  BY <1>1, <1>2, <1>3, <1>10, <1>11 DEF IsAccount, IsAccountThen, IsGuest, LinkTypeOK
<1>12. IsAccountThen(A)
  <2>1. CASE call[c].target = Nobody
    <3>1. PICK i \in Identities : i \in Claims[c]
      BY <1>2, ProvedSome
    <3>2. owner'[i] = A /\ A \in alive'
      BY <1>2, <1>3, <1>10, <2>1, <3>1
    <3>. QED BY <3>2 DEF IsAccountThen
  <2>2. CASE call[c].target # Nobody
    BY <1>2, <1>11, <2>2
  <2>. QED BY <2>1, <2>2
<1>13. \A u \in Ids \ {A} : IsGuest(u) => IsGuest(u)'
  BY <1>10 DEF IsGuest
<1>14. LinkTypeOK'
  <2>1. LocksAreAlive'
    BY <1>1, <1>7, <1>8 DEF LocksAreAlive, LockMove, Others, LinkTypeOK
  <2>2. alive' \subseteq Ids /\ links' \subseteq [guest : Ids, account : Ids, by : Calls]
    BY <1>1, <1>2, <1>3 DEF LinkTypeOK
  <2>3. given' \subseteq Ids \X Items
    BY <1>1, <1>3 DEF LinkTypeOK
  <2>. QED BY <1>6, <1>7, <1>8, <1>9, <1>10, <2>1, <2>2, <2>3 DEF LinkTypeOK, LocksAreAlive, CallType
<1>15. OwnersLive'
  <2>1. ASSUME NEW i \in Identities, owner[i] # Nobody PROVE owner[i] \in alive'
    <3>1. IsAccount(owner[i])
      BY <2>1 DEF LinkInv, OwnersLive, IsAccount, IsGuest
    <3>. QED BY <3>1, <1>11
  <2>2. ASSUME NEW i \in Identities, owner'[i] # Nobody PROVE owner'[i] \in alive'
    <3>1. CASE i \in W
      BY <3>1, <1>10, <1>12 DEF IsAccountThen
    <3>2. CASE i \notin W
      BY <3>2, <2>1, <2>2, <1>10
    <3>. QED BY <3>1, <3>2
  <2>. QED BY <2>2 DEF OwnersLive
<1>16. WritesApart'
  BY <1>4, <1>7 DEF WritesApart, Others, LinkInv
<1>17. CallsOK'
  <2>1. HasTarget(c)' /\ LocksInOrder(c)' /\ GuestIsHeld(c)' /\ AboutToCommit(c)' /\ Course(c)'
    BY <1>2, <1>4, <1>7, <1>8 DEF HasTarget, Headed, LocksInOrder, Rows, GuestIsHeld, Passed,
       AboutToCommit, Course
  <2>2. ASSUME NEW d \in Calls, d # c
        PROVE  HasTarget(d)' /\ LocksInOrder(d)' /\ GuestIsHeld(d)' /\ AboutToCommit(d)' /\ Course(d)'
    <3> DEFINE D == GuestOf(d)
    <3>1. /\ HasTarget(d) /\ LocksInOrder(d) /\ GuestIsHeld(d) /\ AboutToCommit(d) /\ Course(d)
          /\ call'[d] = call[d] /\ D \in Ids
      BY <2>2, <1>7, GuestIsId DEF LinkInv, CallsOK, Others
    <3>2. \A s \in Rows : lock'[s] = d <=> lock[s] = d
      BY <1>1, <2>2, <1>8 DEF LockMove
    <3>2a. Ids \subseteq Rows
      BY DEF Rows
    <3>3. HasTarget(d)'
      <4>1. ASSUME Headed(d), call[d].target # Nobody
            PROVE  IsAccount(call[d].target)' /\
                   (call[d].attach \/ \A i \in Proved(d) : owner'[i] = call[d].target)
        <5>1. IsAccount(call[d].target)'
          BY <3>1, <4>1, <1>11 DEF HasTarget
        <5>2. Kind[d] # "issue"
          BY <3>1, <4>1 DEF Course, Headed
        <5>3. Proved(d) \subseteq Identities
          BY <5>2, ProvedSome
        <5>. QED BY <3>1, <4>1, <5>1, <5>3, <1>10 DEF HasTarget
      <4>. QED BY <4>1, <3>1 DEF HasTarget, Headed
    <3>4. LocksInOrder(d)'
      BY <3>1, <3>2, <3>2a DEF LocksInOrder, Order
    <3>5. Visible(d, D)' => Visible(d, D)
      <4>1. D = G => D \in alive
        <5>1. CASE G \in alive
          BY <5>1
        <5>2. CASE G = Fresh[c]
          BY <5>2, <2>2, FreshGuest
        <5>. QED BY <5>1, <5>2, <1>2 DEF Visible
      <4>. QED BY <4>1, <3>1, <1>3 DEF Visible
    <3>6. GuestIsHeld(d)'
      BY <3>1, <3>2, <3>2a, <3>5 DEF GuestIsHeld, Passed
    <3>7. AboutToCommit(d)'
      <4>1. SUFFICES ASSUME call[d].at = "commit"
                     PROVE  AboutToCommit(d)'
        BY <3>1 DEF AboutToCommit
      <4>2. /\ Visible(d, D) /\ IsGuest(D) /\ lock[D] = d /\ Kind[d] # "issue"
            /\ call[d].carry = saves[D]
        BY <4>1, <3>1 DEF AboutToCommit, GuestIsHeld, Passed, Course
      <4>3. D # G
        BY <4>2, <1>2, <2>2
      <4>4. D # A
        <5>1. CASE call[c].target = Nobody
          BY <5>1, <4>3, <1>2
        <5>2. CASE call[c].target # Nobody
          BY <5>2, <4>2, <1>2 DEF IsAccount
        <5>. QED BY <5>1, <5>2
      <4>5. Visible(d, D)' /\ IsGuest(D)' /\ saves'[D] = saves[D]
        BY <3>1, <4>2, <4>3, <4>4, <1>3, <1>9, <1>13 DEF Visible
      <4>6. \A i \in call[d].writes : owner'[i] = Nobody
        <5>1. W \cap call[d].writes = {} /\ call[d].writes \subseteq Identities
          BY <1>1, <2>2, <4>1, <1>8a, CallsAreTyped DEF LinkInv, WritesApart, CallType
        <5>. QED BY <5>1, <4>1, <3>1, <1>10 DEF AboutToCommit
      <4>7. Proved(d) \subseteq Identities
        BY <4>2, ProvedSome
      <4>. QED BY <3>1, <4>1, <4>2, <4>5, <4>6, <4>7, <1>10 DEF AboutToCommit
    <3>8. Course(d)'
      BY <3>1 DEF Course
    <3>. QED BY <3>3, <3>4, <3>6, <3>7, <3>8
  <2>. QED BY <2>1, <2>2 DEF CallsOK
<1>18. LinksOK'
  <2>1. ASSUME NEW l \in links
        PROVE  /\ IsAccount(l.account)' /\ l.guest = GuestOf(l.by) /\ call'[l.by].at = "done"
               /\ l.guest \in alive' => ~IsGuest(l.guest)'
    <3>1. /\ IsAccount(l.account) /\ l.by \in Calls /\ l.guest = GuestOf(l.by)
          /\ call[l.by].at = "done" /\ (l.guest \in alive => ~IsGuest(l.guest)) /\ l.guest # G
      BY <1>1, <1>2 DEF LinkInv, LinksOK, LinkTypeOK
    <3>2. l.guest \in alive' => IsAccount(l.guest)
      BY <3>1, <1>3 DEF IsAccount
    <3>3. call'[l.by].at = "done"
      BY <3>1, <1>1, <1>7 DEF Others
    <3>. QED BY <3>1, <3>2, <3>3, <1>11 DEF IsAccount
  <2>2. /\ IsAccountThen(new.account) /\ new.guest = GuestOf(new.by) /\ call'[new.by].at = "done"
        /\ new.guest \in alive' => \E i \in Identities : owner'[i] = new.guest
    BY <1>2, <1>3, <1>4, <1>7, <1>8a, <1>12 DEF IsAccountThen
  <2>3. ASSUME NEW l \in links'
        PROVE  /\ IsAccount(l.account)' /\ l.guest = GuestOf(l.by) /\ call'[l.by].at = "done"
               /\ l.guest \in alive' => ~IsGuest(l.guest)'
    <3>1. CASE l \in links
      BY <3>1, <2>1
    <3>2. CASE l = new
      BY <3>2, <2>2 DEF IsAccount, IsAccountThen, IsGuest
    <3> HIDE DEF new
    <3>. QED BY <3>1, <3>2, <1>3
  <2>. QED BY <2>3 DEF LinksOK
<1>19. GivenOK'
  <2>1. ASSUME NEW g \in given PROVE g[1] \in alive' \/ \E l \in links' : l.guest = g[1]
    <3>1. g[1] \in alive \/ \E l \in links : l.guest = g[1]
      BY DEF LinkInv, GivenOK
    <3>2. new \in links' /\ new.guest = G
      BY <1>3
    <3>. QED BY <3>1, <3>2, <1>3
  <2>. QED BY <2>1, <1>3 DEF GivenOK
<1>20. \A l, m \in links' : l.guest = m.guest => l = m
  <2>1. new.guest = G
    OBVIOUS
  <2> HIDE DEF new
  <2>. QED BY <2>1, <1>2, <1>3 DEF LinkInv, LinkedWhole
<1>21. ASSUME NEW g \in given PROVE g[2] \in saves'[Heir(g[1])']
  <2> DEFINE u == g[1]
  <2>1. g[2] \in saves[Heir(u)] /\ u \in Ids
    BY <1>1 DEF LinkInv, LinkedWhole, LinkTypeOK
  <2>2. CASE u \in alive /\ (u # G \/ call[c].target = Nobody)
    <3>1. Heir(u) = u /\ Heir(u)' = u
      BY <2>2, <1>3 DEF Heir
    <3>. QED BY <2>1, <2>2, <3>1, <1>9
  <2>3. CASE u = G /\ u \in alive /\ call[c].target # Nobody
    <3>1. new \in links' /\ new.guest = u /\ u \notin alive' /\ new.account = A
      BY <2>3, <1>3
    <3> HIDE DEF new, u
    <3>2. Heir(u)' = A
      <4>1. (CHOOSE m \in links' : m.guest = new.guest) = new
        BY <3>1, <1>20, ChosenLink
      <4>. QED BY <4>1, <3>1 DEF Heir
    <3>3. Heir(u) = u
      BY <2>3 DEF Heir
    <3>. QED BY <2>1, <2>3, <3>2, <3>3, <1>9 DEF u
  <2>4. CASE u \notin alive
    <3>1. PICK l \in links : l.guest = u
      BY <2>4 DEF LinkInv, GivenOK
    <3>2. u # G /\ u \notin alive' /\ l \in links'
      BY <2>4, <3>1, <1>2, <1>3
    <3> HIDE DEF u
    <3>3. (CHOOSE m \in links : m.guest = l.guest) = l /\ (CHOOSE m \in links' : m.guest = l.guest) = l
      <4>1. \A m \in links : m.guest = l.guest => m = l
        BY <3>1 DEF LinkInv, LinkedWhole
      <4>2. \A m \in links' : m.guest = l.guest => m = l
        BY <3>2, <1>20
      <4>. QED BY <4>1, <4>2, <3>1, <3>2, ChosenLink
    <3>4. Heir(u) = l.account /\ Heir(u)' = l.account
      BY <2>4, <3>1, <3>2, <3>3 DEF Heir
    <3>5. IsAccount(l.account)
      BY DEF LinkInv, LinksOK
    <3>6. l.account \in Ids \ {G}
      BY <3>5, <1>11
    <3>. QED BY <2>1, <3>4, <3>6, <1>9 DEF u
  <2>. QED BY <2>2, <2>3, <2>4
<1>22. LinkedWhole'
  BY <1>3, <1>20, <1>21 DEF LinkedWhole
<1>23. AnswerIsTrue'
  <2>1. ASSUME NEW d \in Calls, d # c
        PROVE  /\ call'[d].answer = "linked" =>
                    Account(d)' \in alive' /\ \A i \in Proved(d) : owner'[i] = Account(d)'
               /\ call'[d].answer = "completed" => \E l \in links' : l.guest = GuestOf(d)
    <3>1. call'[d] = call[d] /\ Account(d)' = Account(d)
      BY <2>1, <1>7 DEF Others, Account
    <3>2. ASSUME call[d].answer = "linked"
          PROVE  Account(d) \in alive' /\ \A i \in Proved(d) : owner'[i] = Account(d)
      <4>1. /\ Kind[d] # "issue" /\ Account(d) \in alive
            /\ \A i \in Proved(d) : owner[i] = Account(d)
        BY <3>2 DEF LinkInv, AnswerIsTrue, CallsOK, Course
      <4>2. Proved(d) \subseteq Identities /\ \E i \in Identities : i \in Proved(d)
        BY <4>1, ProvedSome
      <4>3. IsAccount(Account(d))
        BY <4>1, <4>2 DEF IsAccount, IsGuest
      <4>4. Account(d) \in alive' /\ Account(d) \in Ids
        BY <4>3, <1>11
      <4>. QED BY <4>1, <4>2, <4>4, <1>10
    <3>3. call[d].answer = "completed" => \E l \in links : l.guest = GuestOf(d)
      BY DEF LinkInv, AnswerIsTrue
    <3>. QED BY <3>1, <3>2, <3>3, <1>3
  <2>2. Account(c)' \in alive' /\ \A i \in Proved(c) : owner'[i] = Account(c)'
    <3>1. Proved(c) \subseteq Claims[c] /\ Proved(c) \subseteq Identities
      BY <1>2, ProvedSome
    <3>2. \A i \in Proved(c) : owner'[i] = A
      BY <1>2, <1>10, <3>1
    <3>. QED BY <1>8a, <1>12, <3>2 DEF IsAccountThen
  <2>3. call'[c].answer # "completed"
    BY <1>4, <1>7
  <2>. QED BY <2>1, <2>2, <2>3 DEF AnswerIsTrue
<1>. QED BY <1>14, <1>15, <1>16, <1>17, <1>18, <1>19, <1>22, <1>23 DEF LinkInv

(* After the rollback of a first try.                                       *)
LEMMA PostMortemStep ==
  ASSUME LinkInv, NEW c \in Calls, PostMortem(c)
  PROVE  LinkInv'
<1>1. /\ LinkTypeOK /\ call[c] \in CallType /\ call[c].at = "post" /\ Kind[c] # "issue"
      /\ call[c].answer \notin {"linked", "completed"}
  BY CallsAreTyped DEF LinkInv, CallsOK, Course, PostMortem
<1>2. CASE LinkedElsewhere(c)
  <2>1. CallEnds(c, "completed") /\ \E l \in links : l.guest = GuestOf(c)
    BY <1>2 DEF PostMortem, LinkedElsewhere
  <2>. QED BY <1>1, <2>1, EndStep DEF Answers
<1>3. CASE CallEnds(c, call[c].answer)
  <2>1. call[c].answer \in Answers
    BY <1>1 DEF CallType
  <2>. QED BY <1>1, <1>3, <2>1, EndStep
<1>4. CASE /\ call' = [call EXCEPT ![c].at = "again", ![c].again = TRUE]
           /\ UNCHANGED <<Database, lock>>
  <2> DEFINE r == [call[c] EXCEPT !.at = "again", !.again = TRUE]
  <2>1. r \in CallType /\ r.at = "again" /\ r.answer = call[c].answer
    BY <1>1 DEF CallType, Places
  <2>2. call' = [call EXCEPT ![c] = r]
    BY <1>1, <1>4, CallsAreTyped DEF CallType
  <2>3. /\ UNCHANGED <<alive, owner, saves, given, links>> /\ UNCHANGED code /\ lock' = lock
        /\ lock \in [Rows -> Calls \cup {Free}] /\ LockMove(c)
    BY <1>1, <1>4, SameLocks DEF Database, LinkTypeOK
  <2>4. \A s \in Rows : lock[s] # c
    BY <1>1 DEF LinkTypeOK
  <2> HIDE DEF r
  <2>. QED BY <1>1, <2>1, <2>2, <2>3, <2>4, PlainStep
<1>. QED BY <1>2, <1>3, <1>4 DEF PostMortem

LEMMA AgainStep ==
  ASSUME LinkInv, NEW c \in Calls, Again(c)
  PROVE  LinkInv'
<1>1. call[c].at = "again" /\ Kind[c] # "issue" /\ LinkTypeOK
  BY DEF Again, LinkInv, CallsOK, Course
<1>2. CASE CallEnds(c, "unresolved") \/ CallEnds(c, "self")
  BY <1>1, <1>2, EndStep DEF Answers
<1>3. ASSUME NEW u \in Targets(c), u # GuestOf(c), Heads(c, u), UNCHANGED <<Database, lock>>
      PROVE  LinkInv'
  <2>1. u \in Ids
    BY <1>1 DEF Targets, Holders, LinkTypeOK
  <2>2. UNCHANGED Database /\ UNCHANGED lock
    BY <1>3
  <2>. QED BY <1>1, <1>3, <2>1, <2>2, HeadsStep
<1>. QED BY <1>2, <1>3 DEF Again

(* Issuing a code.                                                          *)
LEMMA IssueLockStep ==
  ASSUME LinkInv, NEW c \in Calls, IssueLock(c)
  PROVE  LinkInv'
<1>1. /\ LinkTypeOK /\ call[c] \in CallType /\ call[c].at = "idle" /\ Kind[c] = "issue"
      /\ GuestOf(c) \in Rows /\ call[c].answer \notin {"linked", "completed"}
  BY CallsAreTyped, GuestIsId DEF LinkInv, CallsOK, Course, IssueLock, Rows
<1>2. CASE CallEnds(c, "no such user") \/ CallEnds(c, "not a guest")
  BY <1>1, <1>2, EndStep DEF Answers
<1>3. CASE /\ lock[GuestOf(c)] = Free /\ lock' = [lock EXCEPT ![GuestOf(c)] = c]
           /\ call' = [call EXCEPT ![c].at = "expire"] /\ UNCHANGED Database
  <2> DEFINE r == [call[c] EXCEPT !.at = "expire"]
  <2>1. r \in CallType /\ r.at = "expire" /\ r.answer = call[c].answer
    BY <1>1 DEF CallType, Places
  <2>2. call' = [call EXCEPT ![c] = r]
    BY <1>1, <1>3, CallsAreTyped DEF CallType
  <2> HIDE DEF r
  <2>3. call' \in [Calls -> CallType] /\ call'[c] = r /\ Others(c)
    BY <1>1, <2>1, <2>2, CallRecord
  <2>4. LockMove(c) /\ lock' \in [Rows -> Calls \cup {Free}]
    <3>1. \E g \in Rows : lock[g] = Free /\ lock' = [lock EXCEPT ![g] = c]
      BY <1>1, <1>3
    <3>. QED BY <1>1, <3>1, TakeType
  <2>5. Locally(c) /\ UNCHANGED code
    BY <1>3, <2>3, <2>4 DEF Locally, Database
  <2>6. LinkTypeOK'
    <3>1. code' \in [Codes -> {"none", "active", "expired", "redeemed"}]
      BY <1>1, <2>5 DEF LinkTypeOK
    <3>. QED BY <1>1, <2>1, <2>3, <2>4, <2>5, <3>1, TypeStep
  <2>7. HasTarget(c)' /\ LocksInOrder(c)' /\ GuestIsHeld(c)' /\ AboutToCommit(c)' /\ Course(c)'
    BY <1>1, <2>1, <2>3 DEF HasTarget, Headed, LocksInOrder, GuestIsHeld, Passed, AboutToCommit,
       Course
  <2>. QED BY <1>1, <2>1, <2>3, <2>5, <2>6, <2>7, LocalStep
<1>. QED BY <1>2, <1>3 DEF IssueLock

LEMMA IssueCommitStep ==
  ASSUME LinkInv, NEW c \in Calls, IssueCommit(c)
  PROVE  LinkInv'
<1> DEFINE r == [call[c] EXCEPT !.at = "done", !.answer = "issued"]
<1>1. LinkTypeOK /\ call[c] \in CallType /\ call[c].at = "expire"
  BY CallsAreTyped DEF LinkInv, IssueCommit
<1>2. r \in CallType /\ r.at = "done" /\ r.answer = "issued"
  BY <1>1 DEF CallType, Places, Answers
<1>3. call' = [call EXCEPT ![c] = r]
  BY <1>1, CallsAreTyped DEF IssueCommit, CallType
<1> HIDE DEF r
<1>4. call' \in [Calls -> CallType] /\ call'[c] = r /\ Others(c)
  BY <1>1, <1>2, <1>3, CallRecord
<1>5. /\ LockMove(c) /\ lock' \in [Rows -> Calls \cup {Free}]
      /\ \A s \in Rows : lock'[s] # c
  BY <1>1, ReleaseType DEF IssueCommit
<1>6. Locally(c)
  BY <1>4, <1>5 DEF IssueCommit, Locally
<1>7. code' \in [Codes -> {"none", "active", "expired", "redeemed"}]
  BY <1>1 DEF IssueCommit, LinkTypeOK
<1>8. LinkTypeOK'
  BY <1>1, <1>4, <1>5, <1>6, <1>7, TypeStep
<1>9. HasTarget(c)' /\ LocksInOrder(c)' /\ GuestIsHeld(c)' /\ AboutToCommit(c)' /\ Course(c)'
  BY <1>2, <1>4, <1>5 DEF HasTarget, Headed, LocksInOrder, Rows, GuestIsHeld, Passed,
     AboutToCommit, Course
<1>. QED BY <1>1, <1>2, <1>4, <1>6, <1>8, <1>9, LocalStep

(* A user whom a call is about to link cannot save: it is locked.           *)
LEMMA SaveStep ==
  ASSUME LinkInv, NEW u \in Collectors, NEW i \in Items, Save(u, i)
  PROVE  LinkInv'
<1>1. /\ LinkTypeOK /\ u \in alive /\ u \in Ids /\ lock[u] = Free
      /\ saves' = [saves EXCEPT ![u] = @ \cup {i}] /\ given' = given \cup {<<u, i>>}
      /\ UNCHANGED <<alive, owner, links, code, lock, call>>
  BY DEF Save, LinkInv, LinkTypeOK
<1>2. /\ saves' \in [Ids -> SUBSET Items] /\ \A v \in Ids \ {u} : saves'[v] = saves[v]
      /\ saves'[u] = saves[u] \cup {i}
  BY <1>1 DEF LinkTypeOK
<1>3. LinkTypeOK'
  BY <1>1, <1>2 DEF LinkTypeOK
<1>4. OwnersLive' /\ WritesApart' /\ LinksOK'
  BY <1>1 DEF LinkInv, OwnersLive, WritesApart, LinksOK, IsAccount, IsGuest
<1>5. CallsOK'
  <2>1. SUFFICES ASSUME NEW c \in Calls
                 PROVE  HasTarget(c)' /\ LocksInOrder(c)' /\ GuestIsHeld(c)' /\ AboutToCommit(c)'
                        /\ Course(c)'
    BY DEF CallsOK
  <2>2. /\ HasTarget(c) /\ LocksInOrder(c) /\ GuestIsHeld(c) /\ AboutToCommit(c) /\ Course(c)
        /\ GuestOf(c) \in Ids
    BY GuestIsId DEF LinkInv, CallsOK
  <2>3. HasTarget(c)' /\ LocksInOrder(c)' /\ GuestIsHeld(c)' /\ Course(c)'
    BY <1>1, <2>2 DEF HasTarget, Headed, IsAccount, IsGuest, LocksInOrder, Order, GuestIsHeld,
       Passed, Visible, Course
  <2>4. AboutToCommit(c)'
    <3>1. call[c].at = "commit" => lock[GuestOf(c)] = c
      BY <2>2 DEF AboutToCommit, GuestIsHeld, Passed
    <3>2. call[c].at = "commit" => saves'[GuestOf(c)] = saves[GuestOf(c)]
      BY <1>1, <1>2, <2>2, <3>1
    <3>. QED BY <1>1, <2>2, <3>2 DEF AboutToCommit, Visible, IsGuest
  <2>. QED BY <2>3, <2>4
<1>6. GivenOK'
  <2>1. <<u, i>>[1] \in alive
    BY <1>1
  <2>. QED BY <1>1, <2>1 DEF LinkInv, GivenOK
<1>7. LinkedWhole'
  <2>1. \A g \in given : Heir(g[1])' = Heir(g[1]) /\ g[2] \in saves[Heir(g[1])]
    BY <1>1 DEF LinkInv, LinkedWhole, Heir
  <2>2. ASSUME NEW g \in given PROVE g[2] \in saves'[Heir(g[1])']
    <3>1. Heir(g[1]) \in Ids
      <4>1. g[1] \in alive => Heir(g[1]) \in Ids
        BY <1>1 DEF Heir, LinkTypeOK
      <4>2. ASSUME g[1] \notin alive PROVE Heir(g[1]) \in Ids
        <5>1. PICK l \in links : l.guest = g[1]
          BY <4>2 DEF LinkInv, GivenOK
        <5>2. (CHOOSE m \in links : m.guest = g[1]) \in links
          BY <5>1
        <5>. QED BY <1>1, <4>2, <5>2 DEF Heir, LinkTypeOK
      <4>. QED BY <4>1, <4>2
    <3>. QED BY <2>1, <3>1, <1>2
  <2>3. Heir(u)' = u
    BY <1>1 DEF Heir
  <2>4. ASSUME NEW g \in given' PROVE g[2] \in saves'[Heir(g[1])']
    <3>1. CASE g \in given
      BY <3>1, <2>2
    <3>2. CASE g = <<u, i>>
      BY <3>2, <2>3, <1>2
    <3>. QED BY <3>1, <3>2, <1>1
  <2>. QED BY <1>1, <2>4 DEF LinkedWhole, LinkInv
<1>8. AnswerIsTrue'
  BY <1>1 DEF LinkInv, AnswerIsTrue, Account
<1>. QED BY <1>3, <1>4, <1>5, <1>6, <1>7, <1>8 DEF LinkInv

-----------------------------------------------------------------------------
LEMMA LinkInitInv == LinkInit => LinkInv
<1>. SUFFICES ASSUME LinkInit PROVE LinkInv
  OBVIOUS
<1>2. /\ owner \in [Identities -> Users \cup {Nobody}] /\ alive = Users
      /\ saves = [u \in Ids |-> {}] /\ given = {} /\ links = {} /\ lock = [r \in Rows |-> Free]
  BY OwnersAreUsers DEF LinkInit
<1>3. /\ call \in [Calls -> CallType]
      /\ \A c \in Calls : call[c].at \in {"idle", "done"} /\ call[c].answer = "none"
  <2>1. NewCall \in CallType /\ [NewCall EXCEPT !.at = "done"] \in CallType
    <3>1. <<>> \in Seq(Ids)
      OBVIOUS
    <3>2. NewCall \in CallType
      BY <3>1 DEF NewCall, CallType, Places, Answers
    <3>3. "done" \in Places
      BY DEF Places
    <3>. QED BY <3>2, <3>3 DEF CallType
  <2>2. NewCall.at = "idle" /\ NewCall.answer = "none"
        /\ [NewCall EXCEPT !.at = "done"].at = "done"
        /\ [NewCall EXCEPT !.at = "done"].answer = "none"
    BY DEF NewCall
  <2> HIDE DEF NewCall
  <2>3. PICK made \in Together :
          call = [c \in Calls |-> IF c \in made THEN NewCall ELSE [NewCall EXCEPT !.at = "done"]]
    BY DEF LinkInit
  <2>. QED BY <2>1, <2>2, <2>3
<1>4. code \in [Codes -> {"none", "active", "expired", "redeemed"}]
  BY DEF LinkInit
<1>5. Users \subseteq Ids
  BY DEF Ids
<1>6. LinkTypeOK
  BY <1>2, <1>3, <1>4, <1>5 DEF LinkTypeOK, CallType
<1>7. OwnersLive /\ LinksOK /\ GivenOK /\ LinkedWhole
  BY <1>2, <1>5 DEF OwnersLive, LinksOK, GivenOK, LinkedWhole
<1>8. WritesApart /\ CallsOK /\ AnswerIsTrue
  BY <1>2, <1>3 DEF WritesApart, CallsOK, HasTarget, Headed, LocksInOrder, GuestIsHeld, Passed,
     AboutToCommit, Course, AnswerIsTrue, Rows
<1>. QED BY <1>6, <1>7, <1>8 DEF LinkInv

(* Every step of the service keeps it.                                      *)
LEMMA LinkNextInv == LinkInv /\ [LinkNext]_linkVars => LinkInv'
<1>. SUFFICES ASSUME LinkInv, [LinkNext]_linkVars PROVE LinkInv'
  OBVIOUS
<1>1. ASSUME NEW c \in Calls, DatabaseEnds(c) PROVE LinkInv'
  <2>1. call[c].at # "done" /\ CallEnds(c, "error")
    BY <1>1 DEF DatabaseEnds, Circles, Waiting, Waits
  <2>. QED BY <2>1, EndStep DEF Answers
<1>2. ASSUME NEW c \in Calls, TimesOut(c) PROVE LinkInv'
  BY <1>2, EndStep DEF TimesOut, Answers
<1>3. ASSUME NEW c \in Calls, Step(c) PROVE LinkInv'
  <2>1. CASE LockCode(c)
    BY <2>1, LockCodeStep
  <2>2. CASE Begin(c)
    BY <2>2, BeginStep
  <2>3. CASE Resolve(c)
    BY <2>3, ResolveStep
  <2>4. CASE LockNext(c)
    BY <2>4, LockNextStep
  <2>5. CASE Work(c)
    BY <2>5, WorkStep
  <2>6. CASE \E answer \in {"linked", "timeout"} : Commit(c, answer)
    BY <2>6, CommitStep
  <2>7. CASE PostMortem(c)
    BY <2>7, PostMortemStep
  <2>8. CASE Again(c)
    BY <2>8, AgainStep
  <2>9. CASE IssueLock(c)
    BY <2>9, IssueLockStep
  <2>10. CASE IssueCommit(c)
    BY <2>10, IssueCommitStep
  <2>11. CASE DatabaseEnds(c)
    BY <2>11, <1>1
  <2>. QED BY <1>3, <2>1, <2>2, <2>3, <2>4, <2>5, <2>6, <2>7, <2>8, <2>9, <2>10, <2>11 DEF Step
<1>4. ASSUME NEW u \in Collectors, NEW i \in Items, Save(u, i) PROVE LinkInv'
  BY <1>4, SaveStep
<1>5. CASE UNCHANGED linkVars
  <2>1. /\ alive' = alive /\ owner' = owner /\ saves' = saves /\ given' = given
        /\ links' = links /\ code' = code /\ lock' = lock /\ call' = call
    BY <1>5 DEF linkVars
  <2>2. LinkTypeOK' /\ OwnersLive' /\ WritesApart' /\ LinksOK' /\ GivenOK'
    BY <2>1 DEF LinkInv, LinkTypeOK, OwnersLive, WritesApart, LinksOK, IsAccount, IsGuest, GivenOK
  <2>3. CallsOK'
    BY <2>1 DEF LinkInv, CallsOK, HasTarget, Headed, IsAccount, IsGuest, LocksInOrder, Order,
       GuestIsHeld, Passed, Visible, AboutToCommit, Course
  <2>4. LinkedWhole' /\ AnswerIsTrue'
    BY <2>1 DEF LinkInv, LinkedWhole, Heir, AnswerIsTrue, Account
  <2>. QED BY <2>2, <2>3, <2>4 DEF LinkInv
<1>. QED BY <1>2, <1>3, <1>4, <1>5 DEF LinkNext

(* The inductive invariant of linking.                                      *)
THEOREM LinkInvariance == LinkSpec => []LinkInv
<1>. QED BY LinkInitInv, LinkNextInv, PTL DEF LinkSpec

(* Type correctness of account linking, for every set of users, calls,      *)
(* identities and codes.                                                    *)
THEOREM LinkTypeCorrect == LinkSpec => []LinkTypeOK
<1>1. LinkInv => LinkTypeOK
  BY DEF LinkInv
<1>. QED BY <1>1, LinkInvariance, PTL

(* Whichever calls meet at a guest and an identity, the guest is linked     *)
(* once, nothing it collected is lost, and what a call answers of it is so. *)
THEOREM LinksAreAsTold == LinkSpec => []LinkedAsTold
<1>1. LinkInv => LinkedAsTold
  BY DEF LinkInv, LinkedAsTold
<1>. QED BY <1>1, LinkInvariance, PTL

-----------------------------------------------------------------------------
LEMMA HeadIsIn == ASSUME NEW T, NEW s \in Seq(T), s # <<>> PROVE Head(s) \in T
OBVIOUS

(* A call that waits for another's user row waits for a greater id than any *)
(* it has locked.                                                           *)
LEMMA WaitsAbove ==
  ASSUME LinkInv, NEW c \in Calls, NEW d \in Calls, Waits(c, d),
         call[c].at = "lock", call[d].at = "lock"
  PROVE  /\ Head(call[c].todo) \in Ids /\ Head(call[d].todo) \in Ids
         /\ Head(call[c].todo) < Head(call[d].todo)
<1>1. \A e \in {c, d} : call[e].todo \in Seq(Ids) /\ call[e].todo # <<>>
  BY DEF LinkInv, CallsOK, LocksInOrder, LinkTypeOK
<1>3. Head(call[c].todo) \in Ids /\ Head(call[d].todo) \in Ids
  BY <1>1, HeadIsIn
<1>4. lock[Head(call[c].todo)] = d
  BY DEF Waits
<1>5. LocksInOrder(d)
  BY DEF LinkInv, CallsOK
<1>. QED BY <1>3, <1>4, <1>5 DEF LocksInOrder

LEMMA CirclesAreIssues == LinkInv => NoCircleOfLinks
<1>. SUFFICES ASSUME LinkInv, NEW S \in Circles, \A c \in S : Kind[c] # "issue"
              PROVE  FALSE
  BY DEF NoCircleOfLinks
<1>1. S \subseteq Calls /\ S # {}
  BY DEF Circles, Waiting
<1>2. \A c \in S : (\E d \in S : Waits(c, d)) /\ (\E d \in S : Waits(d, c))
  BY DEF Circles
(* Somebody waits for it, so it holds a lock or is about to commit.         *)
<1>3. ASSUME NEW c \in S PROVE call[c].at \in {"lock", "work", "commit"}
  <2>1. PICK e \in S : Waits(e, c)
    BY <1>2
  <2>2. call[c].at \notin {"idle", "post", "again", "done"}
    <3>1. \A r \in Rows : lock[r] = c => call[c].at \notin {"idle", "post", "again", "done"}
      BY <1>1 DEF LinkInv, LinkTypeOK
    <3>2. CodeOf[e] \in Rows /\ Kind[e] # "issue"
      BY <1>1 DEF Rows
    <3>3. call[e].at # "expire"
      BY <3>2, <1>1 DEF LinkInv, CallsOK, Course
    <3>4. CASE call[e].at = "lock" /\ lock[Head(call[e].todo)] = c
      <4>1. call[e].todo \in Seq(Ids) /\ call[e].todo # <<>>
        BY <1>1, <3>4 DEF LinkInv, CallsOK, LocksInOrder, LinkTypeOK
      <4>2. Head(call[e].todo) \in Rows
        BY <4>1, HeadIsIn DEF Rows
      <4>. QED BY <3>1, <3>4, <4>2
    <3>5. CASE lock[CodeOf[e]] = c
      BY <3>1, <3>2, <3>5
    <3>. QED BY <2>1, <3>2, <3>3, <3>4, <3>5 DEF Waits
  <2>3. PICK d \in S : Waits(c, d)
    BY <1>2
  <2>4. Kind[c] # "issue" /\ call[c].at # "expire"
    BY <1>1 DEF LinkInv, CallsOK, Course
  <2>. QED BY <2>2, <2>3, <2>4 DEF Waits
(* One about to commit waits for nobody, so nobody waits for a commit.      *)
<1>4. ASSUME NEW c \in S PROVE call[c].at = "lock"
  <2>1. PICK d \in S : Waits(c, d)
    BY <1>2
  <2>2. PICK e \in S : Waits(d, e)
    BY <1>2
  <2>3. call[c].at \in {"lock", "work", "commit"} /\ call[d].at \in {"lock", "work", "commit"}
    BY <1>3
  <2>. QED BY <2>1, <2>2, <2>3 DEF Waits
<1> DEFINE H == {Head(call[c].todo) : c \in S}
<1>5. H \subseteq Nat /\ H # {}
  <2>1. \A c \in S : Head(call[c].todo) \in Nat
    BY <1>1, <1>2, <1>4, WaitsAbove
  <2>. QED BY <1>1, <2>1
<1>6. PICK m \in H : \A k \in H : m <= k
  <2> HIDE DEF H
  <2>. QED BY <1>5, LeastNumber
<1>7. PICK c \in S : m = Head(call[c].todo)
  BY <1>6
<1>8. PICK e \in S : Waits(e, c)
  BY <1>2
<1>9. \E h \in H : h < m /\ h \in Nat /\ m \in Nat
  <2>1. e \in Calls /\ c \in Calls /\ call[e].at = "lock" /\ call[c].at = "lock"
    BY <1>1, <1>4
  <2>2. /\ Head(call[e].todo) \in Ids /\ Head(call[c].todo) \in Ids
        /\ Head(call[e].todo) < Head(call[c].todo)
    BY <1>8, <2>1, WaitsAbove
  <2>3. Head(call[e].todo) \in H
    OBVIOUS
  <2>. QED BY <1>7, <2>2, <2>3
<1> HIDE DEF H
<1>. QED BY <1>6, <1>9

(* Calls that link never wait for each other in a circle, whatever their    *)
(* number: the users are locked in the order of their ids, the code before  *)
(* them, and the unique keys after.                                         *)
THEOREM NoCircle == LinkSpec => []NoCircleOfLinks
<1>. QED BY LinkInvariance, CirclesAreIssues, PTL
=============================================================================
