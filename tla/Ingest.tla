------------------------------- MODULE Ingest -------------------------------
(***************************************************************************)
(* Exact deduplication of one content: uploads and crawled posts that all  *)
(* carry the same bytes (ingest/accept_service.py), the workers that turn  *)
(* accepted requests into files (ingest/materializer.py and its helpers,   *)
(* the media-inspect handler of workers/pipeline_runtime/runtime.py), and  *)
(* the collections that save, remove and thereby delete the result         *)
(* (services/collection_service.py).                                       *)
(*                                                                         *)
(* One step is what a transaction does up to a point where another can     *)
(* come in between: a statement that reads what is not locked, a call to   *)
(* the object store, a commit.  PostgreSQL runs at READ COMMITTED.  A meme *)
(* has one file here: near-duplicates are merged elsewhere.                *)
(***************************************************************************)
EXTENDS Naturals, FiniteSets

CONSTANTS
  Uploads,        \* calls of accept_bytes
  Sources,        \* source identities (platform, source, post)
  SourceOf,       \* SourceOf[u]: the source call u names
  Collections,
  ColOf,          \* ColOf[s]: the target of an upload, Crawler of a public post
  Crawler,
  Favourites,     \* the collections of kind FAVORITES
  Workers,        \* consumers of the media-inspect queue
  Free,           \* nobody holds the advisory lock of the hash
  NoTask,         \* a worker that runs no handler
  NoRemoval,      \* no removal is under way in a collection
  MaxFiles,       \* bound of the model: file ids that are ever issued
  MaxAttempts,    \* settings.pipeline_broker_retry_max_attempts
  CopiesOf        \* CopiesOf[s]: broker copies the publisher may make

ASSUME SourceAssumption == SourceOf \in [Uploads -> Sources]
ASSUME ColAssumption == Crawler \notin Collections /\ ColOf \in [Sources -> Collections \cup {Crawler}]
ASSUME FavouritesAssumption == Favourites \subseteq Collections
ASSUME ProcessAssumption == Uploads \cap Workers = {} /\ Free \notin Uploads \cup Workers
ASSUME BoundAssumption == MaxFiles \in Nat \ {0} /\ MaxAttempts \in Nat \ {0}
ASSUME CopiesAssumption == CopiesOf \in [Sources -> Nat \ {0}]

Files == 1 .. MaxFiles
Copies == UNION {{s} \X (1 .. CopiesOf[s]) : s \in Sources}

(* A handler: its message, where it is, and the file it decided on.         *)
Stages == {"inspecting", "matched", "unmatched", "stored", "cleanup", "failing",
           "discard", "ack", "bury"}
Tasks == [copy : Copies, pc : Stages, file : {0} \cup Files]

(* A removal: the file, what it decided, and its lock on the meme.          *)
Removals ==
  [pc : {"open", "purge"}, file : Files, lock : {"none", "share", "update"},
   orphan : BOOLEAN]

ASSUME NoTaskAssumption == NoTask \notin Tasks

VARIABLES
  request,        \* request[s]: status of the request of source s
  tempOf,         \* tempOf[s]: the temporary object the request names
  temp,           \* temporary objects in the store
  original,       \* canonical objects in the store
  files,          \* the file rows that have the hash, with their memes
  public,         \* the files whose meme is public
  blocked,        \* the files blocked by their perceptual hash
  saves,          \* collection_memes: <<file, collection>>
  made,           \* file ids issued so far
  hashLock,       \* who holds the advisory lock of the hash
  client,         \* client[u]: where call u is
  place,          \* place[c]: where the broker has copy c
  deaths,         \* deaths[c]: its x-death count for the retry queue
  task,           \* task[w]: the handler w runs
  removal,        \* removal[k]: the removal under way in collection k
  ledger,         \* sources whose message is in pipeline_dead_letters
  raisedCalls,    \* history: calls whose commit took effect and raised
  raisedFiles     \* history: files whose commit took effect and raised

store == <<temp, original>>
content == <<files, public, blocked, saves>>
broker == <<place, deaths>>
raised == <<raisedCalls, raisedFiles>>
vars == <<request, tempOf, store, content, made, hashLock, client, broker, task,
          removal, ledger, raised>>

-----------------------------------------------------------------------------
Statuses == {"none", "pending", "duplicate", "materialized", "blocked", "invalid"}
Places == {"unpublished", "ready", "held", "retry", "gone"}

(* Mutant: one temporary key per source.                                    *)
TempKeyOfSource(u) == SourceOf[u]

(* The temporary key holds the id of the request the call would insert.     *)
TempKey(u) == u

(* Mutant: one canonical key per content.                                   *)
OriginalKeyOfContent(f) == 1

(* The canonical key holds the id of the file.                              *)
OriginalKey(f) == f

(* Mutant: the decision is not serialised.                                  *)
AcquireNothing(p) == UNCHANGED hashLock

(* acquire_sha256_advisory_lock: held until the transaction ends.           *)
Acquire(p) == hashLock = Free /\ hashLock' = p

EndOf(p) == hashLock' = IF hashLock = p THEN Free ELSE hashLock

(* find_global_sha256_match; 0 when no file has the hash, which is unique.  *)
Match == IF files = {} THEN 0 ELSE CHOOSE f \in files : TRUE

(* A removal whose transaction is open and has a lock on the meme.          *)
Locked(f) ==
  \E k \in Collections :
    /\ removal[k] # NoRemoval /\ removal[k].pc = "open"
    /\ removal[k].file = f /\ removal[k].lock # "none"

(* What an accepted source does to the file it is attached to: a save in    *)
(* the target collection, or promotion by a crawled post, unless blocked.   *)
Attach(s, f, isBlocked) ==
  /\ saves' = IF ColOf[s] # Crawler /\ ~isBlocked THEN saves \cup {<<f, ColOf[s]>>} ELSE saves
  /\ public' = IF ColOf[s] = Crawler /\ ~isBlocked THEN public \cup {f} ELSE public

-----------------------------------------------------------------------------
Init ==
  /\ request = [s \in Sources |-> "none"]
  /\ tempOf = [s \in Sources |-> {}]
  /\ temp = {} /\ original = {}
  /\ files = {} /\ public = {} /\ blocked = {} /\ saves = {}
  /\ made = 0
  /\ hashLock = Free
  /\ client = [u \in Uploads |-> [pc |-> "start", file |-> 0]]
  /\ place = [c \in Copies |-> "unpublished"]
  /\ deaths = [c \in Copies |-> 0]
  /\ task = [w \in Workers |-> NoTask]
  /\ removal = [k \in Collections |-> NoRemoval]
  /\ ledger = {}
  /\ raisedCalls = {} /\ raisedFiles = {}

-----------------------------------------------------------------------------
(* accept_bytes                                                             *)
Go(u, pc) == client' = [client EXCEPT ![u] = [pc |-> pc, file |-> 0]]
Idle == UNCHANGED <<broker, task, removal, ledger, made, raisedFiles>>

(* A request of the source exists: its result is returned.                  *)
AcceptReplay(u) ==
  /\ client[u].pc = "start" /\ request[SourceOf[u]] # "none"
  /\ Go(u, "done")
  /\ UNCHANGED <<request, tempOf, store, content, hashLock, raisedCalls>> /\ Idle

AcceptFindsNone(u) ==
  /\ client[u].pc = "start" /\ request[SourceOf[u]] = "none"
  /\ Go(u, "checked")
  /\ UNCHANGED <<request, tempOf, store, content, hashLock, raisedCalls>> /\ Idle

(* Under the lock of the hash, the file that has it already, if any.        *)
AcceptDecide(u) ==
  /\ client[u].pc = "checked"
  /\ Acquire(u)
  /\ client' = [client EXCEPT ![u] = [pc |-> IF Match = 0 THEN "unmatched" ELSE "matched",
                                      file |-> Match]]
  /\ UNCHANGED <<request, tempOf, store, content, raisedCalls>> /\ Idle

(* _accept_sha_duplicate: the meme is locked and may be gone by now; the    *)
(* source may have been taken, and then everything is rolled back.          *)
AcceptDuplicate(u) ==
  /\ client[u].pc = "matched"
  /\ LET s == SourceOf[u]
         f == client[u].file
     IN /\ ~Locked(f)
        /\ IF f \in files /\ request[s] = "none"
           THEN /\ request' = [request EXCEPT ![s] = "duplicate"]
                /\ Attach(s, f, f \in blocked)
           ELSE UNCHANGED <<request, saves, public>>
  /\ Go(u, "done") /\ EndOf(u)
  /\ UNCHANGED <<tempOf, store, files, blocked, raisedCalls>> /\ Idle

(* _accept_new_bytes stores the temporary object while it has the lock ...  *)
AcceptPut(u) ==
  /\ client[u].pc = "unmatched"
  /\ temp' = temp \cup {TempKey(u)}
  /\ Go(u, "stored")
  /\ UNCHANGED <<request, tempOf, original, content, hashLock, raisedCalls>> /\ Idle

(* ... and commits the request with its message.  A commit may take effect  *)
(* and raise all the same, and the call cleans up as after any other error. *)
AcceptCommit(u) ==
  /\ client[u].pc = "stored" /\ request[SourceOf[u]] = "none"
  /\ request' = [request EXCEPT ![SourceOf[u]] = "pending"]
  /\ tempOf' = [tempOf EXCEPT ![SourceOf[u]] = {TempKey(u)}]
  /\ \/ Go(u, "done") /\ UNCHANGED raisedCalls
     \/ Go(u, "cleanup") /\ raisedCalls' = raisedCalls \cup {u}
  /\ EndOf(u)
  /\ UNCHANGED <<store, content>> /\ Idle

AcceptRollback(u) ==
  /\ client[u].pc = "stored"
  /\ Go(u, "cleanup") /\ EndOf(u)
  /\ UNCHANGED <<request, tempOf, store, content, raisedCalls>> /\ Idle

(* The call's own temporary object goes; deletion is best effort.           *)
AcceptCleanup(u) ==
  /\ client[u].pc = "cleanup"
  /\ temp' = temp \ {TempKey(u)}
  /\ Go(u, "done")
  /\ UNCHANGED <<request, tempOf, original, content, hashLock, raisedCalls>> /\ Idle

(* The call ends early: an error of the store, or the process dies.         *)
AcceptDies(u) ==
  /\ client[u].pc \notin {"start", "done"}
  /\ Go(u, "done") /\ EndOf(u)
  /\ UNCHANGED <<request, tempOf, store, content, raisedCalls>> /\ Idle

-----------------------------------------------------------------------------
(* The outbox relay and the retry queue.                                    *)
Publish(c) ==
  /\ place[c] = "unpublished" /\ tempOf[c[1]] # {}
  /\ place' = [place EXCEPT ![c] = "ready"]
  /\ UNCHANGED <<request, tempOf, store, content, made, hashLock, client, deaths, task,
                 removal, ledger, raised>>

RetryExpires(c) ==
  /\ place[c] = "retry"
  /\ place' = [place EXCEPT ![c] = "ready"]
  /\ deaths' = [deaths EXCEPT ![c] = @ + 1]
  /\ UNCHANGED <<request, tempOf, store, content, made, hashLock, client, task, removal,
                 ledger, raised>>

-----------------------------------------------------------------------------
(* handle_media_inspect_message and materialize                             *)
At(w, pc) == task[w] # NoTask /\ task[w].pc = pc
SourceAt(w) == task[w].copy[1]
Move(w, pc, f) ==
  task' = [task EXCEPT ![w] = [copy |-> task[w].copy, pc |-> pc, file |-> f]]
Step(w, pc) == Move(w, pc, 0)

(* The request's temporary object, when it names one, is in the store.      *)
Readable(s) == tempOf[s] \subseteq temp

(* is_materialization_eligible                                              *)
Eligible(s) == request[s] = "pending"

(* The handler's transaction has the row of its request locked.             *)
HasRequest(w) ==
  task[w] # NoTask /\ task[w].pc \in {"inspecting", "matched", "unmatched", "stored"}

(* Mutant: two handlers may have the request open.                          *)
RequestIsAnyones(s) == TRUE

(* load_locked_ingest_request: no other handler's transaction has it.       *)
RequestIsFree(s) == \A w \in Workers : HasRequest(w) => SourceAt(w) # s

(* Mutant: the message is acknowledged when it is received.                 *)
TakeForGood(c) == place[c] = "ready" /\ place' = [place EXCEPT ![c] = "gone"]

Take(c) == place[c] = "ready" /\ place' = [place EXCEPT ![c] = "held"]

Deliver(w, c) ==
  /\ task[w] = NoTask
  /\ Take(c)
  /\ RequestIsFree(c[1])
  /\ task' = [task EXCEPT ![w] =
       [copy |-> c, file |-> 0,
        pc |-> IF Eligible(c[1]) THEN "inspecting" ELSE "ack"]]
  /\ UNCHANGED <<request, tempOf, store, content, made, hashLock, client, deaths, removal,
                 ledger, raised>>

Working == UNCHANGED <<client, broker, removal, ledger, raisedCalls>>

(* mark_invalid_media commits the status alone.  A commit that raises all   *)
(* the same is a failure to the handler, here and in Resolve.               *)
InspectInvalid(w) ==
  /\ At(w, "inspecting") /\ Readable(SourceAt(w))
  /\ request' = [request EXCEPT ![SourceAt(w)] = "invalid"]
  /\ Step(w, "ack") \/ Step(w, "failing")
  /\ UNCHANGED <<tempOf, store, content, made, hashLock, raisedFiles>> /\ Working

Decide(w) ==
  /\ At(w, "inspecting") /\ Readable(SourceAt(w))
  /\ Acquire(w)
  /\ Move(w, IF Match = 0 THEN "unmatched" ELSE "matched", Match)
  /\ UNCHANGED <<request, tempOf, store, content, made, raisedFiles>> /\ Working

(* resolve_sha_duplicate_request raises when the meme is gone by now.       *)
Resolve(w) ==
  /\ At(w, "matched") /\ ~Locked(task[w].file)
  /\ IF task[w].file \in files
     THEN /\ request' = [request EXCEPT ![SourceAt(w)] = "duplicate"]
          /\ Attach(SourceAt(w), task[w].file, task[w].file \in blocked)
          /\ Step(w, "discard") \/ Step(w, "failing")
     ELSE Step(w, "failing") /\ UNCHANGED <<request, saves, public>>
  /\ EndOf(w)
  /\ UNCHANGED <<tempOf, store, files, blocked, made, raisedFiles>> /\ Working

(* put_canonical_original, under the key of a fresh file id.                *)
PutOriginal(w) ==
  /\ At(w, "unmatched") /\ made < MaxFiles
  /\ made' = made + 1
  /\ original' = original \cup {OriginalKey(made + 1)}
  /\ Move(w, "stored", made + 1)
  /\ UNCHANGED <<request, tempOf, temp, content, hashLock, raisedFiles>> /\ Working

(* materialize_transcodable_request or materialize_blocked_request; the     *)
(* hash of a file is unique.  A commit that raises although it took effect  *)
(* is followed by the clean-up of the original, as in MaterializeFails.     *)
Materialize(w, isBlocked) ==
  /\ At(w, "stored") /\ files = {}
  /\ files' = {task[w].file}
  /\ blocked' = IF isBlocked THEN blocked \cup {task[w].file} ELSE blocked
  /\ request' = [request EXCEPT ![SourceAt(w)] = IF isBlocked THEN "blocked" ELSE "materialized"]
  /\ Attach(SourceAt(w), task[w].file, isBlocked)
  /\ \/ Step(w, "discard") /\ UNCHANGED raisedFiles
     \/ Move(w, "cleanup", task[w].file) /\ raisedFiles' = raisedFiles \cup {task[w].file}
  /\ EndOf(w)
  /\ UNCHANGED <<tempOf, store, made>> /\ Working

MaterializeFails(w) ==
  /\ At(w, "stored")
  /\ Move(w, "cleanup", task[w].file) /\ EndOf(w)
  /\ UNCHANGED <<request, tempOf, store, content, made, raisedFiles>> /\ Working

CleanupOriginal(w) ==
  /\ At(w, "cleanup")
  /\ original' = original \ {OriginalKey(task[w].file)}
  /\ Step(w, "failing")
  /\ UNCHANGED <<request, tempOf, temp, content, made, hashLock, raisedFiles>> /\ Working

(* After the commit, the temporary object goes.                             *)
DiscardTemp(w) ==
  /\ At(w, "discard")
  /\ temp' = temp \ tempOf[SourceAt(w)]
  /\ Step(w, "ack")
  /\ UNCHANGED <<request, tempOf, original, content, made, hashLock, raisedFiles>> /\ Working

(* An error before anything is stored; a missing temporary object is        *)
(* terminal at once (StorageObjectMissingError).                            *)
InspectFails(w) ==
  /\ At(w, "inspecting") \/ At(w, "matched") \/ At(w, "unmatched")
  /\ Step(w, IF Readable(SourceAt(w)) THEN "failing" ELSE "bury") /\ EndOf(w)
  /\ UNCHANGED <<request, tempOf, store, content, made, raisedFiles>> /\ Working

-----------------------------------------------------------------------------
Settle(w, to) ==
  /\ place' = [place EXCEPT ![task[w].copy] = to]
  /\ task' = [task EXCEPT ![w] = NoTask]
  /\ UNCHANGED <<request, tempOf, store, content, made, client, deaths, removal, raised>>

Ack(w) == At(w, "ack") /\ Settle(w, "gone") /\ UNCHANGED <<hashLock, ledger>>

(* Mutant: the worker goes on with what it rejected.                        *)
FailAndGoOn(w) ==
  /\ At(w, "failing")
  /\ place' = [place EXCEPT ![task[w].copy] = "retry"]
  /\ UNCHANGED <<request, tempOf, store, content, made, hashLock, client, deaths, task,
                 removal, ledger, raised>>

(* The retry queue while attempts are left, the dead-letter ledger then.    *)
Fail(w) ==
  /\ At(w, "failing")
  /\ IF 1 + deaths[task[w].copy] < MaxAttempts
     THEN Settle(w, "retry")
     ELSE Step(w, "bury")
          /\ UNCHANGED <<request, tempOf, store, content, made, client, broker, removal, raised>>
  /\ UNCHANGED <<hashLock, ledger>>

Bury(w, recorded) ==
  /\ At(w, "bury")
  /\ Settle(w, IF recorded THEN "gone" ELSE "ready")
  /\ ledger' = IF recorded THEN ledger \cup {SourceAt(w)} ELSE ledger
  /\ UNCHANGED hashLock

WorkerDies(w) ==
  /\ task[w] # NoTask
  /\ Settle(w, "ready") /\ EndOf(w)
  /\ UNCHANGED ledger

-----------------------------------------------------------------------------
(* Collections                                                              *)
Elsewhere ==
  UNCHANGED <<request, tempOf, temp, made, hashLock, client, broker, task, ledger, raised>>

(* save_meme_to_collection, by someone who can see the meme.                *)
Save(k, f) ==
  /\ f \in files /\ <<f, k>> \notin saves
  /\ f \in public \/ \E j \in Collections : <<f, j>> \in saves
  /\ saves' = saves \cup {<<f, k>>}
  /\ UNCHANGED <<original, files, public, blocked, removal>> /\ Elsewhere

(* Private, and in no collection but k.                                     *)
IsOrphan(f, k) == f \notin public /\ \A j \in Collections \ {k} : <<f, j>> \notin saves

(* remove_meme_from_collection and its like delete the collection's row and *)
(* decide, without locking the meme for it, whether it is orphaned.  A      *)
(* favourite's like count locks it; so does the first recommendation row of *)
(* the user for this meme, by its foreign key.                              *)
RemoveOpen(k, f, first) ==
  /\ removal[k] = NoRemoval /\ <<f, k>> \in saves
  /\ k \in Favourites => \A j \in Favourites :
       removal[j] # NoRemoval /\ removal[j].pc = "open" => removal[j].file # f
  /\ removal' = [removal EXCEPT ![k] =
       [pc |-> "open", file |-> f, orphan |-> IsOrphan(f, k),
        lock |-> IF k \in Favourites THEN "update" ELSE IF first THEN "share" ELSE "none"]]
  /\ UNCHANGED <<original, content>> /\ Elsewhere

(* The removal commits; the meme of an orphan is deleted with all its rows, *)
(* once the other removals that deleted one of them have ended.             *)
RemoveCommit(k) ==
  /\ removal[k] # NoRemoval /\ removal[k].pc = "open"
  /\ LET f == removal[k].file
     IN IF removal[k].orphan
        THEN /\ \A j \in Collections \ {k} : removal[j] # NoRemoval /\ removal[j].pc = "open"
                  => removal[j].file # f
             /\ files' = files \ {f} /\ public' = public \ {f} /\ blocked' = blocked \ {f}
             /\ saves' = {e \in saves : e[1] # f}
             /\ removal' = [removal EXCEPT ![k].pc = "purge"]
        ELSE /\ saves' = saves \ {<<f, k>>}
             /\ removal' = [removal EXCEPT ![k] = NoRemoval]
             /\ UNCHANGED <<files, public, blocked>>
  /\ UNCHANGED original /\ Elsewhere

Purge(k) ==
  /\ removal[k] # NoRemoval /\ removal[k].pc = "purge"
  /\ original' = original \ {OriginalKey(removal[k].file)}
  /\ removal' = [removal EXCEPT ![k] = NoRemoval]
  /\ UNCHANGED content /\ Elsewhere

(* The request dies: its transaction is rolled back, or nothing is purged.  *)
RemovalDies(k) ==
  /\ removal[k] # NoRemoval
  /\ removal' = [removal EXCEPT ![k] = NoRemoval]
  /\ UNCHANGED <<original, content>> /\ Elsewhere

-----------------------------------------------------------------------------
Next ==
  \/ \E u \in Uploads :
       \/ AcceptReplay(u) \/ AcceptFindsNone(u) \/ AcceptDecide(u) \/ AcceptDuplicate(u)
       \/ AcceptPut(u) \/ AcceptCommit(u) \/ AcceptRollback(u) \/ AcceptCleanup(u)
       \/ AcceptDies(u)
  \/ \E c \in Copies : Publish(c) \/ RetryExpires(c)
  \/ \E w \in Workers, c \in Copies : Deliver(w, c)
  \/ \E w \in Workers, b \in BOOLEAN : Materialize(w, b) \/ Bury(w, b)
  \/ \E w \in Workers :
       \/ InspectInvalid(w) \/ InspectFails(w) \/ Decide(w) \/ Resolve(w)
       \/ PutOriginal(w) \/ MaterializeFails(w) \/ CleanupOriginal(w)
       \/ DiscardTemp(w) \/ Ack(w) \/ Fail(w) \/ WorkerDies(w)
  \/ \E k \in Collections, f \in Files, b \in BOOLEAN : Save(k, f) \/ RemoveOpen(k, f, b)
  \/ \E k \in Collections : RemoveCommit(k) \/ Purge(k) \/ RemovalDies(k)

Spec == Init /\ [][Next]_vars

-----------------------------------------------------------------------------
DataOK ==
  /\ request \in [Sources -> Statuses]
  /\ tempOf \in [Sources -> SUBSET Uploads]
  /\ temp \subseteq Uploads
  /\ original \subseteq Files /\ files \subseteq Files
  /\ public \subseteq files /\ blocked \subseteq files \ public
  /\ saves \subseteq files \X Collections
  /\ made \in 0 .. MaxFiles
  /\ hashLock \in Uploads \cup Workers \cup {Free}
  /\ client \in [Uploads -> [file : {0} \cup Files, pc : {"start", "checked", "matched",
                             "unmatched", "stored", "cleanup", "done"}]]
  /\ removal \in [Collections -> {NoRemoval} \cup Removals]
  /\ ledger \subseteq Sources
  /\ raisedCalls \subseteq Uploads /\ raisedFiles \subseteq Files

DeliveryOK ==
  /\ place \in [Copies -> Places]
  /\ deaths \in [Copies -> Nat]
  /\ task \in [Workers -> {NoTask} \cup Tasks]
  /\ \A c \in Copies :
       place[c] = "held" <=> \E w \in Workers : task[w] # NoTask /\ task[w].copy = c

(* The type of every variable; a copy is held by the handler that has it.   *)
TypeOK == DataOK /\ DeliveryOK

(* Whoever decided that no file has the hash is still right when it stores  *)
(* an object and inserts its rows: nobody else makes the file meanwhile.    *)
NoMatchHolds ==
  /\ \A u \in Uploads : client[u].pc \in {"unmatched", "stored"} => files = {}
  /\ \A w \in Workers : task[w] # NoTask /\ task[w].pc \in {"unmatched", "stored"}
       => files = {}

(* A file's original is in the store as long as the file exists, whatever   *)
(* failed attempts, other workers and purges of deleted memes remove.  The  *)
(* files that materialize committed and took for not committed, because the *)
(* commit raised, are exempt: it deletes the originals of these.            *)
OriginalIsStored == \A f \in files : OriginalKey(f) \in original \/ f \in raisedFiles

(* The bytes of a request that waits for inspection are there to be read:   *)
(* no losing call and no finished delivery removes them.  Exempt is only    *)
(* the request of a call whose own commit took effect and raised: the call  *)
(* deletes them itself.  Either has a message that will get it to a handler *)
(* or a dead letter an operator can replay.                                 *)
PendingCanGoOn ==
  \A s \in Sources : request[s] = "pending" =>
    /\ tempOf[s] # {}
    /\ Readable(s) \/ tempOf[s] \subseteq raisedCalls
    /\ s \in ledger \/ \E c \in Copies : c[1] = s /\ place[c] # "gone"

(* A request is settled once: redeliveries, duplicates of its message and   *)
(* late handlers do not resolve it again.                                   *)
SettledForGood ==
  [][\A s \in Sources : request[s] \notin {"none", "pending"} => request'[s] = request[s]]_vars
=============================================================================
