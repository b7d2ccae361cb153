-------------------------- MODULE MediaGeneration --------------------------
(***************************************************************************)
(* The immutable derivative generations of one moving-media file:          *)
(* services/media_generation.py, workers/pipeline_runtime/stages/          *)
(* transcode.py, complete_transcode_stage of pipeline/stage_completion.py, *)
(* and the deletion of a private meme in services/collection_service.py.   *)
(*                                                                         *)
(* A transcode delivery reserves a generation, encodes, records the        *)
(* verified output, uploads two objects, records the upload, and swaps the *)
(* file's pointer to it; whatever fails on the way fences the generation   *)
(* and deletes its objects.  Any number of deliveries run at once (a       *)
(* redelivery, a reclaimed lease, a recovery item), each can die between   *)
(* two steps, and the scheduler's collector and a deletion run beside      *)
(* them.  A commit may be applied and still raise.                         *)
(*                                                                         *)
(* The pointer stands for s3_web_video_key and active_media_generation_id, *)
(* which moving media set together.  The collector's retention is at least *)
(* seven days, so no delivery still works on a generation it collects.     *)
(***************************************************************************)
EXTENDS Naturals, FiniteSets

CONSTANTS
  Workers,         \* transcode consumers
  Items,           \* recovery items that regenerate the file's derivatives
  NoItem,          \* the recovery item of ordinary work
  MaxGenerations   \* bound of the model: generations reserved

ASSUME MaxGenerationsAssumption == MaxGenerations \in Nat \ {0}
ASSUME NoItemAssumption == NoItem \notin Items

VARIABLES
  file,            \* the MemeFile row exists
  pointer,         \* the active generation, 0 if none
  gen,             \* gen[g]: the MediaGeneration row
  stored,          \* stored[g]: the artifacts of g in the bucket
  job,             \* job[w]: the delivery worker w runs
  gc,              \* the generation the collector deletes and how far it is
  deletion         \* the deletion of the file: its phase, what it has read

vars == <<file, pointer, gen, stored, job, gc, deletion>>

-----------------------------------------------------------------------------
Gens == 1 .. MaxGenerations
None == 0
Artifacts == {"preview", "video"}

Statuses == {"absent", "generating", "verified", "uploaded", "active",
             "superseded", "failed", "stale"}
InFlight == {"generating", "verified", "uploaded"}
Retired == {"superseded", "failed", "stale"}
Cleanups == {"not_eligible", "pending", "deleted", "failed", "retained_referenced"}

Idle == [pc |-> "idle", g |-> None, expected |-> None, item |-> NoItem]

Generations == {g \in Gens : gen[g].status # "absent"}
NextGeneration == Cardinality(Generations) + 1

At(w, pc) == job[w].pc = pc
Go(w, pc) == job' = [job EXCEPT ![w].pc = pc]
Finish(w) == job' = [job EXCEPT ![w] = Idle]
Working(g) == \E w \in Workers : job[w].g = g

(* Rows the deletion's transaction has locked; who needs one waits.         *)
Locked(g) == deletion.pc = "locked" /\ g \in deletion.gens

(* _generation_is_referenced.                                               *)
Referenced(g) == file /\ pointer = g

Retire(g, status) == [gen[g] EXCEPT !.status = status, !.cleanup = "pending"]

-----------------------------------------------------------------------------
Init ==
  /\ file = TRUE
  /\ pointer = None
  /\ gen = [g \in Gens |-> [status |-> "absent", cleanup |-> "not_eligible",
                            expected |-> None, item |-> NoItem]]
  /\ stored = [g \in Gens |-> {}]
  /\ job = [w \in Workers |-> Idle]
  /\ gc = [pc |-> "idle", g |-> None]
  /\ deletion = [pc |-> "none", gens |-> {}, active |-> None]

(* start_stage_processing hands the delivery the pointer it will expect.    *)
Start(w, i) ==
  /\ At(w, "idle") /\ file
  /\ job' = [job EXCEPT ![w] = [pc |-> "reserving", g |-> None,
                                expected |-> pointer, item |-> i]]
  /\ UNCHANGED <<file, pointer, gen, stored, gc, deletion>>

-----------------------------------------------------------------------------
(* The row reserve locks and, if still in flight, retires: the newest of    *)
(* the same recovery item, or of ordinary work.                             *)
Latest(i) ==
  LET mine == {g \in Generations : gen[g].item = i
                                   /\ gen[g].status \notin {"active", "superseded"}}
  IN {g \in mine : \A h \in mine : h <= g}

ReserveConflicts(w) ==
  \/ ~file
  \/ pointer # job[w].expected
  \/ job[w].item # NoItem /\ pointer # None /\ gen[pointer].item = job[w].item

(* Mutant: what is still in flight is left alone.                           *)
ReserveBeside(w) ==
  /\ At(w, "reserving")
  /\ ~ReserveConflicts(w)
  /\ NextGeneration \in Gens
  /\ gen' = [gen EXCEPT ![NextGeneration] =
               [status |-> "generating", cleanup |-> "not_eligible",
                expected |-> pointer, item |-> job[w].item]]
  /\ job' = [job EXCEPT ![w] = [Idle EXCEPT !.pc = "encoding", !.g = NextGeneration]]
  /\ UNCHANGED <<file, pointer, stored, gc, deletion>>

Reserve(w) ==
  /\ At(w, "reserving")
  /\ ~ReserveConflicts(w)
  /\ \A g \in Latest(job[w].item) : ~Locked(g)
  /\ NextGeneration \in Gens
  /\ gen' = [g \in Gens |->
               IF g = NextGeneration
               THEN [status |-> "generating", cleanup |-> "not_eligible",
                     expected |-> pointer, item |-> job[w].item]
               ELSE IF g \in Latest(job[w].item) /\ gen[g].status \in InFlight
                    THEN Retire(g, "stale")
                    ELSE gen[g]]
  /\ job' = [job EXCEPT ![w] = [Idle EXCEPT !.pc = "encoding", !.g = NextGeneration]]
  /\ UNCHANGED <<file, pointer, stored, gc, deletion>>

(* Mutant: cleaned up all the same.                                         *)
ReserveFailsLate(w) ==
  /\ At(w, "reserving") /\ ReserveConflicts(w)
  /\ Go(w, "cleaning")
  /\ UNCHANGED <<file, pointer, gen, stored, gc, deletion>>

(* Raised before a generation is known: nothing to clean up.                *)
ReserveFails(w) ==
  /\ At(w, "reserving") /\ ReserveConflicts(w)
  /\ Finish(w)
  /\ UNCHANGED <<file, pointer, gen, stored, gc, deletion>>

(* record_verified and record_uploaded: from the one status they accept.    *)
Record(w, from, to, pc) ==
  /\ ~Locked(job[w].g)
  /\ IF gen[job[w].g].status = from
     THEN gen' = [gen EXCEPT ![job[w].g].status = to] /\ Go(w, pc)
     ELSE UNCHANGED gen /\ Go(w, "conflict")
  /\ UNCHANGED <<file, pointer, stored, gc, deletion>>

(* Mutant: a retired generation may be verified.                            *)
RecordVerifiedLate(w) ==
  /\ At(w, "encoding") /\ ~Locked(job[w].g)
  /\ gen' = [gen EXCEPT ![job[w].g].status = "verified"]
  /\ Go(w, "preview")
  /\ UNCHANGED <<file, pointer, stored, gc, deletion>>

RecordVerified(w) == At(w, "encoding") /\ Record(w, "generating", "verified", "preview")

Upload(w, artifact) ==
  /\ At(w, artifact)
  /\ stored' = [stored EXCEPT ![job[w].g] = @ \cup {artifact}]
  /\ Go(w, IF artifact = "preview" THEN "video" ELSE "uploaded")
  /\ UNCHANGED <<file, pointer, gen, gc, deletion>>

(* verify_uploaded_generation_object of both, then record_uploaded.         *)
RecordUploaded(w) ==
  /\ At(w, "uploaded")
  /\ IF stored[job[w].g] = Artifacts
     THEN Record(w, "verified", "uploaded", "completing")
     ELSE Go(w, "error") /\ UNCHANGED <<file, pointer, gen, stored, gc, deletion>>

(* complete_transcode_stage, from the lock on the file to the commit.  A    *)
(* stale attempt is one more exception: see Raises.                         *)
ActivationConflicts(w) == ~file \/ gen[job[w].g].status # "uploaded"

(* Mutant: the previous generation keeps its status.                        *)
ActivateBeside(w, raised) ==
  /\ At(w, "completing")
  /\ ~ActivationConflicts(w) /\ pointer = gen[job[w].g].expected
  /\ ~Locked(job[w].g) /\ ~Locked(pointer)
  /\ gen' = [gen EXCEPT ![job[w].g].status = "active"]
  /\ pointer' = job[w].g
  /\ IF raised THEN Go(w, "error") ELSE Finish(w)
  /\ UNCHANGED <<file, stored, gc, deletion>>

Activate(w, raised) ==
  /\ At(w, "completing")
  /\ ~ActivationConflicts(w) /\ pointer = gen[job[w].g].expected
  /\ ~Locked(job[w].g) /\ ~Locked(pointer)
  /\ gen' = [g \in Gens |->
               IF g = job[w].g
               THEN [gen[g] EXCEPT !.status = "active", !.cleanup = "not_eligible"]
               ELSE IF g = pointer THEN Retire(g, "superseded") ELSE gen[g]]
  /\ pointer' = job[w].g
  /\ IF raised THEN Go(w, "error") ELSE Finish(w)
  /\ UNCHANGED <<file, stored, gc, deletion>>

(* Another generation was activated since this one was reserved.            *)
ActivateTooLate(w) ==
  /\ At(w, "completing")
  /\ ~ActivationConflicts(w) /\ pointer # gen[job[w].g].expected
  /\ ~Locked(job[w].g)
  /\ gen' = [gen EXCEPT ![job[w].g] = Retire(job[w].g, "stale")]
  /\ Go(w, "conflict")
  /\ UNCHANGED <<file, pointer, stored, gc, deletion>>

ActivateFenced(w) ==
  /\ At(w, "completing") /\ ActivationConflicts(w)
  /\ Go(w, IF file THEN "conflict" ELSE "error")
  /\ UNCHANGED <<file, pointer, gen, stored, gc, deletion>>

(* The download, the encoder, the bucket or the database raises.            *)
Raises(w) ==
  /\ job[w].pc \in {"encoding", "preview", "video", "uploaded", "completing"}
  /\ Go(w, "error")
  /\ UNCHANGED <<file, pointer, gen, stored, gc, deletion>>

-----------------------------------------------------------------------------
(* Mutant: what raised is not active.                                       *)
FenceBlindly(w) ==
  /\ job[w].pc \in {"conflict", "error"} /\ ~Locked(job[w].g)
  /\ gen' = [gen EXCEPT ![job[w].g] = Retire(job[w].g, "failed")]
  /\ Go(w, "deleting")
  /\ UNCHANGED <<file, pointer, stored, gc, deletion>>

(* fail_and_cleanup_unactivated_generation: the fence ...                   *)
Fence(w) ==
  /\ job[w].pc \in {"conflict", "error"}
  /\ LET g == job[w].g
     IN /\ ~Locked(g)
        /\ IF Referenced(g)
           THEN gen' = [gen EXCEPT ![g].cleanup = "retained_referenced"] /\ Finish(w)
           ELSE /\ gen' = [gen EXCEPT ![g] =
                             Retire(g, IF At(w, "conflict") THEN "stale" ELSE "failed")]
                /\ Go(w, "deleting")
  /\ UNCHANGED <<file, pointer, stored, gc, deletion>>

(* ... the objects, poster first ...                                        *)
First(g) ==
  IF "preview" \in stored[g] THEN "preview" ELSE "video"

CleanObject(w) ==
  /\ At(w, "deleting") /\ stored[job[w].g] # {}
  /\ stored' = [stored EXCEPT ![job[w].g] = @ \ {First(job[w].g)}]
  /\ UNCHANGED <<file, pointer, gen, job, gc, deletion>>

(* ... and the outcome.                                                     *)
Outcome(g) == IF Referenced(g) THEN "retained_referenced" ELSE "deleted"

Cleaned(w) ==
  /\ At(w, "deleting") /\ stored[job[w].g] = {} /\ ~Locked(job[w].g)
  /\ gen' = [gen EXCEPT ![job[w].g].cleanup = Outcome(job[w].g)]
  /\ Finish(w)
  /\ UNCHANGED <<file, pointer, stored, gc, deletion>>

(* Mutant: the bucket's error is swallowed.                                 *)
CleanFailsSilently(w) ==
  /\ At(w, "deleting") /\ ~Locked(job[w].g)
  /\ gen' = [gen EXCEPT ![job[w].g].cleanup = Outcome(job[w].g)]
  /\ Finish(w)
  /\ UNCHANGED <<file, pointer, stored, gc, deletion>>

CleanFails(w) ==
  /\ At(w, "deleting") /\ ~Locked(job[w].g)
  /\ gen' = [gen EXCEPT ![job[w].g].cleanup = "failed"]
  /\ Finish(w)
  /\ UNCHANGED <<file, pointer, stored, gc, deletion>>

(* The process dies, or a shutdown cancels the handler: no cleanup runs.    *)
Crash(w) ==
  /\ ~At(w, "idle")
  /\ Finish(w)
  /\ UNCHANGED <<file, pointer, gen, stored, gc, deletion>>

-----------------------------------------------------------------------------
(* run_media_generation_gc_batch: one generation at a time.                 *)
Collectible(g) ==
  /\ gen[g].status \in Retired
  /\ gen[g].cleanup \notin {"deleted", "retained_referenced"}

GcClaim(g) ==
  /\ gc.pc = "idle"
  /\ Collectible(g) /\ ~Locked(g)
  /\ ~Working(g)
  /\ IF Referenced(g)
     THEN /\ gen' = [gen EXCEPT ![g].cleanup = "retained_referenced"]
          /\ UNCHANGED gc
     ELSE /\ gen' = [gen EXCEPT ![g].cleanup = "pending"]
          /\ gc' = [pc |-> "deleting", g |-> g]
  /\ UNCHANGED <<file, pointer, stored, job, deletion>>

GcObject ==
  /\ gc.pc = "deleting" /\ stored[gc.g] # {}
  /\ stored' = [stored EXCEPT ![gc.g] = @ \ {First(gc.g)}]
  /\ UNCHANGED <<file, pointer, gen, job, gc, deletion>>

GcEnds(outcome) ==
  /\ gc.pc = "deleting" /\ ~Locked(gc.g)
  /\ gen' = [gen EXCEPT ![gc.g].cleanup = outcome]
  /\ gc' = [pc |-> "idle", g |-> None]
  /\ UNCHANGED <<file, pointer, stored, job, deletion>>

GcDone == gc.pc = "deleting" /\ stored[gc.g] = {} /\ GcEnds(Outcome(gc.g))
GcFails == GcEnds("failed")

GcCrash ==
  /\ gc.pc = "deleting"
  /\ gc' = [pc |-> "idle", g |-> None]
  /\ UNCHANGED <<file, pointer, gen, stored, job, deletion>>

-----------------------------------------------------------------------------
(* The last collection that holds a private meme drops it: the transaction  *)
(* reads the files and locks the generations they have by then ...          *)
DeleteReads ==
  /\ deletion.pc = "none" /\ file
  /\ deletion' = [pc |-> "locked", gens |-> Generations, active |-> pointer]
  /\ UNCHANGED <<file, pointer, gen, stored, job, gc>>

(* Mutant: only the active generation is handed to the collector.           *)
DeleteCommitsActive ==
  /\ deletion.pc = "locked"
  /\ gen' = [g \in Gens |->
               IF g = deletion.active THEN Retire(g, "superseded") ELSE gen[g]]
  /\ file' = FALSE
  /\ deletion' = [deletion EXCEPT !.pc = "purging"]
  /\ UNCHANGED <<pointer, stored, job, gc>>

(* ... deletes the rows and commits ...                                     *)
DeleteCommits ==
  /\ deletion.pc = "locked"
  /\ gen' = [g \in Gens |->
               IF g \in deletion.gens
               THEN Retire(g, IF g = deletion.active THEN "superseded" ELSE "stale")
               ELSE gen[g]]
  /\ file' = FALSE
  /\ deletion' = [deletion EXCEPT !.pc = "purging"]
  /\ UNCHANGED <<pointer, stored, job, gc>>

(* ... or is rolled back, say by the deadlock with an activation ...        *)
DeleteAborts ==
  /\ deletion.pc = "locked"
  /\ deletion' = [pc |-> "none", gens |-> {}, active |-> None]
  /\ UNCHANGED <<file, pointer, gen, stored, job, gc>>

(* ... and then deletes the objects, as far as it gets.                     *)
Purge(g) ==
  /\ deletion.pc = "purging" /\ g \in deletion.gens
  /\ stored[g] # {}
  /\ stored' = [stored EXCEPT ![g] = @ \ {First(g)}]
  /\ UNCHANGED <<file, pointer, gen, job, gc, deletion>>

PurgeEnds ==
  /\ deletion.pc = "purging"
  /\ deletion' = [deletion EXCEPT !.pc = "done"]
  /\ UNCHANGED <<file, pointer, gen, stored, job, gc>>

-----------------------------------------------------------------------------
Delivery(w) ==
  \/ Reserve(w) \/ ReserveFails(w) \/ RecordVerified(w)
  \/ \E a \in Artifacts : Upload(w, a)
  \/ RecordUploaded(w)
  \/ \E b \in BOOLEAN : Activate(w, b)
  \/ ActivateTooLate(w) \/ ActivateFenced(w) \/ Raises(w)
  \/ Fence(w) \/ CleanObject(w) \/ Cleaned(w) \/ CleanFails(w) \/ Crash(w)

Collector == (\E g \in Gens : GcClaim(g)) \/ GcObject \/ GcDone \/ GcFails \/ GcCrash

Deletion ==
  \/ DeleteReads \/ DeleteCommits \/ DeleteAborts \/ PurgeEnds
  \/ \E g \in Gens : Purge(g)

Next ==
  \/ \E w \in Workers : Delivery(w) \/ \E i \in Items \cup {NoItem} : Start(w, i)
  \/ Collector
  \/ Deletion

Spec == Init /\ [][Next]_vars

-----------------------------------------------------------------------------
(* The type of every variable.                                              *)
TypeOK ==
  /\ file \in BOOLEAN
  /\ pointer \in Gens \cup {None}
  /\ gen \in [Gens -> [status : Statuses, cleanup : Cleanups,
                       expected : Gens \cup {None}, item : Items \cup {NoItem}]]
  /\ stored \in [Gens -> SUBSET Artifacts]
  /\ job \in [Workers -> [pc : {"idle", "reserving", "encoding", "preview", "video",
                                "uploaded", "completing", "conflict", "error", "deleting"},
                          g : Gens \cup {None}, expected : Gens \cup {None},
                          item : Items \cup {NoItem}]]
  /\ gc \in [pc : {"idle", "deleting"}, g : Gens \cup {None}]
  /\ deletion \in [pc : {"none", "locked", "purging", "done"}, gens : SUBSET Gens,
                   active : Gens \cup {None}]

(* What the file points at can be played: both objects of the active        *)
(* generation are in the bucket, whatever was uploaded, fenced, cleaned up, *)
(* collected or retried meanwhile; and the ledger agrees with the file on   *)
(* which generation is active.                                              *)
ActiveIsPlayable ==
  file =>
    /\ pointer # None => stored[pointer] = Artifacts
    /\ \A g \in Gens : gen[g].status = "active" <=> pointer = g

(* A recovery item, and ordinary work, has one generation in flight, the    *)
(* newest: so the next reservation finds and retires what a crash left.     *)
OneInFlight ==
  \A g, h \in Gens :
    gen[g].item = gen[h].item /\ gen[g].status \in InFlight /\ gen[h].status # "absent"
      => h <= g

(* No object is forgotten: its generation is active, or a delivery works on *)
(* it, or the next reservation retires it, or the collector will take it.   *)
(* (One reserved between the deletion's read and its commit escapes.)       *)
(* DELETED in the ledger means that nothing is left in the bucket.          *)
NothingLeaks ==
  /\ OneInFlight
  /\ \A g \in Gens :
       stored[g] # {} =>
         /\ gen[g].cleanup # "deleted"
         /\ \/ Working(g)
            \/ Collectible(g)
            \/ file /\ (pointer = g \/ gen[g].status \in InFlight)
            \/ ~file /\ g \notin deletion.gens

(* A retired generation never comes back.                                   *)
RetiredForGood ==
  [][\A g \in Gens : gen[g].status \in Retired => gen'[g].status \in Retired]_vars
=============================================================================
