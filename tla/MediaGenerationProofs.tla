----------------------- MODULE MediaGenerationProofs -----------------------
(***************************************************************************)
(* For any number of deliveries, recovery items and generations: what the  *)
(* file points at can be played, no stored object is forgotten, and a      *)
(* retired generation stays retired.                                       *)
(*                                                                         *)
(* Three parties delete objects.  None of them can meet the file's pointer *)
(* because each acts on a generation it saw retired, and retirement is for *)
(* good: Jobs and Collecting say so of deliveries and of the collector,    *)
(* Deleting of the deletion.  Numbered says that the number reserve counts *)
(* out is fresh, so that a delivery has its generation to itself; Whole    *)
(* that an upload on record has both objects, until it is retired; and     *)
(* Retained that only an active generation is kept from the collector.     *)
(***************************************************************************)
EXTENDS MediaGeneration, FiniteSetTheorems, TLAPS

Rows == [status : Statuses, cleanup : Cleanups,
         expected : Gens \cup {None}, item : Items \cup {NoItem}]
Works == [pc : {"idle", "reserving", "encoding", "preview", "video", "uploaded",
                "completing", "conflict", "error", "deleting"},
          g : Gens \cup {None}, expected : Gens \cup {None}, item : Items \cup {NoItem}]

(* Generations are numbered in the order they were reserved.                *)
Numbered ==
  /\ NextGeneration \in Nat \ {0}
  /\ Generations = 1 .. (NextGeneration - 1)

(* A delivery past its reservation has a generation of its own.             *)
Jobs ==
  \A w \in Workers :
    /\ job[w].pc \in {"idle", "reserving"} <=> job[w].g = None
    /\ job[w].g # None =>
         /\ gen[job[w].g].status # "absent"
         /\ gen[job[w].g].cleanup # "deleted"
         /\ \A v \in Workers : v # w => job[v].g # job[w].g
    /\ job[w].pc = "deleting" => gen[job[w].g].status \in Retired

(* The collector deletes what is retired and no delivery works on.          *)
Collecting ==
  gc.pc = "deleting" =>
    gc.g \in Gens /\ gen[gc.g].status \in Retired /\ ~Working(gc.g)

(* What the deletion has read it has retired when the file is gone.         *)
Deleting ==
  /\ file <=> deletion.pc \in {"none", "locked"}
  /\ \A g \in deletion.gens : gen[g].status # "absent"
  /\ ~file => \A g \in deletion.gens : gen[g].status \in Retired

Whole == \A g \in Gens : gen[g].status = "uploaded" => stored[g] = Artifacts

Retained ==
  \A g \in Gens : gen[g].cleanup = "retained_referenced" => gen[g].status = "active"

(* What the ledger says of a generation with objects in the bucket.         *)
Present ==
  \A g \in Gens : stored[g] # {} =>
    gen[g].status # "absent" /\ gen[g].cleanup # "deleted"

IInv ==
  /\ TypeOK
  /\ Numbered /\ Jobs /\ Collecting /\ Deleting /\ Whole /\ Retained
  /\ ActiveIsPlayable /\ OneInFlight /\ Present

-----------------------------------------------------------------------------
(* The types, with the rows and the deliveries as sets of their own.        *)
LEMMA TypeParts ==
  /\ TypeOK <=>
       /\ file \in BOOLEAN /\ pointer \in Gens \cup {None}
       /\ gen \in [Gens -> Rows] /\ stored \in [Gens -> SUBSET Artifacts]
       /\ job \in [Workers -> Works]
       /\ gc \in [pc : {"idle", "deleting"}, g : Gens \cup {None}]
       /\ deletion \in [pc : {"none", "locked", "purging", "done"}, gens : SUBSET Gens,
                        active : Gens \cup {None}]
  /\ TypeOK' <=>
       /\ file' \in BOOLEAN /\ pointer' \in Gens \cup {None}
       /\ gen' \in [Gens -> Rows] /\ stored' \in [Gens -> SUBSET Artifacts]
       /\ job' \in [Workers -> Works]
       /\ gc' \in [pc : {"idle", "deleting"}, g : Gens \cup {None}]
       /\ deletion' \in [pc : {"none", "locked", "purging", "done"}, gens : SUBSET Gens,
                         active : Gens \cup {None}]
BY DEF TypeOK, Rows, Works

(* An absent generation is not a status of the others, and so on.           *)
LEMMA Kinds ==
  /\ None \notin Gens /\ Gens \subseteq Nat
  /\ \A s : s \in InFlight \cup Retired => s \in Statuses /\ s \notin {"absent", "active"}
  /\ \A s \in Statuses : s \in InFlight \cup Retired \cup {"absent", "active"}
  /\ InFlight \cap Retired = {} /\ "uploaded" \in InFlight
BY MaxGenerationsAssumption DEF Gens, None, Statuses, InFlight, Retired

(* A row keeps what an update does not name.                                *)
LEMMA RowFields ==
  ASSUME NEW r \in Rows
  PROVE  r.status \in Statuses /\ r.cleanup \in Cleanups
BY DEF Rows

LEMMA RowUpdate ==
  ASSUME NEW r \in Rows, NEW s \in Statuses, NEW c \in Cleanups
  PROVE  /\ LET n == [r EXCEPT !.status = s]
            IN n \in Rows /\ n.status = s /\ n.cleanup = r.cleanup /\ n.item = r.item
         /\ LET n == [r EXCEPT !.cleanup = c]
            IN n \in Rows /\ n.status = r.status /\ n.cleanup = c /\ n.item = r.item
BY DEF Rows

LEMMA Retirement ==
  ASSUME NEW g \in Gens, gen[g] \in Rows, NEW s \in Statuses
  PROVE  /\ Retire(g, s) \in Rows
         /\ Retire(g, s).status = s /\ Retire(g, s).cleanup = "pending"
         /\ Retire(g, s).item = gen[g].item
BY DEF Retire, Rows, Cleanups

(* One row changes its status and cleanup, one delivery its position.       *)
OneRow(g, s, c) ==
  /\ gen' \in [Gens -> Rows]
  /\ gen'[g].status = s /\ gen'[g].cleanup = c /\ gen'[g].item = gen[g].item
  /\ \A h \in Gens \ {g} : gen'[h] = gen[h]

OneJob(w, pc, g) ==
  /\ job' \in [Workers -> Works]
  /\ job'[w].pc = pc /\ job'[w].g = g
  /\ \A v \in Workers \ {w} : job'[v] = job[v]

LEMMA OneRows ==
  ASSUME TypeOK, NEW g \in Gens, NEW s \in Statuses, NEW c \in Cleanups
  PROVE  /\ gen' = gen => OneRow(g, gen[g].status, gen[g].cleanup)
         /\ gen' = [gen EXCEPT ![g].status = s] => OneRow(g, s, gen[g].cleanup)
         /\ gen' = [gen EXCEPT ![g].cleanup = c] => OneRow(g, gen[g].status, c)
         /\ gen' = [gen EXCEPT ![g] = Retire(g, s)] => OneRow(g, s, "pending")
<1>0. gen \in [Gens -> Rows] /\ gen[g] \in Rows /\ "pending" \in Cleanups
  BY TypeParts DEF Cleanups
<1>1. [gen[g] EXCEPT !.status = s] \in Rows /\ [gen[g] EXCEPT !.cleanup = c] \in Rows
  BY <1>0, RowUpdate
<1>2. Retire(g, s) \in Rows /\ Retire(g, s).status = s /\ Retire(g, s).cleanup = "pending"
      /\ Retire(g, s).item = gen[g].item
  BY <1>0, Retirement
<1>3. gen' = gen => OneRow(g, gen[g].status, gen[g].cleanup) BY <1>0 DEF OneRow
<1>4. gen' = [gen EXCEPT ![g].status = s] => OneRow(g, s, gen[g].cleanup)
  BY <1>0, <1>1, RowUpdate DEF OneRow
<1>5. gen' = [gen EXCEPT ![g].cleanup = c] => OneRow(g, gen[g].status, c)
  BY <1>0, <1>1, RowUpdate DEF OneRow
<1>6. gen' = [gen EXCEPT ![g] = Retire(g, s)] => OneRow(g, s, "pending")
  <2> DEFINE R == Retire(g, s)
  <2> HIDE DEF R
  <2>1. R \in Rows /\ R.status = s /\ R.cleanup = "pending" /\ R.item = gen[g].item
    BY <1>2 DEF R
  <2>2. gen' = [gen EXCEPT ![g] = R] => OneRow(g, s, "pending") BY <1>0, <2>1 DEF OneRow
  <2> QED BY <2>2 DEF R
<1> QED BY <1>3, <1>4, <1>5, <1>6

LEMMA OneJobs ==
  ASSUME TypeOK, NEW w \in Workers
  PROVE  /\ Finish(w) => OneJob(w, "idle", None)
         /\ \A pc \in {"preview", "video", "uploaded", "completing", "conflict", "error",
                       "deleting"} : Go(w, pc) => OneJob(w, pc, job[w].g)
BY TypeParts, NoItemAssumption DEF Finish, Go, OneJob, Works, Idle

-----------------------------------------------------------------------------
(* What the invariant gives of the generation a delivery works on.          *)
LEMMA Own ==
  ASSUME IInv, NEW w \in Workers, job[w].g # None
  PROVE  /\ job[w].g \in Gens /\ gen[job[w].g] \in Rows
         /\ gen[job[w].g].status \in Statuses \ {"absent"}
         /\ gen[job[w].g].cleanup \in Cleanups \ {"deleted"}
         /\ job[w].pc \notin {"idle", "reserving"}
BY TypeParts, RowFields DEF IInv, Jobs, Works

LEMMA WorkingHasOne ==
  ASSUME IInv, NEW w \in Workers, job[w].pc \notin {"idle", "reserving"}
  PROVE  job[w].g # None
BY DEF IInv, Jobs

(* Generations are counted alike when none is reserved.                     *)
LEMMA SameCount ==
  ASSUME IInv, \A g \in Gens : gen'[g].status = "absent" <=> gen[g].status = "absent"
  PROVE  Numbered'
BY DEF IInv, Numbered, Generations, NextGeneration

(* One delivery moves, and it or nobody changes the row of its generation:  *)
(* what both may become for the invariant to hold on.                       *)
LEMMA RowAndJob ==
  ASSUME IInv, UNCHANGED <<file, pointer, stored, gc, deletion>>,
         NEW w \in Workers, job[w].g # None,
         NEW s \in Statuses \ {"absent"}, NEW c \in Cleanups, NEW pc, NEW j \in {job[w].g, None},
         OneRow(job[w].g, s, c), OneJob(w, pc, j),
         pc \in {"idle", "reserving"} <=> j = None,
         pc = "deleting" => s \in Retired,
         s \in InFlight => gen[job[w].g].status \in InFlight,
         gen[job[w].g].status \in Retired => s \in Retired,
         c = "retained_referenced" => s = "active",
         c = "deleted" => j = None /\ stored[job[w].g] = {},
         file => (s = "active" <=> pointer = job[w].g),
         s = "uploaded" => stored[job[w].g] = Artifacts
  PROVE  IInv'
<1> DEFINE g == job[w].g
<1>0. g \in Gens /\ gen[g] \in Rows /\ gen[g].status \in Statuses \ {"absent"}
      /\ gen[g].cleanup # "deleted"
  BY Own
<1> HIDE DEF g
<1>r. OneRow(g, s, c) BY DEF g
<1>1. TypeOK' BY TypeParts DEF IInv, OneRow, OneJob
<1>2. Numbered' BY <1>0, <1>r, SameCount DEF OneRow
<1>3. Jobs'
  <2>1. \A v \in Workers : job[v].g # None => job[v].g \in Gens BY Own
  <2>2. \A v \in Workers \ {w} : job[v].g # None => job[v].g # g /\ gen'[job[v].g] = gen[job[v].g]
    BY <1>0, <1>r, <2>1 DEF IInv, Jobs, OneRow, g
  <2>3. ASSUME NEW v \in Workers \ {w}
        PROVE  /\ job'[v] = job[v]
               /\ job[v].pc \in {"idle", "reserving"} <=> job[v].g = None
               /\ job[v].g # None => /\ gen'[job[v].g].status # "absent"
                                     /\ gen'[job[v].g].cleanup # "deleted"
               /\ job[v].pc = "deleting" => gen'[job[v].g].status \in Retired
    BY <2>2 DEF IInv, Jobs, OneJob
  <2>4. \A v, u \in Workers : v # u /\ job'[u].g # None => job'[v].g # job'[u].g
    BY <2>2, <2>3 DEF IInv, Jobs, OneJob, g
  <2>5. /\ job'[w].pc \in {"idle", "reserving"} <=> job'[w].g = None
        /\ job'[w].g # None => /\ gen'[job'[w].g].status # "absent"
                               /\ gen'[job'[w].g].cleanup # "deleted"
        /\ job'[w].pc = "deleting" => gen'[job'[w].g].status \in Retired
    BY <1>r DEF OneRow, OneJob, g
  <2> QED BY <2>3, <2>4, <2>5 DEF Jobs
<1>4. Collecting'
  <2> SUFFICES ASSUME gc.pc = "deleting"
               PROVE  gc.g \in Gens /\ gen'[gc.g].status \in Retired /\ \A v \in Workers : job'[v].g # gc.g
    BY DEF Collecting, Working
  <2>1. gc.g \in Gens /\ gen[gc.g].status \in Retired /\ \A v \in Workers : job[v].g # gc.g
    BY DEF IInv, Collecting, Working
  <2>2. gen'[gc.g] = gen[gc.g] BY <1>r, <2>1 DEF OneRow, g
  <2>3. \A v \in Workers : job'[v].g \in {job[v].g, None} BY DEF OneJob
  <2> QED BY <2>1, <2>2, <2>3, Kinds
<1>5. Deleting' BY <1>0, <1>r, TypeParts DEF IInv, Deleting, OneRow, g
<1>6. Whole' /\ Retained' BY <1>0, <1>r DEF IInv, Whole, Retained, OneRow, g
<1>7. ActiveIsPlayable' BY <1>0, <1>r DEF IInv, ActiveIsPlayable, OneRow, g
<1>8. OneInFlight' BY <1>0, <1>r DEF IInv, OneInFlight, OneRow, g
<1>9. Present' BY <1>0, <1>r DEF IInv, Present, OneRow, g
<1> QED BY <1>1, <1>2, <1>3, <1>4, <1>5, <1>6, <1>7, <1>8, <1>9 DEF IInv

(* Only the deliveries move, one of them with no generation before or after *)
(* or with its own throughout; the bucket may have gained an object of it.  *)
LEMMA JobAlone ==
  ASSUME IInv, UNCHANGED <<file, pointer, gen, gc, deletion>>,
         NEW w \in Workers, NEW pc, NEW j \in {job[w].g, None},
         OneJob(w, pc, j),
         pc \in {"idle", "reserving"} <=> j = None,
         pc = "deleting" => job[w].pc = "deleting",
         stored' \in [Gens -> SUBSET Artifacts],
         \A g \in Gens : stored[g] \subseteq stored'[g],
         \A g \in Gens : stored'[g] # stored[g] => g = job[w].g
  PROVE  IInv'
<1>1. TypeOK' BY TypeParts DEF IInv, OneJob
<1>2. Numbered' BY SameCount
<1>3. Jobs' BY DEF IInv, Jobs, OneJob
<1>4. Collecting' BY MaxGenerationsAssumption DEF IInv, Collecting, Working, OneJob, Gens, None
<1>5. Deleting' BY DEF IInv, Deleting
<1>a. \A g \in Gens : stored[g] = Artifacts => stored'[g] = Artifacts BY TypeParts
<1>6. Whole' /\ Retained'
  <2>1. Whole' BY <1>a DEF IInv, Whole
  <2>2. Retained' BY DEF IInv, Retained
  <2> QED BY <2>1, <2>2
<1>7. ActiveIsPlayable' BY <1>a, TypeParts DEF IInv, ActiveIsPlayable
<1>8. OneInFlight' BY DEF IInv, OneInFlight
<1>9. Present' BY Kinds DEF IInv, Present, Jobs
<1> QED BY <1>1, <1>2, <1>3, <1>4, <1>5, <1>6, <1>7, <1>8, <1>9 DEF IInv

(* Init establishes the inductive invariant.                                *)
LEMMA InitIInv == Init => IInv
<1> SUFFICES ASSUME Init PROVE IInv OBVIOUS
<1> USE DEF Init
<1>1. TypeOK
  BY NoItemAssumption DEF TypeOK, Statuses, Cleanups, Idle
<1>2. Generations = {} BY DEF Generations
<1>3. Numbered
  <2>1. NextGeneration = 1 BY <1>2, FS_EmptySet DEF NextGeneration
  <2> QED BY <1>2, <2>1 DEF Numbered
<1>4. Jobs BY DEF Jobs, Idle
<1>5. Collecting /\ Deleting BY DEF Collecting, Deleting
<1>6. Whole /\ Retained BY DEF Whole, Retained
<1>7. ActiveIsPlayable BY Kinds DEF ActiveIsPlayable
<1>8. OneInFlight BY DEF OneInFlight, InFlight
<1>9. Present BY DEF Present
<1> QED BY <1>1, <1>3, <1>4, <1>5, <1>6, <1>7, <1>8, <1>9 DEF IInv

(* A delivery begins, fails before it has a generation, uploads, raises.    *)
LEMMA QuietSteps ==
  ASSUME IInv, NEW w \in Workers,
         \/ \E i \in Items \cup {NoItem} : Start(w, i)
         \/ ReserveFails(w)
         \/ \E a \in Artifacts : Upload(w, a)
         \/ ActivateFenced(w) \/ Raises(w)
  PROVE  IInv'
<1>0. TypeOK BY DEF IInv
<1>1. ASSUME NEW i \in Items \cup {NoItem}, Start(w, i) PROVE IInv'
  <2>1. job[w].g = None BY <1>1 DEF Start, At, IInv, Jobs
  <2>2. OneJob(w, "reserving", None)
    BY <1>0, <1>1, TypeParts DEF Start, OneJob, Works
  <2> QED BY <1>0, <1>1, <2>1, <2>2, TypeParts, JobAlone DEF Start
<1>2. CASE ReserveFails(w)
  <2>1. job[w].g = None BY <1>2 DEF ReserveFails, At, IInv, Jobs
  <2>2. OneJob(w, "idle", None) BY <1>0, <1>2, OneJobs DEF ReserveFails
  <2> QED BY <1>0, <1>2, <2>1, <2>2, TypeParts, JobAlone DEF ReserveFails
<1>3. ASSUME NEW a \in Artifacts, Upload(w, a) PROVE IInv'
  <2> DEFINE pc == IF a = "preview" THEN "video" ELSE "uploaded"
  <2>1. job[w].g # None BY <1>3, WorkingHasOne DEF Upload, At, Artifacts
  <2>2. pc \in {"video", "uploaded"} OBVIOUS
  <2>3. OneJob(w, pc, job[w].g) BY <1>0, <1>3, <2>2, OneJobs DEF Upload
  <2>4. stored' = [stored EXCEPT ![job[w].g] = @ \cup {a}] BY <1>3 DEF Upload
  <2>5. stored' \in [Gens -> SUBSET Artifacts]
        /\ (\A g \in Gens : stored[g] \subseteq stored'[g])
        /\ (\A g \in Gens : stored'[g] # stored[g] => g = job[w].g)
    BY <1>0, <2>4, TypeParts
  <2>6. UNCHANGED <<file, pointer, gen, gc, deletion>> BY <1>3 DEF Upload
  <2> HIDE DEF pc
  <2> QED BY <2>1, <2>2, <2>3, <2>5, <2>6, JobAlone
<1>4. CASE ActivateFenced(w) \/ Raises(w)
  <2>1. job[w].g # None BY <1>4, WorkingHasOne DEF ActivateFenced, Raises, At
  <2>2. PICK pc \in {"conflict", "error"} : Go(w, pc) BY <1>4 DEF ActivateFenced, Raises
  <2>3. OneJob(w, pc, job[w].g) BY <1>0, <2>2, OneJobs
  <2>4. UNCHANGED <<file, pointer, gen, stored, gc, deletion>>
    BY <1>4 DEF ActivateFenced, Raises
  <2> QED BY <1>0, <2>1, <2>2, <2>3, <2>4, TypeParts, JobAlone
<1> QED BY <1>1, <1>2, <1>3, <1>4

(* A process may die with a generation at any point of its work.            *)
LEMMA CrashStep ==
  ASSUME IInv, NEW w \in Workers, Crash(w)
  PROVE  IInv'
<1>1. TypeOK /\ UNCHANGED <<file, pointer, gen, stored, gc, deletion>> BY DEF IInv, Crash
<1>2. OneJob(w, "idle", None) BY <1>1, OneJobs DEF Crash
<1> QED BY <1>1, <1>2, TypeParts, JobAlone

(* What the delivery writes on record of its generation.                    *)
LEMMA RecordSteps ==
  ASSUME IInv, NEW w \in Workers, RecordVerified(w) \/ RecordUploaded(w)
  PROVE  IInv'
<1> DEFINE g == job[w].g
<1>0. TypeOK /\ g # None /\ g \in Gens
  BY WorkingHasOne, Own DEF IInv, RecordVerified, RecordUploaded, At
<1>c. gen[g].status \in Statuses \ {"absent"} /\ gen[g].cleanup \in Cleanups \ {"deleted"}
  BY <1>0, Own
<1>k. gen[g].cleanup = "retained_referenced" => gen[g].status = "active"
  BY <1>0 DEF IInv, Retained
<1>a. file => (gen[g].status = "active" <=> pointer = g)
  BY <1>0 DEF IInv, ActiveIsPlayable
<1>1. ASSUME Go(w, "conflict") \/ Go(w, "error"),
             UNCHANGED <<file, pointer, gen, stored, gc, deletion>>
      PROVE  IInv'
  <2>1. PICK pc \in {"conflict", "error"} : OneJob(w, pc, g) BY <1>0, <1>1, OneJobs
  <2> QED BY <1>0, <1>1, <2>1, TypeParts, JobAlone
<1>2. ASSUME NEW from \in InFlight, NEW to \in InFlight, NEW pc \in {"preview", "completing"},
             gen[g].status = from, gen' = [gen EXCEPT ![g].status = to], Go(w, pc),
             to = "uploaded" => stored[g] = Artifacts,
             UNCHANGED <<file, pointer, stored, gc, deletion>>
      PROVE  IInv'
  <2>1. OneJob(w, pc, g) BY <1>0, <1>2, OneJobs
  <2>2. to \in Statuses \ {"absent"} /\ to \notin Retired /\ to # "active" BY <1>2, Kinds
  <2>3. PICK c \in Cleanups \ {"deleted"} : c = gen[g].cleanup BY <1>c
  <2>4. OneRow(g, to, c) BY <1>0, <1>2, <2>2, <2>3, OneRows
  <2>5. c # "retained_referenced" /\ (file => pointer # g) /\ gen[g].status \notin Retired
        /\ gen[g].status \in InFlight
    BY <1>2, <1>k, <1>a, <2>3, Kinds
  <2>6. pc \notin {"idle", "reserving", "deleting"} /\ c # "deleted" BY <1>2, <2>3
  <2> QED BY <1>0, <1>2, <2>1, <2>2, <2>4, <2>5, <2>6, RowAndJob
<1>3. CASE RecordVerified(w)
  BY <1>3, <1>1, <1>2 DEF RecordVerified, Record, InFlight
<1>4. CASE RecordUploaded(w)
  BY <1>4, <1>1, <1>2 DEF RecordUploaded, Record, InFlight
<1> QED BY <1>3, <1>4

(* Another generation was activated meanwhile, or anything else failed: the *)
(* fence, and what became of the objects.                                   *)
LEMMA FenceSteps ==
  ASSUME IInv, NEW w \in Workers,
         ActivateTooLate(w) \/ Fence(w) \/ Cleaned(w) \/ CleanFails(w)
  PROVE  IInv'
<1> DEFINE g == job[w].g
<1>0. TypeOK /\ g # None /\ g \in Gens
  BY WorkingHasOne, Own DEF IInv, ActivateTooLate, Fence, Cleaned, CleanFails, At
<1>c. gen[g].status \in Statuses \ {"absent"} /\ gen[g].cleanup \in Cleanups \ {"deleted"}
  BY <1>0, Own
<1>a. file => (gen[g].status = "active" <=> pointer = g)
  BY <1>0 DEF IInv, ActiveIsPlayable
<1>d. job[w].pc = "deleting" => gen[g].status \in Retired BY DEF IInv, Jobs
<1>u. UNCHANGED <<file, pointer, stored, gc, deletion>>
  BY DEF ActivateTooLate, Fence, Cleaned, CleanFails
<1>1. ASSUME NEW s \in Retired, gen' = [gen EXCEPT ![g] = Retire(g, s)],
             NEW pc \in {"conflict", "deleting"}, Go(w, pc), file => pointer # g
      PROVE  IInv'
  <2>1. OneJob(w, pc, g) BY <1>0, <1>1, OneJobs
  <2>2. s \in Statuses \ {"absent"} /\ s \notin InFlight /\ s # "active" /\ s # "uploaded"
    BY <1>1, Kinds
  <2>3. OneRow(g, s, "pending") BY <1>0, <1>1, <2>2, OneRows DEF Cleanups
  <2>4. "pending" \in Cleanups BY DEF Cleanups
  <2> QED BY <1>0, <1>u, <1>1, <2>1, <2>2, <2>3, <2>4, RowAndJob
<1>2. ASSUME NEW c \in Cleanups, gen' = [gen EXCEPT ![g].cleanup = c], Finish(w),
             c = "retained_referenced" => gen[g].status = "active",
             c = "deleted" => stored[g] = {}
      PROVE  IInv'
  <2>1. OneJob(w, "idle", None) BY <1>0, <1>2, OneJobs
  <2>2. PICK s \in Statuses \ {"absent"} : s = gen[g].status BY <1>c
  <2>3. OneRow(g, s, c) BY <1>0, <1>2, <2>2, OneRows
  <2>4. s = "uploaded" => stored[g] = Artifacts BY <1>0, <2>2 DEF IInv, Whole
  <2> QED BY <1>0, <1>a, <1>u, <1>2, <2>1, <2>2, <2>3, <2>4, RowAndJob
<1>3. CASE ActivateTooLate(w)
  <2>1. gen[g].status = "uploaded" BY <1>3 DEF ActivateTooLate, ActivationConflicts
  <2> QED BY <1>a, <1>1, <1>3, <2>1 DEF ActivateTooLate, Retired
<1>4. CASE Fence(w)
  <2>1. CASE Referenced(g)
    BY <1>a, <1>2, <1>4, <2>1 DEF Fence, Referenced, Cleanups
  <2>2. CASE ~Referenced(g)
    BY <1>1, <1>4, <2>2 DEF Fence, Referenced, Retired
  <2> QED BY <2>1, <2>2
<1>5. CASE Cleaned(w) \/ CleanFails(w)
  <2>1. gen[g].status \in Retired BY <1>d, <1>5 DEF Cleaned, CleanFails, At
  <2>2. ~Referenced(g) BY <1>a, <2>1 DEF Referenced, Retired
  <2> QED BY <1>2, <1>5, <2>2 DEF Cleaned, CleanFails, Outcome, Cleanups
<1> QED BY <1>3, <1>4, <1>5

-----------------------------------------------------------------------------
(* An object of a retired generation is deleted, by whomever.               *)
LEMMA ObjectDeleted ==
  ASSUME IInv, NEW g \in Gens, gen[g].status \in Retired, NEW a,
         stored' = [stored EXCEPT ![g] = @ \ {a}],
         UNCHANGED <<file, pointer, gen, job, gc, deletion>>
  PROVE  IInv'
<1>0. stored \in [Gens -> SUBSET Artifacts] BY TypeParts DEF IInv
<1>1. \A h \in Gens : /\ h # g => stored'[h] = stored[h]
                      /\ stored'[h] \subseteq stored[h]
  BY <1>0
<1>2. TypeOK' BY <1>0, TypeParts DEF IInv
<1>3. Numbered' BY SameCount
<1>4. Jobs' BY DEF IInv, Jobs
<1>5. Collecting' BY DEF IInv, Collecting, Working
<1>6. Deleting' BY DEF IInv, Deleting
<1>7. Whole' BY <1>1 DEF IInv, Whole, Retired
<1>8. Retained' BY DEF IInv, Retained
<1>9. ActiveIsPlayable'
  <2>1. file => pointer # g BY DEF IInv, ActiveIsPlayable, Retired
  <2>2. pointer \in Gens \cup {None} BY TypeParts DEF IInv
  <2> QED BY <1>1, <2>1, <2>2 DEF IInv, ActiveIsPlayable
<1>10. OneInFlight' BY DEF IInv, OneInFlight
<1>11. Present' BY <1>1 DEF IInv, Present
<1> QED BY <1>2, <1>3, <1>4, <1>5, <1>6, <1>7, <1>8, <1>9, <1>10, <1>11 DEF IInv

(* Deliveries, the collector and the deletion delete only what is retired.  *)
LEMMA ObjectSteps ==
  ASSUME IInv,
         \/ \E w \in Workers : CleanObject(w)
         \/ GcObject
         \/ \E g \in Gens : Purge(g)
  PROVE  IInv'
<1>1. ASSUME NEW w \in Workers, CleanObject(w) PROVE IInv'
  <2>1. job[w].g \in Gens BY <1>1, WorkingHasOne, Own DEF CleanObject, At
  <2>2. gen[job[w].g].status \in Retired BY <1>1 DEF IInv, Jobs, CleanObject, At
  <2> QED BY <1>1, <2>1, <2>2, ObjectDeleted DEF CleanObject
<1>2. CASE GcObject BY <1>2, ObjectDeleted DEF GcObject, IInv, Collecting
<1>3. ASSUME NEW g \in Gens, Purge(g) PROVE IInv'
  BY <1>3, ObjectDeleted DEF Purge, IInv, Deleting
<1> QED BY <1>1, <1>2, <1>3

(* The collector takes a retired generation nobody works on, and lets go.   *)
LEMMA CollectorMoves ==
  ASSUME IInv, UNCHANGED <<file, pointer, stored, job, deletion>>,
         NEW g \in Gens, gen[g].status \in Retired, ~Working(g),
         NEW s, s = gen[g].status,
         NEW c \in {"pending", "deleted", "failed"}, OneRow(g, s, c),
         c = "deleted" => stored[g] = {},
         gc' = [pc |-> "idle", g |-> None] \/ gc' = [pc |-> "deleting", g |-> g]
  PROVE  IInv'
<1>0. s \in Retired /\ s \notin InFlight /\ s \notin {"absent", "active", "uploaded"} BY Kinds
<1>1. TypeOK' BY TypeParts DEF IInv, OneRow
<1>2. \A h \in Gens : gen'[h].status = gen[h].status /\ gen'[h].item = gen[h].item
  BY DEF OneRow
<1>3. Numbered' BY <1>2, SameCount
<1>4. Jobs'
  <2>1. \A w \in Workers : job[w].g # None => job[w].g \in Gens /\ job[w].g # g
    BY Own DEF Working
  <2>2. \A w \in Workers : job[w].g # None => gen'[job[w].g] = gen[job[w].g]
    BY <2>1 DEF OneRow
  <2>3. \A w \in Workers : job[w].pc = "deleting" => job[w].g # None
    BY DEF IInv, Jobs
  <2> QED BY <2>2, <2>3 DEF IInv, Jobs
<1>5. Collecting' BY <1>2 DEF IInv, Collecting, Working
<1>6. Deleting' BY <1>2, TypeParts DEF IInv, Deleting
<1>7. Whole' BY <1>2 DEF IInv, Whole
<1>8. Retained' BY <1>2 DEF IInv, Retained, OneRow
<1>9. ActiveIsPlayable' BY <1>2 DEF IInv, ActiveIsPlayable
<1>10. OneInFlight' BY <1>2 DEF IInv, OneInFlight
<1>11. Present' BY <1>2 DEF IInv, Present, OneRow
<1> QED BY <1>1, <1>3, <1>4, <1>5, <1>6, <1>7, <1>8, <1>9, <1>10, <1>11 DEF IInv

LEMMA CollectorSteps ==
  ASSUME IInv, (\E g \in Gens : GcClaim(g)) \/ GcDone \/ GcFails \/ GcCrash
  PROVE  IInv'
<1>0. TypeOK BY DEF IInv
<1>a. \A g \in Gens : gen[g].status \in Retired => ~Referenced(g)
  BY DEF IInv, ActiveIsPlayable, Referenced, Retired
<1>s. \A g \in Gens : gen[g].status \in Statuses BY <1>0, TypeParts, RowFields
<1>1. ASSUME NEW g \in Gens, GcClaim(g) PROVE IInv'
  <2>1. gen[g].status \in Retired /\ ~Working(g) BY <1>1 DEF GcClaim, Collectible
  <2>2. /\ gen' = [gen EXCEPT ![g].cleanup = "pending"]
        /\ gc' = [pc |-> "deleting", g |-> g]
        /\ UNCHANGED <<file, pointer, stored, job, deletion>>
    BY <1>1, <1>a, <2>1 DEF GcClaim
  <2>3. OneRow(g, gen[g].status, "pending") BY <1>0, <1>s, <2>2, OneRows DEF Cleanups
  <2> QED BY <2>1, <2>2, <2>3, CollectorMoves
<1>2. CASE GcDone \/ GcFails
  <2> DEFINE g == gc.g
  <2>1. g \in Gens /\ gen[g].status \in Retired /\ ~Working(g)
    BY <1>2 DEF GcDone, GcFails, GcEnds, IInv, Collecting
  <2>2. PICK c \in {"deleted", "failed"} : /\ gen' = [gen EXCEPT ![g].cleanup = c]
                                           /\ c = "deleted" => stored[g] = {}
    BY <1>2, <1>a, <2>1 DEF GcDone, GcFails, GcEnds, Outcome
  <2>3. gc' = [pc |-> "idle", g |-> None] /\ UNCHANGED <<file, pointer, stored, job, deletion>>
    BY <1>2 DEF GcDone, GcFails, GcEnds
  <2>4. OneRow(g, gen[g].status, c) BY <1>0, <1>s, <2>1, <2>2, OneRows DEF Cleanups
  <2> HIDE DEF g
  <2> QED BY <2>1, <2>2, <2>3, <2>4, CollectorMoves
<1>3. CASE GcCrash
  <2> USE <1>3 DEF GcCrash
  <2>1. TypeOK' BY <1>0, TypeParts
  <2>2. Numbered' BY SameCount
  <2>3. Jobs' /\ Collecting' /\ Deleting' BY DEF IInv, Jobs, Collecting, Deleting
  <2>4. Whole' /\ Retained' BY DEF IInv, Whole, Retained
  <2>5. ActiveIsPlayable' /\ OneInFlight' /\ Present'
    BY DEF IInv, ActiveIsPlayable, OneInFlight, Present
  <2> QED BY <2>1, <2>2, <2>3, <2>4, <2>5 DEF IInv
<1> QED BY <1>1, <1>2, <1>3

-----------------------------------------------------------------------------
(* The pointer is swapped; the commit may be applied and still raise.       *)
LEMMA ActivateStep ==
  ASSUME IInv, NEW w \in Workers, NEW raised \in BOOLEAN, Activate(w, raised)
  PROVE  IInv'
<1> DEFINE g == job[w].g
<1>0. TypeOK /\ g # None /\ g \in Gens
  BY WorkingHasOne, Own DEF IInv, Activate, At
<1>1. /\ file /\ file' = file /\ pointer' = g
      /\ gen[g].status = "uploaded" /\ UNCHANGED <<stored, gc, deletion>>
  BY DEF Activate, ActivationConflicts
<1>2. \A h \in Gens : gen[h].status = "active" <=> pointer = h
  BY <1>1 DEF IInv, ActiveIsPlayable
<1>3. PICK pc \in {"idle", "error"}, j \in {g, None} : OneJob(w, pc, j) /\ (pc = "idle" <=> j = None)
  <2>1. Go(w, "error") \/ Finish(w) BY DEF Activate
  <2>2. CASE Go(w, "error") BY <1>0, <2>2, OneJobs
  <2>3. CASE Finish(w) BY <1>0, <2>3, OneJobs
  <2> QED BY <2>1, <2>2, <2>3
<1>4. gen \in [Gens -> Rows] /\ job \in [Workers -> Works] BY <1>0, TypeParts
<1> DEFINE a == [gen[g] EXCEPT !.status = "active", !.cleanup = "not_eligible"]
           r(h) == Retire(h, "superseded")
<1>5. a \in Rows /\ a.status = "active" /\ a.cleanup = "not_eligible" /\ a.item = gen[g].item
  BY <1>0, <1>4 DEF Rows, Statuses, Cleanups
<1>6. \A h \in Gens : /\ r(h) \in Rows /\ r(h).status = "superseded"
                      /\ r(h).cleanup = "pending" /\ r(h).item = gen[h].item
  <2> SUFFICES ASSUME NEW h \in Gens
               PROVE  /\ r(h) \in Rows /\ r(h).status = "superseded"
                      /\ r(h).cleanup = "pending" /\ r(h).item = gen[h].item
    OBVIOUS
  <2> QED BY <1>4, Retirement DEF Statuses
<1>7. gen' = [h \in Gens |-> IF h = g THEN a ELSE IF h = pointer THEN r(h) ELSE gen[h]]
  BY DEF Activate
<1> HIDE DEF a, r
<1>8. /\ gen' \in [Gens -> Rows]
      /\ gen'[g].status = "active" /\ gen'[g].cleanup = "not_eligible"
      /\ \A h \in Gens : gen'[h].item = gen[h].item
      /\ \A h \in Gens \ {g, pointer} : gen'[h] = gen[h]
      /\ pointer \in Gens => /\ gen'[pointer].status = "superseded"
                             /\ gen'[pointer].cleanup = "pending"
      /\ pointer # g
  BY <1>0, <1>1, <1>2, <1>4, <1>5, <1>6, <1>7
<1>9. \A h \in Gens : /\ gen[h].status = "absent" <=> gen'[h].status = "absent"
                      /\ gen'[h].status \in InFlight => gen[h].status \in InFlight
                      /\ gen[h].status \in Retired => gen'[h] = gen[h]
                      /\ gen'[h].cleanup = "deleted" => gen[h].cleanup = "deleted"
  BY <1>1, <1>2, <1>8 DEF InFlight, Retired
<1> HIDE DEF g
<1>10. TypeOK' BY <1>0, <1>1, <1>3, <1>8, TypeParts DEF OneJob
<1>11. Numbered' BY <1>9, SameCount
<1>12. Jobs'
  <2>1. \A v \in Workers : job[v].g # None => job[v].g \in Gens BY Own
  <2>2. ASSUME NEW v \in Workers \ {w}
        PROVE  /\ job'[v] = job[v]
               /\ job[v].pc \in {"idle", "reserving"} <=> job[v].g = None
               /\ job[v].g # None => /\ gen'[job[v].g].status # "absent"
                                     /\ gen'[job[v].g].cleanup # "deleted"
               /\ job[v].pc = "deleting" => gen'[job[v].g].status \in Retired
    BY <1>3, <1>9, <2>1 DEF IInv, Jobs, OneJob
  <2>3. \A v, u \in Workers : v # u /\ job'[u].g # None => job'[v].g # job'[u].g
    BY <1>3, <2>2, <1>0 DEF IInv, Jobs, OneJob, g
  <2>4. /\ job'[w].pc \in {"idle", "reserving"} <=> job'[w].g = None
        /\ job'[w].g # None => /\ gen'[job'[w].g].status # "absent"
                               /\ gen'[job'[w].g].cleanup # "deleted"
        /\ job'[w].pc # "deleting"
    BY <1>3, <1>8 DEF OneJob
  <2> QED BY <2>2, <2>3, <2>4 DEF Jobs
<1>13. Collecting'
  <2>1. gc.pc = "deleting" => gc.g \in Gens /\ gen[gc.g].status \in Retired /\ ~Working(gc.g)
    BY DEF IInv, Collecting
  <2>2. gc.pc = "deleting" => \A v \in Workers : job'[v].g # gc.g
    BY <1>0, <1>3, <2>1, Kinds DEF Working, OneJob, g
  <2> QED BY <1>1, <1>9, <2>1, <2>2 DEF Collecting, Working
<1>14. Deleting' BY <1>0, <1>1, <1>9, TypeParts DEF IInv, Deleting
<1>15. Whole' BY <1>1, <1>8, <1>9, Kinds DEF IInv, Whole
<1>16. Retained' BY <1>8, <1>2 DEF IInv, Retained
<1>17. ActiveIsPlayable'
  <2>1. stored'[g] = Artifacts BY <1>0, <1>1 DEF IInv, Whole
  <2> QED BY <1>1, <1>2, <1>8, <2>1 DEF ActiveIsPlayable
<1>18. OneInFlight' BY <1>8, <1>9 DEF IInv, OneInFlight
<1>19. Present' BY <1>1, <1>9 DEF IInv, Present
<1> QED
  BY <1>10, <1>11, <1>12, <1>13, <1>14, <1>15, <1>16, <1>17, <1>18, <1>19 DEF IInv

(* The deletion reads, retires what it has read, and ends.                  *)
LEMMA DeletionSteps ==
  ASSUME IInv, DeleteReads \/ DeleteCommits \/ DeleteAborts \/ PurgeEnds
  PROVE  IInv'
<1>0. TypeOK BY DEF IInv
<1>1. CASE DeleteReads \/ DeleteAborts \/ PurgeEnds
  <2>1. UNCHANGED <<file, pointer, gen, stored, job, gc>>
    BY <1>1 DEF DeleteReads, DeleteAborts, PurgeEnds
  <2>2. TypeOK'
    <3>1. CASE DeleteReads BY <1>0, <3>1, <2>1, TypeParts DEF DeleteReads, Generations
    <3>2. CASE DeleteAborts BY <1>0, <3>2, <2>1, TypeParts DEF DeleteAborts
    <3>3. CASE PurgeEnds BY <1>0, <3>3, <2>1, TypeParts DEF PurgeEnds
    <3> QED BY <1>1, <3>1, <3>2, <3>3
  <2>3. Numbered' BY <2>1, SameCount
  <2>4. Jobs' /\ Collecting' BY <2>1 DEF IInv, Jobs, Collecting, Working
  <2>5. Deleting'
    BY <1>0, <1>1, <2>1, TypeParts DEF IInv, Deleting, DeleteReads, DeleteAborts, PurgeEnds,
       Generations
  <2>6. Whole' /\ Retained' BY <2>1 DEF IInv, Whole, Retained
  <2>7. ActiveIsPlayable' /\ OneInFlight' /\ Present'
    BY <2>1 DEF IInv, ActiveIsPlayable, OneInFlight, Present
  <2> QED BY <2>2, <2>3, <2>4, <2>5, <2>6, <2>7 DEF IInv
<1>2. CASE DeleteCommits
  <2>1. /\ file' = FALSE /\ UNCHANGED <<pointer, stored, job, gc>>
        /\ deletion' = [deletion EXCEPT !.pc = "purging"]
    BY <1>2 DEF DeleteCommits
  <2> DEFINE r(g) == Retire(g, IF g = deletion.active THEN "superseded" ELSE "stale")
  <2>2. \A g \in Gens : /\ r(g) \in Rows /\ r(g).status \in {"superseded", "stale"}
                        /\ r(g).cleanup = "pending" /\ r(g).item = gen[g].item
    <3> SUFFICES ASSUME NEW g \in Gens
                 PROVE  /\ r(g) \in Rows /\ r(g).status \in {"superseded", "stale"}
                        /\ r(g).cleanup = "pending" /\ r(g).item = gen[g].item
      OBVIOUS
    <3> QED BY <1>0, TypeParts, Retirement DEF Statuses
  <2>3. gen' = [g \in Gens |-> IF g \in deletion.gens THEN r(g) ELSE gen[g]]
    BY <1>2 DEF DeleteCommits
  <2>4. deletion.gens \subseteq Gens /\ deletion'.gens = deletion.gens /\ deletion'.pc = "purging"
    BY <1>0, <2>1, TypeParts
  <2> HIDE DEF r
  <2>5. /\ gen' \in [Gens -> Rows]
        /\ \A g \in Gens : /\ gen'[g].item = gen[g].item
                           /\ \/ gen'[g] = gen[g]
                              \/ gen'[g].status \in Retired /\ gen'[g].cleanup = "pending"
                           /\ g \in deletion.gens => gen'[g].status \in Retired
    <3>0. gen \in [Gens -> Rows] BY <1>0, TypeParts
    <3>1. \A g \in Gens : gen'[g] = IF g \in deletion.gens THEN r(g) ELSE gen[g] BY <2>3
    <3>2. \A g \in Gens : gen'[g] \in Rows BY <2>2, <3>0, <3>1
    <3>3. gen' \in [Gens -> Rows] BY <2>3, <3>2
    <3>4. {"superseded", "stale"} \subseteq Retired BY DEF Retired
    <3> QED BY <2>2, <3>1, <3>3, <3>4
  <2>6. \A g \in Gens : /\ gen[g].status = "absent" <=> gen'[g].status = "absent"
                        /\ gen'[g].status \in InFlight => gen'[g] = gen[g]
                        /\ gen[g].status \in Retired => gen'[g].status \in Retired
                        /\ gen'[g].cleanup = "deleted" => gen[g].cleanup = "deleted"
    BY <2>4, <2>5, <2>3 DEF IInv, Deleting, InFlight, Retired
  <2>7. TypeOK'
    <3>1. deletion' \in [pc : {"none", "locked", "purging", "done"}, gens : SUBSET Gens,
                         active : Gens \cup {None}]
      BY <1>0, <2>1, TypeParts
    <3> QED BY <1>0, <2>1, <2>5, <3>1, TypeParts
  <2>8. Numbered' BY <2>6, SameCount
  <2>9. Jobs'
    <3>1. \A w \in Workers : job[w].g # None => job[w].g \in Gens BY Own
    <3>2. \A w \in Workers : job[w].pc = "deleting" => job[w].g # None BY DEF IInv, Jobs
    <3> QED BY <2>1, <2>6, <3>1, <3>2 DEF IInv, Jobs
  <2>10. Collecting' BY <2>1, <2>6 DEF IInv, Collecting, Working
  <2>11. Deleting' BY <2>1, <2>4, <2>5 DEF Deleting, Retired
  <2>12. Whole' BY <2>1, <2>6 DEF IInv, Whole, InFlight
  <2>13. Retained' BY <2>5 DEF IInv, Retained
  <2>14. ActiveIsPlayable' BY <2>1 DEF ActiveIsPlayable
  <2>15. OneInFlight' BY <2>5, <2>6 DEF IInv, OneInFlight
  <2>16. Present' BY <2>1, <2>6 DEF IInv, Present
  <2> QED BY <2>7, <2>8, <2>9, <2>10, <2>11, <2>12, <2>13, <2>14, <2>15, <2>16 DEF IInv
<1> QED BY <1>1, <1>2

-----------------------------------------------------------------------------
(* A generation is reserved: its number is fresh, and the newest of its     *)
(* item is all there is to retire.                                          *)
LEMMA Fresh ==
  ASSUME IInv
  PROVE  LET n == NextGeneration
         IN n \in Nat \ {0} /\ (n \in Gens => gen[n].status = "absent")
BY DEF IInv, Numbered, Generations

LEMMA ReservedNumber ==
  ASSUME IInv, NEW n, n = NextGeneration, n \in Gens,
         \A g \in Gens : gen'[g].status = "absent" <=> gen[g].status = "absent" /\ g # n
  PROVE  Numbered'
<1>1. n \in Nat \ {0} /\ Generations = 1 .. (n - 1) BY DEF IInv, Numbered
<1>2. Generations' = Generations \cup {n} BY DEF Generations
<1>3. Generations' = 1 .. n BY <1>1, <1>2
<1>4. Cardinality(1 .. n) = n BY <1>1, FS_Interval
<1>5. NextGeneration' = n + 1 BY <1>3, <1>4 DEF NextGeneration
<1> QED BY <1>1, <1>3, <1>5 DEF Numbered

LEMMA ReserveStep ==
  ASSUME IInv, NEW w \in Workers, Reserve(w)
  PROVE  IInv'
<1> DEFINE n == NextGeneration
           i == job[w].item
           new == [status |-> "generating", cleanup |-> "not_eligible",
                   expected |-> pointer, item |-> i]
           old(g) == Retire(g, "stale")
<1>0. TypeOK BY DEF IInv
<1>1. /\ n \in Gens /\ file /\ job[w].pc = "reserving"
      /\ UNCHANGED <<file, pointer, stored, gc, deletion>>
      /\ job' = [job EXCEPT ![w] = [Idle EXCEPT !.pc = "encoding", !.g = n]]
  BY DEF Reserve, ReserveConflicts, At
<1>2. n \in Nat \ {0} /\ gen[n].status = "absent" BY <1>1, Fresh
<1>3. gen \in [Gens -> Rows] /\ job \in [Workers -> Works] BY <1>0, TypeParts
<1>4. new \in Rows /\ new.status = "generating" /\ new.cleanup = "not_eligible" /\ new.item = i
  BY <1>0, <1>3, TypeParts DEF Rows, Works, Statuses, Cleanups
<1>5. \A g \in Gens : /\ old(g) \in Rows /\ old(g).status = "stale"
                      /\ old(g).cleanup = "pending" /\ old(g).item = gen[g].item
  <2> SUFFICES ASSUME NEW g \in Gens
               PROVE  /\ old(g) \in Rows /\ old(g).status = "stale"
                      /\ old(g).cleanup = "pending" /\ old(g).item = gen[g].item
    OBVIOUS
  <2> QED BY <1>3, Retirement DEF Statuses
<1>6. gen' = [g \in Gens |-> IF g = n THEN new
                             ELSE IF g \in Latest(i) /\ gen[g].status \in InFlight
                                  THEN old(g) ELSE gen[g]]
  BY DEF Reserve
<1>7. OneJob(w, "encoding", n) BY <1>1, <1>3, NoItemAssumption DEF OneJob, Works, Idle
<1> HIDE DEF n, i, new, old
<1>8. /\ gen' \in [Gens -> Rows]
      /\ gen'[n].status = "generating" /\ gen'[n].cleanup = "not_eligible" /\ gen'[n].item = i
      /\ \A g \in Gens \ {n} :
           /\ gen'[g].item = gen[g].item
           /\ \/ gen'[g] = gen[g] /\ ~(g \in Latest(i) /\ gen[g].status \in InFlight)
              \/ /\ gen[g].status \in InFlight
                 /\ gen'[g].status = "stale" /\ gen'[g].cleanup = "pending"
  BY <1>1, <1>3, <1>4, <1>5, <1>6
<1>9. \A g \in Gens \ {n} : /\ gen[g].status = "absent" <=> gen'[g].status = "absent"
                            /\ gen'[g].status \in InFlight \cup {"active"} => gen'[g] = gen[g]
                            /\ gen[g].status \in Retired \cup {"active"} => gen'[g] = gen[g]
                            /\ gen'[g].cleanup = "deleted" => gen[g].cleanup = "deleted"
  BY <1>8 DEF InFlight, Retired
<1>10. TypeOK' BY <1>0, <1>1, <1>7, <1>8, TypeParts DEF OneJob
<1>11. Numbered' BY <1>1, <1>2, <1>8, <1>9, ReservedNumber DEF n
<1>12. Jobs'
  <2>1. \A v \in Workers : job[v].g # None => job[v].g \in Gens \ {n} BY <1>2, Own
  <2>2. ASSUME NEW v \in Workers \ {w}
        PROVE  /\ job'[v] = job[v]
               /\ job[v].pc \in {"idle", "reserving"} <=> job[v].g = None
               /\ job[v].g # None => /\ gen'[job[v].g].status # "absent"
                                     /\ gen'[job[v].g].cleanup # "deleted"
               /\ job[v].pc = "deleting" => gen'[job[v].g].status \in Retired
    BY <1>7, <1>9, <2>1 DEF IInv, Jobs, OneJob
  <2>3. job'[w].g = n /\ n # None BY <1>1, <1>7, Kinds DEF OneJob
  <2>4. \A v, u \in Workers : v # u /\ job'[u].g # None => job'[v].g # job'[u].g
    <3>1. \A v \in Workers \ {w} : job'[v].g # n BY <2>1, <2>2, <2>3
    <3>2. \A v, u \in Workers \ {w} : v # u /\ job'[u].g # None => job'[v].g # job'[u].g
      BY <2>2 DEF IInv, Jobs
    <3> QED BY <2>3, <3>1, <3>2
  <2>5. job'[w].pc = "encoding" BY <1>7 DEF OneJob
  <2> QED BY <1>8, <2>2, <2>3, <2>4, <2>5 DEF Jobs
<1>13. Collecting'
  <2>1. gc.pc = "deleting" => gc.g \in Gens \ {n} /\ gen[gc.g].status \in Retired /\ ~Working(gc.g)
    BY <1>2 DEF IInv, Collecting, Retired
  <2>2. gc.pc = "deleting" => \A v \in Workers : job'[v].g # gc.g
    BY <1>7, <2>1 DEF Working, OneJob
  <2> QED BY <1>1, <1>9, <2>1, <2>2 DEF Collecting, Working
<1>14. Deleting' BY <1>0, <1>1, <1>8, <1>9, TypeParts DEF IInv, Deleting
<1>15. Whole' BY <1>1, <1>8, <1>9, Kinds DEF IInv, Whole
<1>16. Retained' BY <1>8 DEF IInv, Retained
<1>17. ActiveIsPlayable' BY <1>1, <1>2, <1>8, <1>9 DEF IInv, ActiveIsPlayable
<1>18. OneInFlight'
  <2>1. \A h \in Gens : gen'[h].status # "absent" => h <= n
    BY <1>11, <1>1, <1>2, <1>8, <1>9 DEF IInv, Numbered, Generations, Gens, n
  <2>2. ASSUME NEW g \in Gens \ {n}, gen'[g].status \in InFlight PROVE gen[g].item # i
    <3> SUFFICES ASSUME gen[g].item = i PROVE FALSE OBVIOUS
    <3>1. gen'[g] = gen[g] /\ gen[g].status \in InFlight /\ g \notin Latest(i)
      BY <1>8, <2>2 DEF InFlight
    <3>2. \A h \in Generations : gen[h].item = i => h <= g
      BY <3>1 DEF IInv, OneInFlight, Generations
    <3> QED BY <3>1, <3>2 DEF Latest, Generations, InFlight
  <2>3. ASSUME NEW g \in Gens, NEW h \in Gens, gen'[g].item = gen'[h].item,
               gen'[g].status \in InFlight, gen'[h].status # "absent"
        PROVE  h <= g
    <3>1. CASE g = n BY <2>1, <2>3, <3>1
    <3>2. CASE g # n
      <4>1. h # n BY <1>8, <2>2, <2>3, <3>2
      <4> QED BY <1>8, <1>9, <2>3, <3>2, <4>1 DEF IInv, OneInFlight
    <3> QED BY <3>1, <3>2
  <2> QED BY <2>3 DEF OneInFlight
<1>19. Present' BY <1>1, <1>8, <1>9 DEF IInv, Present
<1> QED
  BY <1>10, <1>11, <1>12, <1>13, <1>14, <1>15, <1>16, <1>17, <1>18, <1>19 DEF IInv

-----------------------------------------------------------------------------
(* What lies in the bucket, and that only the newest of an item is still in *)
(* flight: so every stored object has somebody who will find it.            *)
LEMMA Findable == ASSUME IInv PROVE NothingLeaks
<1> SUFFICES ASSUME NEW g \in Gens, stored[g] # {}
             PROVE  \/ Collectible(g)
                    \/ file /\ (pointer = g \/ gen[g].status \in InFlight)
                    \/ ~file /\ g \notin deletion.gens
  BY DEF IInv, NothingLeaks, Present
<1>1. gen[g].status \in Statuses \ {"absent"} /\ gen[g].cleanup # "deleted"
  BY TypeParts, RowFields DEF IInv, Present
<1>2. CASE gen[g].status \in Retired
  BY <1>1, <1>2 DEF IInv, Retained, Collectible, Retired
<1>3. CASE gen[g].status = "active"
  BY <1>3 DEF IInv, ActiveIsPlayable, Deleting, Retired
<1>4. CASE gen[g].status \in InFlight
  BY <1>4, Kinds DEF IInv, Deleting
<1> QED BY <1>1, <1>2, <1>3, <1>4, Kinds

LEMMA NextIInv == IInv /\ [Next]_vars => IInv'
<1> SUFFICES ASSUME IInv, [Next]_vars PROVE IInv' OBVIOUS
<1>1. ASSUME NEW w \in Workers, NEW i \in Items \cup {NoItem}, Start(w, i) PROVE IInv'
  BY <1>1, QuietSteps
<1>2. ASSUME NEW w \in Workers, Delivery(w) PROVE IInv'
  <2>1. CASE ReserveFails(w) \/ (\E a \in Artifacts : Upload(w, a)) \/ ActivateFenced(w) \/ Raises(w)
    BY <2>1, QuietSteps
  <2>2. CASE Reserve(w) BY <2>2, ReserveStep
  <2>3. CASE RecordVerified(w) \/ RecordUploaded(w) BY <2>3, RecordSteps
  <2>4. CASE \E b \in BOOLEAN : Activate(w, b) BY <2>4, ActivateStep
  <2>5. CASE ActivateTooLate(w) \/ Fence(w) \/ Cleaned(w) \/ CleanFails(w) BY <2>5, FenceSteps
  <2>6. CASE CleanObject(w) BY <2>6, ObjectSteps
  <2>7. CASE Crash(w) BY <2>7, CrashStep
  <2> QED BY <1>2, <2>1, <2>2, <2>3, <2>4, <2>5, <2>6, <2>7 DEF Delivery
<1>3. CASE Collector BY <1>3, CollectorSteps, ObjectSteps DEF Collector
<1>4. CASE Deletion BY <1>4, DeletionSteps, ObjectSteps DEF Deletion
<1>5. CASE UNCHANGED vars
  <2> USE <1>5 DEF vars
  <2>1. TypeOK' BY TypeParts DEF IInv
  <2>2. Numbered' BY SameCount
  <2>3. Jobs' /\ Collecting' /\ Deleting' BY DEF IInv, Jobs, Collecting, Deleting, Working
  <2>4. Whole' /\ Retained' BY DEF IInv, Whole, Retained
  <2>5. ActiveIsPlayable' /\ OneInFlight' /\ Present'
    BY DEF IInv, ActiveIsPlayable, OneInFlight, Present
  <2> QED BY <2>1, <2>2, <2>3, <2>4, <2>5 DEF IInv
<1> QED BY <1>1, <1>2, <1>3, <1>4, <1>5 DEF Next

(* A step that names retired rows leaves them retired: the one status a     *)
(* row is updated to without a look at the old one is a retirement.         *)
LEMMA StaysRetired ==
  ASSUME IInv, [Next]_vars, NEW g \in Gens, gen[g].status \in Retired
  PROVE  gen'[g].status \in Retired
<1>0. TypeOK /\ gen \in [Gens -> Rows] BY TypeParts DEF IInv
<1>s. \A h \in Gens : gen[h].status \in Statuses BY <1>0, RowFields
<1>1. ASSUME NEW h \in Gens, NEW s \in Statuses, NEW c \in Cleanups, OneRow(h, s, c),
             s \in Retired \/ gen[h].status \notin Retired
      PROVE  gen'[g].status \in Retired
  BY <1>1 DEF OneRow
<1>2. ASSUME NEW h \in Gens, NEW c \in Cleanups, gen' = [gen EXCEPT ![h].cleanup = c]
      PROVE  gen'[g].status \in Retired
  <2>1. OneRow(h, gen[h].status, c) BY <1>0, <1>s, <1>2, OneRows
  <2> QED BY <2>1 DEF OneRow
<1>3. ASSUME NEW w \in Workers, Delivery(w) PROVE gen'[g].status \in Retired
  <2> DEFINE own == job[w].g
  <2>0. job[w].pc \notin {"idle", "reserving"} => own \in Gens BY WorkingHasOne, Own
  <2>1. CASE UNCHANGED gen BY <2>1
  <2>2. CASE Reserve(w)
    <3>1. NextGeneration \in Gens /\ gen[NextGeneration].status = "absent"
      BY <2>2, Fresh DEF Reserve
    <3>2. g # NextGeneration BY <3>1 DEF Retired
    <3>3. gen[g].status \notin InFlight BY Kinds
    <3> QED BY <2>2, <3>2, <3>3 DEF Reserve
  <2>3. CASE RecordVerified(w) \/ RecordUploaded(w)
    <3>1. own \in Gens BY <2>0, <2>3 DEF RecordVerified, RecordUploaded, At
    <3>2. \/ UNCHANGED gen
          \/ \E s \in {"verified", "uploaded"} :
               gen[own].status \in {"generating", "verified"} /\ gen' = [gen EXCEPT ![own].status = s]
      BY <2>3 DEF RecordVerified, RecordUploaded, Record
    <3> QED BY <1>0, <3>1, <3>2 DEF Retired
  <2>4. ASSUME NEW b \in BOOLEAN, Activate(w, b) PROVE gen'[g].status \in Retired
    <3>1. own \in Gens /\ gen[own].status = "uploaded"
      BY <2>0, <2>4 DEF Activate, At, ActivationConflicts
    <3>2. g # own BY <3>1 DEF Retired
    <3>3. gen'[g] = gen[g] \/ gen'[g] = Retire(g, "superseded")
      BY <2>4, <3>2 DEF Activate
    <3>4. Retire(g, "superseded").status = "superseded"
      BY <1>0, Retirement DEF Statuses
    <3> QED BY <3>3, <3>4 DEF Retired
  <2>5. CASE ActivateTooLate(w) \/ Fence(w)
    <3>1. own \in Gens BY <2>0, <2>5 DEF ActivateTooLate, Fence, At
    <3>2. \/ \E s \in {"stale", "failed"} : gen' = [gen EXCEPT ![own] = Retire(own, s)]
          \/ gen' = [gen EXCEPT ![own].cleanup = "retained_referenced"]
      BY <2>5 DEF ActivateTooLate, Fence
    <3>3. ASSUME NEW s \in {"stale", "failed"}, gen' = [gen EXCEPT ![own] = Retire(own, s)]
          PROVE  gen'[g].status \in Retired
      <4>1. s \in Statuses /\ s \in Retired /\ "pending" \in Cleanups
        BY <3>3 DEF Statuses, Retired, Cleanups
      <4>2. OneRow(own, s, "pending") BY <1>0, <3>1, <3>3, <4>1, OneRows
      <4> QED BY <1>1, <3>1, <4>1, <4>2
    <3>4. CASE gen' = [gen EXCEPT ![own].cleanup = "retained_referenced"]
      BY <1>2, <3>1, <3>4 DEF Cleanups
    <3> QED BY <3>2, <3>3, <3>4
  <2>6. CASE Cleaned(w) \/ CleanFails(w)
    <3>1. own \in Gens BY <2>0, <2>6 DEF Cleaned, CleanFails, At
    <3> QED BY <1>2, <2>6, <3>1 DEF Cleaned, CleanFails, Outcome, Cleanups
  <2> QED
    BY <1>3, <2>1, <2>2, <2>3, <2>4, <2>5, <2>6
    DEF Delivery, ReserveFails, Upload, ActivateFenced, Raises, CleanObject, Crash
<1>4. CASE Collector
  <2>1. CASE UNCHANGED gen BY <2>1
  <2>2. ASSUME NEW h \in Gens, GcClaim(h) PROVE gen'[g].status \in Retired
    BY <1>2, <2>2 DEF GcClaim, Cleanups
  <2>3. CASE GcDone \/ GcFails
    <3>1. gc.g \in Gens BY <2>3 DEF GcDone, GcFails, GcEnds, IInv, Collecting
    <3> QED BY <1>2, <2>3, <3>1 DEF GcDone, GcFails, GcEnds, Outcome, Cleanups
  <2> QED BY <1>4, <2>1, <2>2, <2>3 DEF Collector, GcObject, GcCrash
<1>5. CASE Deletion
  <2>1. CASE UNCHANGED gen BY <2>1
  <2>2. CASE DeleteCommits
    <3>1. gen'[g] = gen[g] \/ \E s \in {"superseded", "stale"} : gen'[g] = Retire(g, s)
      BY <2>2 DEF DeleteCommits
    <3>2. \A s \in {"superseded", "stale"} : Retire(g, s).status = s
      BY <1>0, Retirement DEF Statuses
    <3> QED BY <3>1, <3>2 DEF Retired
  <2> QED BY <1>5, <2>1, <2>2 DEF Deletion, DeleteReads, DeleteAborts, PurgeEnds, Purge
<1>6. CASE UNCHANGED gen BY <1>6
<1> QED BY <1>3, <1>4, <1>5, <1>6 DEF Next, Start, vars

-----------------------------------------------------------------------------
(* The inductive invariant holds throughout.                                *)
THEOREM Invariant == Spec => []IInv
BY InitIInv, NextIInv, PTL DEF Spec

(* The state keeps its type.                                                *)
THEOREM TypeCorrect == Spec => []TypeOK
<1>1. IInv => TypeOK BY DEF IInv
<1> QED BY <1>1, Invariant, PTL

(* The file's pointer never points at a generation that misses an object,   *)
(* whatever activate, the cleanup of a failed attempt, the collector and a  *)
(* deletion do in whatever order.                                           *)
THEOREM PointerIsPlayable == Spec => []ActiveIsPlayable
<1>1. IInv => ActiveIsPlayable BY DEF IInv
<1> QED BY <1>1, Invariant, PTL

(* Every stored object has somebody who will find it, and DELETED in the    *)
(* ledger means that nothing is left, crash where it may.                   *)
THEOREM NoObjectIsForgotten == Spec => []NothingLeaks
<1>1. IInv => NothingLeaks BY Findable
<1> QED BY <1>1, Invariant, PTL

(* A retired generation never comes back.                                   *)
THEOREM RetirementIsForGood == Spec => RetiredForGood
<1> DEFINE A == \A g \in Gens : gen[g].status \in Retired => gen'[g].status \in Retired
<1>1. IInv /\ [Next]_vars => A BY StaysRetired
<1> HIDE DEF A
<1>2. Spec => [][A]_vars BY <1>1, Invariant, PTL DEF Spec
<1> QED BY <1>2 DEF RetiredForGood, A
=============================================================================
