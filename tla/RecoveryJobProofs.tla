------------------------- MODULE RecoveryJobProofs -------------------------
(***************************************************************************)
(* Proofs about RecoveryJob.tla, for every set of jobs, items and works,   *)
(* every plan, retry limit and bound: the type invariant, the reservations *)
(* (OneOwner), the reports (ReportIsTrue) and the outcomes (OutcomeStands).*)
(*                                                                         *)
(* An action is first reduced to what it does to the part of the state the *)
(* invariants speak of: what becomes of each item and each job (Moves),    *)
(* then what becomes of each row and each copy of an event.  The           *)
(* invariants are proved from those moves.                                 *)
(***************************************************************************)
EXTENDS RecoveryJob, TLAPS

(* The jobs that were scheduled and not merely planned.                     *)
Begun == Live \cup (Settled \ {"expired"})

(* An item is where its job says: nowhere before it is planned, waiting     *)
(* until it is scheduled, ended once the job settled.                       *)
Fits(i) ==
  /\ item[i].status = "none" <=> job[JobOf[i]] \in {"never", "none"}
  /\ job[JobOf[i]] \in {"preview", "expired"} => item[i].status \in Waiting
  /\ job[JobOf[i]] \in Settled \ {"expired"} => item[i].status \in Terminal

(* Where a dispatch raised or a replay is under way.                        *)
InTurn(i) ==
  /\ raised[i] # "no" \/ call[i] # "no" => job[JobOf[i]] \in Begun
  /\ raised[i] # "no" /\ ~IsPost(i) => item[i].status # "dispatched"
  /\ call[i] # "no" => IsPost(i)
  /\ call[i] = "accepted" => <<WorkOf[i], 0>> \in done

(* What a row says was done was done.                                       *)
RowIsTrue(w, r) ==
  /\ r.status = "succeeded" /\ r.event # 0 => <<w, r.event>> \in done
  /\ r.status = "accepted" => <<w, 0>> \in done

(* A stage's item has an event, and the row as it was, from its dispatch.   *)
Numbered(i) ==
  /\ IsPost(i) => item[i].event = 0
  /\ ~IsPost(i) /\ item[i].status \in Waiting \cup {"none"} => item[i].event = 0
  /\ ~IsPost(i) /\ item[i].status = "dispatched" =>
       /\ item[i].event \in 1 .. minted[WorkOf[i]]
       /\ item[i].snap \in RowType
       /\ item[i].snap.status \in {"failed", "succeeded"}
       /\ RowIsTrue(WorkOf[i], item[i].snap)

(* Of a succeeded item, of an item with an event, of a resolved letter.     *)
Earned(i) ==
  /\ item[i].status = "succeeded" => WorkDone(i)
  /\ item[i].event # 0 /\ ParentOf[i] # NoItem => item[ParentOf[i]].status = "succeeded"
Redeemed(w, e) ==
  letter[w][e].status = "resolved" =>
    letter[w][e].owner \in Items /\ item[letter[w][e].owner].status = "succeeded"

(* An event that was handled has no copy left; one that was not minted has  *)
(* none yet.                                                                *)
Copied(w, e) ==
  /\ <<w, e>> \in done => e <= minted[w] /\ msg[w][e].place = "gone"
  /\ e > minted[w] => msg[w][e].outbox = "none" /\ msg[w][e].place = "none"

(* A row that is being processed is so by a delivery of its event that was  *)
(* current when it began.                                                   *)
Held(w) ==
  row[w].status = "processing" =>
    /\ row[w].event \in 1 .. minted[w]
    /\ msg[w][row[w].event].attempt <= row[w].count
    /\ msg[w][row[w].event].place \notin {"retry", "failing", "refused"}

(* While an item's event is the row's, its work is done if the row says so. *)
Shown(i) ==
  ~IsPost(i) /\ item[i].status = "dispatched" /\ row[WorkOf[i]].event = item[i].event /\ WorkDone(i)
    => row[WorkOf[i]].status = "succeeded"

(* Nobody else had an event for i's stage: then the row keeps i's event and *)
(* no other copy is, or will become, current.                               *)
Alone(i) ==
  WorkOf[i] \notin Operated /\ \A k \in OnWork(WorkOf[i]) \ {i} : item[k].event = 0
Unrivalled(i) ==
  ~IsPost(i) /\ Alone(i) =>
    /\ item[i].event = 0 => minted[WorkOf[i]] = 0
    /\ item[i].status = "dispatched" =>
         /\ row[WorkOf[i]].event = item[i].event
         /\ \A f \in 1 .. minted[WorkOf[i]] : f # item[i].event =>
              /\ msg[WorkOf[i]][f].attempt < row[WorkOf[i]].count
              /\ msg[WorkOf[i]][f].place \notin {"retry", "failing", "refused"}

(* A settled job's status is what became of its items.                      *)
Reported(j) ==
  /\ job[j] = "completed" => \A i \in ItemsOf(j) : item[i].status \in {"succeeded", "cancelled"}
  /\ job[j] = "completed_with_failures" =>
       \E i \in ItemsOf(j) : item[i].status \notin {"succeeded", "cancelled"}

Shape ==
  /\ msg = [w \in Works |-> msg[w]]
  /\ letter = [w \in Works |-> letter[w]]

Plans == \A i \in Items : Fits(i) /\ InTurn(i) /\ Numbered(i) /\ Earned(i)
Truth == \A w \in Works : RowIsTrue(w, row[w]) /\ Held(w)
                          /\ \A e \in Events(w) : Copied(w, e)
Letters_ == \A w \in Works : \A e \in Letters(w) : Redeemed(w, e)
Outcomes == \A i \in Items : Shown(i) /\ Unrivalled(i)
Reports == \A j \in Jobs : Reported(j)

IInv ==
  TypeOK /\ Shape /\ OneOwner /\ Plans /\ Truth /\ Letters_ /\ Outcomes /\ Reports

-----------------------------------------------------------------------------
(* The records, and what the helpers do to the fields that matter.          *)
ItemType ==
  [status : {"none"} \cup Active \cup Terminal, reserved : BOOLEAN, event : Nat,
   start : Nat, consumed : Nat, pub : Nat, fresh : BOOLEAN, seen : BOOLEAN,
   links : SUBSET Nat, snap : RowType \cup {NoRow}]
JobType == {"never", "none", "preview"} \cup Live \cup Settled
MsgType == [outbox : {"none", "pending", "published", "failed"}, fails : Nat,
            place : Places, attempt : Nat]
LetterType == [status : {"none", "unresolved", "recovery_queued", "resolved"},
               owner : Items \cup {NoItem}]

(* What the invariants know of an item.                                     *)
SameCore(r, s) ==
  r.status = s.status /\ r.reserved = s.reserved /\ r.event = s.event /\ r.snap = s.snap

(* _finish_item.                                                            *)
LEMMA FinishedCore ==
  ASSUME NEW r \in ItemType, NEW s \in Terminal
  PROVE  /\ Finished(r, s) \in ItemType
         /\ Finished(r, s).status = s /\ Finished(r, s).reserved = FALSE
         /\ Finished(r, s).event = r.event
  BY DEF Finished, ItemType

(* A write to a row, or to letters, leaves what matters of an item alone.   *)
LEMMA RowWrittenCore ==
  ASSUME NEW f \in [Items -> ItemType], NEW w
  PROVE  /\ RowWritten(f, w) \in [Items -> ItemType]
         /\ \A k \in Items : SameCore(RowWritten(f, w)[k], f[k])
<1>1. ASSUME NEW r \in ItemType
      PROVE  /\ [r EXCEPT !.fresh = FALSE, !.seen = FALSE] \in ItemType
             /\ SameCore([r EXCEPT !.fresh = FALSE, !.seen = FALSE], r)
  BY DEF ItemType, SameCore
<1>2. ASSUME NEW k \in Items
      PROVE  RowWritten(f, w)[k] \in ItemType /\ SameCore(RowWritten(f, w)[k], f[k])
  <2>1. f[k] \in ItemType /\ SameCore(f[k], f[k])
    BY DEF SameCore
  <2> QED BY <1>1, <2>1 DEF RowWritten
<1> QED BY <1>2 DEF RowWritten

LEMMA LettersWrittenCore ==
  ASSUME NEW f \in [Items -> ItemType], NEW w, NEW E
  PROVE  /\ LettersWritten(f, w, E) \in [Items -> ItemType]
         /\ \A k \in Items : SameCore(LettersWritten(f, w, E)[k], f[k])
<1>1. ASSUME NEW r \in ItemType, NEW b \in BOOLEAN
      PROVE  [r EXCEPT !.fresh = b] \in ItemType /\ SameCore([r EXCEPT !.fresh = b], r)
  BY DEF ItemType, SameCore
<1>2. ASSUME NEW k \in Items
      PROVE  /\ LettersWritten(f, w, E)[k] \in ItemType
             /\ SameCore(LettersWritten(f, w, E)[k], f[k])
  <2>1. f[k] \in ItemType /\ SameCore(f[k], f[k])
    BY DEF SameCore
  <2>2. PICK b \in BOOLEAN : b = (f[k].fresh /\ f[k].links \cap E = {})
    OBVIOUS
  <2>3. LettersWritten(f, w, E)[k] \in {f[k], [f[k] EXCEPT !.fresh = b]}
    BY <2>2 DEF LettersWritten
  <2> QED BY <1>1, <2>1, <2>3
<1> QED BY <1>2 DEF LettersWritten

(* The types of every variable, as functions where updates need it.         *)
Messages(m) == m = [w \in Works |-> m[w]] /\ \A w \in Works : m[w] \in [Events(w) -> MsgType]
Book(l) == l = [w \in Works |-> l[w]] /\ \A w \in Works : l[w] \in [Letters(w) -> LetterType]
MintedOK(n) == n \in [Works -> Nat] /\ \A w \in Works : n[w] <= MaxEvents[w]
RaisedType == {"no", "retryable", "terminal"}
CallType == {"no", "fetching", "observed", "accepted"}

JobsOK == job \in [Jobs -> JobType] /\ admitted \subseteq Jobs
ItemsOK == item \in [Items -> ItemType]
RowsOK == row \in [Works -> RowType]
TurnsOK == raised \in [Items -> RaisedType] /\ call \in [Items -> CallType]
Types ==
  /\ JobsOK /\ ItemsOK /\ RowsOK /\ TurnsOK
  /\ Messages(msg) /\ Book(letter) /\ MintedOK(minted)
  /\ crashes \in 0 .. MaxCrashes

LEMMA TypesAre == TypeOK /\ Shape <=> Types
  BY DEF TypeOK, Shape, Types, JobsOK, ItemsOK, RowsOK, TurnsOK, Messages, Book, MintedOK,
         ItemType, JobType, MsgType, LetterType, RaisedType, CallType

LEMMA Plan_ ==
  /\ \A i \in Items : JobOf[i] \in Jobs /\ WorkOf[i] \in Works /\ ParentOf[i] \in Items \cup {NoItem}
  /\ NoItem \notin Items /\ Posts \subseteq Works
  /\ \A i, k \in Items : JobOf[i] = JobOf[k] /\ WorkOf[i] = WorkOf[k] => i = k
  BY PlanAssumption, NoItemAssumption

(* One copy is written, all the others are left; likewise for letters.      *)
MessageSetTo(m, n, w, e, r) == n = [m EXCEPT ![w][e] = r]
LettersSetTo(l, n, w, c) == n = [l EXCEPT ![w] = c]

LEMMA MessageSet ==
  ASSUME NEW m, Messages(m), NEW w \in Works, NEW e \in Events(w), NEW r \in MsgType,
         NEW n, MessageSetTo(m, n, w, e, r)
  PROVE  /\ Messages(n) /\ n[w][e] = r
         /\ \A v \in Works : \A f \in Events(v) : v # w \/ f # e => n[v][f] = m[v][f]
<1>1. m = [v \in Works |-> m[v]] /\ m[w] \in [Events(w) -> MsgType]
  BY DEF Messages
<1>2. PICK c : c = [m[w] EXCEPT ![e] = r]
  OBVIOUS
<1>3. c \in [Events(w) -> MsgType] /\ c[e] = r /\ \A f \in Events(w) : f # e => c[f] = m[w][f]
  BY <1>1, <1>2
<1>4. n = [m EXCEPT ![w] = c]
  BY <1>2 DEF MessageSetTo
<1>5. n = [v \in Works |-> IF v = w THEN c ELSE m[v]]
  BY <1>1, <1>4
<1> QED BY <1>3, <1>5 DEF Messages

LEMMA LetterSet ==
  ASSUME NEW l, Book(l), NEW w \in Works, NEW c \in [Letters(w) -> LetterType],
         NEW n, LettersSetTo(l, n, w, c)
  PROVE  /\ Book(n) /\ n[w] = c
         /\ \A v \in Works : v # w => n[v] = l[v]
<1>1. n = [v \in Works |-> IF v = w THEN c ELSE l[v]]
  BY DEF Book, LettersSetTo
<1> QED BY <1>1 DEF Book

(* _resolve_linked_dead_letter: i's letters are resolved or given back.     *)
LEMMA ResolvedBook ==
  ASSUME Book(letter), NEW i \in Items, NEW ok \in BOOLEAN, letter' = Resolved(i, ok)
  PROVE  /\ Book(letter)'
         /\ \A w \in Works : \A e \in Letters(w) :
              \/ letter'[w][e] = letter[w][e] /\ letter[w][e].owner # i
              \/ letter'[w][e] = letter[w][e] /\ w # WorkOf[i]
              \/ ok /\ letter'[w][e] = [status |-> "resolved", owner |-> i]
              \/ ~ok /\ letter'[w][e] = [status |-> "unresolved", owner |-> NoItem]
<1>1. PICK w \in Works : w = WorkOf[i]
  BY Plan_
<1>2. PICK c : c = [e \in Letters(w) |->
        IF e \notin LettersOf(i) THEN letter[w][e]
        ELSE IF ok THEN [status |-> "resolved", owner |-> i]
        ELSE [status |-> "unresolved", owner |-> NoItem]]
  OBVIOUS
<1>3. letter[w] \in [Letters(w) -> LetterType]
  BY <1>1 DEF Book
<1>4. \A e \in Letters(w) : letter[w][e] \in LetterType
                            /\ (e \in LettersOf(i) <=> letter[w][e].owner = i)
  BY <1>1, <1>3 DEF LettersOf
<1>5. [status |-> "resolved", owner |-> i] \in LetterType
      /\ [status |-> "unresolved", owner |-> NoItem] \in LetterType
  BY DEF LetterType
<1>6. c \in [Letters(w) -> LetterType]
  BY <1>2, <1>4, <1>5
<1>7. letter' = [letter EXCEPT ![w] = c]
  BY <1>1, <1>2 DEF Resolved
<1>8. Book(letter') /\ letter'[w] = c /\ \A v \in Works : v # w => letter'[v] = letter[v]
  <2>1. LettersSetTo(letter, letter', w, c)
    BY <1>7 DEF LettersSetTo
  <2> QED BY <1>1, <1>6, <2>1, LetterSet
<1>9. Book(letter)'
  BY <1>8 DEF Book
<1>10. ASSUME NEW v \in Works, NEW e \in Letters(v), v = w
       PROVE  \/ letter'[v][e] = letter[v][e] /\ letter[v][e].owner # i
              \/ ok /\ letter'[v][e] = [status |-> "resolved", owner |-> i]
              \/ ~ok /\ letter'[v][e] = [status |-> "unresolved", owner |-> NoItem]
  BY <1>2, <1>4, <1>8, <1>10
<1> QED BY <1>1, <1>8, <1>9, <1>10

-----------------------------------------------------------------------------
(* What becomes of a job.                                                   *)
Settles(j) ==
  /\ job'[j] \in Settled \ {"expired"}
  /\ \A k \in ItemsOf(j) : item'[k].status \in Terminal
  /\ job'[j] = "completed" => \A k \in ItemsOf(j) : item'[k].status \in {"succeeded", "cancelled"}
  /\ job'[j] = "completed_with_failures" =>
       \E k \in ItemsOf(j) : item'[k].status \notin {"succeeded", "cancelled"}

(* _reconcile_jobs judges a job whose items have all ended.                 *)
LEMMA Judged ==
  ASSUME NEW j \in Jobs, NEW s, AllEnded(item', j), job'[j] = Verdict(item', j, s)
  PROVE  Settles(j)
  BY DEF Settles, AllEnded, Verdict, Settled

LEMMA RecountedIs ==
  ASSUME job \in [Jobs -> JobType], NEW i \in Items, job' = Recounted(item', JobOf[i])
  PROVE  /\ job' \in [Jobs -> JobType]
         /\ \A j \in Jobs : job'[j] = job[j] \/ (job[j] \in Live /\ Settles(j))
<1>1. PICK j \in Jobs : j = JobOf[i]
  BY Plan_
<1>2. CASE job[j] \in Live /\ AllEnded(item', j)
  <2>1. PICK v : v = Verdict(item', j, job[j])
    OBVIOUS
  <2>2. v \in JobType
    BY <2>1 DEF Verdict, JobType, Settled
  <2>3. job' = [job EXCEPT ![j] = v]
    BY <1>1, <1>2, <2>1 DEF Recounted
  <2>4. job' \in [Jobs -> JobType] /\ job'[j] = v /\ \A k \in Jobs : k # j => job'[k] = job[k]
    BY <2>2, <2>3
  <2>5. Settles(j)
    BY <1>2, <2>1, <2>4, Judged
  <2> QED BY <1>2, <2>4, <2>5
<1>3. CASE ~(job[j] \in Live /\ AllEnded(item', j))
  BY <1>1, <1>3 DEF Recounted
<1> QED BY <1>2, <1>3

(* What becomes of a letter when item i ends or when a letter is written.   *)
LetterMove(w, e) ==
  \/ letter'[w][e] = letter[w][e]
  \/ letter'[w][e].status # "resolved"
  \/ /\ letter'[w][e].status = "resolved" /\ letter'[w][e].owner \in Items
     /\ item'[letter'[w][e].owner].status = "succeeded"
LetterMoves == \A w \in Works : \A e \in Letters(w) : LetterMove(w, e)

(* End: the item is terminal, its letters are settled, its job recounted.   *)
LEMMA EndIs ==
  ASSUME Types, NEW i \in Items, NEW f \in [Items -> ItemType], NEW s \in Terminal, End(i, f, s)
  PROVE  /\ ItemsOK' /\ job' \in [Jobs -> JobType] /\ Book(letter)' /\ LetterMoves
         /\ \A k \in Items : k # i => SameCore(item'[k], f[k])
         /\ item'[i].status = s /\ item'[i].reserved = FALSE /\ item'[i].event = f[i].event
         /\ \A j \in Jobs : job'[j] = job[j] \/ (job[j] \in Live /\ Settles(j))
<1>1. PICK g : g = [f EXCEPT ![i] = Finished(f[i], s)]
  OBVIOUS
<1>2. /\ Finished(f[i], s) \in ItemType
      /\ Finished(f[i], s).status = s /\ Finished(f[i], s).reserved = FALSE
      /\ Finished(f[i], s).event = f[i].event
  BY FinishedCore
<1>3. /\ g \in [Items -> ItemType] /\ g[i] = Finished(f[i], s)
      /\ \A k \in Items : k # i => g[k] = f[k]
  BY <1>1, <1>2
<1>4. item' = LettersWritten(g, WorkOf[i], LettersOf(i))
  BY <1>1 DEF End
<1>5. item' \in [Items -> ItemType] /\ \A k \in Items : SameCore(item'[k], g[k])
  BY <1>3, <1>4, LettersWrittenCore
<1>6. ItemsOK'
  BY <1>5 DEF ItemsOK
<1>7. /\ \A k \in Items : k # i => SameCore(item'[k], f[k])
      /\ item'[i].status = s /\ item'[i].reserved = FALSE /\ item'[i].event = f[i].event
  BY <1>2, <1>3, <1>5 DEF SameCore
<1>8. job' = Recounted(item', JobOf[i])
  BY <1>1, <1>4 DEF End
<1>9. job' \in [Jobs -> JobType] /\ \A j \in Jobs : job'[j] = job[j] \/ (job[j] \in Live /\ Settles(j))
  BY <1>8, RecountedIs DEF Types, JobsOK
<1>10. PICK ok \in BOOLEAN : ok = (s = "succeeded")
  OBVIOUS
<1>11. letter' = Resolved(i, ok)
  BY <1>10 DEF End
<1>12. /\ Book(letter)'
       /\ \A w \in Works : \A e \in Letters(w) :
            \/ letter'[w][e] = letter[w][e]
            \/ ok /\ letter'[w][e] = [status |-> "resolved", owner |-> i]
            \/ ~ok /\ letter'[w][e] = [status |-> "unresolved", owner |-> NoItem]
  BY <1>11, ResolvedBook DEF Types
<1>13. ASSUME NEW w \in Works, NEW e \in Letters(w)
       PROVE  LetterMove(w, e)
  <2>1. ok => s = "succeeded"
    BY <1>10
  <2>2. ok => i \in Items /\ item'[i].status = "succeeded"
    BY <1>7, <2>1
  <2>3. CASE ok /\ letter'[w][e] = [status |-> "resolved", owner |-> i]
    BY <2>2, <2>3 DEF LetterMove
  <2>4. CASE letter'[w][e] = [status |-> "unresolved", owner |-> NoItem]
    BY <2>4 DEF LetterMove
  <2> QED BY <1>12, <2>3, <2>4 DEF LetterMove
<1> QED BY <1>6, <1>7, <1>9, <1>12, <1>13 DEF LetterMoves

(* What becomes of item i: the fields the invariants speak of stay; it is   *)
(* planned with its job, or admitted with it, which takes a work that       *)
(* nobody owns; it waits, begins a replay of a post, is dispatched with a   *)
(* new event or moves along to one; or it ends.                             *)
Stays(i) == SameCore(item'[i], item[i])
IsPlanned(i) ==
  /\ job[JobOf[i]] = "none" /\ job'[JobOf[i]] \in {"preview", "queued"}
  /\ item'[i].status \in Waiting /\ item'[i].event = 0
  /\ item'[i].reserved = (job'[JobOf[i]] = "queued")
  /\ ~Owned(i)
IsAdmitted(i) ==
  /\ job[JobOf[i]] = "preview" /\ job'[JobOf[i]] = "queued"
  /\ item'[i].status = item[i].status /\ item'[i].event = item[i].event
  /\ item'[i].reserved = TRUE
  /\ ~Owned(i)
UnderAdmission(i) == job[JobOf[i]] \in Admitting /\ job'[JobOf[i]] \in Admitting
Waits(i) ==
  /\ UnderAdmission(i)
  /\ item[i].status \in Active /\ (~IsPost(i) => item[i].status \in Waiting)
  /\ item'[i].status \in Waiting
  /\ item'[i].reserved = item[i].reserved /\ item'[i].event = item[i].event
Begins(i) ==
  /\ UnderAdmission(i) /\ IsPost(i)
  /\ item[i].status \in Active /\ item'[i].status = "dispatched"
  /\ item'[i].reserved = item[i].reserved /\ item'[i].event = item[i].event
IsSent(i) ==
  /\ UnderAdmission(i) /\ ~IsPost(i) /\ raised[i] = "no"
  /\ item[i].status \in Waiting /\ item'[i].status = "dispatched"
  /\ item'[i].reserved = TRUE /\ ~Owned(i)
  /\ item'[i].event = minted[WorkOf[i]] + 1 /\ minted'[WorkOf[i]] = minted[WorkOf[i]] + 1
  /\ item'[i].snap = row[WorkOf[i]] /\ row[WorkOf[i]].status \in {"failed", "succeeded"}
  /\ ParentOf[i] # NoItem => item[ParentOf[i]].status = "succeeded"
MovesAlong(i) ==
  /\ ~IsPost(i)
  /\ row[WorkOf[i]].status = "processing" /\ row[WorkOf[i]].event = item[i].event
  /\ item[i].status = "dispatched" /\ item'[i].status = "dispatched"
  /\ item'[i].reserved = item[i].reserved /\ item'[i].snap = item[i].snap
  /\ item'[i].event = minted[WorkOf[i]] + 1 /\ minted'[WorkOf[i]] = minted[WorkOf[i]] + 1
Ends(i) ==
  /\ item[i].status \in Active
  /\ \/ job[JobOf[i]] \in Live
     \/ job[JobOf[i]] = "preview" /\ job'[JobOf[i]] = "cancelled"
  /\ item'[i].status \in Terminal /\ item'[i].reserved = FALSE
  /\ item'[i].event = item[i].event
  /\ item'[i].status = "succeeded" => <<WorkOf[i], item[i].event>> \in done
  /\ ~IsPost(i) /\ item[i].status = "dispatched" /\ WorkDone(i) /\ ~TakenOver(i)
       => item'[i].status = "succeeded"

ItemMove(i) ==
  \/ Stays(i) \/ IsPlanned(i) \/ IsAdmitted(i) \/ Waits(i) \/ Begins(i)
  \/ IsSent(i) \/ MovesAlong(i) \/ Ends(i)

(* What becomes of job j, and of its items with it; one job at a time is    *)
(* planned or admitted.                                                     *)
JobMove(j) ==
  \/ job'[j] = job[j]
  \/ /\ job[j] = "none" /\ job'[j] \in {"preview", "queued"}
     /\ \A i \in ItemsOf(j) : IsPlanned(i)
     /\ \A k \in Jobs \ {j} : job'[k] = job[k]
  \/ /\ job[j] = "preview" /\ job'[j] = "queued"
     /\ \A i \in ItemsOf(j) : IsAdmitted(i)
     /\ \A k \in Jobs \ {j} : job'[k] = job[k]
  \/ /\ job[j] = "preview" /\ job'[j] = "expired"
     /\ \A i \in ItemsOf(j) : Stays(i)
  \/ job[j] = "queued" /\ job'[j] = "running"
  \/ job[j] \in Live /\ job'[j] = "cancelling"
  \/ Settles(j)

Moves ==
  /\ \A i \in Items : ItemMove(i)
  /\ \A j \in Jobs : JobMove(j)

(* Nothing that matters of an item, and no job, changes.                    *)
LEMMA Quiet ==
  ASSUME job' = job, \A i \in Items : Stays(i)
  PROVE  Moves
  BY DEF Moves, ItemMove, JobMove

LEMMA QuietItems ==
  ASSUME job' = job, item' = item
  PROVE  Moves
<1>1. \A i \in Items : Stays(i)
  BY DEF Stays, SameCore
<1> QED BY <1>1, Quiet

-----------------------------------------------------------------------------
(* Planning.                                                                *)
Reduces == Types' /\ Moves /\ LetterMoves

LEMMA SameLetters ==
  ASSUME letter' = letter
  PROVE  LetterMoves /\ (Book(letter) => Book(letter)')
  BY DEF LetterMoves, LetterMove, Book

LEMMA InvTypes == ASSUME IInv PROVE Types
  BY TypesAre DEF IInv

LEMMA LinkedNumbers == ASSUME NEW w \in Works PROVE Linked(w) \subseteq Nat
  BY MaxEventsAssumption DEF Linked, OpenLetters, Letters

LEMMA PlannedCore ==
  ASSUME NEW i \in Items, NEW reserve \in BOOLEAN
  PROVE  /\ Planned(i, reserve) \in ItemType
         /\ Planned(i, reserve).status \in Waiting /\ Planned(i, reserve).event = 0
         /\ Planned(i, reserve).reserved = reserve
<1>1. PICK L \in SUBSET Nat : L = IF ParentOf[i] = NoItem THEN Linked(WorkOf[i]) ELSE {}
  BY LinkedNumbers, Plan_
<1>2. PICK s \in Waiting : s = IF ParentOf[i] = NoItem THEN "queued" ELSE "waiting_dependency"
  BY DEF Waiting
<1>3. Planned(i, reserve) = [NewItem EXCEPT !.status = s, !.reserved = reserve, !.links = L]
  BY <1>1, <1>2 DEF Planned
<1>4. NewItem \in ItemType /\ NewItem.event = 0
  BY DEF NewItem, ItemType
<1>5. s \in {"none"} \cup Active \cup Terminal
  BY DEF Active
<1> QED BY <1>3, <1>4, <1>5 DEF ItemType

(* A plan that is made leaves nobody else on the works of the job.          *)
LEMMA EligibleUnowned ==
  ASSUME NEW j, Eligible(j), NEW i \in ItemsOf(j)
  PROVE  ~Owned(i)
  BY DEF Eligible, Available, Plannable

LEMMA CreateReduces ==
  ASSUME IInv, NEW j \in Jobs, NEW status \in {"preview", "queued"}, Create(j, status)
  PROVE  Reduces
<1>1. Types
  BY InvTypes
<1>2. job' = [job EXCEPT ![j] = status] /\ job[j] = "none"
  BY DEF Create
<1>3. job' \in [Jobs -> JobType] /\ job'[j] = status /\ \A k \in Jobs : k # j => job'[k] = job[k]
  BY <1>1, <1>2 DEF Types, JobsOK, JobType, Live, Admitting
<1>4. PICK b \in BOOLEAN : b = (status = "queued")
  OBVIOUS
<1>5. item' = [i \in Items |-> IF i \in ItemsOf(j) THEN Planned(i, b) ELSE item[i]]
  BY <1>4 DEF Create
<1>6. ASSUME NEW i \in Items, i \in ItemsOf(j)
      PROVE  IsPlanned(i) /\ item'[i] \in ItemType
  <2>1. item'[i] = Planned(i, b)
    BY <1>5, <1>6
  <2>2. JobOf[i] = j
    BY <1>6 DEF ItemsOf
  <2>3. ~Owned(i)
    BY <1>6, EligibleUnowned DEF Create
  <2>4. item'[i].reserved = (job'[j] = "queued")
    BY <2>1, <1>3, <1>4, PlannedCore
  <2> QED BY <2>1, <2>2, <2>3, <2>4, <1>2, <1>3, PlannedCore DEF IsPlanned
<1>7. ASSUME NEW i \in Items, i \notin ItemsOf(j)
      PROVE  Stays(i) /\ item'[i] \in ItemType
  BY <1>1, <1>5, <1>7 DEF Stays, SameCore, Types, ItemsOK
<1>8. item' \in [Items -> ItemType]
  BY <1>5, <1>6, <1>7
<1>9. \A i \in ItemsOf(j) : IsPlanned(i)
  BY <1>6 DEF ItemsOf
<1>10. \A k \in Jobs : JobMove(k)
  BY <1>2, <1>3, <1>9 DEF JobMove
<1>11. \A i \in Items : ItemMove(i)
  BY <1>6, <1>7 DEF ItemMove
<1>12. admitted' \subseteq Jobs
  BY <1>1 DEF Create, Types, JobsOK
<1>13. UNCHANGED <<row, msg, minted, letter, raised, call, crashes>>
  BY DEF Create, broker
<1>14. Types'
  BY <1>1, <1>3, <1>8, <1>12, <1>13 DEF Types, JobsOK, ItemsOK, RowsOK, TurnsOK, Messages, Book, MintedOK
<1> QED BY <1>10, <1>11, <1>13, <1>14, SameLetters DEF Reduces, Moves

LEMMA ScheduleReduces ==
  ASSUME IInv, NEW j \in Jobs, Schedule(j)
  PROVE  Reduces
<1>1. Types
  BY InvTypes
<1>2. job' = [job EXCEPT ![j] = "queued"] /\ job[j] = "preview"
  BY DEF Schedule
<1>3. job' \in [Jobs -> JobType] /\ job'[j] = "queued" /\ \A k \in Jobs : k # j => job'[k] = job[k]
  BY <1>1, <1>2 DEF Types, JobsOK, JobType, Live, Admitting
<1>4. item' = [i \in Items |-> IF i \in ItemsOf(j) THEN [item[i] EXCEPT !.reserved = TRUE] ELSE item[i]]
  BY DEF Schedule
<1>5. ASSUME NEW i \in Items, i \in ItemsOf(j)
      PROVE  IsAdmitted(i) /\ item'[i] \in ItemType
  <2>1. PICK r \in ItemType : r = item[i]
    BY <1>1 DEF Types, ItemsOK
  <2>2. /\ [r EXCEPT !.reserved = TRUE] \in ItemType
        /\ [r EXCEPT !.reserved = TRUE].status = r.status
        /\ [r EXCEPT !.reserved = TRUE].event = r.event
        /\ [r EXCEPT !.reserved = TRUE].reserved = TRUE
    BY DEF ItemType
  <2>3. item'[i] = [r EXCEPT !.reserved = TRUE]
    BY <1>4, <1>5, <2>1
  <2>4. ~Owned(i)
    BY <1>5, EligibleUnowned DEF Schedule
  <2>5. JobOf[i] = j
    BY <1>5 DEF ItemsOf
  <2> QED BY <1>2, <1>3, <2>1, <2>2, <2>3, <2>4, <2>5 DEF IsAdmitted
<1>6. ASSUME NEW i \in Items, i \notin ItemsOf(j)
      PROVE  Stays(i) /\ item'[i] \in ItemType
  BY <1>1, <1>4, <1>6 DEF Stays, SameCore, Types, ItemsOK
<1>7. item' \in [Items -> ItemType]
  BY <1>4, <1>5, <1>6
<1>8. \A i \in ItemsOf(j) : IsAdmitted(i)
  BY <1>5 DEF ItemsOf
<1>9. \A k \in Jobs : JobMove(k)
  BY <1>2, <1>3, <1>8 DEF JobMove
<1>10. \A i \in Items : ItemMove(i)
  BY <1>5, <1>6 DEF ItemMove
<1>11. admitted' \subseteq Jobs
  BY <1>1 DEF Schedule, Types, JobsOK
<1>12. UNCHANGED <<row, msg, minted, letter, raised, call, crashes>>
  BY DEF Schedule, broker
<1>13. Types'
  BY <1>1, <1>3, <1>7, <1>11, <1>12 DEF Types, JobsOK, ItemsOK, RowsOK, TurnsOK, Messages, Book, MintedOK
<1> QED BY <1>9, <1>10, <1>12, <1>13, SameLetters DEF Reduces, Moves

LEMMA ExpireReduces ==
  ASSUME IInv, NEW j \in Jobs, Expire(j)
  PROVE  Reduces
<1>1. Types
  BY InvTypes
<1>2. job' = [job EXCEPT ![j] = "expired"] /\ job[j] = "preview"
  BY DEF Expire
<1>3. job' \in [Jobs -> JobType] /\ job'[j] = "expired" /\ \A k \in Jobs : k # j => job'[k] = job[k]
  BY <1>1, <1>2 DEF Types, JobsOK, JobType, Settled
<1>4. UNCHANGED <<item, row, msg, minted, letter, raised, call, crashes, admitted>>
  BY DEF Expire, broker, history
<1>5. \A i \in Items : Stays(i)
  BY <1>4 DEF Stays, SameCore
<1>6. \A k \in Jobs : JobMove(k)
  BY <1>2, <1>3, <1>5 DEF JobMove, ItemsOf
<1>7. Types'
  BY <1>1, <1>3, <1>4 DEF Types, JobsOK, ItemsOK, RowsOK, TurnsOK, Messages, Book, MintedOK
<1> QED BY <1>4, <1>5, <1>6, <1>7, SameLetters DEF Reduces, Moves, ItemMove

(* What is under way belongs to a live job.                                 *)
LEMMA DispatchedLive ==
  ASSUME IInv, NEW i \in Items, item[i].status = "dispatched"
  PROVE  job[JobOf[i]] \in Live
<1>1. Fits(i) /\ job[JobOf[i]] \in JobType
  BY InvTypes, Plan_ DEF IInv, Plans, Types, JobsOK
<1> QED BY <1>1 DEF Fits, JobType, Settled, Waiting, Terminal

LEMMA ActivePlanned ==
  ASSUME IInv, NEW i \in Items, item[i].status \in Active
  PROVE  job[JobOf[i]] \in Live \cup {"preview", "expired"}
<1>1. Fits(i) /\ job[JobOf[i]] \in JobType
  BY InvTypes, Plan_ DEF IInv, Plans, Types, JobsOK
<1> QED BY <1>1 DEF Fits, JobType, Settled, Active, Waiting, Terminal

LEMMA PlannedStatus ==
  ASSUME IInv, NEW i \in Items, job[JobOf[i]] \notin {"never", "none"}
  PROVE  item[i].status \in Active \cup Terminal
<1>1. Fits(i) /\ item[i] \in ItemType
  BY InvTypes DEF IInv, Plans, Types, ItemsOK
<1>2. item[i].status # "none" /\ item[i].status \in {"none"} \cup Active \cup Terminal
  BY <1>1 DEF Fits, ItemType
<1> QED BY <1>2

LEMMA CancelReduces ==
  ASSUME IInv, NEW j \in Jobs, Cancel(j)
  PROVE  Reduces
<1>1. Types
  BY InvTypes
<1>2. PICK s \in {"cancelling", "cancelled"} :
        s = IF \E i \in ItemsOf(j) : item[i].status = "dispatched" THEN "cancelling" ELSE "cancelled"
  OBVIOUS
<1>3. job' = [job EXCEPT ![j] = s] /\ job[j] \in Live \cup {"preview"}
  BY <1>2 DEF Cancel
<1>4. job' \in [Jobs -> JobType] /\ job'[j] = s /\ \A k \in Jobs : k # j => job'[k] = job[k]
  BY <1>1, <1>3 DEF Types, JobsOK, JobType, Live, Settled
<1>5. item' = [i \in Items |-> IF i \in ItemsOf(j) /\ item[i].status \in Waiting
                               THEN Finished(item[i], "cancelled") ELSE item[i]]
  BY DEF Cancel
<1>6. UNCHANGED <<row, msg, minted, letter, raised, call, crashes, admitted>>
  BY DEF Cancel, broker, history
<1>7. "cancelled" \in Terminal
  BY DEF Terminal
<1>8. ASSUME NEW i \in Items, i \in ItemsOf(j), item[i].status \in Waiting
      PROVE  Ends(i) /\ item'[i] \in ItemType /\ item'[i].status = "cancelled"
  <2>1. JobOf[i] = j
    BY <1>8 DEF ItemsOf
  <2>2. item'[i] = Finished(item[i], "cancelled") /\ item[i] \in ItemType
    BY <1>1, <1>5, <1>8 DEF Types, ItemsOK
  <2>3. /\ item'[i] \in ItemType /\ item'[i].status = "cancelled"
        /\ item'[i].reserved = FALSE /\ item'[i].event = item[i].event
    <3>1. PICK r \in ItemType : r = item[i]
      BY <2>2
    <3>2. PICK t \in Terminal : t = "cancelled"
      BY <1>7
    <3>3. /\ Finished(r, t) \in ItemType
          /\ Finished(r, t).status = t /\ Finished(r, t).reserved = FALSE
          /\ Finished(r, t).event = r.event
      BY FinishedCore
    <3> QED BY <2>2, <3>1, <3>2, <3>3
  <2>4. job[j] = "preview" => job'[j] = "cancelled"
    <3>1. SUFFICES ASSUME job[j] = "preview", NEW k \in ItemsOf(j), item[k].status = "dispatched"
                   PROVE  FALSE
      BY <1>2, <1>4
    <3>2. k \in Items /\ JobOf[k] = j
      BY <3>1 DEF ItemsOf
    <3> QED BY <3>1, <3>2, DispatchedLive DEF Live, Admitting
  <2>5. item[i].status \in Active /\ item[i].status # "dispatched"
    BY <1>8 DEF Active, Waiting
  <2> QED BY <1>3, <1>7, <2>1, <2>3, <2>4, <2>5 DEF Ends
<1>9. ASSUME NEW i \in Items, ~(i \in ItemsOf(j) /\ item[i].status \in Waiting)
      PROVE  Stays(i) /\ item'[i] \in ItemType
  BY <1>1, <1>5, <1>9 DEF Stays, SameCore, Types, ItemsOK
<1>10. item' \in [Items -> ItemType]
  BY <1>5, <1>8, <1>9
<1>11. \A i \in Items : ItemMove(i)
  BY <1>8, <1>9 DEF ItemMove
<1>12. JobMove(j)
  <2>1. CASE \E i \in ItemsOf(j) : item[i].status = "dispatched"
    <3>1. job[j] \in Live
      BY <2>1, DispatchedLive DEF ItemsOf
    <3> QED BY <1>2, <1>4, <2>1, <3>1 DEF JobMove
  <2>2. CASE ~\E i \in ItemsOf(j) : item[i].status = "dispatched"
    <3>1. s = "cancelled"
      BY <1>2, <2>2
    <3>2. ASSUME NEW i \in ItemsOf(j)
          PROVE  item'[i].status \in Terminal
      <4>1. i \in Items /\ JobOf[i] = j
        BY DEF ItemsOf
      <4>2. item[i].status \in Active \cup Terminal
        BY <1>3, <4>1, PlannedStatus DEF Live, Admitting
      <4>3. CASE item[i].status \in Waiting
        BY <1>7, <1>8, <4>1, <4>3
      <4>4. CASE item[i].status \in Terminal
        <5>1. item'[i].status = item[i].status
          BY <1>9, <4>1, <4>4 DEF Waiting, Terminal, Stays, SameCore
        <5> QED BY <4>4, <5>1
      <4> QED BY <2>2, <4>2, <4>3, <4>4 DEF Active
    <3> QED BY <1>4, <3>1, <3>2 DEF JobMove, Settles, Settled
  <2> QED BY <2>1, <2>2
<1>13. \A k \in Jobs : JobMove(k)
  BY <1>4, <1>12 DEF JobMove
<1>14. Types'
  BY <1>1, <1>4, <1>6, <1>10 DEF Types, JobsOK, ItemsOK, RowsOK, TurnsOK, Messages, Book, MintedOK
<1> QED BY <1>6, <1>11, <1>13, <1>14, SameLetters DEF Reduces, Moves

-----------------------------------------------------------------------------
(* Dispatch.                                                                *)
LEMMA ClaimedIs ==
  ASSUME IInv, NEW i \in Items, Claimable(i), job' = Claimed(i)
  PROVE  /\ job' \in [Jobs -> JobType] /\ \A j \in Jobs : JobMove(j)
         /\ UnderAdmission(i)
         /\ item[i].status \in Active /\ (~IsPost(i) => item[i].status \in Waiting)
<1>1. PICK j \in Jobs : j = JobOf[i]
  BY Plan_
<1>2. job \in [Jobs -> JobType]
  BY InvTypes DEF Types, JobsOK
<1>3. PICK s : s = IF job[j] = "queued" THEN "running" ELSE job[j]
  OBVIOUS
<1>4. job[j] \in Admitting /\ s \in Admitting /\ s \in JobType
  BY <1>1, <1>3 DEF Claimable, Admitting, JobType, Live
<1>5. job' = [job EXCEPT ![j] = s]
  BY <1>1, <1>3 DEF Claimed
<1>6. job' \in [Jobs -> JobType] /\ job'[j] = s /\ \A k \in Jobs : k # j => job'[k] = job[k]
  BY <1>2, <1>4, <1>5
<1>7. \A k \in Jobs : JobMove(k)
  BY <1>3, <1>6 DEF JobMove
<1>8. item[i].status \in Active /\ (~IsPost(i) => item[i].status \in Waiting)
  BY DEF Claimable, Active
<1> QED BY <1>1, <1>4, <1>6, <1>7, <1>8 DEF UnderAdmission

(* One item is written and the others are left.                             *)
LEMMA ItemSet ==
  ASSUME NEW f \in [Items -> ItemType], NEW i \in Items, NEW r \in ItemType,
         NEW g, g = [f EXCEPT ![i] = r]
  PROVE  /\ g \in [Items -> ItemType] /\ g[i] = r
         /\ \A k \in Items : k # i => g[k] = f[k] /\ SameCore(g[k], f[k])
  BY DEF SameCore

LEMMA DispatchStaleReduces ==
  ASSUME IInv, NEW i \in Items, DispatchStale(i)
  PROVE  Reduces
<1>1. Types
  BY InvTypes
<1>2. item \in [Items -> ItemType]
  BY <1>1 DEF Types, ItemsOK
<1>3. PICK s \in Terminal : s = "skipped_stale"
  BY DEF Terminal
<1>4. PICK r \in ItemType : r = Finished(item[i], s)
  BY <1>2, FinishedCore
<1>5. r.status = s /\ r.reserved = FALSE /\ r.event = item[i].event
  BY <1>2, <1>4, FinishedCore
<1>6. item' = [item EXCEPT ![i] = r]
  BY <1>3, <1>4 DEF DispatchStale
<1>7. item' \in [Items -> ItemType] /\ item'[i] = r /\ \A k \in Items : k # i => Stays(k)
  BY <1>2, <1>6, ItemSet DEF Stays
<1>8. UNCHANGED <<row, msg, minted, letter, raised, call, crashes, admitted>>
  BY DEF DispatchStale, broker, history
<1>9. Claimable(i) /\ job' = Claimed(i)
  BY DEF DispatchStale
<1>10. /\ job' \in [Jobs -> JobType] /\ \A j \in Jobs : JobMove(j)
       /\ UnderAdmission(i)
       /\ item[i].status \in Active /\ (~IsPost(i) => item[i].status \in Waiting)
  BY <1>9, ClaimedIs
<1>11. Ends(i)
  BY <1>3, <1>5, <1>7, <1>10 DEF Ends, UnderAdmission, Live, Waiting
<1>12. \A k \in Items : ItemMove(k)
  BY <1>7, <1>11 DEF ItemMove
<1>13. Types'
  BY <1>1, <1>7, <1>8, <1>10 DEF Types, JobsOK, ItemsOK, RowsOK, TurnsOK, Messages, Book, MintedOK
<1> QED BY <1>8, <1>10, <1>12, <1>13, SameLetters DEF Reduces, Moves

LEMMA DispatchWaitsReduces ==
  ASSUME IInv, NEW i \in Items, DispatchWaits(i)
  PROVE  Reduces
<1>1. Types
  BY InvTypes
<1>2. item \in [Items -> ItemType]
  BY <1>1 DEF Types, ItemsOK
<1>3. PICK q \in ItemType : q = item[i]
  BY <1>2
<1>4. PICK r : r = [q EXCEPT !.status = "waiting_capacity"]
  OBVIOUS
<1>5. /\ r \in ItemType /\ r.status \in Waiting /\ r.reserved = q.reserved /\ r.event = q.event
  BY <1>4 DEF ItemType, Active, Waiting
<1>6. item' = [item EXCEPT ![i] = r]
  BY <1>3, <1>4 DEF DispatchWaits
<1>7. item' \in [Items -> ItemType] /\ item'[i] = r /\ \A k \in Items : k # i => Stays(k)
  BY <1>2, <1>5, <1>6, ItemSet DEF Stays
<1>8. UNCHANGED <<row, msg, minted, letter, raised, call, crashes, admitted>>
  BY DEF DispatchWaits, broker, history
<1>9. Claimable(i) /\ job' = Claimed(i)
  BY DEF DispatchWaits
<1>10. /\ job' \in [Jobs -> JobType] /\ \A j \in Jobs : JobMove(j)
       /\ UnderAdmission(i)
       /\ item[i].status \in Active /\ (~IsPost(i) => item[i].status \in Waiting)
  BY <1>9, ClaimedIs
<1>11. Waits(i)
  BY <1>3, <1>5, <1>7, <1>10 DEF Waits
<1>12. \A k \in Items : ItemMove(k)
  BY <1>7, <1>11 DEF ItemMove
<1>13. Types'
  BY <1>1, <1>7, <1>8, <1>10 DEF Types, JobsOK, ItemsOK, RowsOK, TurnsOK, Messages, Book, MintedOK
<1> QED BY <1>8, <1>10, <1>12, <1>13, SameLetters DEF Reduces, Moves

(* reserve_replay and the outbox row: a new event, and the row waits for it.*)
LEMMA MintIs ==
  ASSUME Types, NEW w \in Works, Mint(w)
  PROVE  /\ minted[w] \in Nat /\ minted[w] + 1 \in Events(w)
         /\ MintedOK(minted)' /\ Messages(msg)' /\ RowsOK'
         /\ minted'[w] = minted[w] + 1
         /\ \A v \in Works : v # w => minted'[v] = minted[v] /\ row'[v] = row[v]
         /\ row'[w].status = "pending" /\ row'[w].count = row[w].count + 1
         /\ row'[w].event = minted[w] + 1
         /\ msg'[w][minted[w] + 1].outbox = "pending" /\ msg'[w][minted[w] + 1].place = "none"
         /\ msg'[w][minted[w] + 1].attempt = row[w].count + 1
         /\ \A v \in Works : \A f \in Events(v) :
              v # w \/ f # minted[w] + 1 => msg'[v][f] = msg[v][f]
<1>1. minted \in [Works -> Nat] /\ minted[w] < MaxEvents[w] /\ \A v \in Works : minted[v] <= MaxEvents[v]
  BY DEF Types, MintedOK, Mint
<1>2. PICK n \in Nat : n = minted[w] + 1
  BY <1>1
<1>3. n \in Events(w) /\ n <= MaxEvents[w]
  BY <1>1, <1>2, MaxEventsAssumption DEF Events
<1>4. minted' = [minted EXCEPT ![w] = n]
  BY <1>2 DEF Mint
<1>5. /\ minted' \in [Works -> Nat] /\ minted'[w] = n
      /\ \A v \in Works : v # w => minted'[v] = minted[v]
  BY <1>1, <1>4
<1>6. MintedOK(minted)'
  BY <1>1, <1>3, <1>5 DEF MintedOK
<1>7. row \in [Works -> RowType]
  BY DEF Types, RowsOK
<1>8. PICK c \in Nat : c = row[w].count + 1
  BY <1>7 DEF RowType
<1>9. PICK r : r = [status |-> "pending", retryable |-> TRUE, count |-> c, event |-> n]
  OBVIOUS
<1>10. r \in RowType /\ r.status = "pending" /\ r.count = c /\ r.event = n
  BY <1>9 DEF RowType
<1>11. row' = [row EXCEPT ![w] = r]
  BY <1>2, <1>7, <1>8, <1>9 DEF Mint
<1>12. row' \in [Works -> RowType] /\ row'[w] = r /\ \A v \in Works : v # w => row'[v] = row[v]
  BY <1>7, <1>10, <1>11
<1>13. PICK m : m = [outbox |-> "pending", fails |-> 0, place |-> "none", attempt |-> c]
  OBVIOUS
<1>14. m \in MsgType /\ m.outbox = "pending" /\ m.place = "none" /\ m.attempt = c
  BY <1>13 DEF MsgType, Places
<1>15. MessageSetTo(msg, msg', w, n, m)
  BY <1>2, <1>8, <1>13 DEF Mint, MessageSetTo
<1>16. /\ Messages(msg') /\ msg'[w][n] = m
       /\ \A v \in Works : \A f \in Events(v) : v # w \/ f # n => msg'[v][f] = msg[v][f]
  BY <1>3, <1>14, <1>15, MessageSet DEF Types
<1>17. Messages(msg)'
  BY <1>16 DEF Messages
<1> QED BY <1>1, <1>2, <1>3, <1>5, <1>6, <1>8, <1>10, <1>12, <1>14, <1>16, <1>17 DEF RowsOK

LEMMA DispatchReduces ==
  ASSUME IInv, NEW i \in Items, Dispatch(i)
  PROVE  Reduces /\ IsSent(i)
<1>1. Types /\ item \in [Items -> ItemType]
  BY InvTypes DEF Types, ItemsOK
<1>2. PICK w \in Works : w = WorkOf[i]
  BY Plan_
<1>3. /\ ~IsPost(i) /\ Claimable(i) /\ Valid(i) /\ Mint(w) /\ job' = Claimed(i)
      /\ UNCHANGED <<raised, call, admitted, crashes>>
  BY <1>2 DEF Dispatch, history
<1>4. /\ minted[w] \in Nat /\ minted[w] + 1 \in Events(w)
      /\ MintedOK(minted)' /\ Messages(msg)' /\ RowsOK'
      /\ minted'[w] = minted[w] + 1
  BY <1>1, <1>3, MintIs
<1>5. /\ job' \in [Jobs -> JobType] /\ \A j \in Jobs : JobMove(j)
      /\ UnderAdmission(i) /\ item[i].status \in Active /\ item[i].status \in Waiting
  BY <1>3, ClaimedIs
<1>6. PICK f : f = RowWritten(item, w)
  OBVIOUS
<1>7. f \in [Items -> ItemType] /\ \A k \in Items : SameCore(f[k], item[k])
  BY <1>1, <1>6, RowWrittenCore
<1>8. PICK n \in Nat : n = minted[w] + 1
  BY <1>4
<1>9. PICK st \in Nat : st = IF item[i].start = 0 THEN row[w].count + 1 ELSE item[i].start
  BY <1>1 DEF Types, RowsOK, RowType, ItemType
<1>10. PICK b \in RowType : b = row[w]
  BY <1>1 DEF Types, RowsOK
<1>11. PICK q \in ItemType : q = f[i]
  BY <1>7
<1>12. PICK r : r = [q EXCEPT !.status = "dispatched", !.reserved = TRUE,
                              !.event = n, !.snap = b, !.pub = 0, !.start = st]
  OBVIOUS
<1>13. /\ r \in ItemType /\ r.status = "dispatched" /\ r.reserved = TRUE
       /\ r.event = n /\ r.snap = b
  BY <1>12 DEF ItemType, Active
<1>14. item' = [f EXCEPT ![i] = r]
  BY <1>2, <1>6, <1>8, <1>9, <1>10, <1>11, <1>12 DEF Dispatch, Snapshot
<1>15. item' \in [Items -> ItemType] /\ item'[i] = r /\ \A k \in Items : k # i => SameCore(item'[k], f[k])
  BY <1>7, <1>13, <1>14, ItemSet
<1>16. \A k \in Items : k # i => Stays(k)
  BY <1>7, <1>15 DEF Stays, SameCore
<1>17. IsSent(i)
  <2>1. ~Owned(i) /\ row[w].status \in {"failed", "succeeded"}
    BY <1>2, <1>3 DEF Valid, Available
  <2>2. raised[i] = "no" /\ (ParentOf[i] # NoItem => item[ParentOf[i]].status = "succeeded")
    BY <1>3 DEF Claimable
  <2> QED BY <1>2, <1>3, <1>4, <1>5, <1>8, <1>10, <1>13, <1>15, <2>1, <2>2 DEF IsSent
<1>18. PICK taken : taken = IF i \in Recovers THEN Linked(w) ELSE {}
  OBVIOUS
<1>19. PICK c : c = [e \in Letters(w) |->
          IF e \in taken THEN [status |-> "recovery_queued", owner |-> i] ELSE letter[w][e]]
  OBVIOUS
<1>20. letter[w] \in [Letters(w) -> LetterType]
  BY <1>1 DEF Types, Book
<1>21. c \in [Letters(w) -> LetterType]
  <2>1. [status |-> "recovery_queued", owner |-> i] \in LetterType
    BY DEF LetterType
  <2> QED BY <1>19, <1>20, <2>1
<1>22. LettersSetTo(letter, letter', w, c)
  BY <1>2, <1>18, <1>19 DEF Dispatch, LettersSetTo
<1>23. Book(letter') /\ letter'[w] = c /\ \A v \in Works : v # w => letter'[v] = letter[v]
  BY <1>1, <1>21, <1>22, LetterSet DEF Types
<1>24. Book(letter)'
  BY <1>23 DEF Book
<1>25. ASSUME NEW v \in Works, NEW e \in Letters(v)
       PROVE  LetterMove(v, e)
  <2>1. CASE v # w
    BY <1>23, <2>1 DEF LetterMove
  <2>2. CASE v = w /\ e \in taken
    <3>1. letter'[v][e] = [status |-> "recovery_queued", owner |-> i]
      BY <1>19, <1>23, <2>2
    <3> QED BY <3>1 DEF LetterMove
  <2>3. CASE v = w /\ e \notin taken
    BY <1>19, <1>23, <2>3 DEF LetterMove
  <2> QED BY <2>1, <2>2, <2>3
<1>26. \A k \in Items : ItemMove(k)
  BY <1>16, <1>17 DEF ItemMove
<1>27. Types'
  BY <1>1, <1>3, <1>4, <1>5, <1>15, <1>24 DEF Types, JobsOK, ItemsOK, TurnsOK
<1> QED BY <1>5, <1>17, <1>25, <1>26, <1>27 DEF Reduces, Moves, LetterMoves

LEMMA BeginReplayReduces ==
  ASSUME IInv, NEW i \in Items, BeginReplay(i)
  PROVE  Reduces
<1>1. Types /\ item \in [Items -> ItemType]
  BY InvTypes DEF Types, ItemsOK
<1>2. PICK q \in ItemType : q = item[i]
  BY <1>1
<1>3. PICK r : r = [q EXCEPT !.status = "dispatched", !.seen = TRUE]
  OBVIOUS
<1>4. /\ r \in ItemType /\ r.status = "dispatched" /\ r.reserved = q.reserved /\ r.event = q.event
  BY <1>3 DEF ItemType, Active
<1>5. item' = [item EXCEPT ![i] = r]
  BY <1>2, <1>3 DEF BeginReplay
<1>6. item' \in [Items -> ItemType] /\ item'[i] = r /\ \A k \in Items : k # i => Stays(k)
  BY <1>1, <1>4, <1>5, ItemSet DEF Stays
<1>7. UNCHANGED <<row, msg, minted, letter, raised, crashes, admitted>>
  BY DEF BeginReplay, broker, history
<1>8. Claimable(i) /\ job' = Claimed(i) /\ IsPost(i)
  BY DEF BeginReplay
<1>9. /\ job' \in [Jobs -> JobType] /\ \A j \in Jobs : JobMove(j)
      /\ UnderAdmission(i) /\ item[i].status \in Active
  BY <1>8, ClaimedIs
<1>10. Begins(i)
  BY <1>2, <1>4, <1>6, <1>8, <1>9 DEF Begins
<1>11. \A k \in Items : ItemMove(k)
  BY <1>6, <1>10 DEF ItemMove
<1>12. call' \in [Items -> CallType]
  BY <1>1 DEF BeginReplay, Types, TurnsOK, CallType
<1>13. Types'
  BY <1>1, <1>6, <1>7, <1>9, <1>12 DEF Types, JobsOK, ItemsOK, RowsOK, TurnsOK, Messages, Book, MintedOK
<1> QED BY <1>7, <1>9, <1>11, <1>13, SameLetters DEF Reduces, Moves

LEMMA DispatchRaisesReduces ==
  ASSUME IInv, NEW i \in Items, NEW how \in {"retryable", "terminal"}, DispatchRaises(i, how)
  PROVE  Reduces
<1>1. Types
  BY InvTypes
<1>2. UNCHANGED <<job, item, row, msg, minted, letter, call, crashes, admitted>>
  BY DEF DispatchRaises, broker, history
<1>3. raised' \in [Items -> RaisedType]
  BY <1>1 DEF DispatchRaises, Types, TurnsOK, RaisedType
<1>4. Types'
  BY <1>1, <1>2, <1>3 DEF Types, JobsOK, ItemsOK, RowsOK, TurnsOK, Messages, Book, MintedOK
<1> QED BY <1>2, <1>4, SameLetters, QuietItems DEF Reduces

(* An active item of a live job ends, for the right reason.                 *)
LEMMA EndReduces ==
  ASSUME IInv, NEW i \in Items, NEW f \in [Items -> ItemType], NEW s \in Terminal,
         End(i, f, s),
         \A k \in Items \ {i} : SameCore(f[k], item[k]), f[i].event = item[i].event,
         item[i].status \in Active, job[JobOf[i]] \in Live,
         s = "succeeded" => <<WorkOf[i], item[i].event>> \in done,
         ~IsPost(i) /\ item[i].status = "dispatched" /\ WorkDone(i) /\ ~TakenOver(i)
           => s = "succeeded"
  PROVE  /\ Moves /\ LetterMoves /\ ItemsOK' /\ Book(letter)' /\ job' \in [Jobs -> JobType]
<1>1. Types
  BY InvTypes
<1>2. /\ ItemsOK' /\ job' \in [Jobs -> JobType] /\ Book(letter)' /\ LetterMoves
      /\ \A k \in Items : k # i => SameCore(item'[k], f[k])
      /\ item'[i].status = s /\ item'[i].reserved = FALSE /\ item'[i].event = f[i].event
      /\ \A j \in Jobs : job'[j] = job[j] \/ (job[j] \in Live /\ Settles(j))
  BY <1>1, EndIs
<1>3. \A k \in Items : k # i => Stays(k)
  BY <1>2 DEF Stays, SameCore
<1>4. Ends(i)
  BY <1>2 DEF Ends
<1>5. Moves
  BY <1>2, <1>3, <1>4 DEF Moves, ItemMove, JobMove
<1> QED BY <1>2, <1>5

(* Whoever raised or is being replayed was scheduled.                       *)
LEMMA RaisedBegun ==
  ASSUME IInv, NEW i \in Items, raised[i] # "no", item[i].status \notin Terminal
  PROVE  /\ item[i].status \in Active /\ job[JobOf[i]] \in Live /\ item[i].event = 0
         /\ (~IsPost(i) => item[i].status \in Waiting)
<1>1. Fits(i) /\ InTurn(i) /\ Numbered(i)
  BY DEF IInv, Plans
<1>2. job[JobOf[i]] \in Live
  BY <1>1 DEF InTurn, Begun, Fits
<1>3. item[i].status \in Active
  BY <1>2, PlannedStatus DEF Live, Admitting
<1>4. ~IsPost(i) => item[i].status \in Waiting
  BY <1>1, <1>3 DEF InTurn, Active
<1>5. item[i].event = 0
  BY <1>1, <1>4 DEF Numbered
<1> QED BY <1>2, <1>3, <1>4, <1>5

(* What is left unchanged keeps its type.                                   *)
LEMMA TypesFollow ==
  ASSUME Types, ItemsOK', job' \in [Jobs -> JobType], Book(letter)',
         raised' \in [Items -> RaisedType], call' \in [Items -> CallType],
         RowsOK', Messages(msg)', MintedOK(minted)', admitted' \subseteq Jobs,
         crashes' \in 0 .. MaxCrashes
  PROVE  Types'
  BY DEF Types, JobsOK, TurnsOK

LEMMA SamePipeline ==
  ASSUME Types, UNCHANGED <<row, msg, minted>>
  PROVE  RowsOK' /\ Messages(msg)' /\ MintedOK(minted)'
  BY DEF Types, RowsOK, Messages, MintedOK

LEMMA RecordFailureReduces ==
  ASSUME IInv, NEW i \in Items, RecordFailure(i)
  PROVE  Reduces
<1>1. Types /\ item \in [Items -> ItemType]
  BY InvTypes DEF Types, ItemsOK
<1>2. PICK w \in Works : w = WorkOf[i]
  BY Plan_
<1>3. /\ raised[i] # "no" /\ raised' = [raised EXCEPT ![i] = "no"]
      /\ UNCHANGED <<row, msg, minted, call, admitted, crashes>>
  BY DEF RecordFailure, broker, history
<1>4. raised' \in [Items -> RaisedType] /\ call' \in [Items -> CallType]
  BY <1>1, <1>3 DEF Types, TurnsOK, RaisedType
<1>5. RowsOK' /\ Messages(msg)' /\ MintedOK(minted)'
  BY <1>1, <1>3, SamePipeline
<1>6. admitted' \subseteq Jobs /\ crashes' \in 0 .. MaxCrashes
  BY <1>1, <1>3 DEF Types, JobsOK
<1>7. SUFFICES Moves /\ LetterMoves /\ ItemsOK' /\ Book(letter)' /\ job' \in [Jobs -> JobType]
  BY <1>1, <1>4, <1>5, <1>6, TypesFollow DEF Reduces
<1>8. CASE item[i].status \in Terminal
  <2>1. UNCHANGED <<job, item, letter>>
    BY <1>8 DEF RecordFailure
  <2> QED BY <1>1, <2>1, SameLetters, QuietItems DEF Types, JobsOK, ItemsOK
<1>9. CASE item[i].status \notin Terminal
  <2>1. /\ item[i].status \in Active /\ job[JobOf[i]] \in Live /\ item[i].event = 0
        /\ (~IsPost(i) => item[i].status \in Waiting)
    BY <1>3, <1>9, RaisedBegun
  <2>2. ~(~IsPost(i) /\ item[i].status = "dispatched")
    BY <2>1 DEF Waiting
  <2>3. PICK q \in ItemType : q = item[i]
    BY <1>1
  <2>4. PICK n \in Nat : n = q.consumed + (IF raised[i] = "retryable" THEN 1 ELSE 0)
    BY DEF ItemType
  <2>5. PICK r : r = [q EXCEPT !.consumed = n]
    OBVIOUS
  <2>6. r \in ItemType /\ SameCore(r, q) /\ r.consumed = n
    BY <2>5 DEF ItemType, SameCore
  <2>7. PICK f : f = [item EXCEPT ![i] = r]
    OBVIOUS
  <2>8. /\ f \in [Items -> ItemType] /\ f[i] = r
        /\ \A k \in Items : k # i => SameCore(f[k], item[k])
    BY <1>1, <2>6, <2>7, ItemSet
  <2>9. r = [item[i] EXCEPT !.consumed = @ + (IF raised[i] = "retryable" THEN 1 ELSE 0)]
    BY <2>3, <2>4, <2>5
  <2>10. CASE raised[i] = "retryable" /\ r.consumed < LimitOf(i) /\ job[JobOf[i]] \in Admitting
    <3>1. CASE Listed(w)
      <4>1. PICK L \in SUBSET Nat : L = ListedLinks(w)
        <5>1. ListedLinks(w) \subseteq Nat
          BY MaxEventsAssumption DEF ListedLinks, OpenLetters, Letters
        <5> QED BY <5>1
      <4>2. PICK t : t = [r EXCEPT !.status = "queued", !.event = 0, !.fresh = TRUE,
                                   !.seen = TRUE, !.links = L]
        OBVIOUS
      <4>3. /\ t \in ItemType /\ t.status \in Waiting /\ t.event = 0 /\ t.reserved = r.reserved
        BY <2>6, <4>2 DEF ItemType, Active, Waiting
      <4>4. item' = [f EXCEPT ![i] = t] /\ UNCHANGED <<job, letter>>
        BY <1>2, <1>9, <2>7, <2>9, <2>10, <3>1, <4>1, <4>2 DEF RecordFailure
      <4>5. /\ item' \in [Items -> ItemType] /\ item'[i] = t
            /\ \A k \in Items : k # i => SameCore(item'[k], f[k])
        BY <2>8, <4>3, <4>4, ItemSet
      <4>6. \A k \in Items : k # i => Stays(k)
        BY <2>8, <4>5 DEF Stays, SameCore
      <4>7. Waits(i)
        BY <2>1, <2>3, <2>6, <2>10, <4>3, <4>4, <4>5 DEF Waits, UnderAdmission, SameCore
      <4>8. Moves
        BY <4>4, <4>6, <4>7 DEF Moves, ItemMove, JobMove
      <4> QED BY <1>1, <4>4, <4>5, <4>8, SameLetters DEF Types, JobsOK, ItemsOK
    <3>2. CASE ~Listed(w)
      <4>1. PICK s \in Terminal : s = "skipped_stale"
        BY DEF Terminal
      <4>2. PICK t : t = Finished(r, s)
        OBVIOUS
      <4>3. t \in ItemType /\ t.status = s /\ t.reserved = FALSE /\ t.event = r.event
        BY <2>6, <4>2, FinishedCore
      <4>4. item' = [f EXCEPT ![i] = t] /\ job' = Recounted(item', JobOf[i]) /\ letter' = letter
        BY <1>2, <1>9, <2>7, <2>9, <2>10, <3>2, <4>1, <4>2 DEF RecordFailure
      <4>5. /\ item' \in [Items -> ItemType] /\ item'[i] = t
            /\ \A k \in Items : k # i => SameCore(item'[k], f[k])
        BY <2>8, <4>3, <4>4, ItemSet
      <4>6. \A k \in Items : k # i => Stays(k)
        BY <2>8, <4>5 DEF Stays, SameCore
      <4>7. /\ job' \in [Jobs -> JobType]
            /\ \A j \in Jobs : job'[j] = job[j] \/ (job[j] \in Live /\ Settles(j))
        BY <1>1, <4>4, RecountedIs DEF Types, JobsOK
      <4>8. Ends(i)
        BY <2>1, <2>2, <2>3, <2>6, <4>1, <4>3, <4>5 DEF Ends, SameCore
      <4>9. Moves
        BY <4>6, <4>7, <4>8 DEF Moves, ItemMove, JobMove
      <4> QED BY <1>1, <4>4, <4>5, <4>7, <4>9, SameLetters DEF Types, ItemsOK
    <3> QED BY <3>1, <3>2
  <2>11. CASE ~(raised[i] = "retryable" /\ r.consumed < LimitOf(i) /\ job[JobOf[i]] \in Admitting)
    <3>1. PICK s \in Terminal : s = "failed"
      BY DEF Terminal
    <3>2. End(i, f, s)
      BY <1>2, <1>9, <2>7, <2>9, <2>11, <3>1 DEF RecordFailure
    <3>3. \A k \in Items \ {i} : SameCore(f[k], item[k])
      BY <2>8
    <3>4. f[i].event = item[i].event
      BY <2>3, <2>6, <2>8 DEF SameCore
    <3>5. s # "succeeded"
      BY <3>1
    <3> QED BY <2>1, <2>2, <2>8, <3>2, <3>3, <3>4, <3>5, EndReduces
  <2> QED BY <2>10, <2>11
<1> QED BY <1>8, <1>9

-----------------------------------------------------------------------------
(* The replay of a source post writes its row and no item's core.           *)
LEMMA TurnStep ==
  ASSUME Types, NEW i \in Items, NEW pc \in CallType, NEW how \in RaisedType
  PROVE  /\ Step(i, pc) => call' \in [Items -> CallType] /\ call'[i] = pc
                           /\ \A k \in Items : k # i => call'[k] = call[k]
         /\ Raise(i, how) => /\ call' \in [Items -> CallType] /\ call'[i] = "no"
                             /\ \A k \in Items : k # i => call'[k] = call[k]
                             /\ raised' \in [Items -> RaisedType] /\ raised'[i] = how
                             /\ \A k \in Items : k # i => raised'[k] = raised[k]
  BY DEF Types, TurnsOK, Step, Raise, CallType

LEMMA SetPostIs ==
  ASSUME Types, NEW i \in Items, NEW s \in {"observed", "failed", "unsupported", "accepted"},
         NEW b \in BOOLEAN, SetPost(i, s, b)
  PROVE  /\ ItemsOK' /\ RowsOK' /\ \A k \in Items : Stays(k)
         /\ row'[WorkOf[i]].status = s /\ row'[WorkOf[i]].event = row[WorkOf[i]].event
         /\ \A w \in Works : w # WorkOf[i] => row'[w] = row[w]
<1>1. item \in [Items -> ItemType] /\ row \in [Works -> RowType]
  BY DEF Types, ItemsOK, RowsOK
<1>2. PICK w \in Works : w = WorkOf[i]
  BY Plan_
<1>3. PICK q \in RowType : q = row[w]
  BY <1>1
<1>4. PICK r : r = [q EXCEPT !.status = s, !.retryable = b]
  OBVIOUS
<1>5. r \in RowType /\ r.status = s /\ r.event = q.event
  BY <1>4 DEF RowType
<1>6. row' = [row EXCEPT ![w] = r]
  BY <1>2, <1>3, <1>4 DEF SetPost
<1>7. row' \in [Works -> RowType] /\ row'[w] = r /\ \A v \in Works : v # w => row'[v] = row[v]
  BY <1>1, <1>5, <1>6
<1>8. item' = RowWritten(item, w)
  BY <1>2 DEF SetPost
<1>9. item' \in [Items -> ItemType] /\ \A k \in Items : Stays(k)
  BY <1>1, <1>8, RowWrittenCore DEF Stays
<1> QED BY <1>2, <1>3, <1>5, <1>7, <1>9 DEF ItemsOK, RowsOK

LEMMA SamePlumbing ==
  ASSUME Types, UNCHANGED <<job, msg, minted, letter, admitted, crashes>>
  PROVE  /\ job' \in [Jobs -> JobType] /\ Book(letter)' /\ LetterMoves
         /\ Messages(msg)' /\ MintedOK(minted)' /\ admitted' \subseteq Jobs
         /\ crashes' \in 0 .. MaxCrashes
  BY SameLetters DEF Types, JobsOK, Messages, MintedOK

LEMMA FetchFailsReduces ==
  ASSUME IInv, NEW i \in Items, FetchFails(i) \/ ReplayBreaks(i)
  PROVE  Reduces
<1>1. Types
  BY InvTypes
<1>2. Raise(i, "retryable") /\ UNCHANGED <<job, item, row, msg, minted, letter, admitted, crashes>>
  BY DEF FetchFails, ReplayBreaks, broker, history
<1>3. call' \in [Items -> CallType] /\ raised' \in [Items -> RaisedType]
  BY <1>1, <1>2, TurnStep DEF RaisedType, CallType
<1>4. Types'
  BY <1>1, <1>2, <1>3, SamePlumbing, TypesFollow DEF Types, ItemsOK, RowsOK
<1> QED BY <1>1, <1>2, <1>4, SamePlumbing, QuietItems DEF Reduces

LEMMA PostWrittenReduces ==
  ASSUME IInv, NEW i \in Items,
         \/ Observe(i) \/ ReplayFails(i) \/ ReplayAccepts(i)
         \/ \E how \in {"retryable", "terminal"} : ReplayUnsupported(i, how)
  PROVE  Reduces
<1>1. Types
  BY InvTypes
<1>2. /\ \E s \in {"observed", "failed", "unsupported", "accepted"}, b \in BOOLEAN : SetPost(i, s, b)
      /\ UNCHANGED <<job, msg, minted, letter, admitted, crashes>>
  BY DEF Observe, ReplayFails, ReplayAccepts, ReplayUnsupported, broker, history
<1>3. ItemsOK' /\ RowsOK' /\ \A k \in Items : Stays(k)
  BY <1>1, <1>2, SetPostIs
<1>4. call' \in [Items -> CallType] /\ raised' \in [Items -> RaisedType]
  <2>1. CASE Observe(i) \/ ReplayAccepts(i)
    <3>1. PICK pc \in CallType : Step(i, pc)
      BY <2>1 DEF Observe, ReplayAccepts, CallType
    <3>2. raised' = raised
      BY <2>1 DEF Observe, ReplayAccepts
    <3> QED BY <1>1, <3>1, <3>2, TurnStep DEF Types, TurnsOK, RaisedType
  <2>2. CASE ReplayFails(i) \/ \E how \in {"retryable", "terminal"} : ReplayUnsupported(i, how)
    <3>1. PICK how \in RaisedType : Raise(i, how)
      BY <2>2 DEF ReplayFails, ReplayUnsupported, RaisedType
    <3> QED BY <1>1, <3>1, TurnStep DEF CallType
  <2> QED BY <2>1, <2>2
<1>5. Types'
  BY <1>1, <1>2, <1>3, <1>4, SamePlumbing, TypesFollow
<1>6. Moves
  BY <1>2, <1>3, Quiet
<1> QED BY <1>1, <1>2, <1>5, <1>6, SamePlumbing DEF Reduces

LEMMA CompletePostReduces ==
  ASSUME IInv, NEW i \in Items, CompletePost(i)
  PROVE  Reduces
<1>1. Types /\ item \in [Items -> ItemType]
  BY InvTypes DEF Types, ItemsOK
<1>2. /\ call[i] = "accepted" /\ Step(i, "no")
      /\ UNCHANGED <<row, msg, minted, raised, admitted, crashes>>
  BY DEF CompletePost, broker, history
<1>3. call' \in [Items -> CallType] /\ raised' \in [Items -> RaisedType]
  BY <1>1, <1>2, TurnStep DEF CallType, RaisedType, Types, TurnsOK
<1>4. RowsOK' /\ Messages(msg)' /\ MintedOK(minted)'
  BY <1>1, <1>2, SamePipeline
<1>5. admitted' \subseteq Jobs /\ crashes' \in 0 .. MaxCrashes
  BY <1>1, <1>2 DEF Types, JobsOK
<1>6. SUFFICES Moves /\ LetterMoves /\ ItemsOK' /\ Book(letter)' /\ job' \in [Jobs -> JobType]
  BY <1>1, <1>3, <1>4, <1>5, TypesFollow DEF Reduces
<1>7. CASE item[i].status = "dispatched"
  <2>1. PICK s \in Terminal : s = "succeeded"
    BY DEF Terminal
  <2>2. End(i, item, s)
    BY <1>7, <2>1 DEF CompletePost
  <2>3. \A k \in Items \ {i} : SameCore(item[k], item[k])
    BY DEF SameCore
  <2>4. item[i].status \in Active /\ job[JobOf[i]] \in Live
    BY <1>7, DispatchedLive DEF Active
  <2>5. <<WorkOf[i], item[i].event>> \in done
    BY <1>2 DEF IInv, Plans, InTurn, Numbered
  <2> QED BY <1>1, <2>1, <2>2, <2>3, <2>4, <2>5, EndReduces
<1>8. CASE item[i].status # "dispatched"
  <2>1. UNCHANGED <<job, item, letter>>
    BY <1>8 DEF CompletePost
  <2> QED BY <1>1, <2>1, SameLetters, QuietItems DEF Types, JobsOK, ItemsOK
<1> QED BY <1>7, <1>8

-----------------------------------------------------------------------------
(* The relay and the workers move the copy of an event.                     *)
LEMMA MoveIs ==
  ASSUME Types, NEW w \in Works, NEW e \in Events(w), NEW place \in Places, Move(w, e, place)
  PROVE  /\ Messages(msg)'
         /\ msg'[w][e].place = place
         /\ msg'[w][e].outbox = msg[w][e].outbox /\ msg'[w][e].attempt = msg[w][e].attempt
         /\ \A v \in Works : \A f \in Events(v) : v # w \/ f # e => msg'[v][f] = msg[v][f]
<1>1. msg[w] \in [Events(w) -> MsgType]
  BY DEF Types, Messages
<1>2. PICK m \in MsgType : m = msg[w][e]
  BY <1>1
<1>3. PICK r : r = [m EXCEPT !.place = place]
  OBVIOUS
<1>4. r \in MsgType /\ r.place = place /\ r.outbox = m.outbox /\ r.attempt = m.attempt
  BY <1>3 DEF MsgType
<1>5. msg' = [msg EXCEPT ![w][e] = [msg[w][e] EXCEPT !.place = place]]
  BY DEF Move
<1>6. MessageSetTo(msg, msg', w, e, r)
  BY <1>2, <1>3, <1>5 DEF MessageSetTo
<1>7. /\ Messages(msg') /\ msg'[w][e] = r
      /\ \A v \in Works : \A f \in Events(v) : v # w \/ f # e => msg'[v][f] = msg[v][f]
  BY <1>4, <1>6, MessageSet DEF Types
<1> QED BY <1>2, <1>4, <1>7 DEF Messages

LEMMA SetRowIs ==
  ASSUME Types, NEW w \in Works, NEW e \in Events(w), NEW b \in BOOLEAN,
         NEW s \in {"processing", "succeeded", "failed"}, SetRow(w, e, s, b)
  PROVE  /\ RowsOK'
         /\ row'[w].status = s /\ row'[w].event = e /\ row'[w].count = msg[w][e].attempt
         /\ \A v \in Works : v # w => row'[v] = row[v]
<1>1. row \in [Works -> RowType] /\ msg[w] \in [Events(w) -> MsgType]
  BY DEF Types, RowsOK, Messages
<1>2. PICK n \in Nat : n = msg[w][e].attempt
  BY <1>1 DEF MsgType
<1>3. PICK r : r = [status |-> s, retryable |-> b, count |-> n, event |-> e]
  OBVIOUS
<1>4. e \in Nat
  BY MaxEventsAssumption DEF Events
<1>5. r \in RowType /\ r.status = s /\ r.event = e /\ r.count = n
  BY <1>3, <1>4 DEF RowType
<1>6. row' = [row EXCEPT ![w] = r]
  BY <1>2, <1>3 DEF SetRow
<1> QED BY <1>1, <1>2, <1>5, <1>6 DEF RowsOK

(* The relay: the outcome of a publication.                                 *)
LEMMA OutcomeIs ==
  ASSUME Types, NEW w \in Works, NEW e \in Events(w), NEW ob \in {"published", "failed"},
         NEW n \in Nat, NEW accepted \in BOOLEAN, Outcome(w, e, ob, n, accepted)
  PROVE  /\ Messages(msg)'
         /\ msg'[w][e].attempt = msg[w][e].attempt
         /\ \/ msg'[w][e].place = msg[w][e].place
            \/ msg[w][e].place = "none" /\ msg'[w][e].place = "ready"
         /\ \A v \in Works : \A f \in Events(v) : v # w \/ f # e => msg'[v][f] = msg[v][f]
         /\ UNCHANGED <<job, row, letter, minted, raised, call, admitted, crashes, done>>
<1>1. msg[w] \in [Events(w) -> MsgType]
  BY DEF Types, Messages
<1>2. PICK m \in MsgType : m = msg[w][e]
  BY <1>1
<1>3. PICK p \in Places : p = IF accepted /\ m.place = "none" THEN "ready" ELSE m.place
  BY DEF MsgType, Places
<1>4. PICK r : r = [m EXCEPT !.outbox = ob, !.fails = n, !.place = p]
  OBVIOUS
<1>5. r \in MsgType /\ r.place = p /\ r.attempt = m.attempt
  BY <1>4 DEF MsgType
<1>6. MessageSetTo(msg, msg', w, e, r)
  BY <1>2, <1>3, <1>4 DEF Outcome, MessageSetTo
<1>7. /\ Messages(msg') /\ msg'[w][e] = r
      /\ \A v \in Works : \A f \in Events(v) : v # w \/ f # e => msg'[v][f] = msg[v][f]
  BY <1>5, <1>6, MessageSet DEF Types
<1>8. UNCHANGED <<job, row, letter, minted, raised, call, admitted, crashes, done>>
  BY DEF Outcome, history
<1> QED BY <1>2, <1>3, <1>5, <1>7, <1>8 DEF Messages

(* What the relay and the workers charge to an item's budget.               *)
LEMMA ObservedCore ==
  ASSUME NEW r \in ItemType, NEW n \in Nat
  PROVE  Observed(r, n) \in ItemType /\ SameCore(Observed(r, n), r)
<1>1. r.pub \in Nat /\ r.consumed \in Nat
  BY DEF ItemType
<1>2. PICK p \in Nat : p = Larger(r.pub, n)
  BY <1>1 DEF Larger
<1>3. PICK c \in Nat : c = Larger(r.consumed, Larger(r.pub, n) + Less(r.consumed, r.pub))
  BY <1>1, <1>2 DEF Larger, Less
<1>4. Observed(r, n) = [r EXCEPT !.pub = p, !.consumed = c]
  BY <1>2, <1>3 DEF Observed
<1> QED BY <1>4 DEF ItemType, SameCore

LEMMA ChargedCore ==
  ASSUME NEW r \in ItemType, NEW n \in Nat
  PROVE  Charged(r, n) \in ItemType /\ SameCore(Charged(r, n), r)
<1>1. r.pub \in Nat /\ r.consumed \in Nat /\ r.start \in Nat
  BY DEF ItemType
<1>2. PICK st \in Nat : st = IF r.start = 0 THEN n ELSE r.start
  BY <1>1
<1>3. PICK c \in Nat : c = Larger(r.consumed, Less(r.pub + n + 1, st))
  BY <1>1, <1>2 DEF Larger, Less
<1>4. Charged(r, n) = [r EXCEPT !.start = st, !.consumed = c]
  BY <1>2, <1>3 DEF Charged
<1> QED BY <1>4 DEF ItemType, SameCore

LEMMA RelayReduces ==
  ASSUME IInv, NEW w \in Works, NEW e \in Events(w), Relay(w, e)
  PROVE  /\ Reduces
         /\ msg'[w][e].attempt = msg[w][e].attempt
         /\ \/ msg'[w][e].place = msg[w][e].place
            \/ msg[w][e].place = "none" /\ msg'[w][e].place = "ready"
         /\ msg[w][e].outbox # "none"
         /\ \A v \in Works : \A f \in Events(v) : v # w \/ f # e => msg'[v][f] = msg[v][f]
         /\ UNCHANGED <<row, minted, raised, call, done>>
<1>1. Types /\ item \in [Items -> ItemType]
  BY InvTypes DEF Types, ItemsOK
<1>2. msg[w][e] \in MsgType
  BY <1>1 DEF Types, Messages
<1>3. PICK n \in Nat, ob \in {"published", "failed"}, accepted \in BOOLEAN :
        Outcome(w, e, ob, n, accepted) /\ Charge(w, e, n) /\ Publishable(w, e)
  <2>1. CASE Publish(w, e)
    BY <1>2, <2>1 DEF Publish, MsgType
  <2>2. CASE \E accepted \in BOOLEAN : PublishFails(w, e, accepted)
    <3>1. msg[w][e].fails + 1 \in Nat
      BY <1>2 DEF MsgType
    <3> QED BY <2>2, <3>1 DEF PublishFails
  <2> QED BY <2>1, <2>2 DEF Relay
<1>4. msg[w][e].outbox # "none"
  BY <1>3 DEF Publishable
<1>5. /\ Messages(msg)'
      /\ msg'[w][e].attempt = msg[w][e].attempt
      /\ \/ msg'[w][e].place = msg[w][e].place
         \/ msg[w][e].place = "none" /\ msg'[w][e].place = "ready"
      /\ \A v \in Works : \A f \in Events(v) : v # w \/ f # e => msg'[v][f] = msg[v][f]
      /\ UNCHANGED <<job, row, letter, minted, raised, call, admitted, crashes, done>>
  BY <1>1, <1>3, OutcomeIs
<1>6. ASSUME NEW k \in Items
      PROVE  item'[k] \in ItemType /\ Stays(k)
  <2>1. item[k] \in ItemType /\ SameCore(item[k], item[k])
    BY <1>1 DEF SameCore
  <2>2. Observed(item[k], n) \in ItemType /\ SameCore(Observed(item[k], n), item[k])
    BY <2>1, ObservedCore
  <2>3. item'[k] \in {item[k], Observed(item[k], n)}
    BY <1>3 DEF Charge
  <2> QED BY <2>1, <2>2, <2>3 DEF Stays
<1>7. ItemsOK'
  BY <1>3, <1>6 DEF Charge, ItemsOK
<1>8. Types'
  BY <1>1, <1>5, <1>7 DEF Types, JobsOK, RowsOK, TurnsOK, Book, MintedOK
<1>9. Moves
  BY <1>5, <1>6, Quiet
<1> QED BY <1>4, <1>5, <1>8, <1>9, SameLetters DEF Reduces

(* record_pipeline_dead_letter.                                             *)
LEMMA BuryIs ==
  ASSUME Types, NEW w \in Works, NEW e \in Events(w), Bury(w, e)
  PROVE  Book(letter)' /\ LetterMoves /\ ItemsOK' /\ \A k \in Items : Stays(k)
<1>1. item \in [Items -> ItemType] /\ letter[w] \in [Letters(w) -> LetterType]
  BY DEF Types, ItemsOK, Book
<1>2. e \in Letters(w)
  BY MaxEventsAssumption DEF Events, Letters
<1>3. [status |-> "unresolved", owner |-> NoItem] \in LetterType
  BY DEF LetterType
<1>4. PICK l \in LetterType : l = IF letter[w][e].status \in {"none", "resolved"}
                                  THEN [status |-> "unresolved", owner |-> NoItem] ELSE letter[w][e]
  BY <1>1, <1>2, <1>3
<1>5. PICK c : c = [letter[w] EXCEPT ![e] = l]
  OBVIOUS
<1>6. c \in [Letters(w) -> LetterType] /\ c[e] = l /\ \A f \in Letters(w) : f # e => c[f] = letter[w][f]
  BY <1>1, <1>2, <1>5
<1>7. LettersSetTo(letter, letter', w, c)
  BY <1>4, <1>5 DEF Bury, Buried, LettersSetTo
<1>8. Book(letter') /\ letter'[w] = c /\ \A v \in Works : v # w => letter'[v] = letter[v]
  BY <1>6, <1>7, LetterSet DEF Types
<1>9. Book(letter)'
  BY <1>8 DEF Book
<1>10. l = letter[w][e] \/ l.status = "unresolved"
  BY <1>4
<1>11. ASSUME NEW v \in Works, NEW f \in Letters(v)
       PROVE  LetterMove(v, f)
  BY <1>6, <1>8, <1>10 DEF LetterMove
<1>12. item' \in [Items -> ItemType] /\ \A k \in Items : Stays(k)
  BY <1>1, LettersWrittenCore DEF Bury, Stays
<1> QED BY <1>9, <1>11, <1>12 DEF LetterMoves, ItemsOK

LEMMA SameTurns ==
  ASSUME Types, UNCHANGED <<raised, call>>
  PROVE  raised' \in [Items -> RaisedType] /\ call' \in [Items -> CallType]
  BY DEF Types, TurnsOK

LEMMA DeliverReduces ==
  ASSUME IInv, NEW w \in Works, NEW e \in Events(w), Deliver(w, e)
  PROVE  Reduces
<1>1. Types /\ item \in [Items -> ItemType] /\ row \in [Works -> RowType]
  BY InvTypes DEF Types, ItemsOK, RowsOK
<1>2. UNCHANGED <<job, letter, minted, raised, call, admitted, crashes>>
  BY DEF Deliver, history
<1>3. PICK place \in Places : Move(w, e, place)
  BY DEF Deliver, Places
<1>4. Messages(msg)'
  BY <1>1, <1>3, MoveIs
<1>5. ItemsOK' /\ RowsOK' /\ \A k \in Items : Stays(k)
  <2>1. CASE UNCHANGED <<row, item>>
    BY <1>1, <2>1 DEF ItemsOK, RowsOK, Stays, SameCore
  <2>2. CASE SetRow(w, e, "processing", TRUE) /\ item' = RowWritten(item, w)
    BY <1>1, <2>2, SetRowIs, RowWrittenCore DEF ItemsOK, Stays
  <2> QED BY <2>1, <2>2 DEF Deliver
<1>6. Types'
  BY <1>1, <1>2, <1>4, <1>5, SameTurns, SameLetters, TypesFollow DEF Types, JobsOK, MintedOK
<1> QED BY <1>2, <1>5, <1>6, SameLetters, Quiet DEF Reduces

LEMMA MovedReduces ==
  ASSUME IInv, NEW w \in Works, NEW e \in Events(w), Superseded(w, e) \/ WorkerCrash(w, e)
  PROVE  Reduces
<1>1. Types
  BY InvTypes
<1>2. UNCHANGED <<job, item, row, letter, minted, raised, call, admitted>>
  BY DEF Superseded, WorkerCrash, history
<1>3. PICK place \in Places : Move(w, e, place)
  BY DEF Superseded, WorkerCrash, Places
<1>4. Messages(msg)'
  BY <1>1, <1>3, MoveIs
<1>5. crashes' \in 0 .. MaxCrashes
  BY <1>1, MaxCrashesAssumption DEF Superseded, WorkerCrash, history, Types
<1>6. Types'
  BY <1>1, <1>2, <1>4, <1>5 DEF Types, JobsOK, ItemsOK, RowsOK, TurnsOK, Book, MintedOK
<1> QED BY <1>2, <1>6, SameLetters, QuietItems DEF Reduces

LEMMA CompleteReduces ==
  ASSUME IInv, NEW w \in Works, NEW e \in Events(w), Complete(w, e)
  PROVE  Reduces
<1>1. Types /\ item \in [Items -> ItemType]
  BY InvTypes DEF Types, ItemsOK
<1>2. /\ Move(w, e, "gone") /\ SetRow(w, e, "succeeded", FALSE) /\ item' = RowWritten(item, w)
      /\ UNCHANGED <<job, letter, minted, raised, call, crashes, admitted>>
  BY DEF Complete
<1>3. "gone" \in Places
  BY DEF Places
<1>4. Messages(msg)'
  BY <1>1, <1>2, <1>3, MoveIs
<1>5. ItemsOK' /\ RowsOK' /\ \A k \in Items : Stays(k)
  BY <1>1, <1>2, SetRowIs, RowWrittenCore DEF ItemsOK, Stays
<1>6. Types'
  BY <1>1, <1>2, <1>4, <1>5, SameTurns, SameLetters, TypesFollow DEF Types, JobsOK, MintedOK
<1> QED BY <1>2, <1>5, <1>6, SameLetters, Quiet DEF Reduces

LEMMA MarkFailedReduces ==
  ASSUME IInv, NEW w \in Works, NEW e \in Events(w), NEW retryable \in BOOLEAN,
         MarkFailed(w, e, retryable)
  PROVE  Reduces
<1>1. Types /\ item \in [Items -> ItemType] /\ msg[w] \in [Events(w) -> MsgType]
  BY InvTypes DEF Types, ItemsOK, Messages
<1>2. PICK place \in Places : place = IF retryable THEN "failing" ELSE "refused"
  BY DEF Places
<1>3. /\ Move(w, e, place) /\ SetRow(w, e, "failed", retryable)
      /\ UNCHANGED <<job, letter, minted, raised, call, crashes, admitted>>
  BY <1>2 DEF MarkFailed, history
<1>4. Messages(msg)' /\ RowsOK'
  BY <1>1, <1>3, MoveIs, SetRowIs
<1>5. PICK n \in Nat : n = msg[w][e].attempt
  BY <1>1 DEF MsgType
<1>6. PICK f : f = [k \in Items |-> IF retryable /\ k \in Riders(w, e) THEN Charged(item[k], n)
                                    ELSE item[k]]
  OBVIOUS
<1>7. ASSUME NEW k \in Items
      PROVE  f[k] \in ItemType /\ SameCore(f[k], item[k])
  <2>1. item[k] \in ItemType /\ SameCore(item[k], item[k])
    BY <1>1 DEF SameCore
  <2>2. Charged(item[k], n) \in ItemType /\ SameCore(Charged(item[k], n), item[k])
    BY <2>1, ChargedCore
  <2>3. f[k] \in {item[k], Charged(item[k], n)}
    BY <1>6
  <2> QED BY <2>1, <2>2, <2>3
<1>8. f \in [Items -> ItemType]
  BY <1>6, <1>7
<1>9. item' = RowWritten(f, w)
  BY <1>5, <1>6 DEF MarkFailed
<1>10. item' \in [Items -> ItemType] /\ \A k \in Items : SameCore(item'[k], f[k])
  BY <1>8, <1>9, RowWrittenCore
<1>11. \A k \in Items : Stays(k)
  BY <1>7, <1>10 DEF Stays, SameCore
<1>12. Types'
  BY <1>1, <1>3, <1>4, <1>10, SameTurns, SameLetters, TypesFollow DEF Types, JobsOK, ItemsOK, MintedOK
<1> QED BY <1>3, <1>11, <1>12, SameLetters, Quiet DEF Reduces

(* _finalize_failure_for_cancelling_recovery: the copy is still there, so   *)
(* the work was not done.                                                   *)
LEMMA FinishCancelledReduces ==
  ASSUME IInv, NEW w \in Works, NEW e \in Events(w), FinishCancelled(w, e)
  PROVE  Reduces
<1>1. Types /\ item \in [Items -> ItemType]
  BY InvTypes DEF Types, ItemsOK
<1>2. Move(w, e, "gone") /\ UNCHANGED <<job, row, letter, minted, raised, call, crashes, admitted>>
  BY DEF FinishCancelled, history
<1>3. "gone" \in Places
  BY DEF Places
<1>4. Messages(msg)'
  BY <1>1, <1>2, <1>3, MoveIs
<1>5. <<w, e>> \notin done
  <2>1. Copied(w, e)
    BY DEF IInv, Truth
  <2> QED BY <2>1 DEF Copied, FinishCancelled
<1>6. PICK s \in Terminal : s = "failed"
  BY DEF Terminal
<1>7. item' = [k \in Items |-> IF k \in Cancelling(w, e) /\ item[k].status = "dispatched"
                               THEN Finished(item[k], s) ELSE item[k]]
  BY <1>6 DEF FinishCancelled
<1>8. ASSUME NEW k \in Items, k \in Cancelling(w, e), item[k].status = "dispatched"
      PROVE  Ends(k) /\ item'[k] \in ItemType
  <2>1. job[JobOf[k]] \in Live /\ WorkOf[k] = w /\ item[k].event = e
    BY <1>8 DEF Cancelling, Riders, OnWork, Live
  <2>2. PICK q \in ItemType : q = item[k]
    BY <1>1
  <2>3. Finished(q, s) \in ItemType /\ Finished(q, s).status = s
        /\ Finished(q, s).reserved = FALSE /\ Finished(q, s).event = q.event
    BY FinishedCore
  <2>4. item'[k] = Finished(q, s)
    BY <1>7, <1>8, <2>2
  <2>5. ~WorkDone(k)
    BY <1>5, <2>1 DEF WorkDone
  <2>6. item[k].status \in Active /\ s # "succeeded"
    BY <1>6, <1>8 DEF Active
  <2> QED BY <2>1, <2>2, <2>3, <2>4, <2>5, <2>6 DEF Ends
<1>9. ASSUME NEW k \in Items, ~(k \in Cancelling(w, e) /\ item[k].status = "dispatched")
      PROVE  Stays(k) /\ item'[k] \in ItemType
  BY <1>1, <1>7, <1>9 DEF Stays, SameCore
<1>10. ItemsOK'
  BY <1>7, <1>8, <1>9 DEF ItemsOK
<1>11. Moves
  BY <1>2, <1>8, <1>9 DEF Moves, ItemMove, JobMove
<1>12. Types'
  BY <1>1, <1>2, <1>4, <1>10, SameTurns, SameLetters, TypesFollow DEF Types, JobsOK, RowsOK, MintedOK
<1> QED BY <1>2, <1>11, <1>12, SameLetters DEF Reduces

LEMMA AnswerReduces ==
  ASSUME IInv, NEW w \in Works, NEW e \in Events(w), Answer(w, e)
  PROVE  Reduces
<1>1. Types
  BY InvTypes
<1>2. UNCHANGED <<job, row, minted, raised, call, crashes, admitted>>
  BY DEF Answer, history
<1>3. PICK place \in Places : Move(w, e, place)
  BY DEF Answer, Bury, Places
<1>4. Messages(msg)'
  BY <1>1, <1>3, MoveIs
<1>5. Book(letter)' /\ LetterMoves /\ ItemsOK' /\ \A k \in Items : Stays(k)
  <2>1. CASE UNCHANGED <<letter, item>>
    BY <1>1, <2>1, SameLetters DEF Types, ItemsOK, Stays, SameCore
  <2>2. CASE Bury(w, e)
    BY <1>1, <2>2, BuryIs
  <2> QED BY <2>1, <2>2 DEF Answer
<1>6. Types'
  BY <1>1, <1>2, <1>4, <1>5, SameTurns, TypesFollow DEF Types, JobsOK, RowsOK, MintedOK
<1> QED BY <1>2, <1>5, <1>6, Quiet DEF Reduces

(* A retry's copy returns with one attempt more.                            *)
LEMMA RetryExpiresIs ==
  ASSUME Types, NEW w \in Works, NEW e \in Events(w), RetryExpires(w, e)
  PROVE  /\ Messages(msg)'
         /\ msg'[w][e].place = "ready" /\ msg'[w][e].outbox = msg[w][e].outbox
         /\ \A v \in Works : \A f \in Events(v) : v # w \/ f # e => msg'[v][f] = msg[v][f]
<1>1. msg[w] \in [Events(w) -> MsgType]
  BY DEF Types, Messages
<1>2. PICK m \in MsgType : m = msg[w][e]
  BY <1>1
<1>3. PICK n \in Nat : n = m.attempt + 1
  BY DEF MsgType
<1>4. PICK r : r = [m EXCEPT !.place = "ready", !.attempt = n]
  OBVIOUS
<1>5. r \in MsgType /\ r.place = "ready" /\ r.outbox = m.outbox
  BY <1>4 DEF MsgType, Places
<1>6. MessageSetTo(msg, msg', w, e, r)
  BY <1>2, <1>3, <1>4 DEF RetryExpires, MessageSetTo
<1>7. /\ Messages(msg') /\ msg'[w][e] = r
      /\ \A v \in Works : \A f \in Events(v) : v # w \/ f # e => msg'[v][f] = msg[v][f]
  BY <1>5, <1>6, MessageSet DEF Types
<1> QED BY <1>2, <1>5, <1>7 DEF Messages

LEMMA RetryExpiresReduces ==
  ASSUME IInv, NEW w \in Works, NEW e \in Events(w), RetryExpires(w, e)
  PROVE  Reduces
<1>1. Types
  BY InvTypes
<1>2. UNCHANGED <<job, item, row, letter, minted, raised, call, crashes, admitted>>
  BY DEF RetryExpires, history
<1>3. Messages(msg)'
  BY <1>1, RetryExpiresIs
<1>4. Types'
  BY <1>1, <1>2, <1>3 DEF Types, JobsOK, ItemsOK, RowsOK, TurnsOK, Book, MintedOK
<1> QED BY <1>2, <1>4, SameLetters, QuietItems DEF Reduces

LEMMA AbandonReduces ==
  ASSUME IInv, NEW w \in Works, NEW e \in Events(w), Abandon(w, e)
  PROVE  Reduces
<1>1. Types /\ item \in [Items -> ItemType]
  BY InvTypes DEF Types, ItemsOK
<1>2. UNCHANGED <<job, minted, raised, call, admitted>>
  BY DEF Abandon
<1>3. PICK place \in Places : Move(w, e, place)
  BY DEF Abandon, Bury, Places
<1>4. Messages(msg)'
  BY <1>1, <1>3, MoveIs
<1>5. /\ Book(letter)' /\ LetterMoves /\ ItemsOK' /\ RowsOK' /\ \A k \in Items : Stays(k)
  <2>1. CASE UNCHANGED <<row, item, letter>>
    BY <1>1, <2>1, SameLetters DEF Types, ItemsOK, RowsOK, Stays, SameCore
  <2>2. CASE SetRow(w, e, "failed", TRUE) /\ item' = RowWritten(item, w) /\ UNCHANGED letter
    BY <1>1, <2>2, SetRowIs, RowWrittenCore, SameLetters DEF Types, ItemsOK, Stays
  <2>3. CASE Bury(w, e) /\ UNCHANGED row
    BY <1>1, <2>3, BuryIs DEF Types, RowsOK
  <2> QED BY <2>1, <2>2, <2>3 DEF Abandon
<1>6. crashes' \in 0 .. MaxCrashes
  BY <1>1, MaxCrashesAssumption DEF Abandon, Types
<1>7. Types'
  BY <1>1, <1>2, <1>4, <1>5, <1>6, SameTurns, TypesFollow DEF Types, JobsOK, MintedOK
<1> QED BY <1>2, <1>5, <1>7, Quiet DEF Reduces

-----------------------------------------------------------------------------
(* Crashes, replays that no item asked for, reclaims.                       *)
LEMMA DispatcherCrashReduces ==
  ASSUME IInv, NEW i \in Items, DispatcherCrash(i)
  PROVE  Reduces
<1>1. Types
  BY InvTypes
<1>2. UNCHANGED <<job, item, row, msg, minted, letter, admitted>>
  BY DEF DispatcherCrash, broker
<1>3. call' \in [Items -> CallType] /\ raised' \in [Items -> RaisedType]
  <2>1. raised \in [Items -> RaisedType] /\ raised' = [raised EXCEPT ![i] = "no"] /\ Step(i, "no")
    BY <1>1 DEF DispatcherCrash, Types, TurnsOK
  <2> QED BY <1>1, <2>1, TurnStep DEF CallType, RaisedType
<1>4. crashes' \in 0 .. MaxCrashes
  BY <1>1, MaxCrashesAssumption DEF DispatcherCrash, Types
<1>5. Types'
  BY <1>1, <1>2, <1>3, <1>4 DEF Types, JobsOK, ItemsOK, RowsOK, TurnsOK, Messages, Book, MintedOK
<1> QED BY <1>2, <1>5, SameLetters, QuietItems DEF Reduces

LEMMA OperatorReplayReduces ==
  ASSUME IInv, NEW w \in Works, OperatorReplay(w)
  PROVE  Reduces
<1>1. Types /\ item \in [Items -> ItemType]
  BY InvTypes DEF Types, ItemsOK
<1>2. Mint(w) /\ item' = RowWritten(item, w) /\ UNCHANGED <<job, letter, raised, call, crashes, admitted>>
  BY DEF OperatorReplay, history
<1>3. MintedOK(minted)' /\ Messages(msg)' /\ RowsOK'
  BY <1>1, <1>2, MintIs
<1>4. ItemsOK' /\ \A k \in Items : Stays(k)
  BY <1>1, <1>2, RowWrittenCore DEF ItemsOK, Stays
<1>5. Types'
  BY <1>1, <1>2, <1>3, <1>4, SameTurns, SameLetters, TypesFollow DEF Types, JobsOK
<1> QED BY <1>2, <1>4, <1>5, SameLetters, Quiet DEF Reduces

LEMMA ReclaimAtLimitIs ==
  ASSUME Types, NEW w \in Works, ReclaimAtLimit(w)
  PROVE  /\ ItemsOK' /\ RowsOK' /\ \A k \in Items : Stays(k)
         /\ row'[w].status = "failed" /\ row'[w].event = row[w].event /\ row'[w].count = row[w].count
         /\ \A v \in Works : v # w => row'[v] = row[v]
<1>1. item \in [Items -> ItemType] /\ row \in [Works -> RowType]
  BY DEF Types, ItemsOK, RowsOK
<1>2. PICK q \in RowType : q = row[w]
  BY <1>1
<1>3. PICK r : r = [q EXCEPT !.status = "failed", !.retryable = TRUE]
  OBVIOUS
<1>4. r \in RowType /\ r.status = "failed" /\ r.event = q.event /\ r.count = q.count
  BY <1>3 DEF RowType
<1>5. row' = [row EXCEPT ![w] = r] /\ item' = RowWritten(item, w)
  BY <1>2, <1>3 DEF ReclaimAtLimit
<1>6. row' \in [Works -> RowType] /\ row'[w] = r /\ \A v \in Works : v # w => row'[v] = row[v]
  BY <1>1, <1>4, <1>5
<1>7. item' \in [Items -> ItemType] /\ \A k \in Items : Stays(k)
  BY <1>1, <1>5, RowWrittenCore DEF Stays
<1> QED BY <1>2, <1>4, <1>6, <1>7 DEF ItemsOK, RowsOK

LEMMA ReclaimAtLimitReduces ==
  ASSUME IInv, NEW w \in Works, ReclaimAtLimit(w)
  PROVE  Reduces
<1>1. Types
  BY InvTypes
<1>2. UNCHANGED <<job, msg, minted, letter, raised, call, crashes, admitted>>
  BY DEF ReclaimAtLimit, broker, history
<1>3. ItemsOK' /\ RowsOK' /\ \A k \in Items : Stays(k)
  BY <1>1, ReclaimAtLimitIs
<1>4. Types'
  BY <1>1, <1>2, <1>3, SameTurns, SamePlumbing, TypesFollow
<1> QED BY <1>1, <1>2, <1>3, <1>4, SamePlumbing, Quiet DEF Reduces

(* _reclaim_next_stuck_stage: the linked item moves along to the new event. *)
Reclaimed(w, k) == k \in Riders(w, row[w].event) /\ item[k].status = "dispatched"

LEMMA ReclaimIs ==
  ASSUME IInv, NEW w \in Works, Reclaim(w)
  PROVE  /\ ItemsOK'
         /\ \A k \in Items : Reclaimed(w, k) =>
              MovesAlong(k) /\ item'[k].event = minted[w] + 1
         /\ \A k \in Items : ~Reclaimed(w, k) => Stays(k)
<1>1. Types /\ item \in [Items -> ItemType]
  BY InvTypes DEF Types, ItemsOK
<1>2. minted[w] \in Nat /\ minted'[w] = minted[w] + 1
  BY <1>1, MintIs DEF Reclaim
<1>3. PICK n \in Nat : n = minted[w] + 1
  BY <1>2
<1>4. PICK f : f = RowWritten(item, w)
  OBVIOUS
<1>5. f \in [Items -> ItemType] /\ \A k \in Items : SameCore(f[k], item[k])
  BY <1>1, <1>4, RowWrittenCore
<1>6. item' = [k \in Items |-> IF Reclaimed(w, k) THEN [f[k] EXCEPT !.event = n] ELSE f[k]]
  BY <1>3, <1>4 DEF Reclaim, Reclaimed
<1>7. ASSUME NEW k \in Items, Reclaimed(w, k)
      PROVE  MovesAlong(k) /\ item'[k].event = n /\ item'[k] \in ItemType
  <2>1. /\ WorkOf[k] = w /\ item[k].status = "dispatched"
        /\ row[w].status = "processing" /\ row[w].event = item[k].event
    BY <1>7 DEF Reclaimed, Riders, OnWork, Reclaim
  <2>2. ~IsPost(k)
    BY <2>1 DEF IsPost, Reclaim
  <2>3. PICK q \in ItemType : q = f[k]
    BY <1>5
  <2>4. PICK r : r = [q EXCEPT !.event = n]
    OBVIOUS
  <2>5. /\ r \in ItemType /\ r.event = n /\ r.status = q.status
        /\ r.reserved = q.reserved /\ r.snap = q.snap
    BY <2>4 DEF ItemType
  <2>6. item'[k] = r
    BY <1>6, <1>7, <2>3, <2>4
  <2>7. q.status = item[k].status /\ q.reserved = item[k].reserved /\ q.snap = item[k].snap
    BY <1>5, <2>3 DEF SameCore
  <2> QED BY <1>2, <1>3, <2>1, <2>2, <2>5, <2>6, <2>7 DEF MovesAlong
<1>8. ASSUME NEW k \in Items, ~Reclaimed(w, k)
      PROVE  Stays(k) /\ item'[k] \in ItemType
  BY <1>5, <1>6, <1>8 DEF Stays
<1>9. ItemsOK'
  BY <1>6, <1>7, <1>8 DEF ItemsOK
<1> QED BY <1>3, <1>7, <1>8, <1>9

LEMMA ReclaimReduces ==
  ASSUME IInv, NEW w \in Works, Reclaim(w)
  PROVE  Reduces
<1>1. Types
  BY InvTypes
<1>2. Mint(w) /\ UNCHANGED <<job, letter, raised, call, crashes, admitted>>
  BY DEF Reclaim, history
<1>3. MintedOK(minted)' /\ Messages(msg)' /\ RowsOK'
  BY <1>1, <1>2, MintIs
<1>4. ItemsOK' /\ \A k \in Items : ItemMove(k)
  BY ReclaimIs DEF ItemMove
<1>5. Types'
  BY <1>1, <1>2, <1>3, <1>4, SameTurns, SameLetters, TypesFollow DEF Types, JobsOK
<1> QED BY <1>2, <1>4, <1>5, SameLetters DEF Reduces, Moves, JobMove

-----------------------------------------------------------------------------
(* Reconciliation.  Where an item's own work was done and nobody took the   *)
(* row, the row says so.                                                    *)
LEMMA RowShows ==
  ASSUME IInv, NEW i \in Items, ~IsPost(i), item[i].status = "dispatched", WorkDone(i), ~TakenOver(i)
  PROVE  row[WorkOf[i]].event = item[i].event /\ row[WorkOf[i]].status = "succeeded"
<1>1. Shown(i) /\ Unrivalled(i)
  BY DEF IInv, Outcomes
<1>2. row[WorkOf[i]].event = item[i].event
  <2>1. SUFFICES ASSUME row[WorkOf[i]].event # item[i].event
                 PROVE  FALSE
    OBVIOUS
  <2>2. Alone(i)
    BY <2>1 DEF TakenOver, Alone
  <2> QED BY <1>1, <2>1, <2>2 DEF Unrivalled
<1> QED BY <1>1, <1>2 DEF Shown

LEMMA ReconcileExhaustedReduces ==
  ASSUME IInv, NEW i \in Items, ReconcileExhausted(i)
  PROVE  Reduces
<1>1. Types /\ item \in [Items -> ItemType] /\ row \in [Works -> RowType]
  BY InvTypes DEF Types, ItemsOK, RowsOK
<1>2. /\ item[i].status = "dispatched" /\ job[JobOf[i]] \in Live /\ ~IsPost(i)
      /\ row[WorkOf[i]].status = "pending"
      /\ UNCHANGED <<msg, minted, raised, call, admitted, crashes>>
  BY DEF ReconcileExhausted, Reconcilable, Exhausted, broker, history
<1>3. item[i].snap \in RowType
  BY <1>2 DEF IInv, Plans, Numbered
<1>4. RowsOK'
  BY <1>1, <1>3 DEF ReconcileExhausted, RowsOK
<1>5. PICK f : f = RowWritten(item, WorkOf[i])
  OBVIOUS
<1>6. f \in [Items -> ItemType] /\ \A k \in Items : SameCore(f[k], item[k])
  BY <1>1, <1>5, RowWrittenCore
<1>7. PICK s \in Terminal : s = "failed"
  BY DEF Terminal
<1>8. End(i, f, s)
  BY <1>5, <1>7 DEF ReconcileExhausted
<1>9. ~(WorkDone(i) /\ ~TakenOver(i))
  BY <1>2, RowShows
<1>10. \A k \in Items \ {i} : SameCore(f[k], item[k])
  BY <1>6
<1>11. f[i].event = item[i].event /\ s # "succeeded" /\ item[i].status \in Active
  BY <1>2, <1>6, <1>7 DEF SameCore, Active
<1>12. Moves /\ LetterMoves /\ ItemsOK' /\ Book(letter)' /\ job' \in [Jobs -> JobType]
  BY <1>2, <1>6, <1>8, <1>9, <1>10, <1>11, EndReduces
<1>13. Types'
  BY <1>1, <1>2, <1>4, <1>12, SameTurns, TypesFollow DEF Types, JobsOK, Messages, MintedOK
<1> QED BY <1>12, <1>13 DEF Reduces

LEMMA ReconcileReduces ==
  ASSUME IInv, NEW i \in Items, Reconcile(i)
  PROVE  Reduces
<1>1. Types /\ item \in [Items -> ItemType]
  BY InvTypes DEF Types, ItemsOK
<1>2. /\ item[i].status = "dispatched" /\ job[JobOf[i]] \in Live
      /\ UNCHANGED <<row, msg, minted, raised, call, admitted, crashes>>
  BY DEF Reconcile, Reconcilable, broker, history
<1>3. PICK s : s = OutcomeOf(i) /\ s # "none" /\ End(i, item, s)
  BY DEF Reconcile
<1>4. s \in Terminal
  BY <1>3 DEF OutcomeOf, PostOutcome, StageOutcome, Terminal
<1>5. s = "succeeded" => <<WorkOf[i], item[i].event>> \in done
  <2>1. RowIsTrue(WorkOf[i], row[WorkOf[i]]) /\ Numbered(i)
    BY Plan_ DEF IInv, Truth, Plans
  <2>2. CASE IsPost(i)
    BY <1>3, <2>1, <2>2 DEF OutcomeOf, PostOutcome, RowIsTrue, Numbered
  <2>3. CASE ~IsPost(i)
    <3>1. s = "succeeded" => row[WorkOf[i]].event = item[i].event /\ row[WorkOf[i]].status = "succeeded"
      BY <1>3, <2>3 DEF OutcomeOf, StageOutcome
    <3>2. minted[WorkOf[i]] \in Nat
      BY <1>1, Plan_ DEF Types, MintedOK
    <3>3. item[i].event # 0
      BY <1>2, <2>1, <2>3, <3>2 DEF Numbered
    <3> QED BY <2>1, <3>1, <3>3 DEF RowIsTrue
  <2> QED BY <2>2, <2>3
<1>6. ~IsPost(i) /\ WorkDone(i) /\ ~TakenOver(i) => s = "succeeded"
  <2>1. SUFFICES ASSUME ~IsPost(i), WorkDone(i), ~TakenOver(i)
                 PROVE  s = "succeeded"
    OBVIOUS
  <2>2. row[WorkOf[i]].event = item[i].event /\ row[WorkOf[i]].status = "succeeded"
    BY <1>2, <2>1, RowShows
  <2> QED BY <1>3, <2>1, <2>2 DEF OutcomeOf, StageOutcome
<1>7. \A k \in Items \ {i} : SameCore(item[k], item[k])
  BY DEF SameCore
<1>8. item[i].status \in Active
  BY <1>2 DEF Active
<1>9. Moves /\ LetterMoves /\ ItemsOK' /\ Book(letter)' /\ job' \in [Jobs -> JobType]
  BY <1>1, <1>2, <1>3, <1>4, <1>5, <1>6, <1>7, <1>8, EndReduces
<1>10. Types'
  BY <1>1, <1>2, <1>9, SameTurns, SamePipeline, TypesFollow DEF Types, JobsOK
<1> QED BY <1>9, <1>10 DEF Reduces

LEMMA RequeuePostReduces ==
  ASSUME IInv, NEW i \in Items, RequeuePost(i)
  PROVE  Reduces
<1>1. Types /\ item \in [Items -> ItemType]
  BY InvTypes DEF Types, ItemsOK
<1>2. /\ item[i].status = "dispatched" /\ job[JobOf[i]] \in Live /\ IsPost(i)
      /\ UNCHANGED <<row, msg, minted, raised, call, admitted, crashes>>
  BY DEF RequeuePost, Reconcilable, broker, history
<1>3. SUFFICES Moves /\ LetterMoves /\ ItemsOK' /\ Book(letter)' /\ job' \in [Jobs -> JobType]
  BY <1>1, <1>2, SameTurns, SamePipeline, TypesFollow DEF Reduces, Types, JobsOK
<1>4. PICK q \in ItemType : q = item[i]
  BY <1>1
<1>5. PICK n \in Nat : n = q.consumed + (IF q.seen THEN 0 ELSE 1)
  BY DEF ItemType
<1>6. PICK r : r = [q EXCEPT !.consumed = n, !.seen = TRUE]
  OBVIOUS
<1>7. r \in ItemType /\ SameCore(r, q)
  BY <1>6 DEF ItemType, SameCore
<1>8. r = [item[i] EXCEPT !.consumed = @ + (IF item[i].seen THEN 0 ELSE 1), !.seen = TRUE]
  BY <1>4, <1>5, <1>6
<1>9. item[i].status \in Active
  BY <1>2 DEF Active
<1>10. CASE r.consumed < LimitOf(i) /\ job[JobOf[i]] \in Admitting
  <2>1. PICK t : t = [r EXCEPT !.status = "queued", !.fresh = TRUE]
    OBVIOUS
  <2>2. t \in ItemType /\ t.status \in Waiting /\ t.reserved = r.reserved /\ t.event = r.event
    BY <1>7, <2>1 DEF ItemType, Active, Waiting
  <2>3. item' = [item EXCEPT ![i] = t] /\ UNCHANGED <<job, letter>>
    BY <1>8, <1>10, <2>1 DEF RequeuePost
  <2>4. item' \in [Items -> ItemType] /\ item'[i] = t /\ \A k \in Items : k # i => Stays(k)
    BY <1>1, <2>2, <2>3, ItemSet DEF Stays
  <2>5. Waits(i)
    BY <1>2, <1>4, <1>7, <1>9, <1>10, <2>2, <2>3, <2>4 DEF Waits, UnderAdmission, SameCore
  <2>6. Moves
    BY <2>3, <2>4, <2>5 DEF Moves, ItemMove, JobMove
  <2> QED BY <1>1, <2>3, <2>4, <2>6, SameLetters DEF Types, JobsOK, ItemsOK
<1>11. CASE ~(r.consumed < LimitOf(i) /\ job[JobOf[i]] \in Admitting)
  <2>1. PICK s \in Terminal : s = "failed"
    BY DEF Terminal
  <2>2. PICK f : f = [item EXCEPT ![i] = r]
    OBVIOUS
  <2>3. f \in [Items -> ItemType] /\ f[i] = r /\ \A k \in Items \ {i} : SameCore(f[k], item[k])
    BY <1>1, <1>7, <2>2, ItemSet
  <2>4. End(i, f, s)
    BY <1>8, <1>11, <2>1, <2>2 DEF RequeuePost
  <2>5. f[i].event = item[i].event /\ s # "succeeded"
    BY <1>4, <1>7, <2>1, <2>3 DEF SameCore
  <2> QED BY <1>2, <1>9, <2>3, <2>4, <2>5, EndReduces
<1> QED BY <1>10, <1>11

LEMMA SkipDependentReduces ==
  ASSUME IInv, NEW i \in Items, SkipDependent(i)
  PROVE  Reduces
<1>1. Types /\ item \in [Items -> ItemType]
  BY InvTypes DEF Types, ItemsOK
<1>2. /\ item[i].status = "waiting_dependency" /\ job[JobOf[i]] \in Live
      /\ UNCHANGED <<row, msg, minted, letter, raised, call, admitted, crashes>>
  BY DEF SkipDependent, broker, history
<1>3. PICK s \in Terminal : s = "skipped_dependency"
  BY DEF Terminal
<1>4. PICK q \in ItemType : q = item[i]
  BY <1>1
<1>5. PICK t : t = Finished(q, s)
  OBVIOUS
<1>6. t \in ItemType /\ t.status = s /\ t.reserved = FALSE /\ t.event = q.event
  BY <1>5, FinishedCore
<1>7. item' = [item EXCEPT ![i] = t] /\ job' = Recounted(item', JobOf[i])
  BY <1>3, <1>4, <1>5 DEF SkipDependent
<1>8. item' \in [Items -> ItemType] /\ item'[i] = t /\ \A k \in Items : k # i => Stays(k)
  BY <1>1, <1>6, <1>7, ItemSet DEF Stays
<1>9. /\ job' \in [Jobs -> JobType]
      /\ \A j \in Jobs : job'[j] = job[j] \/ (job[j] \in Live /\ Settles(j))
  BY <1>1, <1>7, RecountedIs DEF Types, JobsOK
<1>10. Ends(i)
  BY <1>2, <1>3, <1>4, <1>6, <1>8 DEF Ends, Active, Waiting
<1>11. Moves
  BY <1>8, <1>9, <1>10 DEF Moves, ItemMove, JobMove
<1>12. Types'
  BY <1>1, <1>2, <1>8, <1>9, SameTurns, SamePipeline, SameLetters, TypesFollow
     DEF Types, JobsOK, ItemsOK
<1> QED BY <1>2, <1>11, <1>12, SameLetters DEF Reduces

(* The recount judges whatever it was given, a settled job included.        *)
LEMMA RecountJobReduces ==
  ASSUME IInv, NEW j \in Jobs, RecountJob(j)
  PROVE  Reduces
<1>1. Types /\ job \in [Jobs -> JobType]
  BY InvTypes DEF Types, JobsOK
<1>2. UNCHANGED <<item, row, msg, minted, letter, raised, call, admitted, crashes>>
  BY DEF RecountJob, broker, history
<1>3. PICK v : v = Verdict(item, j, job[j])
  OBVIOUS
<1>4. v \in JobType
  BY <1>3 DEF Verdict, JobType, Settled
<1>5. job' = [job EXCEPT ![j] = v]
  BY <1>3 DEF RecountJob
<1>6. job' \in [Jobs -> JobType] /\ job'[j] = v /\ \A k \in Jobs : k # j => job'[k] = job[k]
  BY <1>1, <1>4, <1>5
<1>7. AllEnded(item', j) /\ job'[j] = Verdict(item', j, job[j])
  BY <1>2, <1>3, <1>6 DEF RecountJob
<1>8. Settles(j)
  BY <1>7, Judged
<1>9. \A i \in Items : Stays(i)
  BY <1>2 DEF Stays, SameCore
<1>10. Types'
  BY <1>1, <1>2, <1>6, SameTurns, SamePipeline, SameLetters, TypesFollow DEF Types, JobsOK, ItemsOK
<1> QED BY <1>2, <1>6, <1>8, <1>9, <1>10, SameLetters DEF Reduces, Moves, ItemMove, JobMove

-----------------------------------------------------------------------------
(* Every step is made of those moves.                                       *)
LEMMA StepReduces ==
  ASSUME IInv, [Next]_vars
  PROVE  Reduces
<1>1. CASE UNCHANGED vars
  <2>1. Types
    BY InvTypes
  <2>2. UNCHANGED <<job, item, row, msg, minted, letter, raised, call, crashes, admitted>>
    BY <1>1 DEF vars
  <2>3. Types'
    BY <2>1, <2>2 DEF Types, JobsOK, ItemsOK, RowsOK, TurnsOK, Messages, Book, MintedOK
  <2> QED BY <2>2, <2>3, SameLetters, QuietItems DEF Reduces
<1>2. ASSUME NEW j \in Jobs, Plan(j) \/ RecountJob(j)
      PROVE  Reduces
  BY <1>2, CreateReduces, ScheduleReduces, ExpireReduces, CancelReduces, RecountJobReduces
     DEF Plan, Preview, Perform
<1>3. ASSUME NEW i \in Items, DispatchTurn(i)
      PROVE  Reduces
  BY <1>3, DispatchStaleReduces, DispatchWaitsReduces, DispatchReduces, BeginReplayReduces,
     DispatchRaisesReduces DEF DispatchTurn
<1>4. ASSUME NEW i \in Items, Replay(i)
      PROVE  Reduces
  <2>1. CASE FetchFails(i) \/ ReplayBreaks(i)
    BY <2>1, FetchFailsReduces
  <2>2. CASE \/ Observe(i) \/ ReplayFails(i) \/ ReplayAccepts(i)
             \/ \E how \in {"retryable", "terminal"} : ReplayUnsupported(i, how)
    BY <2>2, PostWrittenReduces
  <2>3. CASE CompletePost(i)
    BY <2>3, CompletePostReduces
  <2> QED BY <1>4, <2>1, <2>2, <2>3 DEF Replay
<1>5. ASSUME NEW i \in Items, ReconcileTurn(i) \/ RecordFailure(i) \/ DispatcherCrash(i)
      PROVE  Reduces
  BY <1>5, ReconcileExhaustedReduces, ReconcileReduces, RequeuePostReduces, SkipDependentReduces,
     RecordFailureReduces, DispatcherCrashReduces DEF ReconcileTurn
<1>6. ASSUME NEW w \in Works, OperatorReplay(w) \/ ReclaimAtLimit(w) \/ Reclaim(w)
      PROVE  Reduces
  BY <1>6, OperatorReplayReduces, ReclaimAtLimitReduces, ReclaimReduces
<1>7. ASSUME NEW w \in Works, NEW e \in Events(w), Relay(w, e) \/ Deliver(w, e) \/ Run(w, e)
      PROVE  Reduces
  <2>1. CASE Relay(w, e) \/ Deliver(w, e)
    BY <2>1, RelayReduces, DeliverReduces
  <2>2. CASE Run(w, e)
    BY <2>2, MovedReduces, CompleteReduces, MarkFailedReduces DEF Run
  <2> QED BY <1>7, <2>1, <2>2
<1>8. ASSUME NEW w \in Works, NEW e \in Events(w),
             \/ FinishCancelled(w, e) \/ Answer(w, e) \/ RetryExpires(w, e)
             \/ Abandon(w, e) \/ WorkerCrash(w, e)
      PROVE  Reduces
  BY <1>8, FinishCancelledReduces, AnswerReduces, RetryExpiresReduces, AbandonReduces, MovedReduces
<1> QED BY <1>1, <1>2, <1>3, <1>4, <1>5, <1>6, <1>7, <1>8 DEF Next

(* Reservations.  An owner's claim follows its status and its job's; a plan *)
(* or an admission takes only works that nobody owned.                      *)
LEMMA OwnerMove ==
  ASSUME IInv, Reduces, NEW i \in Items
  PROVE  item'[i].reserved <=> job'[JobOf[i]] \in Live /\ item'[i].status \in Active
<1>1. item[i].reserved <=> job[JobOf[i]] \in Live /\ item[i].status \in Active
  BY DEF IInv, OneOwner
<1>2. PICK j \in Jobs : j = JobOf[i] /\ i \in ItemsOf(j)
  BY Plan_ DEF ItemsOf
<1>3. ItemMove(i) /\ JobMove(j) /\ Fits(i)
  BY DEF Reduces, Moves, IInv, Plans
<1>4. item[i].reserved \in BOOLEAN /\ item'[i].reserved \in BOOLEAN
  BY InvTypes DEF Reduces, Types, ItemsOK, ItemType
<1>5. /\ "queued" \in Live /\ "preview" \notin Live /\ Admitting \subseteq Live
      /\ "dispatched" \in Active /\ Waiting \subseteq Active
      /\ \A s \in Terminal : s \notin Active
      /\ \A s \in Settled : s \notin Live
  BY DEF Live, Admitting, Active, Waiting, Terminal, Settled
<1>6. CASE IsPlanned(i)
  BY <1>4, <1>5, <1>6 DEF IsPlanned
<1>7. CASE IsAdmitted(i)
  <2>1. item[i].status \in Waiting
    BY <1>3, <1>7 DEF IsAdmitted, Fits
  <2> QED BY <1>5, <1>7, <2>1 DEF IsAdmitted
<1>8. CASE Waits(i) \/ Begins(i)
  BY <1>1, <1>5, <1>8 DEF Waits, Begins, UnderAdmission
<1>9. CASE IsSent(i)
  BY <1>5, <1>9 DEF IsSent, UnderAdmission
<1>10. CASE Ends(i)
  BY <1>5, <1>10 DEF Ends
<1>11. CASE Stays(i) \/ MovesAlong(i)
  <2>1. item'[i].status = item[i].status /\ item'[i].reserved = item[i].reserved
    BY <1>11 DEF Stays, SameCore, MovesAlong
  <2>2. CASE job'[j] = job[j]
    BY <1>1, <1>2, <2>1, <2>2
  <2>3. CASE job[j] = "none"
    <3>1. item[i].status \notin Active /\ item[i].status \notin Live
      BY <1>2, <1>3, <2>3 DEF Fits, Active, Waiting, Live, Admitting
    <3> QED BY <1>1, <2>1, <3>1
  <2>4. CASE job[j] = "preview" /\ job'[j] = "queued" /\ \A k \in ItemsOf(j) : IsAdmitted(k)
    BY <1>2, <1>7, <2>4
  <2>5. CASE job[j] = "preview" /\ job'[j] = "expired"
    BY <1>1, <1>2, <1>5, <2>1, <2>5 DEF Settled
  <2>6. CASE job[j] = "queued" /\ job'[j] = "running"
    BY <1>1, <1>2, <2>1, <2>6 DEF Live, Admitting
  <2>7. CASE job[j] \in Live /\ job'[j] = "cancelling"
    BY <1>1, <1>2, <2>1, <2>7 DEF Live
  <2>8. CASE Settles(j)
    <3>1. item'[i].status \notin Active /\ job'[j] \notin Live
      BY <1>2, <1>5, <2>8 DEF Settles
    <3> QED BY <1>1, <1>2, <2>1, <3>1
  <2> QED BY <1>3, <2>2, <2>3, <2>4, <2>5, <2>6, <2>7, <2>8 DEF JobMove
<1> QED BY <1>3, <1>6, <1>7, <1>8, <1>9, <1>10, <1>11 DEF ItemMove

LEMMA OneOwnerStep ==
  ASSUME IInv, Reduces
  PROVE  OneOwner'
<1>1. \A i \in Items :
        item'[i].reserved <=> job'[JobOf[i]] \in Live /\ item'[i].status \in Active
  BY OwnerMove
<1>2. ASSUME NEW i \in Items, item'[i].reserved
      PROVE  \/ item[i].reserved
             \/ ~Owned(i) /\ job[JobOf[i]] \in {"none", "preview"}
             \/ IsSent(i)
  <2>1. ItemMove(i)
    BY DEF Reduces, Moves
  <2>2. item[i].reserved \in BOOLEAN /\ item'[i].reserved \in BOOLEAN
    BY InvTypes DEF Reduces, Types, ItemsOK, ItemType
  <2> QED BY <1>2, <2>1, <2>2
          DEF ItemMove, Stays, SameCore, IsPlanned, IsAdmitted, Waits, Begins, MovesAlong, Ends
<1>3. ASSUME NEW i \in Items, IsSent(i)
      PROVE  item[i].reserved
  BY <1>3 DEF IInv, OneOwner, IsSent, UnderAdmission, Live, Active
<1>4. ASSUME NEW i \in Items, NEW k \in Items, i # k, WorkOf[i] = WorkOf[k],
             item'[i].reserved, item'[k].reserved
      PROVE  FALSE
  <2>1. ~(item[i].reserved /\ item[k].reserved)
    BY <1>4 DEF IInv, OneOwner
  <2>2. ASSUME NEW m \in Items, NEW n \in Items, m # n, WorkOf[m] = WorkOf[n],
               item[m].reserved, ~Owned(n)
        PROVE  FALSE
    BY <2>2 DEF Owned, OnWork
  <2>3. CASE item[i].reserved
    BY <1>2, <1>3, <1>4, <2>1, <2>2, <2>3
  <2>4. CASE item[k].reserved
    BY <1>2, <1>3, <1>4, <2>1, <2>2, <2>4
  <2>5. CASE ~item[i].reserved /\ ~item[k].reserved
    <3>1. job[JobOf[i]] \in {"none", "preview"} /\ job[JobOf[k]] \in {"none", "preview"}
      BY <1>2, <1>3, <1>4, <2>5
    <3>2. job'[JobOf[i]] \in Live /\ job'[JobOf[k]] \in Live
      BY <1>1, <1>4
    <3>3. PICK j \in Jobs, l \in Jobs : j = JobOf[i] /\ l = JobOf[k] /\ j # l
      BY <1>4, Plan_
    <3>4. JobMove(j)
      BY DEF Reduces, Moves
    <3>5. \A s \in {"none", "preview"} : s \notin Live
      BY DEF Live, Admitting
    <3>6. job'[l] = job[l]
      BY <3>1, <3>2, <3>3, <3>4, <3>5 DEF JobMove, Live, Admitting, Settles, Settled
    <3> QED BY <3>1, <3>2, <3>3, <3>5, <3>6
  <2> QED BY <2>3, <2>4, <2>5
<1> QED BY <1>1, <1>4 DEF OneOwner

-----------------------------------------------------------------------------
(* What the moves of items and jobs alone preserve.                         *)
LEMMA TerminalStays ==
  ASSUME IInv, Reduces, NEW i \in Items, item[i].status \in Terminal
  PROVE  item'[i].status = item[i].status /\ item'[i].event = item[i].event
<1>1. ItemMove(i) /\ Fits(i)
  BY DEF Reduces, Moves, IInv, Plans
<1>2. item[i].status \notin Active /\ item[i].status \notin Waiting /\ item[i].status # "none"
  BY DEF Terminal, Active, Waiting
<1>3. ~IsPlanned(i) /\ ~IsAdmitted(i)
  BY <1>1, <1>2 DEF Fits, IsPlanned, IsAdmitted
<1>4. ~Waits(i) /\ ~Begins(i) /\ ~IsSent(i) /\ ~Ends(i)
  BY <1>2 DEF Waits, Begins, IsSent, Ends
<1>5. ~MovesAlong(i)
  BY <1>2 DEF MovesAlong, Active
<1> QED BY <1>1, <1>3, <1>4, <1>5 DEF ItemMove, Stays, SameCore

LEMMA FitsStep ==
  ASSUME IInv, Reduces, NEW i \in Items
  PROVE  Fits(i)'
<1>1. PICK j \in Jobs : j = JobOf[i] /\ i \in ItemsOf(j)
  BY Plan_ DEF ItemsOf
<1>2. ItemMove(i) /\ JobMove(j) /\ Fits(i) /\ job[j] \in JobType
  BY InvTypes DEF Reduces, Moves, IInv, Plans, Types, JobsOK
<1>3. \A s \in Active \cup Terminal : s # "none"
  BY DEF Active, Waiting, Terminal
<1>4. item[i].status # "none" => item'[i].status # "none"
  BY <1>2, <1>3 DEF ItemMove, Stays, SameCore, IsPlanned, IsAdmitted, Waits, Begins, IsSent,
                    MovesAlong, Ends, Active
<1>5. CASE job'[j] = job[j]
  <2>1. CASE Stays(i)
    BY <1>1, <1>2, <1>5, <2>1 DEF Stays, SameCore, Fits
  <2>2. CASE ~Stays(i)
    <3>1. ~IsPlanned(i) /\ ~IsAdmitted(i)
      BY <1>1, <1>5, <2>2 DEF IsPlanned, IsAdmitted
    <3>2. item[i].status \in Active
      BY <1>2, <2>2, <3>1 DEF ItemMove, Waits, Begins, IsSent, MovesAlong, Ends, Active
    <3>3. job[j] \in Live
      <4>1. CASE MovesAlong(i)
        BY <1>1, <4>1, DispatchedLive DEF MovesAlong
      <4>2. CASE Ends(i)
        BY <1>1, <1>5, <4>2 DEF Ends
      <4> QED BY <1>1, <1>2, <2>2, <3>1, <4>1, <4>2
              DEF ItemMove, Waits, Begins, IsSent, UnderAdmission, Live
    <3>4. job'[j] \notin {"never", "none", "preview", "expired"} /\ job'[j] \notin Settled
      BY <1>5, <3>3 DEF Live, Admitting, Settled
    <3>5. item'[i].status # "none"
      BY <1>3, <1>4, <3>2
    <3> QED BY <1>1, <3>4, <3>5 DEF Fits
  <2> QED BY <2>1, <2>2
<1>6. CASE job[j] = "none" /\ job'[j] \in {"preview", "queued"} /\ \A k \in ItemsOf(j) : IsPlanned(k)
  <2>1. item'[i].status \in Waiting
    BY <1>1, <1>6 DEF IsPlanned
  <2> QED BY <1>1, <1>3, <1>6, <2>1 DEF Fits, Settled, Active
<1>7. CASE job[j] = "preview" /\ job'[j] = "queued" /\ \A k \in ItemsOf(j) : IsAdmitted(k)
  <2>1. item[i].status # "none"
    BY <1>1, <1>2, <1>7 DEF Fits
  <2> QED BY <1>1, <1>4, <1>7, <2>1 DEF Fits, Settled
<1>8. CASE job[j] = "preview" /\ job'[j] = "expired" /\ \A k \in ItemsOf(j) : Stays(k)
  <2>1. item'[i].status = item[i].status /\ item[i].status \in Waiting
    BY <1>1, <1>2, <1>8 DEF Fits, Stays, SameCore
  <2> QED BY <1>1, <1>3, <1>8, <2>1 DEF Fits, Active
<1>9. CASE (job[j] = "queued" /\ job'[j] = "running") \/ (job[j] \in Live /\ job'[j] = "cancelling")
  <2>1. item[i].status # "none"
    BY <1>1, <1>2, <1>9 DEF Fits, Live, Admitting
  <2> QED BY <1>1, <1>4, <1>9, <2>1 DEF Fits, Settled
<1>10. CASE Settles(j)
  <2>1. item'[i].status \in Terminal /\ job'[j] \in Settled \ {"expired"}
    BY <1>1, <1>10 DEF Settles
  <2> QED BY <1>1, <1>3, <2>1 DEF Fits, Settled
<1> QED BY <1>2, <1>5, <1>6, <1>7, <1>8, <1>9, <1>10 DEF JobMove

LEMMA ReportedStep ==
  ASSUME IInv, Reduces, NEW j \in Jobs
  PROVE  Reported(j)'
<1>1. JobMove(j) /\ Reported(j)
  BY DEF Reduces, Moves, IInv, Reports
<1>2. CASE job'[j] = job[j] /\ job[j] \in {"completed", "completed_with_failures"}
  <2>1. ASSUME NEW i \in ItemsOf(j)
        PROVE  item'[i].status = item[i].status
    <3>1. i \in Items /\ JobOf[i] = j
      BY DEF ItemsOf
    <3>2. item[i].status \in Terminal
      BY <1>2, <3>1 DEF IInv, Plans, Fits, Settled
    <3> QED BY <3>1, <3>2, TerminalStays
  <2>2. ItemsOf(j)' = ItemsOf(j)
    BY DEF ItemsOf
  <2> QED BY <1>1, <1>2, <2>1, <2>2 DEF Reported
<1>3. CASE Settles(j)
  BY <1>3 DEF Settles, Reported, ItemsOf
<1>4. CASE job'[j] \notin {"completed", "completed_with_failures"}
  BY <1>4 DEF Reported
<1>5. \/ job'[j] = job[j] \/ Settles(j)
      \/ job'[j] \notin {"completed", "completed_with_failures"}
  BY <1>1 DEF JobMove
<1> QED BY <1>2, <1>3, <1>4, <1>5

LEMMA RedeemedStep ==
  ASSUME IInv, Reduces, NEW w \in Works, NEW e \in Letters(w)
  PROVE  Redeemed(w, e)'
<1>1. LetterMove(w, e) /\ Redeemed(w, e)
  BY DEF Reduces, LetterMoves, IInv, Letters_
<1>2. CASE letter'[w][e] = letter[w][e]
  <2>1. letter[w][e].status = "resolved" =>
          letter[w][e].owner \in Items /\ item'[letter[w][e].owner].status = "succeeded"
    BY <1>1, TerminalStays DEF Redeemed, Terminal
  <2> QED BY <1>2, <2>1 DEF Redeemed
<1> QED BY <1>1, <1>2 DEF LetterMove, Redeemed

-----------------------------------------------------------------------------
(* What becomes of work w: of its row, its events, their copies and what is *)
(* known to be done.  It is left alone; a new event is minted, by an        *)
(* operator, for an item that is sent or for the items that move along; one *)
(* copy moves, its delivery writing the row or not; a post is written; the  *)
(* row is given up at the attempt limit or restored to a snapshot.          *)
SameRow(w) == row'[w] = row[w]
SameMinted(w) == minted'[w] = minted[w]
SameCopies(w) == \A f \in Events(w) : msg'[w][f] = msg[w][f]
OtherCopies(w, e) == \A f \in Events(w) : f # e => msg'[w][f] = msg[w][f]
SameDone(w) == \A f \in Nat : <<w, f>> \in done' <=> <<w, f>> \in done
MoreDone(w, e) == \A f \in Nat : <<w, f>> \in done' <=> <<w, f>> \in done \/ f = e

Still(w) == SameRow(w) /\ SameMinted(w) /\ SameCopies(w) /\ SameDone(w)

Mints(w) ==
  /\ minted'[w] = minted[w] + 1 /\ minted[w] + 1 \in Events(w) /\ SameDone(w)
  /\ row'[w].status = "pending" /\ row'[w].count = row[w].count + 1
  /\ row'[w].event = minted[w] + 1
  /\ msg'[w][minted[w] + 1].place = "none"
  /\ OtherCopies(w, minted[w] + 1)
  /\ \/ w \in Operated
     \/ \E k \in OnWork(w) : IsSent(k)
     \/ /\ row[w].status = "processing"
        /\ \A k \in Items : Reclaimed(w, k) => item'[k].event = minted[w] + 1

(* The copy of event e and a delivery that writes the row.                  *)
Relayed(w, e) ==
  /\ msg[w][e].outbox # "none" /\ msg'[w][e].attempt = msg[w][e].attempt
  /\ \/ msg'[w][e].place = msg[w][e].place
     \/ msg[w][e].place = "none" /\ msg'[w][e].place = "ready"
  /\ SameRow(w) /\ SameDone(w)
Carried(w, e) ==
  /\ msg[w][e].place \notin {"none", "gone"} /\ msg'[w][e].attempt = msg[w][e].attempt
  /\ msg'[w][e].place \notin {"failing", "refused"}
  /\ msg'[w][e].place = "retry" => msg[w][e].place \in {"failing", "refused"}
  /\ SameRow(w) /\ SameDone(w)
Returned(w, e) ==
  /\ msg[w][e].place = "retry" /\ msg'[w][e].place = "ready"
  /\ SameRow(w) /\ SameDone(w)
Delivers(w, e, status) ==
  /\ msg[w][e].place \in {"ready", "running"} /\ IsCurrent(w, e)
  /\ msg'[w][e].attempt = msg[w][e].attempt
  /\ row'[w].status = status /\ row'[w].event = e /\ row'[w].count = msg[w][e].attempt
Started(w, e) ==
  Delivers(w, e, "processing") /\ msg'[w][e].place = "running" /\ SameDone(w)
Failed(w, e) ==
  Delivers(w, e, "failed") /\ SameDone(w)
Completed(w, e) ==
  Delivers(w, e, "succeeded") /\ msg'[w][e].place = "gone" /\ MoreDone(w, e)

CopyMove(w, e) ==
  /\ SameMinted(w) /\ OtherCopies(w, e)
  /\ \/ Relayed(w, e) \/ Carried(w, e) \/ Returned(w, e)
     \/ Started(w, e) \/ Failed(w, e) \/ Completed(w, e)

PostWritten(w) ==
  /\ w \in Posts /\ SameMinted(w) /\ SameCopies(w)
  /\ row'[w].status \notin {"processing", "succeeded"}
  /\ SameDone(w) \/ MoreDone(w, 0)
  /\ row'[w].status = "accepted" => <<w, 0>> \in done'
GivenUp(w) ==
  /\ SameMinted(w) /\ SameCopies(w) /\ SameDone(w)
  /\ row[w].status = "processing" /\ row'[w].status = "failed"
  /\ row'[w].event = row[w].event /\ row'[w].count = row[w].count
Restored(w) ==
  /\ SameMinted(w) /\ SameCopies(w) /\ SameDone(w)
  /\ \E k \in OnWork(w) : /\ ~IsPost(k) /\ item[k].status = "dispatched"
                          /\ row'[w] = item[k].snap /\ item'[k].status \in Terminal

WorkMove(w) ==
  \/ Still(w) \/ Mints(w) \/ (\E e \in Events(w) : CopyMove(w, e))
  \/ PostWritten(w) \/ GivenUp(w) \/ Restored(w)

(* What becomes of the turn of i's dispatch and of its replay.              *)
TurnMove(i) ==
  /\ raised'[i] # "no" =>
       \/ raised[i] # "no"
       \/ IsPost(i) /\ call[i] # "no"
       \/ /\ ~IsPost(i) /\ job[JobOf[i]] \in Admitting
          /\ item[i].status \in Waiting /\ Stays(i)
  /\ call'[i] # "no" => call[i] # "no" \/ (IsPost(i) /\ job[JobOf[i]] \in Admitting)
  /\ call'[i] = "accepted" => call[i] = "accepted" \/ <<WorkOf[i], 0>> \in done'

Works_ == \A w \in Works : WorkMove(w)
Turns_ == \A i \in Items : TurnMove(i)
Runs == Works_ /\ Turns_

(* The actions that touch no row, no event and no copy.                     *)
LEMMA StillWorks ==
  ASSUME UNCHANGED <<row, msg, minted, done>>
  PROVE  Works_
  BY DEF Works_, WorkMove, Still, SameRow, SameMinted, SameCopies, SameDone

LEMMA StillTurns ==
  ASSUME UNCHANGED <<raised, call>>
  PROVE  Turns_
  BY DEF Turns_, TurnMove

(* The actions that touch one work.                                         *)
LEMMA OneWork ==
  ASSUME NEW w \in Works, WorkMove(w),
         \A v \in Works : v # w => row'[v] = row[v] /\ minted'[v] = minted[v],
         \A v \in Works : \A f \in Events(v) : v # w => msg'[v][f] = msg[v][f],
         \/ done' = done \/ \E e \in Nat : done' = done \cup {<<w, e>>}
  PROVE  Works_
<1>1. ASSUME NEW v \in Works, v # w
      PROVE  Still(v)
  <2>1. SameDone(v)
    BY <1>1 DEF SameDone
  <2> QED BY <1>1, <2>1 DEF Still, SameRow, SameMinted, SameCopies
<1> QED BY <1>1 DEF Works_, WorkMove

(* The actions that touch one turn.                                         *)
LEMMA OneTurn ==
  ASSUME NEW i \in Items, TurnMove(i),
         \A k \in Items : k # i => raised'[k] = raised[k] /\ call'[k] = call[k]
  PROVE  Turns_
<1>1. ASSUME NEW k \in Items, k # i
      PROVE  TurnMove(k)
  BY <1>1 DEF TurnMove
<1> QED BY <1>1 DEF Turns_

-----------------------------------------------------------------------------
(* Which of those moves each action makes.                                  *)
LEMMA RaiseIs ==
  ASSUME Types, NEW i \in Items, NEW how \in RaisedType, Raise(i, how),
         IsPost(i), call[i] # "no"
  PROVE  Turns_
<1>1. /\ call'[i] = "no"
      /\ \A k \in Items : k # i => raised'[k] = raised[k] /\ call'[k] = call[k]
  BY TurnStep DEF CallType
<1>2. TurnMove(i)
  BY <1>1 DEF TurnMove
<1> QED BY <1>1, <1>2, OneTurn

LEMMA PlanRuns ==
  ASSUME NEW j \in Jobs, Plan(j) \/ RecountJob(j)
  PROVE  Runs
<1>1. UNCHANGED <<row, msg, minted, done, raised, call>>
  BY DEF Plan, RecountJob, Preview, Perform, Create, Schedule, Expire, Cancel, broker, history
<1> QED BY <1>1, StillWorks, StillTurns DEF Runs

LEMMA ReconcileRuns ==
  ASSUME NEW i \in Items, \/ DispatchStale(i) \/ DispatchWaits(i) \/ Reconcile(i)
                          \/ RequeuePost(i) \/ SkipDependent(i)
  PROVE  Runs
<1>1. UNCHANGED <<row, msg, minted, done, raised, call>>
  BY DEF DispatchStale, DispatchWaits, Reconcile, RequeuePost, SkipDependent, broker, history
<1> QED BY <1>1, StillWorks, StillTurns DEF Runs

LEMMA DispatchTurnRuns ==
  ASSUME IInv, NEW i \in Items, Reduces,
         BeginReplay(i) \/ \E how \in {"retryable", "terminal"} : DispatchRaises(i, how)
  PROVE  Runs
<1>1. Types
  BY InvTypes
<1>2. UNCHANGED <<row, msg, minted, done>>
  BY DEF BeginReplay, DispatchRaises, broker, history
<1>3. CASE BeginReplay(i)
  <2>1. raised' = raised /\ IsPost(i) /\ job[JobOf[i]] \in Admitting
    BY <1>3 DEF BeginReplay, Claimable
  <2>2. call'[i] = "fetching" /\ \A k \in Items : k # i => call'[k] = call[k]
    BY <1>1, <1>3 DEF BeginReplay, Types, TurnsOK
  <2>3. TurnMove(i)
    BY <2>1, <2>2 DEF TurnMove
  <2> QED BY <1>2, <2>1, <2>2, <2>3, OneTurn, StillWorks DEF Runs
<1>4. CASE \E how \in {"retryable", "terminal"} : DispatchRaises(i, how)
  <2>1. call' = call /\ item' = item /\ ~IsPost(i) /\ Claimable(i)
    BY <1>4 DEF DispatchRaises
  <2>2. \A k \in Items : k # i => raised'[k] = raised[k]
    BY <1>1, <1>4 DEF DispatchRaises, Types, TurnsOK
  <2>3. job[JobOf[i]] \in Admitting /\ item[i].status \in Waiting /\ Stays(i)
    BY <2>1 DEF Claimable, Stays, SameCore
  <2>4. TurnMove(i)
    BY <2>1, <2>3 DEF TurnMove
  <2> QED BY <1>2, <2>1, <2>2, <2>4, OneTurn, StillWorks DEF Runs
<1> QED BY <1>3, <1>4

LEMMA OverRuns ==
  ASSUME IInv, NEW i \in Items, RecordFailure(i) \/ CompletePost(i) \/ DispatcherCrash(i)
  PROVE  Runs
<1>1. raised \in [Items -> RaisedType] /\ call \in [Items -> CallType]
  BY InvTypes DEF Types, TurnsOK
<1>2. UNCHANGED <<row, msg, minted, done>>
  BY DEF RecordFailure, CompletePost, DispatcherCrash, broker, history
<1>3. /\ raised'[i] # "no" => raised[i] # "no"
      /\ call'[i] # "no" => call'[i] = call[i]
      /\ \A k \in Items : k # i => raised'[k] = raised[k] /\ call'[k] = call[k]
  BY <1>1 DEF RecordFailure, CompletePost, DispatcherCrash, Step
<1>4. TurnMove(i)
  BY <1>3 DEF TurnMove
<1> QED BY <1>2, <1>3, <1>4, OneTurn, StillWorks DEF Runs

LEMMA UnderReplay ==
  ASSUME IInv, NEW i \in Items, call[i] # "no"
  PROVE  Types /\ IsPost(i) /\ WorkOf[i] \in Posts
  BY InvTypes DEF IInv, Plans, InTurn, IsPost

LEMMA FetchFailsRuns ==
  ASSUME IInv, NEW i \in Items, FetchFails(i) \/ ReplayBreaks(i)
  PROVE  Runs
<1>1. UNCHANGED <<row, msg, minted, done>> /\ Raise(i, "retryable") /\ call[i] # "no"
  BY DEF FetchFails, ReplayBreaks, broker, history
<1>2. "retryable" \in RaisedType
  BY DEF RaisedType
<1> QED BY <1>1, <1>2, UnderReplay, RaiseIs, StillWorks DEF Runs

LEMMA PostWrittenRuns ==
  ASSUME IInv, NEW i \in Items,
         \/ Observe(i) \/ ReplayFails(i) \/ ReplayAccepts(i)
         \/ \E how \in {"retryable", "terminal"} : ReplayUnsupported(i, how)
  PROVE  Runs
<1>1. call[i] # "no" /\ UNCHANGED <<msg, minted>>
  BY DEF Observe, ReplayFails, ReplayAccepts, ReplayUnsupported, broker
<1>2. Types /\ IsPost(i) /\ WorkOf[i] \in Posts
  BY <1>1, UnderReplay
<1>3. PICK w \in Works : w = WorkOf[i]
  BY Plan_
<1>4. PICK s \in {"observed", "failed", "unsupported", "accepted"}, b \in BOOLEAN :
        /\ SetPost(i, s, b)
        /\ \/ done' = done /\ s # "accepted"
           \/ done' = done \cup {<<w, 0>>}
  BY <1>3 DEF Observe, ReplayFails, ReplayAccepts, ReplayUnsupported, history
<1>5. row'[w].status = s /\ \A v \in Works : v # w => row'[v] = row[v]
  BY <1>2, <1>3, <1>4, SetPostIs
<1>6. SameDone(w) \/ MoreDone(w, 0)
  BY <1>4 DEF SameDone, MoreDone
<1>7. s = "accepted" => <<w, 0>> \in done'
  BY <1>4
<1>8. WorkMove(w)
  BY <1>1, <1>2, <1>3, <1>5, <1>6, <1>7 DEF WorkMove, PostWritten, SameMinted, SameCopies
<1>9. Works_
  BY <1>1, <1>4, <1>5, <1>8, OneWork
<1>10. CASE Observe(i) \/ ReplayAccepts(i)
  <2>1. raised' = raised /\ \A k \in Items : k # i => call'[k] = call[k]
    BY <1>2, <1>10 DEF Observe, ReplayAccepts, Step, Types, TurnsOK
  <2>2. call'[i] = "accepted" => <<w, 0>> \in done'
    BY <1>2, <1>3, <1>10 DEF Observe, ReplayAccepts, Step, Types, TurnsOK
  <2>3. TurnMove(i)
    BY <1>1, <1>3, <2>1, <2>2 DEF TurnMove
  <2> QED BY <1>9, <2>1, <2>3, OneTurn DEF Runs
<1>11. CASE ReplayFails(i) \/ \E how \in {"retryable", "terminal"} : ReplayUnsupported(i, how)
  <2>1. PICK how \in RaisedType : Raise(i, how)
    BY <1>11 DEF ReplayFails, ReplayUnsupported, RaisedType
  <2> QED BY <1>1, <1>2, <1>9, <2>1, RaiseIs DEF Runs
<1> QED BY <1>10, <1>11

(* The mints.                                                               *)
LEMMA MintWorks ==
  ASSUME IInv, NEW w \in Works, Mint(w), done' = done,
         \/ w \in Operated
         \/ \E k \in OnWork(w) : IsSent(k)
         \/ /\ row[w].status = "processing"
            /\ \A k \in Items : Reclaimed(w, k) => item'[k].event = minted[w] + 1
  PROVE  Works_
<1>1. /\ minted[w] \in Nat /\ minted[w] + 1 \in Events(w)
      /\ minted'[w] = minted[w] + 1
      /\ \A v \in Works : v # w => minted'[v] = minted[v] /\ row'[v] = row[v]
      /\ row'[w].status = "pending" /\ row'[w].count = row[w].count + 1
      /\ row'[w].event = minted[w] + 1
      /\ msg'[w][minted[w] + 1].place = "none"
      /\ \A v \in Works : \A f \in Events(v) : v # w \/ f # minted[w] + 1 => msg'[v][f] = msg[v][f]
  BY InvTypes, MintIs
<1>2. SameDone(w)
  BY DEF SameDone
<1>3. OtherCopies(w, minted[w] + 1)
  BY <1>1 DEF OtherCopies
<1>4. Mints(w)
  BY <1>1, <1>2, <1>3 DEF Mints
<1>5. WorkMove(w)
  BY <1>4 DEF WorkMove
<1> QED BY <1>1, <1>5, OneWork

LEMMA DispatchRuns ==
  ASSUME IInv, NEW i \in Items, Dispatch(i), IsSent(i)
  PROVE  Runs
<1>1. Mint(WorkOf[i]) /\ done' = done /\ UNCHANGED <<raised, call>>
  BY DEF Dispatch, history
<1>2. i \in OnWork(WorkOf[i]) /\ WorkOf[i] \in Works
  BY Plan_ DEF OnWork
<1> QED BY <1>1, <1>2, MintWorks, StillTurns DEF Runs

LEMMA OperatorReplayRuns ==
  ASSUME IInv, NEW w \in Works, OperatorReplay(w)
  PROVE  Runs
<1>1. Mint(w) /\ done' = done /\ UNCHANGED <<raised, call>> /\ w \in Operated
  BY DEF OperatorReplay, history
<1> QED BY <1>1, MintWorks, StillTurns DEF Runs

LEMMA ReclaimRuns ==
  ASSUME IInv, NEW w \in Works, Reclaim(w)
  PROVE  Runs
<1>1. Mint(w) /\ done' = done /\ UNCHANGED <<raised, call>> /\ row[w].status = "processing"
  BY DEF Reclaim, history
<1>2. \A k \in Items : Reclaimed(w, k) => item'[k].event = minted[w] + 1
  BY ReclaimIs
<1> QED BY <1>1, <1>2, MintWorks, StillTurns DEF Runs

LEMMA ReclaimAtLimitRuns ==
  ASSUME IInv, NEW w \in Works, ReclaimAtLimit(w)
  PROVE  Runs
<1>1. UNCHANGED <<msg, minted, raised, call, done>> /\ row[w].status = "processing"
  BY DEF ReclaimAtLimit, broker, history
<1>2. /\ row'[w].status = "failed" /\ row'[w].event = row[w].event /\ row'[w].count = row[w].count
      /\ \A v \in Works : v # w => row'[v] = row[v]
  BY InvTypes, ReclaimAtLimitIs
<1>3. WorkMove(w)
  BY <1>1, <1>2 DEF WorkMove, GivenUp, SameMinted, SameCopies, SameDone
<1>4. Works_
  BY <1>1, <1>2, <1>3, OneWork
<1> QED BY <1>1, <1>4, StillTurns DEF Runs

LEMMA ReconcileExhaustedRuns ==
  ASSUME IInv, Reduces, NEW i \in Items, ReconcileExhausted(i)
  PROVE  Runs
<1>1. Types /\ row \in [Works -> RowType]
  BY InvTypes DEF Types, RowsOK
<1>2. PICK w \in Works : w = WorkOf[i] /\ i \in OnWork(w)
  BY Plan_ DEF OnWork
<1>3. /\ item[i].status = "dispatched" /\ ~IsPost(i)
      /\ UNCHANGED <<msg, minted, raised, call, done>>
      /\ row' = [row EXCEPT ![w] = item[i].snap]
      /\ End(i, RowWritten(item, w), "failed")
  BY <1>2 DEF ReconcileExhausted, Reconcilable, Exhausted, broker, history
<1>4. row'[w] = item[i].snap /\ \A v \in Works : v # w => row'[v] = row[v]
  BY <1>1, <1>3
<1>5. item'[i].status \in Terminal
  <2>1. PICK f : f = RowWritten(item, w)
    OBVIOUS
  <2>2. f \in [Items -> ItemType]
    BY <1>1, <2>1, RowWrittenCore DEF Types, ItemsOK
  <2>3. PICK s \in Terminal : s = "failed"
    BY DEF Terminal
  <2> QED BY <1>1, <1>3, <2>1, <2>2, <2>3, EndIs
<1>6. WorkMove(w)
  BY <1>2, <1>3, <1>4, <1>5 DEF WorkMove, Restored, SameMinted, SameCopies, SameDone
<1>7. Works_
  BY <1>3, <1>4, <1>6, OneWork
<1> QED BY <1>3, <1>7, StillTurns DEF Runs

(* The copies.                                                              *)
LEMMA CopyWorks ==
  ASSUME NEW w \in Works, NEW e \in Events(w), CopyMove(w, e), minted' = minted,
         \A v \in Works : v # w => row'[v] = row[v],
         \A v \in Works : \A f \in Events(v) : v # w \/ f # e => msg'[v][f] = msg[v][f],
         done' = done \/ done' = done \cup {<<w, e>>}
  PROVE  Works_
<1>1. e \in Nat
  BY MaxEventsAssumption DEF Events
<1>2. WorkMove(w)
  BY DEF WorkMove
<1> QED BY <1>1, <1>2, OneWork

LEMMA RelayRuns ==
  ASSUME IInv, NEW w \in Works, NEW e \in Events(w), Relay(w, e)
  PROVE  Runs
<1>1. /\ msg'[w][e].attempt = msg[w][e].attempt
      /\ \/ msg'[w][e].place = msg[w][e].place
         \/ msg[w][e].place = "none" /\ msg'[w][e].place = "ready"
      /\ msg[w][e].outbox # "none"
      /\ \A v \in Works : \A f \in Events(v) : v # w \/ f # e => msg'[v][f] = msg[v][f]
      /\ UNCHANGED <<row, minted, raised, call, done>>
  BY RelayReduces
<1>2. Relayed(w, e)
  BY <1>1 DEF Relayed, SameRow, SameDone
<1>3. CopyMove(w, e)
  BY <1>1, <1>2 DEF CopyMove, SameMinted, OtherCopies
<1>4. Works_
  BY <1>1, <1>3, CopyWorks
<1> QED BY <1>1, <1>4, StillTurns DEF Runs

(* A copy that moves and writes no row.                                     *)
LEMMA CarriedRuns ==
  ASSUME IInv, NEW w \in Works, NEW e \in Events(w), NEW place \in Places, Move(w, e, place),
         msg[w][e].place \notin {"none", "gone"}, place \notin {"failing", "refused"},
         place = "retry" => msg[w][e].place \in {"failing", "refused"},
         UNCHANGED <<row, minted, raised, call, done>>
  PROVE  Runs
<1>1. /\ msg'[w][e].place = place /\ msg'[w][e].attempt = msg[w][e].attempt
      /\ \A v \in Works : \A f \in Events(v) : v # w \/ f # e => msg'[v][f] = msg[v][f]
  BY InvTypes, MoveIs
<1>2. Carried(w, e)
  BY <1>1 DEF Carried, SameRow, SameDone
<1>3. CopyMove(w, e)
  BY <1>1, <1>2 DEF CopyMove, SameMinted, OtherCopies
<1>4. Works_
  BY <1>1, <1>3, CopyWorks
<1> QED BY <1>4, StillTurns DEF Runs

(* A delivery that writes the row.                                          *)
LEMMA DeliversIs ==
  ASSUME IInv, NEW w \in Works, NEW e \in Events(w), NEW place \in Places, Move(w, e, place),
         NEW s \in {"processing", "succeeded", "failed"}, NEW b \in BOOLEAN, SetRow(w, e, s, b),
         msg[w][e].place \in {"ready", "running"}, IsCurrent(w, e)
  PROVE  /\ Delivers(w, e, s) /\ OtherCopies(w, e) /\ msg'[w][e].place = place
         /\ \A v \in Works : v # w => row'[v] = row[v]
         /\ \A v \in Works : \A f \in Events(v) : v # w \/ f # e => msg'[v][f] = msg[v][f]
<1>1. /\ msg'[w][e].place = place /\ msg'[w][e].attempt = msg[w][e].attempt
      /\ \A v \in Works : \A f \in Events(v) : v # w \/ f # e => msg'[v][f] = msg[v][f]
  BY InvTypes, MoveIs
<1>2. /\ row'[w].status = s /\ row'[w].event = e /\ row'[w].count = msg[w][e].attempt
      /\ \A v \in Works : v # w => row'[v] = row[v]
  BY InvTypes, SetRowIs
<1> QED BY <1>1, <1>2 DEF Delivers, OtherCopies

LEMMA FailedRuns ==
  ASSUME IInv, NEW w \in Works, NEW e \in Events(w), NEW place \in Places, Move(w, e, place),
         NEW b \in BOOLEAN, SetRow(w, e, "failed", b),
         msg[w][e].place = "running", IsCurrent(w, e),
         UNCHANGED <<minted, raised, call, done>>
  PROVE  Runs
<1>1. /\ Delivers(w, e, "failed") /\ OtherCopies(w, e)
      /\ \A v \in Works : v # w => row'[v] = row[v]
      /\ \A v \in Works : \A f \in Events(v) : v # w \/ f # e => msg'[v][f] = msg[v][f]
  BY DeliversIs
<1>2. CopyMove(w, e)
  BY <1>1 DEF CopyMove, Failed, SameMinted, SameDone
<1>3. Works_
  BY <1>1, <1>2, CopyWorks
<1> QED BY <1>3, StillTurns DEF Runs

LEMMA DeliverRuns ==
  ASSUME IInv, NEW w \in Works, NEW e \in Events(w), Deliver(w, e)
  PROVE  Runs
<1>1. msg[w][e].place = "ready" /\ UNCHANGED <<minted, raised, call, done>>
  BY DEF Deliver, history
<1>2. CASE /\ \E place \in {"gone", "stuck"} : Move(w, e, place)
           /\ row' = row
  BY <1>1, <1>2, CarriedRuns DEF Places
<1>3. CASE /\ Move(w, e, "running") /\ SetRow(w, e, "processing", TRUE) /\ IsCurrent(w, e)
  <2>1. "running" \in Places
    BY DEF Places
  <2>2. /\ Delivers(w, e, "processing") /\ OtherCopies(w, e) /\ msg'[w][e].place = "running"
        /\ \A v \in Works : v # w => row'[v] = row[v]
        /\ \A v \in Works : \A f \in Events(v) : v # w \/ f # e => msg'[v][f] = msg[v][f]
    BY <1>1, <1>3, <2>1, DeliversIs
  <2>3. CopyMove(w, e)
    BY <1>1, <2>2 DEF CopyMove, Started, SameMinted, SameDone
  <2>4. Works_
    BY <1>1, <2>2, <2>3, CopyWorks
  <2> QED BY <1>1, <2>4, StillTurns DEF Runs
<1> QED BY <1>2, <1>3 DEF Deliver

LEMMA CompleteRuns ==
  ASSUME IInv, NEW w \in Works, NEW e \in Events(w), Complete(w, e)
  PROVE  Runs
<1>1. /\ msg[w][e].place = "running" /\ IsCurrent(w, e) /\ Move(w, e, "gone")
      /\ SetRow(w, e, "succeeded", FALSE) /\ done' = done \cup {<<w, e>>}
      /\ UNCHANGED <<minted, raised, call>>
  BY DEF Complete
<1>2. "gone" \in Places
  BY DEF Places
<1>3. /\ Delivers(w, e, "succeeded") /\ OtherCopies(w, e) /\ msg'[w][e].place = "gone"
      /\ \A v \in Works : v # w => row'[v] = row[v]
      /\ \A v \in Works : \A f \in Events(v) : v # w \/ f # e => msg'[v][f] = msg[v][f]
  BY <1>1, <1>2, DeliversIs
<1>4. MoreDone(w, e)
  BY <1>1 DEF MoreDone
<1>5. CopyMove(w, e)
  BY <1>1, <1>3, <1>4 DEF CopyMove, Completed, SameMinted
<1>6. Works_
  BY <1>1, <1>3, <1>5, CopyWorks
<1> QED BY <1>1, <1>6, StillTurns DEF Runs

LEMMA MarkFailedRuns ==
  ASSUME IInv, NEW w \in Works, NEW e \in Events(w), NEW retryable \in BOOLEAN,
         MarkFailed(w, e, retryable)
  PROVE  Runs
<1>1. PICK place \in Places : Move(w, e, place)
  BY DEF MarkFailed, Places
<1>2. /\ msg[w][e].place = "running" /\ IsCurrent(w, e) /\ SetRow(w, e, "failed", retryable)
      /\ UNCHANGED <<minted, raised, call, done>>
  BY DEF MarkFailed, history
<1> QED BY <1>1, <1>2, FailedRuns

LEMMA MovedRuns ==
  ASSUME IInv, NEW w \in Works, NEW e \in Events(w),
         \/ Superseded(w, e) \/ WorkerCrash(w, e) \/ FinishCancelled(w, e) \/ Answer(w, e)
  PROVE  Runs
<1>1. /\ msg[w][e].place \in {"running", "failing", "refused", "stuck"}
      /\ UNCHANGED <<row, minted, raised, call, done>>
  BY DEF Superseded, WorkerCrash, FinishCancelled, Answer, history
<1>2. PICK place \in {"stuck", "ready", "gone", "retry"} :
        /\ Move(w, e, place)
        /\ place = "retry" => msg[w][e].place \in {"failing", "refused"}
  BY DEF Superseded, WorkerCrash, FinishCancelled, Answer, Bury
<1> QED BY <1>1, <1>2, CarriedRuns DEF Places

LEMMA RetryExpiresRuns ==
  ASSUME IInv, NEW w \in Works, NEW e \in Events(w), RetryExpires(w, e)
  PROVE  Runs
<1>1. msg[w][e].place = "retry" /\ UNCHANGED <<row, minted, raised, call, done>>
  BY DEF RetryExpires, history
<1>2. /\ msg'[w][e].place = "ready"
      /\ \A v \in Works : \A f \in Events(v) : v # w \/ f # e => msg'[v][f] = msg[v][f]
  BY InvTypes, RetryExpiresIs
<1>3. CopyMove(w, e)
  BY <1>1, <1>2 DEF CopyMove, Returned, SameRow, SameDone, SameMinted, OtherCopies
<1>4. Works_
  BY <1>1, <1>2, <1>3, CopyWorks
<1> QED BY <1>1, <1>4, StillTurns DEF Runs

LEMMA AbandonRuns ==
  ASSUME IInv, NEW w \in Works, NEW e \in Events(w), Abandon(w, e)
  PROVE  Runs
<1>1. msg[w][e].place = "running" /\ UNCHANGED <<minted, raised, call, done>>
  BY DEF Abandon
<1>2. CASE /\ \E place \in {"gone", "ready"} : Move(w, e, place)
           /\ row' = row
  BY <1>1, <1>2, CarriedRuns DEF Places
<1>3. CASE SetRow(w, e, "failed", TRUE) /\ Move(w, e, "ready") /\ IsCurrent(w, e)
  BY <1>1, <1>3, FailedRuns DEF Places
<1> QED BY <1>2, <1>3 DEF Abandon, Bury

LEMMA StepRuns ==
  ASSUME IInv, [Next]_vars, Reduces
  PROVE  Runs
<1>1. CASE UNCHANGED vars
  BY <1>1, StillWorks, StillTurns DEF vars, Runs
<1>2. ASSUME NEW j \in Jobs, Plan(j) \/ RecountJob(j)
      PROVE  Runs
  BY <1>2, PlanRuns
<1>3. ASSUME NEW i \in Items, DispatchTurn(i)
      PROVE  Runs
  <2>1. CASE Dispatch(i)
    BY <2>1, DispatchReduces, DispatchRuns
  <2> QED BY <1>3, <2>1, ReconcileRuns, DispatchTurnRuns DEF DispatchTurn
<1>4. ASSUME NEW i \in Items, Replay(i)
      PROVE  Runs
  <2>1. CASE FetchFails(i) \/ ReplayBreaks(i)
    BY <2>1, FetchFailsRuns
  <2>2. CASE \/ Observe(i) \/ ReplayFails(i) \/ ReplayAccepts(i)
             \/ \E how \in {"retryable", "terminal"} : ReplayUnsupported(i, how)
    BY <2>2, PostWrittenRuns
  <2>3. CASE CompletePost(i)
    BY <2>3, OverRuns
  <2> QED BY <1>4, <2>1, <2>2, <2>3 DEF Replay
<1>5. ASSUME NEW i \in Items, ReconcileTurn(i) \/ RecordFailure(i) \/ DispatcherCrash(i)
      PROVE  Runs
  BY <1>5, ReconcileExhaustedRuns, ReconcileRuns, OverRuns DEF ReconcileTurn
<1>6. ASSUME NEW w \in Works, OperatorReplay(w) \/ ReclaimAtLimit(w) \/ Reclaim(w)
      PROVE  Runs
  BY <1>6, OperatorReplayRuns, ReclaimAtLimitRuns, ReclaimRuns
<1>7. ASSUME NEW w \in Works, NEW e \in Events(w), Relay(w, e) \/ Deliver(w, e) \/ Run(w, e)
      PROVE  Runs
  <2>1. CASE Relay(w, e) \/ Deliver(w, e)
    BY <2>1, RelayRuns, DeliverRuns
  <2>2. CASE Run(w, e)
    BY <2>2, MovedRuns, CompleteRuns, MarkFailedRuns DEF Run
  <2> QED BY <1>7, <2>1, <2>2
<1>8. ASSUME NEW w \in Works, NEW e \in Events(w),
             \/ FinishCancelled(w, e) \/ Answer(w, e) \/ RetryExpires(w, e)
             \/ Abandon(w, e) \/ WorkerCrash(w, e)
      PROVE  Runs
  BY <1>8, MovedRuns, RetryExpiresRuns, AbandonRuns
<1> QED BY <1>1, <1>2, <1>3, <1>4, <1>5, <1>6, <1>7, <1>8 DEF Next

-----------------------------------------------------------------------------
(* What is known to be done stays known; events are only added.             *)
LEMMA Numbers ==
  ASSUME IInv, Runs, NEW w \in Works
  PROVE  /\ minted[w] \in Nat /\ minted'[w] \in Nat
         /\ minted'[w] = minted[w] \/ (minted'[w] = minted[w] + 1 /\ Mints(w))
         /\ \A e \in Nat : <<w, e>> \in done => <<w, e>> \in done'
         /\ 1 .. minted[w] \subseteq Events(w) /\ Events(w) \subseteq Nat \ {0}
<1>1. minted[w] \in Nat /\ minted[w] <= MaxEvents[w] /\ MaxEvents[w] \in Nat
  BY InvTypes, MaxEventsAssumption DEF Types, MintedOK
<1>2. WorkMove(w)
  BY DEF Runs, Works_
<1>3. minted'[w] = minted[w] \/ (minted'[w] = minted[w] + 1 /\ Mints(w))
  BY <1>2 DEF WorkMove, Still, Mints, CopyMove, PostWritten, GivenUp, Restored, SameMinted
<1>4. \A e \in Nat : <<w, e>> \in done => <<w, e>> \in done'
  <2>1. SameDone(w) \/ \E e \in Nat : MoreDone(w, e)
    BY <1>2, MaxEventsAssumption
       DEF WorkMove, Still, Mints, CopyMove, PostWritten, GivenUp, Restored, Relayed, Carried,
           Returned, Started, Failed, Completed, Events
  <2> QED BY <2>1 DEF SameDone, MoreDone
<1> QED BY <1>1, <1>3, <1>4 DEF Events

LEMMA EarnedStep ==
  ASSUME IInv, Reduces, Runs, NEW i \in Items
  PROVE  Earned(i)'
<1>1. ItemMove(i) /\ Earned(i) /\ Fits(i) /\ Numbered(i)
  BY DEF Reduces, Moves, IInv, Plans
<1>2. item[i].event \in Nat /\ WorkOf[i] \in Works /\ ParentOf[i] \in Items \cup {NoItem}
  BY InvTypes, Plan_ DEF Types, ItemsOK, ItemType
<1>3. <<WorkOf[i], item[i].event>> \in done => <<WorkOf[i], item[i].event>> \in done'
  BY <1>2, Numbers
<1>4. item'[i].status = "succeeded" => WorkDone(i)'
  <2>1. CASE item[i].status = "succeeded"
    BY <1>1, <1>3, <2>1, TerminalStays DEF Terminal, Earned, WorkDone
  <2>2. CASE item[i].status # "succeeded" /\ item'[i].status = "succeeded"
    <3>1. Ends(i)
      BY <1>1, <2>2 DEF ItemMove, Stays, SameCore, IsPlanned, IsAdmitted, Waits, Begins, IsSent,
                        MovesAlong, Waiting
    <3> QED BY <1>3, <2>2, <3>1 DEF Ends, WorkDone
  <2> QED BY <2>1, <2>2
<1>5. item'[i].event # 0 => item[i].event # 0 \/ IsSent(i)
  <2>1. MovesAlong(i) => item[i].event # 0
    BY <1>1, <1>2, Numbers DEF MovesAlong, Numbered
  <2> QED BY <1>1, <2>1 DEF ItemMove, Stays, SameCore, IsPlanned, IsAdmitted, Waits, Begins, Ends
<1>6. item'[i].event # 0 /\ ParentOf[i] # NoItem => item[ParentOf[i]].status = "succeeded"
  BY <1>1, <1>5 DEF Earned, IsSent
<1>7. item'[i].event # 0 /\ ParentOf[i] # NoItem => item'[ParentOf[i]].status = "succeeded"
  BY <1>2, <1>6, TerminalStays DEF Terminal
<1> QED BY <1>4, <1>7 DEF Earned

LEMMA InTurnStep ==
  ASSUME IInv, Reduces, Runs, NEW i \in Items
  PROVE  InTurn(i)'
<1>1. PICK j \in Jobs : j = JobOf[i] /\ i \in ItemsOf(j)
  BY Plan_ DEF ItemsOf
<1>2. ItemMove(i) /\ JobMove(j) /\ InTurn(i) /\ TurnMove(i)
  BY DEF Reduces, Moves, IInv, Plans, Runs, Turns_
<1>3. job[j] \in Begun => job'[j] \in Begun
  BY <1>2 DEF JobMove, Begun, Live, Admitting, Settled, Settles
<1>4. raised'[i] # "no" \/ call'[i] # "no" => job'[j] \in Begun
  BY <1>1, <1>2, <1>3 DEF InTurn, TurnMove, Begun, Live
<1>5. raised'[i] # "no" /\ ~IsPost(i) => item'[i].status # "dispatched"
  <2>1. SUFFICES ASSUME raised'[i] # "no", ~IsPost(i), item'[i].status = "dispatched"
                 PROVE  FALSE
    OBVIOUS
  <2>2. CASE raised[i] # "no"
    <3>1. item[i].status # "dispatched"
      BY <1>2, <2>1, <2>2 DEF InTurn
    <3> QED BY <1>2, <2>1, <2>2, <3>1
            DEF ItemMove, Stays, SameCore, IsPlanned, IsAdmitted, Waits, Begins, IsSent,
                MovesAlong, Ends, Waiting, Terminal
  <2>3. CASE item[i].status \in Waiting /\ Stays(i)
    BY <2>1, <2>3 DEF Stays, SameCore, Waiting
  <2> QED BY <1>2, <2>1, <2>2, <2>3 DEF TurnMove
<1>6. call'[i] # "no" => IsPost(i)
  BY <1>2 DEF InTurn, TurnMove
<1>7. call'[i] = "accepted" => <<WorkOf[i], 0>> \in done'
  <2>1. <<WorkOf[i], 0>> \in done => <<WorkOf[i], 0>> \in done'
    BY Plan_, Numbers
  <2> QED BY <1>2, <2>1 DEF InTurn, TurnMove
<1>8. IsPost(i)' = IsPost(i)
  BY DEF IsPost
<1> QED BY <1>1, <1>4, <1>5, <1>6, <1>7, <1>8 DEF InTurn

(* What a row says will still be true after the step.                       *)
StaysTrue(w, r) ==
  /\ r.status = "succeeded" /\ r.event # 0 => <<w, r.event>> \in done'
  /\ r.status = "accepted" => <<w, 0>> \in done'

LEMMA NumberedStep ==
  ASSUME IInv, Reduces, Runs, NEW i \in Items
  PROVE  Numbered(i)'
<1>1. PICK w \in Works : w = WorkOf[i]
  BY Plan_
<1>2. ItemMove(i) /\ Numbered(i) /\ Fits(i) /\ RowIsTrue(w, row[w])
  BY DEF Reduces, Moves, IInv, Plans, Truth
<1>3. row[w] \in RowType
  BY InvTypes DEF Types, RowsOK
<1>4. ASSUME NEW r \in RowType, RowIsTrue(w, r)
      PROVE  StaysTrue(w, r)
  <2>1. r.event \in Nat
    BY DEF RowType
  <2> QED BY <1>4, <2>1, Numbers DEF RowIsTrue, StaysTrue
<1>5. IsPost(i)' = IsPost(i)
  BY DEF IsPost
<1>6. IsPost(i) => item'[i].event = 0
  BY <1>2 DEF Numbered, ItemMove, Stays, SameCore, IsPlanned, IsAdmitted, Waits, Begins, IsSent,
              MovesAlong, Ends
<1>7. ~IsPost(i) /\ item'[i].status \in Waiting \cup {"none"} => item'[i].event = 0
  <2>1. ~("dispatched" \in Waiting \cup {"none"})
    BY DEF Waiting
  <2>2. \A s \in Terminal : s \notin Waiting \cup {"none"}
    BY DEF Waiting, Terminal
  <2> QED BY <1>2, <2>1, <2>2
          DEF Numbered, ItemMove, Stays, SameCore, IsPlanned, IsAdmitted, Waits, Begins, IsSent,
              MovesAlong, Ends
<1>8. ASSUME ~IsPost(i), item'[i].status = "dispatched"
      PROVE  /\ item'[i].event \in 1 .. minted'[w]
             /\ item'[i].snap \in RowType
             /\ item'[i].snap.status \in {"failed", "succeeded"}
             /\ StaysTrue(w, item'[i].snap)
  <2>1. minted[w] \in Nat /\ (minted'[w] = minted[w] \/ minted'[w] = minted[w] + 1)
    BY Numbers
  <2>2. CASE Stays(i) /\ item[i].status = "dispatched"
    <3>1. /\ item[i].event \in 1 .. minted[w] /\ item[i].snap \in RowType
          /\ item[i].snap.status \in {"failed", "succeeded"} /\ RowIsTrue(w, item[i].snap)
      BY <1>1, <1>2, <1>8, <2>2 DEF Numbered
    <3>2. item'[i].event = item[i].event /\ item'[i].snap = item[i].snap
      BY <2>2 DEF Stays, SameCore
    <3>3. StaysTrue(w, item[i].snap)
      BY <1>4, <3>1
    <3> QED BY <2>1, <3>1, <3>2, <3>3
  <2>3. CASE IsSent(i)
    <3>1. /\ item'[i].event = minted[w] + 1 /\ minted'[w] = minted[w] + 1
          /\ item'[i].snap = row[w] /\ row[w].status \in {"failed", "succeeded"}
      BY <1>1, <2>3 DEF IsSent
    <3>2. StaysTrue(w, row[w])
      <4>1. PICK r \in RowType : r = row[w]
        BY <1>3
      <4>2. StaysTrue(w, r)
        BY <1>2, <1>4, <4>1
      <4> QED BY <4>1, <4>2
    <3> QED BY <1>3, <2>1, <3>1, <3>2
  <2>4. CASE MovesAlong(i)
    <3>1. /\ item'[i].event = minted[w] + 1 /\ minted'[w] = minted[w] + 1
          /\ item'[i].snap = item[i].snap /\ item[i].status = "dispatched"
      BY <1>1, <2>4 DEF MovesAlong
    <3>2. /\ item[i].snap \in RowType
          /\ item[i].snap.status \in {"failed", "succeeded"} /\ RowIsTrue(w, item[i].snap)
      BY <1>1, <1>2, <1>8, <3>1 DEF Numbered
    <3>3. StaysTrue(w, item[i].snap)
      BY <1>4, <3>2
    <3> QED BY <2>1, <3>1, <3>2, <3>3
  <2> QED BY <1>2, <1>8, <2>2, <2>3, <2>4
          DEF ItemMove, Stays, SameCore, IsPlanned, IsAdmitted, Waits, Begins, Ends, Waiting,
              Terminal, Fits
<1> QED BY <1>1, <1>5, <1>6, <1>7, <1>8 DEF Numbered, RowIsTrue, StaysTrue

LEMMA RowIsTrueStep ==
  ASSUME IInv, Runs, NEW w \in Works
  PROVE  RowIsTrue(w, row[w])'
<1>1. WorkMove(w) /\ RowIsTrue(w, row[w]) /\ row[w] \in RowType
  BY InvTypes DEF Runs, Works_, IInv, Truth, Types, RowsOK
<1>2. \A e \in Nat : <<w, e>> \in done => <<w, e>> \in done'
  BY Numbers
<1>3. CASE SameRow(w)
  BY <1>1, <1>2, <1>3 DEF SameRow, RowIsTrue, RowType
<1>4. CASE row'[w].status \in {"pending", "processing", "failed"}
  BY <1>4 DEF RowIsTrue
<1>5. CASE \E e \in Events(w) : Completed(w, e)
  BY <1>5, MaxEventsAssumption DEF Completed, Delivers, MoreDone, RowIsTrue, Events
<1>6. CASE PostWritten(w)
  BY <1>6 DEF PostWritten, RowIsTrue
<1>7. CASE Restored(w)
  <2>1. PICK k \in OnWork(w) : /\ ~IsPost(k) /\ item[k].status = "dispatched"
                               /\ row'[w] = item[k].snap
    BY <1>7 DEF Restored
  <2>2. k \in Items /\ WorkOf[k] = w
    BY DEF OnWork
  <2>3. item[k].snap \in RowType /\ RowIsTrue(w, item[k].snap)
    BY <2>1, <2>2 DEF IInv, Plans, Numbered
  <2> QED BY <1>2, <2>1, <2>3 DEF RowIsTrue, RowType
<1> QED BY <1>1, <1>3, <1>4, <1>5, <1>6, <1>7
        DEF WorkMove, Still, Mints, CopyMove, Relayed, Carried, Returned, Started, Failed,
            Delivers, GivenUp

LEMMA CopiedStep ==
  ASSUME IInv, Runs, NEW w \in Works, NEW e \in Events(w), Types'
  PROVE  Copied(w, e)'
<1>1. WorkMove(w) /\ Copied(w, e)
  BY DEF Runs, Works_, IInv, Truth
<1>2. minted[w] \in Nat /\ e \in Nat \ {0}
  BY Numbers
<1>3. CASE SameMinted(w) /\ SameCopies(w) /\ SameDone(w)
  <2>1. msg'[w][e] = msg[w][e] /\ minted'[w] = minted[w]
    BY <1>3 DEF SameCopies, SameMinted
  <2>2. <<w, e>> \in done' <=> <<w, e>> \in done
    BY <1>2, <1>3 DEF SameDone
  <2> QED BY <1>1, <2>1, <2>2 DEF Copied
<1>4. CASE PostWritten(w)
  <2>1. msg'[w][e] = msg[w][e] /\ minted'[w] = minted[w]
    BY <1>4 DEF PostWritten, SameCopies, SameMinted
  <2>2. <<w, e>> \in done' <=> <<w, e>> \in done
    BY <1>2, <1>4 DEF PostWritten, SameDone, MoreDone
  <2> QED BY <1>1, <2>1, <2>2 DEF Copied
<1>5. CASE Mints(w)
  <2>1. <<w, e>> \in done' <=> <<w, e>> \in done
    BY <1>2, <1>5 DEF Mints, SameDone
  <2>2. minted'[w] = minted[w] + 1 /\ (e # minted[w] + 1 => msg'[w][e] = msg[w][e])
    BY <1>5 DEF Mints, OtherCopies
  <2> QED BY <1>1, <1>2, <2>1, <2>2 DEF Copied
<1>6. ASSUME NEW f \in Events(w), CopyMove(w, f)
      PROVE  Copied(w, e)'
  <2>1. minted'[w] = minted[w] /\ (e # f => msg'[w][e] = msg[w][e])
    BY <1>6 DEF CopyMove, SameMinted, OtherCopies
  <2>2. f \in Nat /\ Copied(w, f)
    BY MaxEventsAssumption DEF Events, IInv, Truth
  <2>3. CASE e # f
    <3>1. <<w, e>> \in done' <=> <<w, e>> \in done
      BY <1>2, <1>6, <2>2, <2>3
         DEF CopyMove, Relayed, Carried, Returned, Started, Failed, Completed, SameDone, MoreDone
    <3> QED BY <1>1, <2>1, <2>3, <3>1 DEF Copied
  <2>4. CASE e = f
    <3>1. e <= minted[w]
      BY <1>1, <1>2, <1>6, <2>4
         DEF CopyMove, Relayed, Carried, Returned, Started, Failed, Completed, Delivers, Copied
    <3>2. <<w, e>> \in done' => msg'[w][e].place = "gone"
      <4>1. CASE Completed(w, e)
        BY <4>1 DEF Completed
      <4>2. CASE ~Completed(w, e)
        <5>1. <<w, e>> \in done' <=> <<w, e>> \in done
          BY <1>2, <1>6, <2>4, <4>2
             DEF CopyMove, Relayed, Carried, Returned, Started, Failed, SameDone
        <5> QED BY <1>1, <1>6, <2>4, <4>2, <5>1
                DEF CopyMove, Relayed, Carried, Returned, Started, Failed, Delivers, Copied
      <4> QED BY <4>1, <4>2
    <3> QED BY <1>2, <2>1, <3>1, <3>2 DEF Copied
  <2> QED BY <2>3, <2>4
<1> QED BY <1>1, <1>3, <1>4, <1>5, <1>6 DEF WorkMove, Still, GivenUp, Restored

LEMMA HeldStep ==
  ASSUME IInv, Runs, NEW w \in Works
  PROVE  Held(w)'
<1>1. WorkMove(w) /\ Held(w) /\ row[w] \in RowType /\ msg[w] \in [Events(w) -> MsgType]
  BY InvTypes DEF Runs, Works_, IInv, Truth, Types, RowsOK, Messages
<1>2. minted[w] \in Nat /\ 1 .. minted[w] \subseteq Events(w) /\ Events(w) \subseteq Nat \ {0}
  BY Numbers
<1>3. CASE row'[w].status # "processing"
  BY <1>3 DEF Held
<1>4. CASE Still(w)
  <2>1. row'[w] = row[w] /\ minted'[w] = minted[w]
        /\ \A f \in Events(w) : msg'[w][f] = msg[w][f]
    BY <1>4 DEF Still, SameRow, SameMinted, SameCopies
  <2> QED BY <1>1, <1>2, <2>1 DEF Held
<1>5. ASSUME NEW e \in Events(w), CopyMove(w, e), row'[w].status = "processing"
      PROVE  Held(w)'
  <2>1. minted'[w] = minted[w] /\ \A f \in Events(w) : f # e => msg'[w][f] = msg[w][f]
    BY <1>5 DEF CopyMove, SameMinted, OtherCopies
  <2>2. CASE Started(w, e)
    <3>1. Copied(w, e)
      BY DEF IInv, Truth
    <3>2. e \in 1 .. minted[w]
      BY <1>2, <2>2, <3>1 DEF Started, Delivers, Copied
    <3>3. /\ row'[w].event = e /\ msg'[w][e].attempt = row'[w].count
          /\ msg'[w][e].place = "running" /\ row'[w].count \in Nat
      BY <1>1, <2>2 DEF Started, Delivers, MsgType
    <3> QED BY <2>1, <3>2, <3>3 DEF Held
  <2>3. CASE SameRow(w) /\ ~Started(w, e)
    <3>1. /\ row[w].event \in 1 .. minted[w]
          /\ msg[w][row[w].event].attempt <= row[w].count
          /\ msg[w][row[w].event].place \notin {"retry", "failing", "refused"}
      BY <1>1, <1>5, <2>3 DEF SameRow, Held
    <3>2. row'[w] = row[w] /\ row[w].event \in Events(w)
      BY <1>2, <2>3, <3>1 DEF SameRow
    <3>3. CASE row[w].event # e
      BY <2>1, <3>1, <3>2, <3>3 DEF Held
    <3>4. CASE row[w].event = e
      <4>1. Relayed(w, e) \/ Carried(w, e)
        BY <1>5, <2>3, <3>1, <3>4 DEF CopyMove, Returned, Failed, Completed, Delivers
      <4>2. msg'[w][e].attempt = msg[w][e].attempt
            /\ msg'[w][e].place \notin {"retry", "failing", "refused"}
        BY <3>1, <3>4, <4>1 DEF Relayed, Carried
      <4> QED BY <2>1, <3>1, <3>2, <3>4, <4>2 DEF Held
    <3> QED BY <3>3, <3>4
  <2> QED BY <1>5, <2>2, <2>3
          DEF CopyMove, Relayed, Carried, Returned, Failed, Completed, Delivers
<1>6. CASE Restored(w)
  <2>1. PICK k \in OnWork(w) : /\ ~IsPost(k) /\ item[k].status = "dispatched"
                               /\ row'[w] = item[k].snap
    BY <1>6 DEF Restored
  <2>2. item[k].snap.status \in {"failed", "succeeded"}
    BY <2>1 DEF IInv, Plans, Numbered, OnWork
  <2> QED BY <2>1, <2>2 DEF Held
<1> QED BY <1>1, <1>3, <1>4, <1>5, <1>6 DEF WorkMove, Mints, PostWritten, GivenUp

(* Two items of one work are not under way together.                        *)
LEMMA OnlyOneDispatched ==
  ASSUME IInv, NEW i \in Items, NEW k \in Items, WorkOf[i] = WorkOf[k],
         item[i].status = "dispatched", item[k].status = "dispatched"
  PROVE  i = k
<1>1. job[JobOf[i]] \in Live /\ job[JobOf[k]] \in Live
  BY DispatchedLive
<1>2. item[i].reserved /\ item[k].reserved
  BY <1>1 DEF IInv, OneOwner, Active
<1> QED BY <1>2 DEF IInv, OneOwner

(* A stage's item that is under way after the step was so before with the   *)
(* event it has, or has the event that the step mints.                      *)
LEMMA WasDispatched ==
  ASSUME IInv, Reduces, NEW i \in Items, ~IsPost(i), item'[i].status = "dispatched"
  PROVE  \/ Stays(i) /\ item[i].status = "dispatched"
         \/ IsSent(i)
         \/ MovesAlong(i)
<1>1. ItemMove(i) /\ Fits(i)
  BY DEF Reduces, Moves, IInv, Plans
<1> QED BY <1>1 DEF ItemMove, Stays, SameCore, IsPlanned, IsAdmitted, Waits, Begins, Ends,
                    Waiting, Terminal, Fits

LEMMA NotRestored ==
  ASSUME IInv, NEW i \in Items, item[i].status = "dispatched", item'[i].status = "dispatched"
  PROVE  ~Restored(WorkOf[i])
<1>1. SUFFICES ASSUME NEW k \in OnWork(WorkOf[i]), item[k].status = "dispatched",
                      item'[k].status \in Terminal
               PROVE  FALSE
  BY DEF Restored
<1>2. k = i
  BY <1>1, OnlyOneDispatched DEF OnWork
<1> QED BY <1>1, <1>2 DEF Terminal

LEMMA ShownStep ==
  ASSUME IInv, Reduces, Runs, NEW i \in Items
  PROVE  Shown(i)'
<1>1. PICK w \in Works : w = WorkOf[i]
  BY Plan_
<1>2. IsPost(i)' = IsPost(i)
  BY DEF IsPost
<1>3. SUFFICES ASSUME ~IsPost(i), item'[i].status = "dispatched",
                      row'[w].event = item'[i].event, <<w, item'[i].event>> \in done'
               PROVE  row'[w].status = "succeeded"
  BY <1>1, <1>2 DEF Shown, WorkDone
<1>4. WorkMove(w) /\ w \notin Posts
  BY <1>1, <1>3 DEF Runs, Works_, IsPost
<1>5. minted[w] \in Nat /\ 1 .. minted[w] \subseteq Events(w) /\ Events(w) \subseteq Nat \ {0}
  BY Numbers
<1>6. \A e \in Events(w) : <<w, e>> \in done => e <= minted[w] /\ msg[w][e].place = "gone"
  BY DEF IInv, Truth, Copied
<1>7. CASE Stays(i) /\ item[i].status = "dispatched"
  <2>1. item'[i].event = item[i].event /\ item[i].event \in 1 .. minted[w]
    BY <1>1, <1>3, <1>7 DEF IInv, Plans, Numbered, Stays, SameCore
  <2>2. Shown(i)
    BY DEF IInv, Outcomes
  <2>3. CASE SameRow(w) /\ SameDone(w)
    <3>1. row[w].event = item[i].event /\ <<w, item[i].event>> \in done
      BY <1>3, <1>5, <2>1, <2>3 DEF SameRow, SameDone
    <3> QED BY <1>1, <1>3, <1>7, <2>2, <2>3, <3>1 DEF Shown, WorkDone, SameRow
  <2>4. CASE Mints(w)
    BY <1>3, <1>5, <2>1, <2>4 DEF Mints
  <2>5. CASE \E e \in Events(w) : Started(w, e) \/ Failed(w, e)
    <3>1. PICK e \in Events(w) : Started(w, e) \/ Failed(w, e)
      BY <2>5
    <3>2. e = item[i].event /\ <<w, e>> \in done
      BY <1>3, <1>5, <2>1, <3>1 DEF Started, Failed, Delivers, SameDone
    <3> QED BY <1>6, <3>1, <3>2 DEF Started, Failed, Delivers
  <2>6. CASE \E e \in Events(w) : Completed(w, e)
    BY <2>6 DEF Completed, Delivers
  <2>7. CASE GivenUp(w)
    <3>1. row[w].event = item[i].event /\ <<w, item[i].event>> \in done
      BY <1>3, <1>5, <2>1, <2>7 DEF GivenUp, SameDone
    <3> QED BY <1>1, <1>3, <1>7, <2>2, <2>7, <3>1 DEF Shown, WorkDone, GivenUp
  <2>8. ~Restored(w)
    BY <1>1, <1>3, <1>7, NotRestored
  <2> QED BY <1>4, <2>3, <2>4, <2>5, <2>6, <2>7, <2>8
          DEF WorkMove, Still, CopyMove, Relayed, Carried, Returned, PostWritten
<1>8. CASE IsSent(i) \/ MovesAlong(i)
  <2>1. item'[i].event = minted[w] + 1 /\ minted'[w] = minted[w] + 1
    BY <1>1, <1>8 DEF IsSent, MovesAlong
  <2>2. Mints(w)
    BY <1>5, <2>1, Numbers
  <2>3. minted[w] + 1 \in Events(w) /\ <<w, minted[w] + 1>> \in done
    BY <1>3, <1>5, <2>1, <2>2 DEF Mints, SameDone
  <2> QED BY <1>5, <1>6, <2>3
<1> QED BY <1>3, <1>7, <1>8, WasDispatched

(* An item that is left alone after a step was alone before it.             *)
LEMMA WasAlone ==
  ASSUME IInv, Reduces, NEW i \in Items, ~IsPost(i), Alone(i)'
  PROVE  /\ Alone(i)
         /\ \A k \in OnWork(WorkOf[i]) \ {i} : item'[k].event = 0
<1>1. WorkOf[i] \notin Operated /\ \A k \in OnWork(WorkOf[i]) \ {i} : item'[k].event = 0
  BY DEF Alone, OnWork
<1>2. ASSUME NEW k \in Items, ~IsPost(k), item[k].event # 0
      PROVE  item'[k].event # 0
  <2>1. ItemMove(k) /\ Fits(k) /\ Numbered(k) /\ minted[WorkOf[k]] \in Nat
    BY InvTypes, Plan_ DEF Reduces, Moves, IInv, Plans, Types, MintedOK
  <2>2. ~IsPlanned(k)
    BY <1>2, <2>1 DEF IsPlanned, Fits, Numbered
  <2> QED BY <1>2, <2>1, <2>2
          DEF ItemMove, Stays, SameCore, IsAdmitted, Waits, Begins, IsSent, MovesAlong, Ends
<1>3. \A k \in OnWork(WorkOf[i]) \ {i} : ~IsPost(k) /\ k \in Items
  BY DEF OnWork, IsPost
<1> QED BY <1>1, <1>2, <1>3 DEF Alone

LEMMA UnrivalledStep ==
  ASSUME IInv, Reduces, Runs, NEW i \in Items
  PROVE  Unrivalled(i)'
<1>1. PICK w \in Works : w = WorkOf[i]
  BY Plan_
<1>2. IsPost(i)' = IsPost(i)
  BY DEF IsPost
<1>3. SUFFICES ASSUME ~IsPost(i), Alone(i)'
               PROVE  /\ item'[i].event = 0 => minted'[w] = 0
                      /\ item'[i].status = "dispatched" =>
                           /\ row'[w].event = item'[i].event
                           /\ \A f \in 1 .. minted'[w] : f # item'[i].event =>
                                /\ msg'[w][f].attempt < row'[w].count
                                /\ msg'[w][f].place \notin {"retry", "failing", "refused"}
  BY <1>1, <1>2 DEF Unrivalled
<1>4. /\ Alone(i) /\ w \notin Operated /\ w \notin Posts
      /\ \A k \in OnWork(w) : k # i => item'[k].event = 0
  BY <1>1, <1>3, WasAlone DEF Alone, IsPost
<1>5. /\ minted[w] \in Nat /\ (minted'[w] = minted[w] \/ (minted'[w] = minted[w] + 1 /\ Mints(w)))
      /\ 1 .. minted[w] \subseteq Events(w) /\ Events(w) \subseteq Nat \ {0}
  BY Numbers
<1>6. /\ item[i].event = 0 => minted[w] = 0
      /\ item[i].status = "dispatched" =>
           /\ row[w].event = item[i].event
           /\ item[i].event \in 1 .. minted[w]
           /\ \A f \in 1 .. minted[w] : f # item[i].event =>
                /\ msg[w][f].attempt < row[w].count
                /\ msg[w][f].place \notin {"retry", "failing", "refused"}
  BY <1>1, <1>3, <1>4 DEF IInv, Outcomes, Unrivalled, Plans, Numbered
<1>7. WorkMove(w) /\ ItemMove(i) /\ Numbered(i) /\ Held(w) /\ row[w] \in RowType
      /\ msg[w] \in [Events(w) -> MsgType]
  BY InvTypes DEF Runs, Works_, Reduces, Moves, IInv, Plans, Truth, Types, RowsOK, Messages
<1>8. \A e \in Events(w) : e > minted[w] => msg[w][e].outbox = "none" /\ msg[w][e].place = "none"
  BY DEF IInv, Truth, Copied
(* A mint for w is i's own: nobody else has an event for it.                *)
<1>9. Mints(w) => \/ IsSent(i)
                  \/ /\ row[w].status = "processing"
                     /\ \A k \in Items : Reclaimed(w, k) => item'[k].event = minted[w] + 1
  <2>1. ASSUME NEW k \in OnWork(w), IsSent(k), k # i
        PROVE  FALSE
    <3>1. item'[k].event = minted[w] + 1
      BY <2>1 DEF OnWork, IsSent
    <3> QED BY <1>4, <1>5, <2>1, <3>1
  <2> QED BY <1>4, <2>1 DEF Mints
<1>10. item'[i].event = 0 => minted'[w] = 0
  <2>1. SUFFICES ASSUME item'[i].event = 0
                 PROVE  minted'[w] = 0
    OBVIOUS
  <2>2. ~IsSent(i)
    BY <1>1, <1>5, <2>1 DEF IsSent
  <2>3. item[i].event = 0
    <3>1. ~MovesAlong(i)
      BY <1>1, <1>5, <2>1 DEF MovesAlong
    <3>2. IsPlanned(i) => item[i].event = 0
      BY <1>3, <1>7 DEF IsPlanned, Numbered, IInv, Plans, Fits
    <3> QED BY <1>7, <2>1, <2>2, <3>1, <3>2
            DEF ItemMove, Stays, SameCore, IsAdmitted, Waits, Begins, Ends
  <2>4. minted[w] = 0
    BY <1>6, <2>3
  <2>5. ~Mints(w)
    <3>1. row[w].status # "processing"
      BY <1>7, <2>4 DEF Held
    <3> QED BY <1>9, <2>2, <3>1
  <2> QED BY <1>5, <2>4, <2>5
<1>11. ASSUME Stays(i), item[i].status = "dispatched"
       PROVE  /\ row'[w].event = item'[i].event
              /\ \A f \in 1 .. minted'[w] : f # item'[i].event =>
                   /\ msg'[w][f].attempt < row'[w].count
                   /\ msg'[w][f].place \notin {"retry", "failing", "refused"}
  <2>1. item'[i].event = item[i].event /\ item'[i].status = "dispatched"
    BY <1>11 DEF Stays, SameCore
  <2>2. /\ row[w].event = item[i].event /\ item[i].event \in 1 .. minted[w]
        /\ \A f \in 1 .. minted[w] : f # item[i].event =>
             /\ msg[w][f].attempt < row[w].count
             /\ msg[w][f].place \notin {"retry", "failing", "refused"}
    BY <1>6, <1>11
  <2>3. ~Mints(w)
    <3>1. ~IsSent(i)
      BY <1>11 DEF IsSent, Waiting
    <3>2. Reclaimed(w, i)
      BY <1>1, <1>11, <2>2 DEF Reclaimed, Riders, OnWork
    <3> QED BY <1>5, <1>9, <2>1, <2>2, <3>1, <3>2
  <2>4. minted'[w] = minted[w]
    BY <1>5, <2>3
  <2>5. CASE SameCopies(w) /\ row'[w].event = row[w].event /\ row'[w].count = row[w].count
    BY <1>5, <2>1, <2>2, <2>4, <2>5 DEF SameCopies
  <2>6. ASSUME NEW e \in Events(w), CopyMove(w, e)
        PROVE  /\ row'[w].event = item'[i].event
               /\ \A f \in 1 .. minted'[w] : f # item'[i].event =>
                    /\ msg'[w][f].attempt < row'[w].count
                    /\ msg'[w][f].place \notin {"retry", "failing", "refused"}
    <3>1. \A f \in Events(w) : f # e => msg'[w][f] = msg[w][f]
      BY <2>6 DEF CopyMove, OtherCopies
    <3>2. e \in 1 .. minted[w]
      BY <1>5, <1>8, <2>6
         DEF CopyMove, Relayed, Carried, Returned, Started, Failed, Completed, Delivers
    <3>3. CASE e = item[i].event
      <4>1. row'[w].event = e /\ row'[w].count >= row[w].count
        <5>1. CASE SameRow(w)
          BY <1>7, <2>2, <3>3, <5>1 DEF SameRow, RowType
        <5>2. CASE \E s \in {"processing", "failed", "succeeded"} : Delivers(w, e, s)
          BY <5>2 DEF Delivers, IsCurrent
        <5> QED BY <2>6, <5>1, <5>2
                DEF CopyMove, Relayed, Carried, Returned, Started, Failed, Completed
      <4>2. row[w].count \in Nat /\ row'[w].count \in Nat
        BY <1>7 DEF RowType, Reduces, Types, RowsOK
      <4>3. \A f \in 1 .. minted[w] : msg[w][f].attempt \in Nat
        BY <1>5, <1>7 DEF MsgType
      <4> QED BY <1>5, <2>1, <2>2, <2>4, <3>1, <3>3, <4>1, <4>2, <4>3
    <3>4. CASE e # item[i].event
      <4>1. /\ msg[w][e].attempt < row[w].count
            /\ msg[w][e].place \notin {"retry", "failing", "refused"}
        BY <2>2, <3>2, <3>4
      <4>2. Relayed(w, e) \/ Carried(w, e)
        <5>1. ~IsCurrent(w, e)
          BY <1>5, <1>7, <3>2, <4>1 DEF IsCurrent, RowType, MsgType
        <5> QED BY <2>6, <4>1, <5>1 DEF CopyMove, Returned, Started, Failed, Completed, Delivers
      <4>3. row'[w] = row[w] /\ msg'[w][e].attempt = msg[w][e].attempt
            /\ msg'[w][e].place \notin {"retry", "failing", "refused"}
        BY <4>1, <4>2 DEF Relayed, Carried, SameRow
      <4> QED BY <1>5, <2>1, <2>2, <2>4, <3>1, <4>1, <4>3
    <3> QED BY <3>3, <3>4
  <2>7. ~Restored(w) /\ ~PostWritten(w)
    BY <1>1, <1>4, <1>11, <2>1, NotRestored DEF PostWritten
  <2> QED BY <1>7, <2>3, <2>5, <2>6, <2>7 DEF WorkMove, Still, SameRow, GivenUp
<1>12. ASSUME IsSent(i) \/ MovesAlong(i)
       PROVE  /\ row'[w].event = item'[i].event
              /\ \A f \in 1 .. minted'[w] : f # item'[i].event =>
                   /\ msg'[w][f].attempt < row'[w].count
                   /\ msg'[w][f].place \notin {"retry", "failing", "refused"}
  <2>1. item'[i].event = minted[w] + 1 /\ minted'[w] = minted[w] + 1
    BY <1>1, <1>12 DEF IsSent, MovesAlong
  <2>2. Mints(w)
    BY <1>5, <2>1
  <2>3. /\ row'[w].event = minted[w] + 1 /\ row'[w].count = row[w].count + 1
        /\ \A f \in 1 .. minted[w] : msg'[w][f] = msg[w][f]
    BY <1>5, <2>2 DEF Mints, OtherCopies
  <2>4. \A f \in 1 .. minted[w] : /\ msg[w][f].attempt <= row[w].count
                                  /\ msg[w][f].place \notin {"retry", "failing", "refused"}
    <3>1. CASE IsSent(i)
      <4>1. item[i].event = 0
        BY <1>3, <1>7, <3>1 DEF IsSent, Numbered
      <4> QED BY <1>6, <4>1
    <3>2. CASE MovesAlong(i)
      <4>1. row[w].status = "processing" /\ item[i].status = "dispatched"
        BY <1>1, <3>2 DEF MovesAlong
      <4>2. \A f \in 1 .. minted[w] : msg[w][f].attempt \in Nat
        BY <1>5, <1>7 DEF MsgType
      <4>3. row[w].count \in Nat
        BY <1>7 DEF RowType
      <4> QED BY <1>6, <1>7, <4>1, <4>2, <4>3 DEF Held
    <3> QED BY <1>12, <3>1, <3>2
  <2>5. row[w].count \in Nat /\ \A f \in 1 .. minted[w] : msg[w][f].attempt \in Nat
    BY <1>5, <1>7 DEF RowType, MsgType
  <2> QED BY <1>5, <2>1, <2>3, <2>4, <2>5
<1> QED BY <1>3, <1>10, <1>11, <1>12, WasDispatched

-----------------------------------------------------------------------------
(* The invariant, inductively.                                              *)
LEMMA InitInv == Init => IInv
<1> SUFFICES ASSUME Init PROVE IInv
  OBVIOUS
<1>1. PICK s \in Scenarios : /\ row = s.rows
                             /\ job = [j \in Jobs |-> IF j \in s.jobs THEN "none" ELSE "never"]
  BY DEF Init
<1>2. row \in [Works -> RestingRows]
  BY <1>1, ScenarioAssumption
<1>3. \A r \in RestingRows : r \in RowType /\ r.status \in {"failed", "succeeded"} /\ r.event = 0
  <2>1. /\ SucceededRow \in RowType /\ SucceededRow.status = "succeeded"
        /\ SucceededRow.event = 0
    BY DEF SucceededRow, RowType
  <2>2. ASSUME NEW b \in BOOLEAN
        PROVE  /\ FailedRow(b) \in RowType /\ FailedRow(b).status = "failed"
               /\ FailedRow(b).event = 0
    BY DEF FailedRow, RowType
  <2> QED BY <2>1, <2>2 DEF RestingRows
<1>4. \A w \in Works : row[w] \in RowType /\ row[w].status \in {"failed", "succeeded"}
                       /\ row[w].event = 0
  BY <1>2, <1>3
<1>5. job \in [Jobs -> JobType] /\ \A j \in Jobs : job[j] \in {"none", "never"}
  BY <1>1 DEF JobType
<1>6. NewItem \in ItemType /\ NewItem.status = "none" /\ NewItem.event = 0
      /\ NewItem.reserved = FALSE
  BY DEF NewItem, ItemType
<1>7. item \in [Items -> ItemType] /\ \A i \in Items : item[i].status = "none"
                                   /\ item[i].event = 0 /\ item[i].reserved = FALSE
  BY <1>6 DEF Init
<1>8. Messages(msg) /\ \A w \in Works : \A e \in Events(w) :
                         msg[w][e].outbox = "none" /\ msg[w][e].place = "none"
  <2>1. PICK m : m = [outbox |-> "none", fails |-> 0, place |-> "none", attempt |-> 0]
    OBVIOUS
  <2>2. m \in MsgType /\ m.outbox = "none" /\ m.place = "none"
    BY <2>1 DEF MsgType, Places
  <2>3. msg = [w \in Works |-> [e \in Events(w) |-> m]]
    BY <2>1 DEF Init
  <2> QED BY <2>2, <2>3 DEF Messages
<1>9. Book(letter) /\ \A w \in Works : \A e \in Letters(w) : letter[w][e].status # "resolved"
  <2>1. PICK l : l = [status |-> "unresolved", owner |-> NoItem]
    OBVIOUS
  <2>2. l \in LetterType /\ l.status # "resolved" /\ NoLetter \in LetterType
        /\ NoLetter.status # "resolved"
    BY <2>1 DEF LetterType, NoLetter
  <2>3. letter = [w \in Works |-> [e \in Letters(w) |->
                    IF e = 0 /\ w \notin Posts /\ row[w].status = "failed" THEN l ELSE NoLetter]]
    BY <2>1 DEF Init
  <2> QED BY <2>2, <2>3 DEF Book
<1>10. minted = [w \in Works |-> 0] /\ done = {} /\ admitted = {} /\ crashes = 0
       /\ raised = [i \in Items |-> "no"] /\ call = [i \in Items |-> "no"]
  BY DEF Init
<1>11. MintedOK(minted)
  BY <1>10, MaxEventsAssumption DEF MintedOK
<1>12. Types
  BY <1>4, <1>2, <1>5, <1>7, <1>8, <1>9, <1>10, <1>11, MaxCrashesAssumption
     DEF Types, JobsOK, ItemsOK, RowsOK, TurnsOK, RaisedType, CallType
<1>13. TypeOK /\ Shape
  BY <1>12, TypesAre
<1>14. OneOwner
  BY <1>7 DEF OneOwner, Active, Waiting
<1>15. ASSUME NEW i \in Items
       PROVE  Fits(i) /\ InTurn(i) /\ Numbered(i) /\ Earned(i)
  <2>1. Fits(i)
    BY <1>5, <1>7, Plan_ DEF Fits, Settled
  <2>2. InTurn(i)
    BY <1>10 DEF InTurn
  <2>3. Numbered(i)
    BY <1>7 DEF Numbered
  <2>4. Earned(i)
    BY <1>7 DEF Earned
  <2> QED BY <2>1, <2>2, <2>3, <2>4
<1>16. ASSUME NEW w \in Works
       PROVE  RowIsTrue(w, row[w]) /\ Held(w) /\ \A e \in Events(w) : Copied(w, e)
  BY <1>4, <1>8, <1>10 DEF RowIsTrue, Held, Copied
<1>17. Letters_
  BY <1>9 DEF Letters_, Redeemed
<1>18. ASSUME NEW i \in Items
       PROVE  Shown(i) /\ Unrivalled(i)
  BY <1>7, <1>10, Plan_ DEF Shown, Unrivalled
<1>19. Reports
  BY <1>5 DEF Reports, Reported
<1> QED BY <1>13, <1>14, <1>15, <1>16, <1>17, <1>18, <1>19 DEF IInv, Plans, Truth, Outcomes

LEMMA StepInv ==
  ASSUME IInv, [Next]_vars
  PROVE  IInv'
<1>1. Reduces /\ Runs
  BY StepReduces, StepRuns
<1>2. Types'
  BY <1>1 DEF Reduces
<1>3. TypeOK' /\ Shape'
  BY <1>2 DEF TypeOK, Shape, Types, JobsOK, ItemsOK, RowsOK, TurnsOK, Messages, Book, MintedOK,
              ItemType, JobType, MsgType, LetterType, RaisedType, CallType
<1>4. OneOwner'
  BY <1>1, OneOwnerStep
<1>5. Plans'
  BY <1>1, FitsStep, InTurnStep, NumberedStep, EarnedStep DEF Plans
<1>6. Truth'
  <2>1. ASSUME NEW w \in Works
        PROVE  /\ RowIsTrue(w, row[w])' /\ Held(w)'
               /\ \A e \in Events(w) : Copied(w, e)'
    BY <1>1, <1>2, RowIsTrueStep, HeldStep, CopiedStep
  <2> QED BY <2>1 DEF Truth, Events
<1>7. Letters_'
  BY <1>1, RedeemedStep DEF Letters_, Letters
<1>8. Outcomes'
  BY <1>1, ShownStep, UnrivalledStep DEF Outcomes
<1>9. Reports'
  BY <1>1, ReportedStep DEF Reports
<1> QED BY <1>3, <1>4, <1>5, <1>6, <1>7, <1>8, <1>9 DEF IInv

LEMMA InvReport == IInv => ReportIsTrue
<1> SUFFICES ASSUME IInv PROVE ReportIsTrue
  OBVIOUS
<1>1. ASSUME NEW j \in Jobs, job[j] \in Settled \ {"expired"}
      PROVE  \A i \in ItemsOf(j) : item[i].status \in Terminal
  BY <1>1 DEF ItemsOf, IInv, Plans, Fits
<1>2. \A j \in Jobs : Reported(j)
  BY DEF IInv, Reports
<1>3. ASSUME NEW i \in Items
      PROVE  /\ item[i].status = "succeeded" => WorkDone(i)
             /\ item[i].event # 0 /\ ParentOf[i] # NoItem => WorkDone(ParentOf[i])
  <2>1. Earned(i)
    BY DEF IInv, Plans
  <2>2. ParentOf[i] # NoItem => Earned(ParentOf[i])
    BY Plan_ DEF IInv, Plans
  <2> QED BY <2>1, <2>2 DEF Earned
<1>4. \A w \in Works : \A e \in Letters(w) :
        letter[w][e].status = "resolved" => item[letter[w][e].owner].status = "succeeded"
  BY DEF IInv, Letters_, Redeemed
<1> QED BY <1>1, <1>2, <1>3, <1>4 DEF ReportIsTrue, Reported

LEMMA StepOutcome ==
  ASSUME IInv, [Next]_vars
  PROVE  [/\ \A i \in Items : item[i].status \in Terminal => item'[i].status = item[i].status
          /\ \A j \in Jobs : job[j] \in Settled => job'[j] \in Settled
          /\ \A i \in Items :
               ~IsPost(i) /\ item[i].status = "dispatched" /\ WorkDone(i) /\ ~TakenOver(i)
                 => item'[i].status \in {"dispatched", "succeeded"}]_vars
<1>1. Reduces
  BY StepReduces
<1>2. \A i \in Items : item[i].status \in Terminal => item'[i].status = item[i].status
  BY <1>1, TerminalStays
<1>3. ASSUME NEW j \in Jobs, job[j] \in Settled
      PROVE  job'[j] \in Settled
  <2>1. JobMove(j)
    BY <1>1 DEF Reduces, Moves
  <2> QED BY <1>3, <2>1 DEF JobMove, Settles, Settled, Live, Admitting
<1>4. ASSUME NEW i \in Items, ~IsPost(i), item[i].status = "dispatched", WorkDone(i), ~TakenOver(i)
      PROVE  item'[i].status \in {"dispatched", "succeeded"}
  <2>1. ItemMove(i) /\ Fits(i)
    BY <1>1 DEF Reduces, Moves, IInv, Plans
  <2>2. ~IsPlanned(i) /\ ~IsAdmitted(i) /\ ~Waits(i)
    BY <1>4, <2>1 DEF IsPlanned, IsAdmitted, Waits, Fits, Waiting
  <2> QED BY <1>4, <2>1, <2>2 DEF ItemMove, Stays, SameCore, Begins, IsSent, MovesAlong, Ends
<1> QED BY <1>2, <1>3, <1>4

(* The inductive invariant holds: what jobs, items, rows, copies and        *)
(* letters know of each other agrees at every step.                         *)
THEOREM Invariance == Spec => []IInv
<1>1. Init => IInv
  BY InitInv
<1>2. IInv /\ [Next]_vars => IInv'
  BY StepInv
<1> QED BY <1>1, <1>2, PTL DEF Spec

(* The tables, the queue and the processes only ever hold values of their   *)
(* types: no step of a job, of its dispatch or of a worker writes another.  *)
THEOREM TypeCorrect == Spec => []TypeOK
<1>1. IInv => TypeOK
  BY DEF IInv
<1> QED BY <1>1, Invariance, PTL

(* One job at a time owns a stage or a post: what the partial unique        *)
(* indexes on reservation_active promise, and what they free when an item   *)
(* ends, through every retry, reclaim and cancellation.                     *)
THEOREM OwnersAreSingle == Spec => []OneOwner
<1>1. IInv => OneOwner
  BY DEF IInv
<1> QED BY <1>1, Invariance, PTL

(* A job's status, an item's success and a resolved dead letter tell what   *)
(* happened to the work (_reconcile_jobs, _reconcile_item,                  *)
(* _resolve_linked_dead_letter).                                            *)
THEOREM ReportsAreTrue == Spec => []ReportIsTrue
<1>1. IInv => ReportIsTrue
  BY InvReport
<1> QED BY <1>1, Invariance, PTL

(* No late delivery, failure record, reclaim or reconciliation changes an   *)
(* outcome, and none hides work that was done for the item, unless          *)
(* another's event took the row.                                            *)
THEOREM OutcomesStand == Spec => OutcomeStands
<1>1. IInv /\ [Next]_vars =>
        [/\ \A i \in Items : item[i].status \in Terminal => item'[i].status = item[i].status
         /\ \A j \in Jobs : job[j] \in Settled => job'[j] \in Settled
         /\ \A i \in Items :
              ~IsPost(i) /\ item[i].status = "dispatched" /\ WorkDone(i) /\ ~TakenOver(i)
                => item'[i].status \in {"dispatched", "succeeded"}]_vars
  BY StepOutcome
<1> QED BY <1>1, Invariance, PTL DEF Spec, OutcomeStands
=============================================================================
