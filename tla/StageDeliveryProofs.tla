------------------------ MODULE StageDeliveryProofs ------------------------
(***************************************************************************)
(* For any workers, copies, events and attempts: attempt_count never goes  *)
(* back, and until the stage is handed on to the next one no message of    *)
(* work that is to be done, or of a failure that is to be recorded, is     *)
(* lost, unless the failure was written over a row that changed under it.  *)
(*                                                                         *)
(* The attempt a delivery carries is checked against the row when it       *)
(* starts and when it reads the row again, without a lock, to complete.    *)
(* Bounded says why that is enough: no copy is more than one attempt ahead *)
(* of the row, what the row has started is not ahead at all, and what a    *)
(* transaction has read is at most one attempt behind when it commits.     *)
(* Waits and Buried say which message owns the row's state: one of the     *)
(* row's own event and not behind it, so that no delivery and no shutdown  *)
(* can take it for superseded.                                             *)
(***************************************************************************)
EXTENDS StageDelivery, FiniteSetTheorems, TLAPS

(* Events are numbered in the order they were dispatched, and the broker    *)
(* knows of none before that.                                               *)
Numbered ==
  /\ NextEvent \in Nat \ {0}
  /\ Issued = 1 .. (NextEvent - 1)

Known ==
  /\ \A c \in Copies : c[1] \notin Issued => place[c] = "unpublished" /\ deaths[c] = 0
  /\ row.event \in Issued
  /\ replay # NoRow => replay.event \in Issued /\ replay.status = "failed"

(* A copy is on one channel at most, and a handler's on its own.            *)
Channels ==
  /\ \A v, w \in Workers : v # w => holds[v] \cap holds[w] = {}
  /\ \A w \in Workers : task[w] # NoTask =>
       /\ holds[w] = {task[w].copy}
       /\ task[w].attempt = AttemptOf(task[w].copy)

(* Who may be ahead of the row.                                             *)
Bounded ==
  /\ \A c \in Copies : /\ AttemptOf(c) <= row.count + 1
                       /\ place[c] = "retry" => AttemptOf(c) <= row.count
  /\ \A w \in Workers : task[w] # NoTask =>
       /\ task[w].pc \in {"running", "completing", "failing", "refused", "reject"}
            => task[w].attempt <= row.count
       /\ task[w].pc = "completing" => task[w].seen \in Rows /\ task[w].seen.count = task[w].attempt
       /\ task[w].seen # NoRow => task[w].seen.count = task[w].attempt
       /\ task[w].pc = "reject" => task[w].attempt < MaxAttempts
       /\ task[w].pc = "requeue" => task[w].cancelled
  /\ replay # NoRow => replay.count <= row.count /\ row.count <= replay.count + 1

(* Who owns the row: a copy of its event, not behind it, that is on its way *)
(* or whose handler, if any, is about to do what Pcs says.                  *)
Held(c, Pcs) ==
  \E w \in Workers : c \in holds[w] /\ (task[w] # NoTask => task[w].pc \in Pcs)

Owner(c) == c[1] = row.event /\ AttemptOf(c) >= row.count

Waiting ==
  \/ row.status = "pending"
  \/ row.status = "failed" /\ row.retryable /\ row.count < MaxAttempts

Waits ==
  Waiting => \E c \in Copies :
    /\ Owner(c)
    /\ \/ place[c] = "unpublished" /\ c[1] \in Issued /\ c[2] = 1
       \/ place[c] \in {"ready", "retry"}
       \/ Held(c, {"reject", "requeue"})

Buried ==
  row.status = "failed" /\ ~row.retryable =>
    \/ row.event \in ledger
    \/ \E c \in Copies : Owner(c) /\ (place[c] = "ready" \/ Held(c, {"bury"}))

UntilHandedOn == ~next /\ ~crossed => row.status # "succeeded" /\ Waits /\ Buried

IInv == TypeOK /\ Numbered /\ Known /\ Channels /\ Bounded /\ UntilHandedOn

-----------------------------------------------------------------------------
(* The types, one by one.                                                   *)
TaskTypes == [Workers -> {NoTask} \cup Tasks]
HeldIsHeld == \A c \in Copies : place[c] = "held" <=> \E w \in Workers : c \in holds[w]

LEMMA TypeParts ==
  /\ TypeOK <=>
       /\ row \in Rows /\ next \in BOOLEAN /\ base \in [Events -> Nat]
       /\ place \in [Copies -> Places] /\ deaths \in [Copies -> Nat]
       /\ holds \in [Workers -> SUBSET Copies] /\ task \in TaskTypes
       /\ replay \in {NoRow} \cup Rows /\ ledger \subseteq Events /\ crossed \in BOOLEAN
       /\ HeldIsHeld
  /\ TypeOK' <=>
       /\ row' \in Rows /\ next' \in BOOLEAN /\ base' \in [Events -> Nat]
       /\ place' \in [Copies -> Places] /\ deaths' \in [Copies -> Nat]
       /\ holds' \in [Workers -> SUBSET Copies] /\ task' \in TaskTypes
       /\ replay' \in {NoRow} \cup Rows /\ ledger' \subseteq Events /\ crossed' \in BOOLEAN
       /\ HeldIsHeld'
BY DEF TypeOK, HeldIsHeld, TaskTypes

(* A copy's event; and every event may have a first copy.                   *)
LEMMA CopyParts ==
  /\ \A c \in Copies : c[1] \in Events
  /\ \A e \in Events : <<e, 1>> \in Copies /\ <<e, 1>>[1] = e /\ <<e, 1>>[2] = 1
<1>1. ASSUME NEW c \in Copies PROVE c[1] \in Events
  <2>1. PICK e \in Events : c \in {e} \X (1 .. CopiesOf[e]) BY DEF Copies
  <2> QED BY <2>1
<1>2. ASSUME NEW e \in Events PROVE <<e, 1>> \in Copies
  <2>1. 1 \in 1 .. CopiesOf[e] BY CopiesAssumption DEF Events
  <2>2. <<e, 1>> \in {e} \X (1 .. CopiesOf[e]) BY <2>1
  <2> QED BY <2>2, Zenon DEF Copies
<1> QED BY <1>1, <1>2

LEMMA RowFields ==
  ASSUME NEW r \in Rows
  PROVE  /\ r.status \in Statuses /\ r.count \in Nat
         /\ r.event \in Events /\ r.retryable \in BOOLEAN
         /\ DOMAIN r = {"status", "count", "event", "retryable"}
BY DEF Rows

LEMMA NewRow ==
  ASSUME NEW s \in Statuses, NEW n \in Nat, NEW e \in Events, NEW b \in BOOLEAN
  PROVE  LET r == [status |-> s, count |-> n, event |-> e, retryable |-> b]
         IN r \in Rows /\ r.status = s /\ r.count = n /\ r.event = e /\ r.retryable = b
BY DEF Rows

LEMMA FlushedFields ==
  ASSUME row \in Rows, NEW seen \in Rows, NEW new \in Rows
  PROVE  LET r == Flushed(seen, new)
         IN /\ r.status = IF new.status # seen.status THEN new.status ELSE row.status
            /\ r.count = IF new.count # seen.count THEN new.count ELSE row.count
            /\ r.event = IF new.event # seen.event THEN new.event ELSE row.event
            /\ r.retryable = IF new.retryable # seen.retryable THEN new.retryable
                             ELSE row.retryable
BY DEF Flushed, Rows

LEMMA FlushedRow ==
  ASSUME row \in Rows, NEW seen \in Rows, NEW new \in Rows
  PROVE  Flushed(seen, new) \in Rows
BY DEF Flushed, Rows

LEMMA TaskFields ==
  ASSUME NEW t \in Tasks
  PROVE  /\ t.copy \in Copies /\ t.attempt \in Nat /\ t.cancelled \in BOOLEAN
         /\ t.seen \in {NoRow} \cup Rows
BY DEF Tasks

-----------------------------------------------------------------------------
(* One handler moves: its message and attempt stay, its position changes.   *)
Pcs == {"running", "completing", "failing", "refused", "duplicate",
        "ack", "reject", "bury", "requeue"}

OneTask(w) == task' \in TaskTypes /\ \A v \in Workers \ {w} : task'[v] = task[v]

Moved(w, pc) ==
  /\ OneTask(w)
  /\ task'[w] \in Tasks
  /\ task'[w].copy = task[w].copy /\ task'[w].attempt = task[w].attempt
  /\ task'[w].pc = pc

LEMMA Steps ==
  ASSUME TypeOK, NEW w \in Workers, task[w] # NoTask, NEW pc \in Pcs, Step(w, pc)
  PROVE  Moved(w, pc) /\ task'[w].cancelled = task[w].cancelled /\ task'[w].seen = NoRow
<1> DEFINE u == [task[w] EXCEPT !.pc = pc, !.seen = NoRow, !.seenNext = FALSE]
<1>1. task[w] \in Tasks /\ task \in TaskTypes BY TypeParts DEF TaskTypes
<1>2. /\ u \in Tasks /\ u.copy = task[w].copy /\ u.attempt = task[w].attempt /\ u.pc = pc
      /\ u.cancelled = task[w].cancelled /\ u.seen = NoRow
  BY <1>1 DEF Tasks, Pcs
<1>3. task' = [task EXCEPT ![w] = u] BY DEF Step
<1> HIDE DEF u
<1> QED BY <1>1, <1>2, <1>3 DEF Moved, OneTask, TaskTypes

LEMMA Reads ==
  ASSUME TypeOK, NEW w \in Workers, task[w] # NoTask,
         task' = [task EXCEPT ![w] = [@ EXCEPT !.pc = "completing", !.seen = row,
                                               !.seenNext = next]]
  PROVE  Moved(w, "completing") /\ task'[w].seen = row
<1> DEFINE u == [task[w] EXCEPT !.pc = "completing", !.seen = row, !.seenNext = next]
<1>1. task[w] \in Tasks /\ task \in TaskTypes BY TypeParts DEF TaskTypes
<1>2. row \in {NoRow} \cup Rows /\ next \in BOOLEAN /\ "completing" \in Pcs BY TypeParts DEF Pcs
<1>3. /\ u \in Tasks /\ u.copy = task[w].copy /\ u.attempt = task[w].attempt
      /\ u.pc = "completing" /\ u.seen = row
  BY <1>1, <1>2 DEF Tasks, Pcs
<1>4. task' = [task EXCEPT ![w] = u] OBVIOUS
<1> HIDE DEF u
<1> QED BY <1>1, <1>3, <1>4 DEF Moved, OneTask, TaskTypes

LEMMA LoadsRow ==
  ASSUME TypeOK, NEW w \in Workers, task[w] # NoTask, Loads(w)
  PROVE  Moved(w, task[w].pc) /\ task'[w].seen = row /\ task'[w].cancelled = task[w].cancelled
<1> DEFINE u == [task[w] EXCEPT !.seen = row]
<1>1. task[w] \in Tasks /\ task \in TaskTypes BY TypeParts DEF TaskTypes
<1>2. row \in {NoRow} \cup Rows BY TypeParts
<1>3. /\ u \in Tasks /\ u.copy = task[w].copy /\ u.attempt = task[w].attempt
      /\ u.pc = task[w].pc /\ u.seen = row /\ u.cancelled = task[w].cancelled
  BY <1>1, <1>2 DEF Tasks
<1>4. task' = [task EXCEPT ![w] = u] BY DEF Loads
<1> HIDE DEF u
<1> QED BY <1>1, <1>3, <1>4 DEF Moved, OneTask, TaskTypes

LEMMA Cancels ==
  ASSUME TypeOK, NEW w \in Workers, task[w] # NoTask, NEW pc \in Pcs,
         task' = [task EXCEPT ![w] = [@ EXCEPT !.pc = pc, !.cancelled = TRUE,
                                               !.seen = NoRow, !.seenNext = FALSE]]
  PROVE  Moved(w, pc) /\ task'[w].cancelled /\ task'[w].seen = NoRow
<1> DEFINE u == [task[w] EXCEPT !.pc = pc, !.cancelled = TRUE, !.seen = NoRow, !.seenNext = FALSE]
<1>1. task[w] \in Tasks /\ task \in TaskTypes BY TypeParts DEF TaskTypes
<1>2. /\ u \in Tasks /\ u.copy = task[w].copy /\ u.attempt = task[w].attempt /\ u.pc = pc
      /\ u.cancelled /\ u.seen = NoRow
  BY <1>1 DEF Tasks, Pcs
<1>3. task' = [task EXCEPT ![w] = u] OBVIOUS
<1> HIDE DEF u
<1> QED BY <1>1, <1>2, <1>3 DEF Moved, OneTask, TaskTypes

LEMMA Finishes ==
  ASSUME TypeOK, NEW w \in Workers, Finish(w)
  PROVE  OneTask(w) /\ task'[w] = NoTask
BY TypeParts DEF Finish, OneTask, TaskTypes

LEMMA AttemptNumber ==
  ASSUME TypeOK, NEW c \in Copies
  PROVE  AttemptOf(c) \in Nat
BY TypeParts, CopyParts DEF AttemptOf

LEMMA Begins ==
  ASSUME TypeOK, NEW w \in Workers, NEW c \in Copies, NEW pc \in {"running", "duplicate"},
         task' = [task EXCEPT ![w] = NewTask(c, pc)]
  PROVE  /\ OneTask(w) /\ task'[w] \in Tasks
         /\ task'[w].copy = c /\ task'[w].attempt = AttemptOf(c) /\ task'[w].pc = pc
         /\ task'[w].seen = NoRow
<1> DEFINE a == AttemptOf(c)
           u == [copy |-> c, attempt |-> a, pc |-> pc, cancelled |-> FALSE,
                 seen |-> NoRow, seenNext |-> FALSE]
<1>1. a \in Nat BY AttemptNumber
<1>2. task' = [task EXCEPT ![w] = u] BY DEF NewTask
<1> HIDE DEF a
<1>3. u \in Tasks /\ u.copy = c /\ u.attempt = a /\ u.pc = pc /\ u.seen = NoRow
  BY <1>1 DEF Tasks
<1> HIDE DEF u
<1> QED BY <1>2, <1>3, TypeParts DEF OneTask, TaskTypes, a

-----------------------------------------------------------------------------
(* Init establishes the inductive invariant.                                *)
LEMMA InitIInv == Init => IInv
<1> SUFFICES ASSUME Init PROVE IInv OBVIOUS
<1> USE DEF Init
<1>0. 1 \in Events BY MaxEventsAssumption DEF Events
<1>r. row.status = "pending" /\ row.count = 0 /\ row.event = 1 /\ row \in Rows
  BY <1>0 DEF Rows, Statuses
<1>1. TypeOK
  <2>1. place \in [Copies -> Places] /\ deaths \in [Copies -> Nat]
        /\ holds \in [Workers -> SUBSET Copies] BY DEF Places
  <2>2. task \in TaskTypes BY DEF TaskTypes
  <2>3. base \in [Events -> Nat] BY DEF Events
  <2>4. HeldIsHeld BY DEF HeldIsHeld
  <2> QED BY <1>r, <2>1, <2>2, <2>3, <2>4, TypeParts
<1>2. Issued = {1} BY <1>0 DEF Issued, Events
<1>3. Numbered
  <2>1. Issued = 1 .. 1 BY <1>2
  <2>a. Cardinality({1}) = 1 BY FS_Singleton
  <2>2. NextEvent = 2 BY <1>2, <2>a DEF NextEvent
  <2>3. 2 - 1 = 1 OBVIOUS
  <2> QED BY <2>1, <2>2, <2>3 DEF Numbered
<1>4. Known BY <1>2, <1>r DEF Known
<1>5. Channels BY DEF Channels
<1>6. Bounded
  <2>1. \A c \in Copies : AttemptOf(c) = base[c[1]] /\ base[c[1]] \in {0, 1}
    BY <1>1, CopyParts, TypeParts DEF AttemptOf
  <2> QED BY <1>r, <2>1 DEF Bounded
<1>7. UntilHandedOn
  <2>1. <<1, 1>> \in Copies /\ <<1, 1>>[1] = 1 /\ <<1, 1>>[2] = 1 BY <1>0, CopyParts
  <2>2. AttemptOf(<<1, 1>>) = 1 BY <1>0, <2>1 DEF AttemptOf
  <2>3. Owner(<<1, 1>>) BY <1>r, <2>1, <2>2 DEF Owner
  <2>4. Waits BY <1>2, <2>1, <2>3 DEF Waits
  <2> QED BY <1>r, <2>4 DEF UntilHandedOn, Buried
<1> QED BY <1>1, <1>3, <1>4, <1>5, <1>6, <1>7 DEF IInv

-----------------------------------------------------------------------------
(* No event is dispatched.                                                  *)
LEMMA SameEvents ==
  ASSUME IInv, base' = base
  PROVE  /\ Numbered' /\ Issued' = Issued
         /\ \A c \in Copies : deaths'[c] = deaths[c] => AttemptOf(c)' = AttemptOf(c)
BY DEF IInv, Numbered, NextEvent, Issued, AttemptOf

(* A handler's copy, its event and its attempt.                             *)
LEMMA Own ==
  ASSUME IInv, NEW w \in Workers, task[w] # NoTask
  PROVE  /\ task[w] \in Tasks /\ task[w].copy \in Copies /\ task[w].attempt \in Nat
         /\ holds[w] = {task[w].copy}
         /\ task[w].attempt = AttemptOf(task[w].copy) /\ place[task[w].copy] = "held"
         /\ task[w].copy[1] \in Issued /\ task[w].copy[1] \in Events
         /\ task[w].attempt <= row.count + 1
<1>1. task[w] \in Tasks BY TypeParts DEF IInv, TaskTypes
<1>2. task[w].copy \in Copies /\ task[w].attempt \in Nat BY <1>1, TaskFields
<1>3. holds[w] = {task[w].copy} /\ task[w].attempt = AttemptOf(task[w].copy)
  BY DEF IInv, Channels
<1>4. place[task[w].copy] = "held" BY <1>2, <1>3, TypeParts DEF IInv, HeldIsHeld
<1>5. task[w].copy[1] \in Issued BY <1>2, <1>4 DEF IInv, Known
<1> QED BY <1>1, <1>2, <1>3, <1>4, <1>5, CopyParts DEF IInv, Bounded

(* The provider raises, or the handler reads the row to complete, or to     *)
(* book its failure.                                                        *)
LEMMA HandlerSteps ==
  ASSUME IInv, NEW w \in Workers,
         \/ \E b \in BOOLEAN : ProviderFails(w, b)
         \/ CompleteRead(w)
         \/ FailRead(w) /\ ~(task[w].attempt < row.count)
  PROVE  IInv'
<1>0. TypeOK /\ task[w] # NoTask /\ task[w].pc \in {"running", "failing", "refused"}
  BY DEF IInv, ProviderFails, CompleteRead, FailRead, Failing, At
<1>1. UNCHANGED <<row, next, base, place, deaths, holds, replay, ledger, crossed>>
  BY DEF ProviderFails, CompleteRead, FailRead, broker
<1>2. task[w].attempt <= row.count /\ task[w].attempt \in Nat /\ row.count \in Nat
  BY <1>0, Own, RowFields, TypeParts DEF IInv, Bounded
<1>3. PICK pc \in {"failing", "refused", "completing"} :
        /\ Moved(w, pc)
        /\ \/ task'[w].seen = NoRow /\ pc # "completing"
           \/ task'[w].seen = row /\ task[w].attempt = row.count
  <2>1. ASSUME NEW b \in BOOLEAN, ProviderFails(w, b)
        PROVE  (Moved(w, "failing") \/ Moved(w, "refused")) /\ task'[w].seen = NoRow
    BY <1>0, <2>1, Steps DEF ProviderFails, Pcs
  <2>2. CASE CompleteRead(w) /\ task[w].attempt < row.count
    BY <1>0, <2>2, Steps DEF CompleteRead, Pcs
  <2>3. CASE CompleteRead(w) /\ ~(task[w].attempt < row.count)
    <3>1. task[w].attempt = row.count BY <1>2, <2>3
    <3> QED BY <1>0, <2>3, <3>1, Reads DEF CompleteRead
  <2>4. CASE FailRead(w) /\ ~(task[w].attempt < row.count)
    <3>1. task[w].attempt = row.count BY <1>2, <2>4
    <3>2. Loads(w) /\ task[w].pc \in {"failing", "refused"}
      BY <2>4 DEF FailRead, Failing, At
    <3> QED BY <1>0, <3>1, <3>2, LoadsRow
  <2> QED BY <2>1, <2>2, <2>3, <2>4
<1>4. task' \in TaskTypes /\ \A v \in Workers \ {w} : task'[v] = task[v]
  BY <1>3 DEF Moved, OneTask
<1>5. task'[w].copy = task[w].copy /\ task'[w].attempt = task[w].attempt /\ task'[w].pc = pc
  BY <1>3 DEF Moved
<1>6. TypeOK' BY <1>0, <1>1, <1>4, TypeParts DEF HeldIsHeld
<1>7. Numbered' /\ Issued' = Issued /\ \A c \in Copies : AttemptOf(c)' = AttemptOf(c)
  BY <1>1, SameEvents
<1>8. Known' BY <1>1, <1>7 DEF IInv, Known
<1>9. Channels'
  <2>1. \A v \in Workers : task[v] # NoTask => task[v].copy \in Copies BY Own
  <2> QED BY <1>0, <1>1, <1>4, <1>5, <1>7, <2>1 DEF IInv, Channels
<1>10. Bounded' BY <1>0, <1>1, <1>2, <1>3, <1>4, <1>5, <1>7, TypeParts DEF IInv, Bounded
<1>11. UntilHandedOn'
  <2>1. \A c \in Copies : Owner(c)' = Owner(c) BY <1>1, <1>7 DEF Owner
  <2>2. ASSUME NEW c, NEW P \in {{"reject", "requeue"}, {"bury"}}, Held(c, P) PROVE Held(c, P)'
    BY <1>0, <1>1, <1>4, <2>2 DEF Held
  <2>3. Waiting' = Waiting BY <1>1 DEF Waiting
  <2> QED BY <1>1, <1>7, <2>1, <2>2, <2>3 DEF IInv, UntilHandedOn, Waits, Buried
<1> QED BY <1>6, <1>7, <1>8, <1>9, <1>10, <1>11 DEF IInv

-----------------------------------------------------------------------------
(* What a channel holds goes somewhere else, and its handler ends.  Only    *)
(* what nobody waits for, and a burial on record, is gone.                  *)
LEMMA Releases ==
  ASSUME IInv, UNCHANGED <<row, next, base, deaths, replay, crossed>>,
         NEW w \in Workers, NEW to \in {"ready", "retry", "gone"},
         place' \in [Copies -> Places],
         \A c \in Copies : place'[c] = IF c \in holds[w] THEN to ELSE place[c],
         holds' = [holds EXCEPT ![w] = {}],
         OneTask(w), task'[w] = NoTask,
         ledger \subseteq ledger', ledger' \subseteq Events,
         to = "retry" => task[w] # NoTask /\ task[w].pc = "reject",
         to = "gone" => /\ task[w] # NoTask /\ task[w].pc \in {"ack", "duplicate", "bury"}
                        /\ task[w].pc = "bury" => task[w].copy[1] \in ledger'
  PROVE  IInv'
<1>0. TypeOK /\ holds \in [Workers -> SUBSET Copies] /\ holds' \in [Workers -> SUBSET Copies]
  BY TypeParts DEF IInv
<1>1. /\ holds'[w] = {} /\ \A v \in Workers \ {w} : holds'[v] = holds[v] /\ task'[v] = task[v]
      /\ task' \in TaskTypes
  BY <1>0 DEF OneTask
<1>2. \A v, u \in Workers : v # u => holds[v] \cap holds[u] = {} BY DEF IInv, Channels
<1>3. \A c \in holds[w] : c \in Copies /\ place[c] = "held"
  BY <1>0, TypeParts DEF HeldIsHeld
<1>4. HeldIsHeld'
  <2> SUFFICES ASSUME NEW c \in Copies
               PROVE  place'[c] = "held" <=> \E v \in Workers : c \in holds'[v]
    BY DEF HeldIsHeld
  <2>1. CASE c \in holds[w] BY <1>1, <1>2, <2>1
  <2>2. CASE c \notin holds[w]
    <3>1. place[c] = "held" <=> \E v \in Workers : c \in holds[v]
      BY <1>0, TypeParts DEF HeldIsHeld
    <3> QED BY <1>1, <2>2, <3>1
  <2> QED BY <2>1, <2>2
<1>5. TypeOK' BY <1>0, <1>1, <1>4, TypeParts
<1>6. Numbered' /\ Issued' = Issued /\ \A c \in Copies : AttemptOf(c)' = AttemptOf(c)
  BY SameEvents
<1>7. Known' BY <1>3, <1>6 DEF IInv, Known
<1>8. Channels'
  <2>1. \A v \in Workers : task[v] # NoTask => task[v].copy \in Copies BY Own
  <2> QED BY <1>1, <1>6, <2>1 DEF IInv, Channels
<1>9. Bounded'
  <2>1. to = "retry" => \A c \in holds[w] : AttemptOf(c) <= row.count
    BY Own DEF IInv, Bounded
  <2>2. \A c \in Copies : /\ AttemptOf(c) <= row.count + 1
                          /\ place'[c] = "retry" => AttemptOf(c) <= row.count
    BY <2>1 DEF IInv, Bounded
  <2> QED BY <1>1, <1>6, <2>2 DEF IInv, Bounded
<1>10. UntilHandedOn'
  <2>0. (\A c \in Copies : Owner(c)' = Owner(c)) /\ Waiting' = Waiting
    BY <1>6 DEF Owner, Waiting
  <2>1. ASSUME NEW c \in Copies, NEW P \in SUBSET Pcs, Held(c, P), c \notin holds[w]
        PROVE  Held(c, P)'
    BY <1>1, <2>1 DEF Held
  <2>2. ASSUME NEW c \in Copies, NEW P \in SUBSET Pcs, Held(c, P), c \in holds[w]
        PROVE  task[w] # NoTask => task[w].pc \in P
    BY <1>2, <2>2 DEF Held
  <2>3. \A c \in Copies : Held(c, {"reject", "requeue"}) =>
           Held(c, {"reject", "requeue"})' \/ place'[c] \in {"ready", "retry"}
    <3>1. {"reject", "requeue"} \in SUBSET Pcs BY DEF Pcs
    <3> QED BY <2>1, <2>2, <3>1
  <2>4. \A c \in Copies : Held(c, {"bury"}) =>
           Held(c, {"bury"})' \/ place'[c] = "ready" \/ c[1] \in ledger'
    <3>1. {"bury"} \in SUBSET Pcs BY DEF Pcs
    <3>2. to = "gone" => holds[w] = {task[w].copy} BY Own
    <3> QED BY <2>1, <2>2, <3>1, <3>2
  <2>5. \A c \in Copies : place[c] # "held" => place'[c] = place[c] BY <1>3
  <2>6. ~next /\ ~crossed => Waits' BY <1>6, <2>0, <2>3, <2>5 DEF IInv, UntilHandedOn, Waits
  <2>7. ~next /\ ~crossed => Buried'
    BY <2>0, <2>4, <2>5 DEF IInv, UntilHandedOn, Buried, Owner
  <2> QED BY <2>6, <2>7 DEF IInv, UntilHandedOn
<1> QED BY <1>5, <1>6, <1>7, <1>8, <1>9, <1>10 DEF IInv

LEMMA Answers ==
  ASSUME IInv, NEW w \in Workers, task[w] # NoTask, NEW to \in {"ready", "retry", "gone"},
         Answer(w, to)
  PROVE  /\ place' \in [Copies -> Places]
         /\ \A c \in Copies : place'[c] = IF c \in holds[w] THEN to ELSE place[c]
         /\ holds' = [holds EXCEPT ![w] = {}]
<1>1. holds[w] = {task[w].copy} /\ task[w].copy \in Copies BY Own
<1>2. place \in [Copies -> Places] BY TypeParts DEF IInv
<1>3. place' = [place EXCEPT ![task[w].copy] = to] /\ to \in Places
  BY <1>1 DEF Answer, Places
<1>4. holds[w] \ {task[w].copy} = {} BY <1>1
<1> QED BY <1>1, <1>2, <1>3, <1>4 DEF Answer

LEMMA AnswerSteps ==
  ASSUME IInv, NEW w \in Workers,
         \/ Ack(w) \/ AckDuplicate(w) \/ Reject(w) \/ Requeue(w)
         \/ \E b \in BOOLEAN : Bury(w, b)
  PROVE  IInv'
<1>0. TypeOK /\ ledger \subseteq Events /\ task[w] # NoTask
  BY TypeParts DEF IInv, Ack, AckDuplicate, Reject, Requeue, Bury, At
<1>1. holds[w] # {} /\ task[w].copy[1] \in Events BY <1>0, Own
<1>2. Finish(w) /\ UNCHANGED <<row, next, base, deaths, replay, crossed>>
  BY <1>1 DEF Ack, AckDuplicate, Reject, Requeue, Bury, Answer, broker
<1>3. OneTask(w) /\ task'[w] = NoTask BY <1>0, <1>2, Finishes
<1>4. PICK to \in {"ready", "retry", "gone"} :
        /\ Answer(w, to)
        /\ ledger \subseteq ledger' /\ ledger' \subseteq Events
        /\ to = "retry" => task[w].pc = "reject"
        /\ to = "gone" => /\ task[w].pc \in {"ack", "duplicate", "bury"}
                          /\ task[w].pc = "bury" => task[w].copy[1] \in ledger'
  BY <1>0, <1>1 DEF Ack, AckDuplicate, Reject, Requeue, Bury, At
<1>5. /\ place' \in [Copies -> Places]
      /\ \A c \in Copies : place'[c] = IF c \in holds[w] THEN to ELSE place[c]
      /\ holds' = [holds EXCEPT ![w] = {}]
  BY <1>0, <1>4, Answers
<1> QED BY <1>0, <1>2, <1>3, <1>4, <1>5, Releases

LEMMA CrashStep ==
  ASSUME IInv, NEW w \in Workers, Crash(w)
  PROVE  IInv'
<1>1. TypeOK /\ ledger \subseteq Events /\ place \in [Copies -> Places] /\ "ready" \in Places
  BY TypeParts DEF IInv, Places
<1>2. OneTask(w) /\ task'[w] = NoTask BY <1>1, Finishes DEF Crash
<1>3. place' \in [Copies -> Places]
      /\ (\A c \in Copies : place'[c] = IF c \in holds[w] THEN "ready" ELSE place[c])
      /\ holds' = [holds EXCEPT ![w] = {}]
  BY <1>1 DEF Crash
<1> QED BY <1>1, <1>2, <1>3, Releases DEF Crash

-----------------------------------------------------------------------------
(* A copy arrives in the queue, from the outbox or from the retry queue.    *)
LEMMA ArrivalSteps ==
  ASSUME IInv, NEW c \in Copies, Publish(c) \/ RetryExpires(c)
  PROVE  IInv'
<1>0. TypeOK /\ place \in [Copies -> Places] /\ deaths \in [Copies -> Nat]
  BY TypeParts DEF IInv
<1>1. /\ UNCHANGED <<row, next, base, holds, task, replay, ledger, crossed>>
      /\ place' = [place EXCEPT ![c] = "ready"] /\ place[c] \in {"unpublished", "retry"}
  BY DEF Publish, RetryExpires
<1>2. place'[c] = "ready" /\ \A d \in Copies \ {c} : place'[d] = place[d] BY <1>0, <1>1
<1>3. /\ deaths' \in [Copies -> Nat]
      /\ \A d \in Copies \ {c} : deaths'[d] = deaths[d]
      /\ \/ deaths'[c] = deaths[c]
         \/ place[c] = "retry" /\ deaths'[c] = deaths[c] + 1
  BY <1>0 DEF Publish, RetryExpires
<1>4. Numbered' /\ Issued' = Issued /\ \A d \in Copies \ {c} : AttemptOf(d)' = AttemptOf(d)
  BY <1>1, <1>3, SameEvents
<1>5. /\ AttemptOf(c) \in Nat /\ row.count \in Nat
      /\ AttemptOf(c)' \in Nat /\ AttemptOf(c)' >= AttemptOf(c)
      /\ AttemptOf(c)' <= row.count + 1
  <2>1. base[c[1]] \in Nat /\ deaths[c] \in Nat /\ row.count \in Nat
    BY <1>0, TypeParts, CopyParts, RowFields
  <2>2. AttemptOf(c) <= row.count + 1 /\ (place[c] = "retry" => AttemptOf(c) <= row.count)
    BY DEF IInv, Bounded
  <2>3. AttemptOf(c)' = base[c[1]] + deaths'[c] BY <1>1 DEF AttemptOf
  <2> QED BY <1>3, <2>1, <2>2, <2>3 DEF AttemptOf
<1>6. \A w \in Workers : c \notin holds[w] BY <1>0, <1>1, TypeParts DEF HeldIsHeld
<1>7. HeldIsHeld' BY <1>0, <1>1, <1>2, <1>6, TypeParts DEF HeldIsHeld
<1>8. TypeOK'
  <2>1. place' \in [Copies -> Places] BY <1>0, <1>1 DEF Places
  <2> QED BY <1>0, <1>1, <1>3, <1>7, <2>1, TypeParts
<1>9. Known'
  <2>1. c[1] \in Issued BY <1>1 DEF IInv, Known, Publish, RetryExpires
  <2> QED BY <1>1, <1>2, <1>3, <1>4, <2>1 DEF IInv, Known
<1>10. Channels'
  <2>1. \A w \in Workers : task[w] # NoTask => task[w].copy \in Copies \ {c} BY <1>6, Own
  <2> QED BY <1>1, <1>4, <2>1 DEF IInv, Channels
<1>11. Bounded'
  <2>1. \A d \in Copies : /\ AttemptOf(d)' <= row.count + 1
                          /\ place'[d] = "retry" => AttemptOf(d)' <= row.count
    BY <1>2, <1>4, <1>5 DEF IInv, Bounded
  <2> QED BY <1>1, <2>1 DEF IInv, Bounded
<1>12. UntilHandedOn'
  <2>1. \A d \in Copies : Owner(d) => Owner(d)' BY <1>1, <1>4, <1>5 DEF Owner
  <2>2. \A d, P : Held(d, P)' = Held(d, P) BY <1>1 DEF Held
  <2>3. Waiting' = Waiting BY <1>1 DEF Waiting
  <2>4. Waits => Waits' BY <1>2, <1>4, <2>1, <2>2, <2>3 DEF Waits
  <2>5. Buried => Buried' BY <1>1, <1>2, <2>1, <2>2 DEF Buried
  <2> QED BY <1>1, <2>4, <2>5 DEF IInv, UntilHandedOn
<1> QED BY <1>4, <1>8, <1>9, <1>10, <1>11, <1>12 DEF IInv

(* A worker takes a copy: the handler begins, or the copy stays unanswered. *)
LEMMA DeliverStep ==
  ASSUME IInv, NEW w \in Workers, NEW c \in Copies, Deliver(w, c)
  PROVE  IInv'
<1>0. TypeOK BY DEF IInv
<1>1. /\ task[w] = NoTask /\ holds[w] = {} /\ place[c] = "ready"
      /\ place' = [place EXCEPT ![c] = "held"] /\ holds' = [holds EXCEPT ![w] = {c}]
      /\ UNCHANGED <<next, base, deaths, replay, ledger>>
  BY DEF Deliver, DeliverDuplicate, DeliverStale, DeliverAndStart, Receive
<1>2. /\ place'[c] = "held" /\ \A d \in Copies \ {c} : place'[d] = place[d]
      /\ holds'[w] = {c} /\ \A v \in Workers \ {w} : holds'[v] = holds[v]
  BY <1>0, <1>1, TypeParts
<1>3. \A v \in Workers : c \notin holds[v] BY <1>0, <1>1, TypeParts DEF HeldIsHeld
<1>4. HeldIsHeld'
  <2> SUFFICES ASSUME NEW d \in Copies
               PROVE  place'[d] = "held" <=> \E v \in Workers : d \in holds'[v]
    BY DEF HeldIsHeld
  <2>1. place[d] = "held" <=> \E v \in Workers : d \in holds[v]
    BY <1>0, TypeParts DEF HeldIsHeld
  <2> QED BY <1>1, <1>2, <2>1
<1>5. Numbered' /\ Issued' = Issued /\ \A d \in Copies : AttemptOf(d)' = AttemptOf(d)
  BY <1>1, SameEvents
<1>a. AttemptOf(c) \in Nat /\ row.count \in Nat /\ AttemptOf(c) <= row.count + 1
      /\ c[1] \in Issued /\ c[1] \in Events
  BY <1>0, <1>1, AttemptNumber, RowFields, TypeParts, CopyParts DEF IInv, Bounded, Known
<1>6. \/ DeliverStale(w, c) /\ row' = row /\ task' = task
      \/ /\ OneTask(w) /\ task'[w] \in Tasks
         /\ task'[w].copy = c /\ task'[w].attempt = AttemptOf(c) /\ task'[w].seen = NoRow
         /\ \/ DeliverDuplicate(w, c) /\ row' = row /\ task'[w].pc = "duplicate"
            \/ DeliverAndStart(w, c) /\ task'[w].pc = "running"
  BY <1>0, Begins DEF Deliver, DeliverStale, DeliverDuplicate, DeliverAndStart
<1>7. task' \in TaskTypes /\ \A v \in Workers \ {w} : task'[v] = task[v]
  BY <1>0, <1>6, TypeParts DEF OneTask
<1>8. row' \in Rows /\ row'.event \in Issued /\ row'.count \in Nat
      /\ row'.count >= row.count /\ row'.count <= row.count + 1
      /\ (DeliverAndStart(w, c) => row'.count = AttemptOf(c) /\ row'.status = "processing"
                                   /\ MayCommit({w}))
  <2>1. CASE row' = row
    <3>1. ~DeliverAndStart(w, c) \/ DeliverAndStart(w, c) OBVIOUS
    <3>2. CASE ~DeliverAndStart(w, c)
      BY <1>0, <1>a, <2>1, <3>2, TypeParts DEF IInv, Known
    <3>3. CASE DeliverAndStart(w, c)
      BY <1>0, <1>a, <2>1, <3>3, TypeParts DEF IInv, Known, DeliverAndStart
    <3> QED BY <3>2, <3>3
  <2>2. CASE DeliverAndStart(w, c)
    <3>1. row' = [status |-> "processing", count |-> AttemptOf(c), event |-> c[1],
                  retryable |-> TRUE] /\ AttemptOf(c) >= row.count /\ MayCommit({w})
      BY <2>2 DEF DeliverAndStart
    <3>2. row' \in Rows /\ row'.event = c[1] /\ row'.count = AttemptOf(c)
          /\ row'.status = "processing"
      BY <1>a, <3>1, NewRow DEF Statuses
    <3> QED BY <1>a, <3>1, <3>2
  <2> QED BY <1>6, <2>1, <2>2
<1>9. TypeOK'
  <2>1. place' \in [Copies -> Places] /\ holds' \in [Workers -> SUBSET Copies]
    BY <1>0, <1>1, TypeParts DEF Places
  <2>2. crossed' \in BOOLEAN
    BY <1>0, <1>6, TypeParts DEF DeliverStale, DeliverDuplicate, DeliverAndStart
  <2> QED BY <1>0, <1>1, <1>4, <1>7, <1>8, <2>1, <2>2, TypeParts
<1>10. Known' BY <1>1, <1>2, <1>5, <1>8, <1>a DEF IInv, Known
<1>11. Channels'
  <2>1. \A v \in Workers : task[v] # NoTask => task[v].copy \in Copies BY Own
  <2>2. \A v, u \in Workers : v # u => holds'[v] \cap holds'[u] = {}
    BY <1>2, <1>3 DEF IInv, Channels
  <2>3. task'[w] # NoTask => holds'[w] = {task'[w].copy} /\ task'[w].attempt = AttemptOf(task'[w].copy)
    BY <1>1, <1>2, <1>6
  <2> QED BY <1>1, <1>2, <1>5, <1>7, <2>1, <2>2, <2>3 DEF IInv, Channels
<1>12. Bounded'
  <2>1. \A d \in Copies : /\ AttemptOf(d)' <= row'.count + 1
                          /\ place'[d] = "retry" => AttemptOf(d)' <= row'.count
    <3>1. \A d \in Copies : AttemptOf(d) \in Nat BY <1>0, AttemptNumber
    <3> QED BY <1>2, <1>5, <1>8, <1>a, <3>1 DEF IInv, Bounded
  <2>2. ASSUME NEW v \in Workers \ {w}, task'[v] # NoTask
        PROVE  /\ task'[v].pc \in {"running", "completing", "failing", "refused", "reject"}
                    => task'[v].attempt <= row'.count
               /\ task'[v].pc = "completing" => task'[v].seen \in Rows
                                                /\ task'[v].seen.count = task'[v].attempt
               /\ task'[v].seen # NoRow => task'[v].seen.count = task'[v].attempt
               /\ task'[v].pc = "reject" => task'[v].attempt < MaxAttempts
               /\ task'[v].pc = "requeue" => task'[v].cancelled
    BY <1>7, <1>8, <1>a, <2>2, Own DEF IInv, Bounded
  <2>3. task'[w] # NoTask => /\ task'[w].pc \in {"running", "duplicate"} /\ task'[w].seen = NoRow
                             /\ task'[w].pc = "running" => task'[w].attempt <= row'.count
    BY <1>1, <1>6, <1>8, <1>a
  <2>4. replay' # NoRow => replay'.count <= row'.count /\ row'.count <= replay'.count + 1
    <3>1. CASE row' = row BY <1>1, <3>1 DEF IInv, Bounded
    <3>2. CASE DeliverAndStart(w, c)
      <4>1. replay \in {NoRow, row} BY <1>8, <3>2 DEF MayCommit
      <4> QED BY <1>1, <1>8, <4>1
    <3> QED BY <1>6, <3>1, <3>2
  <2> QED BY <2>1, <2>2, <2>3, <2>4 DEF Bounded
<1>13. UntilHandedOn'
  <2>1. CASE DeliverAndStart(w, c)
    BY <1>8, <2>1 DEF UntilHandedOn, Waits, Waiting, Buried
  <2>2. CASE DeliverDuplicate(w, c)
    <3>1. row.status \in {"processing", "succeeded"} /\ row' = row /\ crossed' = crossed
      BY <2>2 DEF DeliverDuplicate, IsDuplicate
    <3> QED BY <1>1, <3>1 DEF IInv, UntilHandedOn, Waits, Waiting, Buried
  <2>3. CASE DeliverStale(w, c) /\ row' = row /\ task' = task
    <3>1. ~Owner(c) BY <1>a, <2>3 DEF DeliverStale, Owner
    <3>2. (\A d \in Copies : Owner(d)' = Owner(d)) /\ Waiting' = Waiting
      BY <1>5, <2>3 DEF Owner, Waiting
    <3>3. \A d, P : Held(d, P) => Held(d, P)' BY <1>1, <1>2, <2>3 DEF Held
    <3>4. Waits => Waits' BY <1>2, <1>5, <3>1, <3>2, <3>3 DEF Waits
    <3>5. Buried => Buried' BY <1>1, <1>2, <2>3, <3>1, <3>2, <3>3 DEF Buried
    <3>6. crossed' = crossed BY <2>3 DEF DeliverStale
    <3> QED BY <1>1, <2>3, <3>4, <3>5, <3>6 DEF IInv, UntilHandedOn
  <2> QED BY <1>6, <2>1, <2>2, <2>3
<1> QED BY <1>5, <1>9, <1>10, <1>11, <1>12, <1>13 DEF IInv

-----------------------------------------------------------------------------
(* A handler's transaction commits: it writes the row, and the handler is   *)
(* about to answer, or has ended without an answer.                         *)
LEMMA Commits ==
  ASSUME IInv, UNCHANGED <<base, place, deaths, holds, replay, ledger>>,
         NEW w \in Workers, task[w] # NoTask, OneTask(w), next' \in BOOLEAN,
         crossed' \in BOOLEAN,
         row' \in Rows, row'.event \in Issued,
         row'.count >= row.count, row'.count <= row.count + 1,
         row' = row \/ replay \in {NoRow, row},
         task'[w] # NoTask =>
           /\ task'[w].copy = task[w].copy /\ task'[w].attempt = task[w].attempt
           /\ task'[w].seen = NoRow
           /\ task'[w].pc \in {"refused", "ack", "reject", "bury", "requeue"}
           /\ task'[w].pc \in {"refused", "reject"} => task[w].attempt <= row'.count
           /\ task'[w].pc = "reject" => task[w].attempt < MaxAttempts
           /\ task'[w].pc = "requeue" => task'[w].cancelled,
         UntilHandedOn'
  PROVE  IInv'
<1>0. TypeOK BY DEF IInv
<1>1. task' \in TaskTypes /\ \A v \in Workers \ {w} : task'[v] = task[v] BY DEF OneTask
<1>2. TypeOK' BY <1>0, <1>1, TypeParts DEF HeldIsHeld
<1>3. Numbered' /\ Issued' = Issued /\ \A d \in Copies : AttemptOf(d)' = AttemptOf(d)
  BY SameEvents
<1>4. Known' BY <1>3 DEF IInv, Known
<1>5. Channels'
  <2>1. \A v \in Workers : task[v] # NoTask => task[v].copy \in Copies BY Own
  <2> QED BY <1>1, <1>3, <2>1 DEF IInv, Channels
<1>6. row.count \in Nat /\ row'.count \in Nat BY <1>0, TypeParts, RowFields
<1>7. Bounded'
  <2>1. \A d \in Copies : /\ AttemptOf(d)' <= row'.count + 1
                          /\ place'[d] = "retry" => AttemptOf(d)' <= row'.count
    <3>1. \A d \in Copies : AttemptOf(d) \in Nat BY <1>0, AttemptNumber
    <3> QED BY <1>3, <1>6, <3>1 DEF IInv, Bounded
  <2>2. ASSUME NEW v \in Workers \ {w}, task'[v] # NoTask
        PROVE  /\ task'[v].pc \in {"running", "completing", "failing", "refused", "reject"}
                    => task'[v].attempt <= row'.count
               /\ task'[v].pc = "completing" => task'[v].seen \in Rows
                                                /\ task'[v].seen.count = task'[v].attempt
               /\ task'[v].seen # NoRow => task'[v].seen.count = task'[v].attempt
               /\ task'[v].pc = "reject" => task'[v].attempt < MaxAttempts
               /\ task'[v].pc = "requeue" => task'[v].cancelled
    BY <1>1, <1>6, <2>2, Own DEF IInv, Bounded
  <2>3. replay' # NoRow => replay'.count <= row'.count /\ row'.count <= replay'.count + 1
    BY <1>6 DEF IInv, Bounded
  <2> QED BY <2>1, <2>2, <2>3 DEF Bounded
<1> QED BY <1>2, <1>3, <1>4, <1>5, <1>7 DEF IInv

LEMMA CompleteCommitStep ==
  ASSUME IInv, NEW w \in Workers, CompleteCommit(w)
  PROVE  IInv'
<1>0. TypeOK /\ row \in Rows /\ next \in BOOLEAN /\ row.event \in Issued /\ row.count \in Nat
  BY TypeParts, RowFields DEF IInv, Known
<1>1. /\ task[w] # NoTask /\ task[w].pc = "completing"
      /\ replay \in {NoRow, row}
      /\ UNCHANGED <<base, place, deaths, holds, replay, ledger, crossed>>
  BY DEF CompleteCommit, At, MayCommit, broker
<1>2. /\ task[w].seen \in Rows /\ task[w].seen.count = task[w].attempt
      /\ task[w].attempt <= row.count /\ crossed \in BOOLEAN
  BY <1>1, Own, TaskFields, TypeParts DEF IInv, Bounded
<1>3. CASE next /\ ~task[w].seenNext
  <2>1. Step(w, "refused") /\ UNCHANGED <<row, next>> BY <1>3 DEF CompleteCommit
  <2>2. Moved(w, "refused") /\ task'[w].seen = NoRow BY <1>0, <1>1, <2>1, Steps DEF Pcs
  <2>3. UntilHandedOn' BY <1>3, <2>1 DEF UntilHandedOn
  <2> QED BY <1>0, <1>1, <1>2, <2>1, <2>2, <2>3, Commits DEF Moved
<1>4. CASE ~(next /\ ~task[w].seenNext)
  <2> DEFINE new == [status |-> "succeeded", event |-> task[w].copy[1],
                     count |-> task[w].attempt, retryable |-> FALSE]
  <2>1. row' = Flushed(task[w].seen, new) /\ next' = TRUE /\ Step(w, "ack")
    BY <1>4 DEF CompleteCommit
  <2>2. task[w].copy[1] \in Issued /\ task[w].copy[1] \in Events /\ task[w].attempt \in Nat
    BY <1>1, Own
  <2>3. new \in Rows /\ new.event = task[w].copy[1] /\ new.count = task[w].attempt
    BY <2>2 DEF Rows, Statuses
  <2> HIDE DEF new
  <2>4. row' \in Rows BY <1>0, <1>2, <2>1, <2>3, FlushedRow
  <2>5. row'.count = row.count /\ row'.event \in Issued
    BY <1>0, <1>2, <2>1, <2>2, <2>3, FlushedFields
  <2>6. Moved(w, "ack") BY <1>0, <1>1, <2>1, Steps DEF Pcs
  <2>7. UntilHandedOn' BY <2>1 DEF UntilHandedOn
  <2>8. task'[w].seen = NoRow BY <1>0, <1>1, <2>1, Steps DEF Pcs
  <2> QED BY <1>0, <1>1, <1>2, <2>1, <2>4, <2>5, <2>6, <2>7, <2>8, Commits DEF Moved
<1> QED BY <1>3, <1>4

(* Who owns the row goes on owning it while neither the row nor a channel   *)
(* changes and the handler that is about to answer for it keeps to that.    *)
LEMMA StillOwned ==
  ASSUME IInv, UNCHANGED <<row, next, base, place, deaths, holds, ledger, crossed>>,
         NEW w \in Workers, task[w] # NoTask, OneTask(w),
         task'[w] # NoTask /\ task[w].pc \in {"reject", "requeue"} /\ Waiting /\ Owner(task[w].copy)
           => task'[w].pc \in {"reject", "requeue"},
         task'[w] # NoTask /\ task[w].pc = "bury" /\ row.status = "failed" /\ ~row.retryable
           /\ Owner(task[w].copy)
           => task'[w].pc = "bury"
  PROVE  UntilHandedOn'
<1>1. Issued' = Issued /\ \A d \in Copies : AttemptOf(d)' = AttemptOf(d) BY SameEvents
<1>2. (\A d \in Copies : Owner(d)' = Owner(d)) /\ Waiting' = Waiting
  BY <1>1 DEF Owner, Waiting
<1>3. \A v \in Workers \ {w} : task'[v] = task[v] BY DEF OneTask
<1>4. holds[w] = {task[w].copy} BY Own
<1>5. Waiting => \A c \in Copies : Owner(c) /\ Held(c, {"reject", "requeue"})
                                      => Held(c, {"reject", "requeue"})'
  BY <1>3, <1>4 DEF Held
<1>6. row.status = "failed" /\ ~row.retryable =>
        \A c \in Copies : Owner(c) /\ Held(c, {"bury"}) => Held(c, {"bury"})'
  BY <1>3, <1>4 DEF Held
<1>7. Waits => Waits' BY <1>1, <1>2, <1>5 DEF Waits
<1>8. Buried => Buried' BY <1>1, <1>2, <1>6 DEF Buried
<1> QED BY <1>7, <1>8 DEF IInv, UntilHandedOn

(* A stale failure ends its handler; the message stays unanswered.          *)
LEMMA FailReadStep ==
  ASSUME IInv, NEW w \in Workers, FailRead(w)
  PROVE  IInv'
<1>0. TypeOK /\ row \in Rows /\ next \in BOOLEAN /\ row.event \in Issued /\ row.count \in Nat
      /\ crossed \in BOOLEAN
  BY TypeParts, RowFields DEF IInv, Known
<1>1. /\ task[w] # NoTask /\ task[w].pc \in {"failing", "refused"}
      /\ UNCHANGED <<row, next, base, place, deaths, holds, replay, ledger, crossed>>
  BY DEF FailRead, Failing, At, broker
<1>2. CASE task[w].attempt < row.count
  <2>1. Finish(w) BY <1>2 DEF FailRead
  <2>2. OneTask(w) /\ task'[w] = NoTask BY <1>0, <2>1, Finishes
  <2>3. UntilHandedOn' BY <1>1, <2>1, <2>2, StillOwned
  <2> QED BY <1>0, <1>1, <2>1, <2>2, <2>3, Commits
<1>3. CASE ~(task[w].attempt < row.count) BY <1>3, HandlerSteps
<1> QED BY <1>2, <1>3

(* A failure is written.  Over the row it has read it makes its own message *)
(* the owner; what it writes over another row is exempt (crossed).          *)
LEMMA FailCommitStep ==
  ASSUME IInv, NEW w \in Workers, FailCommit(w)
  PROVE  IInv' /\ row'.count >= row.count
<1>0. TypeOK /\ row \in Rows /\ next \in BOOLEAN /\ row.event \in Issued /\ row.count \in Nat
  BY TypeParts, RowFields DEF IInv, Known
<1>1. /\ task[w] # NoTask /\ task[w].pc \in {"failing", "refused"} /\ task[w].seen # NoRow
      /\ replay \in {NoRow, row} /\ crossed' = (row # task[w].seen)
      /\ UNCHANGED <<next, base, place, deaths, holds, replay, ledger>>
  BY DEF FailCommit, Failing, Open, At, MayCommit, broker
<1>2. PICK c \in Copies, a \in Nat, seen \in Rows :
        c = task[w].copy /\ a = task[w].attempt /\ seen = task[w].seen
  BY <1>1, Own, TaskFields
<1>3. /\ c[1] \in Issued /\ c[1] \in Events /\ holds[w] = {c} /\ a = AttemptOf(c)
      /\ a <= row.count /\ seen.count = a
  BY <1>1, <1>2, Own DEF IInv, Bounded
<1> DEFINE pc == IF task[w].pc = "failing" /\ a < MaxAttempts THEN "reject" ELSE "bury"
           b == task[w].pc = "failing"
           new == [status |-> "failed", event |-> c[1], count |-> a, retryable |-> b]
<1>4. row' = Flushed(seen, new) /\ Step(w, pc) BY <1>2 DEF FailCommit
<1>5. b \in BOOLEAN /\ pc \in {"reject", "bury"}
      /\ (pc = "reject" => b /\ a < MaxAttempts) /\ (b /\ a < MaxAttempts => pc = "reject")
  OBVIOUS
<1> HIDE DEF pc, b
<1>6. new \in Rows /\ new.status = "failed" /\ new.count = a /\ new.event = c[1]
      /\ new.retryable = b
  BY <1>3, <1>5 DEF Rows, Statuses
<1> HIDE DEF new
<1>7. row' \in Rows BY <1>0, <1>4, <1>6, FlushedRow
<1>8. row'.count = row.count /\ row'.event \in Issued
  BY <1>0, <1>3, <1>4, <1>6, FlushedFields
<1>9. Moved(w, pc) /\ task'[w].seen = NoRow BY <1>0, <1>1, <1>4, <1>5, Steps DEF Pcs
<1>10. UntilHandedOn'
  <2> SUFFICES ASSUME ~crossed' PROVE row'.status # "succeeded" /\ Waits' /\ Buried'
    BY DEF UntilHandedOn
  <2>1. row = seen BY <1>1, <1>2
  <2>2. row'.status = "failed" /\ row'.count = a /\ row'.event = c[1] /\ row'.retryable = b
    BY <1>0, <1>4, <1>6, <2>1, FlushedFields
  <2>3. AttemptOf(c)' = a BY <1>1, <1>3, SameEvents
  <2>4. Owner(c)' BY <1>3, <2>2, <2>3 DEF Owner
  <2>5. Waits'
    <3>1. Waiting' => pc = "reject" BY <1>5, <2>2 DEF Waiting
    <3>2. pc = "reject" => Held(c, {"reject", "requeue"})'
      BY <1>1, <1>3, <1>9 DEF Held, Moved
    <3> QED BY <2>4, <3>1, <3>2 DEF Waits
  <2>6. Buried'
    <3>1. ~row'.retryable => pc = "bury" BY <1>5, <2>2
    <3>2. pc = "bury" => Held(c, {"bury"})' BY <1>1, <1>3, <1>9 DEF Held, Moved
    <3> QED BY <2>4, <3>1, <3>2 DEF Buried
  <2> QED BY <2>2, <2>5, <2>6
<1>11. crossed' \in BOOLEAN BY <1>1
<1>12. /\ task'[w].copy = task[w].copy /\ task'[w].attempt = a /\ task'[w].pc = pc /\ OneTask(w)
  BY <1>2, <1>9 DEF Moved
<1>13. /\ task'[w].pc \in {"refused", "ack", "reject", "bury", "requeue"}
       /\ task'[w].pc \in {"refused", "reject"} => task[w].attempt <= row'.count
       /\ task'[w].pc = "reject" => task[w].attempt < MaxAttempts
       /\ task'[w].pc = "requeue" => task'[w].cancelled
  BY <1>2, <1>3, <1>5, <1>8, <1>12
<1>14. row'.count >= row.count /\ row'.count <= row.count + 1 BY <1>0, <1>8
<1>15. IInv'
  BY <1>0, <1>1, <1>2, <1>7, <1>8, <1>9, <1>10, <1>11, <1>12, <1>13, <1>14, Commits
<1> QED BY <1>14, <1>15

(* A shutdown books what it interrupts and decides what to answer.          *)
LEMMA AbandonStep ==
  ASSUME IInv, NEW w \in Workers, Abandon(w)
  PROVE  IInv'
<1>0. TypeOK /\ row \in Rows /\ next \in BOOLEAN /\ row.event \in Issued /\ row.count \in Nat
      /\ row.retryable \in BOOLEAN /\ row.status \in Statuses /\ row.event \in Events
  BY TypeParts, RowFields DEF IInv, Known
<1>1. /\ task[w] # NoTask /\ ~task[w].cancelled /\ replay \in {NoRow, row}
      /\ UNCHANGED <<next, base, place, deaths, holds, replay, ledger, crossed>>
      /\ crossed \in BOOLEAN
  BY TypeParts DEF Abandon, MayCommit, broker, IInv
<1>a. PICK c \in Copies, a \in Nat : c = task[w].copy /\ a = task[w].attempt BY <1>1, Own
<1>2. /\ c[1] \in Issued /\ c[1] \in Events
      /\ holds[w] = {c} /\ a = AttemptOf(c) /\ a <= row.count + 1
  BY <1>1, <1>a, Own
<1> DEFINE mine == row.event = c[1] /\ a >= row.count
           dead == ~row.retryable \/ a >= MaxAttempts
<1>3. PICK pc \in {"requeue", "bury", "ack"} :
        /\ task' = [task EXCEPT ![w] = [@ EXCEPT !.pc = pc, !.cancelled = TRUE,
                                               !.seen = NoRow, !.seenNext = FALSE]]
        /\ mine /\ row.status = "processing" => pc = "requeue"
        /\ mine /\ row.status = "failed" => pc = IF dead THEN "bury" ELSE "requeue"
        /\ mine /\ row.status = "pending" => pc = "requeue"
        /\ row' = IF mine /\ row.status = "processing"
                  THEN [row EXCEPT !.status = "failed", !.retryable = TRUE, !.count = a]
                  ELSE row
  BY <1>a DEF Abandon
<1>4. Moved(w, pc) /\ task'[w].cancelled /\ task'[w].seen = NoRow BY <1>0, <1>1, <1>3, Cancels DEF Pcs
<1>5. CASE mine /\ row.status = "processing"
  <2>1. row' = [row EXCEPT !.status = "failed", !.retryable = TRUE, !.count = a] BY <1>3, <1>5
  <2>2. /\ row' \in Rows /\ row'.status = "failed" /\ row'.retryable = TRUE
        /\ row'.count = a /\ row'.event = row.event
    BY <1>0, <1>2, <2>1 DEF Rows, Statuses
  <2>3. pc = "requeue" BY <1>3, <1>5
  <2>4. AttemptOf(c)' = a BY <1>1, <1>2, SameEvents
  <2>5. Owner(c)' BY <1>2, <1>5, <2>2, <2>4 DEF Owner
  <2>6. Held(c, {"reject", "requeue"})' BY <1>1, <1>2, <1>4, <2>3 DEF Held, Moved
  <2>7. UntilHandedOn' BY <1>2, <2>2, <2>5, <2>6 DEF UntilHandedOn, Waits, Buried
  <2> QED BY <1>0, <1>1, <1>2, <1>4, <1>5, <2>2, <2>3, <2>7, Commits DEF Moved
<1>6. CASE ~(mine /\ row.status = "processing")
  <2>1. row' = row BY <1>3, <1>6
  <2>2. Owner(c) => mine BY <1>2 DEF Owner
  <2>3. task[w].pc \in {"reject", "requeue"} => task[w].pc = "reject" /\ a < MaxAttempts
    BY <1>1, <1>a DEF IInv, Bounded
  <2>4. task[w].pc \in {"reject", "requeue"} /\ Waiting /\ Owner(c) => pc = "requeue"
    <3> SUFFICES ASSUME task[w].pc \in {"reject", "requeue"}, Waiting, Owner(c)
                 PROVE  pc = "requeue"
      OBVIOUS
    <3>1. mine /\ a < MaxAttempts /\ MaxAttempts \in Nat BY <2>2, <2>3, MaxAttemptsAssumption
    <3>2. CASE row.status = "pending" BY <1>3, <3>1, <3>2
    <3>3. CASE row.status = "failed" /\ row.retryable
      <4>1. ~dead BY <1>2, <3>1, <3>3
      <4> QED BY <1>3, <3>1, <3>3, <4>1
    <3> QED BY <3>2, <3>3 DEF Waiting
  <2>5. row.status = "failed" /\ ~row.retryable /\ Owner(c) => pc = "bury"
    BY <1>3, <2>2
  <2>6. OneTask(w) /\ task'[w].pc = pc BY <1>4 DEF Moved
  <2>7. UntilHandedOn' BY <1>1, <1>a, <2>1, <2>4, <2>5, <2>6, StillOwned
  <2>8. pc \notin {"refused", "reject"} BY <1>3
  <2>9. pc \in {"requeue", "bury", "ack"} BY <1>3
  <2> HIDE DEF mine, dead
  <2> QED BY <1>0, <1>1, <1>4, <2>1, <2>7, <2>8, <2>9, Commits DEF Moved
<1> QED BY <1>5, <1>6

-----------------------------------------------------------------------------
(* The stage is dispatched again: the row is reserved for a new event,      *)
(* whose first copy waits in the outbox.                                    *)
LEMMA Dispatches ==
  ASSUME IInv, UNCHANGED <<next, place, deaths, holds, task, ledger>>,
         NEW n \in Events, n = NextEvent, NEW k \in Nat \ {0},
         base' = [base EXCEPT ![n] = k],
         row' \in Rows, row'.status = "pending", row'.count = k, row'.event = n,
         row.count <= k, k <= row.count + 1,
         replay' = NoRow, crossed' = FALSE
  PROVE  IInv'
<1>0. TypeOK /\ row \in Rows /\ row.count \in Nat /\ base \in [Events -> Nat]
  BY TypeParts, RowFields DEF IInv
<1>1. n \in Nat \ {0} /\ Issued = 1 .. (n - 1) /\ n \notin Issued BY DEF IInv, Numbered
<1>2. base' \in [Events -> Nat] /\ base'[n] = k /\ \A e \in Events \ {n} : base'[e] = base[e]
  BY <1>0
<1>3. Issued' = Issued \cup {n} BY <1>2 DEF Issued
<1>4. TypeOK' BY <1>0, <1>2, TypeParts DEF HeldIsHeld
<1>5. Numbered'
  <2>1. Issued' = 1 .. n BY <1>1, <1>3
  <2>2. Cardinality(1 .. n) = n BY <1>1, FS_Interval
  <2>3. NextEvent' = n + 1 BY <2>1, <2>2 DEF NextEvent
  <2> QED BY <1>1, <2>1, <2>3 DEF Numbered
<1>6. \A c \in Copies : c[1] = n => place[c] = "unpublished" /\ deaths[c] = 0
  BY <1>1 DEF IInv, Known
<1>7. \A c \in Copies : IF c[1] = n THEN AttemptOf(c)' = k ELSE AttemptOf(c)' = AttemptOf(c)
  <2>1. \A c \in Copies : AttemptOf(c)' = base'[c[1]] + deaths[c] BY DEF AttemptOf
  <2> QED BY <1>2, <1>6, <2>1, CopyParts DEF AttemptOf
<1>8. Known'
  <2>1. row'.event \in Issued' /\ row.event \in Issued' BY <1>3 DEF IInv, Known
  <2> QED BY <1>3, <2>1 DEF IInv, Known
<1>9. Channels'
  <2>1. \A v \in Workers : task[v] # NoTask => task[v].copy \in Copies /\ task[v].copy[1] # n
    BY <1>1, Own
  <2> QED BY <1>7, <2>1 DEF IInv, Channels
<1>10. Bounded'
  <2>1. \A d \in Copies : /\ AttemptOf(d)' <= row'.count + 1
                          /\ place'[d] = "retry" => AttemptOf(d)' <= row'.count
    <3>1. \A d \in Copies : AttemptOf(d) \in Nat BY <1>0, AttemptNumber
    <3> QED BY <1>0, <1>6, <1>7, <3>1 DEF IInv, Bounded
  <2>2. ASSUME NEW v \in Workers, task'[v] # NoTask
        PROVE  /\ task'[v].pc \in {"running", "completing", "failing", "refused", "reject"}
                    => task'[v].attempt <= row'.count
               /\ task'[v].pc = "completing" => task'[v].seen \in Rows
                                                /\ task'[v].seen.count = task'[v].attempt
               /\ task'[v].seen # NoRow => task'[v].seen.count = task'[v].attempt
               /\ task'[v].pc = "reject" => task'[v].attempt < MaxAttempts
               /\ task'[v].pc = "requeue" => task'[v].cancelled
    BY <1>0, <2>2, Own DEF IInv, Bounded
  <2> QED BY <1>0, <2>1, <2>2 DEF Bounded
<1>11. UntilHandedOn'
  <2> DEFINE d == <<n, 1>>
  <2>1. d \in Copies /\ d[1] = n /\ d[2] = 1 BY CopyParts
  <2> HIDE DEF d
  <2>2. PICK c \in Copies : c[1] = n /\ c[2] = 1 BY <2>1
  <2>3. Owner(c)' BY <1>7, <2>2 DEF Owner
  <2>4. place'[c] = "unpublished" /\ c[1] \in Issued' BY <1>3, <1>6, <2>2
  <2>5. Waits' BY <2>2, <2>3, <2>4 DEF Waits
  <2> QED BY <2>5 DEF UntilHandedOn, Buried
<1> QED BY <1>4, <1>5, <1>8, <1>9, <1>10, <1>11 DEF IInv

LEMMA ReclaimStep == ASSUME IInv, Reclaim PROVE IInv'
<1>0. /\ TypeOK /\ row \in Rows /\ row.count \in Nat /\ row.event \in Issued
      /\ row.event \in Events /\ NextEvent \in Nat
  BY TypeParts, RowFields DEF IInv, Known, Numbered
<1>1. /\ row.status = "processing" /\ replay = NoRow
      /\ UNCHANGED <<next, place, deaths, holds, task, replay, ledger>>
  BY DEF Reclaim, MayCommit, broker, IInv, Known
<1>2. CASE row.count >= MaxAttempts
  <2>1. row' = [row EXCEPT !.status = "failed", !.retryable = TRUE] /\ base' = base
        /\ crossed' = crossed
    BY <1>2 DEF Reclaim
  <2>2. row' \in Rows /\ row'.status = "failed" /\ row'.retryable = TRUE
        /\ row'.count = row.count /\ row'.event = row.event
    BY <1>0, <2>1 DEF Rows, Statuses
  <2>3. TypeOK' BY <1>0, <1>1, <2>1, <2>2, TypeParts DEF HeldIsHeld
  <2>4. Numbered' /\ Issued' = Issued /\ \A c \in Copies : AttemptOf(c)' = AttemptOf(c)
    BY <1>1, <2>1, SameEvents
  <2>5. Known' /\ Channels'
    <3>1. \A v \in Workers : task[v] # NoTask => task[v].copy \in Copies BY Own
    <3> QED BY <1>1, <2>2, <2>4, <3>1 DEF IInv, Known, Channels
  <2>6. Bounded' BY <1>1, <2>2, <2>4 DEF IInv, Bounded
  <2>7. UntilHandedOn'
    BY <1>0, <1>2, <2>2, MaxAttemptsAssumption DEF UntilHandedOn, Waits, Waiting, Buried
  <2> QED BY <2>3, <2>4, <2>5, <2>6, <2>7 DEF IInv
<1>3. CASE ~(row.count >= MaxAttempts)
  <2>1. PICK n \in Events, k \in Nat \ {0} : n = NextEvent /\ k = row.count + 1
    BY <1>0, <1>3 DEF Reclaim
  <2>2. row' = [status |-> "pending", count |-> k, event |-> n, retryable |-> TRUE]
    BY <1>3, <2>1 DEF Reclaim, Reserve
  <2>3. row' \in Rows /\ row'.status = "pending" /\ row'.count = k /\ row'.event = n
    BY <2>2, NewRow DEF Statuses
  <2>4. base' = [base EXCEPT ![n] = k] /\ crossed' = FALSE
    BY <1>3, <2>1, <2>2, <2>3 DEF Reclaim, Reserve
  <2>5. row.count <= k /\ k <= row.count + 1 BY <1>0, <2>1
  <2> QED BY <1>1, <2>1, <2>3, <2>4, <2>5, Dispatches
<1> QED BY <1>2, <1>3

LEMMA ReplayReadStep == ASSUME IInv, ReplayRead PROVE IInv'
<1>1. replay' = row /\ row.status = "failed"
      /\ UNCHANGED <<row, next, base, place, deaths, holds, task, ledger, crossed>>
  BY DEF ReplayRead, broker
<1>2. TypeOK' /\ row.count \in Nat BY <1>1, TypeParts, RowFields DEF IInv, HeldIsHeld
<1>3. Numbered' /\ Issued' = Issued /\ \A c \in Copies : AttemptOf(c)' = AttemptOf(c)
  BY <1>1, SameEvents
<1>4. Known' /\ Channels'
  <2>1. \A v \in Workers : task[v] # NoTask => task[v].copy \in Copies BY Own
  <2> QED BY <1>1, <1>3, <2>1 DEF IInv, Known, Channels
<1>5. Bounded' BY <1>1, <1>2, <1>3 DEF IInv, Bounded
<1>6. UntilHandedOn'
  <2>1. (\A c \in Copies : Owner(c)' = Owner(c)) /\ Waiting' = Waiting
    BY <1>1, <1>3 DEF Owner, Waiting
  <2>2. \A c, P : Held(c, P)' = Held(c, P) BY <1>1 DEF Held
  <2> QED BY <1>1, <1>3, <2>1, <2>2 DEF IInv, UntilHandedOn, Waits, Buried
<1> QED BY <1>2, <1>3, <1>4, <1>5, <1>6 DEF IInv

LEMMA ReplayCommitStep == ASSUME IInv, ReplayCommit PROVE IInv'
<1>0. /\ TypeOK /\ row \in Rows /\ row.count \in Nat /\ NextEvent \in Nat
      /\ replay # NoRow /\ replay \in Rows /\ replay.count \in Nat
      /\ replay.count <= row.count /\ row.count <= replay.count + 1
      /\ replay.event \in Issued
  BY TypeParts, RowFields DEF IInv, Numbered, Known, Bounded, ReplayCommit
<1>1. PICK n \in Events, k \in Nat \ {0} : n = NextEvent /\ k = replay.count + 1
  BY <1>0 DEF ReplayCommit
<1> DEFINE new == [status |-> "pending", count |-> k, event |-> n, retryable |-> TRUE]
<1>2. row' = Flushed(replay, new) /\ base' = [base EXCEPT ![n] = row'.count] /\ replay' = NoRow
      /\ UNCHANGED <<next, place, deaths, holds, task, ledger>> /\ crossed' = FALSE
  BY <1>1 DEF ReplayCommit, Reserve, broker
<1>3. new \in Rows /\ new.status = "pending" /\ new.count = k /\ new.event = n
  BY NewRow DEF Statuses
<1> HIDE DEF new
<1>4. n \notin Issued BY <1>1 DEF IInv, Numbered
<1>5. row' \in Rows BY <1>0, <1>2, <1>3, FlushedRow
<1>6. row'.count = k /\ row'.event = n
  BY <1>0, <1>1, <1>2, <1>3, <1>4, FlushedFields
<1>7. row'.status = "pending"
  <2>1. replay.status = "failed" BY <1>0 DEF IInv, Known
  <2> QED BY <1>0, <1>2, <1>3, <2>1, FlushedFields
<1>8. base' = [base EXCEPT ![n] = k] BY <1>2, <1>6
<1>9. row.count <= k /\ k <= row.count + 1 BY <1>0, <1>1
<1> QED BY <1>1, <1>2, <1>5, <1>6, <1>7, <1>8, <1>9, Dispatches

-----------------------------------------------------------------------------
LEMMA NextIInv == IInv /\ [Next]_vars => IInv'
<1> SUFFICES ASSUME IInv, [Next]_vars PROVE IInv' OBVIOUS
<1>1. ASSUME NEW c \in Copies, Publish(c) \/ RetryExpires(c) PROVE IInv'
  BY <1>1, ArrivalSteps
<1>2. ASSUME NEW w \in Workers, NEW c \in Copies, Deliver(w, c) PROVE IInv'
  BY <1>2, DeliverStep
<1>3. ASSUME NEW w \in Workers, NEW b \in BOOLEAN, ProviderFails(w, b) \/ Bury(w, b) PROVE IInv'
  BY <1>3, HandlerSteps, AnswerSteps
<1>4. ASSUME NEW w \in Workers,
             \/ CompleteRead(w) \/ CompleteCommit(w) \/ FailRead(w) \/ FailCommit(w)
             \/ Ack(w) \/ AckDuplicate(w) \/ Reject(w) \/ Requeue(w)
             \/ Abandon(w) \/ Crash(w)
      PROVE  IInv'
  BY <1>4, HandlerSteps, CompleteCommitStep, FailReadStep, FailCommitStep, AnswerSteps, AbandonStep,
     CrashStep
<1>5. CASE Reclaim \/ ReplayRead \/ ReplayCommit
  BY <1>5, ReclaimStep, ReplayReadStep, ReplayCommitStep
<1>6. CASE UNCHANGED vars
  <2>1. UNCHANGED <<row, next, base, place, deaths, holds, task, replay, ledger, crossed>>
    BY <1>6 DEF vars, broker
  <2>2. TypeOK' BY <2>1, TypeParts DEF IInv, HeldIsHeld
  <2>3. Numbered' /\ Issued' = Issued /\ \A c \in Copies : AttemptOf(c)' = AttemptOf(c)
    BY <2>1, SameEvents
  <2>4. Known' /\ Channels' /\ Bounded'
    <3>1. \A v \in Workers : task[v] # NoTask => task[v].copy \in Copies BY Own
    <3> QED BY <2>1, <2>3, <3>1 DEF IInv, Known, Channels, Bounded
  <2>5. UntilHandedOn'
    <3>1. (\A c \in Copies : Owner(c)' = Owner(c)) /\ Waiting' = Waiting
      BY <2>1, <2>3 DEF Owner, Waiting
    <3>2. \A c, P : Held(c, P)' = Held(c, P) BY <2>1 DEF Held
    <3> QED BY <2>1, <2>3, <3>1, <3>2 DEF IInv, UntilHandedOn, Waits, Buried
  <2> QED BY <2>2, <2>3, <2>4, <2>5 DEF IInv
<1> QED BY <1>1, <1>2, <1>3, <1>4, <1>5, <1>6 DEF Next

(* The message that owns the row is neither settled nor behind it.          *)
LEMMA OwnersAreUsable == IInv => NothingIsLost
<1> SUFFICES ASSUME IInv, ~next, ~crossed PROVE WaitingIsOwned /\ TerminalIsRecorded
  BY DEF NothingIsLost
<1>0. Waits /\ Buried BY DEF IInv, UntilHandedOn
<1>1. ASSUME NEW c \in Copies, NEW P \in {{"reject", "requeue"}, {"bury"}}, Held(c, P)
      PROVE  Unsettled(c)
  BY <1>1 DEF Held, Unsettled
<1>2. WaitingIsOwned
  <2> SUFFICES ASSUME Waiting PROVE \E c \in Copies : Usable(c) BY DEF WaitingIsOwned, Waiting
  <2>1. PICK c \in Copies :
          /\ Owner(c)
          /\ \/ place[c] = "unpublished" /\ c[1] \in Issued /\ c[2] = 1
             \/ place[c] \in {"ready", "retry"}
             \/ Held(c, {"reject", "requeue"})
    BY <1>0 DEF Waits
  <2>2. Unsettled(c) BY <1>1, <2>1 DEF Unsettled
  <2> QED BY <2>1, <2>2 DEF Usable, Owner
<1>3. TerminalIsRecorded
  <2> SUFFICES ASSUME row.status = "failed", ~row.retryable
               PROVE  ledger # {} \/ \E c \in Copies : Unsettled(c)
    BY DEF TerminalIsRecorded
  <2>1. CASE row.event \in ledger BY <2>1
  <2>2. ASSUME NEW c \in Copies, place[c] = "ready" \/ Held(c, {"bury"})
        PROVE  Unsettled(c)
    BY <1>1, <2>2 DEF Unsettled
  <2> QED BY <1>0, <2>1, <2>2 DEF Buried
<1> QED BY <1>2, <1>3

(* No handler writes an attempt below the row's: each has compared, and the *)
(* bounds say that what it compared with cannot be passed meanwhile.        *)
LEMMA NoRegress ==
  ASSUME IInv, [Next]_vars
  PROVE  row'.count >= row.count
<1>0. TypeOK /\ row \in Rows /\ row.count \in Nat BY TypeParts, RowFields DEF IInv
<1>1. CASE UNCHANGED row BY <1>0, <1>1
<1>2. ASSUME NEW w \in Workers, NEW c \in Copies, DeliverAndStart(w, c)
      PROVE  row'.count >= row.count
  BY <1>2 DEF DeliverAndStart
<1>3. ASSUME NEW w \in Workers, CompleteCommit(w) PROVE row'.count >= row.count
  <2>1. task[w] # NoTask /\ task[w].pc = "completing" BY <1>3 DEF CompleteCommit, At
  <2>2. task[w].seen \in Rows /\ task[w].seen.count = task[w].attempt
    BY <2>1, Own, TaskFields DEF IInv, Bounded
  <2> DEFINE new == [status |-> "succeeded", event |-> task[w].copy[1],
                     count |-> task[w].attempt, retryable |-> FALSE]
  <2>3. task[w].copy[1] \in Events /\ task[w].attempt \in Nat BY <2>1, Own
  <2>4. new \in Rows /\ new.count = task[w].attempt BY <2>3 DEF Rows, Statuses
  <2>5. UNCHANGED row \/ row' = Flushed(task[w].seen, new) BY <1>3 DEF CompleteCommit
  <2> HIDE DEF new
  <2> QED BY <1>0, <2>2, <2>4, <2>5, FlushedFields
<1>4. ASSUME NEW w \in Workers, FailCommit(w) PROVE row'.count >= row.count
  BY <1>4, FailCommitStep
<1>5. ASSUME NEW w \in Workers, Abandon(w) PROVE row'.count >= row.count
  <2>1. \/ UNCHANGED row
        \/ /\ task[w].attempt >= row.count
           /\ row' = [row EXCEPT !.status = "failed", !.retryable = TRUE, !.count = task[w].attempt]
    BY <1>5 DEF Abandon
  <2>2. PICK a \in Nat : a = task[w].attempt BY <1>5, Own DEF Abandon
  <2>3. row' = [row EXCEPT !.status = "failed", !.retryable = TRUE, !.count = a] => row'.count = a
    BY <1>0 DEF Rows
  <2> QED BY <1>0, <2>1, <2>2, <2>3
<1>6. CASE Reclaim
  <2>1. \/ row' = [row EXCEPT !.status = "failed", !.retryable = TRUE]
        \/ row' = [status |-> "pending", count |-> row.count + 1,
                   event |-> NextEvent, retryable |-> TRUE]
    BY <1>6 DEF Reclaim, Reserve
  <2>2. CASE row' = [row EXCEPT !.status = "failed", !.retryable = TRUE]
    BY <1>0, <2>2 DEF Rows
  <2> QED BY <1>0, <2>1, <2>2
<1>7. CASE ReplayCommit
  <2>1. /\ replay \in Rows /\ replay.count \in Nat
        /\ row.count <= replay.count + 1 /\ NextEvent \in Events
    BY <1>0, <1>7, TypeParts, RowFields DEF IInv, Bounded, ReplayCommit
  <2> DEFINE k == replay.count + 1
             new == [status |-> "pending", count |-> k, event |-> NextEvent, retryable |-> TRUE]
  <2>2. row' = Flushed(replay, new) BY <1>7 DEF ReplayCommit, Reserve
  <2>3. k \in Nat /\ k # replay.count BY <2>1
  <2> HIDE DEF k
  <2>4. new \in Rows /\ new.count = k BY <2>1, <2>3, NewRow DEF Statuses
  <2> HIDE DEF new
  <2>5. row'.count = k BY <1>0, <2>1, <2>2, <2>3, <2>4, FlushedFields
  <2> QED BY <1>0, <2>1, <2>5 DEF k
<1> QED
  BY <1>1, <1>2, <1>3, <1>4, <1>5, <1>6, <1>7
  DEF Next, vars, Publish, RetryExpires, Deliver, DeliverDuplicate, DeliverStale, ProviderFails,
      CompleteRead, FailRead, Ack, AckDuplicate, Reject, Requeue, Bury, Crash, ReplayRead

-----------------------------------------------------------------------------
(* The inductive invariant holds throughout.                                *)
THEOREM Invariant == Spec => []IInv
BY InitIInv, NextIInv, PTL DEF Spec

(* The state keeps its type, and a copy is held by the broker exactly while *)
(* a channel has it.                                                        *)
THEOREM TypeCorrect == Spec => []TypeOK
<1>1. IInv => TypeOK BY DEF IInv
<1> QED BY <1>1, Invariant, PTL

(* Until complete_*_stage has dispatched the next stage, and unless         *)
(* mark_stage_failed wrote over a row that changed after it was read, a row *)
(* that waits has a message that will start it, and a failure an operator   *)
(* is to see is in the ledger or on its way there.                          *)
THEOREM MessagesAreKept == Spec => []NothingIsLost
<1>1. IInv => NothingIsLost BY OwnersAreUsable
<1> QED BY <1>1, Invariant, PTL

(* attempt_count, which fences stale deliveries, never goes back.           *)
THEOREM AttemptCountIsMonotonic == Spec => AttemptsNeverRegress
<1> DEFINE A == row'.count >= row.count
<1>1. IInv /\ [Next]_vars => A BY NoRegress
<1> HIDE DEF A
<1>2. Spec => [][A]_vars BY <1>1, Invariant, PTL DEF Spec
<1> QED BY <1>2 DEF AttemptsNeverRegress, A
=============================================================================
