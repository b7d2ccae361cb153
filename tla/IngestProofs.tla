---------------------------- MODULE IngestProofs ----------------------------
(***************************************************************************)
(* Proofs about Ingest, for any uploads, sources, collections and workers: *)
(* the decision "no file has the hash" stands while it is used, a request  *)
(* is settled once, a file has its original, and a pending request has     *)
(* what it needs to go on.                                                 *)
(*                                                                         *)
(* The first rests on the advisory lock (LockInv): who is between the      *)
(* decision and the end of its transaction holds it.  The second rests on  *)
(* the lock of the request's row (RowInv): handlers whose transaction has  *)
(* a request have different ones, and all of these are still pending.      *)
(* The other two have invariants of their own on top of IInv: Originals    *)
(* says whose id an original that is put or removed has, Pending whose     *)
(* bytes and messages calls and handlers clean up.                         *)
(***************************************************************************)
EXTENDS Ingest, TLAPS

(* Two handlers never have the same copy, and who stored an original knows  *)
(* for which file.                                                          *)
HandlersOK ==
  /\ \A v, w \in Workers : v # w /\ task[v] # NoTask /\ task[w] # NoTask
       => task[v].copy # task[w].copy
  /\ \A w \in Workers : task[w] # NoTask /\ task[w].pc = "stored" => task[w].file # 0

Deciding == {"matched", "unmatched", "stored"}

ClientLock == \A u \in Uploads : client[u].pc \in Deciding => hashLock = u
TaskLock == \A w \in Workers : task[w] # NoTask /\ task[w].pc \in Deciding => hashLock = w

LockInv == ClientLock /\ TaskLock /\ NoMatchHolds

RowIsPending == \A w \in Workers : HasRequest(w) => request[SourceAt(w)] = "pending"
RowIsOwned ==
  \A v, w \in Workers : v # w /\ HasRequest(v) /\ HasRequest(w) => SourceAt(v) # SourceAt(w)

RowInv == RowIsPending /\ RowIsOwned

IInv == TypeOK /\ HandlersOK /\ LockInv /\ RowInv

-----------------------------------------------------------------------------
(* Next, in the groups the proofs go through: the steps of calls, of        *)
(* handlers, and of everything that touches neither.                        *)
ClientStep(u) ==
  \/ AcceptReplay(u) \/ AcceptFindsNone(u) \/ AcceptDecide(u) \/ AcceptDuplicate(u)
  \/ AcceptPut(u) \/ AcceptCommit(u) \/ AcceptRollback(u) \/ AcceptCleanup(u)
  \/ AcceptDies(u)

HandlerStep(w) ==
  \/ \E b \in BOOLEAN : Materialize(w, b) \/ Bury(w, b)
  \/ InspectInvalid(w) \/ InspectFails(w) \/ Decide(w) \/ Resolve(w)
  \/ PutOriginal(w) \/ MaterializeFails(w) \/ CleanupOriginal(w)
  \/ DiscardTemp(w) \/ Ack(w) \/ Fail(w) \/ WorkerDies(w)

BrokerStep == \E c \in Copies : Publish(c) \/ RetryExpires(c)

CollectionStep ==
  \/ \E k \in Collections, f \in Files, b \in BOOLEAN : Save(k, f) \/ RemoveOpen(k, f, b)
  \/ \E k \in Collections : RemoveCommit(k) \/ Purge(k) \/ RemovalDies(k)

(* The groups are the disjuncts of Next.                                    *)
LEMMA NextCases ==
  ASSUME Next
  PROVE  \/ \E u \in Uploads : ClientStep(u)
         \/ \E w \in Workers : HandlerStep(w)
         \/ \E w \in Workers, c \in Copies : Deliver(w, c)
         \/ BrokerStep \/ CollectionStep
BY DEF Next, ClientStep, HandlerStep, BrokerStep, CollectionStep

(* Broker and collections leave calls, handlers, requests and the lock      *)
(* alone, and add no file.                                                  *)
LEMMA OthersAside ==
  ASSUME BrokerStep \/ CollectionStep
  PROVE  /\ UNCHANGED <<client, task, request, hashLock>>
         /\ files' \subseteq files
<1>1. CASE BrokerStep
  BY <1>1 DEF BrokerStep, Publish, RetryExpires, content
<1>2. CASE CollectionStep
  BY <1>2 DEF CollectionStep, Save, RemoveOpen, RemoveCommit, Purge, RemovalDies,
     Elsewhere, content
<1>. QED BY <1>1, <1>2
(* What a handler's record holds.                                           *)
LEMMA TaskShape ==
  ASSUME DeliveryOK, NEW w \in Workers, task[w] # NoTask
  PROVE  /\ task[w].copy \in Copies /\ SourceAt(w) \in Sources
         /\ task[w].file \in {0} \cup Files /\ task[w].pc \in Stages
<1>1. task[w] \in Tasks
  BY DEF DeliveryOK
<1>. QED BY <1>1 DEF Tasks, SourceAt, Copies

(* A handler's move to another place of its program disturbs no copy.       *)
LEMMA TaskMoves ==
  ASSUME DeliveryOK, HandlersOK, NEW w \in Workers, task[w] # NoTask,
         NEW p \in Stages, NEW f \in {0} \cup Files, p = "stored" => f # 0,
         Move(w, p, f), UNCHANGED broker
  PROVE  DeliveryOK' /\ HandlersOK'
<1> DEFINE t == [copy |-> task[w].copy, pc |-> p, file |-> f]
<1>1. t \in Tasks /\ t # NoTask
  BY TaskShape, NoTaskAssumption DEF Tasks
<1>2. task' = [task EXCEPT ![w] = t] /\ t.copy = task[w].copy
  BY DEF Move
<1> HIDE DEF t
<1>3. task' \in [Workers -> {NoTask} \cup Tasks]
  BY <1>1, <1>2 DEF DeliveryOK
<1>4. \A v \in Workers :
        (task'[v] # NoTask <=> task[v] # NoTask) /\ (task[v] # NoTask => task'[v].copy = task[v].copy)
  BY <1>1, <1>2 DEF DeliveryOK
<1>5. \A v \in Workers : task'[v] = IF v = w THEN t ELSE task[v]
  BY <1>2 DEF DeliveryOK
<1>6. t.pc = "stored" => t.file # 0
  BY DEF t
<1>7. HandlersOK'
  BY <1>4, <1>5, <1>6 DEF HandlersOK
<1>. QED BY <1>3, <1>4, <1>7 DEF DeliveryOK, broker

(* A handler that ends gives its copy back to the broker or takes it away.  *)
LEMMA TaskEnds ==
  ASSUME DeliveryOK, HandlersOK, NEW w \in Workers, task[w] # NoTask,
         NEW to \in Places \ {"held"}, Settle(w, to)
  PROVE  DeliveryOK' /\ HandlersOK'
<1>1. task[w].copy \in Copies
  BY TaskShape
<1>2. task' \in [Workers -> {NoTask} \cup Tasks]
  BY DEF DeliveryOK, Settle
<1>3. \A v \in Workers : task'[v] = IF v = w THEN NoTask ELSE task[v]
  BY DEF DeliveryOK, Settle
<1>4. place' \in [Copies -> Places] /\ deaths' = deaths
  BY <1>1 DEF DeliveryOK, Settle
<1>5. \A c \in Copies : place'[c] = IF c = task[w].copy THEN to ELSE place[c]
  BY <1>1 DEF DeliveryOK, Settle
<1>6. HandlersOK'
  BY <1>3 DEF HandlersOK
<1>7. ASSUME NEW c \in Copies
      PROVE  place'[c] = "held" <=> \E v \in Workers : task'[v] # NoTask /\ task'[v].copy = c
  BY <1>3, <1>5, <1>7 DEF DeliveryOK, HandlersOK
<1>. QED BY <1>2, <1>4, <1>6, <1>7 DEF DeliveryOK

-----------------------------------------------------------------------------
(* Every step keeps the types and the copies with their handlers.           *)
LEMMA ClientTypes == ASSUME TypeOK, NEW u \in Uploads, ClientStep(u) PROVE DataOK'
<1> USE SourceAssumption, ColAssumption DEF TypeOK, DataOK, Idle, Go, EndOf, content, store,
        broker, raised, Statuses
<1>1. CASE AcceptReplay(u)
  BY <1>1 DEF AcceptReplay
<1>2. CASE AcceptFindsNone(u)
  BY <1>2 DEF AcceptFindsNone
<1>3. CASE AcceptDecide(u)
  BY <1>3 DEF AcceptDecide, Acquire, Match
<1>4. CASE AcceptDuplicate(u)
  BY <1>4 DEF AcceptDuplicate, Attach
<1>5. CASE AcceptPut(u)
  BY <1>5 DEF AcceptPut, TempKey
<1>6. CASE AcceptCommit(u)
  <2>1. /\ raisedCalls' \subseteq Uploads
        /\ UNCHANGED <<temp, original, files, public, blocked, saves, made, removal, ledger,
                       raisedFiles>>
    BY <1>6 DEF AcceptCommit
  <2>2. /\ request' \in [Sources -> Statuses]
        /\ tempOf' \in [Sources -> SUBSET Uploads]
    BY <1>6 DEF AcceptCommit, TempKey
  <2>3. \E p \in {"done", "cleanup"} : client' = [client EXCEPT ![u] = [pc |-> p, file |-> 0]]
    BY <1>6 DEF AcceptCommit
  <2>4. hashLock' \in Uploads \cup Workers \cup {Free}
    BY <1>6 DEF AcceptCommit
  <2>. QED BY <2>1, <2>2, <2>3, <2>4
<1>7. CASE AcceptRollback(u)
  BY <1>7 DEF AcceptRollback
<1>8. CASE AcceptCleanup(u)
  BY <1>8 DEF AcceptCleanup, TempKey
<1>9. CASE AcceptDies(u)
  BY <1>9 DEF AcceptDies
<1>. QED BY <1>1, <1>2, <1>3, <1>4, <1>5, <1>6, <1>7, <1>8, <1>9 DEF ClientStep

LEMMA HandlerTypes ==
  ASSUME TypeOK, HandlersOK, NEW w \in Workers, HandlerStep(w)
  PROVE  DataOK'
<1>0. task[w] # NoTask
  BY DEF HandlerStep, Materialize, Bury, InspectInvalid, InspectFails, Decide, Resolve,
     PutOriginal, MaterializeFails, CleanupOriginal, DiscardTemp, Ack, Fail, WorkerDies, At
<1>s. SourceAt(w) \in Sources /\ task[w].file \in {0} \cup Files
  BY <1>0, TaskShape DEF TypeOK
<1> USE <1>s, ColAssumption DEF TypeOK, DataOK, Working, EndOf, content, store, broker, raised,
       Statuses
<1>1. ASSUME NEW b \in BOOLEAN, Materialize(w, b) PROVE DataOK'
  <2>1. task[w].file \in Files
    BY <1>0, <1>1 DEF Materialize, At, HandlersOK
  <2>. QED BY <1>1, <2>1 DEF Materialize, Attach
<1>2. ASSUME NEW b \in BOOLEAN, Bury(w, b) PROVE DataOK'
  BY <1>2 DEF Bury, Settle
<1>3. CASE InspectInvalid(w)
  BY <1>3 DEF InspectInvalid
<1>4. CASE InspectFails(w)
  BY <1>4 DEF InspectFails
<1>5. CASE Decide(w)
  BY <1>5 DEF Decide, Acquire
<1>6. CASE Resolve(w)
  <2>1. CASE task[w].file \in files
    BY <1>6, <2>1 DEF Resolve, Attach
  <2>2. CASE task[w].file \notin files
    BY <1>6, <2>2 DEF Resolve
  <2>. QED BY <2>1, <2>2
<1>7. CASE PutOriginal(w)
  BY <1>7, BoundAssumption DEF PutOriginal, OriginalKey, Files
<1>8. CASE MaterializeFails(w)
  BY <1>8 DEF MaterializeFails
<1>9. CASE CleanupOriginal(w)
  BY <1>9 DEF CleanupOriginal
<1>10. CASE DiscardTemp(w)
  BY <1>10 DEF DiscardTemp
<1>11. CASE Ack(w)
  BY <1>11 DEF Ack, Settle
<1>12. CASE Fail(w)
  BY <1>12 DEF Fail, Settle
<1>13. CASE WorkerDies(w)
  BY <1>13 DEF WorkerDies, Settle
<1>. QED BY <1>1, <1>2, <1>3, <1>4, <1>5, <1>6, <1>7, <1>8, <1>9, <1>10, <1>11, <1>12,
            <1>13 DEF HandlerStep
(* A handler's step keeps every copy with its handler.                      *)
LEMMA HandlerDeliveries ==
  ASSUME TypeOK, HandlersOK, NEW w \in Workers, HandlerStep(w)
  PROVE  DeliveryOK' /\ HandlersOK'
<1>0. task[w] # NoTask
  BY DEF HandlerStep, Materialize, Bury, InspectInvalid, InspectFails, Decide, Resolve,
     PutOriginal, MaterializeFails, CleanupOriginal, DiscardTemp, Ack, Fail, WorkerDies, At
<1>1. ASSUME NEW b \in BOOLEAN, Bury(w, b) PROVE DeliveryOK' /\ HandlersOK'
  <2>1. PICK to \in {"gone", "ready"} : Settle(w, to)
    BY <1>1 DEF Bury
  <2>. QED BY <1>0, <2>1, TaskEnds DEF TypeOK, Places
<1>2. CASE Ack(w) \/ WorkerDies(w)
  BY <1>0, <1>2, TaskEnds DEF TypeOK, Places, Ack, WorkerDies
<1>3. CASE Fail(w)
  <2>1. CASE Settle(w, "retry")
    BY <1>0, <2>1, TaskEnds DEF TypeOK, Places
  <2>2. CASE Move(w, "bury", 0) /\ UNCHANGED broker
    BY <1>0, <2>2, TaskMoves DEF TypeOK, Stages
  <2>. QED BY <1>3, <2>1, <2>2 DEF Fail, Step
<1>4. ASSUME NEW b \in BOOLEAN, Materialize(w, b) PROVE DeliveryOK' /\ HandlersOK'
  <2>1. UNCHANGED broker /\ (Move(w, "discard", 0) \/ Move(w, "cleanup", task[w].file))
    BY <1>4 DEF Materialize, Step, Working
  <2>2. task[w].file \in {0} \cup Files
    BY <1>0, TaskShape DEF TypeOK
  <2>3. CASE Move(w, "discard", 0)
    BY <1>0, <2>1, <2>3, TaskMoves DEF TypeOK, Stages
  <2>4. CASE Move(w, "cleanup", task[w].file)
    BY <1>0, <2>1, <2>2, <2>4, TaskMoves DEF TypeOK, Stages
  <2>. QED BY <2>1, <2>3, <2>4
<1>5. CASE InspectInvalid(w) \/ CleanupOriginal(w) \/ DiscardTemp(w)
  <2>1. PICK p \in {"ack", "failing"} : Move(w, p, 0)
    BY <1>5 DEF InspectInvalid, CleanupOriginal, DiscardTemp, Step
  <2>. QED BY <1>0, <1>5, <2>1, TaskMoves DEF TypeOK, InspectInvalid, CleanupOriginal,
           DiscardTemp, Working, Stages
<1>6. CASE InspectFails(w)
  <2>1. PICK p \in {"failing", "bury"} : Move(w, p, 0)
    BY <1>6 DEF InspectFails, Step
  <2>. QED BY <1>0, <1>6, <2>1, TaskMoves DEF TypeOK, InspectFails, Working, Stages
<1>7. CASE Decide(w)
  <2>1. Match \in {0} \cup Files
    BY DEF Match, TypeOK, DataOK
  <2>2. PICK p \in {"unmatched", "matched"} : Move(w, p, Match)
    BY <1>7 DEF Decide
  <2>. QED BY <1>0, <1>7, <2>1, <2>2, TaskMoves DEF TypeOK, Decide, Working, Stages
<1>8. CASE Resolve(w)
  <2>1. PICK p \in {"discard", "failing"} : Move(w, p, 0)
    BY <1>8 DEF Resolve, Step
  <2>. QED BY <1>0, <1>8, <2>1, TaskMoves DEF TypeOK, Resolve, Working, Stages
<1>9. CASE PutOriginal(w)
  <2>1. made + 1 \in Files
    BY <1>9, BoundAssumption DEF PutOriginal, TypeOK, DataOK, Files
  <2>2. made + 1 # 0
    BY <2>1 DEF Files
  <2>. QED BY <1>0, <1>9, <2>1, <2>2, TaskMoves DEF TypeOK, PutOriginal, Working, Stages
<1>10. CASE MaterializeFails(w)
  <2>1. task[w].file \in {0} \cup Files
    BY <1>0, TaskShape DEF TypeOK
  <2>. QED BY <1>0, <1>10, <2>1, TaskMoves DEF TypeOK, MaterializeFails, Working, Stages
<1>. QED BY <1>1, <1>2, <1>3, <1>4, <1>5, <1>6, <1>7, <1>8, <1>9, <1>10 DEF HandlerStep

LEMMA DeliverTypes ==
  ASSUME TypeOK, HandlersOK, NEW w \in Workers, NEW c \in Copies, Deliver(w, c)
  PROVE  TypeOK' /\ HandlersOK'
<1>1. DataOK'
  BY DEF TypeOK, DataOK, Deliver, content, store, raised
<1> DEFINE t == [copy |-> c, file |-> 0, pc |-> IF Eligible(c[1]) THEN "inspecting" ELSE "ack"]
<1>2. t \in Tasks /\ t # NoTask /\ t.copy = c /\ t.pc # "stored"
  BY NoTaskAssumption DEF Tasks, Stages
<1>3. task' = [task EXCEPT ![w] = t]
  BY DEF Deliver
<1> HIDE DEF t
<1>4. \A v \in Workers : task[v] # NoTask => task[v].copy # c
  BY DEF TypeOK, DeliveryOK, Deliver, Take
<1>5. task[w] = NoTask /\ place' = [place EXCEPT ![c] = "held"] /\ deaths' = deaths
  BY DEF Deliver, Take
<1>6. task' \in [Workers -> {NoTask} \cup Tasks] /\ HandlersOK'
  BY <1>2, <1>3, <1>4, <1>5 DEF TypeOK, DeliveryOK, HandlersOK
<1>7. ASSUME NEW d \in Copies
      PROVE  place'[d] = "held" <=> \E v \in Workers : task'[v] # NoTask /\ task'[v].copy = d
  BY <1>2, <1>3, <1>5, <1>7 DEF TypeOK, DeliveryOK
<1>8. place' \in [Copies -> Places] /\ deaths' \in [Copies -> Nat]
  BY <1>5 DEF TypeOK, DeliveryOK, Places
<1>. QED BY <1>1, <1>6, <1>7, <1>8 DEF TypeOK, DeliveryOK

LEMMA OtherTypes ==
  ASSUME TypeOK, HandlersOK, BrokerStep \/ CollectionStep
  PROVE  TypeOK' /\ HandlersOK'
<1>1. CASE BrokerStep
  <2>1. DataOK'
    BY <1>1 DEF BrokerStep, Publish, RetryExpires, TypeOK, DataOK, content, store, raised
  <2>2. DeliveryOK' /\ HandlersOK'
    BY <1>1 DEF BrokerStep, Publish, RetryExpires, TypeOK, DeliveryOK, HandlersOK, Places
  <2>. QED BY <2>1, <2>2 DEF TypeOK
<1>2. CASE CollectionStep
  <2>1. DeliveryOK' /\ HandlersOK'
    <3>1. UNCHANGED <<broker, task>>
      BY <1>2 DEF CollectionStep, Save, RemoveOpen, RemoveCommit, Purge, RemovalDies, Elsewhere
    <3>. QED BY <3>1 DEF broker, TypeOK, DeliveryOK, HandlersOK
  <2> USE DEF TypeOK, DataOK, Elsewhere, content, store, broker, raised
  <2>2. ASSUME NEW k \in Collections, NEW f \in Files, NEW b \in BOOLEAN,
               Save(k, f) \/ RemoveOpen(k, f, b)
        PROVE  DataOK'
    <3>1. CASE Save(k, f)
      BY <3>1 DEF Save
    <3>2. CASE RemoveOpen(k, f, b)
      <4>1. IsOrphan(f, k) \in BOOLEAN
        BY DEF IsOrphan
      <4>2. PICK l \in {"none", "share", "update"} :
              removal' = [removal EXCEPT ![k] =
                [pc |-> "open", file |-> f, orphan |-> IsOrphan(f, k), lock |-> l]]
        BY <3>2 DEF RemoveOpen
      <4>3. removal' \in [Collections -> {NoRemoval} \cup Removals]
        BY <4>1, <4>2 DEF Removals
      <4>. QED BY <3>2, <4>3 DEF RemoveOpen
    <3>. QED BY <2>2, <3>1, <3>2
  <2>3. ASSUME NEW k \in Collections, RemoveCommit(k) PROVE DataOK'
    <3> DEFINE f == removal[k].file
    <3>1. removal[k] \in Removals
      BY <2>3 DEF RemoveCommit
    <3>2. removal' \in [Collections -> {NoRemoval} \cup Removals]
      BY <2>3, <3>1 DEF RemoveCommit, Removals
    <3>3. {e \in saves : e[1] # f} \subseteq (files \ {f}) \X Collections
      OBVIOUS
    <3>4. /\ files' \subseteq Files
          /\ public' \subseteq files' /\ blocked' \subseteq files' \ public'
          /\ saves' \subseteq files' \X Collections
      BY <2>3, <3>3 DEF RemoveCommit
    <3>5. UNCHANGED <<request, tempOf, temp, original, made, hashLock, client, ledger,
                    raisedCalls, raisedFiles>>
      BY <2>3 DEF RemoveCommit
    <3>. QED BY <3>2, <3>4, <3>5
  <2>4. ASSUME NEW k \in Collections, Purge(k) \/ RemovalDies(k) PROVE DataOK'
    BY <2>4 DEF Purge, RemovalDies
  <2>. QED BY <1>2, <2>1, <2>2, <2>3, <2>4 DEF CollectionStep
<1>. QED BY <1>1, <1>2
-----------------------------------------------------------------------------
(* Who is between the decision and the end of its transaction has the lock, *)
(* so nobody else creates a file meanwhile.                                 *)
LEMMA ClientKeepsLock ==
  ASSUME TypeOK, LockInv, NEW u \in Uploads, ClientStep(u)
  PROVE  LockInv'
<1>1. UNCHANGED <<task, files>>
  BY DEF ClientStep, AcceptReplay, AcceptFindsNone, AcceptDecide, AcceptDuplicate, AcceptPut,
     AcceptCommit, AcceptRollback, AcceptCleanup, AcceptDies, Idle, content
<1>2. \A w \in Workers : w # u /\ w # Free
  BY ProcessAssumption
<1>3. u # Free /\ \A v \in Uploads : v # Free
  BY ProcessAssumption
<1> USE <1>1, <1>2, <1>3 DEF LockInv, ClientLock, TaskLock, NoMatchHolds, Deciding, TypeOK, DataOK
<1>4. CASE AcceptDecide(u)
  <2>1. hashLock = Free /\ hashLock' = u
    BY <1>4 DEF AcceptDecide, Acquire
  <2>2. \A v \in Uploads : v # u => client'[v] = client[v]
    BY <1>4 DEF AcceptDecide
  <2>3. client'[u].pc = "unmatched" => files = {}
    BY <1>4 DEF AcceptDecide, Match, Files
  <2>4. client'[u].pc \in {"matched", "unmatched"}
    BY <1>4 DEF AcceptDecide
  <2>. QED BY <2>1, <2>2, <2>3, <2>4
<1>5. CASE AcceptPut(u)
  BY <1>5 DEF AcceptPut, Go
<1>6. CASE AcceptReplay(u) \/ AcceptFindsNone(u) \/ AcceptCleanup(u)
  BY <1>6 DEF AcceptReplay, AcceptFindsNone, AcceptCleanup, Go
<1>7. CASE AcceptDuplicate(u) \/ AcceptCommit(u) \/ AcceptRollback(u) \/ AcceptDies(u)
  <2>1. PICK p \in {"done", "cleanup"} : Go(u, p) /\ EndOf(u)
    BY <1>7 DEF AcceptDuplicate, AcceptCommit, AcceptRollback, AcceptDies
  <2>. QED BY <2>1 DEF Go, EndOf
<1>. QED BY <1>4, <1>5, <1>6, <1>7 DEF ClientStep
LEMMA HandlerKeepsLock ==
  ASSUME TypeOK, LockInv, NEW w \in Workers, HandlerStep(w)
  PROVE  LockInv'
<1>0. task[w] # NoTask
  BY DEF HandlerStep, Materialize, Bury, InspectInvalid, InspectFails, Decide, Resolve,
     PutOriginal, MaterializeFails, CleanupOriginal, DiscardTemp, Ack, Fail, WorkerDies, At
<1>1. UNCHANGED client
  BY DEF HandlerStep, Materialize, Bury, InspectInvalid, InspectFails, Decide, Resolve,
     PutOriginal, MaterializeFails, CleanupOriginal, DiscardTemp, Ack, Fail, WorkerDies,
     Working, Settle
<1>2. \A v \in Workers : v # w => task'[v] = task[v]
  BY DEF HandlerStep, Materialize, Bury, InspectInvalid, InspectFails, Decide, Resolve,
     PutOriginal, MaterializeFails, CleanupOriginal, DiscardTemp, Ack, Fail, WorkerDies,
     Step, Move, Settle, TypeOK, DeliveryOK
<1>3. w # Free /\ \A u \in Uploads : u # w
  BY ProcessAssumption
<1> USE <1>0, <1>1, <1>2, <1>3
    DEF LockInv, ClientLock, TaskLock, NoMatchHolds, Deciding, TypeOK, DeliveryOK
<1>4. CASE Decide(w)
  <2>1. hashLock = Free /\ hashLock' = w /\ files' = files
    BY <1>4 DEF Decide, Acquire, content
  <2>2. task'[w].pc = "unmatched" => files = {}
    BY <1>4 DEF Decide, Move, Match, DataOK, Files
  <2>3. task'[w].pc \in {"matched", "unmatched"}
    BY <1>4 DEF Decide, Move
  <2>4. \A u \in Uploads : u # Free
    BY ProcessAssumption
  <2>5. \A v \in Workers : v # Free
    BY ProcessAssumption
  <2>. QED BY <2>1, <2>2, <2>3, <2>4, <2>5
<1>5. CASE PutOriginal(w)
  BY <1>5 DEF PutOriginal, At, Move, content
<1>6. ASSUME NEW b \in BOOLEAN, Materialize(w, b) PROVE LockInv'
  <2>1. hashLock = w
    BY <1>6 DEF Materialize, At
  <2>2. task'[w].pc \in {"discard", "cleanup"}
    BY <1>6 DEF Materialize, Step, Move
  <2>. QED BY <2>1, <2>2
<1>7. ASSUME files' = files, task'[w] = NoTask \/ task'[w].pc \notin Deciding,
             hashLock' = hashLock \/ EndOf(w)
      PROVE  LockInv'
  BY <1>7 DEF EndOf
<1>8. ASSUME NEW b \in BOOLEAN, Bury(w, b) PROVE LockInv'
  BY <1>7, <1>8 DEF Bury, Settle, content
<1>9. CASE Ack(w) \/ WorkerDies(w)
  BY <1>7, <1>9 DEF Ack, WorkerDies, Settle, content
<1>10. CASE Fail(w)
  BY <1>7, <1>10 DEF Fail, Settle, Step, Move, content
<1>11. CASE InspectInvalid(w) \/ InspectFails(w) \/ Resolve(w)
  BY <1>7, <1>11 DEF InspectInvalid, InspectFails, Resolve, Step, Move, content
<1>12. CASE MaterializeFails(w) \/ CleanupOriginal(w) \/ DiscardTemp(w)
  BY <1>7, <1>12 DEF MaterializeFails, CleanupOriginal, DiscardTemp, Step, Move, content
<1>. QED BY <1>4, <1>5, <1>6, <1>8, <1>9, <1>10, <1>11, <1>12 DEF HandlerStep

LEMMA OthersKeepLock ==
  ASSUME TypeOK, LockInv
  PROVE  /\ \A w \in Workers, c \in Copies : Deliver(w, c) => LockInv'
         /\ BrokerStep \/ CollectionStep => LockInv'
<1>1. ASSUME NEW w \in Workers, NEW c \in Copies, Deliver(w, c) PROVE LockInv'
  BY <1>1 DEF Deliver, LockInv, ClientLock, TaskLock, NoMatchHolds, Deciding, TypeOK, DeliveryOK,
     content
<1>2. ASSUME BrokerStep \/ CollectionStep PROVE LockInv'
  BY <1>2, OthersAside DEF LockInv, ClientLock, TaskLock, NoMatchHolds, Deciding
<1>. QED BY <1>1, <1>2
-----------------------------------------------------------------------------
(* A handler whose transaction has the request's row keeps it pending for   *)
(* itself: other handlers wait, and calls only insert new requests.         *)
RequestsOf(s) == request'[s] = request[s] \/ request[s] = "none"

LEMMA ClientRequests ==
  ASSUME TypeOK, NEW u \in Uploads, ClientStep(u)
  PROVE  task' = task /\ \A s \in Sources : RequestsOf(s)
BY SourceAssumption DEF ClientStep, AcceptReplay, AcceptFindsNone, AcceptDecide, AcceptDuplicate,
   AcceptPut, AcceptCommit, AcceptRollback, AcceptCleanup, AcceptDies, Idle, RequestsOf,
   TypeOK, DataOK

(* Only a handler that has the row changes the request, and gives it up.    *)
LEMMA HandlerRequests ==
  ASSUME TypeOK, NEW w \in Workers, HandlerStep(w)
  PROVE  /\ \A v \in Workers : v # w => task'[v] = task[v]
         /\ \A s \in Sources :
              request'[s] # request[s] => s = SourceAt(w) /\ HasRequest(w) /\ ~HasRequest(w)'
         /\ HasRequest(w)' => HasRequest(w) /\ SourceAt(w)' = SourceAt(w)
<1> USE DEF TypeOK, DataOK, DeliveryOK, HasRequest, SourceAt, At
<1>0. task[w] # NoTask
  BY DEF HandlerStep, Materialize, Bury, InspectInvalid, InspectFails, Decide, Resolve,
     PutOriginal, MaterializeFails, CleanupOriginal, DiscardTemp, Ack, Fail, WorkerDies
<1>1. \A v \in Workers : v # w => task'[v] = task[v]
  BY DEF HandlerStep, Materialize, Bury, InspectInvalid, InspectFails, Decide, Resolve,
     PutOriginal, MaterializeFails, CleanupOriginal, DiscardTemp, Ack, Fail, WorkerDies,
     Step, Move, Settle
<1>2. ASSUME NEW s \in Sources, request'[s] # request[s]
      PROVE  s = SourceAt(w) /\ HasRequest(w) /\ ~HasRequest(w)'
  <2>1. InspectInvalid(w) \/ Resolve(w) \/ \E b \in BOOLEAN : Materialize(w, b)
    BY <1>2 DEF HandlerStep, Bury, InspectFails, Decide, PutOriginal, MaterializeFails,
       CleanupOriginal, DiscardTemp, Ack, Fail, WorkerDies, Settle
  <2>2. s = SourceAt(w) /\ HasRequest(w)
    BY <1>2, <2>1 DEF InspectInvalid, Resolve, Materialize
  <2>3. task'[w].pc \in {"ack", "discard", "failing", "cleanup"}
    BY <1>2, <2>1 DEF InspectInvalid, Resolve, Materialize, Step, Move
  <2>. QED BY <2>2, <2>3
<1>3. ASSUME HasRequest(w)' PROVE HasRequest(w) /\ SourceAt(w)' = SourceAt(w)
  <2>1. task'[w] # NoTask /\ task'[w].pc \in {"inspecting", "matched", "unmatched", "stored"}
    BY <1>3
  <2>2. Decide(w) \/ PutOriginal(w)
    BY <2>1 DEF HandlerStep, Materialize, Bury, InspectInvalid, InspectFails, Resolve,
       MaterializeFails, CleanupOriginal, DiscardTemp, Ack, Fail, WorkerDies, Step, Move, Settle
  <2>. QED BY <2>2 DEF Decide, PutOriginal, Move
<1>. QED BY <1>1, <1>2, <1>3

LEMMA RowsKept ==
  ASSUME TypeOK, RowInv, [Next]_vars
  PROVE  RowInv'
<1> USE DEF RowInv, RowIsPending, RowIsOwned
<1>1. \A w \in Workers : HasRequest(w) => SourceAt(w) \in Sources
  BY TaskShape DEF TypeOK, HasRequest
<1>2. ASSUME NEW u \in Uploads, ClientStep(u) PROVE RowInv'
  <2>1. task' = task /\ \A s \in Sources : RequestsOf(s)
    BY <1>2, ClientRequests
  <2>2. \A w \in Workers : (HasRequest(w)' <=> HasRequest(w)) /\ SourceAt(w)' = SourceAt(w)
    BY <2>1 DEF HasRequest, SourceAt
  <2>. QED BY <1>1, <2>1, <2>2 DEF RequestsOf
<1>3. ASSUME NEW w \in Workers, HandlerStep(w) PROVE RowInv'
  <2>1. /\ \A v \in Workers : v # w => task'[v] = task[v]
        /\ \A s \in Sources :
             request'[s] # request[s] => s = SourceAt(w) /\ HasRequest(w) /\ ~HasRequest(w)'
        /\ HasRequest(w)' => HasRequest(w) /\ SourceAt(w)' = SourceAt(w)
    BY <1>3, HandlerRequests
  <2>2. \A v \in Workers : v # w =>
          (HasRequest(v)' <=> HasRequest(v)) /\ SourceAt(v)' = SourceAt(v)
    BY <2>1 DEF HasRequest, SourceAt
  <2>3. \A v \in Workers : HasRequest(v)' => HasRequest(v) /\ SourceAt(v)' = SourceAt(v)
    BY <2>1, <2>2
  <2>4. RowIsOwned'
    BY <2>3
  <2>5. ASSUME NEW v \in Workers, HasRequest(v)' PROVE request'[SourceAt(v)'] = "pending"
    BY <1>1, <2>1, <2>3, <2>5
  <2>. QED BY <2>4, <2>5
<1>4. ASSUME NEW w \in Workers, NEW c \in Copies, Deliver(w, c) PROVE RowInv'
  <2>1. \A v \in Workers : v # w =>
          (HasRequest(v)' <=> HasRequest(v)) /\ SourceAt(v)' = SourceAt(v)
    BY <1>4 DEF Deliver, HasRequest, SourceAt, TypeOK, DeliveryOK
  <2>2. HasRequest(w)' => SourceAt(w)' = c[1] /\ request[c[1]] = "pending"
    BY <1>4 DEF Deliver, HasRequest, SourceAt, Eligible, TypeOK, DeliveryOK
  <2>3. \A v \in Workers : HasRequest(v) => SourceAt(v) # c[1]
    BY <1>4 DEF Deliver, RequestIsFree
  <2>4. request' = request
    BY <1>4 DEF Deliver
  <2>. QED BY <2>1, <2>2, <2>3, <2>4
<1>5. ASSUME BrokerStep \/ CollectionStep PROVE RowInv'
  BY <1>5, OthersAside DEF HasRequest, SourceAt
<1>6. ASSUME UNCHANGED vars PROVE RowInv'
  BY <1>6 DEF vars, broker, HasRequest, SourceAt
<1>. QED BY <1>2, <1>3, <1>4, <1>5, <1>6, NextCases

-----------------------------------------------------------------------------
LEMMA Initially == Init => IInv
<1> SUFFICES ASSUME Init PROVE IInv
  OBVIOUS
<1>1. DataOK
  BY BoundAssumption DEF Init, DataOK, Statuses, Files
<1>2. DeliveryOK /\ HandlersOK
  BY DEF Init, DeliveryOK, HandlersOK, Places
<1>3. LockInv
  BY DEF Init, LockInv, ClientLock, TaskLock, NoMatchHolds, Deciding
<1>4. RowInv
  BY DEF Init, RowInv, RowIsPending, RowIsOwned, HasRequest
<1>. QED BY <1>1, <1>2, <1>3, <1>4 DEF IInv, TypeOK

LEMMA Preserved == IInv /\ [Next]_vars => IInv'
<1> SUFFICES ASSUME IInv, [Next]_vars PROVE IInv'
  OBVIOUS
<1> USE DEF IInv
<1>1. RowInv'
  BY RowsKept
<1>2. ASSUME NEW u \in Uploads, ClientStep(u) PROVE IInv'
  <2>1. DataOK' /\ LockInv'
    BY <1>2, ClientTypes, ClientKeepsLock
  <2>2. UNCHANGED <<place, deaths, task>>
    BY <1>2 DEF ClientStep, AcceptReplay, AcceptFindsNone, AcceptDecide, AcceptDuplicate,
       AcceptPut, AcceptCommit, AcceptRollback, AcceptCleanup, AcceptDies, Idle, broker
  <2>3. DeliveryOK' /\ HandlersOK'
    BY <2>2 DEF TypeOK, DeliveryOK, HandlersOK
  <2>. QED BY <1>1, <2>1, <2>3 DEF TypeOK
<1>3. ASSUME NEW w \in Workers, HandlerStep(w) PROVE IInv'
  BY <1>1, <1>3, HandlerTypes, HandlerDeliveries, HandlerKeepsLock DEF TypeOK
<1>4. ASSUME NEW w \in Workers, NEW c \in Copies, Deliver(w, c) PROVE IInv'
  BY <1>1, <1>4, DeliverTypes, OthersKeepLock
<1>5. ASSUME BrokerStep \/ CollectionStep PROVE IInv'
  BY <1>1, <1>5, OtherTypes, OthersKeepLock
<1>6. CASE UNCHANGED vars
  BY <1>1, <1>6 DEF vars, store, content, broker, raised, TypeOK, DataOK, DeliveryOK, HandlersOK,
     LockInv, ClientLock, TaskLock, NoMatchHolds
<1>. QED BY <1>2, <1>3, <1>4, <1>5, <1>6, NextCases

(* The inductive invariant holds in every reachable state.                  *)
THEOREM Invariance == Spec => []IInv
BY Initially, Preserved, PTL DEF Spec

(* Type correctness: accept_bytes, materialize and the collections leave    *)
(* every row and object in the shape the next of them expects.              *)
THEOREM TypeCorrect == Spec => []TypeOK
<1>1. IInv => TypeOK
  BY DEF IInv
<1>. QED BY <1>1, Invariance, PTL

(* acquire_sha256_advisory_lock serialises the decision: whoever found no   *)
(* file with the hash is right until its own transaction ends.              *)
THEOREM NoMatchStands == Spec => []NoMatchHolds
<1>1. IInv => NoMatchHolds
  BY DEF IInv, LockInv
<1>. QED BY <1>1, Invariance, PTL

(* A settled request stays as it is.                                        *)
LEMMA SettledStays ==
  ASSUME IInv, [Next]_vars, NEW s \in Sources, request[s] \notin {"none", "pending"}
  PROVE  request'[s] = request[s]
<1> USE DEF IInv
<1>1. ASSUME NEW u \in Uploads, ClientStep(u) PROVE request'[s] = request[s]
  BY <1>1, ClientRequests DEF RequestsOf
<1>2. ASSUME NEW w \in Workers, HandlerStep(w) PROVE request'[s] = request[s]
  BY <1>2, HandlerRequests DEF RowInv, RowIsPending
<1>3. ASSUME NEW w \in Workers, NEW c \in Copies, Deliver(w, c) PROVE request'[s] = request[s]
  BY <1>3 DEF Deliver
<1>4. ASSUME BrokerStep \/ CollectionStep PROVE request'[s] = request[s]
  BY <1>4, OthersAside
<1>5. CASE UNCHANGED vars
  BY <1>5 DEF vars
<1>. QED BY <1>1, <1>2, <1>3, <1>4, <1>5, NextCases

(* load_locked_ingest_request and the check of the status under that lock   *)
(* settle a request once, whatever is redelivered or delivered twice.       *)
THEOREM RequestsSettleOnce == Spec => SettledForGood
<1>1. IInv /\ [Next]_vars =>
        [\A s \in Sources : request[s] \notin {"none", "pending"} => request'[s] = request[s]]_vars
  BY SettledStays
<1>. QED BY <1>1, Invariance, PTL DEF Spec, SettledForGood
-----------------------------------------------------------------------------
(* Whose original is whose: a handler that stored one has an id of its own, *)
(* which no row names yet and no removal, unless it cleans up after a       *)
(* commit that raised, and a purge's id has lost its row.                   *)
Making(w) == task[w] # NoTask /\ task[w].pc \in {"stored", "cleanup"}

Issued ==
  /\ files \subseteq 1 .. made
  /\ \A w \in Workers : Making(w) => task[w].file \in 1 .. made
  /\ \A k \in Collections : removal[k] # NoRemoval => removal[k].file \in 1 .. made

Unshared ==
  \A v, w \in Workers : v # w /\ Making(v) /\ Making(w) => task[v].file # task[w].file

TakenForFailed(w) == At(w, "cleanup") /\ task[w].file \in raisedFiles

NotYetARow ==
  \A w \in Workers : Making(w) =>
    \/ TakenForFailed(w)
    \/ /\ task[w].file \notin files
       /\ \A k \in Collections : removal[k] # NoRemoval => removal[k].file # task[w].file

NoLongerARow ==
  \A k \in Collections :
    removal[k] # NoRemoval /\ removal[k].pc = "purge" => removal[k].file \notin files

StoredForARow == \A w \in Workers : At(w, "stored") => OriginalKey(task[w].file) \in original

Originals ==
  Issued /\ Unshared /\ NotYetARow /\ NoLongerARow /\ StoredForARow /\ OriginalIsStored

(* What a pending request needs: its object is that of a call that has      *)
(* ended, or cleans up because its commit raised, only handlers of settled  *)
(* requests discard or acknowledge, and a copy goes before the request is   *)
(* settled through the ledger only.                                         *)
Committed(u) == client[u].pc = "done" \/ (client[u].pc = "cleanup" /\ u \in raisedCalls)

OfEndedCalls == \A s \in Sources : \A u \in tempOf[s] : SourceOf[u] = s /\ Committed(u)

OneObject == \A s \in Sources : tempOf[s] = {} \/ \E u \in Uploads : tempOf[s] = {u}

NothingBefore ==
  /\ \A s \in Sources : request[s] = "none" => tempOf[s] = {}
  /\ \A c \in Copies : place[c] # "unpublished" => request[c[1]] # "none"

Settled(s) == request[s] \notin {"none", "pending"}

DoneWhenSettled ==
  \A w \in Workers : task[w] # NoTask /\ task[w].pc \in {"discard", "ack"}
    => Settled(SourceAt(w))

PutIsThere == \A u \in Uploads : client[u].pc = "stored" => TempKey(u) \in temp

BytesAreThere ==
  \A s \in Sources : request[s] = "pending" =>
    tempOf[s] # {} /\ (Readable(s) \/ tempOf[s] \subseteq raisedCalls)

GoneToTheLedger ==
  \A c \in Copies : place[c] = "gone" /\ request[c[1]] = "pending" => c[1] \in ledger

Pending ==
  OfEndedCalls /\ OneObject /\ NothingBefore /\ DoneWhenSettled /\ PutIsThere /\ BytesAreThere
  /\ GoneToTheLedger

-----------------------------------------------------------------------------
(* A step that makes, deletes and purges nothing.                           *)
LEMMA NothingMade ==
  ASSUME Originals, files' = files, made' = made, removal' = removal, original \subseteq original',
         raisedFiles' = raisedFiles,
         \A v \in Workers : Making(v)' =>
           /\ Making(v) /\ task'[v].file = task[v].file
           /\ At(v, "stored")' => At(v, "stored")
           /\ At(v, "cleanup") => At(v, "cleanup")'
  PROVE  Originals'
<1> USE DEF Originals, OriginalKey
<1>1. Issued'
  BY DEF Issued
<1>2. Unshared' /\ NotYetARow'
  BY DEF Unshared, NotYetARow, TakenForFailed
<1>3. NoLongerARow'
  BY DEF NoLongerARow
<1>4. ASSUME NEW w \in Workers, At(w, "stored")' PROVE OriginalKey(task'[w].file) \in original'
  <2>1. Making(w)'
    BY <1>4 DEF At, Making
  <2>. QED BY <1>4, <2>1 DEF StoredForARow
<1>5. OriginalIsStored'
  BY DEF OriginalIsStored
<1>. QED BY <1>1, <1>2, <1>3, <1>4, <1>5 DEF StoredForARow
(* The steps of a handler that do store, delete or insert.                  *)
LEMMA PutKeepsOriginals ==
  ASSUME TypeOK, LockInv, Originals, NEW w \in Workers, PutOriginal(w)
  PROVE  Originals'
<1> DEFINE n == made + 1
<1>1. n \in Nat /\ n \in 1 .. made' /\ made' = n /\ made \in Nat
  BY DEF PutOriginal, TypeOK, DataOK
<1>2. /\ UNCHANGED <<files, removal, raisedFiles>>
      /\ original' = original \cup {n}
      /\ At(w, "unmatched")
  BY DEF PutOriginal, OriginalKey, Working, content
<1>3. files = {}
  BY <1>2 DEF LockInv, NoMatchHolds, At
<1>4. /\ \A v \in Workers : v # w => task'[v] = task[v]
      /\ task'[w].file = n
  BY DEF PutOriginal, Move, TypeOK, DeliveryOK
<1>5. \A v \in Workers : v # w /\ Making(v)' => Making(v) /\ task'[v].file \in 1 .. made
  BY <1>4 DEF Making, Originals, Issued
<1>6. n \notin 1 .. made /\ 1 .. made \subseteq 1 .. made'
  BY <1>1
<1> HIDE DEF n
<1> USE DEF Originals
<1>7. Issued'
  BY <1>1, <1>2, <1>4, <1>5, <1>6 DEF Issued
<1>8. Unshared'
  BY <1>4, <1>5, <1>6 DEF Unshared, Making
<1>9. NotYetARow'
  BY <1>2, <1>3, <1>4, <1>5, <1>6 DEF NotYetARow, TakenForFailed, At, Issued, Making
<1>10. NoLongerARow' /\ OriginalIsStored'
  BY <1>2, <1>3 DEF NoLongerARow, OriginalIsStored
<1>11. StoredForARow'
  BY <1>2, <1>4 DEF StoredForARow, OriginalKey, At
<1>. QED BY <1>7, <1>8, <1>9, <1>10, <1>11

LEMMA InsertKeepsOriginals ==
  ASSUME TypeOK, Originals, NEW w \in Workers, NEW b \in BOOLEAN, Materialize(w, b)
  PROVE  Originals'
<1>1. /\ UNCHANGED <<made, removal, original>>
      /\ At(w, "stored") /\ files' = {task[w].file}
      /\ raisedFiles \subseteq raisedFiles'
  BY DEF Materialize, Working, store
<1>2. \A v \in Workers : v # w => task'[v] = task[v]
  BY DEF Materialize, Step, Move, TypeOK, DeliveryOK
<1>3. Making(w)' => TakenForFailed(w)' /\ task'[w].file = task[w].file
  BY DEF Materialize, Step, Move, TypeOK, DeliveryOK, Making, TakenForFailed, At
<1>4. \A v \in Workers : Making(v)' => Making(v) /\ task'[v].file = task[v].file
  BY <1>1, <1>2, <1>3 DEF Making, At
<1>5. Making(w) /\ ~TakenForFailed(w)
  BY <1>1 DEF Making, At, TakenForFailed
<1> USE DEF Originals
<1>6. Issued' /\ Unshared'
  BY <1>1, <1>4, <1>5 DEF Issued, Unshared
<1>7. ASSUME NEW v \in Workers, Making(v)'
      PROVE  \/ TakenForFailed(v)'
             \/ /\ task'[v].file \notin files'
                /\ \A k \in Collections : removal'[k] # NoRemoval => removal'[k].file # task'[v].file
  <2>1. CASE v = w
    BY <1>3, <1>7, <2>1
  <2>2. CASE v # w
    <3>1. Making(v) /\ task'[v] = task[v] /\ task[v].file # task[w].file
      BY <1>2, <1>4, <1>5, <1>7, <2>2 DEF Unshared
    <3>. QED BY <1>1, <3>1 DEF NotYetARow, TakenForFailed, At
  <2>. QED BY <2>1, <2>2
<1>8. NoLongerARow'
  BY <1>1, <1>5 DEF NoLongerARow, NotYetARow
<1>9. ASSUME NEW v \in Workers, At(v, "stored")' PROVE task'[v].file \in original'
  <2>1. v # w
    BY <1>3, <1>9 DEF Making, TakenForFailed, At
  <2>. QED BY <1>1, <1>2, <1>9, <2>1 DEF StoredForARow, At, OriginalKey
<1>10. OriginalIsStored'
  BY <1>1 DEF OriginalIsStored, StoredForARow, OriginalKey
<1>11. NotYetARow' /\ StoredForARow'
  BY <1>7, <1>9 DEF NotYetARow, StoredForARow, OriginalKey
<1>. QED BY <1>6, <1>8, <1>10, <1>11

LEMMA CleanupKeepsOriginals ==
  ASSUME TypeOK, Originals, NEW w \in Workers, CleanupOriginal(w)
  PROVE  Originals'
<1>1. /\ UNCHANGED <<made, removal, files, raisedFiles>>
      /\ At(w, "cleanup") /\ original' = original \ {task[w].file}
  BY DEF CleanupOriginal, Working, content, OriginalKey
<1>2. /\ \A v \in Workers : v # w => task'[v] = task[v]
      /\ ~Making(w)'
  BY DEF CleanupOriginal, Step, Move, TypeOK, DeliveryOK, Making
<1>3. \A v \in Workers : Making(v)' => v # w /\ Making(v) /\ task'[v] = task[v]
  BY <1>2 DEF Making
<1>4. Making(w)
  BY <1>1 DEF Making, At
<1> USE DEF Originals
<1>5. Issued' /\ Unshared' /\ NotYetARow' /\ NoLongerARow'
  BY <1>1, <1>3 DEF Issued, Unshared, NotYetARow, TakenForFailed, At, NoLongerARow
<1>6. ASSUME NEW v \in Workers, At(v, "stored")' PROVE task'[v].file \in original'
  <2>1. Making(v)'
    BY <1>6 DEF At, Making
  <2>2. At(v, "stored") /\ task'[v] = task[v] /\ task[v].file # task[w].file
    BY <1>3, <1>4, <1>6, <2>1 DEF At, Unshared
  <2>. QED BY <1>1, <2>2 DEF StoredForARow, OriginalKey
<1>7. OriginalIsStored'
  BY <1>1, <1>4 DEF OriginalIsStored, NotYetARow, TakenForFailed, OriginalKey
<1>. QED BY <1>5, <1>6, <1>7 DEF StoredForARow, OriginalKey

LEMMA HandlerKeepsOriginals ==
  ASSUME TypeOK, LockInv, Originals, NEW w \in Workers, HandlerStep(w)
  PROVE  Originals'
<1> DEFINE Quiet ==
      /\ UNCHANGED <<files, made, removal, original, raisedFiles>>
      /\ \A v \in Workers : v # w => task'[v] = task[v]
<1>1. ASSUME Quiet, ~Making(w)' PROVE Originals'
  BY <1>1, NothingMade DEF Making, At
<1> USE DEF Working, content, store, raised, Step, Move, Settle, Making, TypeOK, DeliveryOK
<1>2. ASSUME NEW b \in BOOLEAN, Bury(w, b) PROVE Originals'
  BY <1>1, <1>2 DEF Bury
<1>3. CASE InspectInvalid(w) \/ InspectFails(w) \/ DiscardTemp(w)
  BY <1>1, <1>3 DEF InspectInvalid, InspectFails, DiscardTemp
<1>4. CASE Resolve(w)
  BY <1>1, <1>4 DEF Resolve
<1>5. CASE Decide(w)
  BY <1>1, <1>5 DEF Decide
<1>6. CASE Ack(w) \/ Fail(w) \/ WorkerDies(w)
  BY <1>1, <1>6 DEF Ack, Fail, WorkerDies
<1>7. CASE MaterializeFails(w)
  <2>1. Quiet /\ At(w, "stored") /\ task'[w].file = task[w].file /\ ~At(w, "stored")'
    BY <1>7 DEF MaterializeFails, At
  <2>2. ASSUME NEW v \in Workers, Making(v)'
        PROVE  /\ Making(v) /\ task'[v].file = task[v].file
               /\ At(v, "stored")' => At(v, "stored")
               /\ At(v, "cleanup") => At(v, "cleanup")'
    BY <2>1, <2>2 DEF At
  <2>. QED BY <2>1, <2>2, NothingMade
<1>. QED
  BY <1>2, <1>3, <1>4, <1>5, <1>6, <1>7, PutKeepsOriginals, InsertKeepsOriginals,
     CleanupKeepsOriginals DEF HandlerStep

(* A removal takes the row before its purge takes the original, and the ids *)
(* of rows are not issued again.                                            *)
LEMMA CollectionKeepsOriginals ==
  ASSUME TypeOK, Originals, CollectionStep
  PROVE  Originals'
<1>0. UNCHANGED <<task, made, raisedFiles>>
  BY DEF CollectionStep, Save, RemoveOpen, RemoveCommit, Purge, RemovalDies, Elsewhere, raised
<1> USE <1>0 DEF Originals, Making, At, TakenForFailed, OriginalKey, content, TypeOK, DataOK
<1>1. ASSUME NEW k \in Collections, NEW f \in Files, NEW b \in BOOLEAN, Save(k, f)
      PROVE  Originals'
  BY <1>1, NothingMade DEF Save
<1>2. ASSUME NEW k \in Collections, NEW f \in Files, NEW b \in BOOLEAN, RemoveOpen(k, f, b)
      PROVE  Originals'
  <2>1. UNCHANGED <<files, original>> /\ f \in files
    BY <1>2 DEF RemoveOpen
  <2>2. \A j \in Collections : j # k => removal'[j] = removal[j]
    BY <1>2 DEF RemoveOpen
  <2>3. removal'[k].file = f /\ removal'[k].pc = "open"
    BY <1>2 DEF RemoveOpen
  <2>4. Issued' /\ Unshared' /\ NotYetARow'
    BY <2>1, <2>2, <2>3 DEF Issued, Unshared, NotYetARow
  <2>5. NoLongerARow' /\ StoredForARow' /\ OriginalIsStored'
    BY <2>1, <2>2, <2>3 DEF NoLongerARow, StoredForARow, OriginalIsStored
  <2>. QED BY <2>4, <2>5
<1>3. ASSUME NEW k \in Collections, RemoveCommit(k) PROVE Originals'
  <2>1. original' = original /\ files' \subseteq files
    BY <1>3 DEF RemoveCommit
  <2>2. \A j \in Collections : j # k => removal'[j] = removal[j]
    BY <1>3 DEF RemoveCommit
  <2>3. removal[k] # NoRemoval /\ removal[k] \in Removals
    BY <1>3 DEF RemoveCommit
  <2>4. \/ removal'[k] = NoRemoval
        \/ removal'[k].file = removal[k].file /\ removal[k].file \notin files'
    <3>1. CASE removal[k].orphan
      <4>1. removal' = [removal EXCEPT ![k].pc = "purge"] /\ files' = files \ {removal[k].file}
        BY <1>3, <3>1 DEF RemoveCommit
      <4>2. removal'[k] = [removal[k] EXCEPT !.pc = "purge"]
        BY <4>1
      <4>3. removal'[k].file = removal[k].file
        BY <2>3, <4>2 DEF Removals
      <4>. QED BY <4>1, <4>3
    <3>2. CASE ~removal[k].orphan
      <4>1. removal' = [removal EXCEPT ![k] = NoRemoval]
        BY <1>3, <3>2 DEF RemoveCommit
      <4>. QED BY <4>1
    <3>. QED BY <3>1, <3>2
  <2>5. Issued' /\ Unshared' /\ NotYetARow'
    BY <2>1, <2>2, <2>3, <2>4 DEF Issued, Unshared, NotYetARow
  <2>6. NoLongerARow' /\ StoredForARow' /\ OriginalIsStored'
    BY <2>1, <2>2, <2>4 DEF NoLongerARow, StoredForARow, OriginalIsStored
  <2>. QED BY <2>5, <2>6
<1>4. ASSUME NEW k \in Collections, Purge(k) PROVE Originals'
  <2>1. /\ files' = files /\ original' = original \ {removal[k].file}
        /\ removal[k] # NoRemoval /\ removal[k].pc = "purge"
    BY <1>4 DEF Purge
  <2>2. \A j \in Collections : removal'[j] # NoRemoval => removal'[j] = removal[j]
    BY <1>4 DEF Purge
  <2>3. Issued' /\ Unshared' /\ NotYetARow' /\ NoLongerARow'
    BY <2>1, <2>2 DEF Issued, Unshared, NotYetARow, NoLongerARow
  <2>4. StoredForARow'
    BY <2>1 DEF StoredForARow, NotYetARow
  <2>5. OriginalIsStored'
    BY <2>1 DEF OriginalIsStored, NoLongerARow
  <2>. QED BY <2>3, <2>4, <2>5
<1>5. ASSUME NEW k \in Collections, RemovalDies(k) PROVE Originals'
  <2>1. UNCHANGED <<files, original>>
    BY <1>5 DEF RemovalDies
  <2>2. \A j \in Collections : removal'[j] # NoRemoval => removal'[j] = removal[j]
    BY <1>5 DEF RemovalDies
  <2>. QED BY <2>1, <2>2 DEF Issued, Unshared, NotYetARow, NoLongerARow, StoredForARow,
           OriginalIsStored
<1>. QED BY <1>1, <1>2, <1>3, <1>4, <1>5 DEF CollectionStep

LEMMA OriginalsPreserved == IInv /\ Originals /\ [Next]_vars => Originals'
<1> SUFFICES ASSUME IInv, Originals, [Next]_vars PROVE Originals'
  OBVIOUS
<1> USE DEF IInv
<1>1. ASSUME NEW u \in Uploads, ClientStep(u) PROVE Originals'
  <2>1. UNCHANGED <<files, made, removal, original, task, raisedFiles>>
    BY <1>1 DEF ClientStep, AcceptReplay, AcceptFindsNone, AcceptDecide, AcceptDuplicate,
       AcceptPut, AcceptCommit, AcceptRollback, AcceptCleanup, AcceptDies, Idle, content, store
  <2>. QED BY <2>1, NothingMade DEF Making, At
<1>2. ASSUME NEW w \in Workers, HandlerStep(w) PROVE Originals'
  BY <1>2, HandlerKeepsOriginals
<1>3. ASSUME NEW w \in Workers, NEW c \in Copies, Deliver(w, c) PROVE Originals'
  <2>1. UNCHANGED <<files, made, removal, original, raisedFiles>>
    BY <1>3 DEF Deliver, content, store, raised
  <2>2. \A v \in Workers : Making(v)' => Making(v) /\ task'[v] = task[v]
    BY <1>3 DEF Deliver, Making, TypeOK, DeliveryOK
  <2>. QED BY <2>1, <2>2, NothingMade DEF At
<1>4. CASE BrokerStep
  <2>1. UNCHANGED <<files, made, removal, original, task, raisedFiles>>
    BY <1>4 DEF BrokerStep, Publish, RetryExpires, content, store, raised
  <2>. QED BY <2>1, NothingMade DEF Making, At
<1>5. CASE CollectionStep
  BY <1>5, CollectionKeepsOriginals
<1>6. CASE UNCHANGED vars
  BY <1>6, NothingMade DEF vars, content, store, raised, Making, At
<1>. QED BY <1>1, <1>2, <1>3, <1>4, <1>5, <1>6, NextCases

(* put_canonical_original writes under the id of a new file, a failed       *)
(* attempt deletes only what it wrote, and a purge follows the deletion of  *)
(* its row: no file is left without its original but one whose commit took  *)
(* effect and raised, which materialize takes for a failed attempt.         *)
THEOREM OriginalsStay == Spec => []OriginalIsStored
<1>1. Init => Originals
  BY DEF Init, Originals, Issued, Unshared, NotYetARow, NoLongerARow, StoredForARow,
     OriginalIsStored, Making, At
<1>2. Originals => OriginalIsStored
  BY DEF Originals
<1>. QED BY <1>1, <1>2, Invariance, OriginalsPreserved, PTL DEF Spec
-----------------------------------------------------------------------------
(* What no step undoes: requests, ended calls and the ledger.               *)
LEMMA RequestsGoOn ==
  ASSUME TypeOK, [Next]_vars, NEW s \in Sources, request'[s] # request[s]
  PROVE  /\ request'[s] # "none"
         /\ request'[s] = "pending" => \E u \in Uploads : AcceptCommit(u) /\ SourceOf[u] = s
<1> USE DEF TypeOK, DataOK
<1>1. ASSUME NEW u \in Uploads, ClientStep(u)
      PROVE  /\ request'[s] # "none"
             /\ request'[s] = "pending" => AcceptCommit(u) /\ SourceOf[u] = s
  <2>1. AcceptDuplicate(u) \/ AcceptCommit(u)
    BY <1>1 DEF ClientStep, AcceptReplay, AcceptFindsNone, AcceptDecide, AcceptPut,
       AcceptRollback, AcceptCleanup, AcceptDies
  <2>2. CASE AcceptDuplicate(u)
    BY <2>2 DEF AcceptDuplicate
  <2>3. CASE AcceptCommit(u)
    BY <2>3 DEF AcceptCommit
  <2>. QED BY <2>1, <2>2, <2>3
<1>2. ASSUME NEW w \in Workers, HandlerStep(w) PROVE request'[s] \notin {"none", "pending"}
  <2>1. InspectInvalid(w) \/ Resolve(w) \/ \E b \in BOOLEAN : Materialize(w, b)
    BY <1>2 DEF HandlerStep, Bury, InspectFails, Decide, PutOriginal, MaterializeFails,
       CleanupOriginal, DiscardTemp, Ack, Fail, WorkerDies, Settle
  <2>. QED BY <2>1 DEF InspectInvalid, Resolve, Materialize
<1>3. ~ \E w \in Workers, c \in Copies : Deliver(w, c)
  BY DEF Deliver
<1>4. ~ (BrokerStep \/ CollectionStep)
  BY OthersAside
<1>5. ~ UNCHANGED vars
  BY DEF vars
<1>. QED BY <1>1, <1>2, <1>3, <1>4, <1>5, NextCases

LEMMA EndedStays ==
  ASSUME TypeOK, [Next]_vars
  PROVE  /\ \A u \in Uploads : client[u].pc = "done" => client'[u] = client[u]
         /\ \A u \in Uploads : Committed(u) => Committed(u)'
         /\ ledger \subseteq ledger' /\ raisedCalls \subseteq raisedCalls'
<1> USE DEF TypeOK, DataOK, Go, Idle, Committed
<1>1. ASSUME NEW u \in Uploads, ClientStep(u)
      PROVE  /\ \A v \in Uploads : client[v].pc = "done" => client'[v] = client[v]
             /\ \A v \in Uploads : Committed(v) => Committed(v)'
             /\ ledger' = ledger /\ raisedCalls \subseteq raisedCalls'
  BY <1>1 DEF ClientStep, AcceptReplay, AcceptFindsNone, AcceptDecide, AcceptDuplicate,
     AcceptPut, AcceptCommit, AcceptRollback, AcceptCleanup, AcceptDies
<1>2. ASSUME NEW w \in Workers, HandlerStep(w)
      PROVE  UNCHANGED <<client, raisedCalls>> /\ ledger \subseteq ledger'
  BY <1>2 DEF HandlerStep, Materialize, Bury, InspectInvalid, InspectFails, Decide, Resolve,
     PutOriginal, MaterializeFails, CleanupOriginal, DiscardTemp, Ack, Fail, WorkerDies,
     Working, Settle, raised
<1>3. ASSUME NEW w \in Workers, NEW c \in Copies, Deliver(w, c)
      PROVE  UNCHANGED <<client, ledger, raisedCalls>>
  BY <1>3 DEF Deliver, raised
<1>4. ASSUME BrokerStep \/ CollectionStep PROVE UNCHANGED <<client, ledger, raisedCalls>>
  BY <1>4 DEF BrokerStep, Publish, RetryExpires, CollectionStep, Save, RemoveOpen, RemoveCommit,
     Purge, RemovalDies, Elsewhere, raised
<1>5. CASE UNCHANGED vars
  BY <1>5 DEF vars, raised
<1>. QED BY <1>1, <1>2, <1>3, <1>4, <1>5, NextCases

(* The commit of a request is the only step that names a temporary object,  *)
(* and it names the call's own.                                             *)
LEMMA NamedByTheCommit ==
  ASSUME TypeOK, [Next]_vars
  PROVE  \/ tempOf' = tempOf /\ ~ \E u \in Uploads : AcceptCommit(u)
         \/ \E u \in Uploads :
              /\ AcceptCommit(u) /\ temp' = temp /\ Committed(u)'
              /\ tempOf' = [tempOf EXCEPT ![SourceOf[u]] = {u}]
<1>1. ASSUME ~ \E u \in Uploads : AcceptCommit(u) PROVE tempOf' = tempOf
  <2>1. ASSUME NEW u \in Uploads, ClientStep(u) PROVE tempOf' = tempOf
    BY <1>1, <2>1 DEF ClientStep, AcceptReplay, AcceptFindsNone, AcceptDecide, AcceptDuplicate,
       AcceptPut, AcceptRollback, AcceptCleanup, AcceptDies
  <2>2. ASSUME NEW w \in Workers, HandlerStep(w) PROVE tempOf' = tempOf
    BY <2>2 DEF HandlerStep, Materialize, Bury, InspectInvalid, InspectFails, Decide, Resolve,
       PutOriginal, MaterializeFails, CleanupOriginal, DiscardTemp, Ack, Fail, WorkerDies, Settle
  <2>3. ASSUME NEW w \in Workers, NEW c \in Copies, Deliver(w, c) PROVE tempOf' = tempOf
    BY <2>3 DEF Deliver
  <2>4. ASSUME BrokerStep \/ CollectionStep PROVE tempOf' = tempOf
    BY <2>4 DEF BrokerStep, Publish, RetryExpires, CollectionStep, Save, RemoveOpen,
       RemoveCommit, Purge, RemovalDies, Elsewhere
  <2>5. CASE UNCHANGED vars
    BY <2>5 DEF vars
  <2>. QED BY <2>1, <2>2, <2>3, <2>4, <2>5, NextCases
<1>2. ASSUME NEW u \in Uploads, AcceptCommit(u)
      PROVE  /\ temp' = temp /\ Committed(u)'
             /\ tempOf' = [tempOf EXCEPT ![SourceOf[u]] = {u}]
  BY <1>2 DEF AcceptCommit, TempKey, Go, store, TypeOK, DataOK, Committed
<1>. QED BY <1>1, <1>2

LEMMA NamesKept ==
  ASSUME TypeOK, Pending, [Next]_vars
  PROVE  OfEndedCalls' /\ OneObject'
<1>1. \A u \in Uploads : Committed(u) => Committed(u)'
  BY EndedStays
<1>2. \A s \in Sources : tempOf[s] \subseteq Uploads
  BY DEF TypeOK, DataOK
<1>3. CASE tempOf' = tempOf
  BY <1>1, <1>2, <1>3 DEF Pending, OfEndedCalls, OneObject
<1>4. ASSUME NEW u \in Uploads, Committed(u)',
             tempOf' = [tempOf EXCEPT ![SourceOf[u]] = {u}]
      PROVE  OfEndedCalls' /\ OneObject'
  <2>1. \A s \in Sources : \A v \in tempOf'[s] : v \in tempOf[s] \/ (v = u /\ SourceOf[u] = s)
    BY <1>4 DEF TypeOK, DataOK
  <2>2. \A s \in Sources : tempOf'[s] = tempOf[s] \/ tempOf'[s] = {u}
    BY <1>4 DEF TypeOK, DataOK
  <2>3. OfEndedCalls'
    BY <1>1, <1>2, <1>4, <2>1 DEF Pending, OfEndedCalls
  <2>. QED BY <2>2, <2>3 DEF Pending, OneObject
<1>. QED BY <1>3, <1>4, NamedByTheCommit

(* Which copies a step moves, and where to.                                 *)
LEMMA CopiesMove ==
  ASSUME TypeOK, [Next]_vars, NEW c \in Copies, place'[c] # place[c]
  PROVE  \/ Publish(c)
         \/ place[c] # "unpublished" /\ place'[c] # "gone"
         \/ /\ place[c] # "unpublished"
            /\ \E w \in Workers : task[w] # NoTask /\ task[w].copy = c
                 /\ (Ack(w) \/ Bury(w, TRUE))
<1> USE DEF TypeOK, DeliveryOK
<1>1. ASSUME NEW u \in Uploads, ClientStep(u) PROVE FALSE
  BY <1>1 DEF ClientStep, AcceptReplay, AcceptFindsNone, AcceptDecide, AcceptDuplicate,
     AcceptPut, AcceptCommit, AcceptRollback, AcceptCleanup, AcceptDies, Idle, broker
<1>2. ASSUME NEW w \in Workers, HandlerStep(w)
      PROVE  /\ place[c] = "held" /\ task[w] # NoTask /\ task[w].copy = c
             /\ place'[c] # "gone" \/ Ack(w) \/ Bury(w, TRUE)
  <2>1. \/ \E b \in BOOLEAN : Bury(w, b)
        \/ Ack(w)
        \/ WorkerDies(w)
        \/ Fail(w)
    BY <1>2 DEF HandlerStep, Materialize, InspectInvalid, InspectFails, Decide, Resolve,
       PutOriginal, MaterializeFails, CleanupOriginal, DiscardTemp, Working, broker
  <2>2. task[w] # NoTask
    BY <2>1 DEF Bury, Ack, WorkerDies, Fail, At
  <2>3. ASSUME NEW to \in Places, Settle(w, to)
        PROVE  place[c] = "held" /\ task[w].copy = c /\ place'[c] = to
    <3>1. task[w].copy = c /\ place'[c] = to
      BY <2>3 DEF Settle
    <3>. QED BY <2>2, <3>1
  <2>4. CASE Ack(w)
    BY <2>2, <2>3, <2>4 DEF Ack, Places
  <2>5. CASE WorkerDies(w)
    BY <2>2, <2>3, <2>5 DEF WorkerDies, Places
  <2>6. CASE Fail(w)
    <3>1. Settle(w, "retry")
      BY <2>6 DEF Fail, broker
    <3>. QED BY <2>2, <2>3, <3>1 DEF Places
  <2>7. ASSUME NEW b \in BOOLEAN, Bury(w, b)
        PROVE  /\ place[c] = "held" /\ task[w].copy = c
               /\ place'[c] # "gone" \/ Bury(w, TRUE)
    <3>1. CASE b = TRUE
      BY <2>3, <2>7, <3>1 DEF Bury, Places
    <3>2. CASE b = FALSE
      BY <2>3, <2>7, <3>2 DEF Bury, Places
    <3>. QED BY <3>1, <3>2
  <2>. QED BY <2>1, <2>2, <2>4, <2>5, <2>6, <2>7
<1>3. ASSUME NEW w \in Workers, NEW d \in Copies, Deliver(w, d)
      PROVE  place[c] = "ready" /\ place'[c] = "held"
  BY <1>3 DEF Deliver, Take
<1>4. CASE BrokerStep
  BY <1>4 DEF BrokerStep, Publish, RetryExpires
<1>5. CASE CollectionStep
  BY <1>5 DEF CollectionStep, Save, RemoveOpen, RemoveCommit, Purge, RemovalDies, Elsewhere, broker
<1>6. CASE UNCHANGED vars
  BY <1>6 DEF vars, broker
<1>. QED BY <1>1, <1>2, <1>3, <1>4, <1>5, <1>6, NextCases

LEMMA NothingBeforeKept ==
  ASSUME TypeOK, Pending, [Next]_vars
  PROVE  NothingBefore'
<1>1. \A s \in Sources : request[s] # "none" => request'[s] # "none"
  BY RequestsGoOn
<1>2. ASSUME NEW s \in Sources, request'[s] = "none" PROVE tempOf'[s] = {}
  <2>1. tempOf[s] = {}
    BY <1>1, <1>2 DEF Pending, NothingBefore
  <2>2. \A u \in Uploads : AcceptCommit(u) => SourceOf[u] # s
    BY <1>2 DEF AcceptCommit, TypeOK, DataOK
  <2>. QED BY <2>1, <2>2, NamedByTheCommit DEF TypeOK, DataOK
<1>3. ASSUME NEW c \in Copies, place'[c] # "unpublished" PROVE request'[c[1]] # "none"
  <2>1. c[1] \in Sources
    BY DEF Copies
  <2>2. place[c] # "unpublished" \/ Publish(c)
    BY <1>3, CopiesMove
  <2>3. request[c[1]] # "none"
    BY <2>1, <2>2 DEF Publish, Pending, NothingBefore
  <2>. QED BY <1>1, <2>1, <2>3
<1>. QED BY <1>2, <1>3 DEF NothingBefore

LEMMA LedgerKept ==
  ASSUME IInv, Pending, [Next]_vars
  PROVE  GoneToTheLedger'
<1> SUFFICES ASSUME NEW c \in Copies, place'[c] = "gone", request'[c[1]] = "pending"
             PROVE  c[1] \in ledger'
  BY DEF GoneToTheLedger
<1>1. c[1] \in Sources
  BY DEF Copies
<1>2. ledger \subseteq ledger'
  BY EndedStays DEF IInv
<1>3. place[c] # "unpublished"
  BY CopiesMove DEF IInv, Publish, TypeOK, DeliveryOK
<1>4. request[c[1]] # "none"
  BY <1>3 DEF Pending, NothingBefore
<1>5. request[c[1]] = "pending"
  BY <1>1, <1>4, SettledStays
<1>6. CASE place[c] = "gone"
  BY <1>2, <1>5, <1>6 DEF Pending, GoneToTheLedger
<1>7. CASE place[c] # "gone"
  <2>1. PICK w \in Workers : task[w] # NoTask /\ task[w].copy = c /\ (Ack(w) \/ Bury(w, TRUE))
    BY <1>3, <1>7, CopiesMove DEF IInv, Publish, TypeOK, DeliveryOK
  <2>2. ~ Ack(w)
    BY <1>5, <2>1 DEF Pending, DoneWhenSettled, Settled, Ack, At, SourceAt
  <2>. QED BY <2>1, <2>2 DEF Bury, SourceAt
<1>. QED BY <1>6, <1>7

(* Which temporary objects a step removes.                                  *)
LEMMA TempsRemoved ==
  ASSUME TypeOK, [Next]_vars, NEW x \in temp, x \notin temp'
  PROVE  \/ \E u \in Uploads : AcceptCleanup(u) /\ x = u
         \/ \E w \in Workers : At(w, "discard") /\ x \in tempOf[SourceAt(w)] /\ task[w] # NoTask
<1>1. ASSUME NEW u \in Uploads, ClientStep(u) PROVE AcceptCleanup(u) /\ x = u
  BY <1>1 DEF ClientStep, AcceptReplay, AcceptFindsNone, AcceptDecide, AcceptDuplicate,
     AcceptPut, AcceptCommit, AcceptRollback, AcceptCleanup, AcceptDies, store, TempKey
<1>2. ASSUME NEW w \in Workers, HandlerStep(w)
      PROVE  At(w, "discard") /\ x \in tempOf[SourceAt(w)] /\ task[w] # NoTask
  BY <1>2 DEF HandlerStep, Materialize, Bury, InspectInvalid, InspectFails, Decide, Resolve,
     PutOriginal, MaterializeFails, CleanupOriginal, DiscardTemp, Ack, Fail, WorkerDies,
     Settle, store, At
<1>3. ASSUME NEW w \in Workers, NEW c \in Copies, Deliver(w, c) PROVE FALSE
  BY <1>3 DEF Deliver, store
<1>4. CASE BrokerStep \/ CollectionStep
  BY <1>4 DEF BrokerStep, Publish, RetryExpires, CollectionStep, Save, RemoveOpen,
     RemoveCommit, Purge, RemovalDies, Elsewhere, store
<1>5. CASE UNCHANGED vars
  BY <1>5 DEF vars, store
<1>. QED BY <1>1, <1>2, <1>3, <1>4, <1>5, NextCases

LEMMA PutsKept ==
  ASSUME TypeOK, Pending, [Next]_vars
  PROVE  PutIsThere'
<1> SUFFICES ASSUME NEW u \in Uploads, client'[u].pc = "stored" PROVE u \in temp'
  BY DEF PutIsThere, TempKey
<1>1. CASE client[u].pc = "stored"
  <2>1. u \in temp
    BY <1>1 DEF Pending, PutIsThere, TempKey
  <2>2. ~ AcceptCleanup(u)
    BY <1>1 DEF AcceptCleanup
  <2>3. \A s \in Sources : u \notin tempOf[s]
    BY <1>1 DEF Pending, OfEndedCalls, Committed
  <2>4. \A w \in Workers : task[w] # NoTask => SourceAt(w) \in Sources
    BY TaskShape DEF TypeOK
  <2>. QED BY <2>1, <2>2, <2>3, <2>4, TempsRemoved
<1>2. CASE client[u].pc # "stored"
  <2> USE DEF TypeOK, DataOK
  <2>1. ASSUME NEW v \in Uploads, ClientStep(v) PROVE AcceptPut(u)
    <3>1. v = u
      BY <1>2, <2>1 DEF ClientStep, AcceptReplay, AcceptFindsNone, AcceptDecide,
         AcceptDuplicate, AcceptPut, AcceptCommit, AcceptRollback, AcceptCleanup, AcceptDies, Go
    <3>. QED
      BY <1>2, <2>1, <3>1 DEF ClientStep, AcceptReplay, AcceptFindsNone, AcceptDecide,
         AcceptDuplicate, AcceptCommit, AcceptRollback, AcceptCleanup, AcceptDies, Go
  <2>2. ASSUME NEW w \in Workers, HandlerStep(w) PROVE FALSE
    BY <1>2, <2>2 DEF HandlerStep, Materialize, Bury, InspectInvalid, InspectFails, Decide,
       Resolve, PutOriginal, MaterializeFails, CleanupOriginal, DiscardTemp, Ack, Fail,
       WorkerDies, Working, Settle
  <2>3. ASSUME NEW w \in Workers, NEW c \in Copies, Deliver(w, c) PROVE FALSE
    BY <1>2, <2>3 DEF Deliver
  <2>4. ~ (BrokerStep \/ CollectionStep)
    BY <1>2, OthersAside
  <2>5. ~ UNCHANGED vars
    BY <1>2 DEF vars
  <2>. QED BY <2>1, <2>2, <2>3, <2>4, <2>5, NextCases DEF AcceptPut, TempKey
<1>. QED BY <1>1, <1>2

LEMMA BytesKept ==
  ASSUME IInv, Pending, [Next]_vars
  PROVE  BytesAreThere'
<1> SUFFICES ASSUME NEW s \in Sources, request'[s] = "pending"
             PROVE  /\ tempOf'[s] # {}
                    /\ tempOf'[s] \subseteq temp' \/ tempOf'[s] \subseteq raisedCalls'
  BY DEF BytesAreThere, Readable
<1> USE DEF IInv, TypeOK, DataOK
<1>1. ASSUME NEW u \in Uploads, AcceptCommit(u), SourceOf[u] = s
      PROVE  tempOf'[s] = {u} /\ u \in temp'
  BY <1>1 DEF AcceptCommit, TempKey, Pending, PutIsThere, store
<1>2. CASE request[s] = "pending"
  <2>1. tempOf'[s] = tempOf[s]
    <3>1. \A u \in Uploads : AcceptCommit(u) => SourceOf[u] # s
      BY <1>2 DEF AcceptCommit
    <3>. QED BY <3>1, NamedByTheCommit
  <2>2. tempOf[s] # {} /\ (tempOf[s] \subseteq temp \/ tempOf[s] \subseteq raisedCalls)
    BY <1>2 DEF Pending, BytesAreThere, Readable
  <2>3. raisedCalls \subseteq raisedCalls'
    BY EndedStays
  <2>4. tempOf[s] = {} \/ \E x \in Uploads : tempOf[s] = {x}
    BY DEF Pending, OneObject
  <2>5. ASSUME NEW x \in temp, tempOf[s] = {x}, x \notin temp', x \notin raisedCalls PROVE FALSE
    <3>1. client[x].pc = "done" /\ SourceOf[x] = s
      BY <2>5 DEF Pending, OfEndedCalls, Committed
    <3>2. ~ AcceptCleanup(x)
      BY <3>1 DEF AcceptCleanup
    <3>3. ASSUME NEW w \in Workers, At(w, "discard"), x \in tempOf[SourceAt(w)]
          PROVE  FALSE
      <4>1. SourceAt(w) \in Sources
        BY <3>3, TaskShape DEF At
      <4>2. SourceAt(w) = s
        BY <3>1, <3>3, <4>1 DEF Pending, OfEndedCalls
      <4>. QED BY <1>2, <3>3, <4>2 DEF Pending, DoneWhenSettled, Settled, At
    <3>. QED BY <2>5, <3>2, <3>3, TempsRemoved
  <2>. QED BY <2>1, <2>2, <2>3, <2>4, <2>5
<1>3. CASE request[s] # "pending"
  <2>1. TypeOK
    OBVIOUS
  <2>2. request'[s] # request[s]
    BY <1>3
  <2>3. PICK u \in Uploads : AcceptCommit(u) /\ SourceOf[u] = s
    BY <2>1, <2>2, RequestsGoOn
  <2>. QED BY <1>1, <2>3
<1>. QED BY <1>2, <1>3

LEMMA DoneKept ==
  ASSUME IInv, Pending, [Next]_vars
  PROVE  DoneWhenSettled'
<1> DEFINE Done(w) == task[w] # NoTask /\ task[w].pc \in {"discard", "ack"}
<1> SUFFICES ASSUME NEW w \in Workers, Done(w)' PROVE Settled(SourceAt(w))'
  BY DEF DoneWhenSettled
<1>1. CASE Done(w) /\ task'[w].copy = task[w].copy
  <2>1. SourceAt(w) \in Sources /\ SourceAt(w)' = SourceAt(w)
    BY <1>1, TaskShape DEF SourceAt, IInv, TypeOK
  <2>2. Settled(SourceAt(w))
    BY <1>1 DEF Pending, DoneWhenSettled
  <2>. QED BY <2>1, <2>2, SettledStays DEF Settled
<1>2. CASE task' = task
  BY <1>1, <1>2
<1> USE DEF IInv, TypeOK, DeliveryOK
<1>3. ASSUME NEW u \in Uploads, ClientStep(u) PROVE task' = task
  BY <1>3, ClientRequests
<1>4. ASSUME NEW v \in Workers, HandlerStep(v) PROVE Settled(SourceAt(w))'
  <2>1. CASE v # w
    BY <1>1, <1>4, <2>1, HandlerRequests
  <2>2. CASE v = w
    <3>1. task[w] # NoTask /\ SourceAt(w) \in Sources
      <4>1. task[w] # NoTask
        BY <1>4, <2>2 DEF HandlerStep, Materialize, Bury, InspectInvalid, InspectFails, Decide,
           Resolve, PutOriginal, MaterializeFails, CleanupOriginal, DiscardTemp, Ack, Fail,
           WorkerDies, At
      <4>. QED BY <4>1, TaskShape
    <3>2. \/ InspectInvalid(w) \/ Resolve(w) \/ DiscardTemp(w)
          \/ \E b \in BOOLEAN : Materialize(w, b)
      BY <1>4, <2>2 DEF HandlerStep, Bury, InspectFails, Decide, PutOriginal,
         MaterializeFails, CleanupOriginal, Ack, Fail, WorkerDies, Step, Move, Settle
    <3>3. CASE DiscardTemp(w)
      BY <1>1, <3>3 DEF DiscardTemp, At, Step, Move
    <3>4. task'[w].copy = task[w].copy
      BY <3>1, <3>2 DEF InspectInvalid, Resolve, DiscardTemp, Materialize, Step, Move
    <3>5. ~DiscardTemp(w) => request'[SourceAt(w)] \notin {"none", "pending"}
      BY <3>1, <3>2 DEF InspectInvalid, Resolve, Materialize, Step, Move, DataOK
    <3>. QED BY <3>3, <3>4, <3>5 DEF Settled, SourceAt
  <2>. QED BY <2>1, <2>2
<1>5. ASSUME NEW v \in Workers, NEW c \in Copies, Deliver(v, c) PROVE Settled(SourceAt(w))'
  <2>1. CASE v # w
    BY <1>1, <1>5, <2>1 DEF Deliver
  <2>2. CASE v = w
    <3>1. request' = request /\ task'[w].copy = c /\ ~Eligible(c[1]) /\ place[c] = "ready"
      BY <1>5, <2>2 DEF Deliver, Take
    <3>2. request[c[1]] # "none"
      BY <3>1 DEF Pending, NothingBefore
    <3>. QED BY <3>1, <3>2 DEF Settled, SourceAt, Eligible
  <2>. QED BY <2>1, <2>2
<1>6. ASSUME BrokerStep \/ CollectionStep PROVE task' = task
  BY <1>6, OthersAside
<1>7. ASSUME UNCHANGED vars PROVE task' = task
  BY <1>7 DEF vars
<1>. QED BY <1>2, <1>3, <1>4, <1>5, <1>6, <1>7, NextCases

LEMMA PendingPreserved == IInv /\ Pending /\ [Next]_vars => Pending'
<1> SUFFICES ASSUME IInv, Pending, [Next]_vars PROVE Pending'
  OBVIOUS
<1>1. TypeOK
  BY DEF IInv
<1>2. OfEndedCalls' /\ OneObject' /\ NothingBefore' /\ PutIsThere'
  BY <1>1, NamesKept, NothingBeforeKept, PutsKept
<1>3. DoneWhenSettled' /\ BytesAreThere' /\ GoneToTheLedger'
  BY DoneKept, BytesKept, LedgerKept
<1>. QED BY <1>2, <1>3 DEF Pending

(* No losing call and no finished delivery removes what a pending request   *)
(* needs: a message or a dead letter, and its bytes, unless the call whose  *)
(* request it is saw its own commit raise although it took effect.          *)
THEOREM PendingRequestsGoOn == Spec => []PendingCanGoOn
<1>1. Init => Pending
  BY DEF Init, Pending, OfEndedCalls, OneObject, NothingBefore, DoneWhenSettled, PutIsThere,
     BytesAreThere, GoneToTheLedger
<1>2. ASSUME Pending, NEW s \in Sources, request[s] = "pending"
      PROVE  /\ tempOf[s] # {} /\ (Readable(s) \/ tempOf[s] \subseteq raisedCalls)
             /\ s \in ledger \/ \E c \in Copies : c[1] = s /\ place[c] # "gone"
  <2>1. <<s, 1>> \in Copies
    BY CopiesAssumption DEF Copies
  <2>2. <<s, 1>>[1] = s
    OBVIOUS
  <2>. QED BY <1>2, <2>1, <2>2 DEF Pending, BytesAreThere, GoneToTheLedger
<1>3. Pending => PendingCanGoOn
  BY <1>2 DEF PendingCanGoOn
<1>. QED BY <1>1, <1>3, Invariance, PendingPreserved, PTL DEF Spec
=============================================================================
