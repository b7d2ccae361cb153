---------------------------- MODULE OutboxProofs ----------------------------
(***************************************************************************)
(* For any number of rows and relays and any budget: the safety of the     *)
(* outbox, and that it implements AtLeastOnce.                             *)
(*                                                                         *)
(* The invariants the runs check are not inductive.  The strengthening has *)
(* three parts: Budgeted ties the attempt counter to what was granted (a   *)
(* PENDING row outside any recovery was never attempted; what a dispatch   *)
(* that raised had granted is remembered when the item is queued again),   *)
(* Copied ties what relays hold in memory to the row's counter and to the  *)
(* broker, and Fenced ties the version a queued item expects to what the   *)
(* administrator was shown: every step that changes a row moves it.        *)
(***************************************************************************)
EXTENDS Outbox, TLAPS

USE MaxAttemptsAssumption, RetryLimitAssumption, AttemptBoundAssumption,
    NoRelayAssumption

Budgeted ==
  \A m \in Messages :
    /\ status[m] = "absent" => attempts[m] = 0 /\ ceiling[m] = 0 /\ item[m] = "none"
    /\ status[m] = "pending" /\ ceiling[m] = 0 => attempts[m] = 0
    /\ attempts[m] <= Budget(m) \/ attempts[m] <= granted[m]
    /\ ceiling[m] <= granted[m] /\ older[m] <= granted[m]
    /\ item[m] = "dispatched" => ceiling[m] # 0
    /\ item[m] = "queued" => ceiling[m] = older[m] /\ consumed[m] < RetryLimit

Copied ==
  /\ PublishedWasAccepted
  /\ OneCopyPerAttempt
  /\ \A r \in Relays : \A l \in lease[r] : l.attempt <= attempts[l.msg]
  /\ \A r \in Relays : sent[r] # NotSent =>
       /\ sent[r].lease.attempt <= attempts[sent[r].lease.msg]
       /\ sent[r].ok => sent[r].lease \in copies

Fenced ==
  \A m \in Messages :
    /\ owner[m] # NoRelay => status[m] = "publishing"
    /\ item[m] = "queued" /\ fresh[m] => seen[m] # "no"
    /\ seen[m] = "taken_over" => consumed[m] > 0

IInv == TypeOK /\ Budgeted /\ Copied /\ Fenced

-----------------------------------------------------------------------------
(* Init establishes the inductive invariant.                                *)
LEMMA InitIInv == Init => IInv
BY DEF Init, IInv, TypeOK, Budgeted, Copied, Fenced, Budget, ItemStatus,
       PublishedWasAccepted, OneCopyPerAttempt

(* A rebuild never grants less than one attempt in all, and keeps what was  *)
(* granted.                                                                 *)
LEMMA RebuildStep ==
  ASSUME IInv, NEW m \in Messages, item[m] = "queued", Valid(m), Rebuild(m),
         raising' \in [Messages -> BOOLEAN]
  PROVE  IInv'
<1> USE DEF IInv
<1>1. PICK first \in Nat, upto \in Nat :
        /\ first # 0 /\ first <= upto /\ upto <= AttemptBound
        /\ begun' = [begun EXCEPT ![m] = first]
        /\ ceiling' = [ceiling EXCEPT ![m] = upto]
        /\ granted' = [granted EXCEPT ![m] = AtLeast(granted[m], AtLeast(upto, attempts[m]))]
  <2>1. /\ attempts[m] \in Nat /\ begun[m] \in Nat
        /\ consumed[m] \in Nat /\ consumed[m] < RetryLimit
    BY DEF TypeOK, Budgeted, Attempts
  <2> DEFINE first == IF begun[m] = 0 THEN attempts[m] + 1 ELSE begun[m]
             upto == first + RetryLimit - consumed[m] - 1
  <2>2. /\ upto <= AttemptBound
        /\ begun' = [begun EXCEPT ![m] = first]
        /\ ceiling' = [ceiling EXCEPT ![m] = upto]
        /\ granted' = [granted EXCEPT ![m] = AtLeast(granted[m], AtLeast(upto, attempts[m]))]
    BY DEF Rebuild
  <2>3. first \in Nat /\ first # 0
    BY <2>1
  <2>4. upto \in Nat /\ first <= upto
    <3> HIDE DEF first
    <3> QED BY <2>1, <2>3
  <2> QED BY <2>2, <2>3, <2>4
<1>2. /\ status[m] = "failed"
      /\ status' = [status EXCEPT ![m] = "pending"]
      /\ owner' = [owner EXCEPT ![m] = NoRelay]
      /\ item' = [item EXCEPT ![m] = "dispatched"]
      /\ Touch({m}) /\ Watch
      /\ UNCHANGED <<attempts, older, consumed, lease, sent, copies>>
  BY DEF Rebuild, Valid
<1>3. TypeOK'
  <2>1. /\ begun' \in [Messages -> 0 .. AttemptBound]
        /\ ceiling' \in [Messages -> 0 .. AttemptBound]
        /\ granted' \in [Messages -> Nat]
    BY <1>1 DEF TypeOK, AtLeast, Attempts
  <2> QED BY <1>2, <2>1 DEF TypeOK, ItemStatus, Touch, Watch
<1>4. Budgeted'
  <2>1. ASSUME NEW k \in Messages, k # m
        PROVE  UNCHANGED <<status[k], attempts[k], ceiling[k], older[k], granted[k],
                           item[k], consumed[k]>>
    BY <1>1, <1>2, <2>1 DEF TypeOK
  <2>2. /\ status'[m] = "pending" /\ item'[m] = "dispatched" /\ ceiling'[m] # 0
        /\ ceiling'[m] <= granted'[m] /\ older'[m] <= granted'[m]
    BY <1>1, <1>2 DEF TypeOK, Budgeted, AtLeast, Attempts
  <2>3. attempts'[m] <= granted'[m]
    BY <1>1, <1>2 DEF TypeOK, AtLeast, Attempts
  <2> QED BY <2>1, <2>2, <2>3 DEF Budgeted, Budget
<1>5. Copied'
  BY <1>2 DEF Copied, PublishedWasAccepted, OneCopyPerAttempt, TypeOK
<1>6. Fenced'
  BY <1>2 DEF Fenced, TypeOK, Touch, Watch
<1> QED BY <1>3, <1>4, <1>5, <1>6

(* Committing a row and every step of the recovery of one.                  *)
LEMMA RowSteps ==
  ASSUME IInv, NEW m \in Messages,
         Publish(m) \/ ScheduleRebuild(m) \/ DispatchRebuild(m) \/ DispatchStale(m)
           \/ DispatchRaises(m) \/ RecordFailure(m) \/ Reconcile(m)
  PROVE  IInv'
<1> USE DEF IInv, TypeOK, Budgeted, Fenced, Budget, ItemStatus, Attempts,
        row, recovery, allowance
<1>1. CASE Publish(m)
  <2>1. TypeOK' BY <1>1 DEF Publish
  <2>2. Budgeted' BY <1>1 DEF Publish
  <2>3. Copied' BY <1>1 DEF Publish, Copied, PublishedWasAccepted, OneCopyPerAttempt
  <2>4. Fenced' BY <1>1 DEF Publish
  <2> QED BY <2>1, <2>2, <2>3, <2>4
<1>2. CASE ScheduleRebuild(m)
  <2>1. TypeOK' BY <1>2 DEF ScheduleRebuild
  <2>2. Budgeted' BY <1>2 DEF ScheduleRebuild
  <2>3. Copied' BY <1>2 DEF ScheduleRebuild, Copied, PublishedWasAccepted, OneCopyPerAttempt
  <2>4. Fenced' BY <1>2 DEF ScheduleRebuild
  <2> QED BY <2>1, <2>2, <2>3, <2>4
<1>3. CASE DispatchRebuild(m)
  BY <1>3, RebuildStep DEF DispatchRebuild
<1>4. CASE DispatchStale(m)
  <2>1. TypeOK' BY <1>4 DEF DispatchStale
  <2>2. Budgeted' BY <1>4 DEF DispatchStale
  <2>3. Copied' BY <1>4 DEF DispatchStale, Copied, PublishedWasAccepted, OneCopyPerAttempt
  <2>4. Fenced' BY <1>4 DEF DispatchStale
  <2> QED BY <2>1, <2>2, <2>3, <2>4
<1>5. CASE DispatchRaises(m)
  <2>1. CASE Rebuild(m)
    BY <1>5, <2>1, RebuildStep DEF DispatchRaises
  <2>2. CASE UNCHANGED <<row, allowance, item, fresh, seen, lease, sent, copies>>
    <3>1. TypeOK' BY <1>5, <2>2 DEF DispatchRaises
    <3>2. Budgeted' BY <2>2
    <3>3. Copied' BY <2>2 DEF Copied, PublishedWasAccepted, OneCopyPerAttempt
    <3>4. Fenced' BY <2>2
    <3> QED BY <3>1, <3>2, <3>3, <3>4
  <2> QED BY <1>5, <2>1, <2>2 DEF DispatchRaises
<1>6. CASE RecordFailure(m)
  <2>1. TypeOK'
    <3>1. \/ /\ item' = [item EXCEPT ![m] = "queued"]
             /\ ceiling' = [ceiling EXCEPT ![m] = older[m]]
             /\ fresh' = [fresh EXCEPT ![m] = TRUE]
             /\ seen' = [seen EXCEPT ![m] = "taken_over"]
          \/ /\ item' = [item EXCEPT ![m] = "skipped_stale"]
                \/ item' = [item EXCEPT ![m] = "failed"]
             /\ UNCHANGED <<ceiling, fresh, seen>>
      BY <1>6 DEF RecordFailure
    <3>2. /\ item' \in [Messages -> ItemStatus]
          /\ ceiling' \in [Messages -> 0 .. AttemptBound]
          /\ fresh' \in [Messages -> BOOLEAN]
          /\ seen' \in [Messages -> {"no", "shown", "taken_over"}]
      <4>1. CASE item' = [item EXCEPT ![m] = "queued"] /\ fresh' = [fresh EXCEPT ![m] = TRUE]
        BY <3>1, <4>1
      <4>2. CASE UNCHANGED <<ceiling, fresh, seen>>
        BY <3>1, <4>2
      <4> QED BY <3>1, <4>1, <4>2
    <3>3. /\ consumed' \in [Messages -> Nat]
          /\ raising' \in [Messages -> BOOLEAN]
      BY <1>6 DEF RecordFailure
    <3>4. UNCHANGED <<status, attempts, owner, older, begun, granted, lease, sent, copies>>
      BY <1>6 DEF RecordFailure
    <3> QED BY <3>2, <3>3, <3>4
  <2>2. Budgeted'
    <3>1. CASE item'[m] = "queued"
      <4>1. /\ consumed[m] + 1 < RetryLimit /\ status[m] \in {"failed", "publishing"}
            /\ item' = [item EXCEPT ![m] = "queued"]
            /\ ceiling' = [ceiling EXCEPT ![m] = older[m]]
            /\ consumed' = [consumed EXCEPT ![m] = @ + 1]
            /\ UNCHANGED <<status, attempts, older, granted>>
        BY <1>6, <3>1 DEF RecordFailure
      <4>2. attempts[m] <= granted[m] \/ ceiling[m] = older[m]
        BY <1>6 DEF RecordFailure
      <4> QED BY <4>1, <4>2
    <3>2. CASE item'[m] # "queued"
      <4>1. /\ item' = [item EXCEPT ![m] = "skipped_stale"]
                 \/ item' = [item EXCEPT ![m] = "failed"]
            /\ consumed' = [consumed EXCEPT ![m] = @ + 1]
            /\ item[m] \in {"queued", "dispatched"}
            /\ UNCHANGED <<status, attempts, ceiling, older, granted>>
        BY <1>6, <3>2 DEF RecordFailure
      <4> QED BY <4>1
    <3> QED BY <3>1, <3>2
  <2>3. Copied' BY <1>6 DEF RecordFailure, Copied, PublishedWasAccepted, OneCopyPerAttempt
  <2>4. Fenced' BY <1>6 DEF RecordFailure
  <2> QED BY <2>1, <2>2, <2>3, <2>4
<1>7. CASE Reconcile(m)
  <2>1. Observed(m) \in Nat /\ Observed(m) >= consumed[m]
    BY DEF Observed, AtLeast
  <2>2. TypeOK' BY <1>7, <2>1 DEF Reconcile
  <2>3. Budgeted' BY <1>7, <2>1 DEF Reconcile
  <2>4. Copied' BY <1>7 DEF Reconcile, Copied, PublishedWasAccepted, OneCopyPerAttempt
  <2>5. Fenced' BY <1>7, <2>1 DEF Reconcile
  <2> QED BY <2>2, <2>3, <2>4, <2>5
<1> QED BY <1>1, <1>2, <1>3, <1>4, <1>5, <1>6, <1>7

(* A claim numbers its copies: no other relay and not the broker has them.  *)
LEMMA ClaimStep ==
  ASSUME IInv, NEW r \in Relays, NEW S \in SUBSET Messages, Claim(r, S)
  PROVE  IInv'
<1> USE DEF IInv
<1>1. \A m \in S : attempts[m] + 1 \in Attempts /\ attempts[m] + 1 <= Budget(m)
  BY DEF Claim, Claimable, TypeOK, Budgeted, Budget, Attempts
<1>2. TypeOK'
  BY <1>1 DEF Claim, TypeOK, Touch, Watch, allowance, Lease
<1>3. Budgeted'
  BY <1>1 DEF Claim, Claimable, TypeOK, Touch, Watch, allowance, Budgeted, Budget
<1>4. Copied'
  <2>1. PublishedWasAccepted'
    BY DEF Claim, Copied, PublishedWasAccepted, TypeOK
  <2>2. \A m \in S : \A q \in Relays : [msg |-> m, attempt |-> attempts[m] + 1] \notin lease[q]
    BY DEF Copied, TypeOK, Attempts, Lease
  <2>3. \A m \in S : [msg |-> m, attempt |-> attempts[m] + 1] \notin copies
    BY DEF Copied, OneCopyPerAttempt, TypeOK, Attempts
  <2>4. OneCopyPerAttempt'
    BY <2>2, <2>3 DEF Claim, Copied, OneCopyPerAttempt, TypeOK, Lease, Attempts
  <2>5. (\A q \in Relays : \A l \in lease[q] : l.attempt <= attempts[l.msg])'
    BY DEF Claim, Copied, TypeOK, Lease, Attempts
  <2>6. (\A q \in Relays : sent[q] # NotSent =>
           /\ sent[q].lease.attempt <= attempts[sent[q].lease.msg]
           /\ sent[q].ok => sent[q].lease \in copies)'
    BY DEF Claim, Copied, TypeOK, Lease, Attempts
  <2> QED BY <2>1, <2>4, <2>5, <2>6 DEF Copied
<1>5. Fenced'
  BY DEF Claim, TypeOK, Touch, Watch, allowance, Fenced
<1> QED BY <1>2, <1>3, <1>4, <1>5

(* The broker call and the two outcomes a relay writes.                     *)
LEMMA RelaySteps ==
  ASSUME IInv, NEW r \in Relays, RelayStep(r)
  PROVE  IInv'
<1> USE DEF IInv
<1>1. ASSUME NEW l \in lease[r], NEW ok \in BOOLEAN, NEW accepted \in BOOLEAN,
             Send(r, l, ok, accepted)
      PROVE  IInv'
  <2>1. TypeOK'
    BY <1>1 DEF Send, TypeOK, row, recovery, allowance
  <2>2. Budgeted'
    BY <1>1 DEF Send, Budgeted, Budget, row, recovery, allowance
  <2>3. PublishedWasAccepted'
    BY <1>1 DEF Send, Copied, PublishedWasAccepted, row, recovery, allowance
  <2>4. OneCopyPerAttempt'
    BY <1>1 DEF Send, Copied, OneCopyPerAttempt, TypeOK, row, recovery, allowance
  <2>5. (\A q \in Relays : \A k \in lease[q] : k.attempt <= attempts[k.msg])'
    BY <1>1 DEF Send, Copied, TypeOK, row
  <2>6. (\A q \in Relays : sent[q] # NotSent =>
           /\ sent[q].lease.attempt <= attempts[sent[q].lease.msg]
           /\ sent[q].ok => sent[q].lease \in copies)'
    BY <1>1 DEF Send, Copied, TypeOK, row
  <2>7. Fenced'
    BY <1>1 DEF Send, Fenced, row, recovery, allowance
  <2> QED BY <2>1, <2>2, <2>3, <2>4, <2>5, <2>6, <2>7 DEF Copied
<1>2. ASSUME NEW ok \in BOOLEAN, NEW outcome \in {"published", "failed"},
             outcome = "published" => ok, Mark(r, ok, outcome)
      PROVE  IInv'
  <2> DEFINE m == sent[r].lease.msg
  <2>1. /\ m \in Messages /\ attempts[m] # 0
        /\ outcome = "published" => sent[r].lease \in copies
    BY <1>2 DEF Mark, Copied, TypeOK, Lease, Attempts
  <2>2. TypeOK'
    BY <1>2, <2>1 DEF Mark, TypeOK, Touch, Watch, allowance
  <2>3. Budgeted'
    BY <1>2, <2>1 DEF Mark, TypeOK, Budgeted, Budget, Touch, Watch, allowance
  <2>4. PublishedWasAccepted'
    BY <1>2, <2>1 DEF Mark, Copied, PublishedWasAccepted, TypeOK
  <2>5. OneCopyPerAttempt'
    BY <1>2 DEF Mark, Copied, OneCopyPerAttempt
  <2>6. (\A q \in Relays : \A k \in lease[q] : k.attempt <= attempts[k.msg])'
    BY <1>2 DEF Mark, Copied
  <2>7. (\A q \in Relays : sent[q] # NotSent =>
           /\ sent[q].lease.attempt <= attempts[sent[q].lease.msg]
           /\ sent[q].ok => sent[q].lease \in copies)'
    BY <1>2 DEF Mark, Copied, TypeOK
  <2>8. Fenced'
    BY <1>2, <2>1 DEF Mark, Fenced, Touch, Watch, allowance, TypeOK
  <2> QED BY <2>2, <2>3, <2>4, <2>5, <2>6, <2>7, <2>8 DEF Copied
<1> QED BY <1>1, <1>2 DEF RelayStep, MarkPublished, MarkFailed

(* What is in memory is lost, or a lease is declared stale.                 *)
LEMMA CrashSteps ==
  ASSUME IInv,
         \/ \E r \in Relays : Crash(r)
         \/ \E S \in SUBSET Messages : RecoverStale(S)
  PROVE  IInv'
<1> USE DEF IInv
<1>1. ASSUME NEW r \in Relays, Crash(r) PROVE IInv'
  <2>1. TypeOK' BY <1>1 DEF Crash, TypeOK, row, recovery, allowance
  <2>2. Budgeted' BY <1>1 DEF Crash, Budgeted, Budget, row, recovery, allowance
  <2>3. Copied'
    BY <1>1 DEF Crash, Copied, PublishedWasAccepted, OneCopyPerAttempt, TypeOK, row, recovery, allowance
  <2>4. Fenced' BY <1>1 DEF Crash, Fenced, row, recovery, allowance
  <2> QED BY <2>1, <2>2, <2>3, <2>4
<1>2. ASSUME NEW S \in SUBSET Messages, RecoverStale(S) PROVE IInv'
  <2>1. TypeOK' BY <1>2 DEF RecoverStale, TypeOK, Touch, Watch, allowance
  <2>2. Budgeted' BY <1>2 DEF RecoverStale, TypeOK, Budgeted, Budget, Touch, Watch, allowance
  <2>3. Copied'
    BY <1>2 DEF RecoverStale, Copied, PublishedWasAccepted, OneCopyPerAttempt, TypeOK
  <2>4. Fenced' BY <1>2 DEF RecoverStale, TypeOK, Fenced, Touch, Watch, allowance
  <2> QED BY <2>1, <2>2, <2>3, <2>4
<1> QED BY <1>1, <1>2

(* Every step of the specification preserves the inductive invariant.       *)
LEMMA NextIInv == IInv /\ [Next]_vars => IInv'
<1> SUFFICES ASSUME IInv, [Next]_vars PROVE IInv'
  OBVIOUS
<1>1. CASE UNCHANGED vars
  BY <1>1 DEF vars, row, recovery, allowance, IInv, TypeOK, Budgeted, Copied, Fenced, Budget,
              PublishedWasAccepted, OneCopyPerAttempt
<1>2. CASE Next
  BY <1>2, RowSteps, ClaimStep, RelaySteps, CrashSteps DEF Next
<1> QED BY <1>1, <1>2

(* Every reachable state satisfies the inductive invariant.                 *)
THEOREM Invariance == Spec => []IInv
BY InitIInv, NextIInv, PTL DEF Spec

-----------------------------------------------------------------------------
(* The attempt numbers, rows and leases keep their types for every number   *)
(* of rows, relays and attempts.                                            *)
THEOREM TypeCorrect == Spec => []TypeOK
BY Invariance, PTL DEF IInv

(* No row is reported published, no recovery item succeeded, that the       *)
(* broker never accepted.                                                   *)
THEOREM PublishedIsAccepted == Spec => []PublishedWasAccepted
<1>1. IInv => PublishedWasAccepted BY DEF IInv, Copied
<1> QED BY <1>1, Invariance, PTL

(* The attempt budget is never exceeded.                                    *)
THEOREM BudgetIsKept == Spec => []AttemptsWithinBudget
<1>1. IInv => AttemptsWithinBudget BY DEF IInv, Budgeted, AttemptsWithinBudget
<1> QED BY <1>1, Invariance, PTL

(* Every durable claim lets at most one copy out.                           *)
THEOREM CopiesAreNumbered == Spec => []OneCopyPerAttempt
<1>1. IInv => OneCopyPerAttempt BY DEF IInv, Copied
<1> QED BY <1>1, Invariance, PTL

(* A rebuild resets a row only if no step changed it since the operator was *)
(* shown it, or since the failure of a dispatch took its version over.      *)
THEOREM RebuildIsFenced == Spec => RebuildOnlyWhatWasSeen
<1> DEFINE P == \A m \in Messages :
                  status[m] \notin {"absent", "pending"} /\ status'[m] = "pending"
                    => \/ seen[m] = "shown"
                       \/ seen[m] = "taken_over" /\ consumed[m] > 0
<1>1. IInv /\ [Next]_vars => [P]_vars
  <2> SUFFICES ASSUME IInv, Next, NEW m \in Messages,
                      status[m] \notin {"absent", "pending"}, status'[m] = "pending"
               PROVE  \/ seen[m] = "shown"
                      \/ seen[m] = "taken_over" /\ consumed[m] > 0
    OBVIOUS
  <2>1. \E k \in Messages : Publish(k) \/ DispatchRebuild(k) \/ DispatchRaises(k)
    <3>1. ASSUME NEW r \in Relays, NEW S \in SUBSET Messages,
                 Claim(r, S)
          PROVE  FALSE
      BY <3>1 DEF Claim, IInv, TypeOK
    <3>2. ASSUME NEW r \in Relays, RelayStep(r) PROVE FALSE
      BY <3>2 DEF RelayStep, Send, MarkPublished, MarkFailed, Mark, row, IInv, TypeOK
    <3>3. ASSUME NEW r \in Relays, Crash(r) PROVE FALSE
      BY <3>3 DEF Crash, row
    <3>4. ASSUME NEW S \in SUBSET Messages, RecoverStale(S) PROVE FALSE
      BY <3>4 DEF RecoverStale, IInv, TypeOK
    <3>5. ASSUME NEW k \in Messages,
                 ScheduleRebuild(k) \/ DispatchStale(k) \/ RecordFailure(k) \/ Reconcile(k)
          PROVE  FALSE
      BY <3>5 DEF ScheduleRebuild, DispatchStale, RecordFailure, Reconcile, row
    <3> QED BY <3>1, <3>2, <3>3, <3>4, <3>5 DEF Next
  <2>2. ASSUME NEW k \in Messages, Publish(k) PROVE FALSE
    BY <2>2 DEF Publish, IInv, TypeOK
  <2>3. ASSUME NEW k \in Messages, DispatchRebuild(k) \/ DispatchRaises(k)
        PROVE  k = m /\ item[k] = "queued" /\ fresh[k]
    BY <2>3 DEF DispatchRebuild, DispatchRaises, Rebuild, Valid, row, IInv, TypeOK
  <2> QED
    BY <2>1, <2>2, <2>3 DEF IInv, TypeOK, Fenced
<1> QED BY <1>1, Invariance, PTL DEF Spec, RebuildOnlyWhatWasSeen

-----------------------------------------------------------------------------
(* Initial states of the outbox are initial states of its promise.          *)
LEMMA InitRefines == Init => Promise!Init
BY DEF Init, Promise!Init, phase

(* Every step of the outbox is a step of its promise, or changes nothing    *)
(* that the promise speaks of.                                              *)
LEMMA StepRefines == IInv /\ [Next]_vars => [Promise!Next]_Promise!vars
<1> SUFFICES ASSUME IInv, [Next]_vars PROVE [Promise!Next]_Promise!vars
  OBVIOUS
<1> USE DEF IInv, TypeOK, phase
<1>1. CASE UNCHANGED vars
  BY <1>1 DEF vars, row, Promise!vars
<1>2. ASSUME NEW m \in Messages, Publish(m) PROVE Promise!Next
  BY <1>2 DEF Publish, Promise!Next, Promise!Commit
<1>3. ASSUME NEW r \in Relays, NEW S \in SUBSET Messages, Claim(r, S)
      PROVE  UNCHANGED Promise!vars
  BY <1>3 DEF Claim, Claimable, Promise!vars
<1>4. ASSUME NEW r \in Relays, NEW l \in lease[r], NEW ok \in BOOLEAN,
             NEW accepted \in BOOLEAN, Send(r, l, ok, accepted)
      PROVE  [Promise!Next]_Promise!vars
  <2>1. /\ l \in Lease /\ status[l.msg] # "absent" /\ l \notin copies
    BY <1>4 DEF Copied, OneCopyPerAttempt, Budgeted, Lease, Attempts
  <2>2. phase' = phase
    BY <1>4 DEF Send, row
  <2>3. CASE accepted
    BY <1>4, <2>1, <2>2, <2>3 DEF Send, Promise!Next, Promise!Deliver, Promise!Attempt, Lease
  <2>4. CASE ~accepted
    BY <1>4, <2>2, <2>4 DEF Send, Promise!vars
  <2> QED BY <2>3, <2>4
<1>5. ASSUME NEW r \in Relays, NEW ok \in BOOLEAN, NEW outcome \in {"published", "failed"},
             outcome = "published" => ok, Mark(r, ok, outcome)
      PROVE  [Promise!Next]_Promise!vars
  <2>0. PICK m \in Messages : m = sent[r].lease.msg
    BY <1>5 DEF Mark, Lease
  <2>1. /\ status[m] # "absent"
        /\ outcome = "published" => sent[r].lease \in copies
    BY <1>5, <2>0 DEF Mark, Copied, Budgeted, Lease, Attempts
  <2>2. copies' = copies /\ status' = [status EXCEPT ![m] = outcome]
    BY <1>5, <2>0 DEF Mark
  <2>3. CASE outcome = "published" /\ status[m] # "published"
    <3>1. Promise!Report(m) BY <2>0, <2>1, <2>2, <2>3 DEF Promise!Report
    <3>2. Promise!Next BY <3>1 DEF Promise!Next
    <3> QED BY <3>2
  <2>4. CASE outcome = "failed" /\ status[m] = "published"
    <3>1. Promise!Withdraw(m) BY <2>1, <2>2, <2>4 DEF Promise!Withdraw
    <3>2. Promise!Next BY <3>1 DEF Promise!Next
    <3> QED BY <3>2
  <2>5. CASE (outcome = "published") = (status[m] = "published")
    BY <2>1, <2>2, <2>5 DEF Promise!vars
  <2> QED BY <2>3, <2>4, <2>5
<1>6. ASSUME NEW r \in Relays, Crash(r) PROVE UNCHANGED Promise!vars
  BY <1>6 DEF Crash, row, Promise!vars
<1>7. ASSUME NEW S \in SUBSET Messages, RecoverStale(S) PROVE UNCHANGED Promise!vars
  BY <1>7 DEF RecoverStale, Promise!vars
<1>8. ASSUME NEW m \in Messages, DispatchRebuild(m) \/ DispatchRaises(m)
      PROVE  UNCHANGED Promise!vars
  BY <1>8 DEF DispatchRebuild, DispatchRaises, Rebuild, Valid, row, Promise!vars
<1>9. ASSUME NEW m \in Messages, ScheduleRebuild(m) \/ DispatchStale(m)
               \/ RecordFailure(m) \/ Reconcile(m)
      PROVE  UNCHANGED Promise!vars
  BY <1>9 DEF ScheduleRebuild, DispatchStale, RecordFailure, Reconcile, row, Promise!vars
<1>10. ASSUME NEW r \in Relays, RelayStep(r) PROVE [Promise!Next]_Promise!vars
  <2>1. CASE \E l \in lease[r], ok, accepted \in BOOLEAN : Send(r, l, ok, accepted)
    BY <1>4, <2>1
  <2>2. CASE MarkPublished(r)
    BY <1>5, <2>2 DEF MarkPublished
  <2>3. CASE MarkFailed(r)
    BY <1>5, <2>3 DEF MarkFailed
  <2> QED BY <1>10, <2>1, <2>2, <2>3 DEF RelayStep
<1> QED BY <1>1, <1>2, <1>3, <1>6, <1>7, <1>8, <1>9, <1>10 DEF Next

(* The outbox keeps its at-least-once promise.                              *)
THEOREM OutboxImplementsAtLeastOnce == Spec => ImplementsPromise
BY Invariance, InitRefines, StepRefines, PTL DEF Spec, ImplementsPromise, Promise!Spec
=============================================================================
