---------------------- MODULE DependencyCircuitProofs ----------------------
(***************************************************************************)
(* For any processes, prefetch count, errors and threshold: the circuit    *)
(* opens for a reason, and its probe is fenced.                            *)
(*                                                                         *)
(* Neither is inductive.  Counted says what the row's counter means in     *)
(* the history of outcomes, which is what makes the threshold a reason     *)
(* when it is reached.  Numbered says that calls carry the number of the   *)
(* circuit when they were admitted, so that those of an earlier probe, or  *)
(* of a closed circuit, are never taken for the current probe's.           *)
(***************************************************************************)
EXTENDS DependencyCircuit, TLAPS

USE ThresholdAssumption, MaxBootsAssumption, NoErrorAssumption, NoOwnerAssumption

Counted ==
  /\ circuit.failures <= Threshold
  /\ circuit.failures <= Len(outcomes)
  /\ circuit.failures # 0 => circuit.fingerprint \in Errors
  /\ \A j \in Len(outcomes) - circuit.failures + 1 .. Len(outcomes) :
       outcomes[j] = circuit.fingerprint

Numbered ==
  /\ circuit.status = "half_open" => circuit.probes > 0
  /\ \A p \in Processes, s \in Slots : call[p][s].probe <= circuit.probes

Reasoned == MaxOutcomes # 0 => Counted /\ OpenForAReason

(* TypeOK in parts.                                                         *)
Rows == [status : Statuses, fingerprint : Errors \cup {NoError},
         failures : Nat, probes : Nat, owner : Owners \cup {NoOwner}]

CircuitOK ==
  /\ circuit \in Rows
  /\ cooling \in BOOLEAN

CallsOK ==
  /\ boot \in [Processes -> 0 .. MaxBoots]
  /\ call \in [Processes -> [Slots -> [running : BOOLEAN, probe : Nat]]]

HistoryOK == outcomes \in Seq(Errors \cup {NoError})

IInv == TypeOK /\ Numbered /\ ProbeIsTheOwners /\ Reasoned

-----------------------------------------------------------------------------
(* TypeOK is its parts, before and after a step.                            *)
LEMMA TypeParts ==
  /\ TypeOK <=> CircuitOK /\ CallsOK /\ HistoryOK
  /\ TypeOK' <=> CircuitOK' /\ CallsOK' /\ HistoryOK'
BY DEF TypeOK, CircuitOK, Rows, CallsOK, HistoryOK

(* The updates of the row keep its type.                                    *)
LEMMA ProbedRow ==
  ASSUME NEW r \in Rows, NEW o \in Owners, NEW n \in Nat
  PROVE  [r EXCEPT !.status = "half_open", !.owner = o, !.probes = n] \in Rows
BY DEF Rows, Statuses

LEMMA FailedRow ==
  ASSUME NEW r \in Rows, NEW e \in Errors, NEW n \in Nat, NEW st \in Statuses,
         NEW o \in Owners \cup {NoOwner}
  PROVE  [r EXCEPT !.fingerprint = e, !.failures = n, !.status = st, !.owner = o] \in Rows
BY DEF Rows

(* The owner a process calls under is one, and no mark for "nobody".         *)
LEMMA OwnerIsOwner ==
  ASSUME TypeOK, NEW p \in Processes
  PROVE  OwnerOf(p) \in Owners /\ OwnerOf(p) # NoOwner
BY DEF TypeOK, OwnerOf, Owners

(* Init establishes the inductive invariant.                                *)
LEMMA InitIInv == Init => IInv
<1> SUFFICES ASSUME Init PROVE IInv OBVIOUS
<1> USE DEF Init, NoCall
<1>1. TypeOK
  <2>1. HistoryOK BY DEF HistoryOK
  <2>2. CircuitOK BY DEF CircuitOK, Rows, Statuses
  <2>3. CallsOK BY DEF CallsOK
  <2> QED BY <2>1, <2>2, <2>3, TypeParts
<1>2. Numbered /\ ProbeIsTheOwners BY DEF Numbered, ProbeIsTheOwners
<1>3. Reasoned BY DEF Reasoned, Counted, OpenForAReason
<1> QED BY <1>1, <1>2, <1>3 DEF IInv

(* Admissions and unheard ends: the history stays as it is.                 *)
LEMMA AdmissionSteps ==
  ASSUME IInv, NEW p \in Processes, NEW s \in Slots,
         Admit(p, s) \/ EndsUnrecorded(p, s)
  PROVE  IInv'
<1> USE DEF Begin, Return, NoCall
<1>0. CircuitOK /\ CallsOK /\ HistoryOK /\ Numbered /\ ProbeIsTheOwners /\ Reasoned
  BY TypeParts DEF IInv
<1>1. UNCHANGED boot /\ UNCHANGED outcomes
  BY DEF Admit, AdmitWhenClosed, AdmitProbe, AdmitOwner, EndsUnrecorded
<1>2. HistoryOK' BY <1>0, <1>1 DEF HistoryOK
<1>3. CASE AdmitWhenClosed(p, s)
  <2> USE <1>3 DEF AdmitWhenClosed
  <2>1. UNCHANGED circuit /\ UNCHANGED cooling OBVIOUS
  <2>2. CircuitOK' BY <1>0, <2>1 DEF CircuitOK, Rows
  <2>3. CallsOK' BY <1>0 DEF CallsOK
  <2>4. Numbered' BY <1>0 DEF CallsOK, CircuitOK, Rows, Numbered
  <2>5. ProbeIsTheOwners' BY DEF ProbeIsTheOwners
  <2>6. Reasoned' BY <1>0, <1>1, <2>1 DEF Reasoned, Counted, OpenForAReason
  <2> QED BY <1>2, <2>2, <2>3, <2>4, <2>5, <2>6, TypeParts DEF IInv
<1>4. CASE AdmitProbe(p, s)
  <2> USE <1>4 DEF AdmitProbe
  <2>1. OwnerOf(p) \in Owners /\ OwnerOf(p) # NoOwner BY OwnerIsOwner DEF IInv
  <2>2. CircuitOK'
    <3>1. circuit.probes + 1 \in Nat BY <1>0 DEF CircuitOK, Rows
    <3>2. circuit' \in Rows BY <1>0, <2>1, <3>1, ProbedRow DEF CircuitOK
    <3> QED BY <1>0, <3>2 DEF CircuitOK
  <2>3. CallsOK' BY <1>0 DEF CallsOK, CircuitOK, Rows
  <2>4. Numbered' BY <1>0 DEF CallsOK, CircuitOK, Rows, Numbered
  <2>5. \A q \in Processes, r \in Slots :
          call'[q][r].probe = circuit'.probes => q = p
    BY <1>0 DEF CallsOK, CircuitOK, Rows, Numbered
  <2>6. circuit'.owner = OwnerOf(p) /\ OwnerOf(p)' = OwnerOf(p)
    BY <1>0 DEF CircuitOK, Rows, OwnerOf
  <2>7. ProbeIsTheOwners' BY <2>1, <2>5, <2>6 DEF ProbeIsTheOwners
  <2>8. /\ circuit.status # "closed"
        /\ circuit'.failures = circuit.failures
        /\ circuit'.fingerprint = circuit.fingerprint
    BY <1>0 DEF CircuitOK, Rows
  <2>9. Reasoned' BY <1>0, <1>1, <2>8 DEF Reasoned, Counted, OpenForAReason
  <2> QED BY <1>2, <2>2, <2>3, <2>4, <2>7, <2>9, TypeParts DEF IInv
<1>5. CASE AdmitOwner(p, s)
  <2> USE <1>5 DEF AdmitOwner
  <2>1. UNCHANGED circuit /\ UNCHANGED cooling OBVIOUS
  <2>2. CircuitOK' BY <1>0, <2>1 DEF CircuitOK, Rows
  <2>3. CallsOK' BY <1>0 DEF CallsOK, CircuitOK, Rows
  <2>4. Numbered' BY <1>0 DEF CallsOK, CircuitOK, Rows, Numbered
  <2>5. ProbeIsTheOwners' BY <1>0, <1>1 DEF CallsOK, ProbeIsTheOwners, OwnerOf
  <2>6. Reasoned' BY <1>0, <1>1, <2>1 DEF Reasoned, Counted, OpenForAReason
  <2> QED BY <1>2, <2>2, <2>3, <2>4, <2>5, <2>6, TypeParts DEF IInv
<1>6. CASE EndsUnrecorded(p, s)
  <2> USE <1>6 DEF EndsUnrecorded
  <2>1. UNCHANGED circuit /\ UNCHANGED cooling OBVIOUS
  <2>2. CircuitOK' BY <1>0, <2>1 DEF CircuitOK, Rows
  <2>3. CallsOK' BY <1>0 DEF CallsOK
  <2>4. Numbered' BY <1>0 DEF CallsOK, CircuitOK, Rows, Numbered
  <2>5. ProbeIsTheOwners' BY <1>0, <1>1 DEF CallsOK, ProbeIsTheOwners, OwnerOf
  <2>6. Reasoned' BY <1>0, <1>1, <2>1 DEF Reasoned, Counted, OpenForAReason
  <2> QED BY <1>2, <2>2, <2>3, <2>4, <2>5, <2>6, TypeParts DEF IInv
<1> QED BY <1>3, <1>4, <1>5, <1>6 DEF Admit

(* A success closes the circuit: nothing is left to be explained.           *)
LEMMA SuccessStep ==
  ASSUME IInv, NEW p \in Processes, NEW s \in Slots, Succeeds(p, s)
  PROVE  IInv'
<1> USE DEF Return, NoCall, Succeeds
<1>0. CircuitOK /\ CallsOK /\ HistoryOK /\ Numbered
  BY TypeParts DEF IInv
<1>1. HistoryOK' BY <1>0 DEF HistoryOK, Observe
<1>2. CircuitOK' BY <1>0 DEF CircuitOK, Rows, Statuses
<1>3. CallsOK' BY <1>0 DEF CallsOK
<1>4. circuit'.status = "closed" /\ circuit'.failures = 0 /\ circuit'.probes = circuit.probes
  BY <1>0 DEF CircuitOK, Rows
<1>5. Numbered' BY <1>0, <1>4 DEF CallsOK, CircuitOK, Rows, Numbered
<1>6. ProbeIsTheOwners' BY <1>4 DEF ProbeIsTheOwners
<1>7. Reasoned' BY <1>1, <1>4 DEF HistoryOK, Reasoned, Counted, OpenForAReason
<1> QED BY <1>1, <1>2, <1>3, <1>5, <1>6, <1>7, TypeParts DEF IInv

(* A failure extends the run of equal outcomes the row counts, or begins a  *)
(* new one; the circuit opens when that run has the threshold's length, or  *)
(* keeps the reason it was open for.                                        *)
LEMMA FailureStep ==
  ASSUME IInv, NEW p \in Processes, NEW s \in Slots, NEW e \in Errors, Fails(p, s, e)
  PROVE  IInv'
<1> DEFINE failures == IF circuit.fingerprint # e THEN 1
                       ELSE IF circuit.failures < Threshold THEN circuit.failures + 1
                       ELSE Threshold
           opens == circuit.status = "half_open" \/ failures >= Threshold
<1>0. CircuitOK /\ CallsOK /\ HistoryOK /\ Numbered /\ ProbeIsTheOwners /\ Reasoned
  BY TypeParts DEF IInv
<1>1. /\ circuit'.fingerprint = e /\ circuit'.failures = failures
      /\ circuit'.status = IF opens THEN "open" ELSE circuit.status
      /\ circuit'.owner = IF opens THEN NoOwner ELSE circuit.owner
      /\ circuit'.probes = circuit.probes
      /\ UNCHANGED boot /\ Return(p, s) /\ Observe(e)
  BY <1>0 DEF CircuitOK, Rows, Fails
<1>2. CircuitOK'
  <2> DEFINE st == IF opens THEN "open" ELSE circuit.status
             o == IF opens THEN NoOwner ELSE circuit.owner
  <2>0. st \in Statuses /\ o \in Owners \cup {NoOwner} /\ failures \in Nat
    BY <1>0 DEF CircuitOK, Rows, Statuses
  <2>1. circuit' \in Rows
    <3>1. circuit' = [circuit EXCEPT !.fingerprint = e, !.failures = failures,
                                     !.status = st, !.owner = o]
      BY DEF Fails
    <3>2. circuit \in Rows BY <1>0 DEF CircuitOK
    <3> HIDE DEF failures, st, o
    <3> QED BY <2>0, <3>1, <3>2, FailedRow
  <2>2. cooling' \in BOOLEAN BY <1>0 DEF CircuitOK, Fails
  <2> QED BY <2>1, <2>2 DEF CircuitOK
<1>3. HistoryOK' BY <1>0, <1>1 DEF HistoryOK, Observe
<1>4. CallsOK' BY <1>0, <1>1 DEF CallsOK, Return, NoCall
<1>5. Numbered' BY <1>0, <1>1 DEF CallsOK, CircuitOK, Rows, Statuses, Numbered, Return, NoCall
<1>6. ProbeIsTheOwners'
  <2> SUFFICES ASSUME circuit'.status = "half_open" PROVE ProbeIsTheOwners' BY DEF ProbeIsTheOwners
  <2>1. FALSE BY <1>0, <1>1 DEF CircuitOK, Rows, Statuses
  <2> QED BY <2>1
<1>7. ASSUME MaxOutcomes # 0 PROVE Counted' /\ OpenForAReason'
  <2>0. /\ Len(outcomes) \in Nat
        /\ Len(outcomes') = Len(outcomes) + 1
        /\ outcomes'[Len(outcomes) + 1] = e
        /\ \A j \in 1 .. Len(outcomes) : outcomes'[j] = outcomes[j]
    BY <1>0, <1>1, <1>7 DEF HistoryOK, Observe
  <2>1. Counted'
    <3>1. Counted /\ circuit.failures \in Nat BY <1>0, <1>7 DEF CircuitOK, Rows, Reasoned
    <3>2. CASE circuit.fingerprint # e
      BY <1>1, <2>0, <3>2 DEF Counted
    <3>3. CASE circuit.fingerprint = e
      BY <1>1, <2>0, <3>1, <3>3, SMTT(30) DEF Counted
    <3> QED BY <3>2, <3>3
  <2>2. CASE circuit.status # "closed"
    <3>1. PICK i \in 0 .. Len(outcomes) - Threshold, x \in Errors :
            /\ \A j \in i + 1 .. i + Threshold : outcomes[j] = x
            /\ \A j \in i + 1 .. Len(outcomes) : outcomes[j] # NoError
      BY <1>0, <1>7, <2>2 DEF OpenForAReason, Reasoned
    <3>2. /\ i \in 0 .. Len(outcomes') - Threshold
          /\ \A j \in i + 1 .. i + Threshold : outcomes'[j] = x
          /\ \A j \in i + 1 .. Len(outcomes') : outcomes'[j] # NoError
      BY <2>0, <3>1
    <3> QED BY <2>1, <3>2, Zenon DEF OpenForAReason
  <2>3. CASE circuit.status = "closed" /\ circuit'.status # "closed"
    <3> DEFINE i == Len(outcomes') - Threshold
    <3>1. circuit'.failures = Threshold
      BY <1>0, <1>1, <1>7, <2>1, <2>3 DEF Counted, CircuitOK, Rows, Reasoned
    <3>2. /\ i \in 0 .. Len(outcomes') - Threshold
          /\ \A j \in i + 1 .. i + Threshold : outcomes'[j] = e
          /\ \A j \in i + 1 .. Len(outcomes') : outcomes'[j] # NoError
      BY <1>1, <2>0, <2>1, <3>1 DEF Counted
    <3> HIDE DEF i
    <3> QED BY <2>1, <3>2, Zenon DEF OpenForAReason
  <2> QED BY <2>1, <2>2, <2>3 DEF OpenForAReason
<1> QED BY <1>2, <1>3, <1>4, <1>5, <1>6, <1>7, TypeParts DEF IInv, Reasoned

(* A restart forgets the calls of the process, so that none of them is      *)
(* taken for one of its next life.                                          *)
LEMMA RestartStep ==
  ASSUME IInv, NEW p \in Processes, Restart(p)
  PROVE  IInv'
<1>0. CircuitOK /\ CallsOK /\ HistoryOK /\ Numbered /\ ProbeIsTheOwners /\ Reasoned
  BY TypeParts DEF IInv
<1>1. UNCHANGED <<circuit, cooling, outcomes>> BY DEF Restart
<1>2. HistoryOK' /\ CircuitOK' BY <1>0, <1>1 DEF HistoryOK, CircuitOK
<1>3. CallsOK' BY <1>0 DEF Restart, CallsOK, NoCall
<1>4. Numbered' BY <1>0, <1>1 DEF Restart, CallsOK, CircuitOK, Rows, Numbered, NoCall
<1>5. ProbeIsTheOwners'
  BY <1>0, <1>1 DEF Restart, CallsOK, ProbeIsTheOwners, NoCall, OwnerOf
<1>6. Reasoned' BY <1>0, <1>1 DEF Reasoned, Counted, OpenForAReason
<1> QED BY <1>2, <1>3, <1>4, <1>5, <1>6, TypeParts DEF IInv

(* IInv is inductive, so it holds of every behaviour.                       *)
THEOREM Invariant == Spec => []IInv
<1>1. IInv /\ [Next]_vars => IInv'
  <2> SUFFICES ASSUME IInv, [Next]_vars PROVE IInv' OBVIOUS
  <2>1. CASE UNCHANGED vars
    BY <2>1 DEF vars, IInv, TypeOK, Numbered, ProbeIsTheOwners, OwnerOf, Reasoned, Counted,
                OpenForAReason
  <2>2. CASE CooldownEnds
    BY <2>2 DEF CooldownEnds, IInv, TypeOK, Numbered, ProbeIsTheOwners, OwnerOf, Reasoned,
                Counted, OpenForAReason
  <2>3. ASSUME NEW p \in Processes, Restart(p) PROVE IInv'
    BY <2>3, RestartStep
  <2>4. ASSUME NEW p \in Processes, NEW s \in Slots,
               Admit(p, s) \/ Recorded(p, s) \/ EndsUnrecorded(p, s)
        PROVE  IInv'
    BY <2>4, AdmissionSteps, SuccessStep, FailureStep DEF Recorded
  <2> QED BY <2>1, <2>2, <2>3, <2>4 DEF Next
<1> QED BY <1>1, InitIInv, PTL DEF Spec

(* Type correctness.                                                        *)
THEOREM TypeCorrect == Spec => []TypeOK
<1>1. IInv => TypeOK BY DEF IInv
<1> QED BY <1>1, Invariant, PTL

(* For any number of processes and calls: whatever calls end in whatever    *)
(* order, a circuit that is not closed has seen Threshold equal failures in *)
(* a row and no success since, and the calls in flight under its probe are  *)
(* those of the process the row names.                                      *)
THEOREM OpensForAReasonAndIsFenced ==
  ASSUME MaxOutcomes # 0 PROVE Spec => []OpenAndFenced
<1>1. IInv => OpenAndFenced BY DEF IInv, Reasoned, OpenAndFenced
<1> QED BY <1>1, Invariant, PTL
=============================================================================
