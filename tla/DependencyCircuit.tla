------------------------- MODULE DependencyCircuit -------------------------
(***************************************************************************)
(* The durable circuit of one provider (dependency_circuit_states):        *)
(* acquire_dependency_circuit, record_dependency_success and               *)
(* record_dependency_failure of services/pipeline_reliability.py, as       *)
(* workers/pipeline_runtime/runtime.py calls them around a stage.          *)
(*                                                                         *)
(* Every worker process runs up to its prefetch count of deliveries at     *)
(* once, all under one owner.  Each of the three        *)
(* operations is one transaction on the locked row; the provider's call    *)
(* runs between two of them.  A missing row reads as a closed one.  Time   *)
(* is abstracted to whether the cooldown has passed.                       *)
(***************************************************************************)
EXTENDS Naturals, Sequences

CONSTANTS
  Processes,      \* worker processes
  Slots,          \* deliveries a process handles at once (prefetch count)
  Errors,         \* error fingerprints
  NoError, NoOwner,
  Threshold,      \* settings.pipeline_circuit_failure_threshold
  MaxBoots,       \* bound of the model: restarts of a process
  MaxProbes,      \* bound of the model: half-open probes
  MaxOutcomes     \* bound of the model: outcomes recorded; 0: no bound, no history

ASSUME ThresholdAssumption == Threshold \in Nat \ {0}
ASSUME MaxBootsAssumption == MaxBoots \in Nat
ASSUME MaxProbesAssumption == MaxProbes \in Nat
ASSUME MaxOutcomesAssumption == MaxOutcomes \in Nat
ASSUME NoErrorAssumption == NoError \notin Errors

(* What _circuit_owner can return.                                          *)
Owners == [process : Processes, boot : 0 .. MaxBoots]
ASSUME NoOwnerAssumption == NoOwner \notin Owners

VARIABLES
  circuit,        \* the row: status, fingerprint, failures, owner, probes
  cooling,        \* retry_at lies in the future
  boot,           \* boot[p]: the boot id of process p
  call,           \* call[p][s]: the provider call in slot s of p
  outcomes        \* history: outcomes recorded, NoError for a success

vars == <<circuit, cooling, boot, call, outcomes>>

-----------------------------------------------------------------------------
Statuses == {"closed", "open", "half_open"}

(* _circuit_owner                                                           *)
OwnerOf(p) == [process |-> p, boot |-> boot[p]]

NoCall == [running |-> FALSE, probe |-> 0]

Init ==
  /\ circuit = [status |-> "closed", fingerprint |-> NoError, failures |-> 0,
                owner |-> NoOwner, probes |-> 0]
  /\ cooling = FALSE
  /\ boot = [p \in Processes |-> 0]
  /\ call = [p \in Processes |-> [s \in Slots |-> NoCall]]
  /\ outcomes = <<>>

CooldownEnds ==
  /\ cooling
  /\ cooling' = FALSE
  /\ UNCHANGED <<circuit, boot, call, outcomes>>

-----------------------------------------------------------------------------
(* acquire_dependency_circuit: a closed circuit admits, ...                 *)
Begin(p, s, probe) == call' = [call EXCEPT ![p][s] = [running |-> TRUE, probe |-> probe]]

AdmitWhenClosed(p, s) ==
  /\ ~call[p][s].running
  /\ circuit.status = "closed"
  /\ Begin(p, s, 0)
  /\ UNCHANGED <<circuit, cooling, boot, outcomes>>

(* Mutant: the probe is owned by the next boot.                             *)
AdmitProbeOfNextBoot(p, s) ==
  /\ ~call[p][s].running
  /\ circuit.status = "open" /\ ~cooling
  /\ circuit' = [circuit EXCEPT !.status = "half_open", !.probes = @ + 1,
                                !.owner = [process |-> p, boot |-> boot[p] + 1]]
  /\ Begin(p, s, circuit.probes + 1)
  /\ UNCHANGED <<cooling, boot, outcomes>>

(* ... an open one starts a probe when the cooldown has passed, ...         *)
AdmitProbe(p, s) ==
  /\ ~call[p][s].running
  /\ circuit.status = "open" /\ ~cooling
  /\ circuit.probes < MaxProbes
  /\ circuit' = [circuit EXCEPT !.status = "half_open", !.owner = OwnerOf(p),
                                !.probes = @ + 1]
  /\ Begin(p, s, circuit.probes + 1)
  /\ UNCHANGED <<cooling, boot, outcomes>>

(* Mutant: whoever comes while a probe runs is admitted too.                *)
AdmitAnyone(p, s) ==
  /\ ~call[p][s].running
  /\ circuit.status = "half_open"
  /\ Begin(p, s, circuit.probes)
  /\ UNCHANGED <<circuit, cooling, boot, outcomes>>

(* ... and a half-open one admits its probe's owner.  Whoever is refused    *)
(* raises DependencyCircuitOpenError and leaves the circuit as it is.       *)
AdmitOwner(p, s) ==
  /\ ~call[p][s].running
  /\ circuit.status = "half_open" /\ circuit.owner = OwnerOf(p)
  /\ Begin(p, s, circuit.probes)
  /\ UNCHANGED <<circuit, cooling, boot, outcomes>>

-----------------------------------------------------------------------------
Return(p, s) ==
  /\ call[p][s].running
  /\ call' = [call EXCEPT ![p][s] = NoCall]

Observe(outcome) ==
  IF MaxOutcomes = 0
  THEN UNCHANGED outcomes
  ELSE Len(outcomes) < MaxOutcomes /\ outcomes' = Append(outcomes, outcome)

(* record_dependency_success                                                *)
Succeeds(p, s) ==
  /\ Return(p, s)
  /\ Observe(NoError)
  /\ circuit' = [circuit EXCEPT !.status = "closed", !.fingerprint = NoError,
                                !.failures = 0, !.owner = NoOwner]
  /\ cooling' = FALSE
  /\ UNCHANGED boot

(* Mutant: the failures of any error are added up.                          *)
FailsOfAnyKind(p, s, error) ==
  /\ Return(p, s)
  /\ Observe(error)
  /\ LET opens == circuit.status = "half_open" \/ circuit.failures + 1 >= Threshold
     IN /\ circuit' = [circuit EXCEPT
                         !.fingerprint = error, !.failures = @ + 1,
                         !.status = IF opens THEN "open" ELSE @,
                         !.owner = IF opens THEN NoOwner ELSE @]
        /\ cooling' = (opens \/ cooling)
  /\ UNCHANGED boot

(* record_dependency_failure.  The count is kept up to Threshold: nothing   *)
(* looks further.                                                           *)
Fails(p, s, error) ==
  /\ Return(p, s)
  /\ Observe(error)
  /\ LET failures == IF circuit.fingerprint # error THEN 1
                     ELSE IF circuit.failures < Threshold THEN circuit.failures + 1
                     ELSE Threshold
         opens == circuit.status = "half_open" \/ failures >= Threshold
     IN /\ circuit' = [circuit EXCEPT
                         !.fingerprint = error, !.failures = failures,
                         !.status = IF opens THEN "open" ELSE @,
                         !.owner = IF opens THEN NoOwner ELSE @]
        /\ cooling' = (opens \/ cooling)
  /\ UNCHANGED boot

(* A terminal failure, a cancelled delivery, or a record that could not be  *)
(* written: the circuit does not hear of it.                                *)
EndsUnrecorded(p, s) ==
  /\ Return(p, s)
  /\ UNCHANGED <<circuit, cooling, boot, outcomes>>

(* The process dies or is redeployed, and starts under a new boot id.       *)
Restart(p) ==
  /\ boot[p] < MaxBoots
  /\ boot' = [boot EXCEPT ![p] = @ + 1]
  /\ call' = [call EXCEPT ![p] = [s \in Slots |-> NoCall]]
  /\ UNCHANGED <<circuit, cooling, outcomes>>

-----------------------------------------------------------------------------
Admit(p, s) == AdmitWhenClosed(p, s) \/ AdmitProbe(p, s) \/ AdmitOwner(p, s)

Recorded(p, s) == Succeeds(p, s) \/ \E e \in Errors : Fails(p, s, e)

Next ==
  \/ CooldownEnds
  \/ \E p \in Processes :
       Restart(p) \/ \E s \in Slots : Admit(p, s) \/ Recorded(p, s) \/ EndsUnrecorded(p, s)

Spec == Init /\ [][Next]_vars

(* The queue is never empty, and a call that keeps being made keeps being   *)
(* answered.  Nothing is assumed of restarts.                               *)
FairSpec ==
  /\ Spec
  /\ WF_vars(CooldownEnds)
  /\ \A p \in Processes, s \in Slots : WF_vars(Admit(p, s)) /\ SF_vars(Recorded(p, s))

-----------------------------------------------------------------------------
(* The type of every variable.                                              *)
TypeOK ==
  /\ circuit \in [status : Statuses, fingerprint : Errors \cup {NoError},
                  failures : Nat, probes : Nat,
                  owner : Owners \cup {NoOwner}]
  /\ cooling \in BOOLEAN
  /\ boot \in [Processes -> 0 .. MaxBoots]
  /\ call \in [Processes -> [Slots -> [running : BOOLEAN, probe : Nat]]]
  /\ outcomes \in Seq(Errors \cup {NoError})

(* A circuit that is not closed has seen Threshold equal failures in a row  *)
(* and no success since.                                                    *)
OpenForAReason ==
  circuit.status # "closed" =>
    \E i \in 0 .. Len(outcomes) - Threshold, e \in Errors :
      /\ \A j \in i + 1 .. i + Threshold : outcomes[j] = e
      /\ \A j \in i + 1 .. Len(outcomes) : outcomes[j] # NoError

(* The fence of the half-open state: the calls in flight under the current  *)
(* probe are the owner's, and no other process gets one.                    *)
ProbeIsTheOwners ==
  circuit.status = "half_open" =>
    /\ circuit.owner # NoOwner
    /\ \A p \in Processes, s \in Slots :
         call[p][s].running /\ call[p][s].probe = circuit.probes
           => circuit.owner = OwnerOf(p)

(* Both: a provider is shut off for a reason, and tried by one caller.      *)
OpenAndFenced == OpenForAReason /\ ProbeIsTheOwners

(* A probe decides: a success closes the circuit, a failure reopens it.     *)
HalfOpenEnds == circuit.status = "half_open" ~> circuit.status # "half_open"
=============================================================================
