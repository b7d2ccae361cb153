---------------------------- MODULE AtLeastOnce ----------------------------
(***************************************************************************)
(* What the transactional outbox promises its producers and consumers,     *)
(* with leases, relays, crashes and retries abstracted away:               *)
(*                                                                         *)
(*   - only a committed message is ever handed to the broker;              *)
(*   - every copy the broker holds comes from a numbered attempt of its    *)
(*     own, so no attempt is handed over twice;                            *)
(*   - a message is reported delivered only after the broker accepted a    *)
(*     copy of it, and no copy is ever taken back.                         *)
(*                                                                         *)
(* A report may be withdrawn (a late publisher overwrites the row, see     *)
(* Outbox!MarkFailed), which is what makes duplicates possible: delivery   *)
(* is at least once, never exactly once.                                   *)
(***************************************************************************)
CONSTANTS
  Messages,        \* the rows of rabbitmq_outbox_messages
  Attempts         \* the numbers an attempt can have

VARIABLES phase,           \* phase[m]: "absent", "open" or "delivered"
          copies           \* set of [msg, attempt] the broker accepted

vars == <<phase, copies>>

Attempt == [msg : Messages, attempt : Attempts]

TypeOK ==
  /\ phase \in [Messages -> {"absent", "open", "delivered"}]
  /\ copies \subseteq Attempt

Init ==
  /\ phase = [m \in Messages |-> "absent"]
  /\ copies = {}

Commit(m) ==
  /\ phase[m] = "absent"
  /\ phase' = [phase EXCEPT ![m] = "open"]
  /\ UNCHANGED copies

Deliver(c) ==
  /\ phase[c.msg] # "absent"
  /\ c \notin copies
  /\ copies' = copies \cup {c}
  /\ UNCHANGED phase

Report(m) ==
  /\ phase[m] = "open"
  /\ \E c \in copies : c.msg = m
  /\ phase' = [phase EXCEPT ![m] = "delivered"]
  /\ UNCHANGED copies

Withdraw(m) ==
  /\ phase[m] = "delivered"
  /\ phase' = [phase EXCEPT ![m] = "open"]
  /\ UNCHANGED copies

Next ==
  \/ \E m \in Messages : Commit(m) \/ Report(m) \/ Withdraw(m)
  \/ \E c \in Attempt : Deliver(c)

Spec == Init /\ [][Next]_vars
=============================================================================
