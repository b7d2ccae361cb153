------------------------------ MODULE MCOutbox ------------------------------
(***************************************************************************)
(* Two rows and two relays, so that one relay's late outcome races the     *)
(* other's lease while a further row of its batch waits in memory; or one  *)
(* row that is also rebuilt, as often as AttemptBound lets it: nothing a   *)
(* rebuild does concerns a second row.  No symmetry: the run also checks   *)
(* progress.                                                               *)
(***************************************************************************)
EXTENDS Outbox

CONSTANTS m1, m2, r1, r2

MCMessages == {m1, m2}
MCRelays == {r1, r2}

(* The bound: a row is scheduled for a rebuild, or a second one published.  *)
OneRowIsRebuilt ==
  \/ \A m \in Messages : item[m] = "none"
  \/ item[m2] = "none" /\ status[m2] = "absent"

MCNext == Next /\ OneRowIsRebuilt'
MCSpec == Init /\ [][MCNext]_vars /\ Fairness
=============================================================================
