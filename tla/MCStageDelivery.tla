-------------------------- MODULE MCStageDelivery --------------------------
(* Two workers, the fan-out's event (which the broker may get twice) and up *)
(* to two replays of it (one, when it does), three attempts.                *)
EXTENDS StageDelivery, TLC

CONSTANTS w1, w2

MCWorkers == {w1, w2}

MCCopiesOf == <<2, 1, 1>>

MCOneCopy == <<1>>

(* The bound: the first message is doubled, or a third event is issued.     *)
TwoCopiesOrThreeEvents == place[<<1, 2>>] = "unpublished" \/ 3 \notin Issued

MCNext == Next /\ TwoCopiesOrThreeEvents'
MCSpec == Init /\ [][MCNext]_vars

Symmetry == Permutations(MCWorkers)
=============================================================================
