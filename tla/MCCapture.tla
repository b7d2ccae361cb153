----------------------------- MODULE MCCapture -----------------------------
(* One channel with one post, and two accounts: the post has its slot 1     *)
(* before the end, or is due at once and has a slot after it, or the        *)
(* channel was never observed and is due at once.                           *)
EXTENDS Capture

CONSTANTS p1, c1, s1, s2

MCChannelOf == [t \in {p1, c1} |-> c1]
MCFirstDue ==
  {[t \in {p1, c1} |-> IF t = p1 THEN 1 ELSE 2], [t \in {p1, c1} |-> IF t = p1 THEN 0 ELSE 1],
   [t \in {p1, c1} |-> IF t = p1 THEN 2 ELSE None]}
MCFirstOwner == [c \in {c1} |-> s1]

(* The bound: where the post is due at once, the trouble is a ban, and a    *)
(* lease lasts as long as it is needed.                                     *)
DueAtOnce == next[p1] = 0 \/ snap[p1][0] # "none"
OnlyABan ==
  DueAtOnce =>
    /\ troubles' = troubles \/ \E s \in Sessions : truth[s] = "fine" /\ truth'[s] = "banned"
    /\ \A t \in Targets : lease'[t] = "stale" => lease[t] = "stale"

MCNext == Next /\ OnlyABan
MCSpec == Init /\ [][MCNext]_vars /\ Fairness
=============================================================================
