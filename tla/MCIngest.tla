------------------------------ MODULE MCIngest ------------------------------
(* Two calls for one upload and a crawled post with the same bytes, two     *)
(* workers.                                                                 *)
EXTENDS Ingest, TLC

CONSTANTS u1, u2, u3, s1, s2, k1, w1, w2

MCUploads == {u1, u2, u3}
MCSources == {s1, s2}
MCSourceOf == (u1 :> s1) @@ (u2 :> s1) @@ (u3 :> s2)
MCColOf == (s1 :> k1) @@ (s2 :> Crawler)
MCWorkers == {w1, w2}
MCCopiesOf == (s1 :> 2) @@ (s2 :> 1)

Symmetry == Permutations(MCWorkers) \cup Permutations({u1, u2})

(* The bound, one trouble at a time: the upload's message has a second      *)
(* copy, or one commit raises although it took effect, or a removal is      *)
(* under way; a removal may follow once the second copy is gone.            *)
OneAtATime ==
  LET doubled == place[<<s1, 2>>] # "unpublished"
      raises  == raisedCalls \cup raisedFiles # {}
      removes == removal[k1] # NoRemoval
  IN  /\ ~(doubled /\ raises) /\ ~(raises /\ removes)
      /\ doubled /\ removes => place[<<s1, 2>>] = "gone"
      /\ Cardinality(raisedCalls) + Cardinality(raisedFiles) <= 1

MCNext == Next /\ OneAtATime'
MCSpec == Init /\ [][MCNext]_vars
=============================================================================
