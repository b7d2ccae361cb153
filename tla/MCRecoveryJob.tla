--------------------------- MODULE MCRecoveryJob ---------------------------
(***************************************************************************)
(* Five small worlds: a stage with its dependent; a recovery and a replay  *)
(* of one stage; two replays of one source post; a recovery whose          *)
(* publications may fail and whose stage operators replay as well; and a   *)
(* replay that is retried while an operator replays the stage.             *)
(***************************************************************************)
EXTENDS RecoveryJob

CONSTANTS j1, j2, j3, j4, j5, j6, j7, i1, i2, i3, i4, i5, i6, i7, i8, transcode, ocr, embed, classify, sync_meili, post

MCJobs == {j1, j2, j3, j4, j5, j6, j7}
MCItems == {i1, i2, i3, i4, i5, i6, i7, i8}
MCWorks == {transcode, ocr, embed, classify, sync_meili, post}
MCPosts == {post}

(* j1 replays ocr and its dependent; j2 recovers classify's dead letter and *)
(* j3 replays it; j4 and j5 replay the post; j6 recovers transcode's.       *)
MCJobOf == [i \in MCItems |-> CASE i \in {i1, i2} -> j1 [] i = i3 -> j2 [] i = i4 -> j3
                              [] i = i5 -> j4 [] i = i6 -> j5 [] i = i7 -> j6 [] i = i8 -> j7]
MCParentOf == [i \in MCItems |-> IF i = i2 THEN i1 ELSE NoItem]
MCWorkOf == [i \in MCItems |-> CASE i = i1 -> ocr [] i \in {i3, i4} -> classify [] i = i2 -> embed
                               [] i = i7 -> transcode [] i = i8 -> sync_meili [] OTHER -> post]
MCPrerequisiteOf == [w \in MCWorks |-> IF w = embed THEN {ocr} ELSE {}]
MCMaxEvents == [w \in MCWorks |-> CASE w \in {ocr, embed} -> 1
                                  [] w \in {transcode, classify, sync_meili} -> 2 [] w = post -> 0]
MCMaxFailures == [w \in MCWorks |-> IF w = transcode THEN 1 ELSE 0]
MCRetryLimit == [j \in MCJobs |-> IF j \in {j1, j3, j4, j7} THEN 3 ELSE 1]
MCRows(o, m) == [w \in MCWorks |-> CASE w = ocr -> o [] w = embed -> m [] OTHER -> FailedRow(TRUE)]
MCScenarios ==
  [jobs : {{j1}}, rows : {MCRows(SucceededRow, FailedRow(TRUE)), MCRows(FailedRow(TRUE), SucceededRow)}]
  \cup [jobs : {{j2, j3}, {j4, j5}, {j6}, {j7}}, rows : {MCRows(SucceededRow, SucceededRow)}]
=============================================================================
