-------------------------- MODULE MCSearchSynonyms --------------------------
(* SearchSynonyms on the two locales, with a first world where two drafts   *)
(* with a key in common are saved and nothing is published, a second where  *)
(* one locale is published, in sync, and being replaced, and a third where  *)
(* an older release published it and Meilisearch has lost its synonyms.     *)
EXTENDS SearchSynonyms

CONSTANTS none_, en, ru, empty, t1, t2, t12, s1, s2

McKeysOf == [t \in Texts |-> CASE t = t1 -> {1} [] t = t2 -> {2} [] t = t12 -> {1, 2} [] OTHER -> {}]

Draft(n, t) == [rev |-> n, text |-> t]
Unpublished ==
  [draft |-> [l \in Locales |-> Draft(1, IF l = en THEN t1 ELSE t12)],
   published |-> [l \in Locales |-> None],
   sync |-> [status |-> "idle", desired |-> None, applied |-> None],
   settings |-> {}]
PublishedBy(compiler, has) ==
  LET p == [rev |-> 1, text |-> t1, compiler |-> compiler]
      snap == [l \in {en} |-> p]
  IN [draft |-> [l \in Locales |-> IF l = en THEN Draft(2, t12) ELSE Draft(1, t2)],
      published |-> [l \in Locales |-> IF l = en THEN p ELSE None],
      sync |-> [status |-> "synced", desired |-> snap, applied |-> snap],
      settings |-> has]
McScenarios == {Unpublished, PublishedBy("now", {t1}), PublishedBy("before", {})}
=============================================================================
