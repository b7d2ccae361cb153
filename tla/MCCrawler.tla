----------------------------- MODULE MCCrawler -----------------------------
(* Three ways the channel can stand: a new channel the crawler starts on, a *)
(* channel whose older history an admin may ask for, and both at once.      *)
EXTENDS Crawler

MCFate == [p \in PostIds |->
  CASE p = 1 -> {"unsupported", "malformed"}
    [] p = 2 -> {"unavailable", "raises"}
    [] OTHER -> {"unavailable", "flood"}]

New == [published |-> 1, accepted |-> {}, crawls |-> TRUE, requested |-> 0,
        chan |-> [last |-> 0, cursor |-> 0, initial |-> FALSE, exhausted |-> FALSE]]
Old == [published |-> MaxPosts, accepted |-> {MaxPosts}, crawls |-> FALSE, requested |-> MaxPosts,
        chan |-> [last |-> MaxPosts, cursor |-> MaxPosts, initial |-> TRUE, exhausted |-> FALSE]]
Resting == [published |-> MaxPosts, accepted |-> {MaxPosts - 1, MaxPosts}, crawls |-> TRUE, requested |-> 1,
            chan |-> [last |-> MaxPosts, cursor |-> MaxPosts - 1, initial |-> TRUE, exhausted |-> FALSE]]
MCScenarios == {New, Old, Resting}
=============================================================================
