--------------------------- MODULE MCAccountLink ---------------------------
(* Two guests, an account, and seven calls of one person: ...               *)
EXTENDS AccountLink

CONSTANTS tg, goog, mail, k1, k2, fav

MCCalls == {"redeem", "retap", "google", "signin", "login", "signup", "issue"}
MCUsers == {1, 2, 3}
MCKind == [c \in MCCalls |-> CASE c = "retap" -> "redeem" [] c = "signin" -> "telegram" [] OTHER -> c]
MCGuest == [c \in MCCalls |-> CASE c \in {"redeem", "retap", "google", "issue"} -> 1
                              [] c \in {"login", "signup"} -> 3 [] OTHER -> Anonymous]
MCFresh == [c \in MCCalls |-> CASE c = "redeem" -> 11 [] c = "retap" -> 12 [] c = "google" -> 13
              [] c = "signin" -> 14 [] c = "login" -> 15 [] c = "signup" -> 16 [] OTHER -> 17]
MCClaims == [c \in MCCalls |-> CASE c \in {"redeem", "retap", "signin"} -> {tg} [] c = "google" -> {goog, mail}
              [] c \in {"login", "signup"} -> {mail} [] OTHER -> {}]
MCCodeOf == [c \in MCCalls |-> IF c = "issue" THEN k2 ELSE k1]
MCGuestOfCode == [k \in {k1, k2} |-> 1]
MCOwners == {[i \in {tg, goog, mail} |-> u] : u \in {Nobody}}
              \cup {[i \in {tg, goog, mail} |-> IF i = x THEN 2 ELSE Nobody] : x \in {tg, mail}}
MCTogether ==
  {S \in SUBSET (MCCalls \ {"issue"}) : Cardinality(S) = 3}
    \cup {{"redeem", "google", "issue"}, {"redeem", "retap", "signin", "issue"}}
=============================================================================
