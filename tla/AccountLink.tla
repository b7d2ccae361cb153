---------------------------- MODULE AccountLink ----------------------------
(***************************************************************************)
(* Linking a guest to an account: AccountLinkService                       *)
(* (services/account_link_service.py) over UserService and                 *)
(* ProviderAuthService, called by the routes of api/routes/v1/auth.py and  *)
(* by the bot's /start command (bot/linking.py).                           *)
(*                                                                         *)
(* A call is one request, in one transaction until it fails.  Its          *)
(* statements run at READ COMMITTED: it sees what others committed, waits  *)
(* for a row another call locked FOR UPDATE, and for a unique key another  *)
(* call wrote and did not commit yet.  A user without identities is a      *)
(* guest (User.account_type); a call without a session makes itself a      *)
(* guest inside its transaction, which a rollback takes away again.        *)
(***************************************************************************)
EXTENDS Naturals, FiniteSets, Sequences

CONSTANTS
  Users,         \* ids of the users there are at first: numbers, for their order
  Calls,
  Kind,          \* Kind[c]: "signup", "login", "google", "telegram", "redeem" or "issue"
  Guest,         \* Guest[c]: the guest whose session makes the call, or Anonymous
  Anonymous,
  Fresh,         \* Fresh[c]: the id of the guest the call would make
  Claims,        \* Claims[c]: the identities it proves
  Telegrams, Googles, Mails,
  Codes,         \* Telegram link codes
  CodeOf,        \* CodeOf[c]: the code a "redeem" uses or an "issue" makes
  GuestOfCode,
  Items,         \* what users collect: favourites, views, recommendations
  Collectors,    \* bound of the model: the users who save something
  InitialOwners, \* accounts there are at first: functions from identities to users
  Together,      \* the sets of calls that are made in one behaviour
  Nobody, Free

Identities == Telegrams \cup Googles \cup Mails
Ids == Users \cup {Fresh[c] : c \in Calls}
Rows == Ids \cup Codes

Kinds == {"signup", "login", "google", "telegram", "redeem", "issue"}

ASSUME IdsAreNumbers == Ids \subseteq Nat
ASSUME FreshAreFresh ==
  /\ \A c \in Calls : Fresh[c] \notin Users
  /\ \A c, d \in Calls : Fresh[c] = Fresh[d] => c = d
ASSUME CallsAreCalls ==
  /\ Kind \in [Calls -> Kinds] /\ Guest \in [Calls -> Users \cup {Anonymous}]
  /\ Claims \in [Calls -> SUBSET Identities]
  /\ CodeOf \in [Calls -> Codes] /\ GuestOfCode \in [Codes -> Users]
  /\ Together \subseteq SUBSET Calls
ASSUME OwnersAreUsers == InitialOwners \subseteq [Identities -> Users \cup {Nobody}]
\* A call proves one identity; a Google identity comes with an address.
ASSUME OneIdentityIsProved ==
  /\ Googles \cap Mails = {}
  /\ \A c \in Calls : Kind[c] \notin {"google", "issue"} => \E i \in Identities : Claims[c] = {i}
  /\ \A c \in Calls : Kind[c] = "google" => \E i \in Googles : Claims[c] \ Mails = {i}
ASSUME RowsAreDistinct == Ids \cap Codes = {}
ASSUME MarksAreMarks == Nobody \notin Ids /\ Free \notin Calls /\ Anonymous \notin Users

VARIABLES
  alive,         \* committed rows of users
  owner,         \* owner[i]: the user with identity i: the unique keys of users
  saves,         \* saves[u]: items of user u
  given,         \* history: <<u, i>> when user u saved item i
  links,         \* upgrades and merges; the latter are account_merge_logs
  code,          \* code[k]: "none", "active", "expired" or "redeemed"
  lock,          \* lock[r]: the call that locked row r, or Free
  call

linkVars == <<alive, owner, saves, given, links, code, lock, call>>

-----------------------------------------------------------------------------
(* User.account_type                                                        *)
IsGuest(u) == \A i \in Identities : owner[i] # u
Holders(ids) == {owner[i] : i \in ids} \ {Nobody}

GuestOf(c) ==
  IF Kind[c] = "redeem" THEN GuestOfCode[CodeOf[c]]
  ELSE IF Guest[c] = Anonymous THEN Fresh[c] ELSE Guest[c]

(* A row of users as the transaction of c sees it                           *)
Visible(c, u) == u \in alive \/ (u = Fresh[c] /\ call[c].mine)

NewCall == [at |-> "idle", mine |-> FALSE, was |-> FALSE, before |-> {}, target |-> Nobody,
            attach |-> FALSE, todo |-> <<>>, writes |-> {}, carry |-> {}, again |-> FALSE, answer |-> "none"]

LinkInit ==
  /\ alive = Users
  /\ owner \in InitialOwners
  /\ saves = [u \in Ids |-> {}]
  /\ given = {}
  /\ links = {}
  /\ code = [k \in Codes |-> IF \E c \in Calls : Kind[c] = "issue" /\ CodeOf[c] = k
                             THEN "none" ELSE "active"]
  /\ lock = [r \in Rows |-> Free]
  /\ \E made \in Together :
       call = [c \in Calls |-> IF c \in made THEN NewCall ELSE [NewCall EXCEPT !.at = "done"]]

(* Any request that writes to what a user owns; through its foreign keys it *)
(* waits for whoever locked the user or the user's Favorites.               *)
Save(u, i) ==
  /\ u \in alive /\ lock[u] = Free
  /\ <<u, i>> \notin given
  /\ saves' = [saves EXCEPT ![u] = @ \cup {i}]
  /\ given' = given \cup {<<u, i>>}
  /\ UNCHANGED <<alive, owner, links, code, lock, call>>

-----------------------------------------------------------------------------
(* A transaction ends: its locks are released, what it made is gone.        *)
(* Mutant: the rollback is forgotten.                                       *)
KeepLocks(c) == lock
Release(c) == [r \in Rows |-> IF lock[r] = c THEN Free ELSE lock[r]]
Database == <<alive, owner, saves, given, links, code>>

CallEnds(c, answer) ==
  /\ lock' = Release(c)
  /\ call' = [call EXCEPT ![c].at = "done", ![c].answer = answer, ![c].mine = FALSE]
  /\ UNCHANGED Database

(* _handle_link_failure, around everything but the second try: a rollback,  *)
(* and once the identity was resolved also a look at what others did.       *)
Fails(c, why) ==
  IF call[c].again
  THEN CallEnds(c, why)
  ELSE /\ lock' = Release(c)
       /\ call' = [call EXCEPT ![c].at = "post", ![c].answer = why, ![c].mine = FALSE]
       /\ UNCHANGED Database

(* redeem_telegram_link_code: the code is locked, and marked redeemed.      *)
LockCode(c) ==
  /\ call[c].at = "idle" /\ Kind[c] = "redeem"
  /\ code[CodeOf[c]] # "none" /\ lock[CodeOf[c]] = Free
  /\ IF code[CodeOf[c]] = "active"
     THEN /\ lock' = [lock EXCEPT ![CodeOf[c]] = c]
          /\ call' = [call EXCEPT ![c].at = "begin"]
          /\ UNCHANGED Database
     ELSE CallEnds(c, "used")

(* _resolve_guest_user_id and _start_link_attempt.  The call notes the time *)
(* and the state of the guest.  `before` are the calls whose writes carry   *)
(* an earlier time, committed or not.                                       *)
Begin(c) ==
  /\ \/ call[c].at = "idle" /\ Kind[c] \notin {"redeem", "issue"}
     \/ call[c].at = "begin"
  /\ LET fresh == Kind[c] # "redeem" /\ Guest[c] = Anonymous
     IN call' = [call EXCEPT
          ![c].at = "resolve", ![c].mine = fresh,
          ![c].was = fresh \/ (GuestOf(c) \in alive /\ IsGuest(GuestOf(c))),
          ![c].before = {d \in Calls : call[d].at = "commit"} \cup {l.by : l \in links}]
  /\ UNCHANGED <<Database, lock>>

-----------------------------------------------------------------------------
(* resolve_telegram_identity_user, resolve_google_identity and              *)
(* resolve_email_login_user: whose the identity is.  A Google identity      *)
(* nobody has belongs to whoever has its verified address.                  *)
ByMail(c) == Kind[c] = "google" /\ Holders(Claims[c] \ Mails) = {}
Targets(c) ==
  IF Kind[c] = "signup" THEN {}
  ELSE IF Kind[c] = "google" /\ ~ByMail(c) THEN Holders(Claims[c] \ Mails)
  ELSE Holders(Claims[c])

(* _ensure_google_reuse_is_allowed                                          *)
ReuseRefused(c) ==
  ByMail(c) /\ \E u \in Targets(c) : u \in Holders(Telegrams \cup Googles)

(* _lock_users_in_order: by id                                              *)
InOrder(u, v) == IF u < v THEN <<u, v>> ELSE <<v, u>>
(* Mutant: in any order.                                                    *)
HeadsAnyOrder(c, target) ==
  \E s \in {<<GuestOf(c), target>>, <<target, GuestOf(c)>>} :
    call' = [call EXCEPT ![c].at = "lock", ![c].target = target, ![c].attach = ByMail(c),
                         ![c].todo = IF target = Nobody THEN <<GuestOf(c)>> ELSE s]

Heads(c, target) ==
  call' = [call EXCEPT
    ![c].at = "lock", ![c].target = target, ![c].attach = ByMail(c),
    ![c].todo = IF target = Nobody THEN <<GuestOf(c)>> ELSE InOrder(GuestOf(c), target)]

Resolve(c) ==
  /\ call[c].at = "resolve"
  /\ \/ /\ Kind[c] = "login" /\ Targets(c) = {}
        /\ CallEnds(c, "credentials")
     \/ /\ ReuseRefused(c)
        /\ CallEnds(c, "taken")
     \/ /\ Kind[c] # "login" /\ Targets(c) = {}
        /\ Heads(c, Nobody)
        /\ UNCHANGED <<Database, lock>>
     \/ /\ ~ReuseRefused(c)
        /\ \E u \in Targets(c) :
             IF u = GuestOf(c)
             THEN Fails(c, "self")
             ELSE Heads(c, u) /\ UNCHANGED <<Database, lock>>

(* Mutant: the guest is read without a lock.                                *)
LockAccount(c) ==
  /\ call[c].at = "lock"
  /\ LET u == Head(call[c].todo)
     IN IF Visible(c, u) /\ u = call[c].target
        THEN lock[u] = Free /\ lock' = [lock EXCEPT ![u] = c]
        ELSE UNCHANGED lock
  /\ call' = [call EXCEPT ![c].todo = Tail(@), ![c].at = IF Tail(call[c].todo) = <<>> THEN "work" ELSE @]
  /\ UNCHANGED Database

(* One SELECT ... FOR UPDATE of _lock_users_in_order or _lock_required_user;*)
(* a row that is not there locks nothing.                                   *)
LockNext(c) ==
  /\ call[c].at = "lock"
  /\ LET u == Head(call[c].todo)
     IN IF Visible(c, u)
        THEN lock[u] = Free /\ lock' = [lock EXCEPT ![u] = c]
        ELSE UNCHANGED lock
  /\ call' = [call EXCEPT ![c].todo = Tail(@), ![c].at = IF Tail(call[c].todo) = <<>> THEN "work" ELSE @]
  /\ UNCHANGED Database

-----------------------------------------------------------------------------
(* The identities the call writes: all it claims to its guest, or its       *)
(* Google identity to an account found by address (attach_google_identity). *)
Writes(c) ==
  IF call[c].target = Nobody THEN Claims[c]
  ELSE {i \in Claims[c] \cap Googles : call[c].attach /\ owner[i] # call[c].target}

Unwritten(c) == \A d \in Calls \ {c} : call[d].at = "commit" => call[d].writes \cap Writes(c) = {}

(* _ensure_identity_is_available and the unique keys                        *)
Duplicate(c) ==
  \/ Holders(Writes(c)) # {}
  \/ call[c].target # Nobody /\ Writes(c) # {} /\ call[c].target \in Holders(Googles)

(* Mutant: the guest as it was before it was locked.                        *)
CouldLink(c) == Visible(c, GuestOf(c)) /\ call[c].was

(* _ensure_guest_can_link                                                   *)
CanLink(c) == Visible(c, GuestOf(c)) /\ IsGuest(GuestOf(c))

(* _upgrade_guest_in_place and _merge_guest_into_existing_full up to their  *)
(* commit                                                                   *)
Work(c) ==
  /\ call[c].at = "work"
  /\ IF ~CanLink(c)
     THEN Fails(c, IF Visible(c, GuestOf(c)) THEN "not a guest" ELSE "no such user")
     ELSE /\ Unwritten(c)
          /\ IF Duplicate(c)
             THEN Fails(c, "duplicate")
             ELSE /\ call' = [call EXCEPT ![c].at = "commit", ![c].writes = Writes(c),
                                          ![c].carry = saves[GuestOf(c)]]
                  /\ UNCHANGED <<Database, lock>>

(* The commit.  Whoever waits for a redemption may have stopped waiting.    *)
Account(c) == IF call[c].target = Nobody THEN GuestOf(c) ELSE call[c].target

Commit(c, answer) ==
  /\ call[c].at = "commit"
  /\ answer = "linked" \/ (answer = "timeout" /\ Kind[c] = "redeem")
  /\ owner' = [i \in Identities |-> IF i \in call[c].writes THEN Account(c) ELSE owner[i]]
  /\ IF call[c].target = Nobody
     THEN /\ alive' = alive \cup {GuestOf(c)}
          /\ UNCHANGED saves
     ELSE /\ alive' = alive \ {GuestOf(c)}
          /\ saves' = [saves EXCEPT ![GuestOf(c)] = {}, ![Account(c)] = @ \cup call[c].carry]
  /\ links' = links \cup {[guest |-> GuestOf(c), account |-> Account(c), by |-> c]}
  /\ code' = IF Kind[c] = "redeem" /\ ~call[c].again
             THEN [code EXCEPT ![CodeOf[c]] = "redeemed"] ELSE code
  /\ lock' = Release(c)
  /\ call' = [call EXCEPT ![c].at = "done", ![c].answer = answer, ![c].mine = FALSE]
  /\ UNCHANGED given

-----------------------------------------------------------------------------
(* Mutant: any link since then.                                             *)
AnyLinkElsewhere(c) == call[c].was /\ \E l \in links : l.by \notin call[c].before

(* _raise_if_account_link_already_completed: a merge log or an upgraded     *)
(* guest with a time not before the call's own.                             *)
LinkedElsewhere(c) ==
  call[c].was /\ \E l \in links : l.guest = GuestOf(c) /\ l.by \notin call[c].before

PostMortem(c) ==
  /\ call[c].at = "post"
  /\ IF LinkedElsewhere(c)
     THEN CallEnds(c, "completed")
     ELSE IF call[c].answer = "duplicate" /\ Kind[c] # "signup"
     THEN /\ call' = [call EXCEPT ![c].at = "again", ![c].again = TRUE]
          /\ UNCHANGED <<Database, lock>>
     ELSE CallEnds(c, call[c].answer)

(* The second try: the identity has an account now.                         *)
Again(c) ==
  /\ call[c].at = "again"
  /\ IF Targets(c) = {} \/ ReuseRefused(c)
     THEN CallEnds(c, "unresolved")
     ELSE \E u \in Targets(c) :
            IF u = GuestOf(c)
            THEN CallEnds(c, "self")
            ELSE Heads(c, u) /\ UNCHANGED <<Database, lock>>

(* asyncio.timeout around a redemption                                      *)
TimesOut(c) ==
  /\ Kind[c] = "redeem" /\ call[c].at \notin {"idle", "done"}
  /\ CallEnds(c, "timeout")

-----------------------------------------------------------------------------
(* issue_telegram_link_code: the guest is locked, ...                       *)
IssueLock(c) ==
  /\ call[c].at = "idle" /\ Kind[c] = "issue"
  /\ IF GuestOf(c) \notin alive
     THEN CallEnds(c, "no such user")
     ELSE /\ lock[GuestOf(c)] = Free
          /\ IF IsGuest(GuestOf(c))
             THEN /\ lock' = [lock EXCEPT ![GuestOf(c)] = c]
                  /\ call' = [call EXCEPT ![c].at = "expire"]
                  /\ UNCHANGED Database
             ELSE CallEnds(c, "not a guest")

(* ... its codes expire, and a new one is committed.                        *)
CodesToExpire(c) == {k \in Codes : GuestOfCode[k] = GuestOf(c) /\ code[k] = "active"}

IssueCommit(c) ==
  /\ call[c].at = "expire"
  /\ \A k \in CodesToExpire(c) : lock[k] = Free
  /\ code' = [k \in Codes |-> IF k \in CodesToExpire(c) THEN "expired"
                              ELSE IF k = CodeOf[c] THEN "active" ELSE code[k]]
  /\ lock' = Release(c)
  /\ call' = [call EXCEPT ![c].at = "done", ![c].answer = "issued"]
  /\ UNCHANGED <<alive, owner, saves, given, links>>

-----------------------------------------------------------------------------
(* Who waits for whom.  The database ends a circle of waiting calls: one of *)
(* them gets an error no handler of the service expects.                    *)
Waits(c, d) ==
  \/ /\ call[c].at = "lock"
     /\ Visible(c, Head(call[c].todo)) /\ lock[Head(call[c].todo)] = d
  \/ /\ call[c].at = "idle" /\ Kind[c] = "redeem" /\ lock[CodeOf[c]] = d
  \/ /\ call[c].at = "idle" /\ Kind[c] = "issue" /\ lock[GuestOf(c)] = d
  \/ /\ call[c].at = "expire" /\ \E k \in CodesToExpire(c) : lock[k] = d
  \/ /\ call[c].at = "work" /\ CanLink(c) /\ c # d
     /\ call[d].at = "commit" /\ call[d].writes \cap Writes(c) # {}

Waiting == {c \in Calls : \E d \in Calls : Waits(c, d)}
Circles ==
  {S \in SUBSET Waiting :
     S # {} /\ \A c \in S : (\E d \in S : Waits(c, d)) /\ (\E d \in S : Waits(d, c))}

DatabaseEnds(c) ==
  /\ \E S \in Circles : c \in S
  /\ CallEnds(c, "error")

-----------------------------------------------------------------------------
Step(c) ==
  \/ LockCode(c) \/ Begin(c) \/ Resolve(c) \/ LockNext(c) \/ Work(c)
  \/ \E answer \in {"linked", "timeout"} : Commit(c, answer)
  \/ PostMortem(c) \/ Again(c)
  \/ IssueLock(c) \/ IssueCommit(c) \/ DatabaseEnds(c)

LinkNext ==
  \/ \E c \in Calls : Step(c) \/ TimesOut(c)
  \/ \E u \in Collectors, i \in Items : Save(u, i)

LinkSpec == LinkInit /\ [][LinkNext]_linkVars

-----------------------------------------------------------------------------
Places == {"idle", "begin", "resolve", "lock", "work", "commit", "post", "again", "expire", "done"}
Answers == {"none", "linked", "completed", "issued", "credentials", "taken", "self", "duplicate",
            "not a guest", "no such user", "unresolved", "used", "timeout", "error"}

(* Type invariant.                                                          *)
LinkTypeOK ==
  /\ alive \subseteq Ids
  /\ owner \in [Identities -> Ids \cup {Nobody}]
  /\ saves \in [Ids -> SUBSET Items]
  /\ given \subseteq Ids \X Items
  /\ links \subseteq [guest : Ids, account : Ids, by : Calls]
  /\ code \in [Codes -> {"none", "active", "expired", "redeemed"}]
  /\ lock \in [Rows -> Calls \cup {Free}]
  /\ \A r \in Rows : lock[r] # Free => call[lock[r]].at \notin {"idle", "post", "again", "done"}
  /\ call \in [Calls -> [at : Places, mine : BOOLEAN, was : BOOLEAN, before : SUBSET Calls,
                         target : Ids \cup {Nobody}, attach : BOOLEAN, todo : Seq(Ids),
                         writes : SUBSET Identities, carry : SUBSET Items,
                         again : BOOLEAN, answer : Answers]]

(* A guest is upgraded or merged once, whichever calls meet at it: two      *)
(* sign-ins of one session, redemptions of one code, a redemption and a     *)
(* sign-in.  What it collected is with it, or with the account it was       *)
(* merged into: nothing saved while a merge runs is deleted with the guest  *)
(* (_merge_guest_into_existing_full copies, then deletes).                  *)
Heir(u) == IF u \in alive THEN u ELSE (CHOOSE l \in links : l.guest = u).account

LinkedWhole ==
  /\ \A l, m \in links : l.guest = m.guest => l = m
  /\ \A g \in given : g[2] \in saves[Heir(g[1])]

(* What a call answers is so: after a link the account has the identity the *)
(* caller proved, and "already completed elsewhere" is said only of a guest *)
(* that was linked.                                                         *)
Proved(c) == IF Kind[c] = "google" THEN Claims[c] \cap Googles ELSE Claims[c]
AnswerIsTrue ==
  \A c \in Calls :
    /\ call[c].answer = "linked" =>
         Account(c) \in alive /\ \A i \in Proved(c) : owner[i] = Account(c)
    /\ call[c].answer = "completed" => \E l \in links : l.guest = GuestOf(c)

(* Both: whichever calls meet at a guest and an identity, what they did is  *)
(* whole and what they say of it is so.                                     *)
LinkedAsTold == LinkedWhole /\ AnswerIsTrue

(* Calls that link never wait for each other in a circle, although they     *)
(* lock two users, a code and unique keys.  Issuing a code locks the guest  *)
(* and then its codes, a redemption a code and then its guest: circles with *)
(* a call that issues a code do happen.                                     *)
NoCircleOfLinks == \A S \in Circles : \E c \in S : Kind[c] = "issue"
=============================================================================
