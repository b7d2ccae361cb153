------------------------- MODULE TelegramProofs --------------------------
(***************************************************************************)
(* Proofs about what reads Telegram: Crawler first, Capture after it.      *)
(*                                                                         *)
(* Crawler, for any posts, page sizes, workers and faults: no post between *)
(* the history cursor and the checkpoint is silently left out.  Readers    *)
(* compare with copies of the channel row that may be stale, so the rows   *)
(* alone do not suffice: Covered says it of every checkpoint and cursor    *)
(* that anybody remembers.  A reader may then make any of them the row's.  *)
(* That the next post it passes is one of these rests on what is on its    *)
(* page: a forward page and what is known before it leave no gap above the *)
(* checkpoint the page starts from (ForwardReaches), a worker's page none  *)
(* below what is known (OlderReaches), and the initial window neither      *)
(* (WindowReaches, NewChannel).  The last section is about Capture.        *)
(***************************************************************************)
EXTENDS Capture, Crawler, TLAPS, FiniteSetTheorems, WellFoundedInduction

(* What a reader has in hand: the rest of its page and the post it is at.   *)
InHand(r) == reader[r].page \cup ({reader[r].at} \ {0})

(* A reader that reads nothing.                                             *)
Blank(r) ==
  /\ reader[r].page = {} /\ reader[r].at = 0 /\ reader[r].seen = {}
  /\ reader[r].cur = 0 /\ reader[r].from = 0 /\ reader[r].window = FALSE /\ reader[r].got = 0

(* How a reader's own fields fit together: pages lie in the channel and are *)
(* counted against their limit, the crawler reads upwards and the workers   *)
(* downwards, and nobody compares with two checkpoints.                     *)
ReaderShape(r) ==
  /\ reader[r].page \subseteq 1 .. published /\ reader[r].at <= published
  /\ reader[r].stage \in {"off", "claimed", "turn"} <=> reader[r].at = 0
  /\ reader[r].stage \in {"off", "claimed"} => Blank(r)
  /\ reader[r].stage = "off" => reader[r] = Off
  /\ reader[r].stage = "claimed" => r \in Workers
  /\ reader[r].window => r = Sweep /\ ~chan.initial
  /\ r = Live => reader[r].got = 0
  /\ r = Sweep => Cardinality(reader[r].page) + reader[r].got <= Limit
  /\ r \in Workers => Cardinality(reader[r].page) + reader[r].got <= reader[r].want
  /\ r \in Workers /\ reader[r].stage # "off" => job.status # "none"
  /\ reader[r].seen = {} \/ \E m \in 0 .. published : reader[r].seen = {m}
  /\ reader[r].from <= published
  /\ r = Sweep /\ reader[r].stage # "off" => reader[r].seen # {}
  /\ r = Sweep => \A x \in reader[r].page : reader[r].at < x
  /\ r \in Workers /\ reader[r].at # 0 => \A x \in reader[r].page : x < reader[r].at

Shapes ==
  /\ CrawlerTypeOK
  /\ \A r \in Readers : ReaderShape(r)
  /\ job.status # "none" => chan.initial /\ chan.cursor # 0
  /\ chan.cursor <= published /\ chan.last <= published

(* The posts the crawler knows something of.                                *)
Known == handled \cup overtaken

(* The checkpoints anybody compares with or starts from, and the cursors    *)
(* history is read from: between any two of them nothing is left out, so it *)
(* does not matter whose stale copy becomes the row's.                      *)
IsTop(t) == t = chan.last \/ \E r \in Readers : t \in reader[r].seen \/ t = reader[r].from
IsBottom(b) == b # 0 /\ (b = chan.cursor \/ \E w \in Workers : b = reader[w].cur)
Covered ==
  \A b \in PostIds, t \in 0 .. MaxPosts, q \in PostIds :
    IsBottom(b) /\ IsTop(t) /\ b <= q /\ q <= t => q \in Known

(* A page of history reaches up to what is known already, a forward page    *)
(* down to the checkpoint it starts from.                                   *)
OlderReaches(w) ==
  \A x \in InHand(w), t \in 0 .. MaxPosts, q \in PostIds :
    IsTop(t) /\ x < q /\ q <= t => q \in Known \cup InHand(w)
ForwardReaches ==
  ~reader[Sweep].window =>
    \A x \in InHand(Sweep), q \in PostIds :
      reader[Sweep].from < q /\ q < x => q \in Known \cup InHand(Sweep)

(* The initial window: a new one, and one that is read again.               *)
WindowReaches ==
  reader[Sweep].window =>
    /\ reader[Sweep].cur = chan.cursor
    /\ chan.cursor # 0 =>
         /\ \A x \in InHand(Sweep) : chan.cursor <= x
         /\ \A x \in InHand(Sweep), q \in PostIds :
              chan.cursor <= q /\ q < x => q \in Known \cup InHand(Sweep)
    /\ chan.cursor = 0 =>
         /\ \A x, y \in InHand(Sweep), q \in PostIds :
              y <= q /\ q < x => q \in Known \cup InHand(Sweep)
         /\ \A x \in InHand(Sweep), q \in 0 .. MaxPosts :
              (\A y \in InHand(Sweep) : q < y) => \A y \in LatestPage : q < y

(* Before the initial window is done.                                       *)
NewChannel ==
  ~chan.initial =>
    /\ chan.cursor # 0 => chan.cursor \in Known /\ \A y \in LatestPage : chan.cursor <= y
    /\ chan.cursor = 0 =>
         \A t \in 0 .. MaxPosts, q \in PostIds :
           IsTop(t) /\ q <= t =>
             \/ q \in Known
             \/ /\ \A y \in LatestPage : q < y
                /\ reader[Sweep].window => \A x \in InHand(Sweep) : q < x

Reaches ==
  /\ Covered /\ (\A w \in Workers : OlderReaches(w)) /\ ForwardReaches
  /\ WindowReaches /\ NewChannel

CrawlerInv == Shapes /\ Reaches

-----------------------------------------------------------------------------
(* Sets of numbers: their least and greatest elements, and pages of them.   *)
LEMMA LeastPost ==
  ASSUME NEW S, S \subseteq Nat, S # {}
  PROVE  \E m \in S : \A k \in S : m <= k
<1> DEFINE R == {ss \in Nat \X Nat : ss[1] < ss[2]}
<1>1. IsWellFoundedOn(R, Nat)
  BY NatLessThanWellFounded DEF OpToRel
<1>2. ASSUME NEW x \in Nat, NEW y \in Nat PROVE <<x, y>> \in R <=> x < y
  OBVIOUS
<1> HIDE DEF R
<1>3. PICK m \in S : \A k \in S : ~ (<<k, m>> \in R)
  BY <1>1, WFMin
<1>4. ASSUME NEW k \in S PROVE m <= k
  <2>1. k \in Nat /\ m \in Nat
    OBVIOUS
  <2>2. ~ (k < m)
    BY <2>1, <1>2, <1>3
  <2>. QED BY <2>1, <2>2
<1>. QED BY <1>4

LEMMA GreatestPost ==
  ASSUME NEW n \in Nat, NEW S, S \subseteq 0 .. n, S # {}
  PROVE  \E m \in S : \A k \in S : k <= m
<1> DEFINE D == {n - x : x \in S}
<1>0. \A x \in S : x \in Nat /\ x <= n
  OBVIOUS
<1>1. D \subseteq Nat /\ D # {}
  <2>1. \A x \in S : n - x \in Nat
    BY <1>0
  <2>. QED BY <2>1
<1>2. PICK d \in D : \A e \in D : d <= e
  <2> HIDE DEF D
  <2>. QED BY <1>1, LeastPost
<1>3. PICK m \in S : d = n - m
  BY <1>2
<1>4. ASSUME NEW k \in S PROVE k <= m
  <2>1. n - k \in D /\ n - m \in D /\ d <= n - k
    BY <1>2
  <2>2. k \in Nat /\ m \in Nat
    BY <1>0
  <2>. QED BY <1>3, <2>1, <2>2
<1>. QED BY <1>4

LEMMA LeastIs ==
  ASSUME NEW S, S \subseteq Nat, S # {}
  PROVE  Least(S) \in S /\ \A k \in S : Least(S) <= k
BY LeastPost DEF Least

LEMMA MostIs ==
  ASSUME NEW n \in Nat, NEW S, S \subseteq 0 .. n, S # {}
  PROVE  Most(S) \in S /\ \A k \in S : k <= Most(S)
BY GreatestPost DEF Most

LEMMA MostOfOne == \A m \in Nat : Most({m}) = m
BY DEF Most

(* How many posts lie before or after one.                                  *)
LEMMA EarlierCount ==
  ASSUME NEW a \in Nat, NEW b \in Nat, NEW p \in a .. b
  PROVE  Cardinality({q \in a .. b : q < p}) = p - a
<1>1. {q \in a .. b : q < p} = a .. (p - 1)
  OBVIOUS
<1>2. a \in Int /\ p - 1 \in Int /\ p \in Int /\ a <= p
  OBVIOUS
<1>3. Cardinality(a .. (p - 1)) = IF a > p - 1 THEN 0 ELSE (p - 1) - a + 1
  BY <1>2, FS_Interval
<1>4. (IF a > p - 1 THEN 0 ELSE (p - 1) - a + 1) = p - a
  BY <1>2
<1>. QED BY <1>1, <1>3, <1>4

LEMMA LaterCount ==
  ASSUME NEW a \in Nat, NEW b \in Nat, NEW p \in a .. b
  PROVE  Cardinality({q \in a .. b : q > p}) = b - p
<1>1. {q \in a .. b : q > p} = (p + 1) .. b
  OBVIOUS
<1>2. b \in Int /\ p + 1 \in Int /\ p \in Int /\ p <= b
  OBVIOUS
<1>3. Cardinality((p + 1) .. b) = IF p + 1 > b THEN 0 ELSE b - (p + 1) + 1
  BY <1>2, FS_Interval
<1>4. (IF p + 1 > b THEN 0 ELSE b - (p + 1) + 1) = b - p
  BY <1>2
<1>. QED BY <1>1, <1>3, <1>4

LEMMA Interval ==
  ASSUME NEW a \in Int, NEW b \in Int, NEW n \in Nat, b - a < n
  PROVE  IsFiniteSet(a .. b) /\ Cardinality(a .. b) <= n
<1>1. IsFiniteSet(a .. b) /\ Cardinality(a .. b) = IF a > b THEN 0 ELSE b - a + 1
  BY FS_Interval
<1>2. CASE a > b
  BY <1>1, <1>2
<1>3. CASE a <= b
  <2>1. Cardinality(a .. b) = b - a + 1
    BY <1>1, <1>3
  <2>. QED BY <1>1, <2>1
<1>. QED BY <1>2, <1>3

(* A page is a part of the posts without gaps, and no longer than asked.    *)
LEMMA EarliestIs ==
  ASSUME NEW a \in Nat, NEW b \in Nat, NEW n \in Nat
  PROVE  /\ Earliest(n, a .. b) \subseteq a .. b
         /\ Cardinality(Earliest(n, a .. b)) <= n
         /\ \A x \in Earliest(n, a .. b), q \in a .. b : q < x => q \in Earliest(n, a .. b)
<1>1. Earliest(n, a .. b) = {p \in a .. b : p - a < n}
  <2>1. \A p \in a .. b : Cardinality({q \in a .. b : q < p}) = p - a
    BY EarlierCount
  <2>. QED BY <2>1 DEF Earliest
<1> DEFINE m == a + n - 1
<1>2. {p \in a .. b : p - a < n} \subseteq a .. m
  OBVIOUS
<1>3. IsFiniteSet(a .. m) /\ Cardinality(a .. m) <= n
  BY Interval
<1>4. Cardinality(Earliest(n, a .. b)) <= Cardinality(a .. m)
  BY <1>1, <1>2, <1>3, FS_Subset
<1>5. Cardinality(Earliest(n, a .. b)) \in Nat /\ Cardinality(a .. m) \in Nat
  BY <1>1, <1>2, <1>3, FS_Subset, FS_CardinalityType
<1>. QED BY <1>1, <1>3, <1>4, <1>5

LEMMA NewestIs ==
  ASSUME NEW a \in Nat, NEW b \in Nat, NEW n \in Nat
  PROVE  /\ Newest(n, a .. b) = {p \in a .. b : b - p < n}
         /\ Cardinality(Newest(n, a .. b)) <= n
<1>1. Newest(n, a .. b) = {p \in a .. b : b - p < n}
  <2>1. \A p \in a .. b : Cardinality({q \in a .. b : q > p}) = b - p
    BY LaterCount
  <2>. QED BY <2>1 DEF Newest
<1> DEFINE m == b - n + 1
<1>2. {p \in a .. b : b - p < n} \subseteq m .. b
  OBVIOUS
<1>3. IsFiniteSet(m .. b) /\ Cardinality(m .. b) <= n
  BY Interval
<1>4. Cardinality(Newest(n, a .. b)) <= Cardinality(m .. b)
  BY <1>1, <1>2, <1>3, FS_Subset
<1>5. Cardinality(Newest(n, a .. b)) \in Nat /\ Cardinality(m .. b) \in Nat
  BY <1>1, <1>2, <1>3, FS_Subset, FS_CardinalityType
<1>. QED BY <1>1, <1>3, <1>4, <1>5

-----------------------------------------------------------------------------
(* The rows and the readers keep their shape.                               *)
USE CrawlerBounds, CrawlerReaders, FateAssumption

PostStatuses == {"none", "observed", "accepted", "unsupported", "failed"}
PostsType == [PostIds -> [status : PostStatuses, tries : 0 .. MaxTries]]
ChanType == [last : 0 .. MaxPosts, cursor : 0 .. MaxPosts, initial : BOOLEAN, exhausted : BOOLEAN]
ProcessType ==
  [pc : {"off", "down", "reconciling", "idle"}, applied : BOOLEAN, retry : BOOLEAN]
JobType ==
  [status : {"none", "failed", "completed", "completed_with_failures"} \cup ActiveJob,
   owner : Workers \cup {NoWorker}, left : Nat, attempts : 0 .. MaxAutomatic,
   open : BOOLEAN, quarantined : BOOLEAN]
FaultsType == [drops : 0 .. MaxDrops, crashes : 0 .. MaxCrashes, stales : 0 .. MaxStales]
JobFits(j) == j \in JobType /\ (j.owner # NoWorker <=> j.status = "running")

LEMMA TypeIs ==
  CrawlerTypeOK <=>
    /\ published \in 0 .. MaxPosts /\ post \in PostsType /\ chan \in ChanType
    /\ ingested \subseteq PostIds /\ handled \subseteq PostIds /\ overtaken \subseteq PostIds
    /\ reader \in [Readers -> ReaderType] /\ process \in ProcessType /\ parked \in BOOLEAN
    /\ JobFits(job) /\ faults \in FaultsType
BY DEF CrawlerTypeOK, PostStatuses, PostsType, ChanType, ProcessType, JobType, FaultsType, JobFits

(* What a step may not undo for the readers it leaves alone.                *)
Onwards ==
  /\ published <= published' /\ published' \in 0 .. MaxPosts
  /\ chan.initial => chan'.initial
  /\ chan'.initial => chan.initial \/ ~reader'[Sweep].window
  /\ job.status # "none" => job'.status # "none"

LEMMA BlankShape ==
  ASSUME Shapes, Onwards, NEW r \in Readers, reader'[r] = Off
  PROVE  ReaderShape(r)'
<1>1. Cardinality({}) = 0
  BY FS_EmptySet
<1>. QED BY <1>1 DEF Off, Onwards, ReaderShape, Blank, Shapes, CrawlerTypeOK

LEMMA KeptShape ==
  ASSUME Shapes, Onwards, NEW r \in Readers, reader'[r] = reader[r]
  PROVE  ReaderShape(r)'
<1>1. ReaderShape(r) /\ published \in Nat /\ published' \in Nat
  BY DEF Shapes, CrawlerTypeOK, Onwards
<1>2. reader[r] \in ReaderType
  BY DEF Shapes, CrawlerTypeOK
<1>3. reader[r].page \subseteq 1 .. published' /\ reader[r].at <= published'
  BY <1>1, <1>2 DEF ReaderShape, ReaderType, Onwards
<1>4. reader[r].seen = {} \/ \E m \in 0 .. published' : reader[r].seen = {m}
  BY <1>1 DEF ReaderShape, Onwards
<1>5. reader[r].from <= published'
  BY <1>1, <1>2 DEF ReaderShape, ReaderType, Onwards
<1>. QED BY <1>1, <1>3, <1>4, <1>5 DEF ReaderShape, Blank, Onwards

(* The lease apart, a reader's shape says nothing of its flags.             *)
LEMMA OffIs ==
  /\ Off \in ReaderType /\ Off.stage = "off" /\ Off.page = {} /\ Off.at = 0 /\ Off.seen = {}
  /\ Off.cur = 0 /\ Off.from = 0 /\ Off.window = FALSE /\ Off.got = 0 /\ Off.want = 0
  /\ Off.mine = FALSE /\ Off.bad = FALSE /\ Off.tries = 0
BY DEF Off, ReaderType

(* How the shape is kept when the channel's row is.                         *)
LEMMA ShapesStep ==
  ASSUME Shapes, CrawlerTypeOK', Onwards, \A r \in Readers : ReaderShape(r)',
         chan'.cursor <= published', chan'.last <= published',
         chan.cursor # 0 => chan'.cursor # 0,
         job'.status # "none" => job.status # "none" \/ (chan.initial /\ chan.cursor # 0)
  PROVE  Shapes'
BY DEF Shapes, Onwards

(* A job whose page has ended is leased to nobody.                          *)
LEMMA JobAfterFits ==
  ASSUME CrawlerTypeOK, NEW w \in Workers, NEW how, NEW e \in BOOLEAN
  PROVE  JobFits(JobAfter(w, how, e)) /\ JobAfter(w, how, e).status # "none"
<1>1. job \in JobType /\ reader[w] \in ReaderType
  BY TypeIs DEF JobFits, Readers
<1>2. ASSUME NEW j \in JobType, NEW m \in BOOLEAN
      PROVE  JobFits(Retried(j, m)) /\ Retried(j, m).status # "none"
  BY DEF Retried, JobFits, JobType, ActiveJob
<1>3. ASSUME NEW j \in JobType
      PROVE  /\ JobFits(Completed(j)) /\ Completed(j).status # "none"
             /\ JobFits(Released(j)) /\ Released(j).status # "none"
  BY DEF Completed, Released, JobFits, JobType, ActiveJob
<1>4. ASSUME NEW h \in BOOLEAN PROVE Accounted(w, h) \in JobType
  <2> DEFINE n == reader[w].got - (IF h THEN 1 ELSE 0)
  <2>1. n \in Int /\ job.left \in Nat
    BY <1>1 DEF ReaderType, JobType
  <2>2. job.left - Smaller(job.left, n) \in Nat
    <3> HIDE DEF n
    <3>. QED BY <2>1 DEF Smaller
  <2>. QED BY <1>1, <2>2 DEF Accounted, JobType, ReaderType
<1>. QED BY <1>1, <1>2, <1>3, <1>4 DEF JobAfter

(* All but the readers is typed.                                            *)
RestFits ==
  /\ published \in 0 .. MaxPosts /\ post \in PostsType /\ chan \in ChanType
  /\ ingested \subseteq PostIds /\ handled \subseteq PostIds /\ overtaken \subseteq PostIds
  /\ process \in ProcessType /\ parked \in BOOLEAN /\ JobFits(job) /\ faults \in FaultsType

LEMMA RestIs == CrawlerTypeOK <=> RestFits /\ reader \in [Readers -> ReaderType]
BY TypeIs DEF RestFits

LEMMA RestThen ==
  ASSUME RestFits', reader' \in [Readers -> ReaderType]
  PROVE  CrawlerTypeOK'
BY DEF RestFits, CrawlerTypeOK, PostStatuses, PostsType, ChanType, ProcessType, JobType, FaultsType,
   JobFits

(* A step in which one reader moves.                                        *)
LEMMA OneReaderStep ==
  ASSUME Shapes, Onwards, RestFits', NEW r \in Readers, NEW x, x \in ReaderType,
         reader' = [reader EXCEPT ![r] = x], ReaderShape(r)',
         chan'.cursor <= published', chan'.last <= published',
         chan.cursor # 0 => chan'.cursor # 0,
         job'.status # "none" => job.status # "none"
  PROVE  Shapes'
<1>1. reader \in [Readers -> ReaderType]
  BY TypeIs DEF Shapes
<1>2. reader' \in [Readers -> ReaderType] /\ \A s \in Readers \ {r} : reader'[s] = reader[s]
  BY <1>1
<1>3. \A s \in Readers : ReaderShape(s)'
  BY <1>2, KeptShape
<1>4. CrawlerTypeOK'
  BY <1>2, RestThen
<1>. QED BY <1>3, <1>4, ShapesStep

LEMMA PublishShapes ==
  ASSUME Shapes, Publish
  PROVE  Shapes'
<1>1. /\ RestFits /\ Live \in Readers /\ reader \in [Readers -> ReaderType]
      /\ reader[Live] \in ReaderType /\ ReaderShape(Live)
  BY RestIs DEF Shapes, Readers
<1>2. /\ published' = published + 1 /\ published' \in 0 .. MaxPosts
      /\ post' = post /\ chan' = chan /\ ingested' = ingested /\ process' = process
      /\ parked' = parked /\ job' = job /\ faults' = faults /\ handled' = handled
      /\ overtaken' = overtaken
  BY <1>1 DEF Publish, RestFits
<1>3. Onwards /\ RestFits'
  BY <1>1, <1>2 DEF Onwards, RestFits, JobFits
<1>4. chan'.cursor <= published' /\ chan'.last <= published'
  BY <1>1, <1>2 DEF Shapes, RestFits, ChanType
<1>5. CASE reader' = reader
  <2>1. \A s \in Readers : ReaderShape(s)'
    BY <1>3, <1>5, KeptShape
  <2>2. CrawlerTypeOK'
    BY <1>1, <1>3, <1>5, RestThen
  <2>. QED BY <1>2, <1>3, <1>4, <2>1, <2>2, ShapesStep
<1>6. CASE /\ reader[Live].stage # "off"
           /\ reader' = [reader EXCEPT ![Live].page = @ \cup {published + 1}]
  <2> DEFINE x == [reader[Live] EXCEPT !.page = @ \cup {published + 1}]
  <2>1. reader' = [reader EXCEPT ![Live] = x]
    BY <1>1, <1>6 DEF ReaderType
  <2>2. /\ x \in ReaderType /\ x.page = reader[Live].page \cup {published + 1}
        /\ x.stage = reader[Live].stage /\ x.window = reader[Live].window /\ x.at = reader[Live].at
        /\ x.seen = reader[Live].seen /\ x.from = reader[Live].from /\ x.got = reader[Live].got
    <3>1. published + 1 \in PostIds
      BY <1>1, <1>2 DEF PostIds, RestFits
    <3>2. reader[Live].page \cup {published + 1} \in SUBSET PostIds
      BY <1>1, <3>1 DEF ReaderType
    <3>. QED BY <1>1, <3>2 DEF ReaderType
  <2>3. Live # Sweep /\ Live \notin Workers
    OBVIOUS
  <2> HIDE DEF x
  <2>4. ReaderShape(Live)'
    <3>1. reader'[Live] = x
      BY <1>1, <2>1
    <3>2. x.page \subseteq 1 .. published' /\ x.at <= published' /\ x.from <= published'
      BY <1>1, <1>2, <2>2 DEF ReaderShape, ReaderType, RestFits
    <3>3. x.seen = {} \/ \E m \in 0 .. published' : x.seen = {m}
      BY <1>1, <1>2, <2>2 DEF ReaderShape, RestFits
    <3>4. x.stage \notin {"off", "claimed"}
      BY <1>1, <1>6, <2>2 DEF ReaderShape
    <3>. QED BY <1>1, <1>2, <2>2, <2>3, <3>1, <3>2, <3>3, <3>4 DEF ReaderShape
  <2>. QED BY <1>2, <1>3, <1>4, <2>1, <2>2, <2>4, OneReaderStep, <1>1
<1>. QED BY <1>5, <1>6 DEF Publish

(* The post a reader takes next.                                            *)
LEMMA NextIs ==
  ASSUME Shapes, NEW r \in Readers, reader[r].page # {}
  PROVE  /\ NextOf(r) \in reader[r].page /\ NextOf(r) \in PostIds /\ NextOf(r) <= published
         /\ r \in Workers => \A k \in reader[r].page \ {NextOf(r)} : k < NextOf(r)
         /\ r \notin Workers => \A k \in reader[r].page \ {NextOf(r)} : NextOf(r) < k
<1>1. /\ reader[r].page \subseteq 1 .. published /\ published \in 0 .. MaxPosts
      /\ reader[r].page \subseteq PostIds
  BY DEF Shapes, ReaderShape, CrawlerTypeOK, ReaderType
<1>2. reader[r].page \subseteq 0 .. MaxPosts /\ reader[r].page \subseteq Nat
  BY <1>1 DEF PostIds
<1>3. /\ Least(reader[r].page) \in reader[r].page
      /\ \A k \in reader[r].page : Least(reader[r].page) <= k
  BY <1>2, LeastIs
<1>4. /\ Most(reader[r].page) \in reader[r].page
      /\ \A k \in reader[r].page : k <= Most(reader[r].page)
  BY <1>2, MostIs
<1>5. \A k \in reader[r].page : k \in Int
  BY <1>2
<1>. QED BY <1>1, <1>3, <1>4, <1>5 DEF NextOf

LEMMA PageIsFinite ==
  ASSUME Shapes, NEW r \in Readers
  PROVE  IsFiniteSet(reader[r].page) /\ Cardinality(reader[r].page) \in Nat
<1>1. reader[r].page \in SUBSET (1 .. published) /\ 1 \in Int /\ published \in Int
  BY DEF Shapes, ReaderShape, CrawlerTypeOK
<1>2. IsFiniteSet(reader[r].page)
  BY <1>1, FS_Interval, FS_Subset
<1>. QED BY <1>2, FS_CardinalityType

LEMMA ObserveShapes ==
  ASSUME Shapes, NEW r \in Readers, Observe(r)
  PROVE  Shapes'
<1> DEFINE p == NextOf(r)
           tries == Smaller(post[p].tries + 1, MaxTries)
           seen == IF reader[r].seen = {} THEN {chan.last} ELSE reader[r].seen
           got == IF r = Live THEN 0 ELSE reader[r].got + 1
           page == reader[r].page \ {p}
           count == IF History(r) THEN tries ELSE 0
           x == [reader[r] EXCEPT !.stage = "observed", !.at = p, !.page = page,
                   !.tries = count, !.seen = seen, !.got = got]
<1>1. /\ RestFits /\ reader \in [Readers -> ReaderType] /\ reader[r] \in ReaderType
      /\ ReaderShape(r) /\ reader[r].stage = "turn" /\ reader[r].page # {}
      /\ chan.last <= published
  BY RestIs DEF Shapes, Observe
<1>2. /\ p \in reader[r].page /\ p \in PostIds /\ p <= published
      /\ r \in Workers => \A k \in reader[r].page \ {p} : k < p
      /\ r \notin Workers => \A k \in reader[r].page \ {p} : p < k
  BY <1>1, NextIs
<1> HIDE DEF p
<1>3. post' = [post EXCEPT ![p] = [status |-> "observed", tries |-> tries]]
  BY DEF Observe, p
<1>4. tries \in 0 .. MaxTries
  <2>1. post[p].tries \in 0 .. MaxTries
    BY <1>1, <1>2 DEF RestFits, PostsType
  <2>. QED BY <2>1 DEF Smaller
<1>5. seen \subseteq 0 .. published /\ \E m \in 0 .. published : seen = {m}
  BY <1>1 DEF ReaderShape, RestFits, ChanType
<1>6. /\ Cardinality(reader[r].page \ {p}) = Cardinality(reader[r].page) - 1
      /\ Cardinality(reader[r].page) \in Nat
  <2>1. IsFiniteSet(reader[r].page) /\ p \in reader[r].page
    BY <1>2, PageIsFinite
  <2>. QED BY <2>1, FS_RemoveElement, FS_CardinalityType
<1>7. got \in 0 .. Limit
  <2>1. r # Live => Cardinality(reader[r].page) + reader[r].got <= Limit
    BY <1>1, <1>6 DEF ReaderShape, ReaderType, Readers
  <2>2. Cardinality(reader[r].page \ {p}) \in Nat
    BY <1>6, PageIsFinite, FS_RemoveElement, FS_CardinalityType
  <2>. QED BY <1>1, <1>6, <2>1, <2>2 DEF ReaderType
<1>8. reader' = [reader EXCEPT ![r] = x]
  BY DEF Observe, p
<1>8a. count \in 0 .. MaxTries /\ page \in SUBSET PostIds
  BY <1>1, <1>4 DEF ReaderType
<1> HIDE DEF tries, seen, got, page, count
<1>9. /\ x \in ReaderType /\ x.stage = "observed" /\ x.at = p /\ x.page = reader[r].page \ {p}
      /\ x.seen = seen /\ x.got = got /\ x.window = reader[r].window /\ x.from = reader[r].from
      /\ x.cur = reader[r].cur /\ x.want = reader[r].want
  <2>1. p \in 0 .. MaxPosts /\ seen \subseteq 0 .. MaxPosts
    BY <1>1, <1>2, <1>5 DEF PostIds, RestFits
  <2>2. x \in ReaderType
    BY <1>1, <1>7, <1>8a, <2>1 DEF ReaderType
  <2>. QED BY <1>1, <2>2 DEF ReaderType, page
<1> HIDE DEF x
<1>10. /\ UNCHANGED <<published, chan, ingested, process, parked, job, faults, handled, overtaken>>
       /\ post' \in PostsType
  <2>1. [status |-> "observed", tries |-> tries] \in [status : PostStatuses, tries : 0 .. MaxTries]
    BY <1>4 DEF PostStatuses
  <2>2. post' \in PostsType
    BY <1>1, <1>3, <2>1 DEF RestFits, PostsType
  <2>. QED BY <2>2 DEF Observe
<1>11. RestFits' /\ Onwards
  BY <1>1, <1>10 DEF RestFits, JobFits, Onwards
<1>12. ReaderShape(r)'
  <2>1. reader'[r] = x
    BY <1>1, <1>8
  <2>2. x.page \subseteq 1 .. published /\ x.at # 0 /\ x.at <= published
    BY <1>1, <1>2, <1>9 DEF ReaderShape, PostIds
  <2>3. r # Live => Cardinality(x.page) + x.got = Cardinality(reader[r].page) + reader[r].got
    BY <1>1, <1>6, <1>9 DEF ReaderType, got
  <2>4. r = Live => x.got = 0
    BY <1>9 DEF got
  <2>5. (r = Sweep => \A k \in x.page : x.at < k) /\ (r \in Workers => \A k \in x.page : k < x.at)
    BY <1>2, <1>9
  <2>. QED BY <1>1, <1>5, <1>9, <1>10, <2>1, <2>2, <2>3, <2>4, <2>5 DEF ReaderShape, Readers
<1>. QED BY <1>1, <1>8, <1>9, <1>10, <1>11, <1>12, OneReaderStep DEF Shapes

LEMMA ShapesGive ==
  ASSUME Shapes
  PROVE  /\ RestFits /\ reader \in [Readers -> ReaderType]
         /\ chan.last \in 0 .. published /\ chan.cursor \in 0 .. published
         /\ chan.last \in 0 .. MaxPosts /\ chan.cursor \in 0 .. MaxPosts
<1>1. RestFits /\ reader \in [Readers -> ReaderType]
  BY RestIs DEF Shapes
<1>2. chan.last \in 0 .. MaxPosts /\ chan.cursor \in 0 .. MaxPosts
  BY <1>1 DEF RestFits, ChanType
<1>. QED BY <1>1, <1>2 DEF Shapes, RestFits

LEMMA ReaderGives ==
  ASSUME Shapes, NEW r \in Readers
  PROVE  /\ reader[r] \in ReaderType /\ ReaderShape(r)
         /\ reader[r].stage \notin {"off", "claimed", "turn"} => reader[r].at # 0
         /\ reader[r].at # 0 => reader[r].at \in PostIds /\ reader[r].at \in 1 .. published
<1>1. /\ reader[r] \in ReaderType /\ ReaderShape(r) /\ published \in 0 .. MaxPosts
  BY ShapesGive DEF Shapes, RestFits
<1>2. reader[r].at \in 0 .. MaxPosts /\ reader[r].at <= published
  BY <1>1 DEF ReaderType, ReaderShape
<1>3. reader[r].stage \notin {"off", "claimed", "turn"} => reader[r].at # 0
  BY <1>1 DEF ReaderShape
<1>. QED BY <1>1, <1>2, <1>3 DEF PostIds

(* A reader that goes on with its page.                                     *)
GoesOn(r, x) ==
  /\ reader[r].stage \notin {"off", "claimed"}
  /\ x.page = reader[r].page /\ x.at \in {0, reader[r].at}
  /\ x.stage \notin {"off", "claimed"} /\ (x.stage = "turn" <=> x.at = 0)
  /\ x.from = reader[r].from /\ x.window = reader[r].window
  /\ x.got = reader[r].got /\ x.want = reader[r].want
  /\ x.seen = reader[r].seen \/ \E m \in 0 .. published : x.seen = {m}

LEMMA GoesOnShape ==
  ASSUME Shapes, Onwards, published' = published, NEW r \in Readers, NEW x, x \in ReaderType,
         GoesOn(r, x), reader'[r] = x
  PROVE  ReaderShape(r)'
<1>1. ReaderShape(r) /\ published \in Nat /\ reader[r] \in ReaderType
  BY DEF Shapes, CrawlerTypeOK
<1>2. x.page \subseteq 1 .. published /\ x.at <= published /\ \A k \in x.page : 0 < k
  BY <1>1 DEF GoesOn, ReaderShape, ReaderType
<1>3. x.seen = {} \/ \E m \in 0 .. published : x.seen = {m}
  BY <1>1 DEF GoesOn, ReaderShape
<1>4. r = Sweep => \A k \in x.page : x.at < k
  BY <1>1, <1>2 DEF GoesOn, ReaderShape
<1>5. r \in Workers /\ x.at # 0 => \A k \in x.page : k < x.at
  BY <1>1 DEF GoesOn, ReaderShape
<1>6. x.stage \in {"off", "claimed", "turn"} <=> x.at = 0
  BY DEF GoesOn
<1>. QED BY <1>1, <1>2, <1>3, <1>4, <1>5, <1>6 DEF GoesOn, ReaderShape, Onwards

LEMMA ResolveShapes ==
  ASSUME Shapes, NEW r \in Readers, Resolve(r)
  PROVE  Shapes'
<1> DEFINE stage == IF reader[r].at \in ingested THEN "accepted" ELSE "downloading"
           x == [reader[r] EXCEPT !.stage = stage]
<1>1. /\ RestFits /\ reader \in [Readers -> ReaderType] /\ reader[r] \in ReaderType
      /\ ReaderShape(r) /\ reader[r].stage = "observed"
  BY RestIs DEF Shapes, Resolve
<1>2. reader' = [reader EXCEPT ![r] = x]
  BY <1>1 DEF Resolve, ReaderType
<1>3. x \in ReaderType /\ x.stage = stage
  BY <1>1 DEF ReaderType
<1>4. GoesOn(r, x)
  BY <1>1, <1>3 DEF GoesOn, ReaderType, ReaderShape
<1>5. UNCHANGED <<published, post, chan, ingested, process, parked, job, faults, handled, overtaken>>
  BY DEF Resolve, tables
<1> HIDE DEF x
<1>6. RestFits' /\ Onwards
  BY <1>1, <1>5 DEF RestFits, JobFits, Onwards
<1>7. ReaderShape(r)'
  BY <1>1, <1>2, <1>3, <1>4, <1>5, <1>6, GoesOnShape
<1>. QED BY <1>1, <1>2, <1>3, <1>5, <1>6, <1>7, OneReaderStep DEF Shapes

LEMMA AcceptShapes ==
  ASSUME Shapes, NEW r \in Readers, Accept(r)
  PROVE  Shapes'
<1>1. /\ RestFits /\ reader \in [Readers -> ReaderType] /\ reader[r] \in ReaderType
      /\ ReaderShape(r) /\ reader[r].stage = "downloading" /\ reader[r].at \in PostIds
      /\ chan.last <= published /\ chan.last \in 0 .. published /\ chan.cursor \in 0 .. MaxPosts
  BY ShapesGive, ReaderGives DEF Accept, Shapes
<1>2. PICK reread \in BOOLEAN :
        reader' = [reader EXCEPT ![r] =
          [@ EXCEPT !.stage = "accepted",
                    !.seen = IF reread THEN {chan.last} ELSE reader[r].seen,
                    !.cur = IF reread THEN chan.cursor ELSE reader[r].cur]]
  BY DEF Accept
<1> DEFINE seen == IF reread THEN {chan.last} ELSE reader[r].seen
           cur == IF reread THEN chan.cursor ELSE reader[r].cur
           x == [reader[r] EXCEPT !.stage = "accepted", !.seen = seen, !.cur = cur]
<1>3. reader' = [reader EXCEPT ![r] = x]
  BY <1>2
<1>4. /\ seen \in SUBSET (0 .. MaxPosts) /\ cur \in 0 .. MaxPosts
      /\ seen = reader[r].seen \/ \E m \in 0 .. published : seen = {m}
  BY <1>1 DEF ReaderType, RestFits
<1> HIDE DEF seen, cur
<1>5. x \in ReaderType /\ x.stage = "accepted" /\ x.seen = seen
  BY <1>1, <1>4 DEF ReaderType
<1>6. GoesOn(r, x)
  BY <1>1, <1>4, <1>5 DEF GoesOn, ReaderType, ReaderShape
<1>7. /\ UNCHANGED <<published, post, chan, process, parked, job, faults, overtaken>>
      /\ ingested' \subseteq PostIds /\ handled' \subseteq PostIds
  BY <1>1 DEF Accept, RestFits
<1> HIDE DEF x
<1>8. RestFits' /\ Onwards
  BY <1>1, <1>7 DEF RestFits, JobFits, Onwards
<1>9. ReaderShape(r)'
  BY <1>1, <1>3, <1>5, <1>6, <1>7, <1>8, GoesOnShape
<1>. QED BY <1>1, <1>3, <1>5, <1>7, <1>8, <1>9, OneReaderStep DEF Shapes

(* What passing a post does to the rows and to the reader.                  *)
Moves(r, ahead) == ahead /\ \A m \in reader[r].seen : reader[r].at > m
Deeper(r, older) == older /\ (reader[r].cur = 0 \/ reader[r].at < reader[r].cur)

PassesTo(r, x, stage, ahead, older) ==
  /\ reader' = [reader EXCEPT ![r] = x] /\ GoesOn(r, x) /\ x.stage = stage
  /\ x.at = IF stage = "turn" THEN 0 ELSE reader[r].at
  /\ x.seen = IF Moves(r, ahead) THEN {reader[r].at} ELSE reader[r].seen
  /\ x.cur = IF Deeper(r, older) THEN reader[r].at ELSE reader[r].cur
  /\ chan' \in ChanType /\ chan'.initial = chan.initial
  /\ chan'.last = IF Moves(r, ahead) THEN reader[r].at ELSE chan.last
  /\ chan'.cursor = IF Deeper(r, older) THEN reader[r].at ELSE chan.cursor
  /\ handled' = handled \cup {reader[r].at} /\ reader[r].at \in PostIds
  /\ overtaken' = IF Moves(r, ahead) /\ r = Live
                  THEN overtaken \cup (1 .. (reader[r].at - 1) \ handled) ELSE overtaken

LEMMA PassIs ==
  ASSUME Shapes, NEW r \in Readers, NEW stage \in {"turn", "advanced"}, NEW ahead \in BOOLEAN,
         NEW older \in BOOLEAN, NEW bad \in BOOLEAN, Pass(r, stage, ahead, older, bad),
         reader[r].at # 0
  PROVE  \E x \in ReaderType : PassesTo(r, x, stage, ahead, older)
<1> DEFINE p == reader[r].at
           moves == Moves(r, ahead)
           deeper == Deeper(r, older)
           at == IF stage = "turn" THEN 0 ELSE p
           tries == IF stage = "turn" THEN 0 ELSE reader[r].tries
           seen == IF moves THEN {p} ELSE reader[r].seen
           cur == IF deeper THEN p ELSE reader[r].cur
           worse == reader[r].bad \/ (bad /\ r # Live)
           x == [reader[r] EXCEPT !.stage = stage, !.at = at, !.tries = tries,
                   !.seen = seen, !.cur = cur, !.bad = worse]
<1>1. /\ RestFits /\ reader \in [Readers -> ReaderType] /\ reader[r] \in ReaderType
      /\ ReaderShape(r) /\ p \in PostIds /\ p \in 1 .. published
  BY ShapesGive, ReaderGives
<1>2. moves \in BOOLEAN /\ deeper \in BOOLEAN
  BY DEF Moves, Deeper
<1>3. /\ reader' = [reader EXCEPT ![r] = x]
      /\ chan' = [chan EXCEPT !.last = IF moves THEN p ELSE @, !.cursor = IF deeper THEN p ELSE @]
      /\ handled' = handled \cup {p}
      /\ overtaken' = IF moves /\ r = Live THEN overtaken \cup (1 .. (p - 1) \ handled) ELSE overtaken
  BY DEF Pass, Moves, Deeper
<1>4. /\ at \in 0 .. MaxPosts /\ tries \in 0 .. MaxTries /\ seen \in SUBSET (0 .. MaxPosts)
      /\ cur \in 0 .. MaxPosts /\ worse \in BOOLEAN
  <2>1. p \in 0 .. MaxPosts
    BY <1>1 DEF PostIds
  <2>. QED BY <1>1, <2>1 DEF ReaderType
<1>5. /\ at \in {0, p} /\ (stage = "turn" <=> at = 0)
      /\ seen = reader[r].seen \/ \E m \in 0 .. published : seen = {m}
  BY <1>1 DEF PostIds
<1>6. /\ chan' \in ChanType /\ chan'.initial = chan.initial
      /\ chan'.last = IF moves THEN p ELSE chan.last
      /\ chan'.cursor = IF deeper THEN p ELSE chan.cursor
  <2> HIDE DEF moves, deeper
  <2>1. p \in 0 .. MaxPosts
    BY <1>1 DEF PostIds
  <2>. QED BY <1>1, <1>2, <1>3, <2>1 DEF ChanType, RestFits
<1>7. /\ x \in ReaderType /\ x.stage = stage /\ x.at = at /\ x.seen = seen /\ x.cur = cur
      /\ x.page = reader[r].page /\ x.from = reader[r].from /\ x.window = reader[r].window
      /\ x.got = reader[r].got /\ x.want = reader[r].want
  <2> HIDE DEF at, tries, seen, cur, worse
  <2>. QED BY <1>1, <1>4 DEF ReaderType
<1>8. reader[r].stage \notin {"off", "claimed"}
  BY <1>1 DEF ReaderShape
<1>9. GoesOn(r, x)
  <2> HIDE DEF x, at, seen, cur
  <2>. QED BY <1>5, <1>7, <1>8 DEF GoesOn
<1> HIDE DEF x
<1>. QED BY <1>1, <1>3, <1>6, <1>7, <1>9 DEF PassesTo

LEMMA PassShapes ==
  ASSUME Shapes, NEW r \in Readers, NEW stage \in {"turn", "advanced"}, NEW ahead \in BOOLEAN,
         NEW older \in BOOLEAN, NEW bad \in BOOLEAN, Pass(r, stage, ahead, older, bad),
         reader[r].at # 0, post' \in PostsType,
         UNCHANGED <<published, ingested, process, parked, job, faults>>
  PROVE  Shapes'
<1>1. RestFits /\ reader \in [Readers -> ReaderType] /\ reader[r] \in ReaderType
  BY ShapesGive, ReaderGives
<1>2. PICK x \in ReaderType : PassesTo(r, x, stage, ahead, older)
  BY PassIs
<1>3. handled' \subseteq PostIds /\ overtaken' \subseteq PostIds
  <2>1. 1 .. (reader[r].at - 1) \subseteq PostIds
    BY <1>2 DEF PostIds, PassesTo
  <2>. QED BY <1>1, <1>2, <2>1 DEF RestFits, PassesTo
<1>4. RestFits' /\ Onwards /\ published' = published
  BY <1>1, <1>2, <1>3 DEF RestFits, JobFits, Onwards, PassesTo
<1>5. reader'[r] = x /\ GoesOn(r, x) /\ reader' = [reader EXCEPT ![r] = x]
  BY <1>1, <1>2 DEF PassesTo
<1>6. ReaderShape(r)'
  BY <1>2, <1>4, <1>5, GoesOnShape
<1>7. chan'.cursor <= published' /\ chan'.last <= published'
  BY <1>1, <1>2, <1>4, ReaderGives DEF Shapes, ReaderShape, PassesTo
<1>8. chan.cursor # 0 => chan'.cursor # 0
  BY <1>2 DEF PassesTo
<1>. QED BY <1>2, <1>4, <1>5, <1>6, <1>7, <1>8, OneReaderStep

LEMMA StatusFits ==
  ASSUME Shapes, NEW r \in Readers, reader[r].at # 0, NEW s \in PostStatuses, SetStatus(r, s)
  PROVE  post' \in PostsType
<1>1. post \in PostsType /\ reader[r].at \in PostIds
  BY ShapesGive, ReaderGives DEF RestFits
<1>. QED BY <1>1 DEF SetStatus, PostsType

(* A step in which readers stop.                                            *)
LEMMA StoppedShapes ==
  ASSUME Shapes, Onwards, RestFits', reader' \in [Readers -> ReaderType],
         \A s \in Readers : reader'[s] \in {reader[s], Off},
         chan'.cursor = chan.cursor, chan'.last = chan.last, published' = published,
         job'.status # "none" => job.status # "none"
  PROVE  Shapes'
<1>1. \A s \in Readers : ReaderShape(s)'
  BY KeptShape, BlankShape
<1>2. CrawlerTypeOK'
  BY RestThen
<1>3. chan'.cursor <= published' /\ chan'.last <= published'
  BY DEF Shapes
<1>. QED BY <1>1, <1>2, <1>3, ShapesStep

LEMMA StopShapes ==
  ASSUME Shapes, NEW r \in Readers, NEW how, Stop(r, how), reader[r].stage # "off",
         post' \in PostsType, handled' \subseteq PostIds, faults' \in FaultsType,
         UNCHANGED <<published, chan, ingested, overtaken>>
  PROVE  Shapes'
<1>1. RestFits /\ reader \in [Readers -> ReaderType] /\ ReaderShape(r)
  BY ShapesGive, ReaderGives
<1>2. /\ reader' \in [Readers -> ReaderType]
      /\ \A s \in Readers : reader'[s] \in {reader[s], Off}
  BY <1>1, OffIs DEF Stop
<1>3. parked' \in BOOLEAN /\ process' \in ProcessType
  BY <1>1 DEF Stop, RestFits, ProcessType
<1>4. /\ JobFits(job)' /\ (job.status # "none" => job'.status # "none")
      /\ (job'.status # "none" => job.status # "none")
  <2>1. CASE r \in Workers
    <3>1. job' = JobAfter(r, how, FALSE) /\ job.status # "none"
      BY <1>1, <2>1 DEF Stop, ReaderShape
    <3>2. JobFits(JobAfter(r, how, FALSE)) /\ JobAfter(r, how, FALSE).status # "none"
      BY <2>1, JobAfterFits DEF Shapes
    <3>. QED BY <3>1, <3>2 DEF JobFits
  <2>2. CASE r \notin Workers
    BY <1>1, <2>2 DEF Stop, RestFits, JobFits
  <2>. QED BY <2>1, <2>2
<1>5. RestFits' /\ Onwards
  BY <1>1, <1>3, <1>4 DEF RestFits, Onwards
<1>. QED BY <1>2, <1>4, <1>5, StoppedShapes

LEMMA FaultFits ==
  ASSUME Shapes, NEW kind, NEW bound, Fault(kind, bound),
         <<kind, bound>> \in {<<"drops", MaxDrops>>, <<"crashes", MaxCrashes>>, <<"stales", MaxStales>>}
  PROVE  faults' \in FaultsType
<1>1. faults \in FaultsType
  BY ShapesGive DEF RestFits
<1>2. CASE kind = "drops" /\ bound = MaxDrops
  BY <1>1, <1>2 DEF Fault, FaultsType
<1>3. CASE kind = "crashes" /\ bound = MaxCrashes
  BY <1>1, <1>3 DEF Fault, FaultsType
<1>4. CASE kind = "stales" /\ bound = MaxStales
  BY <1>1, <1>4 DEF Fault, FaultsType
<1>. QED BY <1>2, <1>3, <1>4

(* What happens to one post.                                                *)
LEMMA HandlePostShapes ==
  ASSUME Shapes, NEW r \in Readers, HandlePost(r)
  PROVE  Shapes'
<1>1. RestFits /\ reader \in [Readers -> ReaderType] /\ ReaderShape(r)
  BY ShapesGive, ReaderGives
<1>2. Forward(r) \in BOOLEAN /\ History(r) \in BOOLEAN /\ (r \in Workers) \in BOOLEAN
  BY <1>1 DEF Forward, History, ReaderType
<1>3. CASE Observe(r)
  BY <1>3, ObserveShapes
<1>4. CASE Refuse(r)
  <2>1. reader[r].at # 0
    BY <1>4, ReaderGives DEF Refuse
  <2>2. post' \in PostsType
    BY <1>4, <2>1, StatusFits DEF Refuse, PostStatuses
  <2>3. /\ Pass(r, "turn", Forward(r), History(r), FALSE)
        /\ UNCHANGED <<published, ingested, process, parked, job, faults>>
    BY <1>4 DEF Refuse
  <2>. QED BY <1>2, <2>1, <2>2, <2>3, PassShapes
<1>5. CASE Resolve(r)
  BY <1>5, ResolveShapes
<1>6. CASE Malformed(r)
  <2>1. reader[r].at # 0
    BY <1>6, ReaderGives DEF Malformed
  <2>2. post' \in PostsType
    BY <1>6, <2>1, StatusFits DEF Malformed, PostStatuses
  <2>3. /\ Pass(r, "turn", Forward(r), History(r), r \in Workers)
        /\ UNCHANGED <<published, ingested, process, parked, job, faults>>
    BY <1>6 DEF Malformed
  <2>. QED BY <1>2, <2>1, <2>2, <2>3, PassShapes
<1>7. CASE Unavailable(r)
  <2>1. reader[r].at # 0 /\ reader[r].at \in PostIds /\ reader[r].stage # "off"
    BY <1>7, ReaderGives DEF Unavailable
  <2>2. post' \in PostsType
    BY <1>7, <2>1, StatusFits DEF Unavailable, PostStatuses
  <2>3. CASE /\ Stop(r, "halted") /\ handled' = handled \cup {reader[r].at}
             /\ UNCHANGED <<chan, overtaken>>
    <3>1. handled' \subseteq PostIds /\ faults' \in FaultsType
          /\ UNCHANGED <<published, chan, ingested, overtaken>>
      BY <1>1, <1>7, <2>1, <2>3 DEF Unavailable, RestFits
    <3>. QED BY <2>1, <2>2, <2>3, <3>1, StopShapes
  <2>4. CASE /\ Pass(r, "turn", History(r) /\ Forward(r), History(r), TRUE)
             /\ UNCHANGED <<process, parked, job>>
    <3>1. UNCHANGED <<published, ingested, process, parked, job, faults>>
      BY <1>7, <2>4 DEF Unavailable
    <3>2. (History(r) /\ Forward(r)) \in BOOLEAN
      OBVIOUS
    <3>. QED BY <1>2, <2>1, <2>2, <2>4, <3>1, <3>2, PassShapes
  <2>. QED BY <1>7, <2>3, <2>4 DEF Unavailable
<1>8. CASE Flood(r)
  <2>1. reader[r].at # 0 /\ reader[r].at \in PostIds /\ reader[r].stage # "off"
    BY <1>8, ReaderGives DEF Flood
  <2>2. post' \in PostsType
    BY <1>8, <2>1, StatusFits DEF Flood, PostStatuses
  <2>3. /\ handled' \subseteq PostIds /\ faults' \in FaultsType
        /\ Stop(r, "flood") /\ UNCHANGED <<published, chan, ingested, overtaken>>
    BY <1>1, <1>8, <2>1 DEF Flood, RestFits
  <2>. QED BY <2>1, <2>2, <2>3, StopShapes
<1>9. CASE Raise(r)
  <2>1. /\ handled' \subseteq PostIds /\ faults' \in FaultsType /\ post' \in PostsType
        /\ Stop(r, "raised") /\ UNCHANGED <<published, chan, ingested, overtaken>>
        /\ reader[r].stage # "off"
    BY <1>1, <1>9 DEF Raise, RestFits, tables
  <2>. QED BY <2>1, StopShapes
<1>10. CASE Accept(r)
  BY <1>10, AcceptShapes
<1>11. CASE Advance(r)
  <2>1. reader[r].at # 0
    BY <1>11, ReaderGives DEF Advance
  <2>2. /\ post' \in PostsType /\ Pass(r, "advanced", TRUE, FALSE, FALSE)
        /\ UNCHANGED <<published, ingested, process, parked, job, faults>>
    BY <1>1, <1>11 DEF Advance, RestFits
  <2>. QED BY <2>1, <2>2, PassShapes
<1>12. CASE RecordAccepted(r)
  <2>1. reader[r].at # 0
    BY <1>12, ReaderGives DEF RecordAccepted
  <2>2. post' \in PostsType
    BY <1>12, <2>1, StatusFits DEF RecordAccepted, PostStatuses
  <2>3. /\ Pass(r, "turn", FALSE, History(r), FALSE)
        /\ UNCHANGED <<published, ingested, process, parked, job, faults>>
    BY <1>12 DEF RecordAccepted
  <2>. QED BY <1>2, <2>1, <2>2, <2>3, PassShapes
<1>. QED BY <1>3, <1>4, <1>5, <1>6, <1>7, <1>8, <1>9, <1>10, <1>11, <1>12 DEF HandlePost

(* The listener is off, kept or new.                                        *)
LEMMA ListeningShape ==
  ASSUME Shapes, Onwards, reader'[Live] = Listening
  PROVE  ReaderShape(Live)' /\ Listening \in ReaderType
<1>1. /\ Listening \in ReaderType /\ Listening.stage = "turn" /\ Listening.page = {}
      /\ Listening.at = 0 /\ Listening.seen = {} /\ Listening.from = 0
      /\ Listening.window = FALSE /\ Listening.got = 0
  BY OffIs DEF Listening, ReaderType
<1>2. Live # Sweep /\ Live \notin Workers /\ published' \in Nat
  BY DEF Onwards
<1>. QED BY <1>1, <1>2 DEF ReaderShape

LEMMA ListenerShapes ==
  ASSUME Shapes, Onwards, RestFits', NEW x \in {Off, reader[Live], Listening},
         reader' = [reader EXCEPT ![Live] = x], UNCHANGED <<published, chan, job>>
  PROVE  Shapes'
<1>1. reader \in [Readers -> ReaderType] /\ Live \in Readers
  BY ShapesGive DEF Readers
<1>2. reader'[Live] = x
  BY <1>1
<1>3. ReaderShape(Live)' /\ x \in ReaderType
  BY <1>1, <1>2, BlankShape, KeptShape, ListeningShape, OffIs
<1>. QED BY <1>1, <1>3, OneReaderStep DEF Shapes

LEMMA StartedIs == \A reloads, ok \in BOOLEAN : Started(reloads, ok) \in {Off, reader[Live], Listening}
BY DEF Started

LEMMA ReconcilesShapes ==
  ASSUME Shapes, NEW reloads \in BOOLEAN, NEW ok \in BOOLEAN, Reconciles(reloads, ok)
  PROVE  Shapes'
<1>1. RestFits
  BY ShapesGive
<1>2. faults' \in FaultsType
  <2>1. CASE ok
    BY <1>1, <2>1 DEF Reconciles, RestFits
  <2>2. CASE ~ok
    <3>1. Fault("drops", MaxDrops)
      BY <2>2 DEF Reconciles
    <3>. QED BY <3>1, FaultFits
  <2>. QED BY <2>1, <2>2
<1>3. process' \in ProcessType
  <2>1. parked \in BOOLEAN
    BY <1>1 DEF RestFits
  <2>. QED BY <2>1 DEF Reconciles, ProcessType
<1>4. UNCHANGED <<published, post, chan, ingested, parked, job, handled, overtaken>>
  BY DEF Reconciles, tables
<1>5. RestFits' /\ Onwards
  BY <1>1, <1>2, <1>3, <1>4 DEF RestFits, JobFits, Onwards
<1>6. PICK x \in {Off, reader[Live], Listening} : reader' = [reader EXCEPT ![Live] = x]
  BY StartedIs DEF Reconciles
<1>. QED BY <1>4, <1>5, <1>6, ListenerShapes

LEMMA SuperviseShapes ==
  ASSUME Shapes, Supervise
  PROVE  Shapes'
<1>1. RestFits
  BY ShapesGive
<1>2. UNCHANGED <<published, post, chan, ingested, process, parked, job, faults, handled, overtaken>>
  BY DEF Supervise, tables
<1>3. RestFits' /\ Onwards
  BY <1>1, <1>2 DEF RestFits, JobFits, Onwards
<1>4. PICK x \in {Off, reader[Live], Listening} : reader' = [reader EXCEPT ![Live] = x]
  BY StartedIs DEF Supervise
<1>. QED BY <1>2, <1>3, <1>4, ListenerShapes

(* A sweep that starts on a page.                                           *)
StartsOn(x) ==
  /\ x \in ReaderType /\ x.stage = "turn" /\ x.at = 0 /\ x.got = 0
  /\ x.page \subseteq 1 .. published /\ Cardinality(x.page) <= Limit
  /\ \E m \in 0 .. published : x.seen = {m}
  /\ x.from <= published

LEMMA StartsOnShape ==
  ASSUME Shapes, Onwards, published' = published, NEW x, StartsOn(x), reader'[Sweep] = x,
         x.window => ~chan'.initial
  PROVE  ReaderShape(Sweep)'
<1>1. published \in Nat /\ Sweep # Live /\ Sweep \notin Workers
  BY ShapesGive DEF RestFits
<1>2. \A k \in x.page : 0 < k
  BY <1>1 DEF StartsOn
<1>3. Cardinality(x.page) + x.got <= Limit
  <2>0. x.page \in SUBSET (1 .. published) /\ 1 \in Int /\ published \in Int
    BY <1>1 DEF StartsOn
  <2>1. IsFiniteSet(x.page)
    BY <2>0, FS_Interval, FS_Subset
  <2>2. Cardinality(x.page) \in Nat
    BY <2>1, FS_CardinalityType
  <2>. QED BY <2>2 DEF StartsOn
<1>. QED BY <1>1, <1>2, <1>3 DEF StartsOn, ReaderShape

LEMMA ForwardPageIs ==
  ASSUME Shapes, NEW last \in 0 .. published
  PROVE  /\ ForwardPage(last) \subseteq (last + 1) .. published
         /\ ForwardPage(last) \subseteq 1 .. published
         /\ Cardinality(ForwardPage(last)) <= Limit
         /\ \A x \in ForwardPage(last), q \in (last + 1) .. published :
              q < x => q \in ForwardPage(last)
<1>1. last + 1 \in Nat /\ published \in Nat /\ last \in Nat
  BY ShapesGive DEF RestFits
<1>2. /\ Earliest(Limit, (last + 1) .. published) \subseteq (last + 1) .. published
      /\ Cardinality(Earliest(Limit, (last + 1) .. published)) <= Limit
      /\ \A x \in Earliest(Limit, (last + 1) .. published), q \in (last + 1) .. published :
           q < x => q \in Earliest(Limit, (last + 1) .. published)
  BY <1>1, EarliestIs
<1>3. (last + 1) .. published \subseteq 1 .. published
  BY <1>1
<1>. QED BY <1>2, <1>3 DEF ForwardPage

SweepFrom(last, bad) == [ForwardSweep(last) EXCEPT !.bad = bad]

LEMMA ForwardSweepStarts ==
  ASSUME Shapes, NEW last \in 0 .. published, NEW b \in BOOLEAN
  PROVE  /\ StartsOn(SweepFrom(last, b)) /\ SweepFrom(last, b).page = ForwardPage(last)
         /\ SweepFrom(last, b).seen = {last} /\ SweepFrom(last, b).from = last
         /\ SweepFrom(last, b).window = FALSE /\ SweepFrom(last, b).cur = 0
<1> DEFINE x == SweepFrom(last, b)
<1>1. published \in 0 .. MaxPosts
  BY ShapesGive DEF RestFits
<1>2. /\ ForwardPage(last) \subseteq 1 .. published /\ Cardinality(ForwardPage(last)) <= Limit
  BY ForwardPageIs
<1>3. last \in 0 .. MaxPosts /\ ForwardPage(last) \in SUBSET PostIds /\ {last} \in SUBSET (0 .. MaxPosts)
  BY <1>1, <1>2 DEF PostIds
<1> DEFINE page == ForwardPage(last)
<1>4. page \in SUBSET PostIds
  BY <1>3
<1>5. x = [Off EXCEPT !.stage = "turn", !.page = page, !.seen = {last}, !.from = last, !.bad = b]
  BY DEF SweepFrom, ForwardSweep, Off
<1> HIDE DEF page, x
<1>6. /\ x \in ReaderType /\ x.stage = "turn" /\ x.at = 0 /\ x.got = 0 /\ x.page = page
      /\ x.seen = {last} /\ x.from = last /\ x.window = FALSE /\ x.cur = 0
  BY <1>3, <1>4, <1>5, OffIs DEF ReaderType
<1>. QED BY <1>2, <1>6, <1>1 DEF StartsOn, page, x

LEMMA LatestPageIs ==
  ASSUME Shapes
  PROVE  /\ LatestPage = {p \in 1 .. published : published - p < Limit}
         /\ Cardinality(LatestPage) <= Limit
<1>1. published \in Nat
  BY ShapesGive DEF RestFits
<1>. QED BY <1>1, NewestIs DEF LatestPage

LEMMA WindowSweepStarts ==
  ASSUME Shapes
  PROVE  /\ StartsOn(WindowSweep) /\ WindowSweep.page = LatestPage /\ WindowSweep.seen = {chan.last}
         /\ WindowSweep.from = 0 /\ WindowSweep.window = TRUE /\ WindowSweep.cur = chan.cursor
<1>1. published \in 0 .. MaxPosts /\ chan.last \in 0 .. published /\ chan.cursor \in 0 .. MaxPosts
      /\ chan.last \in 0 .. MaxPosts
  BY ShapesGive DEF RestFits
<1>2. LatestPage \subseteq 1 .. published /\ Cardinality(LatestPage) <= Limit
  BY LatestPageIs
<1> DEFINE page == LatestPage
<1>3. page \in SUBSET PostIds /\ {chan.last} \in SUBSET (0 .. MaxPosts)
  BY <1>1, <1>2 DEF PostIds
<1>4. WindowSweep = [Off EXCEPT !.stage = "turn", !.page = page, !.seen = {chan.last},
                       !.window = TRUE, !.cur = chan.cursor]
  BY DEF WindowSweep
<1> HIDE DEF page
<1>5. /\ WindowSweep \in ReaderType /\ WindowSweep.stage = "turn" /\ WindowSweep.at = 0
      /\ WindowSweep.got = 0 /\ WindowSweep.page = page /\ WindowSweep.seen = {chan.last}
      /\ WindowSweep.from = 0 /\ WindowSweep.window = TRUE /\ WindowSweep.cur = chan.cursor
  <2>1. Off \in ReaderType
    BY OffIs
  <2>2. WindowSweep \in ReaderType
    BY <1>1, <1>3, <1>4, <2>1 DEF ReaderType
  <2>3. /\ WindowSweep.stage = "turn" /\ WindowSweep.page = page
        /\ WindowSweep.seen = {chan.last} /\ WindowSweep.window = TRUE
        /\ WindowSweep.cur = chan.cursor /\ WindowSweep.at = Off.at
        /\ WindowSweep.got = Off.got /\ WindowSweep.from = Off.from
    BY <1>4, <2>1 DEF ReaderType
  <2>. QED BY <2>2, <2>3, OffIs
<1>. QED BY <1>1, <1>2, <1>5 DEF StartsOn, page

LEMMA SweepStartsShapes ==
  ASSUME Shapes, Onwards, RestFits', published' = published, NEW x, StartsOn(x),
         reader' = [reader EXCEPT ![Sweep] = x], x.window => ~chan'.initial,
         chan'.cursor = chan.cursor, chan'.last = chan.last, job' = job
  PROVE  Shapes'
<1>1. reader \in [Readers -> ReaderType] /\ Sweep \in Readers
  BY ShapesGive DEF Readers
<1>2. reader'[Sweep] = x
  BY <1>1
<1>3. ReaderShape(Sweep)'
  BY <1>2, StartsOnShape
<1>. QED BY <1>1, <1>3, OneReaderStep DEF Shapes, StartsOn

LEMMA PlainForwardSweepStarts ==
  ASSUME Shapes, NEW last \in 0 .. published
  PROVE  /\ StartsOn(ForwardSweep(last)) /\ ForwardSweep(last).page = ForwardPage(last)
         /\ ForwardSweep(last).seen = {last} /\ ForwardSweep(last).from = last
         /\ ForwardSweep(last).window = FALSE /\ ForwardSweep(last).cur = 0
<1>1. published \in 0 .. MaxPosts
  BY ShapesGive DEF RestFits
<1>2. /\ ForwardPage(last) \subseteq 1 .. published /\ Cardinality(ForwardPage(last)) <= Limit
  BY ForwardPageIs
<1> DEFINE page == ForwardPage(last)
<1>3. last \in 0 .. MaxPosts /\ page \in SUBSET PostIds /\ {last} \in SUBSET (0 .. MaxPosts)
  BY <1>1, <1>2 DEF PostIds
<1>4. ForwardSweep(last) =
        [Off EXCEPT !.stage = "turn", !.page = page, !.seen = {last}, !.from = last]
  BY DEF ForwardSweep
<1> HIDE DEF page
<1>5. /\ ForwardSweep(last) \in ReaderType /\ ForwardSweep(last).stage = "turn"
      /\ ForwardSweep(last).at = 0 /\ ForwardSweep(last).got = 0
      /\ ForwardSweep(last).page = page /\ ForwardSweep(last).seen = {last}
      /\ ForwardSweep(last).from = last /\ ForwardSweep(last).window = FALSE
      /\ ForwardSweep(last).cur = 0
  <2>1. Off \in ReaderType
    BY OffIs
  <2>2. PICK x : x = ForwardSweep(last)
    OBVIOUS
  <2>3. x = [Off EXCEPT !.stage = "turn", !.page = page, !.seen = {last}, !.from = last]
    BY <1>4, <2>2
  <2>4. x \in ReaderType
    BY <1>3, <2>1, <2>3 DEF ReaderType
  <2>5. /\ x.stage = "turn" /\ x.page = page /\ x.seen = {last} /\ x.from = last
        /\ x.at = Off.at /\ x.got = Off.got /\ x.window = Off.window /\ x.cur = Off.cur
    BY <2>1, <2>3 DEF ReaderType
  <2>. QED BY <2>2, <2>4, <2>5, OffIs
<1>. QED BY <1>1, <1>2, <1>5 DEF StartsOn, page

LEMMA BeginSweepShapes ==
  ASSUME Shapes, BeginSweep
  PROVE  Shapes'
<1>1. RestFits /\ reader \in [Readers -> ReaderType] /\ chan.last \in 0 .. published
  BY ShapesGive
<1>2. UNCHANGED <<published, post, chan, ingested, parked, job, faults, handled>>
  BY DEF BeginSweep, tables
<1>3. process' \in ProcessType /\ overtaken' \subseteq PostIds
  <2>1. OutOfWindow \subseteq PostIds
    BY <1>1 DEF OutOfWindow, PostIds, RestFits
  <2>. QED BY <1>1, <2>1 DEF BeginSweep, RestFits, ProcessType
<1>4. CASE parked
  <2>1. reader' = reader /\ RestFits' /\ Onwards
    BY <1>1, <1>2, <1>3, <1>4 DEF BeginSweep, RestFits, JobFits, Onwards
  <2>. QED BY <1>1, <1>2, <2>1, StoppedShapes
<1>5. CASE ~parked /\ chan.initial
  <2>1. reader' = [reader EXCEPT ![Sweep] = ForwardSweep(chan.last)]
    BY <1>5 DEF BeginSweep
  <2>2. StartsOn(ForwardSweep(chan.last)) /\ ForwardSweep(chan.last).window = FALSE
    BY <1>1, PlainForwardSweepStarts
  <2>3. RestFits' /\ Onwards
    BY <1>1, <1>2, <1>3 DEF RestFits, JobFits, Onwards
  <2>. QED BY <1>2, <2>1, <2>2, <2>3, SweepStartsShapes
<1>6. CASE ~parked /\ ~chan.initial
  <2>1. reader' = [reader EXCEPT ![Sweep] = WindowSweep]
    BY <1>6 DEF BeginSweep
  <2>2. StartsOn(WindowSweep)
    BY WindowSweepStarts
  <2>3. RestFits' /\ Onwards
    BY <1>1, <1>2, <1>3 DEF RestFits, JobFits, Onwards
  <2>. QED BY <1>2, <1>6, <2>1, <2>2, <2>3, SweepStartsShapes
<1>. QED BY <1>4, <1>5, <1>6

LEMMA RememberedIs ==
  ASSUME Shapes, reader[Sweep].stage # "off"
  PROVE  Remembered \in 0 .. published /\ reader[Sweep].seen = {Remembered}
<1>1. ReaderShape(Sweep) /\ published \in Nat
  BY ReaderGives, ShapesGive DEF Readers, RestFits
<1>2. PICK m \in 0 .. published : reader[Sweep].seen = {m}
  BY <1>1 DEF ReaderShape
<1>3. Most({m}) = m
  BY <1>2, MostOfOne
<1>. QED BY <1>2, <1>3 DEF Remembered

LEMMA NextSweepStarts ==
  ASSUME Shapes, reader[Sweep].stage # "off",
         NEW x, x = SweepFrom(Remembered, reader[Sweep].bad)
  PROVE  /\ StartsOn(x) /\ x.page = ForwardPage(Remembered) /\ x.seen = {Remembered}
         /\ x.from = Remembered /\ x.window = FALSE /\ x.cur = 0
<1>1. reader[Sweep].bad \in BOOLEAN /\ Remembered \in 0 .. published
  BY ReaderGives, RememberedIs DEF Readers, ReaderType
<1>. QED BY <1>1, ForwardSweepStarts

LEMMA WindowEndsShapes ==
  ASSUME Shapes, WindowEnds
  PROVE  Shapes'
<1> DEFINE x == SweepFrom(Remembered, reader[Sweep].bad)
<1>1. RestFits /\ reader \in [Readers -> ReaderType] /\ reader[Sweep] \in ReaderType
  BY ShapesGive, ReaderGives DEF Readers
<1>2. /\ UNCHANGED <<published, post, ingested, process, parked, job, faults, handled, overtaken>>
      /\ reader' = [reader EXCEPT ![Sweep] = x] /\ reader[Sweep].stage # "off"
      /\ chan' = [chan EXCEPT !.initial = TRUE, !.exhausted = @ \/ reader[Sweep].got < Limit]
  BY DEF WindowEnds, SweepFrom
<1>3. StartsOn(x) /\ x.window = FALSE
  BY <1>2, NextSweepStarts
<1> HIDE DEF x
<1>4. /\ chan' \in ChanType /\ chan'.cursor = chan.cursor /\ chan'.last = chan.last
      /\ chan'.initial = TRUE
  BY <1>1, <1>2 DEF RestFits, ChanType
<1>5. reader'[Sweep].window = FALSE
  BY <1>1, <1>2, <1>3 DEF Readers
<1>6. RestFits' /\ Onwards
  BY <1>1, <1>2, <1>4, <1>5 DEF RestFits, JobFits, Onwards
<1>. QED BY <1>2, <1>3, <1>4, <1>6, SweepStartsShapes

LEMMA NextPageShapes ==
  ASSUME Shapes, NextPage
  PROVE  Shapes'
<1> DEFINE x == SweepFrom(Remembered, reader[Sweep].bad)
<1>1. RestFits /\ reader \in [Readers -> ReaderType]
  BY ShapesGive
<1>2. /\ UNCHANGED <<published, post, chan, ingested, process, parked, job, faults, handled, overtaken>>
      /\ reader' = [reader EXCEPT ![Sweep] = x] /\ reader[Sweep].stage # "off"
  BY DEF NextPage, tables, SweepFrom
<1>3. StartsOn(x) /\ x.window = FALSE
  BY <1>2, NextSweepStarts
<1> HIDE DEF x
<1>4. RestFits' /\ Onwards
  BY <1>1, <1>2 DEF RestFits, JobFits, Onwards
<1>. QED BY <1>2, <1>3, <1>4, SweepStartsShapes

LEMMA SweepEndsShapes ==
  ASSUME Shapes, SweepEnds
  PROVE  Shapes'
<1>1. /\ RestFits /\ reader \in [Readers -> ReaderType] /\ {Sweep, Live} \subseteq Readers
      /\ reader[Sweep].bad \in BOOLEAN
  BY ShapesGive, ReaderGives DEF Readers, ReaderType
<1>2. UNCHANGED <<published, post, chan, ingested, parked, job, faults, handled, overtaken>>
  BY DEF SweepEnds, tables
<1>3. process' \in ProcessType
  BY <1>1 DEF SweepEnds, RestFits, ProcessType
<1>4. RestFits' /\ Onwards
  BY <1>1, <1>2, <1>3 DEF RestFits, JobFits, Onwards
<1>5. /\ reader' \in [Readers -> ReaderType]
      /\ \A s \in Readers : reader'[s] \in {reader[s], Off}
  BY <1>1, OffIs DEF SweepEnds
<1>. QED BY <1>2, <1>4, <1>5, StoppedShapes

LEMMA CrawlerStopsShapes ==
  ASSUME Shapes, CrawlerStops
  PROVE  Shapes'
<1>1. RestFits /\ reader \in [Readers -> ReaderType] /\ {Sweep, Live} \subseteq Readers
  BY ShapesGive DEF Readers
<1>2. UNCHANGED <<published, post, chan, ingested, parked, job, handled, overtaken>>
  BY DEF CrawlerStops, tables
<1>3. process' \in ProcessType /\ faults' \in FaultsType
  BY <1>1, FaultFits DEF CrawlerStops, RestFits, ProcessType
<1>4. RestFits' /\ Onwards
  BY <1>1, <1>2, <1>3 DEF RestFits, JobFits, Onwards
<1>5. /\ reader' \in [Readers -> ReaderType]
      /\ \A s \in Readers : reader'[s] \in {reader[s], Off}
  BY <1>1, OffIs DEF CrawlerStops
<1>. QED BY <1>2, <1>4, <1>5, StoppedShapes

LEMMA InterruptShapes ==
  ASSUME Shapes, NEW r \in Readers, NEW how, Interrupt(r, how)
  PROVE  Shapes'
<1>1. RestFits
  BY ShapesGive
<1>2. /\ UNCHANGED <<published, chan, ingested, overtaken>> /\ post' = post /\ handled' = handled
      /\ Stop(r, how) /\ reader[r].stage # "off" /\ faults' \in FaultsType
  BY FaultFits DEF Interrupt, tables
<1>3. post' \in PostsType /\ handled' \subseteq PostIds
  BY <1>1, <1>2 DEF RestFits
<1>. QED BY <1>2, <1>3, StopShapes

LEMMA UnparkShapes ==
  ASSUME Shapes, Unpark
  PROVE  Shapes'
<1>1. RestFits /\ reader \in [Readers -> ReaderType]
  BY ShapesGive
<1>2. /\ UNCHANGED <<published, post, chan, ingested, reader, process, job, faults, handled, overtaken>>
      /\ parked' = FALSE
  BY DEF Unpark, tables
<1>3. RestFits'
  BY <1>1, <1>2 DEF RestFits, JobFits
<1>4. Onwards
  BY <1>1, <1>2 DEF RestFits, Onwards
<1>. QED BY <1>1, <1>2, <1>3, <1>4, StoppedShapes

(* The worker's side: the lease and the pages of history.                   *)
LEMMA ClaimableIs ==
  ASSUME Shapes, NEW w \in Workers, Claimable(w)
  PROVE  faults' \in FaultsType /\ job.status # "none"
<1>1. faults \in FaultsType
  BY ShapesGive DEF RestFits
<1>2. CASE UNCHANGED faults
  BY <1>1, <1>2 DEF Claimable, ActiveJob
<1>3. CASE job.status = "running" /\ Fault("stales", MaxStales)
  BY <1>3, FaultFits
<1>. QED BY <1>2, <1>3 DEF Claimable

LEMMA QueueBackfillShapes ==
  ASSUME Shapes, QueueBackfill
  PROVE  Shapes'
<1>1. RestFits /\ reader \in [Readers -> ReaderType]
  BY ShapesGive
<1>2. UNCHANGED <<published, post, chan, ingested, reader, process, parked, faults, handled, overtaken>>
  BY DEF QueueBackfill, tables
<1>3. JobFits(job)' /\ job'.status = "queued" /\ chan.initial /\ chan.cursor # 0
  BY <1>1 DEF QueueBackfill, RestFits, JobFits, JobType, ActiveJob
<1>4. RestFits' /\ Onwards
  BY <1>1, <1>2, <1>3 DEF RestFits, Onwards
<1>5. \A r \in Readers : ReaderShape(r)'
  BY <1>2, <1>4, KeptShape
<1>6. CrawlerTypeOK'
  BY <1>1, <1>2, <1>4, RestThen
<1>. QED BY <1>2, <1>3, <1>4, <1>5, <1>6, ShapesStep DEF Shapes

LEMMA ClaimWaitsShapes ==
  ASSUME Shapes, NEW w \in Workers, ClaimWaits(w)
  PROVE  Shapes'
<1>1. RestFits /\ reader \in [Readers -> ReaderType]
  BY ShapesGive
<1>2. UNCHANGED <<published, post, chan, ingested, reader, process, parked, handled, overtaken>>
  BY DEF ClaimWaits, tables
<1>3. faults' \in FaultsType /\ job.status # "none"
  BY ClaimableIs DEF ClaimWaits
<1>4. JobFits(job)' /\ job'.status # "none"
  BY <1>1 DEF ClaimWaits, RestFits, JobFits, JobType, ActiveJob
<1>5. RestFits' /\ Onwards
  BY <1>1, <1>2, <1>3, <1>4 DEF RestFits, Onwards
<1>. QED BY <1>1, <1>2, <1>3, <1>5, StoppedShapes

LEMMA OffWhen ==
  ASSUME NEW x \in ReaderType, x.stage = "off", x.window = FALSE, x.page = {}, x.at = 0,
         x.seen = {}, x.cur = 0, x.tries = 0, x.got = 0, x.want = 0, x.from = 0, x.bad = FALSE,
         x.mine = FALSE
  PROVE  x = Off
<1>1. x = [stage |-> x.stage, window |-> x.window, page |-> x.page, at |-> x.at, seen |-> x.seen,
           cur |-> x.cur, tries |-> x.tries, got |-> x.got, want |-> x.want, from |-> x.from,
           bad |-> x.bad, mine |-> x.mine]
  BY DEF ReaderType
<1>. QED BY <1>1 DEF Off

(* A lost lease.                                                            *)
LEMMA LeaseLostShape ==
  ASSUME Shapes, Onwards, NEW r \in Readers, reader'[r] = [reader[r] EXCEPT !.mine = FALSE]
  PROVE  ReaderShape(r)' /\ reader'[r] \in ReaderType
<1>1. ReaderShape(r) /\ reader[r] \in ReaderType /\ published \in Nat /\ published' \in Nat
  BY ReaderGives, ShapesGive DEF Onwards, RestFits
<1> DEFINE x == [reader[r] EXCEPT !.mine = FALSE]
<1>2. /\ x \in ReaderType /\ x.stage = reader[r].stage /\ x.window = reader[r].window
      /\ x.page = reader[r].page /\ x.at = reader[r].at /\ x.seen = reader[r].seen
      /\ x.cur = reader[r].cur /\ x.got = reader[r].got /\ x.want = reader[r].want
      /\ x.from = reader[r].from /\ x.tries = reader[r].tries /\ x.bad = reader[r].bad
      /\ x.mine = FALSE
  BY <1>1 DEF ReaderType
<1> HIDE DEF x
<1>3. x.stage = "off" => x = Off
  <2>1. reader[r].stage = "off" => reader[r] = Off
    BY <1>1 DEF ReaderShape
  <2>2. ASSUME x.stage = "off"
        PROVE  /\ x.window = FALSE /\ x.page = {} /\ x.at = 0 /\ x.seen = {} /\ x.cur = 0
               /\ x.tries = 0 /\ x.got = 0 /\ x.want = 0 /\ x.from = 0 /\ x.bad = FALSE
               /\ x.mine = FALSE
    <3>1. reader[r] = Off
      BY <1>2, <2>1, <2>2
    <3>. QED BY <1>2, <3>1, OffIs
  <2>3. x \in ReaderType
    BY <1>2
  <2>. QED BY <2>2, <2>3, OffWhen
<1>4. reader'[r] = x
  BY DEF x
<1>5. x.page \subseteq 1 .. published' /\ x.at <= published' /\ x.from <= published'
  BY <1>1, <1>2 DEF ReaderShape, ReaderType, Onwards
<1>6. x.seen = {} \/ \E m \in 0 .. published' : x.seen = {m}
  BY <1>1, <1>2 DEF ReaderShape, Onwards
<1>. QED BY <1>1, <1>2, <1>3, <1>4, <1>5, <1>6 DEF ReaderShape, Blank, Onwards

LEMMA ClaimedIs ==
  LET x == [Off EXCEPT !.stage = "claimed", !.mine = TRUE]
  IN  /\ x \in ReaderType /\ x.stage = "claimed" /\ x.page = {} /\ x.at = 0 /\ x.seen = {}
      /\ x.cur = 0 /\ x.from = 0 /\ x.window = FALSE /\ x.got = 0 /\ x.want = 0
BY OffIs DEF ReaderType

LEMMA ClaimShapes ==
  ASSUME Shapes, NEW w \in Workers, Claim(w)
  PROVE  Shapes'
<1>1. RestFits /\ reader \in [Readers -> ReaderType] /\ w \in Readers /\ w # Sweep /\ w # Live
  BY ShapesGive DEF Readers
<1>2. UNCHANGED <<published, post, chan, ingested, process, parked, handled, overtaken>>
  BY DEF Claim, tables
<1>3. faults' \in FaultsType /\ job.status # "none"
  BY ClaimableIs DEF Claim
<1>4. JobFits(job)' /\ job'.status # "none"
  <2>1. Smaller(job.attempts + 1, MaxAutomatic) \in 0 .. MaxAutomatic
    BY <1>1 DEF RestFits, JobFits, JobType, Smaller
  <2>. QED BY <1>1, <2>1 DEF Claim, RestFits, JobFits, JobType, ActiveJob
<1>5. RestFits'
  BY <1>1, <1>2, <1>3, <1>4 DEF RestFits
<1> DEFINE x == [Off EXCEPT !.stage = "claimed", !.mine = TRUE]
<1>6. /\ x \in ReaderType /\ x.stage = "claimed" /\ x.page = {} /\ x.at = 0 /\ x.seen = {}
      /\ x.cur = 0 /\ x.from = 0 /\ x.window = FALSE /\ x.got = 0 /\ x.want = 0
  BY ClaimedIs
<1> HIDE DEF x
<1>7. /\ reader'[w] = x
      /\ \A r \in Readers \ {w} : reader'[r] = [reader[r] EXCEPT !.mine = FALSE]
      /\ reader' = [r \in Readers |-> reader'[r]]
  BY <1>1 DEF Claim, x
<1>8. Onwards
  BY <1>1, <1>2, <1>4 DEF Onwards, RestFits
<1>9. \A r \in Readers \ {w} : ReaderShape(r)' /\ reader'[r] \in ReaderType
  BY <1>7, <1>8, LeaseLostShape
<1>10. ReaderShape(w)'
  <2>1. Cardinality({}) = 0 /\ published' \in Nat
    BY <1>1, <1>2, FS_EmptySet DEF RestFits
  <2>2. Blank(w)'
    BY <1>6, <1>7 DEF Blank
  <2>3. reader'[w].page = {} /\ Cardinality(reader'[w].page) + reader'[w].got <= reader'[w].want
    <3>1. reader'[w].page = {} /\ reader'[w].got = 0 /\ reader'[w].want = 0
      BY <1>6, <1>7
    <3>. QED BY <2>1, <3>1
  <2>4. /\ reader'[w].page \subseteq 1 .. published' /\ reader'[w].at <= published'
        /\ reader'[w].from <= published' /\ ~reader'[w].window
        /\ reader'[w].at = 0 /\ reader'[w].seen = {} /\ reader'[w].stage = "claimed"
    BY <1>6, <1>7, <2>1
  <2>. QED BY <1>1, <1>4, <2>2, <2>3, <2>4 DEF ReaderShape
<1>11. CrawlerTypeOK'
  <2>1. \A r \in Readers : reader'[r] \in ReaderType
    BY <1>6, <1>7, <1>9
  <2>2. reader' \in [Readers -> ReaderType]
    BY <1>7, <2>1
  <2>. QED BY <1>5, <2>2, RestThen
<1>. QED BY <1>2, <1>3, <1>8, <1>9, <1>10, <1>11, ShapesStep DEF Shapes

LEMMA OlderPageIs ==
  ASSUME Shapes, chan.cursor # 0, NEW n \in Nat
  PROVE  /\ OlderPage(n) = {p \in 1 .. (chan.cursor - 1) : chan.cursor - 1 - p < n}
         /\ OlderPage(n) \subseteq 1 .. published /\ Cardinality(OlderPage(n)) <= n
<1>1. chan.cursor - 1 \in Nat /\ chan.cursor \in 1 .. published /\ published \in Nat
  BY ShapesGive DEF RestFits
<1>2. {p \in 1 .. published : p < chan.cursor} = 1 .. (chan.cursor - 1)
  BY <1>1
<1>3. OlderPage(n) = Newest(n, 1 .. (chan.cursor - 1))
  BY <1>2 DEF OlderPage
<1>4. /\ Newest(n, 1 .. (chan.cursor - 1)) = {p \in 1 .. (chan.cursor - 1) : chan.cursor - 1 - p < n}
      /\ Cardinality(Newest(n, 1 .. (chan.cursor - 1))) <= n
  BY <1>1, NewestIs
<1>. QED BY <1>1, <1>3, <1>4

(* The worker's page.                                                       *)
PageOf(w, want) ==
  [reader[w] EXCEPT !.stage = "turn", !.want = want, !.page = OlderPage(want), !.cur = chan.cursor]

IsPage(x, want) ==
  /\ x \in ReaderType /\ x.stage = "turn" /\ x.page = OlderPage(want) /\ x.at = 0
  /\ x.seen = {} /\ x.cur = chan.cursor /\ x.from = 0 /\ x.window = FALSE
  /\ x.got = 0 /\ x.want = want

LEMMA PageOfIs ==
  ASSUME Shapes, NEW w \in Workers, reader[w].stage = "claimed", NEW want \in 0 .. Limit
  PROVE  IsPage(PageOf(w, want), want)
<1>1. w \in Readers /\ chan.cursor \in 0 .. MaxPosts /\ published \in 0 .. MaxPosts
  BY ShapesGive DEF Readers, RestFits
<1>2. /\ reader[w] \in ReaderType /\ reader[w].at = 0 /\ reader[w].seen = {} /\ reader[w].got = 0
      /\ reader[w].from = 0 /\ reader[w].window = FALSE
  BY <1>1, ReaderGives DEF ReaderShape, Blank
<1>3. job.status # "none" /\ chan.cursor # 0
  BY <1>1, ReaderGives DEF ReaderShape, Shapes
<1> DEFINE page == OlderPage(want)
           x == PageOf(w, want)
<1>4. page \in SUBSET PostIds
  BY <1>1, <1>3, OlderPageIs DEF PostIds
<1>5. x = [reader[w] EXCEPT !.stage = "turn", !.want = want, !.page = page, !.cur = chan.cursor]
  BY DEF PageOf
<1> HIDE DEF page, x
<1>6. /\ x \in ReaderType /\ x.stage = "turn" /\ x.page = page /\ x.at = 0
      /\ x.seen = {} /\ x.cur = chan.cursor /\ x.from = 0 /\ x.window = FALSE
      /\ x.got = 0 /\ x.want = want
  BY <1>1, <1>2, <1>4, <1>5 DEF ReaderType
<1>. QED BY <1>6 DEF IsPage, page, x

LEMMA BeginPageShapes ==
  ASSUME Shapes, NEW w \in Workers, BeginPage(w)
  PROVE  Shapes'
<1>1. /\ RestFits /\ reader \in [Readers -> ReaderType] /\ w \in Readers /\ w # Sweep /\ w # Live
      /\ reader[w].stage = "claimed"
  BY ShapesGive DEF Readers, BeginPage
<1>2. UNCHANGED <<published, post, chan, ingested, process, parked, faults, handled, overtaken>>
  BY DEF BeginPage, tables
<1>3. job.status # "none" /\ chan.cursor # 0
  BY <1>1, ReaderGives DEF ReaderShape, Shapes
<1> DEFINE want == Smaller(job.left, Limit)
<1>4. want \in 0 .. Limit /\ job \in JobType
  BY <1>1 DEF Smaller, RestFits, JobFits, JobType
<1>5. CASE job' \in {Retried(job, TRUE), Completed(job)} /\ reader' = [reader EXCEPT ![w] = Off]
  <2>1. JobFits(job)' /\ job'.status # "none"
    <3>1. JobFits(Retried(job, TRUE)) /\ Retried(job, TRUE).status # "none"
      BY <1>4 DEF Retried, JobFits, JobType, ActiveJob
    <3>2. JobFits(Completed(job)) /\ Completed(job).status # "none"
      BY <1>4 DEF Completed, JobFits, JobType, ActiveJob
    <3>. QED BY <1>5, <3>1, <3>2 DEF JobFits
  <2>2. RestFits' /\ Onwards
    BY <1>1, <1>2, <2>1 DEF RestFits, Onwards
  <2>3. /\ reader' \in [Readers -> ReaderType]
        /\ \A s \in Readers : reader'[s] \in {reader[s], Off}
    BY <1>1, <1>5, OffIs
  <2>. QED BY <1>2, <1>3, <2>2, <2>3, StoppedShapes
<1>6. CASE reader' = [reader EXCEPT ![w] = PageOf(w, want)] /\ job' = job
  <2> DEFINE x == PageOf(w, want)
  <2>1. /\ x \in ReaderType /\ x.stage = "turn" /\ x.page = OlderPage(want) /\ x.at = 0
        /\ x.seen = {} /\ x.cur = chan.cursor /\ x.from = 0 /\ x.window = FALSE
        /\ x.got = 0 /\ x.want = want
    <3>1. IsPage(PageOf(w, want), want)
      BY <1>1, <1>4, PageOfIs
    <3>. QED BY <3>1 DEF IsPage
  <2> HIDE DEF x
  <2>2. reader' = [reader EXCEPT ![w] = x] /\ reader'[w] = x
    BY <1>1, <1>6 DEF x
  <2>3. RestFits' /\ Onwards
    BY <1>1, <1>2, <1>6 DEF RestFits, JobFits, Onwards
  <2>4. ReaderShape(w)'
    <3>0. want \in Nat
      BY <1>4
    <3>1. OlderPage(want) \subseteq 1 .. published /\ Cardinality(OlderPage(want)) <= want
      BY <1>3, <3>0, OlderPageIs
    <3>1a. x.page \in SUBSET (1 .. published) /\ 1 \in Int /\ published \in Int /\ published \in Nat
      BY <1>1, <2>1, <3>1 DEF RestFits
    <3>2. IsFiniteSet(x.page)
      BY <3>1a, FS_Interval, FS_Subset
    <3>3. Cardinality(x.page) \in Nat
      BY <3>2, FS_CardinalityType
    <3>4. Cardinality(x.page) + x.got <= x.want
      BY <1>4, <2>1, <3>1, <3>3
    <3> HIDE DEF want
    <3>. QED BY <1>1, <1>2, <1>3, <1>6, <2>1, <2>2, <3>1a, <3>4 DEF ReaderShape
  <2>. QED BY <1>1, <1>2, <1>6, <2>1, <2>2, <2>3, <2>4, OneReaderStep DEF Shapes
<1>. QED BY <1>5, <1>6 DEF BeginPage, PageOf

LEMMA PageEndsShapes ==
  ASSUME Shapes, NEW w \in Workers, PageEnds(w)
  PROVE  Shapes'
<1>1. /\ RestFits /\ reader \in [Readers -> ReaderType] /\ w \in Readers
      /\ reader[w].stage = "turn"
  BY ShapesGive DEF Readers, PageEnds
<1>2. UNCHANGED <<published, post, ingested, process, parked, faults, handled, overtaken>>
  BY DEF PageEnds
<1>3. /\ chan' \in ChanType /\ chan'.cursor = chan.cursor /\ chan'.last = chan.last
      /\ chan'.initial = chan.initial /\ chan'.exhausted \in BOOLEAN
  BY <1>1 DEF PageEnds, RestFits, ChanType
<1>4. JobFits(job)' /\ job'.status # "none" /\ job.status # "none"
  <2>1. JobFits(JobAfter(w, "page", chan'.exhausted)) /\ JobAfter(w, "page", chan'.exhausted).status # "none"
    BY <1>3, JobAfterFits DEF Shapes
  <2>2. job.status # "none"
    BY <1>1, ReaderGives DEF ReaderShape
  <2>. QED BY <2>1, <2>2 DEF PageEnds, JobFits
<1>5. RestFits' /\ Onwards
  BY <1>1, <1>2, <1>3, <1>4 DEF RestFits, Onwards
<1>6. /\ reader' \in [Readers -> ReaderType]
      /\ \A s \in Readers : reader'[s] \in {reader[s], Off}
  BY <1>1, OffIs DEF PageEnds
<1>. QED BY <1>2, <1>3, <1>4, <1>5, <1>6, StoppedShapes

LEMMA WorkerStopsShapes ==
  ASSUME Shapes, NEW w \in Workers, NEW gently \in BOOLEAN, WorkerStops(w, gently)
  PROVE  Shapes'
<1>1. RestFits /\ reader \in [Readers -> ReaderType] /\ w \in Readers
  BY ShapesGive DEF Readers
<1>1a. reader[w].stage # "off"
  BY <1>1, ReaderGives DEF WorkerStops, ReaderShape
<1>2. UNCHANGED <<published, post, chan, ingested, process, parked, handled, overtaken>>
  BY DEF WorkerStops, tables
<1>3. faults' \in FaultsType
  BY FaultFits DEF WorkerStops
<1>4. JobFits(job)' /\ job'.status # "none" /\ job.status # "none"
  <2>1. job.status # "none"
    BY <1>1, <1>1a, ReaderGives DEF ReaderShape
  <2>. QED BY <1>1, <2>1 DEF WorkerStops, RestFits, JobFits, JobType, ActiveJob
<1>5. RestFits' /\ Onwards
  BY <1>1, <1>2, <1>3, <1>4 DEF RestFits, Onwards
<1>6. /\ reader' \in [Readers -> ReaderType]
      /\ \A s \in Readers : reader'[s] \in {reader[s], Off}
  BY <1>1, OffIs DEF WorkerStops
<1>. QED BY <1>2, <1>4, <1>5, <1>6, StoppedShapes

LEMMA StutterShapes ==
  ASSUME Shapes, UNCHANGED crawlerVars
  PROVE  Shapes'
<1>1. RestFits /\ reader \in [Readers -> ReaderType]
  BY ShapesGive
<1>2. UNCHANGED <<published, post, chan, ingested, reader, process, parked, job, faults, handled, overtaken>>
  BY DEF crawlerVars, tables
<1>3. RestFits' /\ Onwards
  BY <1>1, <1>2 DEF RestFits, JobFits, Onwards
<1>. QED BY <1>1, <1>2, <1>3, StoppedShapes

LEMMA ShapesNext ==
  ASSUME Shapes, [CrawlerNext]_crawlerVars
  PROVE  Shapes'
<1>1. {Sweep, Live} \subseteq Readers /\ Workers \subseteq Readers
  BY DEF Readers
<1>2. CASE UNCHANGED crawlerVars
  BY <1>2, StutterShapes
<1>3. CASE Publish
  BY <1>3, PublishShapes
<1>4. CASE Reload \/ RetryIncomplete
  BY <1>4, ReconcilesShapes DEF Reload, RetryIncomplete
<1>5. CASE Supervise
  BY <1>5, SuperviseShapes
<1>6. CASE CrawlerStops
  BY <1>6, CrawlerStopsShapes
<1>7. CASE Unpark
  BY <1>7, UnparkShapes
<1>8. CASE SweepTurn
  BY <1>1, <1>8, BeginSweepShapes, HandlePostShapes, WindowEndsShapes, NextPageShapes, SweepEndsShapes
  DEF SweepTurn
<1>9. CASE HandlePost(Live)
  BY <1>1, <1>9, HandlePostShapes
<1>10. CASE \E r \in Readers : \E how \in {"interrupted", "flood"} : Interrupt(r, how)
  BY <1>10, InterruptShapes
<1>11. CASE QueueBackfill
  BY <1>11, QueueBackfillShapes
<1>12. ASSUME NEW w \in Workers, ClaimWaits(w) \/ Claim(w) \/ PageTurn(w) PROVE Shapes'
  BY <1>1, <1>12, ClaimWaitsShapes, ClaimShapes, BeginPageShapes, HandlePostShapes, PageEndsShapes
  DEF PageTurn
<1>13. ASSUME NEW w \in Workers, NEW gently \in BOOLEAN, WorkerStops(w, gently) PROVE Shapes'
  BY <1>13, WorkerStopsShapes
<1>. QED BY <1>2, <1>3, <1>4, <1>5, <1>6, <1>7, <1>8, <1>9, <1>10, <1>11, <1>12, <1>13 DEF CrawlerNext

LEMMA ShapesInit ==
  ASSUME CrawlerInit
  PROVE  Shapes
<1>1. PICK s \in Scenarios :
        /\ published = s.published /\ chan = s.chan /\ ingested = s.accepted
        /\ post = [p \in PostIds |-> IF p \in s.accepted THEN [status |-> "accepted", tries |-> 1]
                                     ELSE [status |-> "none", tries |-> 0]]
        /\ process = [pc |-> IF s.crawls THEN "down" ELSE "off", applied |-> FALSE, retry |-> FALSE]
        /\ job = [status |-> "none", owner |-> NoWorker, left |-> s.requested,
                  attempts |-> 0, open |-> FALSE, quarantined |-> FALSE]
        /\ handled = s.accepted
  BY DEF CrawlerInit
<1>2. /\ reader = [r \in Readers |-> Off] /\ parked = FALSE
      /\ faults = [drops |-> 0, crashes |-> 0, stales |-> 0] /\ overtaken = {}
  BY DEF CrawlerInit
<1>3. /\ s.published \in 0 .. MaxPosts /\ s.accepted \subseteq 1 .. s.published
      /\ s.chan \in [last : 0 .. s.published, cursor : 0 .. s.published,
                     initial : BOOLEAN, exhausted : BOOLEAN]
      /\ s.crawls \in BOOLEAN /\ s.requested \in Nat
  BY RowsAtTheStart
<1>4. chan \in ChanType /\ chan.cursor <= published /\ chan.last <= published
  BY <1>1, <1>3 DEF ChanType
<1>5. post \in PostsType
  BY <1>1 DEF PostsType, PostStatuses
<1>6. process \in ProcessType /\ faults \in FaultsType /\ JobFits(job) /\ job.status = "none"
  BY <1>1, <1>2, <1>3 DEF ProcessType, FaultsType, JobFits, JobType, ActiveJob
<1>7. s.accepted \subseteq PostIds
  BY <1>3 DEF PostIds
<1>8. CrawlerTypeOK
  BY <1>1, <1>2, <1>3, <1>4, <1>5, <1>6, <1>7, OffIs, TypeIs
<1>9. ASSUME NEW r \in Readers PROVE ReaderShape(r)
  <2>1. Cardinality({}) = 0 /\ reader[r] = Off /\ published \in Nat
    BY <1>1, <1>2, <1>3, FS_EmptySet
  <2>2. Blank(r)
    BY <2>1, OffIs DEF Blank
  <2>. QED BY <2>1, <2>2, OffIs DEF ReaderShape
<1>. QED BY <1>4, <1>6, <1>8, <1>9 DEF Shapes

LEMMA ShapesInvariance == CrawlerSpec => []Shapes
<1>1. CrawlerInit => Shapes
  BY ShapesInit
<1>2. Shapes /\ [CrawlerNext]_crawlerVars => Shapes'
  BY ShapesNext
<1>. QED BY <1>1, <1>2, PTL DEF CrawlerSpec

(* Type correctness of the crawler and the workers: in particular a job is  *)
(* leased exactly while it runs, whoever gives it back.                     *)
THEOREM CrawlerTypeCorrect == CrawlerSpec => []CrawlerTypeOK
<1>1. Shapes => CrawlerTypeOK
  BY DEF Shapes
<1>. QED BY <1>1, ShapesInvariance, PTL

-----------------------------------------------------------------------------
(* Nothing is skipped.  What a step must do to the knowledge, to the tops,  *)
(* to the bottoms and to what is in hand, for each part to be kept.         *)
KnownGrows == Known \subseteq Known'

(* A new checkpoint leaves nothing out above one that somebody had.         *)
TopsKept ==
  \A t \in 0 .. MaxPosts : IsTop(t)' /\ t # 0 =>
    \E t0 \in 0 .. MaxPosts :
      IsTop(t0) /\ \A q \in PostIds : t0 < q /\ q <= t => q \in Known'

BottomsKept == \A b \in PostIds : IsBottom(b)' => IsBottom(b)

HandShrinks(r) == InHand(r)' \subseteq InHand(r) /\ InHand(r) \subseteq InHand(r)' \cup Known'
HandKept(r) == InHand(r)' = {} \/ HandShrinks(r)

ForwardKept ==
  \/ InHand(Sweep)' = {}
  \/ /\ HandShrinks(Sweep) /\ reader'[Sweep].from = reader[Sweep].from
     /\ reader'[Sweep].window = reader[Sweep].window

WindowKept ==
  reader'[Sweep].window =>
    /\ reader[Sweep].window /\ HandShrinks(Sweep)
    /\ reader'[Sweep].cur \in {reader[Sweep].cur, chan.cursor}
    /\ chan.cursor = 0 => InHand(Sweep)' = InHand(Sweep)

LatestKept == \A y \in LatestPage' : y \in LatestPage \/ (y \in Nat /\ published < y)

LEMMA NumbersIs == MaxPosts \in Nat /\ PostIds \subseteq 0 .. MaxPosts /\ \A q \in PostIds : q \in Nat /\ q # 0
BY DEF PostIds

LEMMA HandIs ==
  ASSUME Shapes, NEW r \in Readers
  PROVE  InHand(r) \subseteq 1 .. published /\ InHand(r) \subseteq PostIds
<1>1. reader[r].page \subseteq 1 .. published /\ published \in 0 .. MaxPosts
  BY ShapesGive, ReaderGives DEF ReaderShape, RestFits
<1>2. reader[r].at # 0 => reader[r].at \in 1 .. published
  BY ReaderGives
<1>. QED BY <1>1, <1>2 DEF InHand, PostIds

LEMMA TopsIs ==
  ASSUME Shapes, NEW t, IsTop(t)
  PROVE  t \in 0 .. MaxPosts /\ t <= published
<1>1. chan.last \in 0 .. published /\ published \in 0 .. MaxPosts
  BY ShapesGive DEF RestFits
<1>2. ASSUME NEW r \in Readers, t \in reader[r].seen PROVE t \in 0 .. published
  <2>1. reader[r].seen = {} \/ \E m \in 0 .. published : reader[r].seen = {m}
    BY ReaderGives DEF ReaderShape
  <2>. QED BY <1>2, <2>1
<1>3. ASSUME NEW r \in Readers, t = reader[r].from PROVE t \in 0 .. published
  BY <1>1, <1>3, ReaderGives DEF ReaderShape, ReaderType
<1>. QED BY <1>1, <1>2, <1>3 DEF IsTop

LEMMA CoveredStep ==
  ASSUME Covered, KnownGrows, TopsKept, BottomsKept
  PROVE  Covered'
<1>. SUFFICES ASSUME NEW b \in PostIds, NEW t \in 0 .. MaxPosts, NEW q \in PostIds,
                     IsBottom(b)', IsTop(t)', b <= q, q <= t
              PROVE  q \in Known'
  BY DEF Covered
<1>1. t # 0 /\ q \in Nat /\ t \in Nat
  BY NumbersIs
<1>2. PICK t0 \in 0 .. MaxPosts : IsTop(t0) /\ \A k \in PostIds : t0 < k /\ k <= t => k \in Known'
  BY <1>1 DEF TopsKept
<1>3. CASE q <= t0
  BY <1>2, <1>3 DEF Covered, BottomsKept, KnownGrows
<1>4. CASE t0 < q
  BY <1>2, <1>4
<1>5. t0 \in Nat
  BY <1>2
<1>. QED BY <1>1, <1>3, <1>4, <1>5

LEMMA CoveredDeeper ==
  ASSUME Covered, KnownGrows, TopsKept, NEW p \in PostIds,
         \A b \in PostIds : IsBottom(b)' => IsBottom(b) \/ b = p,
         \A t \in 0 .. MaxPosts, q \in PostIds : IsTop(t) /\ p <= q /\ q <= t => q \in Known'
  PROVE  Covered'
<1>. SUFFICES ASSUME NEW b \in PostIds, NEW t \in 0 .. MaxPosts, NEW q \in PostIds,
                     IsBottom(b)', IsTop(t)', b <= q, q <= t
              PROVE  q \in Known'
  BY DEF Covered
<1>1. t # 0 /\ q \in Nat /\ t \in Nat
  BY NumbersIs
<1>2. PICK t0 \in 0 .. MaxPosts : IsTop(t0) /\ \A k \in PostIds : t0 < k /\ k <= t => k \in Known'
  BY <1>1 DEF TopsKept
<1>3. CASE q <= t0
  <2>1. CASE b = p
    BY <1>2, <1>3, <2>1
  <2>2. CASE IsBottom(b)
    BY <1>2, <1>3, <2>2 DEF Covered, KnownGrows
  <2>. QED BY <2>1, <2>2
<1>4. CASE t0 < q
  BY <1>2, <1>4
<1>5. t0 \in Nat
  BY <1>2
<1>. QED BY <1>1, <1>3, <1>4, <1>5

LEMMA OlderStep ==
  ASSUME Shapes, NEW w \in Workers, OlderReaches(w), KnownGrows, TopsKept, HandKept(w)
  PROVE  OlderReaches(w)'
<1>. SUFFICES ASSUME HandShrinks(w), NEW x \in InHand(w)', NEW t \in 0 .. MaxPosts,
                     NEW q \in PostIds, IsTop(t)', x < q, q <= t
              PROVE  q \in Known' \cup InHand(w)'
  BY DEF OlderReaches, HandKept
<1>1. t # 0 /\ q \in Nat /\ t \in Nat /\ x \in InHand(w)
  BY NumbersIs DEF HandShrinks
<1>2. PICK t0 \in 0 .. MaxPosts : IsTop(t0) /\ \A k \in PostIds : t0 < k /\ k <= t => k \in Known'
  BY <1>1 DEF TopsKept
<1>3. CASE q <= t0
  <2>1. q \in Known \cup InHand(w)
    BY <1>1, <1>2, <1>3 DEF OlderReaches
  <2>. QED BY <2>1 DEF KnownGrows, HandShrinks
<1>4. CASE t0 < q
  BY <1>2, <1>4
<1>5. t0 \in Nat
  BY <1>2
<1>. QED BY <1>1, <1>3, <1>4, <1>5

LEMMA ForwardStep ==
  ASSUME ForwardReaches, KnownGrows, ForwardKept
  PROVE  ForwardReaches'
<1>1. CASE InHand(Sweep)' = {}
  BY <1>1 DEF ForwardReaches
<1>2. CASE /\ HandShrinks(Sweep) /\ reader'[Sweep].from = reader[Sweep].from
           /\ reader'[Sweep].window = reader[Sweep].window
  BY <1>2 DEF ForwardReaches, HandShrinks, KnownGrows
<1>. QED BY <1>1, <1>2 DEF ForwardKept

LEMMA WindowStep ==
  ASSUME Shapes, WindowReaches, KnownGrows, WindowKept, LatestKept,
         chan'.cursor = chan.cursor
  PROVE  WindowReaches'
<1>. SUFFICES ASSUME reader'[Sweep].window
              PROVE  WindowReaches'
  BY DEF WindowReaches
<1>1. /\ reader[Sweep].window /\ HandShrinks(Sweep)
      /\ reader'[Sweep].cur = chan.cursor
      /\ chan.cursor = 0 => InHand(Sweep)' = InHand(Sweep)
  BY DEF WindowKept, WindowReaches
<1>2. /\ Sweep \in Readers /\ published \in Nat
  BY ShapesGive DEF Readers, RestFits
<1>3. CASE chan.cursor # 0
  <2>1. \A x \in InHand(Sweep)' : chan.cursor <= x
    BY <1>1, <1>3 DEF WindowReaches, HandShrinks
  <2>2. ASSUME NEW x \in InHand(Sweep)', NEW q \in PostIds, chan.cursor <= q, q < x
        PROVE  q \in Known' \cup InHand(Sweep)'
    <3>1. q \in Known \cup InHand(Sweep)
      BY <1>1, <1>3, <2>2 DEF WindowReaches, HandShrinks
    <3>. QED BY <1>1, <3>1 DEF HandShrinks, KnownGrows
  <2>. QED BY <1>1, <1>3, <2>1, <2>2 DEF WindowReaches
<1>4. CASE chan.cursor = 0
  <2>1. ASSUME NEW x \in InHand(Sweep)', NEW y \in InHand(Sweep)', NEW q \in PostIds, y <= q, q < x
        PROVE  q \in Known' \cup InHand(Sweep)'
    BY <1>1, <1>4, <2>1 DEF WindowReaches, KnownGrows
  <2>2. ASSUME NEW x \in InHand(Sweep)', NEW q \in 0 .. MaxPosts, \A y \in InHand(Sweep)' : q < y,
               NEW y \in LatestPage'
        PROVE  q < y
    <3>1. \A k \in LatestPage : q < k
      BY <1>1, <1>4, <2>2 DEF WindowReaches
    <3>2. q < x /\ x \in 1 .. published /\ q \in Nat
      BY <1>1, <1>2, <1>4, <2>2, HandIs
    <3>3. y \in Nat /\ published < y => q < y
      BY <1>2, <3>2
    <3>. QED BY <2>2, <3>1, <3>3 DEF LatestKept
  <2>. QED BY <1>1, <1>4, <2>1, <2>2 DEF WindowReaches
<1>5. chan.cursor \in Nat
  BY ShapesGive
<1>. QED BY <1>3, <1>4

LEMMA NewStep ==
  ASSUME Shapes, NewChannel, KnownGrows, TopsKept, LatestKept, WindowKept,
         chan'.cursor = chan.cursor, chan.initial => chan'.initial
  PROVE  NewChannel'
<1>. SUFFICES ASSUME ~chan'.initial
              PROVE  NewChannel'
  BY DEF NewChannel
<1>0. ~chan.initial /\ published \in Nat /\ chan.cursor \in 0 .. published
  BY ShapesGive DEF RestFits
<1>1. CASE chan.cursor # 0
  <2>1. chan.cursor \in Known /\ \A y \in LatestPage : chan.cursor <= y
    BY <1>0, <1>1 DEF NewChannel
  <2>2. \A y \in Nat : published < y => chan.cursor <= y
    BY <1>0
  <2>. QED BY <1>1, <2>1, <2>2 DEF NewChannel, KnownGrows, LatestKept
<1>2. CASE chan.cursor = 0
  <2>. SUFFICES ASSUME NEW t \in 0 .. MaxPosts, NEW q \in PostIds, IsTop(t)', q <= t, q \notin Known'
                PROVE  /\ \A y \in LatestPage' : q < y
                       /\ reader'[Sweep].window => \A x \in InHand(Sweep)' : q < x
    BY <1>2 DEF NewChannel
  <2>1. t # 0 /\ q \in Nat /\ t \in Nat
    BY NumbersIs
  <2>2. PICK t0 \in 0 .. MaxPosts : IsTop(t0) /\ \A k \in PostIds : t0 < k /\ k <= t => k \in Known'
    BY <2>1 DEF TopsKept
  <2>3. q <= t0
    <3>1. ~ (t0 < q) /\ t0 \in Nat
      BY <2>2
    <3>. QED BY <2>1, <3>1
  <2>4. q \notin Known
    BY DEF KnownGrows
  <2>5. /\ \A y \in LatestPage : q < y
        /\ reader[Sweep].window => \A x \in InHand(Sweep) : q < x
    BY <1>0, <1>2, <2>2, <2>3, <2>4 DEF NewChannel
  <2>6. \A y \in Nat : published < y => q < y
    <3>1. t0 <= published /\ t0 \in Nat
      BY <2>2, TopsIs
    <3>. QED BY <1>0, <2>1, <2>3, <3>1
  <2>. QED BY <2>5, <2>6 DEF LatestKept, WindowKept, HandShrinks
<1>. QED BY <1>0, <1>1, <1>2

(* A step that keeps the cursor.                                            *)
LEMMA QuietStep ==
  ASSUME Shapes, Reaches, KnownGrows, TopsKept, BottomsKept, LatestKept, ForwardKept, WindowKept,
         \A w \in Workers : HandKept(w), chan'.cursor = chan.cursor,
         chan.initial => chan'.initial
  PROVE  Reaches'
<1>1. Covered'
  BY CoveredStep DEF Reaches
<1>2. \A w \in Workers : OlderReaches(w)'
  BY OlderStep DEF Reaches
<1>3. ForwardReaches'
  BY ForwardStep DEF Reaches
<1>4. WindowReaches'
  BY WindowStep DEF Reaches
<1>5. NewChannel'
  BY NewStep DEF Reaches
<1>. QED BY <1>1, <1>2, <1>3, <1>4, <1>5 DEF Reaches

LEMMA LatestIs == \A n \in Nat : Newest(Limit, 1 .. n) = {p \in 1 .. n : n - p < Limit}
BY NewestIs

LEMMA LatestStays == ASSUME published' = published PROVE LatestKept
BY DEF LatestKept, LatestPage

(* What readers remember when they stop, start or go on quietly.            *)
Remembers(r) ==
  /\ reader'[r].seen \subseteq reader[r].seen \cup {chan.last}
  /\ reader'[r].from \in {0, reader[r].from, chan.last} \cup reader[r].seen
  /\ r \in Workers => reader'[r].cur \in {0, chan.cursor, reader[r].cur}

LEMMA RemembersKeeps ==
  ASSUME Shapes, chan'.last = chan.last, chan'.cursor = chan.cursor,
         \A r \in Readers : Remembers(r)
  PROVE  TopsKept /\ BottomsKept
<1>1. chan.last \in 0 .. MaxPosts
  BY ShapesGive
<1>2. ASSUME NEW t \in 0 .. MaxPosts, IsTop(t)', t # 0 PROVE IsTop(t)
  BY <1>2 DEF IsTop, Remembers
<1>3. TopsKept
  <2>1. \A t \in 0 .. MaxPosts, q \in PostIds : ~ (t < q /\ q <= t)
    BY NumbersIs
  <2>. QED BY <1>2, <2>1 DEF TopsKept
<1>4. BottomsKept
  <2>1. Workers \subseteq Readers
    BY DEF Readers
  <2>. QED BY <2>1 DEF BottomsKept, IsBottom, Remembers
<1>. QED BY <1>3, <1>4

LEMMA QuietReaders ==
  ASSUME Shapes, Reaches, KnownGrows, LatestKept, ForwardKept, WindowKept,
         \A w \in Workers : HandKept(w),
         chan'.last = chan.last, chan'.cursor = chan.cursor, chan.initial => chan'.initial,
         \A r \in Readers : Remembers(r)
  PROVE  Reaches'
BY RemembersKeeps, QuietStep

(* Readers that stop, or that are left alone.                               *)
SameReading(r) ==
  /\ reader'[r].page = reader[r].page /\ reader'[r].at = reader[r].at
  /\ reader'[r].seen = reader[r].seen /\ reader'[r].cur = reader[r].cur
  /\ reader'[r].from = reader[r].from /\ reader'[r].window = reader[r].window

LEMMA StoppedReaches ==
  ASSUME Shapes, Reaches, KnownGrows, published' = published,
         chan'.last = chan.last, chan'.cursor = chan.cursor, chan.initial => chan'.initial,
         \A r \in Readers : SameReading(r) \/ Blank(r)'
  PROVE  Reaches'
<1>1. LatestKept
  BY LatestStays
<1>2. ASSUME NEW r \in Readers, SameReading(r)
      PROVE  HandShrinks(r) /\ Remembers(r) /\ InHand(r)' = InHand(r)
  BY <1>2 DEF HandShrinks, Remembers, InHand, SameReading
<1>3. ASSUME NEW r \in Readers, Blank(r)'
      PROVE  InHand(r)' = {} /\ Remembers(r)
  BY <1>3 DEF InHand, Remembers, Blank
<1>4. Workers \subseteq Readers /\ Sweep \in Readers
  BY DEF Readers
<1>5. ForwardKept
  BY <1>2, <1>3, <1>4 DEF ForwardKept, SameReading
<1>6. WindowKept
  BY <1>2, <1>3, <1>4 DEF WindowKept, SameReading, Blank
<1>7. \A w \in Workers : HandKept(w)
  BY <1>2, <1>3, <1>4 DEF HandKept
<1>8. \A r \in Readers : Remembers(r)
  BY <1>2, <1>3
<1>. QED BY <1>1, <1>5, <1>6, <1>7, <1>8, QuietReaders

LEMMA BlankedIs ==
  ASSUME Shapes, NEW r \in Readers, reader'[r] \in {reader[r], Off, Listening}
  PROVE  SameReading(r) \/ Blank(r)'
<1>1. /\ Listening.page = {} /\ Listening.at = 0 /\ Listening.seen = {} /\ Listening.cur = 0
      /\ Listening.from = 0 /\ Listening.window = FALSE /\ Listening.got = 0
  BY OffIs DEF Listening, ReaderType
<1>2. CASE reader'[r] = reader[r]
  BY <1>2 DEF SameReading
<1>3. CASE reader'[r] = Off
  BY <1>3, OffIs DEF Blank
<1>4. CASE reader'[r] = Listening
  BY <1>1, <1>4 DEF Blank
<1>. QED BY <1>2, <1>3, <1>4

LEMMA SilentReaches ==
  ASSUME Shapes, Reaches, handled \subseteq handled', UNCHANGED <<published, chan, overtaken>>,
         \A r \in Readers : reader'[r] \in {reader[r], Off, Listening}
  PROVE  Reaches'
<1>1. KnownGrows
  BY DEF KnownGrows, Known
<1>. QED BY <1>1, BlankedIs, StoppedReaches

LEMMA StopReaches ==
  ASSUME Shapes, Reaches, NEW r \in Readers, NEW how, Stop(r, how),
         handled \subseteq handled', UNCHANGED <<published, chan, overtaken>>
  PROVE  Reaches'
<1>1. \A x \in Readers : reader'[x] \in {reader[x], Off}
  BY DEF Stop
<1>. QED BY <1>1, SilentReaches

LEMMA ListenerReaches ==
  ASSUME Shapes, Reaches, NEW x \in {Off, reader[Live], Listening},
         reader' = [reader EXCEPT ![Live] = x], UNCHANGED <<published, chan, handled, overtaken>>
  PROVE  Reaches'
<1>1. reader \in [Readers -> ReaderType] /\ Live \in Readers
  BY ShapesGive DEF Readers
<1>2. \A r \in Readers : reader'[r] \in {reader[r], Off, Listening}
  BY <1>1
<1>. QED BY <1>2, SilentReaches

LEMMA CrawlerSideReaches ==
  ASSUME Shapes, Reaches, Reload \/ RetryIncomplete \/ Supervise \/ SweepEnds \/ CrawlerStops \/ Unpark
  PROVE  Reaches'
<1>1. reader \in [Readers -> ReaderType] /\ {Sweep, Live} \subseteq Readers
  BY ShapesGive DEF Readers
<1>2. ASSUME NEW reloads \in BOOLEAN, NEW ok \in BOOLEAN, Reconciles(reloads, ok) PROVE Reaches'
  BY <1>2, StartedIs, ListenerReaches DEF Reconciles, tables
<1>3. CASE Supervise
  BY <1>3, StartedIs, ListenerReaches DEF Supervise, tables
<1>4. CASE SweepEnds
  <2>1. UNCHANGED <<published, chan, handled, overtaken>>
    BY <1>4 DEF SweepEnds, tables
  <2>2. \A r \in Readers : reader'[r] \in {reader[r], Off}
    BY <1>1, <1>4 DEF SweepEnds
  <2>. QED BY <2>1, <2>2, SilentReaches
<1>5. CASE CrawlerStops
  <2>1. UNCHANGED <<published, chan, handled, overtaken>>
    BY <1>5 DEF CrawlerStops, tables
  <2>2. \A r \in Readers : reader'[r] \in {reader[r], Off}
    BY <1>1, <1>5 DEF CrawlerStops
  <2>. QED BY <2>1, <2>2, SilentReaches
<1>6. CASE Unpark
  <2>1. UNCHANGED <<published, chan, reader, handled, overtaken>>
    BY <1>6 DEF Unpark, tables
  <2>. QED BY <2>1, SilentReaches
<1>. QED BY <1>2, <1>3, <1>4, <1>5, <1>6 DEF Reload, RetryIncomplete

LEMMA PublishReaches ==
  ASSUME Shapes, Reaches, Publish
  PROVE  Reaches'
<1>1. /\ reader \in [Readers -> ReaderType] /\ published \in Nat /\ Live \in Readers
      /\ reader[Live] \in ReaderType
  BY ShapesGive, ReaderGives DEF RestFits, Readers
<1>2. published' = published + 1 /\ UNCHANGED <<chan, handled, overtaken>>
  BY DEF Publish
<1>3. LatestKept
  <2>1. LatestPage = {p \in 1 .. published : published - p < Limit}
    BY <1>1, LatestIs DEF LatestPage
  <2>2. LatestPage' = {p \in 1 .. published + 1 : published + 1 - p < Limit}
    BY <1>1, <1>2, LatestIs DEF LatestPage
  <2>. QED BY <1>1, <2>1, <2>2 DEF LatestKept
<1>4. /\ \A r \in Readers \ {Live} : SameReading(r)
      /\ \A r \in Readers : Remembers(r)
  <2>1. CASE reader' = reader
    BY <2>1 DEF SameReading, Remembers
  <2>2. CASE reader' = [reader EXCEPT ![Live].page = @ \cup {published + 1}]
    <3>1. \A r \in Readers \ {Live} : reader'[r] = reader[r]
      BY <1>1, <2>2
    <3>2. /\ reader'[Live].seen = reader[Live].seen /\ reader'[Live].from = reader[Live].from
          /\ reader'[Live].cur = reader[Live].cur
      BY <1>1, <2>2 DEF ReaderType
    <3>. QED BY <3>1, <3>2 DEF SameReading, Remembers
  <2>. QED BY <2>1, <2>2 DEF Publish
<1>5. KnownGrows
  BY <1>2 DEF KnownGrows, Known
<1>6. Sweep \in Readers \ {Live} /\ Workers \subseteq Readers \ {Live}
  BY DEF Readers
<1>7. \A r \in Workers \cup {Sweep} : HandShrinks(r) /\ InHand(r)' = InHand(r)
  BY <1>4, <1>6 DEF HandShrinks, InHand, SameReading
<1>8. ForwardKept /\ WindowKept
  BY <1>4, <1>6, <1>7 DEF ForwardKept, WindowKept, SameReading
<1>9. \A w \in Workers : HandKept(w)
  BY <1>7 DEF HandKept
<1>. QED BY <1>2, <1>3, <1>4, <1>5, <1>8, <1>9, QuietReaders

LEMMA WorkerSideReaches ==
  ASSUME Shapes, Reaches, NEW w \in Workers,
         QueueBackfill \/ ClaimWaits(w) \/ PageEnds(w) \/ \E gently \in BOOLEAN : WorkerStops(w, gently)
  PROVE  Reaches'
<1>1. reader \in [Readers -> ReaderType] /\ w \in Readers /\ chan \in ChanType
  BY ShapesGive DEF Readers, RestFits
<1>2. UNCHANGED <<published, handled, overtaken>>
  BY DEF QueueBackfill, ClaimWaits, PageEnds, WorkerStops, tables
<1>3. chan'.last = chan.last /\ chan'.cursor = chan.cursor /\ chan'.initial = chan.initial
  BY <1>1 DEF QueueBackfill, ClaimWaits, PageEnds, WorkerStops, tables, ChanType
<1>4. \A r \in Readers : reader'[r] \in {reader[r], Off}
  BY <1>1 DEF QueueBackfill, ClaimWaits, PageEnds, WorkerStops
<1>5. \A r \in Readers : SameReading(r) \/ Blank(r)'
  BY <1>4, BlankedIs
<1>6. KnownGrows
  BY <1>2 DEF KnownGrows, Known
<1>. QED BY <1>2, <1>3, <1>5, <1>6, StoppedReaches

LEMMA ClaimReaches ==
  ASSUME Shapes, Reaches, NEW w \in Workers, Claim(w)
  PROVE  Reaches'
<1>1. reader \in [Readers -> ReaderType] /\ w \in Readers
  BY ShapesGive DEF Readers
<1>2. UNCHANGED <<published, chan, handled, overtaken>>
  BY DEF Claim, tables
<1>3. KnownGrows
  BY <1>2 DEF KnownGrows, Known
<1>4. Blank(w)'
  <2>1. reader'[w] = [Off EXCEPT !.stage = "claimed", !.mine = TRUE]
    BY <1>1 DEF Claim
  <2>. QED BY <2>1, ClaimedIs DEF Blank
<1>5. ASSUME NEW r \in Readers \ {w} PROVE SameReading(r)
  <2>1. reader'[r] = [reader[r] EXCEPT !.mine = FALSE] /\ reader[r] \in ReaderType
    BY <1>1 DEF Claim
  <2>. QED BY <2>1 DEF SameReading, ReaderType
<1>. QED BY <1>2, <1>3, <1>4, <1>5, StoppedReaches

(* A reader that reads on without passing its post.                         *)
LEMMA OneReaderQuiet ==
  ASSUME Shapes, Reaches, KnownGrows, UNCHANGED <<published, chan>>, NEW r \in Readers,
         NEW x, reader' = [reader EXCEPT ![r] = x],
         x.page \cup ({x.at} \ {0}) = InHand(r),
         x.seen = reader[r].seen \/ x.seen = {chan.last}, x.from = reader[r].from,
         x.cur \in {reader[r].cur, chan.cursor}, x.window = reader[r].window
  PROVE  Reaches'
<1>1. /\ reader'[r] = x /\ \A s \in Readers \ {r} : reader'[s] = reader[s]
  BY ShapesGive
<1>2. InHand(r)' = InHand(r) /\ Remembers(r)
  BY <1>1 DEF InHand, Remembers
<1>3. ASSUME NEW s \in Readers \ {r} PROVE InHand(s)' = InHand(s) /\ Remembers(s)
  BY <1>1 DEF InHand, Remembers
<1>4. \A s \in Readers : InHand(s)' = InHand(s) /\ Remembers(s) /\ HandShrinks(s)
  BY <1>2, <1>3 DEF HandShrinks
<1>5. Workers \subseteq Readers /\ Sweep \in Readers
  BY DEF Readers
<1>6. /\ reader'[Sweep].from = reader[Sweep].from /\ reader'[Sweep].window = reader[Sweep].window
      /\ reader'[Sweep].cur \in {reader[Sweep].cur, chan.cursor}
  BY <1>1, <1>5
<1>7. ForwardKept /\ WindowKept
  BY <1>4, <1>5, <1>6 DEF ForwardKept, WindowKept
<1>8. \A w \in Workers : HandKept(w)
  BY <1>4, <1>5 DEF HandKept
<1>. QED BY <1>4, <1>7, <1>8, LatestStays, QuietReaders

LEMMA ObserveReaches ==
  ASSUME Shapes, Reaches, NEW r \in Readers, Observe(r)
  PROVE  Reaches'
<1> DEFINE p == NextOf(r)
           tries == IF History(r) THEN Smaller(post[p].tries + 1, MaxTries) ELSE 0
           seen == IF reader[r].seen = {} THEN {chan.last} ELSE reader[r].seen
           got == IF r = Live THEN 0 ELSE reader[r].got + 1
           page == reader[r].page \ {p}
           x == [reader[r] EXCEPT !.stage = "observed", !.at = p, !.page = page,
                   !.tries = tries, !.seen = seen, !.got = got]
<1>1. /\ reader[r] \in ReaderType /\ reader[r].stage = "turn" /\ reader[r].page # {}
      /\ reader[r].at = 0
  BY ReaderGives DEF Observe, ReaderShape
<1>2. p \in reader[r].page /\ p # 0
  BY <1>1, NextIs, NumbersIs
<1>3. reader' = [reader EXCEPT ![r] = x]
  BY DEF Observe
<1>4. seen = reader[r].seen \/ seen = {chan.last}
  OBVIOUS
<1> HIDE DEF p, tries, seen, got
<1>5. /\ x.page = page /\ x.at = p /\ x.seen = seen /\ x.from = reader[r].from
      /\ x.cur = reader[r].cur /\ x.window = reader[r].window
  BY <1>1 DEF ReaderType
<1>6. page \cup ({p} \ {0}) = InHand(r)
  BY <1>1, <1>2 DEF InHand
<1> HIDE DEF x, page
<1>7. KnownGrows /\ UNCHANGED <<published, chan>>
  BY DEF Observe, KnownGrows, Known
<1>. QED BY <1>3, <1>4, <1>5, <1>6, <1>7, OneReaderQuiet

LEMMA ResolveReaches ==
  ASSUME Shapes, Reaches, NEW r \in Readers, Resolve(r)
  PROVE  Reaches'
<1> DEFINE stage == IF reader[r].at \in ingested THEN "accepted" ELSE "downloading"
           x == [reader[r] EXCEPT !.stage = stage]
<1>1. reader[r] \in ReaderType
  BY ReaderGives
<1>2. reader' = [reader EXCEPT ![r] = x]
  BY <1>1, ShapesGive DEF Resolve, ReaderType
<1> HIDE DEF stage
<1>3. /\ x.page = reader[r].page /\ x.at = reader[r].at /\ x.seen = reader[r].seen
      /\ x.from = reader[r].from /\ x.cur = reader[r].cur /\ x.window = reader[r].window
  BY <1>1 DEF ReaderType
<1> HIDE DEF x
<1>4. KnownGrows /\ UNCHANGED <<published, chan>>
  BY DEF Resolve, KnownGrows, Known, tables
<1>5. x.page \cup ({x.at} \ {0}) = InHand(r)
  BY <1>3 DEF InHand
<1>. QED BY <1>2, <1>3, <1>4, <1>5, OneReaderQuiet

LEMMA AcceptReaches ==
  ASSUME Shapes, Reaches, NEW r \in Readers, Accept(r)
  PROVE  Reaches'
<1>1. reader[r] \in ReaderType
  BY ReaderGives
<1>2. PICK reread \in BOOLEAN :
        reader' = [reader EXCEPT ![r] =
          [@ EXCEPT !.stage = "accepted",
                    !.seen = IF reread THEN {chan.last} ELSE reader[r].seen,
                    !.cur = IF reread THEN chan.cursor ELSE reader[r].cur]]
  BY DEF Accept
<1> DEFINE seen == IF reread THEN {chan.last} ELSE reader[r].seen
           cur == IF reread THEN chan.cursor ELSE reader[r].cur
           x == [reader[r] EXCEPT !.stage = "accepted", !.seen = seen, !.cur = cur]
<1>3. reader' = [reader EXCEPT ![r] = x]
  BY <1>2
<1>4. (seen = reader[r].seen \/ seen = {chan.last}) /\ cur \in {reader[r].cur, chan.cursor}
  OBVIOUS
<1> HIDE DEF seen, cur
<1>5. /\ x.page = reader[r].page /\ x.at = reader[r].at /\ x.seen = seen
      /\ x.from = reader[r].from /\ x.cur = cur /\ x.window = reader[r].window
  BY <1>1 DEF ReaderType
<1> HIDE DEF x
<1>6. KnownGrows /\ UNCHANGED <<published, chan>>
  BY DEF Accept, KnownGrows, Known
<1>7. x.page \cup ({x.at} \ {0}) = InHand(r)
  BY <1>5 DEF InHand
<1>. QED BY <1>3, <1>4, <1>5, <1>6, <1>7, OneReaderQuiet

(* A page of history starts right below the cursor.                         *)
LEMMA BeginPageReaches ==
  ASSUME Shapes, Reaches, NEW w \in Workers, BeginPage(w)
  PROVE  Reaches'
<1>1. /\ RestFits /\ reader \in [Readers -> ReaderType] /\ w \in Readers /\ w # Sweep
      /\ reader[w].stage = "claimed" /\ Sweep \in Readers /\ Workers \subseteq Readers
      /\ chan.cursor \in 0 .. MaxPosts /\ chan.cursor \in 0 .. published /\ published \in 0 .. MaxPosts
  BY ShapesGive DEF Readers, BeginPage, RestFits
<1>2. UNCHANGED <<published, chan, handled, overtaken>>
  BY DEF BeginPage, tables
<1>3. job.status # "none" /\ chan.cursor # 0
  BY <1>1, ReaderGives DEF ReaderShape, Shapes
<1> DEFINE want == Smaller(job.left, Limit)
<1>4. want \in 0 .. Limit /\ want \in Nat
  BY <1>1 DEF Smaller, RestFits, JobFits, JobType
<1>5. CASE reader' = [reader EXCEPT ![w] = Off]
  <2>1. \A s \in Readers : reader'[s] \in {reader[s], Off}
    BY <1>1, <1>5
  <2>. QED BY <1>2, <2>1, SilentReaches
<1>6. CASE reader' = [reader EXCEPT ![w] = PageOf(w, want)]
  <2> DEFINE x == PageOf(w, want)
  <2>1. /\ x.page = OlderPage(want) /\ x.at = 0 /\ x.seen = {} /\ x.cur = chan.cursor /\ x.from = 0
    <3>1. IsPage(PageOf(w, want), want)
      BY <1>1, <1>4, PageOfIs
    <3>. QED BY <3>1 DEF IsPage
  <2>2. reader'[w] = x /\ \A s \in Readers \ {w} : reader'[s] = reader[s]
    BY <1>1, <1>6
  <2> HIDE DEF x
  <2>3. \A s \in Readers : Remembers(s)
    BY <2>1, <2>2 DEF Remembers
  <2>4. TopsKept /\ BottomsKept /\ LatestKept
    BY <1>2, <2>3, RemembersKeeps, LatestStays
  <2>5. KnownGrows
    BY <1>2 DEF KnownGrows, Known
  <2>6. \A s \in Readers \ {w} : HandShrinks(s) /\ InHand(s)' = InHand(s)
    BY <2>2 DEF HandShrinks, InHand
  <2>7. ForwardKept /\ WindowKept
    BY <1>1, <2>2, <2>6 DEF ForwardKept, WindowKept
  <2>8. Covered' /\ ForwardReaches' /\ WindowReaches' /\ NewChannel'
    BY <1>2, <2>4, <2>5, <2>7, CoveredStep, ForwardStep, WindowStep, NewStep DEF Reaches
  <2>9. \A v \in Workers \ {w} : OlderReaches(v)'
    BY <1>1, <2>4, <2>5, <2>6, OlderStep DEF Reaches, HandKept
  <2>10. OlderReaches(w)'
    <3>1. InHand(w)' = {p \in 1 .. (chan.cursor - 1) : chan.cursor - 1 - p < want}
      BY <1>1, <1>3, <1>4, <2>1, <2>2, OlderPageIs DEF InHand
    <3>. SUFFICES ASSUME NEW k \in InHand(w)', NEW t \in 0 .. MaxPosts, NEW q \in PostIds,
                         IsTop(t)', k < q, q <= t
                  PROVE  q \in Known' \cup InHand(w)'
      BY DEF OlderReaches
    <3>2. t # 0 /\ q \in Nat /\ t \in Nat /\ q # 0
      BY NumbersIs
    <3>3. PICK t0 \in 0 .. MaxPosts : IsTop(t0) /\ \A i \in PostIds : t0 < i /\ i <= t => i \in Known'
      BY <3>2, <2>4 DEF TopsKept
    <3>4. CASE q < chan.cursor
      BY <1>1, <1>4, <3>1, <3>2, <3>4
    <3>5. CASE chan.cursor <= q /\ q <= t0
      <4>1. chan.cursor \in PostIds /\ IsBottom(chan.cursor)
        BY <1>1, <1>3 DEF PostIds, IsBottom
      <4>2. q \in Known
        BY <3>3, <3>5, <4>1 DEF Reaches, Covered
      <4>. QED BY <2>5, <4>2 DEF KnownGrows
    <3>6. CASE t0 < q
      BY <3>3, <3>6
    <3>7. t0 \in Nat /\ chan.cursor \in Nat
      BY <1>1, <3>3
    <3>. QED BY <3>2, <3>4, <3>5, <3>6, <3>7
  <2>. QED BY <2>8, <2>9, <2>10 DEF Reaches
<1>. QED BY <1>5, <1>6 DEF BeginPage, PageOf

(* A forward page starts right above a checkpoint.                          *)
LEMMA ForwardStarts ==
  ASSUME Shapes, Reaches, KnownGrows, published' = published,
         chan'.last = chan.last, chan'.cursor = chan.cursor, chan.initial => chan'.initial,
         NEW m \in 0 .. published, m = chan.last \/ m \in reader[Sweep].seen,
         NEW x, reader' = [reader EXCEPT ![Sweep] = x], x.page = ForwardPage(m), x.at = 0,
         x.seen = {m}, x.from = m, x.window = FALSE
  PROVE  Reaches'
<1>1. /\ Sweep \in Readers /\ Workers \subseteq Readers \ {Sweep}
      /\ reader'[Sweep] = x /\ \A s \in Readers \ {Sweep} : reader'[s] = reader[s]
      /\ published \in 0 .. MaxPosts
  BY ShapesGive DEF Readers, RestFits
<1>2. \A s \in Readers : Remembers(s)
  <2>1. Remembers(Sweep)
    BY <1>1 DEF Remembers
  <2>2. \A s \in Readers \ {Sweep} : Remembers(s)
    BY <1>1 DEF Remembers
  <2>. QED BY <2>1, <2>2
<1>3. TopsKept /\ BottomsKept /\ LatestKept
  BY <1>2, RemembersKeeps, LatestStays
<1>4. \A w \in Workers : HandKept(w)
  BY <1>1 DEF HandKept, HandShrinks, InHand
<1>5. WindowKept
  BY <1>1 DEF WindowKept
<1>6. Covered' /\ WindowReaches' /\ NewChannel'
  BY <1>3, <1>5, CoveredStep, WindowStep, NewStep DEF Reaches
<1>7. \A w \in Workers : OlderReaches(w)'
  BY <1>3, <1>4, OlderStep DEF Reaches
<1>8. ForwardReaches'
  <2>1. InHand(Sweep)' = ForwardPage(m) /\ reader'[Sweep].from = m
    BY <1>1 DEF InHand
  <2>2. /\ ForwardPage(m) \subseteq (m + 1) .. published
        /\ \A k \in ForwardPage(m), q \in (m + 1) .. published : q < k => q \in ForwardPage(m)
    BY ForwardPageIs
  <2>3. ASSUME NEW k \in ForwardPage(m), NEW q \in PostIds, m < q, q < k
        PROVE  q \in ForwardPage(m)
    <3>1. q \in (m + 1) .. published
      BY <1>1, <2>2, <2>3, NumbersIs
    <3>. QED BY <2>2, <2>3, <3>1
  <2>. QED BY <2>1, <2>3 DEF ForwardReaches
<1>. QED BY <1>6, <1>7, <1>8 DEF Reaches

LEMMA BeginSweepReaches ==
  ASSUME Shapes, Reaches, BeginSweep
  PROVE  Reaches'
<1>1. /\ Sweep \in Readers /\ Workers \subseteq Readers \ {Sweep}
      /\ reader \in [Readers -> ReaderType]
      /\ published \in 0 .. MaxPosts /\ chan.last \in 0 .. published
      /\ chan.cursor \in 0 .. published /\ chan.cursor \in 0 .. MaxPosts /\ reader[Sweep] = Off
  BY ShapesGive DEF Readers, RestFits, BeginSweep
<1>2. UNCHANGED <<published, chan, handled>>
  BY DEF BeginSweep, tables
<1>3. KnownGrows
  BY <1>2 DEF KnownGrows, Known, BeginSweep
<1>4. CASE parked
  <2>1. reader' = reader /\ overtaken' = overtaken
    BY <1>4 DEF BeginSweep
  <2>. QED BY <1>2, <2>1, SilentReaches
<1>5. CASE ~parked /\ chan.initial
  <2> DEFINE x == ForwardSweep(chan.last)
  <2>1. reader' = [reader EXCEPT ![Sweep] = x]
    BY <1>5 DEF BeginSweep
  <2>2. /\ x.page = ForwardPage(chan.last) /\ x.seen = {chan.last} /\ x.from = chan.last
        /\ x.window = FALSE /\ x.at = 0
    BY <1>1, PlainForwardSweepStarts DEF StartsOn
  <2> HIDE DEF x
  <2>. QED BY <1>1, <1>2, <1>3, <2>1, <2>2, ForwardStarts
<1>6. CASE ~parked /\ ~chan.initial
  <2> DEFINE x == WindowSweep
  <2>1. /\ x.page = LatestPage /\ x.seen = {chan.last} /\ x.from = 0
        /\ x.window = TRUE /\ x.at = 0 /\ x.cur = chan.cursor
    BY WindowSweepStarts DEF StartsOn
  <2>2. reader' = [reader EXCEPT ![Sweep] = x]
    BY <1>6 DEF BeginSweep
  <2> HIDE DEF x
  <2>3. /\ reader'[Sweep] = x /\ \A s \in Readers \ {Sweep} : reader'[s] = reader[s]
        /\ InHand(Sweep)' = LatestPage /\ LatestPage' = LatestPage
    BY <1>1, <1>2, <2>1, <2>2 DEF InHand, LatestPage
  <2>4. \A s \in Readers : Remembers(s)
    <3>1. Remembers(Sweep)
      BY <1>1, <2>1, <2>3 DEF Remembers
    <3>2. \A s \in Readers \ {Sweep} : Remembers(s)
      BY <2>3 DEF Remembers
    <3>. QED BY <3>1, <3>2
  <2>5. TopsKept /\ BottomsKept
    BY <1>2, <2>4, RemembersKeeps
  <2>6. \A w \in Workers : HandKept(w)
    BY <1>1, <2>3 DEF HandKept, HandShrinks, InHand
  <2>7. Covered' /\ \A w \in Workers : OlderReaches(w)'
    BY <1>3, <2>5, <2>6, CoveredStep, OlderStep DEF Reaches
  <2>8. ForwardReaches'
    BY <2>1, <2>3 DEF ForwardReaches
  <2>9. LatestPage = {p \in 1 .. published : published - p < Limit}
    BY LatestPageIs
  <2>10. chan.cursor # 0 => chan.cursor \in Known /\ \A y \in LatestPage : chan.cursor <= y
    BY <1>6 DEF Reaches, NewChannel
  <2>11. WindowReaches'
    <3>1. CASE chan.cursor # 0
      <4>1. ASSUME NEW k \in LatestPage, NEW q \in PostIds, chan.cursor <= q, q < k
            PROVE  q \in Known' \cup LatestPage
        <5>1. q \in 1 .. published
          BY <1>1, <2>9, <4>1, NumbersIs
        <5>2. CASE q = chan.cursor
          BY <1>3, <2>10, <3>1, <5>2 DEF KnownGrows
        <5>3. CASE q # chan.cursor /\ q \notin LatestPage
          <6>1. q > chan.cursor
            BY <1>1, <4>1, <5>1, <5>3
          <6>2. q \in OutOfWindow
            BY <3>1, <5>1, <5>3, <6>1 DEF OutOfWindow
          <6>3. overtaken' = overtaken \cup (OutOfWindow \ handled)
            BY <1>6 DEF BeginSweep
          <6>. QED BY <1>2, <6>2, <6>3 DEF Known
        <5>. QED BY <5>2, <5>3
      <4>. QED BY <1>2, <2>1, <2>3, <2>10, <3>1, <4>1 DEF WindowReaches
    <3>2. CASE chan.cursor = 0
      <4>1. ASSUME NEW k \in LatestPage, NEW y \in LatestPage, NEW q \in PostIds, y <= q, q < k
            PROVE  q \in LatestPage
        <5>1. q \in 1 .. published
          BY <1>1, <2>9, <4>1, NumbersIs
        <5>2. published - q < Limit
          BY <1>1, <2>9, <4>1, <5>1
        <5>. QED BY <2>9, <5>1, <5>2
      <4>. QED BY <1>2, <2>1, <2>3, <3>2, <4>1 DEF WindowReaches
    <3>. QED BY <3>1, <3>2
  <2>12. NewChannel'
    <3>1. CASE chan.cursor # 0
      BY <1>2, <1>3, <2>3, <2>10, <3>1 DEF NewChannel, KnownGrows
    <3>2. CASE chan.cursor = 0
      <4>. SUFFICES ASSUME NEW t \in 0 .. MaxPosts, NEW q \in PostIds, IsTop(t)', q <= t, q \notin Known'
                    PROVE  \A y \in LatestPage : q < y
        BY <1>2, <2>3, <3>2 DEF NewChannel
      <4>1. t # 0 /\ q \in Nat /\ t \in Nat
        BY NumbersIs
      <4>2. PICK t0 \in 0 .. MaxPosts : IsTop(t0) /\ \A k \in PostIds : t0 < k /\ k <= t => k \in Known'
        BY <2>5, <4>1 DEF TopsKept
      <4>3. q <= t0
        <5>1. ~ (t0 < q) /\ t0 \in Nat
          BY <4>1, <4>2
        <5>. QED BY <4>1, <5>1
      <4>. QED BY <1>3, <1>6, <3>2, <4>2, <4>3 DEF Reaches, NewChannel, KnownGrows
    <3>. QED BY <3>1, <3>2
  <2>. QED BY <2>7, <2>8, <2>11, <2>12 DEF Reaches
<1>. QED BY <1>4, <1>5, <1>6

LEMMA SweepGoesOnReaches ==
  ASSUME Shapes, Reaches, WindowEnds \/ NextPage
  PROVE  Reaches'
<1> DEFINE x == SweepFrom(Remembered, reader[Sweep].bad)
<1>1. chan \in ChanType /\ reader[Sweep].stage # "off"
  BY ShapesGive DEF RestFits, WindowEnds, NextPage
<1>2. /\ x.page = ForwardPage(Remembered) /\ x.seen = {Remembered} /\ x.from = Remembered
      /\ x.window = FALSE /\ x.at = 0
  BY <1>1, NextSweepStarts DEF StartsOn
<1>3. Remembered \in 0 .. published /\ Remembered \in reader[Sweep].seen
  BY <1>1, RememberedIs
<1>4. reader' = [reader EXCEPT ![Sweep] = x]
  BY DEF WindowEnds, NextPage, SweepFrom
<1>5. /\ UNCHANGED <<published, handled, overtaken>> /\ chan'.last = chan.last
      /\ chan'.cursor = chan.cursor /\ (chan.initial => chan'.initial)
  BY <1>1 DEF WindowEnds, NextPage, tables, ChanType
<1>6. KnownGrows
  BY <1>5 DEF KnownGrows, Known
<1> HIDE DEF x
<1>. QED BY <1>2, <1>3, <1>4, <1>5, <1>6, ForwardStarts

(* Passing a post.                                                          *)
LEMMA PassGives ==
  ASSUME Shapes, NEW r \in Readers, NEW x \in ReaderType, NEW stage, NEW ahead, NEW older,
         PassesTo(r, x, stage, ahead, older), published' = published, reader[r].at # 0
  PROVE  /\ KnownGrows /\ reader[r].at \in Known' /\ LatestKept
         /\ \A s \in Readers : HandShrinks(s)
         /\ \A s \in Readers : reader'[s].from = reader[s].from /\ reader'[s].window = reader[s].window
         /\ \A s \in Readers \ {r} : reader'[s] = reader[s]
         /\ reader'[r] = x
         /\ chan'.initial = chan.initial
         /\ \A t : IsTop(t)' => IsTop(t) \/ (t = reader[r].at /\ Moves(r, ahead))
         /\ \A b : IsBottom(b)' => IsBottom(b) \/ (b = reader[r].at /\ Deeper(r, older))
         /\ InHand(r) \subseteq InHand(r)' \cup {reader[r].at}
<1> DEFINE p == reader[r].at
<1>1. /\ reader \in [Readers -> ReaderType] /\ Workers \subseteq Readers
      /\ reader' = [reader EXCEPT ![r] = x] /\ GoesOn(r, x)
  BY ShapesGive DEF PassesTo, Readers
<1>2. reader'[r] = x /\ \A s \in Readers \ {r} : reader'[s] = reader[s]
  BY <1>1
<1>3. KnownGrows /\ p \in Known'
  BY DEF PassesTo, KnownGrows, Known
<1>4. LatestKept
  BY LatestStays
<1>5. HandShrinks(r) /\ InHand(r) \subseteq InHand(r)' \cup {p}
  BY <1>1, <1>2, <1>3 DEF HandShrinks, InHand, GoesOn
<1>6. \A s \in Readers \ {r} : HandShrinks(s)
  BY <1>2 DEF HandShrinks, InHand
<1>7. \A s \in Readers : reader'[s].from = reader[s].from /\ reader'[s].window = reader[s].window
  BY <1>1, <1>2 DEF GoesOn
<1>8. ASSUME NEW t, IsTop(t)' PROVE IsTop(t) \/ (t = p /\ Moves(r, ahead))
  <2>1. CASE t = chan'.last
    BY <2>1 DEF PassesTo, IsTop
  <2>2. CASE \E s \in Readers : t \in reader'[s].seen
    BY <1>2, <2>2 DEF PassesTo, IsTop
  <2>3. CASE \E s \in Readers : t = reader'[s].from
    BY <1>7, <2>3 DEF IsTop
  <2>. QED BY <1>8, <2>1, <2>2, <2>3 DEF IsTop
<1>9. ASSUME NEW b, IsBottom(b)' PROVE IsBottom(b) \/ (b = p /\ Deeper(r, older))
  <2>1. CASE b = chan'.cursor
    BY <1>9, <2>1 DEF PassesTo, IsBottom
  <2>2. CASE \E w \in Workers : b = reader'[w].cur
    BY <1>1, <1>2, <1>9, <2>2 DEF PassesTo, IsBottom
  <2>. QED BY <1>9, <2>1, <2>2 DEF IsBottom
<1>10. chan'.initial = chan.initial
  BY DEF PassesTo
<1>. QED BY <1>2, <1>3, <1>4, <1>5, <1>6, <1>7, <1>8, <1>9, <1>10

LEMMA PassTops ==
  ASSUME Shapes, NEW r \in Readers, NEW ahead,
         \A t : IsTop(t)' => IsTop(t) \/ (t = reader[r].at /\ Moves(r, ahead)),
         Moves(r, ahead) =>
           \E t0 \in 0 .. MaxPosts :
             IsTop(t0) /\ \A q \in PostIds : t0 < q /\ q <= reader[r].at => q \in Known'
  PROVE  TopsKept
<1>1. \A t \in 0 .. MaxPosts, q \in PostIds : ~ (t < q /\ q <= t)
  BY NumbersIs
<1>. QED BY <1>1 DEF TopsKept

LEMMA PassReachesLive ==
  ASSUME Shapes, Reaches, NEW x \in ReaderType, NEW stage, NEW ahead,
         PassesTo(Live, x, stage, ahead, FALSE), published' = published, reader[Live].at # 0
  PROVE  Reaches'
<1>1. Live \in Readers /\ Sweep \in Readers \ {Live} /\ Workers \subseteq Readers
  BY DEF Readers
<1>2. /\ KnownGrows /\ reader[Live].at \in Known' /\ LatestKept
      /\ \A s \in Readers : HandShrinks(s)
      /\ \A s \in Readers \ {Live} : reader'[s] = reader[s]
      /\ chan'.initial = chan.initial
      /\ \A t : IsTop(t)' => IsTop(t) \/ (t = reader[Live].at /\ Moves(Live, ahead))
      /\ \A b : IsBottom(b)' => IsBottom(b) \/ (b = reader[Live].at /\ Deeper(Live, FALSE))
  BY <1>1, PassGives
<1>3. chan.last \in 0 .. MaxPosts /\ reader[Live].at \in PostIds /\ IsTop(chan.last)
  BY <1>1, ShapesGive, ReaderGives DEF IsTop
<1>4. ASSUME Moves(Live, ahead), NEW q \in PostIds, q <= reader[Live].at PROVE q \in Known'
  <2>1. overtaken' = overtaken \cup (1 .. (reader[Live].at - 1) \ handled)
    BY <1>4 DEF PassesTo
  <2>2. q = reader[Live].at \/ q \in 1 .. (reader[Live].at - 1)
    BY <1>3, <1>4 DEF PostIds
  <2>. QED BY <1>2, <2>1, <2>2 DEF Known, KnownGrows
<1>5. TopsKept
  BY <1>1, <1>2, <1>3, <1>4, PassTops
<1>6. BottomsKept /\ chan'.cursor = chan.cursor
  BY <1>2 DEF BottomsKept, Deeper, PassesTo
<1>7. ForwardKept /\ WindowKept
  BY <1>1, <1>2 DEF ForwardKept, WindowKept, InHand
<1>. QED BY <1>1, <1>2, <1>5, <1>6, <1>7, QuietStep DEF HandKept

LEMMA PassReachesWorker ==
  ASSUME Shapes, Reaches, NEW w \in Workers, NEW x \in ReaderType, NEW stage, NEW older,
         PassesTo(w, x, stage, FALSE, older), published' = published, reader[w].at # 0
  PROVE  Reaches'
<1>1. /\ w \in Readers /\ Sweep \in Readers \ {w} /\ Workers \subseteq Readers
      /\ ReaderShape(w) /\ ReaderShape(Sweep)
  BY ReaderGives DEF Readers
<1>2. /\ KnownGrows /\ reader[w].at \in Known' /\ LatestKept
      /\ \A s \in Readers : HandShrinks(s)
      /\ \A s \in Readers \ {w} : reader'[s] = reader[s]
      /\ chan'.initial = chan.initial
      /\ \A t : IsTop(t)' => IsTop(t) \/ (t = reader[w].at /\ Moves(w, FALSE))
      /\ \A b : IsBottom(b)' => IsBottom(b) \/ (b = reader[w].at /\ Deeper(w, older))
  BY <1>1, PassGives
<1>3. TopsKept
  BY <1>1, <1>2, PassTops DEF Moves
<1>4. reader[w].at \in PostIds /\ chan.initial /\ ~reader[Sweep].window
  <2>1. reader[w].stage # "off"
    BY <1>1 DEF ReaderShape
  <2>. QED BY <1>1, <2>1, ReaderGives DEF ReaderShape, Shapes
<1>5. ForwardKept /\ WindowKept
  <2>1. HandShrinks(Sweep) /\ reader'[Sweep] = reader[Sweep]
    BY <1>1, <1>2
  <2>. QED BY <1>4, <2>1 DEF ForwardKept, WindowKept
<1>6. Covered'
  <2>1. ASSUME NEW t \in 0 .. MaxPosts, NEW q \in PostIds, IsTop(t), reader[w].at <= q, q <= t
        PROVE  q \in Known'
    <3>1. CASE q = reader[w].at
      BY <1>2, <3>1
    <3>2. CASE reader[w].at < q
      <4>1. reader[w].at \in InHand(w)
        BY DEF InHand
      <4>2. q \in Known \cup InHand(w)
        BY <2>1, <3>2, <4>1 DEF Reaches, OlderReaches
      <4>3. q \notin InHand(w)
        <5>1. \A k \in reader[w].page : k < reader[w].at
          BY <1>1 DEF ReaderShape
        <5>2. ~ (q < reader[w].at)
          BY <1>4, <3>2, NumbersIs
        <5>3. q # reader[w].at
          BY <1>4, <3>2, NumbersIs
        <5>. QED BY <5>1, <5>2, <5>3 DEF InHand
      <4>. QED BY <1>2, <4>2, <4>3 DEF KnownGrows
    <3>. QED BY <1>4, <2>1, <3>1, <3>2, NumbersIs
  <2>. QED BY <1>2, <1>3, <1>4, <2>1, CoveredDeeper DEF Reaches
<1>7. \A v \in Workers : OlderReaches(v)'
  BY <1>1, <1>2, <1>3, OlderStep DEF Reaches, HandKept
<1>8. ForwardReaches'
  BY <1>2, <1>5, ForwardStep DEF Reaches
<1>9. WindowReaches' /\ NewChannel'
  BY <1>1, <1>2, <1>4 DEF WindowReaches, NewChannel
<1>. QED BY <1>6, <1>7, <1>8, <1>9 DEF Reaches

LEMMA PassReachesForward ==
  ASSUME Shapes, Reaches, NEW x \in ReaderType, NEW stage, NEW ahead,
         PassesTo(Sweep, x, stage, ahead, FALSE), published' = published, reader[Sweep].at # 0,
         ~reader[Sweep].window
  PROVE  Reaches'
<1>1. Sweep \in Readers /\ Workers \subseteq Readers \ {Sweep} /\ ReaderShape(Sweep)
      /\ reader[Sweep].at \in PostIds
  BY ReaderGives DEF Readers
<1>2. /\ KnownGrows /\ reader[Sweep].at \in Known' /\ LatestKept
      /\ \A s \in Readers : HandShrinks(s)
      /\ \A s \in Readers : reader'[s].from = reader[s].from /\ reader'[s].window = reader[s].window
      /\ chan'.initial = chan.initial
      /\ \A t : IsTop(t)' => IsTop(t) \/ (t = reader[Sweep].at /\ Moves(Sweep, ahead))
      /\ \A b : IsBottom(b)' => IsBottom(b) \/ (b = reader[Sweep].at /\ Deeper(Sweep, FALSE))
  BY <1>1, PassGives
<1>3. IsTop(reader[Sweep].from) /\ reader[Sweep].from \in 0 .. MaxPosts
  BY <1>1, TopsIs DEF IsTop
<1>4. ASSUME NEW q \in PostIds, reader[Sweep].from < q, q <= reader[Sweep].at PROVE q \in Known'
  <2>1. CASE q = reader[Sweep].at
    BY <1>2, <2>1
  <2>2. CASE q < reader[Sweep].at
    <3>1. reader[Sweep].at \in InHand(Sweep)
      BY DEF InHand
    <3>2. q \in Known \cup InHand(Sweep)
      BY <1>4, <2>2, <3>1 DEF Reaches, ForwardReaches
    <3>3. q \notin InHand(Sweep)
      <4>1. \A k \in reader[Sweep].page : reader[Sweep].at < k
        BY <1>1 DEF ReaderShape
      <4>2. ~ (reader[Sweep].at < q) /\ q # reader[Sweep].at
        BY <1>1, <2>2, NumbersIs
      <4>. QED BY <4>1, <4>2 DEF InHand
    <3>. QED BY <1>2, <3>2, <3>3 DEF KnownGrows
  <2>3. q \in Nat /\ reader[Sweep].at \in Nat
    BY <1>1, NumbersIs
  <2>. QED BY <1>4, <2>1, <2>2, <2>3
<1>5. TopsKept
  BY <1>1, <1>2, <1>3, <1>4, PassTops
<1>6. BottomsKept /\ chan'.cursor = chan.cursor
  BY <1>2 DEF BottomsKept, Deeper, PassesTo
<1>7. ForwardKept /\ WindowKept
  BY <1>1, <1>2 DEF ForwardKept, WindowKept
<1>. QED BY <1>1, <1>2, <1>5, <1>6, <1>7, QuietStep DEF HandKept

(* A post of the initial window: the channel is new, and no worker is on.   *)
LEMMA PassReachesWindow ==
  ASSUME Shapes, Reaches, NEW x \in ReaderType, NEW stage, NEW ahead, NEW older \in BOOLEAN,
         PassesTo(Sweep, x, stage, ahead, older), published' = published, reader[Sweep].at # 0,
         reader[Sweep].window, stage = "advanced" <=> ~older
  PROVE  Reaches'
<1> DEFINE p == reader[Sweep].at
<1>1. /\ Sweep \in Readers /\ Workers \subseteq Readers \ {Sweep} /\ ReaderShape(Sweep)
      /\ reader[Sweep].at \in PostIds /\ reader[Sweep].at \in 1 .. published /\ published \in 0 .. MaxPosts
      /\ chan.cursor \in 0 .. MaxPosts
  BY ShapesGive, ReaderGives DEF Readers, RestFits
<1>2. /\ KnownGrows /\ reader[Sweep].at \in Known' /\ LatestKept
      /\ \A s \in Readers : HandShrinks(s)
      /\ \A s \in Readers : reader'[s].from = reader[s].from /\ reader'[s].window = reader[s].window
      /\ \A s \in Readers \ {Sweep} : reader'[s] = reader[s]
      /\ reader'[Sweep] = x
      /\ chan'.initial = chan.initial
      /\ \A t : IsTop(t)' => IsTop(t) \/ (t = reader[Sweep].at /\ Moves(Sweep, ahead))
      /\ \A b : IsBottom(b)' => IsBottom(b) \/ (b = reader[Sweep].at /\ Deeper(Sweep, older))
      /\ InHand(Sweep) \subseteq InHand(Sweep)' \cup {reader[Sweep].at}
  BY <1>1, PassGives
<1>3. /\ ~chan.initial /\ ~chan'.initial /\ p \in InHand(Sweep) /\ reader'[Sweep].window
      /\ reader[Sweep].cur = chan.cursor
  BY <1>1, <1>2 DEF ReaderShape, InHand, Reaches, WindowReaches
<1>4. \A w \in Workers : InHand(w)' = {} /\ reader'[w].cur = 0 /\ reader[w].cur = 0
  <2>1. job.status = "none"
    BY <1>3 DEF Shapes
  <2>2. \A w \in Workers : reader[w].stage = "off"
    BY <1>1, <2>1, ReaderGives DEF ReaderShape
  <2>3. \A w \in Workers : Blank(w)
    BY <1>1, <2>2, ReaderGives DEF ReaderShape
  <2>. QED BY <1>1, <1>2, <2>3 DEF Blank, InHand
<1>5. \A w \in Workers : OlderReaches(w)'
  BY <1>4 DEF OlderReaches
<1>6. ForwardReaches'
  BY <1>3 DEF ForwardReaches
<1>7. \A k \in InHand(Sweep) : p <= k /\ k \in PostIds
  <2>1. \A k \in reader[Sweep].page : p < k
    BY <1>1 DEF ReaderShape
  <2>2. \A k \in InHand(Sweep) : k \in PostIds
    BY <1>1, HandIs
  <2>3. ASSUME NEW k \in InHand(Sweep) PROVE p <= k
    <3>1. k = p \/ p < k
      BY <2>1 DEF InHand
    <3>2. k \in Nat /\ p \in Nat
      BY <1>1, <2>2, NumbersIs
    <3>. QED BY <3>1, <3>2
  <2>. QED BY <2>2, <2>3
<1>8. LatestPage' = LatestPage /\ LatestPage \subseteq 1 .. published
  BY LatestPageIs DEF LatestPage
<1>9. x.cur = IF Deeper(Sweep, older) THEN p ELSE chan.cursor
  BY <1>3 DEF PassesTo
<1>10. chan'.cursor = IF Deeper(Sweep, older) THEN p ELSE chan.cursor
  BY DEF PassesTo
<1>11. CASE chan.cursor # 0
  <2>1. /\ chan.cursor <= p /\ chan.cursor \in Known /\ \A y \in LatestPage : chan.cursor <= y
        /\ \A k \in InHand(Sweep) : chan.cursor <= k
        /\ \A k \in InHand(Sweep), q \in PostIds :
             chan.cursor <= q /\ q < k => q \in Known \cup InHand(Sweep)
    BY <1>3, <1>11 DEF Reaches, WindowReaches, NewChannel
  <2>2. ~Deeper(Sweep, older)
    BY <1>1, <1>3, <1>11, <2>1, NumbersIs DEF Deeper
  <2>3. chan'.cursor = chan.cursor /\ reader'[Sweep].cur = chan.cursor
    BY <1>2, <1>9, <1>10, <2>2
  <2>4. ASSUME NEW b \in PostIds, NEW t \in 0 .. MaxPosts, NEW q \in PostIds,
               IsBottom(b)', IsTop(t)', b <= q, q <= t
        PROVE  q \in Known'
    <3>1. IsBottom(b) /\ b = chan.cursor
      BY <1>2, <1>4, <2>2, <2>4 DEF IsBottom
    <3>2. CASE IsTop(t)
      BY <1>2, <2>4, <3>1, <3>2 DEF Reaches, Covered, KnownGrows
    <3>3. CASE t = p
      <4>1. CASE q = p
        BY <1>2, <4>1
      <4>2. CASE q < p
        <5>1. q \in Known \cup InHand(Sweep)
          BY <1>3, <2>1, <2>4, <3>1, <4>2
        <5>2. q \notin InHand(Sweep)
          BY <1>1, <1>7, <4>2, NumbersIs
        <5>. QED BY <1>2, <5>1, <5>2 DEF KnownGrows
      <4>3. q \in Nat /\ p \in Nat
        BY <1>1, NumbersIs
      <4>. QED BY <2>4, <3>3, <4>1, <4>2, <4>3
    <3>. QED BY <1>2, <2>4, <3>2, <3>3
  <2>5. Covered'
    BY <2>4 DEF Covered
  <2>6. WindowReaches'
    <3>1. WindowKept
      BY <1>1, <1>2, <1>11, <2>3 DEF WindowKept, HandShrinks
    <3>. QED BY <1>2, <2>3, <3>1, WindowStep DEF Reaches
  <2>7. NewChannel'
    BY <1>2, <1>8, <1>11, <2>1, <2>3 DEF NewChannel, KnownGrows
  <2>. QED BY <1>5, <1>6, <2>5, <2>6, <2>7 DEF Reaches
<1>12. CASE chan.cursor = 0
  <2>1. /\ \A k, y \in InHand(Sweep), q \in PostIds :
             y <= q /\ q < k => q \in Known \cup InHand(Sweep)
        /\ \A q \in 0 .. MaxPosts :
             (\A y \in InHand(Sweep) : q < y) => \A y \in LatestPage : q < y
        /\ \A t \in 0 .. MaxPosts, q \in PostIds :
             IsTop(t) /\ q <= t =>
               \/ q \in Known
               \/ /\ \A y \in LatestPage : q < y
                  /\ \A k \in InHand(Sweep) : q < k
    BY <1>3, <1>12 DEF Reaches, WindowReaches, NewChannel
  <2>2. \A b : ~IsBottom(b)
    BY <1>4, <1>12 DEF IsBottom
  <2>3. CASE Deeper(Sweep, older)
    <3>1. chan'.cursor = p /\ reader'[Sweep].cur = p /\ p # 0
      BY <1>1, <1>2, <1>9, <1>10, <2>3
    <3>2. Covered'
      <4>. SUFFICES ASSUME NEW b \in PostIds, NEW t \in 0 .. MaxPosts, NEW q \in PostIds,
                           IsBottom(b)', IsTop(t)', b <= q, q <= t
                    PROVE  q \in Known'
        BY DEF Covered
      <4>1. b = p
        BY <1>2, <2>2
      <4>2. p \in Nat /\ q \in Nat
        BY <1>1, NumbersIs
      <4>3. CASE t = p
        <5>1. q = p
          BY <4>1, <4>2, <4>3
        <5>. QED BY <1>2, <5>1
      <4>4. CASE IsTop(t)
        <5>1. ~ (q < p)
          BY <4>1, <4>2
        <5>2. q \in Known
          BY <1>3, <2>1, <4>4, <5>1
        <5>. QED BY <1>2, <5>2 DEF KnownGrows
      <4>. QED BY <1>2, <4>3, <4>4
    <3>3. WindowReaches'
      <4>1. \A k \in InHand(Sweep)' : p <= k
        BY <1>1, <1>2, <1>7 DEF HandShrinks
      <4>2. ASSUME NEW k \in InHand(Sweep)', NEW q \in PostIds, p <= q, q < k
            PROVE  q \in Known' \cup InHand(Sweep)'
        <5>1. k \in InHand(Sweep)
          BY <1>1, <1>2 DEF HandShrinks
        <5>2. q \in Known \cup InHand(Sweep)
          BY <1>3, <2>1, <4>2, <5>1
        <5>. QED BY <1>1, <1>2, <5>2 DEF HandShrinks, KnownGrows
      <4>. QED BY <1>3, <3>1, <4>1, <4>2 DEF WindowReaches
    <3>4. NewChannel'
      <4>1. p - 1 \in 0 .. MaxPosts /\ \A k \in InHand(Sweep) : p - 1 < k
        BY <1>1, <1>7, NumbersIs DEF PostIds
      <4>2. \A y \in LatestPage : p - 1 < y
        BY <2>1, <4>1
      <4>3. \A y \in LatestPage : p <= y
        BY <1>1, <1>8, <4>2
      <4>. QED BY <1>2, <1>8, <3>1, <4>3 DEF NewChannel
    <3>. QED BY <1>5, <1>6, <3>2, <3>3, <3>4 DEF Reaches
  <2>4. CASE ~Deeper(Sweep, older)
    <3>1. ~older /\ stage = "advanced"
      BY <1>3, <1>12, <2>4 DEF Deeper
    <3>2. /\ chan'.cursor = 0 /\ reader'[Sweep].cur = 0
          /\ InHand(Sweep)' = InHand(Sweep)
      BY <1>2, <1>9, <1>10, <1>12, <2>4, <3>1 DEF PassesTo, InHand, GoesOn
    <3>3. Covered'
      BY <1>2, <2>2, <2>4 DEF Covered
    <3>4. WindowReaches'
      <4>1. WindowKept
        BY <1>1, <1>2, <1>3, <1>12, <3>2 DEF WindowKept
      <4>. QED BY <1>2, <1>12, <3>2, <4>1, WindowStep DEF Reaches
    <3>5. NewChannel'
      <4>. SUFFICES ASSUME NEW t \in 0 .. MaxPosts, NEW q \in PostIds, IsTop(t)', q <= t, q \notin Known'
                    PROVE  (\A y \in LatestPage : q < y) /\ \A k \in InHand(Sweep) : q < k
        BY <1>8, <3>2 DEF NewChannel
      <4>1. q \notin Known
        BY <1>2 DEF KnownGrows
      <4>2. CASE IsTop(t)
        BY <2>1, <4>1, <4>2
      <4>3. CASE t = p
        <5>1. q \in 0 .. MaxPosts /\ q \in Nat /\ p \in Nat /\ q # p
          BY <1>1, <1>2, NumbersIs
        <5>2. \A k \in InHand(Sweep) : q < k
          BY <1>7, <4>3, <5>1, NumbersIs
        <5>. QED BY <2>1, <5>1, <5>2
      <4>. QED BY <1>2, <4>2, <4>3
    <3>. QED BY <1>5, <1>6, <3>3, <3>4, <3>5 DEF Reaches
  <2>. QED BY <2>3, <2>4
<1>. QED BY <1>11, <1>12

LEMMA PassReaches ==
  ASSUME Shapes, Reaches, NEW r \in Readers, NEW stage \in {"turn", "advanced"}, NEW ahead \in BOOLEAN,
         NEW older \in BOOLEAN, NEW bad \in BOOLEAN, Pass(r, stage, ahead, older, bad),
         reader[r].at # 0, published' = published,
         r \in Workers => ~ahead, older => History(r), History(r) /\ ~older => stage = "advanced",
         stage = "advanced" => ~older
  PROVE  Reaches'
<1>1. PICK x \in ReaderType : PassesTo(r, x, stage, ahead, older)
  BY PassIs
<1>2. CASE r \in Workers
  <2>1. ahead = FALSE
    BY <1>2
  <2>. QED BY <1>1, <1>2, <2>1, PassReachesWorker
<1>3. CASE r = Live
  <2>1. ~reader[Live].window
    BY <1>3, ReaderGives DEF ReaderShape
  <2>2. older = FALSE
    BY <1>3, <2>1 DEF History
  <2>. QED BY <1>1, <1>3, <2>2, PassReachesLive
<1>4. CASE r = Sweep /\ ~reader[Sweep].window
  <2>1. older = FALSE
    BY <1>4 DEF History
  <2>. QED BY <1>1, <1>4, <2>1, PassReachesForward
<1>5. CASE r = Sweep /\ reader[Sweep].window
  <2>1. stage = "advanced" <=> ~older
    BY <1>5 DEF History
  <2>. QED BY <1>1, <1>5, <2>1, PassReachesWindow
<1>. QED BY <1>2, <1>3, <1>4, <1>5 DEF Readers

LEMMA HandlePostReaches ==
  ASSUME Shapes, Reaches, NEW r \in Readers, HandlePost(r)
  PROVE  Reaches'
<1>1. /\ Forward(r) \in BOOLEAN /\ History(r) \in BOOLEAN /\ (r \in Workers) \in BOOLEAN
      /\ (History(r) /\ Forward(r)) \in BOOLEAN /\ (r \in Workers => History(r) /\ ~Forward(r))
  BY ReaderGives DEF Forward, History, ReaderType
<1>2. CASE Observe(r) \/ Resolve(r) \/ Accept(r)
  BY <1>2, ObserveReaches, ResolveReaches, AcceptReaches
<1>3. CASE Refuse(r)
  <2>1. /\ reader[r].at # 0 /\ published' = published
        /\ Pass(r, "turn", Forward(r), History(r), FALSE)
    BY <1>3, ReaderGives DEF Refuse
  <2>. QED BY <1>1, <2>1, PassReaches
<1>4. CASE Malformed(r)
  <2>1. /\ reader[r].at # 0 /\ published' = published
        /\ Pass(r, "turn", Forward(r), History(r), r \in Workers)
    BY <1>4, ReaderGives DEF Malformed
  <2>. QED BY <1>1, <2>1, PassReaches
<1>5. CASE Unavailable(r)
  <2>1. reader[r].at # 0 /\ published' = published
    BY <1>5, ReaderGives DEF Unavailable
  <2>2. CASE /\ Stop(r, "halted") /\ handled' = handled \cup {reader[r].at}
             /\ UNCHANGED <<chan, overtaken>>
    BY <2>1, <2>2, StopReaches
  <2>3. CASE Pass(r, "turn", History(r) /\ Forward(r), History(r), TRUE)
    BY <1>1, <2>1, <2>3, PassReaches
  <2>. QED BY <1>5, <2>2, <2>3 DEF Unavailable
<1>6. CASE Flood(r)
  BY <1>6, StopReaches DEF Flood
<1>7. CASE Raise(r)
  BY <1>7, StopReaches DEF Raise, tables
<1>8. CASE Advance(r)
  <2>1. /\ reader[r].at # 0 /\ published' = published /\ r \notin Workers
        /\ Pass(r, "advanced", TRUE, FALSE, FALSE)
    BY <1>8, ReaderGives DEF Advance, Forward
  <2>. QED BY <1>1, <2>1, PassReaches
<1>9. CASE RecordAccepted(r)
  <2>1. /\ reader[r].at # 0 /\ published' = published
        /\ Pass(r, "turn", FALSE, History(r), FALSE)
    BY <1>9, ReaderGives DEF RecordAccepted
  <2>. QED BY <1>1, <2>1, PassReaches
<1>. QED BY <1>2, <1>3, <1>4, <1>5, <1>6, <1>7, <1>8, <1>9 DEF HandlePost

(* A stutter, and the rows at the start.                                    *)
LEMMA StutterReaches ==
  ASSUME Shapes, Reaches, UNCHANGED crawlerVars
  PROVE  Reaches'
<1>1. UNCHANGED <<published, chan, reader, handled, overtaken>>
  BY DEF crawlerVars, tables
<1>. QED BY <1>1, SilentReaches

LEMMA ReachesInit ==
  ASSUME CrawlerInit
  PROVE  Reaches
<1>1. PICK s \in Scenarios :
        published = s.published /\ chan = s.chan /\ handled = s.accepted
  BY DEF CrawlerInit
<1>2. /\ chan.cursor # 0 => chan.cursor .. chan.last \subseteq handled
      /\ ~chan.initial => chan.cursor = 0 /\ chan.last = 0
      /\ s.chan \in [last : 0 .. s.published, cursor : 0 .. s.published,
                     initial : BOOLEAN, exhausted : BOOLEAN]
      /\ s.published \in 0 .. MaxPosts
  BY <1>1, RowsAtTheStart
<1>3. \A r \in Readers :
        /\ reader[r].page = {} /\ reader[r].at = 0 /\ reader[r].seen = {} /\ reader[r].cur = 0
        /\ reader[r].from = 0 /\ reader[r].window = FALSE /\ InHand(r) = {}
  BY OffIs DEF CrawlerInit, InHand
<1>4. Sweep \in Readers /\ Workers \subseteq Readers
  BY DEF Readers
<1>5. \A t : IsTop(t) => t \in {0, chan.last}
  BY <1>3 DEF IsTop
<1>6. Covered
  <2>. SUFFICES ASSUME NEW b \in PostIds, NEW t \in 0 .. MaxPosts, NEW q \in PostIds,
                       IsBottom(b), IsTop(t), b <= q, q <= t
                PROVE  q \in Known
    BY DEF Covered
  <2>1. b = chan.cursor /\ chan.cursor # 0
    BY <1>3, <1>4 DEF IsBottom
  <2>2. t = chan.last /\ chan.last \in Nat /\ chan.cursor \in Nat
    BY <1>1, <1>2, <1>5, NumbersIs
  <2>3. q \in chan.cursor .. chan.last
    BY <2>1, <2>2, NumbersIs
  <2>. QED BY <1>2, <2>1, <2>3 DEF Known
<1>7. (\A w \in Workers : OlderReaches(w)) /\ ForwardReaches /\ WindowReaches
  BY <1>3, <1>4 DEF OlderReaches, ForwardReaches, WindowReaches
<1>8. NewChannel
  <2>1. ~chan.initial => \A t \in 0 .. MaxPosts, q \in PostIds : ~ (IsTop(t) /\ q <= t)
    BY <1>2, <1>5, NumbersIs
  <2>. QED BY <1>2, <2>1 DEF NewChannel
<1>. QED BY <1>6, <1>7, <1>8 DEF Reaches

LEMMA ReachesNext ==
  ASSUME Shapes, Reaches, [CrawlerNext]_crawlerVars
  PROVE  Reaches'
<1>1. {Sweep, Live} \subseteq Readers /\ Workers \subseteq Readers
  BY DEF Readers
<1>2. CASE UNCHANGED crawlerVars
  BY <1>2, StutterReaches
<1>3. CASE Publish
  BY <1>3, PublishReaches
<1>4. CASE Reload \/ RetryIncomplete \/ Supervise \/ CrawlerStops \/ Unpark
  BY <1>4, CrawlerSideReaches
<1>5. CASE SweepTurn
  BY <1>1, <1>5, BeginSweepReaches, HandlePostReaches, SweepGoesOnReaches, CrawlerSideReaches
  DEF SweepTurn
<1>6. CASE HandlePost(Live)
  BY <1>1, <1>6, HandlePostReaches
<1>7. CASE \E r \in Readers : \E how \in {"interrupted", "flood"} : Interrupt(r, how)
  BY <1>7, StopReaches DEF Interrupt, tables
<1>8. CASE QueueBackfill
  <2>1. UNCHANGED <<published, chan, reader, handled, overtaken>>
    BY <1>8 DEF QueueBackfill, tables
  <2>. QED BY <2>1, SilentReaches
<1>9. ASSUME NEW w \in Workers, ClaimWaits(w) \/ Claim(w) \/ PageTurn(w) PROVE Reaches'
  BY <1>1, <1>9, WorkerSideReaches, ClaimReaches, BeginPageReaches, HandlePostReaches
  DEF PageTurn
<1>10. ASSUME NEW w \in Workers, NEW gently \in BOOLEAN, WorkerStops(w, gently) PROVE Reaches'
  BY <1>10, WorkerSideReaches
<1>. QED BY <1>2, <1>3, <1>4, <1>5, <1>6, <1>7, <1>8, <1>9, <1>10 DEF CrawlerNext

(* The inductive invariant of the crawler: the shape of rows and readers,   *)
(* and what is known between the checkpoints and cursors they remember.     *)
THEOREM CrawlerInvariance == CrawlerSpec => []CrawlerInv
<1>1. CrawlerInit => CrawlerInv
  BY ShapesInit, ReachesInit DEF CrawlerInv
<1>2. CrawlerInv /\ [CrawlerNext]_crawlerVars => CrawlerInv'
  BY ShapesNext, ReachesNext DEF CrawlerInv
<1>. QED BY <1>1, <1>2, PTL DEF CrawlerSpec

(* Whatever sweeps, live posts and workers race over the channel, with      *)
(* whatever stale copies of its row, and whatever stops them: each post     *)
(* between the history cursor and the checkpoint was ingested, was given an *)
(* outcome, or is one a live post or a restarted window left behind.        *)
THEOREM NothingIsSkipped == CrawlerSpec => []NothingSkipped
<1>1. CrawlerInv => NothingSkipped
  <2>. SUFFICES ASSUME Shapes, Reaches, chan.cursor # 0, NEW q \in chan.cursor .. chan.last
                PROVE  q \in handled \cup overtaken
    BY DEF CrawlerInv, NothingSkipped
  <2>1. /\ chan.cursor \in 0 .. MaxPosts /\ chan.last \in 0 .. MaxPosts
        /\ IsBottom(chan.cursor) /\ IsTop(chan.last)
    BY ShapesGive DEF IsBottom, IsTop
  <2>2. chan.cursor \in PostIds /\ q \in PostIds /\ chan.cursor <= q /\ q <= chan.last
    BY <2>1 DEF PostIds
  <2>. QED BY <2>1, <2>2 DEF Reaches, Covered, Known
<1>. QED BY <1>1, CrawlerInvariance, PTL

-----------------------------------------------------------------------------
(***************************************************************************)
(* Capture, for any posts, channels, accounts, handlers and troubles: no   *)
(* target is due at a slot that has its observation, a final snapshot is   *)
(* immutable, and what is recorded of a channel was asked through its      *)
(* account.                                                                *)
(*                                                                         *)
(* A handler records with what it knew when it took its message, after     *)
(* other claims and handlers went on.  That a late record cannot take the  *)
(* schedule back rests on three facts.  Past: what was observed is not in  *)
(* the future.  Sent: a message is about a slot that has come, and a       *)
(* post's is either answered or still the one the post is due at.          *)
(* Answered: the time of an answer is not before the slot it is for.       *)
(***************************************************************************)
USE TargetsAreTargets, ChannelsAreTheirOwn, NoneIsNone, FirstAssumption, BoundsAreNumbers

Outcomes == Final \cup {"none", "failed", "flood", "auth", "quarantined"}
Snapshots == Final \cup {"none", "failed"}
Handlings == [at : {"idle", "fetch", "record", "done"}, msg : Messages \cup {None},
              got : Outcomes, when : Slots, held : BOOLEAN]
Runs == [Sessions -> {"none", "active", "over"}]

RowsOK ==
  /\ next \in [Targets -> Slots \cup {None}]
  /\ lease \in [Targets -> {"free", "held", "stale"}]
  /\ alive \in [Targets -> BOOLEAN]
  /\ snap \in [Targets -> [Slots -> Snapshots]]
  /\ via \in [Channels -> Sessions \cup {None}]

AccountsOK ==
  /\ owner \in [Channels -> Sessions]
  /\ paused \in [Channels -> BOOLEAN]
  /\ status \in [Sessions -> {"active", "flood", "over", "auth", "quarantined"}]
  /\ truth \in [Sessions -> {"fine", "revoked", "banned"}]
  /\ batch \in [Kinds -> Runs \cup {None}]

(* A requeued copy cost a trouble.                                          *)
QueueOK ==
  /\ now \in 0 .. MaxNow
  /\ troubles \in 0 .. MaxTroubles
  /\ queue \in [Messages -> Nat]
  /\ \A m \in Messages : queue[m] <= MaxCopies + troubles

HandlersOK ==
  /\ handler \in [Handlers -> Handlings]
  /\ \A h \in Handlers :
       /\ handler[h].at # "idle" => Msg(h) \in Messages
       /\ handler[h].held => handler[h].at # "idle"

(* A message that can still be handled, or come again.                      *)
About(m) == queue[m] > 0 \/ \E h \in Handlers : handler[h].at # "idle" /\ Msg(h) = m

Past == \A t \in Targets, k \in Slots : snap[t][k] \in Final => k <= now

Sent ==
  \A m \in Messages : About(m) =>
    /\ m.slot <= now
    /\ m.target \in Posts => Observed(m) \/ next[m.target] = m.slot

Answered ==
  \A h \in Handlers :
    /\ handler[h].when <= now
    /\ handler[h].at = "record" => Msg(h).slot <= handler[h].when

Typed == RowsOK /\ AccountsOK /\ QueueOK /\ HandlersOK

IInv == Typed /\ NeverBehind /\ Past /\ Sent /\ Answered

-----------------------------------------------------------------------------
(* The bounds are numbers, and so are the slots.                            *)
LEMMA Numbers ==
  /\ MaxNow \in Nat /\ MaxCopies \in Nat /\ MaxTroubles \in Nat
  /\ \A k : k \in Slots <=> k \in Nat /\ k <= MaxNow + 1
BY DEF Slots

(* Init establishes the inductive invariant.                                *)
LEMMA InitIInv == Init => IInv
<1> SUFFICES ASSUME Init PROVE IInv OBVIOUS
<1> USE DEF Init
<1>1. RowsOK BY DEF RowsOK, Snapshots
<1>2. AccountsOK BY DEF AccountsOK
<1>3. QueueOK BY DEF QueueOK
<1>4. HandlersOK BY DEF HandlersOK, Handlings, Resting, Outcomes, Slots
<1>5. NeverBehind /\ Past BY DEF NeverBehind, Past, Final
<1>6. Sent /\ Answered BY DEF Sent, About, Answered, Resting
<1> QED BY <1>1, <1>2, <1>3, <1>4, <1>5, <1>6 DEF IInv, Typed
(* Steps that touch neither the clock nor schedules, snapshots, messages    *)
(* and handlers.                                                            *)
LEMMA Untouched ==
  ASSUME IInv, UNCHANGED <<now, next, snap, queue, handler>>
  PROVE  NeverBehind' /\ Past' /\ Sent' /\ Answered' /\ HandlersOK'
BY DEF IInv, Typed, NeverBehind, Past, Sent, About, Observed, Msg, Answered, HandlersOK

(* The clock.                                                               *)
LEMMA TimeSteps ==
  ASSUME IInv, Time
  PROVE  IInv'
<1> USE DEF World, Rows
<1>0. RowsOK /\ AccountsOK /\ QueueOK /\ HandlersOK /\ NeverBehind /\ Past /\ Sent /\ Answered
  BY DEF IInv, Typed
<1>1. CASE Tick
  <2> USE <1>1 DEF Tick
  <2>1. RowsOK' /\ AccountsOK' /\ QueueOK' /\ HandlersOK'
    BY <1>0 DEF RowsOK, AccountsOK, QueueOK, HandlersOK, Msg
  <2>2. NeverBehind' BY <1>0 DEF NeverBehind
  <2>3. Past' BY <1>0 DEF Past, QueueOK, Slots
  <2>4. Sent'
    <3>1. \A m \in Messages : About(m)' => About(m) BY DEF About, Msg
    <3>2. \A m \in Messages : Observed(m)' = Observed(m) BY DEF Observed
    <3>3. \A m \in Messages : m.slot \in Nat BY DEF Messages, Slots
    <3> QED BY <1>0, <3>1, <3>2, <3>3 DEF Sent, QueueOK
  <2>5. Answered' BY <1>0 DEF Answered, Msg, QueueOK, HandlersOK, Handlings, Slots
  <2> QED BY <2>1, <2>2, <2>3, <2>4, <2>5 DEF IInv, Typed
<1>2. ASSUME NEW t \in Targets, LeaseExpires(t) PROVE IInv'
  <2> USE <1>2 DEF LeaseExpires
  <2>1. RowsOK' /\ AccountsOK' /\ QueueOK' BY <1>0 DEF RowsOK, AccountsOK, QueueOK
  <2> QED BY <2>1, Untouched DEF IInv, Typed
<1>3. ASSUME NEW s \in Sessions, FloodEnds(s) PROVE IInv'
  <2> USE <1>3 DEF FloodEnds
  <2>1. RowsOK' /\ AccountsOK' /\ QueueOK' BY <1>0 DEF RowsOK, AccountsOK, QueueOK
  <2> QED BY <2>1, Untouched DEF IInv, Typed
<1> QED BY <1>1, <1>2, <1>3 DEF Time

(* What Telegram and operators do to accounts and channels.                 *)
LEMMA AccountSteps ==
  ASSUME IInv, UNCHANGED <<now, next, lease, alive, snap, via, queue, batch, handler>>,
         troubles' = troubles \/ Trouble,
         \/ UNCHANGED <<owner, paused>> /\ \E s \in Sessions : Revoke(s) \/ Repair(s)
         \/ UNCHANGED <<status, truth>> /\ \E c \in Channels : Pause(c) \/ \E s \in Sessions : Assign(c, s)
  PROVE  IInv'
<1>0. RowsOK /\ AccountsOK /\ QueueOK BY DEF IInv, Typed
<1>1. RowsOK' BY <1>0 DEF RowsOK
<1>2. QueueOK' BY <1>0, Numbers DEF QueueOK, Trouble
<1>3. ASSUME NEW s \in Sessions, Revoke(s) \/ Repair(s), UNCHANGED <<owner, paused>> PROVE AccountsOK'
  BY <1>0, <1>3 DEF AccountsOK, Revoke, Repair
<1>4. ASSUME NEW c \in Channels, Pause(c), UNCHANGED <<status, truth>> PROVE AccountsOK'
  <2>1. paused' = [paused EXCEPT ![c] = ~@] /\ owner' = owner BY <1>4 DEF Pause
  <2>2. paused' \in [Channels -> BOOLEAN] BY <1>0, <2>1 DEF AccountsOK
  <2> QED BY <1>0, <1>4, <2>1, <2>2 DEF AccountsOK
<1>5. ASSUME NEW c \in Channels, NEW s \in Sessions, Assign(c, s), UNCHANGED <<status, truth>>
      PROVE  AccountsOK'
  BY <1>0, <1>5 DEF AccountsOK, Assign
<1>6. AccountsOK' BY <1>3, <1>4, <1>5
<1> QED BY <1>1, <1>2, <1>6, Untouched DEF IInv, Typed

(* A channel added again is due at a later slot than it was observed at.    *)
LEMMA AddAgainStep ==
  ASSUME IInv, NEW s \in Sessions, NEW c \in Channels, AddAgain(c, s)
  PROVE  IInv'
<1> USE DEF AddAgain, Trouble, SlotAfter
<1>0. RowsOK /\ AccountsOK /\ QueueOK /\ HandlersOK /\ NeverBehind /\ Past /\ Sent /\ Answered
  BY DEF IInv, Typed
<1>1. RowsOK' BY <1>0 DEF RowsOK, QueueOK, Slots, Targets
<1>2. AccountsOK' BY <1>0 DEF AccountsOK
<1>3. QueueOK' /\ HandlersOK' BY <1>0 DEF QueueOK, HandlersOK, Msg
<1>4. NeverBehind' BY <1>0 DEF NeverBehind, Past, RowsOK, QueueOK, Slots, Targets
<1>5. Past' /\ Answered' BY <1>0 DEF Past, Answered, Msg
<1>6. Sent'
  <2>1. \A m \in Messages : m.target \in Posts => next'[m.target] = next[m.target]
    BY <1>0 DEF RowsOK, Targets
  <2>2. \A m \in Messages : About(m)' = About(m) /\ Observed(m)' = Observed(m)
    BY DEF About, Observed, Msg
  <2> QED BY <1>0, <2>1, <2>2 DEF Sent
<1> QED BY <1>1, <1>2, <1>3, <1>4, <1>5, <1>6 DEF IInv, Typed

(* The first half of the scheduler's job only reads.                        *)
LEMMA LoadStep ==
  ASSUME IInv, NEW kind \in Kinds, LoadSessions(kind)
  PROVE  IInv'
<1> USE DEF LoadSessions, World, Rows
<1>0. RowsOK /\ AccountsOK /\ QueueOK BY DEF IInv, Typed
<1>1. [s \in Sessions |-> IF Runnable(s) /\ Due(kind, s) # {} THEN status[s] ELSE "none"] \in Runs
  BY <1>0 DEF Runs, Runnable, AccountsOK
<1>2. AccountsOK' BY <1>0, <1>1 DEF AccountsOK
<1>3. RowsOK' /\ QueueOK' BY <1>0 DEF RowsOK, QueueOK
<1> QED BY <1>2, <1>3, Untouched DEF IInv, Typed

(* A claim sends messages about slots that have come, and a target that had *)
(* no schedule, and so was never observed, gets one.                        *)
LEMMA ClaimStep ==
  ASSUME IInv, NEW kind \in Kinds, ClaimDue(kind)
  PROVE  IInv'
<1> USE DEF World, Rows
<1>0. RowsOK /\ AccountsOK /\ QueueOK /\ HandlersOK /\ NeverBehind /\ Past /\ Sent /\ Answered
  BY DEF IInv, Typed
<1>1. UNCHANGED <<now, owner, paused, truth, alive, snap, via, handler, troubles>>
      /\ status' = Resumed(kind) /\ batch' = [batch EXCEPT ![kind] = None]
  BY DEF ClaimDue
<1>2. PICK claim \in [Sessions -> SUBSET kind] :
        /\ \A s \in Sessions :
             claim[s] \in IF batch[kind][s] # "none" /\ Resumed(kind)[s] \in {"active", "over"}
                          THEN Oldest(kind, s) ELSE {{}}
        /\ LET C == UNION {claim[s] : s \in Sessions}
           IN /\ \A t \in C : queue[MessageFor(t)] < MaxCopies
              /\ lease' = [t \in Targets |-> IF t \in C THEN "held" ELSE lease[t]]
              /\ next' = [t \in Targets |-> IF t \in C THEN SlotOf(t) ELSE next[t]]
              /\ queue' = [m \in Messages |-> IF \E t \in C : m = MessageFor(t) THEN queue[m] + 1 ELSE queue[m]]
  BY DEF ClaimDue
<1> DEFINE C == UNION {claim[s] : s \in Sessions}
<1>3. \A t \in C : t \in Targets /\ (next[t] = None \/ next[t] <= now)
  <2> SUFFICES ASSUME NEW s \in Sessions, NEW t \in claim[s]
               PROVE  t \in Targets /\ (next[t] = None \/ next[t] <= now)
    OBVIOUS
  <2>1. claim[s] \in Oldest(kind, s) BY <1>2
  <2>2. t \in Due(kind, s) BY <2>1 DEF Oldest
  <2> QED BY <2>2 DEF Due, OfSession, Eligible, Kinds, Targets
<1>4. /\ \A t \in C : queue[MessageFor(t)] < MaxCopies
      /\ lease' = [t \in Targets |-> IF t \in C THEN "held" ELSE lease[t]]
      /\ next' = [t \in Targets |-> IF t \in C THEN SlotOf(t) ELSE next[t]]
      /\ queue' = [m \in Messages |-> IF \E t \in C : m = MessageFor(t) THEN queue[m] + 1 ELSE queue[m]]
  BY <1>2
<1> HIDE DEF C
<1>5. \A t \in C : SlotOf(t) \in Slots /\ SlotOf(t) <= now
  BY <1>0, <1>3 DEF SlotOf, RowsOK, QueueOK, Slots
<1>6. \A t \in Targets \ C : next'[t] = next[t]
  BY <1>4
<1>7. \A t \in C : next'[t] = SlotOf(t)
  BY <1>3, <1>4
<1>8. RowsOK' BY <1>0, <1>1, <1>4, <1>5 DEF RowsOK
<1>9. AccountsOK'
  <2>1. status' \in [Sessions -> {"active", "flood", "over", "auth", "quarantined"}]
    BY <1>0, <1>1 DEF AccountsOK, Resumed
  <2>2. batch' \in [Kinds -> Runs \cup {None}] BY <1>0, <1>1 DEF AccountsOK
  <2> QED BY <1>0, <1>1, <2>1, <2>2 DEF AccountsOK
<1>10. QueueOK'
  <2>1. queue' \in [Messages -> Nat] BY <1>0, <1>4 DEF QueueOK
  <2>2. \A m \in Messages : queue'[m] <= MaxCopies + troubles
    BY <1>0, <1>4 DEF QueueOK
  <2> QED BY <1>0, <1>1, <2>1, <2>2 DEF QueueOK
<1>11. HandlersOK' /\ Past' /\ Answered' BY <1>0, <1>1 DEF HandlersOK, Past, Answered, Msg
<1>12. NeverBehind'
  BY <1>0, <1>1, <1>3, <1>6, <1>7 DEF NeverBehind, SlotOf
<1>13. Sent'
  <2> SUFFICES ASSUME NEW m \in Messages, About(m)'
               PROVE  /\ m.slot <= now
                      /\ m.target \in Posts => Observed(m) \/ next'[m.target] = m.slot
    BY <1>1 DEF Sent, Observed
  <2>1. CASE About(m)
    <3>1. m.slot <= now /\ (m.target \in Posts => Observed(m) \/ next[m.target] = m.slot)
      BY <1>0, <2>1 DEF Sent
    <3>2. m.target \in Targets /\ m.slot \in Slots BY DEF Messages
    <3>3. next[m.target] = m.slot => next'[m.target] = m.slot
      BY <1>6, <1>7, <3>2 DEF SlotOf
    <3> QED BY <3>1, <3>3
  <2>2. CASE ~About(m)
    <3>1. \E t \in C : m = MessageFor(t)
      BY <1>0, <1>1, <1>4, <2>2 DEF About, Msg, QueueOK
    <3>2. PICK t \in C : m = MessageFor(t) BY <3>1
    <3>3. m.target = t /\ m.slot = SlotOf(t) BY <3>2 DEF MessageFor
    <3> QED BY <1>5, <1>7, <3>3
  <2> QED BY <2>1, <2>2
<1> QED BY <1>8, <1>9, <1>10, <1>11, <1>12, <1>13 DEF IInv, Typed

(* A message is taken.                                                      *)
LEMMA TakeStep ==
  ASSUME IInv, NEW h \in Handlers, NEW m \in Messages, Take(h, m)
  PROVE  IInv'
<1> USE DEF Take, World, Rows
<1>0. RowsOK /\ AccountsOK /\ QueueOK /\ HandlersOK /\ NeverBehind /\ Past /\ Sent /\ Answered
  BY DEF IInv, Typed
<1>1. PICK at \in {"fetch", "done"} :
        handler' = [handler EXCEPT ![h] = [at |-> at, msg |-> m, got |-> "none", when |-> 0, held |-> TRUE]]
  OBVIOUS
<1>2. /\ UNCHANGED <<now, next, alive, snap, via, owner, paused, truth, status, batch, troubles>>
      /\ queue' = [queue EXCEPT ![m] = @ - 1]
      /\ queue[m] > 0
      /\ lease' = lease \/ ClearLease(m)
  OBVIOUS
<1>3. RowsOK'
  <2>1. lease \in [Targets -> {"free", "held", "stale"}]
    BY <1>0 DEF RowsOK
  <2>2. lease' \in {lease, [lease EXCEPT ![m.target] = "free"]}
    BY <1>2 DEF ClearLease
  <2>3. lease' \in [Targets -> {"free", "held", "stale"}]
    BY <2>1, <2>2
  <2>. QED BY <1>0, <1>2, <2>3 DEF RowsOK
<1>4. AccountsOK' BY <1>0, <1>2 DEF AccountsOK
<1>5. QueueOK' BY <1>0, <1>2 DEF QueueOK
<1>6. HandlersOK' BY <1>0, <1>1 DEF HandlersOK, Handlings, Outcomes, Msg, Slots
<1>7. NeverBehind' /\ Past' BY <1>0, <1>2 DEF NeverBehind, Past
<1>8. Sent'
  <2>1. \A n \in Messages : About(n)' => About(n)
    BY <1>0, <1>1, <1>2 DEF About, Msg, QueueOK, HandlersOK
  <2>2. \A n \in Messages : Observed(n)' = Observed(n) BY <1>2 DEF Observed
  <2> QED BY <1>0, <1>2, <2>1, <2>2 DEF Sent
<1>9. Answered' BY <1>0, <1>1, <1>2 DEF Answered, HandlersOK, QueueOK, Msg
<1> QED BY <1>3, <1>4, <1>5, <1>6, <1>7, <1>8, <1>9 DEF IInv, Typed

(* The update of a handling.                                                *)
Update(r, at, got, when) == [r EXCEPT !.at = at, !.got = got, !.when = when]

LEMMA Moved ==
  ASSUME NEW r \in Handlings, NEW at \in {"fetch", "record", "done"},
         NEW got \in Outcomes, NEW when \in Slots
  PROVE  /\ Update(r, at, got, when) \in Handlings
         /\ Update(r, at, got, when).at = at
         /\ Update(r, at, got, when).when = when
         /\ Update(r, at, got, when).msg = r.msg
         /\ Update(r, at, got, when).held = r.held
BY DEF Handlings, Update

(* A handler goes on with its message, or rests, without a new schedule:    *)
(* what a step must show of the handler it moves.                           *)
MovedOn(h, at, got, when) ==
  /\ handler' = [handler EXCEPT ![h] = Update(@, at, got, when)]
  /\ got \in Outcomes /\ when \in Slots /\ when <= now
  /\ at \in {"fetch", "record", "done"}
  /\ at = "record" => Msg(h).slot <= when

LEMMA HandlerMoves ==
  ASSUME IInv, NEW h \in Handlers, UNCHANGED <<now, queue>>,
         handler[h].at # "idle",
         \/ \E at, got, when : MovedOn(h, at, got, when)
         \/ handler' = [handler EXCEPT ![h] = Resting]
  PROVE  /\ HandlersOK' /\ Answered'
         /\ \A m \in Messages : About(m)' => About(m)
<1>0. HandlersOK /\ QueueOK /\ Answered BY DEF IInv, Typed
<1>1. CASE \E at, got, when : MovedOn(h, at, got, when)
  <2>1. PICK at, got, when : MovedOn(h, at, got, when) BY <1>1
  <2> DEFINE new == Update(handler[h], at, got, when)
  <2>a. handler' = [handler EXCEPT ![h] = new] BY <2>1 DEF MovedOn
  <2>b. /\ new \in Handlings
        /\ new.at = at /\ new.when = when /\ new.msg = Msg(h) /\ new.held = handler[h].held
    <3>1. handler[h] \in Handlings BY <1>0 DEF HandlersOK
    <3>2. at \in {"fetch", "record", "done"} /\ got \in Outcomes /\ when \in Slots
      BY <2>1 DEF MovedOn
    <3> QED BY <3>1, <3>2, Moved DEF Msg
  <2>c. /\ at # "idle" /\ Msg(h) \in Messages /\ when <= now
        /\ at = "record" => Msg(h).slot <= when
    BY <1>0, <2>1 DEF MovedOn, HandlersOK
  <2> HIDE DEF new
  <2>2. HandlersOK' BY <1>0, <2>a, <2>b, <2>c DEF HandlersOK, Msg
  <2>3. Answered' BY <1>0, <2>a, <2>b, <2>c DEF Answered, HandlersOK, Msg
  <2>4. \A m \in Messages : About(m)' => About(m)
    BY <1>0, <2>a, <2>b, <2>c DEF About, Msg, HandlersOK
  <2> QED BY <2>2, <2>3, <2>4
<1>2. CASE handler' = [handler EXCEPT ![h] = Resting]
  <2>1. HandlersOK' BY <1>0, <1>2 DEF Resting, HandlersOK, Handlings, Msg, Outcomes, Slots
  <2>2. Answered' BY <1>0, <1>2 DEF Resting, Answered, HandlersOK, Msg, QueueOK
  <2>3. \A m \in Messages : About(m)' => About(m)
    BY <1>0, <1>2 DEF Resting, About, Msg, HandlersOK
  <2> QED BY <2>1, <2>2, <2>3
<1> QED BY <1>1, <1>2

(* The end of a handling is one of these.                                   *)
LEMMA DoneMoves ==
  ASSUME IInv, NEW h \in Handlers, Done(h)
  PROVE  \/ \E at, got, when : MovedOn(h, at, got, when)
         \/ handler' = [handler EXCEPT ![h] = Resting]
<1>0. HandlersOK /\ QueueOK BY DEF IInv, Typed
<1>1. CASE handler[h].held
  <2>1. handler' = [handler EXCEPT ![h] = Update(@, "done", "none", 0)]
    BY <1>0, <1>1 DEF Done, HandlersOK, Update
  <2>2. MovedOn(h, "done", "none", 0)
    BY <1>0, <2>1 DEF MovedOn, Outcomes, Slots, QueueOK
  <2> QED BY <2>2
<1>2. CASE ~handler[h].held
  BY <1>0, <1>2 DEF Done, HandlersOK
<1> QED BY <1>1, <1>2

(* Steps after which no message is about that was not, and no schedule or   *)
(* snapshot has changed.                                                    *)
LEMMA SameSchedule ==
  ASSUME IInv, UNCHANGED <<now, next, snap>>, \A m \in Messages : About(m)' => About(m)
  PROVE  NeverBehind' /\ Past' /\ Sent'
<1>1. \A m \in Messages : Observed(m)' = Observed(m) BY DEF Observed
<1> QED BY <1>1 DEF IInv, NeverBehind, Past, Sent

(* Telegram is asked: the answer is of now, and the slot has come.          *)
LEMMA FetchStep ==
  ASSUME IInv, NEW h \in Handlers, Fetch(h)
  PROVE  IInv'
<1> USE DEF World, Rows
<1>0. RowsOK /\ AccountsOK /\ QueueOK /\ HandlersOK /\ Sent
  BY DEF IInv, Typed
<1>1. /\ UNCHANGED <<now, next, lease, alive, snap, via, owner, paused, truth, status, queue, batch>>
      /\ handler[h].at = "fetch"
  BY DEF Fetch
<1>2. \E got \in Outcomes : Gets(h, got) BY DEF Fetch, Outcomes, Final
<1>3. troubles' \in 0 .. MaxTroubles /\ troubles' >= troubles
  <2>1. UNCHANGED troubles \/ Trouble BY DEF Fetch
  <2> QED BY <1>0, <2>1, Numbers DEF Trouble, QueueOK
<1>4. PICK got \in Outcomes : Gets(h, got) BY <1>2
<1>5. Msg(h).slot <= now
  BY <1>0, <1>1 DEF Sent, About, HandlersOK
<1>6. MovedOn(h, "record", got, now)
  <2>1. handler' = [handler EXCEPT ![h] = Update(@, "record", got, now)]
    BY <1>0, <1>4 DEF Gets, Update, HandlersOK
  <2>2. now \in Slots /\ now <= now BY <1>0, Numbers DEF QueueOK
  <2> QED BY <1>5, <2>1, <2>2 DEF MovedOn
<1>7. HandlersOK' /\ Answered' /\ \A m \in Messages : About(m)' => About(m)
  BY <1>1, <1>6, HandlerMoves
<1>8. QueueOK' BY <1>0, <1>1, <1>3 DEF QueueOK
<1>9. RowsOK' /\ AccountsOK' BY <1>0, <1>1 DEF RowsOK, AccountsOK
<1> QED BY <1>1, <1>7, <1>8, <1>9, SameSchedule DEF IInv, Typed

(* An answer is recorded only where its target is still due at its slot:    *)
(* everything observed before lies behind, and the new slot lies ahead.     *)
LEMMA WriteStep ==
  ASSUME IInv, NEW m \in Messages, NEW got \in Final \cup {"failed"}, NEW when \in Slots,
         About(m), m.slot <= when, when <= now, Current(m), ~Observed(m), Write(m, got, when),
         now' = now, \A n \in Messages : About(n)' => About(n)
  PROVE  RowsOK' /\ NeverBehind' /\ Past' /\ Sent'
<1>0. RowsOK /\ QueueOK /\ NeverBehind /\ Past /\ Sent BY DEF IInv, Typed
<1>1. m.target \in Targets /\ m.slot \in Slots /\ m.session \in Sessions BY DEF Messages
<1>2. next[m.target] = m.slot
  BY <1>0, <1>1 DEF Current, Sent, Targets
<1>3. when + 1 \in Slots /\ when \in Nat /\ now \in Nat /\ m.slot \in Nat
  BY <1>0, <1>1, Numbers DEF QueueOK
<1>4. RowsOK'
  <2>1. next' \in [Targets -> Slots \cup {None}] BY <1>0, <1>1, <1>3 DEF RowsOK, Write, SlotAfter
  <2>2. lease' \in [Targets -> {"free", "held", "stale"}] BY <1>0, <1>1 DEF RowsOK, Write
  <2>3. alive' \in [Targets -> BOOLEAN] BY <1>0, <1>1 DEF RowsOK, Write
  <2>4. snap' \in [Targets -> [Slots -> Snapshots]] BY <1>0, <1>1 DEF RowsOK, Snapshots, Write
  <2>5. via' \in [Channels -> Sessions \cup {None}] BY <1>0, <1>1 DEF RowsOK, Write
  <2> QED BY <2>1, <2>2, <2>3, <2>4, <2>5 DEF RowsOK
<1>5. /\ next'[m.target] = IF got = "failed" THEN m.slot ELSE when + 1
      /\ \A t \in Targets : t # m.target => next'[t] = next[t]
      /\ snap'[m.target][m.slot] = got
      /\ \A t \in Targets, k \in Slots :
           ~(t = m.target /\ k = m.slot) => snap'[t][k] = snap[t][k]
  <2>1. DOMAIN next = Targets /\ DOMAIN snap = Targets /\ \A t \in Targets : DOMAIN snap[t] = Slots
    BY <1>0 DEF RowsOK
  <2>2. /\ next' = [next EXCEPT ![m.target] = IF got = "failed" THEN m.slot ELSE when + 1]
        /\ snap' = [snap EXCEPT ![m.target][m.slot] = got]
    BY <1>0 DEF Write, SlotAfter
  <2>3. m.target \in Targets /\ m.slot \in Slots
    BY <1>1
  <2> QED BY ONLY <2>1, <2>2, <2>3
<1>6. got = "failed" <=> got \notin Final BY DEF Final
<1>7. NeverBehind'
  <2> SUFFICES ASSUME NEW t \in Targets, NEW k \in Slots, snap'[t][k] \in Final
               PROVE  next'[t] # None /\ next'[t] > k
    BY DEF NeverBehind
  <2>1. CASE t # m.target BY <1>0, <1>5, <2>1 DEF NeverBehind
  <2>2. CASE t = m.target /\ k = m.slot
    <3>1. next'[t] = when + 1 BY <1>5, <1>6, <2>2
    <3> QED BY <1>1, <1>3, <2>2, <3>1
  <2>3. CASE t = m.target /\ k # m.slot
    <3>1. snap[t][k] \in Final BY <1>5, <2>3
    <3>2. m.slot > k BY <1>0, <1>2, <2>3, <3>1 DEF NeverBehind
    <3>3. next'[t] = m.slot \/ next'[t] = when + 1 BY <1>5, <2>3
    <3>4. k \in Nat BY Numbers
    <3> QED BY <1>1, <1>3, <3>2, <3>3, <3>4
  <2> QED BY <2>1, <2>2, <2>3
<1>8. Past' BY <1>0, <1>1, <1>3, <1>5 DEF Past
<1>9. Sent'
  <2> SUFFICES ASSUME NEW n \in Messages, About(n), n.target \in Posts
               PROVE  Observed(n)' \/ next'[n.target] = n.slot
    BY <1>0 DEF Sent
  <2>1. n.target \in Targets /\ n.slot \in Slots BY DEF Messages
  <2>2. Observed(n) \/ next[n.target] = n.slot BY <1>0 DEF Sent
  <2>3. CASE n.target # m.target BY <1>5, <2>1, <2>2, <2>3 DEF Observed
  <2>4. CASE n.target = m.target /\ n.slot # m.slot
    BY <1>2, <1>5, <2>1, <2>2, <2>4 DEF Observed
  <2>5. CASE n.target = m.target /\ n.slot = m.slot
    BY <1>5, <1>6, <2>5 DEF Observed
  <2> QED BY <2>3, <2>4, <2>5
<1> QED BY <1>4, <1>7, <1>8, <1>9

(* A handler ends: it records, or finds that it must not.                   *)
LEMMA RecordStep ==
  ASSUME IInv, NEW h \in Handlers, Record(h)
  PROVE  IInv'
<1> USE DEF World
<1>0. RowsOK /\ AccountsOK /\ QueueOK /\ HandlersOK /\ Answered
  BY DEF IInv, Typed
<1>1. /\ UNCHANGED <<now, owner, paused, truth, status, queue, batch, troubles>>
      /\ handler[h].at = "record" /\ handler[h].got \in Final \cup {"failed"} /\ Done(h)
  BY DEF Record
<1>2. Msg(h) \in Messages /\ About(Msg(h)) BY <1>0, <1>1 DEF HandlersOK, About
<1>3. HandlersOK' /\ Answered' /\ \A m \in Messages : About(m)' => About(m)
  BY <1>1, HandlerMoves, DoneMoves
<1>4. AccountsOK' /\ QueueOK' BY <1>0, <1>1 DEF AccountsOK, QueueOK
<1>5. CASE UNCHANGED Rows
  <2>1. RowsOK' BY <1>0, <1>5 DEF RowsOK, Rows
  <2> QED BY <1>1, <1>3, <1>4, <1>5, <2>1, SameSchedule DEF IInv, Typed, Rows
<1>6. CASE ClearLease(Msg(h)) /\ UNCHANGED <<next, alive, snap, via>>
  <2>1. RowsOK' BY <1>0, <1>2, <1>6 DEF RowsOK, ClearLease, Messages
  <2> QED BY <1>1, <1>3, <1>4, <1>6, <2>1, SameSchedule DEF IInv, Typed
<1>7. CASE /\ Current(Msg(h)) /\ ~Observed(Msg(h))
           /\ Write(Msg(h), handler[h].got, handler[h].when)
  <2>1. handler[h].when \in Slots BY <1>0 DEF HandlersOK, Handlings
  <2>2. Msg(h).slot <= handler[h].when /\ handler[h].when <= now BY <1>0, <1>1 DEF Answered
  <2>3. RowsOK' /\ NeverBehind' /\ Past' /\ Sent'
    BY <1>1, <1>2, <1>3, <1>7, <2>1, <2>2, WriteStep
  <2> QED BY <1>3, <1>4, <2>3 DEF IInv, Typed
<1> QED BY <1>5, <1>6, <1>7 DEF Record, RecordedMeanwhile

LEMMA EndSteps ==
  ASSUME IInv, NEW h \in Handlers, Park(h) \/ Ack(h)
  PROVE  IInv'
<1> USE DEF World, Rows
<1>0. RowsOK /\ AccountsOK /\ QueueOK /\ HandlersOK
  BY DEF IInv, Typed
<1>1. UNCHANGED <<now, owner, paused, truth, queue, batch, troubles, next, alive, snap, via>>
      /\ handler[h].at # "idle"
  BY DEF Park, Ack
<1>2. Done(h) \/ handler' = [handler EXCEPT ![h] = Resting] BY DEF Park, Ack
<1>3. HandlersOK' /\ Answered' /\ \A m \in Messages : About(m)' => About(m)
  BY <1>1, <1>2, HandlerMoves, DoneMoves
<1>4. QueueOK' BY <1>0, <1>1 DEF QueueOK
<1>5. AccountsOK'
  <2>1. status' \in [Sessions -> {"active", "flood", "over", "auth", "quarantined"}]
    BY <1>0 DEF AccountsOK, Park, Ack
  <2> QED BY <1>0, <1>1, <2>1 DEF AccountsOK
<1>6. RowsOK'
  <2>1. Msg(h) \in Messages BY <1>0, <1>1 DEF HandlersOK
  <2>2. lease' = lease \/ ClearLease(Msg(h)) BY DEF Park, Ack
  <2> QED BY <1>0, <1>1, <2>1, <2>2 DEF RowsOK, ClearLease, Messages
<1> QED BY <1>1, <1>3, <1>4, <1>5, <1>6, SameSchedule DEF IInv, Typed

(* A message that comes again is one that was being handled.                *)
LEMMA FaultSteps ==
  ASSUME IInv, NEW h \in Handlers, Raises(h) \/ Dies(h) \/ ChannelCloses(h)
  PROVE  IInv'
<1> USE DEF World, Rows
<1>0. RowsOK /\ AccountsOK /\ QueueOK /\ HandlersOK /\ Answered
  BY DEF IInv, Typed
<1> DEFINE freed == [handler[h] EXCEPT !.held = FALSE]
<1>1. /\ UNCHANGED <<now, next, lease, alive, snap, via, owner, paused, truth, status, batch>>
      /\ Trouble /\ handler[h].at # "idle" /\ Msg(h) \in Messages
      /\ queue' = queue \/ queue' = [queue EXCEPT ![Msg(h)] = @ + 1]
      /\ \/ handler' = [handler EXCEPT ![h] = Resting]
         \/ handler' = [handler EXCEPT ![h] = freed]
  BY <1>0 DEF Raises, Dies, ChannelCloses, LosesMessage, HandlersOK
<1>2. /\ freed \in Handlings /\ ~freed.held /\ freed.at = handler[h].at
      /\ freed.msg = Msg(h) /\ freed.when = handler[h].when
  <2>1. handler[h] \in Handlings BY <1>0 DEF HandlersOK
  <2> QED BY <2>1 DEF Handlings, Msg
<1> HIDE DEF freed
<1>3. Resting \in Handlings /\ Resting.at = "idle" /\ ~Resting.held /\ Resting.when = 0
  BY Numbers DEF Resting, Handlings, Outcomes
<1>4. HandlersOK' BY <1>0, <1>1, <1>2, <1>3 DEF HandlersOK, Msg
<1>5. Answered' BY <1>0, <1>1, <1>2, <1>3, Numbers DEF Answered, HandlersOK, QueueOK, Msg
<1>6. \A m \in Messages : About(m)' => About(m)
  BY <1>0, <1>1, <1>2, <1>3 DEF About, HandlersOK, QueueOK, Msg
<1>7. QueueOK' BY <1>0, <1>1, Numbers DEF QueueOK, Trouble
<1>8. RowsOK' /\ AccountsOK' BY <1>0, <1>1 DEF RowsOK, AccountsOK
<1> QED BY <1>1, <1>4, <1>5, <1>6, <1>7, <1>8, SameSchedule DEF IInv, Typed

-----------------------------------------------------------------------------
(* Only the second transaction of a handler writes a snapshot, and it has   *)
(* looked before.                                                           *)
LEMMA SnapshotsAreRecorded ==
  ASSUME IInv, [Next]_vars
  PROVE  snap' = snap \/ \E h \in Handlers :
           /\ Msg(h) \in Messages /\ Current(Msg(h)) /\ ~Observed(Msg(h))
           /\ snap' = [snap EXCEPT ![Msg(h).target][Msg(h).slot] = handler[h].got]
           /\ via' = [c \in Channels |-> IF c = Msg(h).target THEN Msg(h).session ELSE via[c]]
<1>1. CASE UNCHANGED vars BY <1>1 DEF vars
<1>2. CASE \E h \in Handlers : Record(h)
  <2>1. PICK h \in Handlers : Record(h) BY <1>2
  <2>2. Msg(h) \in Messages BY <2>1 DEF IInv, Typed, HandlersOK, Record
  <2>3. \/ snap' = snap
        \/ Current(Msg(h)) /\ ~Observed(Msg(h)) /\ Write(Msg(h), handler[h].got, handler[h].when)
    BY <2>1 DEF Record, RecordedMeanwhile, Rows
  <2> QED BY <2>2, <2>3 DEF Write
<1>3. CASE Scheduler \/ Faults \/ Operator \/ Time
  BY <1>3 DEF Scheduler, LoadSessions, ClaimDue, Faults, Raises, Dies, ChannelCloses, LosesMessage,
              Revoke, Operator, Repair, Assign, AddAgain, Pause, Time, Tick, LeaseExpires,
              FloodEnds, Rows
<1>4. ASSUME NEW h \in Handlers, (\E m \in Messages : Take(h, m)) \/ Fetch(h) \/ Park(h) \/ Ack(h)
      PROVE  snap' = snap
  BY <1>4 DEF Take, Fetch, Park, Ack, Rows
<1> QED BY <1>1, <1>2, <1>3, <1>4 DEF Next, Worker

(* IInv is inductive, so it holds of every behaviour.                       *)
THEOREM Invariant == Spec => []IInv
<1>1. IInv /\ [Next]_vars => IInv'
  <2> SUFFICES ASSUME IInv, [Next]_vars PROVE IInv' OBVIOUS
  <2>1. CASE UNCHANGED vars
    <3>1. RowsOK' /\ AccountsOK' /\ QueueOK'
      BY <2>1 DEF vars, IInv, Typed, RowsOK, AccountsOK, QueueOK
    <3> QED BY <2>1, <3>1, Untouched DEF vars, IInv, Typed
  <2>2. CASE Scheduler BY <2>2, LoadStep, ClaimStep DEF Scheduler
  <2>3. ASSUME NEW h \in Handlers, Worker(h) PROVE IInv'
    BY <2>3, TakeStep, FetchStep, RecordStep, EndSteps DEF Worker
  <2>4. CASE Faults
    <3>1. ASSUME NEW s \in Sessions, Revoke(s) PROVE IInv'
      BY <3>1, AccountSteps DEF Revoke, Rows
    <3> QED BY <2>4, <3>1, FaultSteps DEF Faults
  <2>5. CASE Operator
    <3>1. ASSUME NEW s \in Sessions, Repair(s) PROVE IInv'
      BY <3>1, AccountSteps DEF Repair, Rows
    <3>2. ASSUME NEW c \in Channels, NEW s \in Sessions, Assign(c, s) PROVE IInv'
      BY <3>2, AccountSteps DEF Assign, Rows
    <3>3. ASSUME NEW c \in Channels, Pause(c) PROVE IInv'
      BY <3>3, AccountSteps DEF Pause, Rows
    <3> QED BY <2>5, <3>1, <3>2, <3>3, AddAgainStep DEF Operator
  <2>6. CASE Time BY <2>6, TimeSteps
  <2> QED BY <2>1, <2>2, <2>3, <2>4, <2>5, <2>6 DEF Next
<1> QED BY <1>1, InitIInv, PTL DEF Spec

(* Type correctness.                                                        *)
THEOREM TypeCorrect == Spec => []TypeOK
<1>1. IInv => TypeOK
  <2> SUFFICES ASSUME IInv PROVE TypeOK OBVIOUS
  <2> USE DEF IInv, Typed
  <2>1. \A m \in Messages : queue[m] <= MaxCopies + MaxTroubles
    BY Numbers DEF QueueOK
  <2>2. \A kind \in Kinds :
          batch[kind] = None \/ batch[kind] \in [Sessions -> {"none", "active", "over"}]
    BY DEF AccountsOK, Runs
  <2>3. \A h \in Handlers :
          /\ handler[h].at \in {"idle", "fetch", "record", "done"}
          /\ handler[h].msg \in Messages \cup {None}
          /\ handler[h].when \in 0 .. now
          /\ handler[h].held => handler[h].at # "idle"
    BY Numbers DEF HandlersOK, Handlings, Answered, QueueOK
  <2> QED BY <2>1, <2>2, <2>3 DEF TypeOK, RowsOK, AccountsOK, QueueOK, Snapshots
<1> QED BY <1>1, Invariant, PTL

(* Whatever claims expire, messages come again and handlers answer late: no *)
(* target is due at or before a slot that has its observation.              *)
THEOREM NeverDueBehind == Spec => []NeverBehind
<1>1. IInv => NeverBehind BY DEF IInv
<1> QED BY <1>1, Invariant, PTL

(* Whatever runs at the same time: a final snapshot is not written again,   *)
(* and a channel's answer is recorded only through the account that has the *)
(* channel, unpaused and due at that slot.                                  *)
THEOREM SnapshotsAreFinal == Spec => RecordedOnceForItsOwner
<1> DEFINE A == /\ \A t \in Targets, k \in Slots : snap[t][k] \in Final => snap'[t][k] = snap[t][k]
                /\ \A c \in Channels, k \in Slots : snap'[c][k] # snap[c][k] =>
                     via'[c] = owner[c] /\ ~paused[c] /\ next[c] = k
<1>1. IInv /\ [Next]_vars => A
  <2> SUFFICES ASSUME IInv, [Next]_vars PROVE A OBVIOUS
  <2>0. RowsOK BY DEF IInv, Typed
  <2>1. CASE snap' = snap BY <2>1
  <2>2. ASSUME NEW h \in Handlers,
               Msg(h) \in Messages, Current(Msg(h)), ~Observed(Msg(h)),
               snap' = [snap EXCEPT ![Msg(h).target][Msg(h).slot] = handler[h].got],
               via' = [c \in Channels |-> IF c = Msg(h).target THEN Msg(h).session ELSE via[c]]
        PROVE  A
    <3>1. \A t \in Targets, k \in Slots :
            snap'[t][k] # snap[t][k] => t = Msg(h).target /\ k = Msg(h).slot
      BY <2>0, <2>2 DEF RowsOK
    <3>2. \A c \in Channels, k \in Slots : snap'[c][k] # snap[c][k] =>
            via'[c] = owner[c] /\ ~paused[c] /\ next[c] = k
      BY <2>2, <3>1 DEF Current, Targets
    <3>3. \A t \in Targets, k \in Slots : snap[t][k] \in Final => snap'[t][k] = snap[t][k]
      BY <2>2, <3>1 DEF Observed
    <3> QED BY <3>2, <3>3
  <2> QED BY <2>1, <2>2, SnapshotsAreRecorded
<1>2. IInv /\ [Next]_vars => [A]_vars BY <1>1
<1> HIDE DEF A
<1>3. Spec => [][A]_vars BY <1>2, Invariant, PTL DEF Spec
<1> QED BY <1>3 DEF A, RecordedOnceForItsOwner
=============================================================================
