----------------------------- MODULE FeedProofs -----------------------------
(***************************************************************************)
(* Theorems about JobFeed: no event is missed except for the two gaps      *)
(* that the model counts.                                                  *)
(***************************************************************************)
EXTENDS JobFeed, FiniteSetTheorems, WellFoundedInduction, TLAPS

-----------------------------------------------------------------------------
(* Sets of sequences                                                       *)

\* There is a first one.
LEMMA FirstExists ==
  ASSUME NEW S \in SUBSET Nat, S # {}
  PROVE  \E x \in S : \A y \in S : x <= y
<1>1. \E x \in S : \A y \in S : ~(<<y, x>> \in OpToRel(<, Nat))
  <2> HIDE DEF OpToRel
  <2>1. QED
    BY NatLessThanWellFounded, WFMin
<1>2. ASSUME NEW x \in Nat, NEW y \in Nat, <<y, x>> \notin OpToRel(<, Nat)
      PROVE  x <= y
  <2>1. ~(y < x)
    BY <1>2 DEF OpToRel
  <2>2. QED
    BY <2>1
<1>3. QED
  BY <1>1, <1>2

\* Below a bound there is a last one.
LEMMA LastExists ==
  ASSUME NEW n \in Nat, NEW S \in SUBSET (0..n), S # {}
  PROVE  \E x \in S : \A y \in S : y <= x
<1> DEFINE T == {n - x : x \in S}
<1>1. T \in SUBSET Nat /\ T # {}
  <2>1. \A x \in S : n - x \in Nat
    OBVIOUS
  <2>2. PICK x : x \in S
    OBVIOUS
  <2>3. n - x \in T
    BY <2>2
  <2>4. QED
    BY <2>1, <2>3
<1>2. PICK t \in T : \A u \in T : t <= u
  BY <1>1, FirstExists
<1>3. PICK x \in S : t = n - x
  OBVIOUS
<1>4. ASSUME NEW y \in S PROVE y <= x
  <2>1. n - y \in T
    OBVIOUS
  <2>2. n - x <= n - y
    BY <1>2, <1>3, <2>1
  <2>3. QED
    BY <2>2
<1>5. QED
  BY <1>4

\* list_job_events leaves out nothing that is older than what it returns, returns at most a page
\* full, and everything if the page is not full.
LEMMA PageIsFirst ==
  ASSUME NEW n \in Nat, event \in SUBSET (1..n), NEW c \in Nat
  PROVE  /\ EventPage(c) \subseteq event
         /\ \A e \in EventPage(c) : e > c
         /\ \A e \in event, m \in EventPage(c) : c < e /\ e <= m => e \in EventPage(c)
         /\ \/ Cardinality(EventPage(c)) = Limit
            \/ EventPage(c) = {e \in event : e > c}
         /\ IsFiniteSet(EventPage(c))
<1> DEFINE new == {e \in event : e > c}
           before(e) == {o \in new : o < e}
           page == {e \in new : Cardinality(before(e)) < Limit}
<1>1. EventPage(c) = page
  BY DEF EventPage
<1>2. IsFiniteSet(new) /\ new \subseteq Nat
  <2>1. IsFiniteSet(1..n) /\ new \subseteq 1..n
    <3>1. 1 \in Int /\ n \in Int
      OBVIOUS
    <3>2. IsFiniteSet(1..n)
      BY <3>1, FS_Interval
    <3>3. QED
      BY <3>2
  <2>2. QED
    BY <2>1, FS_Subset
<1>3. ASSUME NEW S \in SUBSET new
      PROVE  IsFiniteSet(S) /\ Cardinality(S) \in Nat
  BY <1>2, FS_Subset, FS_CardinalityType
<1>4. \A e \in new : before(e) \in SUBSET new
  OBVIOUS
<1>5. ASSUME NEW e \in new, NEW m \in page, e <= m PROVE e \in page
  <2>1. before(e) \subseteq before(m)
    BY <1>2, <1>5
  <2>2. Cardinality(before(e)) <= Cardinality(before(m))
    BY <1>3, <1>4, <2>1, FS_Subset
  <2>3. QED
    BY <1>3, <1>4, <2>2, FeedAssumption
<1>6. IsFiniteSet(page) /\ Cardinality(page) \in Nat
  BY <1>3
<1>7. Cardinality(page) <= Limit
  <2>1. CASE page = {}
    <3>1. Cardinality(page) = 0
      BY <2>1, FS_EmptySet
    <3>2. QED
      BY <3>1, FeedAssumption
  <2>2. CASE page # {}
    <3>1. page \in SUBSET (0..n)
      <4>1. \A e \in 1..n : e \in 0..n
        OBVIOUS
      <4>2. page \subseteq event
        OBVIOUS
      <4>3. QED
        BY <4>1, <4>2
    <3>2. PICK m \in page : \A e \in page : e <= m
      BY <2>2, <3>1, LastExists
    <3>3. page \subseteq before(m) \cup {m}
      BY <1>2, <3>2
    <3>4. IsFiniteSet(before(m)) /\ Cardinality(before(m)) < Limit
          /\ Cardinality(before(m)) \in Nat
      BY <1>3
    <3>5. /\ IsFiniteSet(before(m) \cup {m})
          /\ Cardinality(before(m) \cup {m}) <= Cardinality(before(m)) + 1
      <4> DEFINE B == before(m)
      <4>1. IsFiniteSet(B) /\ Cardinality(B) \in Nat
        BY <3>4
      <4> HIDE DEF B
      <4>2. /\ IsFiniteSet(B \cup {m})
            /\ Cardinality(B \cup {m}) = IF m \in B THEN Cardinality(B) ELSE Cardinality(B) + 1
        BY <4>1, FS_AddElement
      <4>3. Cardinality(B \cup {m}) <= Cardinality(B) + 1
        BY <4>1, <4>2
      <4>4. QED
        BY <4>2, <4>3 DEF B
    <3>6. Cardinality(page) <= Cardinality(before(m) \cup {m})
      BY <3>3, <3>5, FS_Subset
    <3>7. Cardinality(before(m) \cup {m}) \in Nat
      BY <3>5, FS_CardinalityType
    <3> HIDE DEF page, before
    <3>8. QED
      BY <1>6, <3>4, <3>5, <3>6, <3>7, FeedAssumption
  <2>3. QED
    BY <2>1, <2>2
<1>8. ASSUME Cardinality(page) < Limit PROVE page = new
  <2>1. SUFFICES ASSUME new \ page # {} PROVE FALSE
    OBVIOUS
  <2>2. new \ page \in SUBSET Nat
    BY <1>2
  <2>3. PICK m \in new \ page : \A e \in new \ page : m <= e
    BY <2>1, <2>2, FirstExists
  <2>4. before(m) \subseteq page
    BY <1>2, <2>3
  <2>5. Cardinality(before(m)) <= Cardinality(page)
    BY <1>6, <2>4, FS_Subset
  <2>6. Cardinality(before(m)) \in Nat
    BY <1>3
  <2>7. Cardinality(before(m)) < Limit
    BY <1>6, <1>8, <2>5, <2>6, FeedAssumption
  <2>8. QED
    BY <2>3, <2>7
<1>9. Cardinality(page) = Limit \/ page = new
  <2> HIDE DEF page, new
  <2>1. QED
    BY <1>6, <1>7, <1>8, FeedAssumption
<1>10. QED
  BY <1>1, <1>5, <1>6, <1>9

\* The cursor moves to the last event of the page.
LEMMA CursorAdvances ==
  ASSUME NEW n \in Nat, NEW page \in SUBSET (1..n), page # {}, NEW c
  PROVE  Advanced(c, page) \in page /\ \A e \in page : e <= Advanced(c, page)
<1>1. page \in SUBSET (0..n)
  OBVIOUS
<1>2. \E x \in page : \A e \in page : e <= x
  BY <1>1, LastExists
<1>3. QED
  BY <1>2 DEF Advanced

-----------------------------------------------------------------------------
(* The invariant                                                           *)

WriterRecord == [pc: {"idle", "shared", "locked"}, events: SUBSET (1..drawn), final: BOOLEAN]

ReaderRecord ==
  [pc: {"events", "status", "over"}, kind: {"sse", "cli"}, cursor: 0..drawn,
   page: SUBSET event, sent: SUBSET event]

FeedTyped ==
  /\ creator \in [Creators -> {"new", "missing", "answered", "error"}]
  /\ jobs \subseteq Creators /\ drawn \in 0..MaxEvents /\ event \subseteq 1..drawn
  /\ writer \in [Writers -> WriterRecord]
  /\ reader \in ReaderRecord /\ excused \subseteq event /\ ended \in BOOLEAN

\* No sequence is drawn twice, and none before there is a job.
DrawnOnce ==
  /\ \A w \in Writers : writer[w].events \cap event = {}
  /\ \A v, w \in Writers : v # w => writer[v].events \cap writer[w].events = {}
  /\ jobs = {} => drawn = 0 /\ reader.pc = "events" /\ \A w \in Writers : writer[w].pc = "idle"

\* The cursor lies on an event, and whatever is not after it was sent or is excused; after a page
\* that was not full all events were.
ReaderHonest ==
  /\ reader.cursor \in event \cup {0}
  /\ \A e \in event : e <= reader.cursor => e \in reader.sent \cup excused
  /\ reader.pc # "events" =>
       event \subseteq reader.sent \cup excused \/ Cardinality(reader.page) = Limit
  /\ reader.pc = "over" /\ reader.kind = "sse" => reader.page = {}

FeedInv == FeedTyped /\ DrawnOnce /\ ReaderHonest

LEMMA FeedInvInit == FeedInit => FeedInv
<1> SUFFICES ASSUME FeedInit PROVE FeedInv
  OBVIOUS
<1>1. MaxEvents \in Nat
  BY FeedAssumption
<1>2. reader.pc = "events" /\ reader.cursor = 0 /\ reader.page = {} /\ reader.sent = {}
      /\ reader.kind \in {"sse", "cli"} /\ reader \in ReaderRecord
  BY DEF FeedInit, ReaderRecord
<1>3. Quiet \in WriterRecord /\ Quiet.events = {} /\ Quiet.pc = "idle"
  BY DEF Quiet, WriterRecord
<1>4. FeedTyped
  <2>1. drawn = 0 /\ event = {} /\ jobs = {} /\ excused = {} /\ ended = FALSE
    BY DEF FeedInit
  <2>2. writer \in [Writers -> WriterRecord] /\ creator \in [Creators -> {"new"}]
    BY <1>3 DEF FeedInit
  <2>3. ended \in BOOLEAN
    BY <2>1, Zenon
  <2>4. QED
    BY <1>1, <1>2, <2>1, <2>2, <2>3 DEF FeedTyped
<1>5. DrawnOnce /\ ReaderHonest
  BY <1>2, <1>3 DEF FeedInit, DrawnOnce, ReaderHonest
<1>6. QED
  BY <1>4, <1>5 DEF FeedInv

\* A request that does not create the job.
LEMMA CreatorStep ==
  ASSUME FeedInv, NEW c \in Creators, NEW v \in {"missing", "answered", "error"},
         creator' = [creator EXCEPT ![c] = v],
         UNCHANGED <<jobs, drawn, writer, event, ended, reader, excused>>
  PROVE  FeedInv'
<1>1. FeedTyped'
  BY DEF FeedInv, FeedTyped, WriterRecord, ReaderRecord
<1>2. DrawnOnce' /\ ReaderHonest'
  BY DEF FeedInv, DrawnOnce, ReaderHonest
<1>3. QED
  BY <1>1, <1>2 DEF FeedInv

LEMMA CreateStep ==
  ASSUME FeedInv, NEW c \in Creators, Create(c)
  PROVE  FeedInv'
<1>1. /\ jobs = {} /\ drawn < MaxEvents /\ jobs' = jobs \cup {c} /\ drawn' = drawn + 1
      /\ event' = event \cup {drawn + 1}
      /\ creator' = [creator EXCEPT ![c] = "answered"]
      /\ ended' \in BOOLEAN /\ UNCHANGED <<writer, reader, excused>>
  BY DEF Create
<1>2. drawn = 0 /\ reader.pc = "events"
  BY <1>1 DEF FeedInv, DrawnOnce
<1>3. event = {} /\ reader.cursor = 0 /\ \A w \in Writers : writer[w].events = {}
  BY <1>2 DEF FeedInv, FeedTyped, WriterRecord, ReaderRecord
<1>4. drawn' = 1 /\ event' = {1} /\ MaxEvents \in Nat /\ 1 <= MaxEvents
  BY <1>1, <1>2, <1>3, FeedAssumption
<1>5. FeedTyped'
  <2>1. writer' \in [Writers -> WriterRecord']
    BY <1>1, <1>2, <1>4 DEF FeedInv, FeedTyped, WriterRecord
  <2>2. reader' \in ReaderRecord'
    BY <1>1, <1>2, <1>3, <1>4 DEF FeedInv, FeedTyped, ReaderRecord
  <2>3. QED
    BY <1>1, <1>3, <1>4, <2>1, <2>2 DEF FeedInv, FeedTyped
<1>6. DrawnOnce' /\ ReaderHonest'
  BY <1>1, <1>2, <1>3, <1>4 DEF FeedInv, DrawnOnce, ReaderHonest
<1>7. QED
  BY <1>5, <1>6 DEF FeedInv

\* A transaction draws the next sequence.
LEMMA DrawStep ==
  ASSUME FeedInv, NEW w \in Writers, NEW row, row.events = writer[w].events \cup {drawn + 1},
         row \in [pc: {"idle", "shared", "locked"}, events: SUBSET Int, final: BOOLEAN],
         jobs # {}, drawn < MaxEvents, drawn' = drawn + 1,
         writer' = [writer EXCEPT ![w] = row],
         UNCHANGED <<creator, jobs, event, ended, reader, excused>>
  PROVE  FeedInv'
<1>1. drawn \in Nat /\ drawn' \in 0..MaxEvents /\ MaxEvents \in Nat
  BY FeedAssumption DEF FeedInv, FeedTyped
<1>2. \A e \in 1..drawn : e \in 1..drawn' /\ e # drawn + 1
  BY <1>1
<1>3. writer[w] \in WriterRecord
  BY DEF FeedInv, FeedTyped
<1>4. row.events \in SUBSET (1..drawn')
  BY <1>1, <1>2, <1>3 DEF WriterRecord
<1>5. row \in WriterRecord'
  BY <1>4 DEF WriterRecord
<1>6. \A v \in WriterRecord : v \in WriterRecord'
  BY <1>2 DEF WriterRecord
<1>7. FeedTyped'
  <2>1. writer' \in [Writers -> WriterRecord']
    BY <1>5, <1>6 DEF FeedInv, FeedTyped
  <2>2. reader' \in ReaderRecord'
    BY <1>1 DEF FeedInv, FeedTyped, ReaderRecord
  <2>3. event' \subseteq 1..drawn'
    BY <1>2 DEF FeedInv, FeedTyped
  <2>4. QED
    BY <1>1, <2>1, <2>2, <2>3 DEF FeedInv, FeedTyped
<1>8. DrawnOnce'
  <2>1. /\ writer'[w] = row
        /\ \A v \in Writers \ {w} : writer'[v] = writer[v]
    BY DEF FeedInv, FeedTyped
  <2>2. \A v \in Writers : drawn + 1 \notin writer[v].events
    BY <1>2 DEF FeedInv, FeedTyped, WriterRecord
  <2>3. drawn + 1 \notin event
    BY <1>2 DEF FeedInv, FeedTyped
  <2>4. \A v \in Writers : writer'[v].events \cap event' = {}
    BY <2>1, <2>3 DEF FeedInv, DrawnOnce
  <2>5. \A u, v \in Writers : u # v => writer'[u].events \cap writer'[v].events = {}
    BY <2>1, <2>2 DEF FeedInv, DrawnOnce
  <2>6. QED
    BY <2>4, <2>5 DEF DrawnOnce
<1>9. ReaderHonest'
  BY DEF FeedInv, ReaderHonest
<1>10. QED
  BY <1>7, <1>8, <1>9 DEF FeedInv

\* A transaction takes a lock or is over: its sequences are lost if it has not committed them.
LEMMA WriterStep ==
  ASSUME FeedInv, NEW w \in Writers, NEW row \in WriterRecord,
         row.events \subseteq writer[w].events, jobs # {} \/ row.pc = "idle",
         writer' = [writer EXCEPT ![w] = row],
         UNCHANGED <<creator, jobs, drawn, event, ended, reader, excused>>
  PROVE  FeedInv'
<1>1. FeedTyped'
  BY DEF FeedInv, FeedTyped, WriterRecord, ReaderRecord
<1>2. /\ writer'[w] = row
      /\ \A v \in Writers \ {w} : writer'[v] = writer[v]
  BY DEF FeedInv, FeedTyped
<1>3. DrawnOnce'
  <2>1. \A v \in Writers : writer'[v].events \subseteq writer[v].events
    BY <1>2
  <2>2. QED
    BY <2>1 DEF FeedInv, DrawnOnce
<1>4. ReaderHonest'
  BY DEF FeedInv, ReaderHonest
<1>5. QED
  BY <1>1, <1>3, <1>4 DEF FeedInv

\* What is committed behind the cursor, or after the last page, is excused.
LEMMA CommitEventsStep ==
  ASSUME FeedInv, NEW w \in Writers, CommitEvents(w)
  PROVE  FeedInv'
<1> DEFINE new == writer[w].events
<1>1. /\ new # {} /\ event' = event \cup new /\ ended' = (ended \/ writer[w].final)
      /\ writer' = [writer EXCEPT ![w] = Quiet]
      /\ excused' = excused \cup {e \in new : e < reader.cursor \/ reader.pc \in {"status", "over"}}
      /\ UNCHANGED <<creator, jobs, drawn, reader>>
  BY DEF CommitEvents
<1>2. new \in SUBSET (1..drawn) /\ drawn \in Nat /\ event \subseteq 1..drawn /\ new \cap event = {}
  BY DEF FeedInv, FeedTyped, WriterRecord, DrawnOnce
<1>3. /\ writer'[w] = Quiet
      /\ \A v \in Writers \ {w} : writer'[v] = writer[v]
      /\ Quiet \in WriterRecord /\ Quiet.events = {}
  BY <1>1 DEF FeedInv, FeedTyped, Quiet, WriterRecord
<1>4. reader \in ReaderRecord
  BY DEF FeedInv, FeedTyped
<1>5. FeedTyped'
  <2>1. writer' \in [Writers -> WriterRecord']
    BY <1>1, <1>3 DEF FeedInv, FeedTyped, WriterRecord
  <2>2. reader' \in ReaderRecord'
    BY <1>1, <1>4 DEF ReaderRecord
  <2>3. event' \subseteq 1..drawn' /\ excused' \subseteq event'
    BY <1>1, <1>2 DEF FeedInv, FeedTyped
  <2>4. ended' \in BOOLEAN
    BY <1>1, Zenon
  <2>5. QED
    BY <1>1, <2>1, <2>2, <2>3, <2>4 DEF FeedInv, FeedTyped
<1>6. DrawnOnce'
  <2>1. \A v \in Writers : writer'[v].events \cap event' = {}
    BY <1>1, <1>3 DEF FeedInv, DrawnOnce
  <2>2. \A u, v \in Writers : u # v => writer'[u].events \cap writer'[v].events = {}
    BY <1>3 DEF FeedInv, DrawnOnce
  <2>3. jobs # {}
    BY <1>1 DEF CommitEvents, InTransaction, FeedInv, DrawnOnce
  <2>4. QED
    BY <1>1, <2>1, <2>2, <2>3 DEF DrawnOnce
<1>7. ReaderHonest'
  <2>1. reader.cursor \in event \cup {0} /\ reader.cursor \in 0..drawn
    BY <1>4 DEF FeedInv, ReaderHonest, ReaderRecord
  <2>2. ASSUME NEW e \in event', e <= reader.cursor PROVE e \in reader.sent \cup excused'
    <3>1. CASE e \in event
      BY <1>1, <2>2, <3>1 DEF FeedInv, ReaderHonest
    <3>2. CASE e \in new
      <4>1. e # reader.cursor /\ e \in Nat
        BY <1>2, <2>1, <3>2
      <4>2. e < reader.cursor
        BY <2>1, <2>2, <4>1
      <4>3. QED
        BY <1>1, <3>2, <4>2
    <3>3. QED
      BY <1>1, <3>1, <3>2
  <2>3. ASSUME reader.pc # "events"
        PROVE  event' \subseteq reader.sent \cup excused' \/ Cardinality(reader.page) = Limit
    <3>1. reader.pc \in {"status", "over"}
      BY <1>4, <2>3 DEF ReaderRecord
    <3>2. new \subseteq excused'
      BY <1>1, <3>1
    <3>3. QED
      BY <1>1, <2>3, <3>2 DEF FeedInv, ReaderHonest
  <2>4. reader' = reader
    BY <1>1
  <2>5. QED
    BY <1>1, <2>1, <2>2, <2>3, <2>4 DEF FeedInv, ReaderHonest
<1>8. QED
  BY <1>5, <1>6, <1>7 DEF FeedInv

\* A page follows on what was sent before.
LEMMA PageStep ==
  ASSUME FeedInv, ReadEvents
  PROVE  FeedInv'
<1> DEFINE c == reader.cursor
           page == EventPage(c)
           d == Advanced(c, page)
<1>1. /\ jobs # {}
      /\ reader' = [reader EXCEPT !.pc = "status", !.cursor = d, !.page = page,
                                  !.sent = @ \cup page]
      /\ UNCHANGED <<creator, jobs, drawn, writer, event, ended, excused>>
  BY DEF ReadEvents
<1>2. reader \in ReaderRecord /\ event \in SUBSET (1..drawn) /\ drawn \in Nat
  BY DEF FeedInv, FeedTyped
<1>3. c \in 0..drawn /\ c \in Nat /\ c \in event \cup {0}
  BY <1>2 DEF ReaderRecord, FeedInv, ReaderHonest
<1>4. /\ page \subseteq event
      /\ \A e \in page : e > c
      /\ \A e \in event, m \in page : c < e /\ e <= m => e \in page
      /\ Cardinality(page) = Limit \/ page = {e \in event : e > c}
  BY <1>2, <1>3, PageIsFirst
<1>5. page # {} => d \in page /\ \A e \in page : e <= d
  BY <1>2, <1>4, CursorAdvances
<1>6. page = {} => d = c
  BY DEF Advanced
<1>7. d \in event \cup {0} /\ d \in 0..drawn /\ c <= d
  <2>1. CASE page = {}
    BY <1>3, <1>6, <2>1
  <2>2. CASE page # {}
    <3>1. d \in event /\ d > c
      BY <1>4, <1>5, <2>2
    <3>2. d \in 1..drawn
      BY <1>2, <3>1
    <3> HIDE DEF d, page
    <3>3. QED
      BY <1>2, <1>3, <3>1, <3>2
  <2>3. QED
    BY <2>1, <2>2
<1> HIDE DEF page, d
<1>8. /\ reader'.pc = "status" /\ reader'.cursor = d /\ reader'.page = page
      /\ reader'.sent = reader.sent \cup page /\ reader'.kind = reader.kind
      /\ reader' \in ReaderRecord
  BY <1>1, <1>2, <1>4, <1>7 DEF ReaderRecord
<1>9. FeedTyped'
  <2>1. reader' \in ReaderRecord'
    BY <1>1, <1>8 DEF ReaderRecord
  <2>2. writer' \in [Writers -> WriterRecord']
    BY <1>1 DEF FeedInv, FeedTyped, WriterRecord
  <2>3. QED
    BY <1>1, <2>1, <2>2 DEF FeedInv, FeedTyped
<1>10. DrawnOnce'
  BY <1>1 DEF FeedInv, DrawnOnce
<1>11. ReaderHonest'
  <2>1. ASSUME NEW e \in event, e <= d PROVE e \in reader.sent \cup page \cup excused
    <3>1. CASE e <= c
      BY <3>1 DEF FeedInv, ReaderHonest
    <3>2. CASE c < e
      BY <1>3, <1>4, <1>5, <1>6, <2>1, <3>2, <1>2, <1>7
    <3>3. e \in Nat
      BY <1>2
    <3>4. QED
      BY <1>3, <3>1, <3>2, <3>3
  <2>2. event \subseteq reader.sent \cup page \cup excused \/ Cardinality(page) = Limit
    <3>1. SUFFICES ASSUME page = {e \in event : e > c}
                   PROVE  event \subseteq reader.sent \cup page \cup excused
      BY <1>4
    <3>2. \A e \in event : e <= c \/ e > c
      BY <1>2, <1>3
    <3>3. QED
      BY <3>1, <3>2 DEF FeedInv, ReaderHonest
  <2>3. QED
    BY <1>1, <1>7, <1>8, <2>1, <2>2 DEF ReaderHonest
<1>12. QED
  BY <1>9, <1>10, <1>11 DEF FeedInv

LEMMA StatusStep ==
  ASSUME FeedInv, ReadStatus
  PROVE  FeedInv'
<1> DEFINE pc == IF Over THEN "over" ELSE "events"
<1>1. /\ reader.pc = "status" /\ reader' = [reader EXCEPT !.pc = pc]
      /\ UNCHANGED <<creator, jobs, drawn, writer, event, ended, excused>>
  BY DEF ReadStatus
<1>2. pc \in {"over", "events"} /\ (pc = "over" => (reader.kind = "sse" => reader.page = {}))
  BY DEF Over
<1> HIDE DEF pc
<1>3. reader \in ReaderRecord
  BY DEF FeedInv, FeedTyped
<1>4. /\ reader'.pc = pc /\ reader'.cursor = reader.cursor /\ reader'.page = reader.page
      /\ reader'.sent = reader.sent /\ reader'.kind = reader.kind
      /\ reader' \in ReaderRecord
  BY <1>1, <1>2, <1>3 DEF ReaderRecord
<1>5. FeedTyped'
  <2>1. reader' \in ReaderRecord'
    BY <1>1, <1>4 DEF ReaderRecord
  <2>2. writer' \in [Writers -> WriterRecord']
    BY <1>1 DEF FeedInv, FeedTyped, WriterRecord
  <2>3. QED
    BY <1>1, <2>1, <2>2 DEF FeedInv, FeedTyped
<1>6. DrawnOnce'
  BY <1>1 DEF FeedInv, DrawnOnce
<1>7. ReaderHonest'
  BY <1>1, <1>2, <1>4 DEF FeedInv, ReaderHonest
<1>8. QED
  BY <1>5, <1>6, <1>7 DEF FeedInv

LEMMA FeedInvStep == FeedInv /\ [FeedNext]_feedVars => FeedInv'
<1> SUFFICES ASSUME FeedInv, [FeedNext]_feedVars PROVE FeedInv'
  OBVIOUS
<1> USE DEF FeedInv
<1>1. ASSUME NEW c \in Creators, LookUp(c) \/ CreateFails(c) PROVE FeedInv'
  <2>1. CASE LookUp(c)
    BY <2>1, CreatorStep DEF LookUp
  <2>2. CASE CreateFails(c)
    BY <2>2, CreatorStep DEF CreateFails
  <2>3. QED
    BY <1>1, <2>1, <2>2
<1>2. ASSUME NEW w \in Writers PROVE writer[w] \in WriterRecord /\ drawn \in Nat
  BY DEF FeedTyped
<1>3. ASSUME NEW w \in Writers, Lock(w) PROVE FeedInv'
  <2> DEFINE row == [writer[w] EXCEPT !.pc = "locked"]
  <2>1. row \in WriterRecord /\ row.events = writer[w].events
    BY <1>2 DEF WriterRecord
  <2>2. /\ writer' = [writer EXCEPT ![w] = row] /\ jobs # {}
        /\ UNCHANGED <<creator, jobs, drawn, event, ended, reader, excused>>
    BY <1>3 DEF Lock
  <2> HIDE DEF row
  <2>3. QED
    BY <2>1, <2>2, WriterStep
<1> DEFINE Drawing == [pc: {"idle", "shared", "locked"}, events: SUBSET Int, final: BOOLEAN]
<1>4. ASSUME NEW w \in Writers
      PROVE  writer[w] \in Drawing /\ writer[w].events \cup {drawn + 1} \in SUBSET Int
  BY <1>2 DEF WriterRecord
<1>5. ASSUME NEW w \in Writers, Insert(w) PROVE FeedInv'
  <2> DEFINE pc == IF writer[w].pc = "locked" THEN writer[w].pc ELSE "shared"
             events == writer[w].events \cup {drawn + 1}
             row == [writer[w] EXCEPT !.events = events, !.pc = pc]
  <2>1. writer' = [writer EXCEPT ![w] = row]
    BY <1>5, <1>2 DEF Insert
  <2>2. writer[w] \in Drawing /\ events \in SUBSET Int /\ pc \in {"idle", "shared", "locked"}
    BY <1>4
  <2> HIDE DEF pc, events
  <2>3. row \in Drawing /\ row.events = events
    BY <2>2
  <2> HIDE DEF row
  <2>4. QED
    BY <1>5, <2>1, <2>3, DrawStep DEF Insert, events
<1>6. ASSUME NEW w \in Writers, Conclude(w) PROVE FeedInv'
  <2> DEFINE events == writer[w].events \cup {drawn + 1}
             row == [writer[w] EXCEPT !.events = events, !.final = TRUE]
  <2>1. writer' = [writer EXCEPT ![w] = row]
    BY <1>6, <1>2 DEF Conclude
  <2>2. writer[w] \in Drawing /\ events \in SUBSET Int /\ TRUE \in BOOLEAN
    BY <1>4
  <2> HIDE DEF events
  <2>3. row \in Drawing /\ row.events = events
    BY <2>2
  <2>4. jobs # {}
    BY <1>6 DEF Conclude, DrawnOnce
  <2> HIDE DEF row
  <2>5. QED
    BY <1>6, <2>1, <2>3, <2>4, DrawStep DEF Conclude, events
<1>7. ASSUME NEW w \in Writers, Abort(w) PROVE FeedInv'
  <2>1. Quiet \in WriterRecord /\ Quiet.events = {} /\ Quiet.pc = "idle"
    BY DEF Quiet, WriterRecord
  <2>2. QED
    BY <1>7, <2>1, WriterStep DEF Abort
<1>8. CASE UNCHANGED feedVars
  <2>1. FeedTyped'
    BY <1>8 DEF feedVars, FeedTyped, WriterRecord, ReaderRecord
  <2>2. DrawnOnce' /\ ReaderHonest'
    BY <1>8 DEF feedVars, DrawnOnce, ReaderHonest
  <2>3. QED
    BY <2>1, <2>2
<1> HIDE DEF FeedInv
<1>9. QED
  BY <1>1, <1>3, <1>5, <1>6, <1>7, <1>8, CreateStep, CommitEventsStep, PageStep, StatusStep
     DEF FeedNext

LEMMA FeedInvariant == FeedSpec => []FeedInv
<1>1. QED
  BY FeedInvInit, FeedInvStep, PTL DEF FeedSpec

-----------------------------------------------------------------------------
(* Theorems                                                                *)

\* Every reachable state of a job's events and of those who write and read them is well typed.
THEOREM FeedTypes == FeedSpec => []FeedTypeOK
<1>1. FeedInv => FeedTypeOK
  BY DEF FeedInv, FeedTyped, WriterRecord, ReaderRecord, FeedTypeOK
<1>2. QED
  BY <1>1, FeedInvariant, PTL

\* stream_job_events and watch_job skip no event: what a client has not been sent was committed
\* behind its cursor or between its last two reads, or lies beyond the last page of watch_job.
THEOREM FeedIsComplete == FeedSpec => []FeedComplete
<1>1. FeedInv => FeedComplete
  <2> SUFFICES ASSUME FeedInv PROVE FeedComplete
    OBVIOUS
  <2>1. reader.kind \in {"sse", "cli"}
    BY DEF FeedInv, FeedTyped, ReaderRecord
  <2>2. Cardinality({}) # Limit
    BY FS_EmptySet, FeedAssumption
  <2>3. QED
    BY <2>1, <2>2 DEF FeedInv, ReaderHonest, FeedComplete
<1>2. QED
  BY <1>1, FeedInvariant, PTL
=============================================================================
