------------------------------- MODULE JobFeed -------------------------------
(***************************************************************************)
(* The creation of a job under an idempotency key, the events its          *)
(* transactions write, and a client that follows them: through the event   *)
(* stream of the API ("sse") or with the watch command ("cli").            *)
(*                                                                         *)
(* The sequence of an event is drawn when the row is inserted; others see  *)
(* it when the transaction commits.  Inserting it share-locks the job, so  *)
(* it waits for the transactions that have selected the job FOR UPDATE,    *)
(* and makes those wait.                                                   *)
(***************************************************************************)
EXTENDS Integers, FiniteSets

CONSTANTS
  Creators,   \* requests that create the job with the same key
  Writers,    \* transactions of workers and requests on the job
  Limit,      \* size of a page of events
  MaxEvents   \* bound on the sequences that are drawn

ASSUME FeedAssumption == Limit \in Nat \ {0} /\ MaxEvents \in Nat

VARIABLES
  creator,   \* what each create request is doing, and what it answered
  jobs,      \* the creators whose job is in the table
  drawn,     \* sequences drawn so far
  writer,    \* the open transactions: their events and whether they hold FOR UPDATE
  event,     \* sequences of the committed events
  ended,     \* the status of the job is final
  reader,    \* the client: where it is, its cursor and what it was sent
  excused    \* events committed behind the cursor, or between the client's two reads

feedVars == <<creator, jobs, drawn, writer, event, ended, reader, excused>>

Quiet == [pc |-> "idle", events |-> {}, final |-> FALSE]

InTransaction(w) == writer[w].pc # "idle"

-----------------------------------------------------------------------------
(* create_*_job                                                            *)

\* The key is looked up.
LookUp(c) ==
  /\ creator[c] = "new"
  /\ creator' = [creator EXCEPT ![c] = IF jobs = {} THEN "missing" ELSE "answered"]
  /\ UNCHANGED <<jobs, drawn, writer, event, ended, reader, excused>>

\* Job, items and the first event are one transaction, which completes the job
\* when nothing was selected.
Create(c) ==
  /\ creator[c] = "missing" /\ jobs = {} /\ drawn < MaxEvents
  /\ jobs' = jobs \cup {c}
  /\ drawn' = drawn + 1
  /\ event' = event \cup {drawn + 1}
  /\ creator' = [creator EXCEPT ![c] = "answered"]
  /\ ended' \in BOOLEAN
  /\ UNCHANGED <<writer, reader, excused>>

\* The unique index of idempotency_key: the flush raises an IntegrityError.
CreateFails(c) ==
  /\ creator[c] = "missing" /\ jobs # {}
  /\ creator' = [creator EXCEPT ![c] = "error"]
  /\ UNCHANGED <<jobs, drawn, writer, event, ended, reader, excused>>

-----------------------------------------------------------------------------
(* Transactions on the job                                                 *)

\* lease_next_item selects the job FOR UPDATE first, finish_item after it has
\* inserted an event.
Lock(w) ==
  /\ jobs # {} /\ writer[w].pc \in {"idle", "shared"}
  /\ \A v \in Writers \ {w} : ~InTransaction(v)
  /\ writer' = [writer EXCEPT ![w].pc = "locked"]
  /\ UNCHANGED <<creator, jobs, drawn, event, ended, reader, excused>>

\* JobEvent: the key of the job is locked FOR KEY SHARE.
Insert(w) ==
  /\ jobs # {} /\ drawn < MaxEvents /\ writer[w].events = {}
  /\ \A v \in Writers \ {w} : writer[v].pc # "locked"
  /\ drawn' = drawn + 1
  /\ writer' = [writer EXCEPT ![w].events = @ \cup {drawn + 1},
                              ![w].pc = IF @ = "locked" THEN @ ELSE "shared"]
  /\ UNCHANGED <<creator, jobs, event, ended, reader, excused>>

\* _refresh_job_summary finds no unfinished item.
Conclude(w) ==
  /\ writer[w].pc = "locked" /\ ~writer[w].final /\ ~ended /\ drawn < MaxEvents
  /\ drawn' = drawn + 1
  /\ writer' = [writer EXCEPT ![w].events = @ \cup {drawn + 1}, ![w].final = TRUE]
  /\ UNCHANGED <<creator, jobs, event, ended, reader, excused>>

CommitEvents(w) ==
  LET new == writer[w].events IN
  /\ InTransaction(w) /\ new # {}
  /\ event' = event \cup new
  /\ ended' = (ended \/ writer[w].final)
  /\ writer' = [writer EXCEPT ![w] = Quiet]
  /\ excused' = excused \cup {e \in new : e < reader.cursor \/ reader.pc \in {"status", "over"}}
  /\ UNCHANGED <<creator, jobs, drawn, reader>>

\* An error, a crash, or a deadlock of two finish_item that want the lock.
Abort(w) ==
  /\ InTransaction(w)
  /\ writer' = [writer EXCEPT ![w] = Quiet]
  /\ UNCHANGED <<creator, jobs, drawn, event, ended, reader, excused>>

-----------------------------------------------------------------------------
(* The client                                                              *)

\* list_job_events.
EventPage(cursor) ==
  LET new == {e \in event : e > cursor} IN
  {e \in new : Cardinality({o \in new : o < e}) < Limit}

\* Mutant: the cursor moves to the last event there is.
AdvancedTooFar(cursor, page) ==
  IF page = {} THEN cursor ELSE CHOOSE e \in event : \A o \in event : o <= e

\* Mutant: the cursor counts pages, as an offset does.
AdvancedByLimit(cursor, page) == cursor + Limit

Advanced(cursor, page) == IF page = {} THEN cursor ELSE CHOOSE e \in page : \A o \in page : o <= e

ReadEvents ==
  LET page == EventPage(reader.cursor) IN
  /\ jobs # {} /\ reader.pc = "events"
  /\ reader' = [reader EXCEPT !.pc = "status", !.cursor = Advanced(@, page), !.page = page,
                              !.sent = @ \cup page]
  /\ UNCHANGED <<creator, jobs, drawn, writer, event, ended, excused>>

\* Mutant: the stream goes on for as long as the job has events.
OverNever == ended /\ event = {}

\* The stream ends with a page that is empty, watch_job with any.
Over == ended /\ (reader.kind = "sse" => reader.page = {})

\* Every second the status of the job is read after its events.
ReadStatus ==
  /\ reader.pc = "status"
  /\ reader' = [reader EXCEPT !.pc = IF Over THEN "over" ELSE "events"]
  /\ UNCHANGED <<creator, jobs, drawn, writer, event, ended, excused>>

-----------------------------------------------------------------------------
FeedInit ==
  /\ creator = [c \in Creators |-> "new"]
  /\ jobs = {} /\ drawn = 0 /\ event = {} /\ ended = FALSE
  /\ writer = [w \in Writers |-> Quiet]
  /\ reader \in [pc: {"events"}, kind: {"sse", "cli"}, cursor: {0}, page: {{}}, sent: {{}}]
  /\ excused = {}

FeedNext ==
  \/ \E c \in Creators : LookUp(c) \/ Create(c) \/ CreateFails(c)
  \/ \E w \in Writers : Lock(w) \/ Insert(w) \/ Conclude(w) \/ CommitEvents(w) \/ Abort(w)
  \/ ReadEvents \/ ReadStatus

\* The client stays connected.
FeedSpec == FeedInit /\ [][FeedNext]_feedVars /\ WF_feedVars(ReadEvents) /\ WF_feedVars(ReadStatus)

-----------------------------------------------------------------------------
(* Properties                                                              *)

FeedTypeOK ==
  /\ \A c \in Creators : creator[c] \in {"new", "missing", "answered", "error"}
  /\ jobs \subseteq Creators /\ drawn \in 0..MaxEvents /\ event \subseteq 1..drawn
  /\ \A w \in Writers : /\ writer[w].pc \in {"idle", "shared", "locked"}
                        /\ writer[w].events \subseteq 1..drawn
  /\ reader.pc \in {"events", "status", "over"} /\ reader.cursor \in 0..drawn
  /\ reader.sent \subseteq event /\ excused \subseteq event

\* The client is sent every event up to its cursor, and by the end of the job
\* all of them, except those that were committed behind the cursor or between
\* the last page and the last look at the status, and except what does not fit
\* into the last page of watch_job.
FeedComplete ==
  /\ \A e \in event : e <= reader.cursor => e \in reader.sent \cup excused
  /\ reader.pc = "over" =>
       \/ event \subseteq reader.sent \cup excused
       \/ reader.kind = "cli" /\ Cardinality(reader.page) = Limit

\* Following a job that has ended comes to an end, and nothing was missed.
FeedArrives == (ended ~> reader.pc = "over") /\ []FeedComplete
=============================================================================
