------------------------------ MODULE MailStore ------------------------------
(***************************************************************************)
(* The mailbox of an account at its provider, the messages retained here,  *)
(* and what works on both: syncs, deletions and read marks, each of which  *)
(* calls the provider and writes to the database afterwards.               *)
(*                                                                         *)
(* Both channels show the same mailbox, but a message has another id in    *)
(* each: a retained row is known by message and channel.                   *)
(***************************************************************************)
EXTENDS Integers, FiniteSets, Null

CONSTANTS
  Mails,     \* messages of one folder
  Date,      \* when each was received
  Text,      \* where the Date header of each comes as text among the time stamps (IMAP)
  Works,     \* running syncs and requests
  Limits,    \* values of max_messages and of the size of a page
  MaxOps     \* bound on the operations that are begun

\* What the constants have to be.
ASSUME StoreAssumption ==
  /\ IsFiniteSet(Mails)
  /\ Date \in [Mails -> Nat] /\ Text \in [Mails -> Nat]
  /\ Limits \subseteq Nat \ {0} /\ MaxOps \in Nat

Channels == {"graph", "imap"}
Ids == Mails \X Channels

VARIABLES
  inbox,   \* messages at the provider, and whether they were read
  marked,    \* messages that carry the IMAP flag \Deleted
  row,       \* retained_mail_messages: the rows of the account
  policy,    \* its retention policy
  work,      \* what every sync and request is doing
  done,      \* deletions and read marks that were answered with success
  raced,     \* ids whose message a sync had read before such a success
  obeyed,    \* nothing was stored and the policy is the same since the last pruning sync read it
  ops        \* operations begun

storeVars == <<inbox, marked, row, policy, work, done, raced, obeyed, ops>>

RowState == [read: BOOLEAN, body: BOOLEAN, recent: BOOLEAN]
Policy == [enabled: BOOLEAN, bodies: BOOLEAN, max: Limits]

Present == {m \in Mails : inbox[m] # "gone" /\ inbox[m] # "unsent"}
Kept == {i \in Ids : row[i] # None}

\* page: what was listed or fetched and is not stored yet.
Free == [pc |-> "idle", policy |-> None, page |-> {}, channel |-> "graph", read |-> {},
         todo |-> {}, id |-> None, fresh |-> TRUE]

Begin(w, new) ==
  /\ work[w] = Free /\ ops < MaxOps
  /\ ops' = ops + 1
  /\ work' = [work EXCEPT ![w] = new]

Stop(w) == [work EXCEPT ![w] = Free]

-----------------------------------------------------------------------------
(* The mailbox                                                             *)

Receive(m) ==
  /\ inbox[m] = "unsent"
  /\ inbox' = [inbox EXCEPT ![m] = "unread"]
  /\ UNCHANGED <<marked, row, policy, work, done, raced, obeyed, ops>>

-----------------------------------------------------------------------------
(* Syncs                                                                   *)

\* write_retention_policy.
WritePolicy(p) ==
  /\ policy # p /\ ops < MaxOps
  /\ ops' = ops + 1
  /\ policy' = p
  /\ obeyed' = FALSE
  /\ work' = [w \in Works |-> IF work[w] = Free THEN Free ELSE [work[w] EXCEPT !.fresh = FALSE]]
  /\ UNCHANGED <<inbox, marked, row, done, raced>>

\* sync_retention_account keeps the policy it has read until it ends.
StartSync(w) ==
  /\ policy # None /\ policy.enabled
  /\ Begin(w, [Free EXCEPT !.pc = "list", !.policy = policy])
  /\ UNCHANGED <<inbox, marked, row, policy, done, raced, obeyed>>

\* The n members of S that come first in descending order of their keys; equal
\* keys come in any order.
Top(S, n, key) ==
  {T \in SUBSET S :
    /\ Cardinality(T) = IF Cardinality(S) < n THEN Cardinality(S) ELSE n
    /\ \A i \in T, j \in S \ T : key[j] <= key[i]}

\* The newest messages of the folder, as many as a page holds.
Newest(n) == Top(Present, n, Date)

List(w, c) ==
  /\ work[w].pc = "list"
  /\ \E page \in Newest(work[w].policy.max) :
       work' = [work EXCEPT ![w].pc = "page", ![w].channel = c, ![w].page = page,
                            ![w].read = {m \in Present : inbox[m] = "read"}]
  /\ UNCHANGED <<inbox, marked, row, policy, done, raced, obeyed, ops>>

AfterStoring(r) == IF r.todo = {} THEN "prune" ELSE "fetch"

\* cache_mail_page and cache_mail_detail insert a row or replace it; a page
\* leaves the body of a row as it is.
Stored(r, body) ==
  [i \in Ids |->
    IF i[2] = r.channel /\ i[1] \in r.page
    THEN [read |-> i[1] \in r.read, recent |-> TRUE,
          body |-> body \/ (row[i] # None /\ row[i].body)]
    ELSE row[i]]

StorePage(w) ==
  LET r == work[w]
      left == [r EXCEPT !.page = {}, !.todo = IF r.policy.bodies THEN r.page ELSE {}] IN
  /\ r.pc = "page"
  /\ row' = Stored(r, FALSE)
  /\ work' = [work EXCEPT ![w] = [left EXCEPT !.pc = AfterStoring(left)]]
  /\ obeyed' = (obeyed /\ r.page = {})
  /\ UNCHANGED <<inbox, marked, policy, done, raced, ops>>

\* get_mail_detail asks with the id of the page; both ids may be tried, only
\* the channel that gave it knows it.
Fetch(w, m) ==
  /\ work[w].pc = "fetch" /\ m \in work[w].todo \cap Present
  /\ work' = [work EXCEPT ![w].pc = "detail", ![w].page = {m}, ![w].todo = @ \ {m},
                          ![w].read = IF inbox[m] = "read" THEN {m} ELSE {}]
  /\ UNCHANGED <<inbox, marked, row, policy, done, raced, obeyed, ops>>

StoreDetail(w) ==
  LET r == work[w] IN
  /\ r.pc = "detail"
  /\ row' = Stored(r, TRUE)
  /\ work' = [work EXCEPT ![w] = [r EXCEPT !.pc = AfterStoring(r), !.page = {}]]
  /\ obeyed' = FALSE
  /\ UNCHANGED <<inbox, marked, policy, done, raced, ops>>

\* received_at as text: the time stamps of Graph sort by time, the headers of IMAP do not,
\* and any of them may come before any other.
Key == [i \in Ids |-> IF i[2] = "graph" THEN Date[i[1]] ELSE Text[i[1]]]

\* Mutant: the oldest messages are kept.
SurvivorsOldest(S, n) == Top(S, n, [i \in Ids |-> 0 - Key[i]])

\* Mutant: OFFSET max_messages + 1.
SurvivorsOneMore(S, n) == Top(S, n + 1, Key)

\* prune_retained_mail keeps the first n rows in the order of received_at.
Survivors(S, n) == Top(S, n, Key)

\* Rows that were not synced for max_age_days go as well.
Prune(w) ==
  LET r == work[w] IN
  /\ r.pc = "prune"
  /\ \E S \in Survivors({i \in Kept : row[i].recent}, r.policy.max) :
       row' = [i \in Ids |-> IF i \in S THEN row[i] ELSE None]
  /\ work' = Stop(w)
  /\ obeyed' = r.fresh
  /\ UNCHANGED <<inbox, marked, policy, done, raced, ops>>

\* A provider fails, or a listed message is there no more: the item fails
\* with what was stored so far, and nothing is pruned.
SyncFails(w) ==
  /\ work[w].pc \in {"list", "fetch"}
  /\ work' = Stop(w)
  /\ UNCHANGED <<inbox, marked, row, policy, done, raced, obeyed, ops>>

Age(i) ==
  /\ row[i] # None /\ row[i].recent
  /\ \A w \in Works : work[w] = Free
  /\ row' = [row EXCEPT ![i].recent = FALSE]
  /\ UNCHANGED <<inbox, marked, policy, work, done, raced, obeyed, ops>>

\* clear_retained_mail.
Clear ==
  /\ Kept # {}
  /\ row' = [i \in Ids |-> None]
  /\ UNCHANGED <<inbox, marked, policy, work, done, raced, obeyed, ops>>

-----------------------------------------------------------------------------
(* delete_mail and mark_mail_read                                          *)

StartDelete(w, i) ==
  /\ inbox[i[1]] # "unsent"
  /\ Begin(w, [Free EXCEPT !.pc = "delete", !.id = i])
  /\ UNCHANGED <<inbox, marked, row, policy, done, raced, obeyed>>

Removed(S) == [m \in Mails |-> IF m \in S THEN "gone" ELSE inbox[m]]

\* Graph deletes the message, or does not find it (Refuse).
GraphDeletes(m) ==
  /\ m \in Present
  /\ inbox' = Removed({m}) /\ marked' = marked \ {m}

\* IMAP marks the message, if it is there, and expunges everything that is marked.
ImapDeletes(m) == inbox' = Removed(marked \cup ({m} \cap Present)) /\ marked' = {}

ProviderDeletes(w) ==
  LET i == work[w].id IN
  /\ work[w].pc = "delete"
  /\ IF i[2] = "graph" THEN GraphDeletes(i[1]) ELSE ImapDeletes(i[1])
  /\ work' = [work EXCEPT ![w].pc = "forget"]
  /\ UNCHANGED <<row, policy, done, raced, obeyed, ops>>

\* The flag is set and EXPUNGE fails: the request fails.
ExpungeFails(w) ==
  LET i == work[w].id IN
  /\ work[w].pc = "delete" /\ i[2] = "imap" /\ i[1] \in Present
  /\ marked' = marked \cup {i[1]}
  /\ work' = Stop(w)
  /\ UNCHANGED <<inbox, row, policy, done, raced, obeyed, ops>>

\* What a sync has in its hands.
InFlight(m) ==
  \E w \in Works :
    /\ work[w].pc \in {"page", "fetch", "detail"}
    /\ m \in work[w].page \cup work[w].todo

Answered(op, i) ==
  /\ done' = done \cup {<<op, i>>}
  /\ raced' = IF InFlight(i[1]) THEN raced \cup {i} ELSE raced

\* Mutant: the retained copy stays.
ForgottenNot(i) == row

Forgotten(i) == [row EXCEPT ![i] = None]

ForgetRow(w) ==
  LET i == work[w].id IN
  /\ work[w].pc = "forget"
  /\ row' = Forgotten(i)
  /\ Answered("delete", i)
  /\ work' = Stop(w)
  /\ UNCHANGED <<inbox, marked, policy, obeyed, ops>>

StartMark(w, i) ==
  /\ i[1] \in Present
  /\ Begin(w, [Free EXCEPT !.pc = "mark", !.id = i])
  /\ UNCHANGED <<inbox, marked, row, policy, done, raced, obeyed>>

ProviderMarks(w) ==
  LET m == work[w].id[1] IN
  /\ work[w].pc = "mark" /\ m \in Present
  /\ inbox' = [inbox EXCEPT ![m] = "read"]
  /\ work' = [work EXCEPT ![w].pc = "show"]
  /\ UNCHANGED <<marked, row, policy, done, raced, obeyed, ops>>

ShowRead(w) ==
  LET i == work[w].id IN
  /\ work[w].pc = "show"
  /\ row' = IF row[i] = None THEN row ELSE [row EXCEPT ![i].read = TRUE]
  /\ Answered("read", i)
  /\ work' = Stop(w)
  /\ UNCHANGED <<inbox, marked, policy, obeyed, ops>>

\* No channel does it, or the process ends before the database has it.
Refuse(w) ==
  /\ work[w].pc \in {"delete", "mark", "forget", "show"}
  /\ work' = Stop(w)
  /\ UNCHANGED <<inbox, marked, row, policy, done, raced, obeyed, ops>>

-----------------------------------------------------------------------------
StoreInit ==
  /\ inbox \in [Mails -> {"unsent", "unread"}] /\ marked = {}
  /\ row = [i \in Ids |-> None]
  /\ policy = None
  /\ work = [w \in Works |-> Free]
  /\ done = {} /\ raced = {} /\ obeyed = FALSE /\ ops = 0

StoreNext ==
  \/ \E m \in Mails : Receive(m)
  \/ \E p \in Policy : WritePolicy(p)
  \/ \E w \in Works :
       \/ StartSync(w) \/ StorePage(w) \/ StoreDetail(w) \/ Prune(w) \/ SyncFails(w)
       \/ \E c \in Channels : List(w, c)
       \/ \E m \in Mails : Fetch(w, m)
       \/ \E i \in Ids : StartDelete(w, i) \/ StartMark(w, i)
       \/ ProviderDeletes(w) \/ ExpungeFails(w) \/ ForgetRow(w)
       \/ ProviderMarks(w) \/ ShowRead(w) \/ Refuse(w)
  \/ \E i \in Ids : Age(i)
  \/ Clear

StoreSpec == StoreInit /\ [][StoreNext]_storeVars

-----------------------------------------------------------------------------
(* Properties                                                              *)

StoreTypeOK ==
  /\ inbox \in [Mails -> {"unsent", "unread", "read", "gone"}] /\ marked \subseteq Mails
  /\ row \in [Ids -> RowState \cup {None}]
  /\ policy \in Policy \cup {None}
  /\ \A w \in Works : work[w].policy \in Policy \cup {None} /\ work[w].page \subseteq Mails
  /\ raced \subseteq Ids /\ obeyed \in BOOLEAN /\ ops \in 0..MaxOps

\* What was deleted here stays deleted and what was read stays read, unless a
\* sync had the message in its hands at the time.
LocalCopyFollows ==
  \A i \in Ids \ raced :
    /\ <<"delete", i>> \in done => row[i] = None
    /\ <<"read", i>> \in done /\ row[i] # None => row[i].read

\* After a sync the account retains as many messages as the policy allows, as
\* long as nobody has written the policy since it began and nothing else was
\* stored; a sync that fails prunes nothing.
PolicyObeyed == obeyed => Cardinality(Kept) <= policy.max

\* Pruning takes no message that is newer than one it leaves, if IMAP has
\* listed none and the row was not old.
NewestKept ==
  [][\A w \in Works : work[w].pc = "prune" /\ work'[w].pc = "idle" =>
       \A i, j \in Kept :
         row'[i] = None /\ row[i].recent /\ row'[j] # None /\ {k[2] : k \in Kept} = {"graph"} =>
           Date[j[1]] >= Date[i[1]]]_storeVars

\* What a policy promises.
RetentionObeyed == NewestKept /\ []PolicyObeyed
=============================================================================
