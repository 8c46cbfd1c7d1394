----------------------------- MODULE Forwarding -----------------------------
(***************************************************************************)
(* Mail forwarding for one account: a scan lists the mail after the        *)
(* cursor, claims one delivery after the other, sends it outside any       *)
(* transaction, records the outcome, and moves the cursor at the end.      *)
(* Every job item of a forwarding job runs a scan, and scans of one        *)
(* account may overlap.  Between two actions of a scan anything may happen *)
(* to the rows it read.                                                    *)
(*                                                                         *)
(* A scan keeps its destinations in the database session.  rollback makes  *)
(* the session forget what it loaded, and the next access to a destination *)
(* outside an awaited call raises MissingGreenlet: expired.                *)
(***************************************************************************)
EXTENDS Integers, FiniteSets, Null

CONSTANTS
  Messages,      \* mail that may arrive
  Destinations,  \* enabled destinations of the account
  Scans,         \* workers that may be scanning the account at once
  Received,      \* received_at of each message; 0: it cannot be parsed
  PageSize,      \* messages one listing returns
  Faults,        \* what may go wrong, see Failures
  MaxFaults,     \* bound on how often
  MaxResets      \* bound on resets of the cursor

\* Mail cannot be read; a send fails, or reports a failure after the message
\* was accepted; a delivery raises; it takes five minutes; the worker dies.
Failures == {"fetch", "send", "unheard", "raise", "slow", "crash"}

ASSUME ForwardingAssumption ==
  /\ Received \in [Messages -> Nat]
  /\ IsFiniteSet(Scans)
  /\ Destinations # {}
  /\ PageSize \in Nat \ {0}
  /\ Faults \subseteq Failures
  /\ MaxFaults \in Nat /\ MaxResets \in Nat
  /\ None \notin Messages \cup Destinations

VARIABLES
  mailbox,    \* messages that have arrived
  cursor,     \* account_forwarding.cursor_at, 0 for NULL
  delivery,   \* forwarding_deliveries.status, "none" without a row
  fresh,      \* updated_at is less than five minutes ago
  copies,     \* how often the destination got the message
  takeovers,  \* claims of a row that was still processing
  unheard,    \* failures reported of sends that reached the destination
  relied,     \* deliveries a scan left to the claim of another that was in progress
  scan,       \* the local variables of each scan
  faults, resets

vars == <<mailbox, cursor, delivery, fresh, copies, takeovers, unheard, relied, scan,
          faults, resets>>

Pairs == Messages \X Destinations

Locals == [pc: {"idle", "list", "claim", "send", "record", "finish"},
           read: Nat, todo: SUBSET Messages, at: Messages \cup {None},
           left: SUBSET Destinations, to: Destinations \cup {None}, sent: BOOLEAN,
           latest: Nat, bad: BOOLEAN, failed: BOOLEAN, expired: BOOLEAN]

Idle == [pc |-> "idle", read |-> 0, todo |-> {}, at |-> None, left |-> {}, to |-> None,
         sent |-> FALSE, latest |-> 0, bad |-> FALSE, failed |-> FALSE, expired |-> FALSE]

Fault(f) == f \in Faults /\ faults < MaxFaults /\ faults' = faults + 1

-----------------------------------------------------------------------------
(* The mailbox and the API                                                 *)

\* The provider stamps messages in the order in which they arrive.
Arrive(m) ==
  /\ m \notin mailbox
  /\ \A k \in Messages \ mailbox : Received[k] = 0 \/ Received[k] >= Received[m]
  /\ mailbox' = mailbox \cup {m}
  /\ UNCHANGED <<cursor, delivery, fresh, copies, takeovers, unheard, relied, scan, faults, resets>>

\* reset_forwarding_cursor, to an earlier time or to NULL.
ResetCursor ==
  /\ resets < MaxResets
  /\ resets' = resets + 1
  /\ cursor' \in 0..cursor
  /\ UNCHANGED <<mailbox, delivery, fresh, copies, takeovers, unheard, relied, scan, faults>>

-----------------------------------------------------------------------------
(* A scan                                                                  *)

\* The newest messages of the folder.
Page == {m \in mailbox :
           Cardinality({k \in mailbox : Received[k] > Received[m]}) < PageSize}

\* Mutant: messages at the cursor are listed again.
CandidatesInclusive(c) == {m \in Page : c = 0 \/ Received[m] = 0 \/ Received[m] >= c}

Candidates(c) == {m \in Page : c = 0 \/ Received[m] = 0 \/ Received[m] > c}

\* Candidates are sorted by received_at, those without one first.
Earliest(S) == {m \in S : \A k \in S : Received[m] <= Received[k]}

\* The scan r goes on with any first message of S, or to its end.
Visit(r, S) ==
  IF S = {} THEN {[r EXCEPT !.pc = "finish", !.todo = {}, !.at = None, !.left = {}, !.to = None]}
  ELSE {[r EXCEPT !.pc = "claim", !.todo = S, !.at = m, !.left = Destinations, !.to = None,
                  !.bad = FALSE] : m \in Earliest(S)}

\* It is done with destination d of its message.
Passed(r, d) ==
  IF r.left \ {d} # {} THEN {[r EXCEPT !.pc = "claim", !.left = @ \ {d}, !.to = None]}
  ELSE Visit([r EXCEPT !.latest = IF r.bad \/ Received[r.at] < @ THEN @ ELSE Received[r.at]],
             r.todo \ {r.at})

\* run_forwarding_account reads the configuration and commits, ...
StartScan(s) ==
  /\ scan[s].pc = "idle"
  /\ scan' = [scan EXCEPT ![s] = [Idle EXCEPT !.pc = "list", !.read = cursor, !.latest = cursor]]
  /\ UNCHANGED <<mailbox, cursor, delivery, fresh, copies, takeovers, unheard, relied,
                 faults, resets>>

\* ... then lists the mail.
ListMail(s) ==
  /\ scan[s].pc = "list"
  /\ \E r \in Visit(scan[s], Candidates(scan[s].read)) : scan' = [scan EXCEPT ![s] = r]
  /\ UNCHANGED <<mailbox, cursor, delivery, fresh, copies, takeovers, unheard, relied,
                 faults, resets>>

\* list_mail or get_mail_detail raises: the item is retried or failed.
FetchFails(s) ==
  /\ \/ scan[s].pc = "list"
     \/ scan[s].pc = "claim" /\ scan[s].left = Destinations
  /\ Fault("fetch")
  /\ scan' = [scan EXCEPT ![s] = Idle]
  /\ UNCHANGED <<mailbox, cursor, delivery, fresh, copies, takeovers, unheard, relied, resets>>

\* Mutant: a delivery in progress is claimed like one that has failed.
TakenAnyway(p) == delivery[p] = "success"

\* _claim_delivery leaves what is done or in progress alone.
Taken(p) == delivery[p] = "success" \/ (delivery[p] = "processing" /\ fresh[p])

\* _claim_delivery commits a new or an updated row.
Claim(s) ==
  /\ scan[s].pc = "claim" /\ ~scan[s].expired
  /\ \E d \in scan[s].left :
       LET p == <<scan[s].at, d>> IN
         /\ ~Taken(p)
         /\ takeovers' = [takeovers EXCEPT ![p] = IF delivery[p] = "processing" /\ ~fresh[p]
                                                  THEN @ + 1 ELSE @]
         /\ delivery' = [delivery EXCEPT ![p] = "processing"]
         /\ fresh' = [fresh EXCEPT ![p] = TRUE]
         /\ scan' = [scan EXCEPT ![s].pc = "send", ![s].to = d]
  /\ UNCHANGED <<mailbox, cursor, copies, unheard, relied, faults, resets>>

\* It rolls back to leave a row alone, also when another scan inserted it first.
Skip(s) ==
  /\ scan[s].pc = "claim" /\ ~scan[s].expired
  /\ \E d \in scan[s].left :
       /\ Taken(<<scan[s].at, d>>)
       /\ \E r \in Passed(scan[s], d) :
            scan' = [scan EXCEPT ![s] = [r EXCEPT !.expired = TRUE]]
       /\ relied' = IF delivery[<<scan[s].at, d>>] = "processing"
                    THEN relied \cup {<<scan[s].at, d>>} ELSE relied
  /\ UNCHANGED <<mailbox, cursor, delivery, fresh, copies, takeovers, unheard, faults, resets>>

\* After that destination.id raises, and run_once retries the item.
ScanRaises(s) ==
  /\ scan[s].pc = "claim" /\ scan[s].expired
  /\ scan' = [scan EXCEPT ![s] = Idle]
  /\ UNCHANGED <<mailbox, cursor, delivery, fresh, copies, takeovers, unheard, relied,
                 faults, resets>>

SendSucceeds(s) ==
  /\ scan[s].pc = "send"
  /\ copies' = [copies EXCEPT ![<<scan[s].at, scan[s].to>>] = @ + 1]
  /\ scan' = [scan EXCEPT ![s].pc = "record", ![s].sent = TRUE]
  /\ UNCHANGED <<mailbox, cursor, delivery, fresh, takeovers, unheard, relied, faults, resets>>

\* Any OSError or SMTPException before the server has accepted the message, ...
SendFails(s) ==
  /\ scan[s].pc = "send" /\ Fault("send")
  /\ scan' = [scan EXCEPT ![s].pc = "record", ![s].sent = FALSE]
  /\ UNCHANGED <<mailbox, cursor, delivery, fresh, copies, takeovers, unheard, relied, resets>>

\* ... or after it: the reply times out or is lost, or QUIT goes wrong.
AnswerLost(s) ==
  /\ scan[s].pc = "send" /\ Fault("unheard")
  /\ copies' = [copies EXCEPT ![<<scan[s].at, scan[s].to>>] = @ + 1]
  /\ unheard' = [unheard EXCEPT ![<<scan[s].at, scan[s].to>>] = @ + 1]
  /\ scan' = [scan EXCEPT ![s].pc = "record", ![s].sent = FALSE]
  /\ UNCHANGED <<mailbox, cursor, delivery, fresh, takeovers, relied, resets>>

\* Anything else raises: a secret that cannot be decrypted, a port that is no
\* number, a header that is refused, the database.  The row stays as it is.
DeliveryRaises(s) ==
  /\ scan[s].pc \in {"send", "record"} /\ Fault("raise")
  /\ scan' = [scan EXCEPT ![s] = Idle]
  /\ UNCHANGED <<mailbox, cursor, delivery, fresh, copies, takeovers, unheard, relied, resets>>

\* Mutants: success is recorded whatever the sender answered; "sent" is
\* stored, which is no delivery status.
StatusOptimistic(sent) == "success"
StatusOfAnswer(sent) == IF sent THEN "sent" ELSE "failed"

StatusOf(sent) == IF sent THEN "success" ELSE "failed"

Record(s) ==
  /\ scan[s].pc = "record"
  /\ LET p == <<scan[s].at, scan[s].to>>
         ok == scan[s].sent IN
       /\ delivery' = [delivery EXCEPT ![p] = StatusOf(ok)]
       /\ fresh' = [fresh EXCEPT ![p] = TRUE]
       /\ \E r \in Passed([scan[s] EXCEPT !.bad = @ \/ ~ok, !.failed = @ \/ ~ok], scan[s].to) :
            scan' = [scan EXCEPT ![s] = r]
  /\ UNCHANGED <<mailbox, cursor, copies, takeovers, unheard, relied, faults, resets>>

\* Mutant: the cursor moves although deliveries failed.
FinishAlways(s) ==
  /\ scan[s].pc = "finish"
  /\ cursor' = IF scan[s].latest # scan[s].read THEN scan[s].latest ELSE cursor
  /\ scan' = [scan EXCEPT ![s] = Idle]
  /\ UNCHANGED <<mailbox, delivery, fresh, copies, takeovers, unheard, relied, faults, resets>>

\* The cursor moves if nothing failed, over whatever it is by now.
Finish(s) ==
  /\ scan[s].pc = "finish"
  /\ cursor' = IF ~scan[s].failed /\ scan[s].latest # scan[s].read THEN scan[s].latest ELSE cursor
  /\ scan' = [scan EXCEPT ![s] = Idle]
  /\ UNCHANGED <<mailbox, delivery, fresh, copies, takeovers, unheard, relied, faults, resets>>

\* The worker dies; its item is leased again and starts a new scan.
Crash(s) ==
  /\ scan[s].pc # "idle" /\ Fault("crash")
  /\ scan' = [scan EXCEPT ![s] = Idle]
  /\ UNCHANGED <<mailbox, cursor, delivery, fresh, copies, takeovers, unheard, relied, resets>>

\* Five minutes pass while a delivery is processing.  They always pass after
\* a crash; while a scan is sending they are a fault.
FiveMinutes(p) ==
  /\ delivery[p] = "processing" /\ fresh[p]
  /\ IF \E s \in Scans : scan[s].pc \in {"send", "record"} /\ <<scan[s].at, scan[s].to>> = p
     THEN Fault("slow") ELSE UNCHANGED faults
  /\ fresh' = [fresh EXCEPT ![p] = FALSE]
  /\ UNCHANGED <<mailbox, cursor, delivery, copies, takeovers, unheard, relied, scan, resets>>

-----------------------------------------------------------------------------
Init ==
  /\ mailbox = {} /\ cursor = 0
  /\ delivery = [p \in Pairs |-> "none"]
  /\ fresh = [p \in Pairs |-> TRUE]
  /\ copies = [p \in Pairs |-> 0]
  /\ takeovers = [p \in Pairs |-> 0]
  /\ unheard = [p \in Pairs |-> 0]
  /\ relied = {}
  /\ scan = [s \in Scans |-> Idle]
  /\ faults = 0 /\ resets = 0

ScanStep(s) ==
  \/ StartScan(s) \/ ListMail(s) \/ Claim(s) \/ Skip(s) \/ ScanRaises(s)
  \/ SendSucceeds(s) \/ SendFails(s) \/ AnswerLost(s) \/ Record(s) \/ Finish(s)

Next ==
  \/ \E m \in Messages : Arrive(m)
  \/ ResetCursor
  \/ \E s \in Scans : ScanStep(s) \/ FetchFails(s) \/ DeliveryRaises(s) \/ Crash(s)
  \/ \E p \in Pairs : FiveMinutes(p)

Spec == Init /\ [][Next]_vars

\* Schedules keep starting scans, providers answer or time out, time passes.
FairSpec ==
  /\ Spec
  /\ \A s \in Scans : WF_vars(ScanStep(s))
  /\ \A p \in Pairs : WF_vars(FiveMinutes(p))

-----------------------------------------------------------------------------
(* Properties                                                              *)

TypeOK ==
  /\ mailbox \subseteq Messages
  /\ cursor \in Nat
  /\ delivery \in [Pairs -> {"none", "processing", "success", "failed"}]
  /\ fresh \in [Pairs -> BOOLEAN]
  /\ copies \in [Pairs -> Nat]
  /\ takeovers \in [Pairs -> Nat]
  /\ unheard \in [Pairs -> Nat]
  /\ relied \subseteq Pairs
  /\ scan \in [Scans -> Locals]
  /\ faults \in 0..MaxFaults /\ resets \in 0..MaxResets

\* A delivery recorded as a success has reached its destination.
SuccessWasSent == \A p \in Pairs : delivery[p] = "success" => copies[p] > 0

\* Overlapping scans, retries and resets of the cursor send a message to a
\* destination once, and once more for each time a claim was taken over after
\* five minutes or a failure was reported of a message that had been accepted.
CopiesBounded == \A p \in Pairs : copies[p] <= 1 + takeovers[p] + unheard[p]

\* The cursor passes a message only when every destination has got it.
CursorPassesDelivered ==
  \A m \in mailbox : (Received[m] # 0 /\ Received[m] <= cursor) =>
    \A d \in Destinations : copies[<<m, d>>] > 0

\* The exact limit of what the code promises of it: whatever fails, raises or
\* dies and however scans overlap, a message behind the cursor has reached its
\* destination unless a scan found that delivery in progress and left it.
CursorHonest ==
  \A m \in mailbox : (Received[m] # 0 /\ Received[m] <= cursor) =>
    \A d \in Destinations : copies[<<m, d>>] > 0 \/ <<m, d>> \in relied

\* New mail reaches every destination, as long as all mail has a readable date,
\* nothing has failed and the cursor was not moved back: after that, see
\* FailedIsRetried.
MailIsForwarded ==
  \A p \in Pairs : p[1] \in mailbox ~> (copies[p] > 0 \/ faults > 0 \/ resets > 0)

\* A failed delivery is tried again until it succeeds.
FailedIsRetried == \A p \in Pairs : delivery[p] = "failed" ~> delivery[p] = "success"
=============================================================================
