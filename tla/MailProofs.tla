----------------------------- MODULE MailProofs -----------------------------
(***************************************************************************)
(* Theorems about mail: how often Forwarding may send a message and what   *)
(* its cursor has passed, for any number of messages, destinations and     *)
(* overlapping scans and with any faults; and that the retained copies of  *)
(* MailStore follow the requests and the policy, for any mail and any      *)
(* number of syncs and requests at once.                                   *)
(***************************************************************************)
EXTENDS Forwarding, MailStore, FiniteSetTheorems, TLAPS

-----------------------------------------------------------------------------
(* Types                                                                   *)

\* A scan that claims, sends or records has a message and a destination.
OnMessage ==
  \A s \in Scans :
    /\ scan[s].pc \in {"claim", "send", "record"} => scan[s].at \in Messages
    /\ scan[s].pc \in {"send", "record"} => scan[s].to \in Destinations

TypeInv == TypeOK /\ OnMessage

Ready(q) ==
  /\ q \in Locals
  /\ q.pc \in {"claim", "send", "record"} => q.at \in Messages
  /\ q.pc \in {"send", "record"} => q.to \in Destinations

\* Where a scan goes from a message.
LEMMA VisitType ==
  ASSUME NEW r \in Locals, NEW S \in SUBSET Messages, NEW q \in Visit(r, S)
  PROVE  Ready(q) /\ q.pc \in {"claim", "finish"}
<1>1. CASE S = {}
  <2>1. q = [r EXCEPT !.pc = "finish", !.todo = {}, !.at = None, !.left = {}, !.to = None]
    BY <1>1 DEF Visit
  <2>2. q \in Locals
    BY <2>1 DEF Locals
  <2>3. q.pc = "finish"
    BY <2>1 DEF Locals
  <2> QED BY <2>2, <2>3 DEF Ready
<1>2. CASE S # {}
  <2>1. PICK m \in S :
          q = [r EXCEPT !.pc = "claim", !.todo = S, !.at = m, !.left = Destinations,
                        !.to = None, !.bad = FALSE]
    BY <1>2 DEF Visit, Earliest
  <2>2. q \in Locals
    BY <2>1 DEF Locals
  <2>3. q.pc = "claim" /\ q.at = m
    BY <2>1 DEF Locals
  <2> QED BY <2>2, <2>3 DEF Ready
<1> QED BY <1>1, <1>2

LEMMA PassedType ==
  ASSUME NEW r \in Locals, r.at \in Messages, NEW d, NEW q \in Passed(r, d)
  PROVE  Ready(q) /\ q.pc \in {"claim", "finish"}
<1>1. CASE r.left \ {d} # {}
  <2>1. q = [r EXCEPT !.pc = "claim", !.left = r.left \ {d}, !.to = None]
    BY <1>1 DEF Passed
  <2>2. q \in Locals
    BY <2>1 DEF Locals
  <2>3. q.pc = "claim" /\ q.at = r.at
    BY <2>1 DEF Locals
  <2> QED BY <2>2, <2>3 DEF Ready
<1>2. CASE r.left \ {d} = {}
  <2> DEFINE l == IF r.bad \/ Received[r.at] < r.latest THEN r.latest ELSE Received[r.at]
             n == [r EXCEPT !.latest = l]
  <2>1. l \in Nat
    BY ForwardingAssumption DEF Locals
  <2> HIDE DEF l
  <2>2. n \in Locals
    BY <2>1 DEF Locals
  <2>3. r.todo \ {r.at} \in SUBSET Messages
    BY DEF Locals
  <2>4. q \in Visit(n, r.todo \ {r.at})
    BY <1>2 DEF Passed, l
  <2> HIDE DEF n
  <2> QED BY <2>2, <2>3, <2>4, VisitType
<1> QED BY <1>1, <1>2

LEMMA IdleReady == Ready(Idle)
BY DEF Idle, Ready, Locals

\* A step of one scan to a ready state.
LEMMA ScanReady ==
  ASSUME TypeInv, NEW s \in Scans, NEW q, Ready(q), scan' = [scan EXCEPT ![s] = q]
  PROVE  scan' \in [Scans -> Locals] /\ OnMessage'
BY DEF TypeInv, TypeOK, OnMessage, Ready

\* The steps that leave a scan outside a delivery, and what they make of its
\* local variables.
Leaves(s) ==
  \/ StartScan(s) \/ ListMail(s) \/ Skip(s) \/ ScanRaises(s) \/ Record(s)
  \/ Finish(s) \/ FetchFails(s) \/ DeliveryRaises(s) \/ Crash(s)

\* The sender answers, or seems to.
Sends(s) == SendSucceeds(s) \/ SendFails(s) \/ AnswerLost(s)

LEMMA LeavesStep ==
  ASSUME TypeInv, NEW s \in Scans, Leaves(s)
  PROVE  \E q : /\ Ready(q) /\ q.pc \notin {"send", "record"}
               /\ scan' = [scan EXCEPT ![s] = q]
<1>0. scan[s] \in Locals /\ scan \in [Scans -> Locals]
  BY DEF TypeInv, TypeOK
<1>1. CASE ScanRaises(s) \/ Finish(s) \/ FetchFails(s) \/ DeliveryRaises(s) \/ Crash(s)
  <2>1. scan' = [scan EXCEPT ![s] = Idle]
    BY <1>1 DEF ScanRaises, Finish, FetchFails, DeliveryRaises, Crash
  <2>2. Idle.pc = "idle"
    BY DEF Idle
  <2> QED BY <2>1, <2>2, IdleReady
<1>2. CASE StartScan(s)
  <2> DEFINE q == [Idle EXCEPT !.pc = "list", !.read = cursor, !.latest = cursor]
  <2>1. q \in Locals
    BY DEF TypeInv, TypeOK, Idle, Locals
  <2>2. q.pc = "list"
    BY DEF Idle
  <2>3. scan' = [scan EXCEPT ![s] = q]
    BY <1>2 DEF StartScan
  <2> HIDE DEF q
  <2>4. Ready(q)
    BY <2>1, <2>2 DEF Ready
  <2> QED BY <2>2, <2>3, <2>4
<1>3. CASE ListMail(s)
  <2>1. Candidates(scan[s].read) \in SUBSET Messages
    BY DEF Candidates, Page, TypeInv, TypeOK
  <2>2. PICK r \in Visit(scan[s], Candidates(scan[s].read)) : scan' = [scan EXCEPT ![s] = r]
    BY <1>3 DEF ListMail
  <2>3. Ready(r) /\ r.pc \in {"claim", "finish"}
    BY <1>0, <2>1, VisitType
  <2> QED BY <2>2, <2>3
<1>4. CASE Skip(s)
  <2>0. PICK d \in scan[s].left : \E r \in Passed(scan[s], d) :
          scan' = [scan EXCEPT ![s] = [r EXCEPT !.expired = TRUE]]
    BY <1>4 DEF Skip
  <2>1. PICK r \in Passed(scan[s], d) : scan' = [scan EXCEPT ![s] = [r EXCEPT !.expired = TRUE]]
    BY <2>0
  <2>2. Ready(r) /\ r.pc \in {"claim", "finish"}
    BY <1>0, <1>4, PassedType DEF Skip, TypeInv, OnMessage
  <2> DEFINE q == [r EXCEPT !.expired = TRUE]
  <2>3. Ready(q) /\ q.pc = r.pc
    BY <2>2 DEF Ready, Locals
  <2> HIDE DEF q
  <2>4. scan' = [scan EXCEPT ![s] = q]
    BY <2>1 DEF q
  <2> QED BY <2>2, <2>3, <2>4
<1>5. CASE Record(s)
  <2> DEFINE ok == scan[s].sent
             n  == [scan[s] EXCEPT !.bad = scan[s].bad \/ ~ok, !.failed = scan[s].failed \/ ~ok]
  <2>1. n \in Locals /\ n.at = scan[s].at
    BY <1>0 DEF Locals
  <2>2. PICK r \in Passed(n, scan[s].to) : scan' = [scan EXCEPT ![s] = r]
    BY <1>5 DEF Record
  <2>3. scan[s].at \in Messages
    BY <1>5 DEF Record, TypeInv, OnMessage
  <2> HIDE DEF n
  <2>4. Ready(r) /\ r.pc \in {"claim", "finish"}
    BY <2>1, <2>3, PassedType
  <2> QED BY <2>2, <2>4
<1> QED BY <1>1, <1>2, <1>3, <1>4, <1>5 DEF Leaves

\* What any step of a scan makes of them.
LEMMA LocalStep ==
  ASSUME TypeInv, NEW s \in Scans, Leaves(s) \/ Claim(s) \/ Sends(s)
  PROVE  \E q : Ready(q) /\ scan' = [scan EXCEPT ![s] = q]
<1>0. scan[s] \in Locals /\ scan \in [Scans -> Locals]
  BY DEF TypeInv, TypeOK
<1>1. CASE Leaves(s)
  BY <1>1, LeavesStep
<1>2. CASE Claim(s)
  <2>1. PICK d \in scan[s].left : scan' = [scan EXCEPT ![s].pc = "send", ![s].to = d]
    BY <1>2 DEF Claim
  <2> DEFINE q == [scan[s] EXCEPT !.pc = "send", !.to = d]
  <2>2. scan' = [scan EXCEPT ![s] = q]
    BY <1>0, <2>1 DEF Locals
  <2>3. d \in Destinations /\ scan[s].at \in Messages
    BY <1>0, <1>2 DEF Claim, Locals, TypeInv, OnMessage
  <2>4. Ready(q)
    BY <1>0, <2>3 DEF Ready, Locals
  <2> QED BY <1>2, <2>2, <2>4
<1>3. CASE SendSucceeds(s)
  <2> DEFINE q == [scan[s] EXCEPT !.pc = "record", !.sent = TRUE]
  <2>1. scan' = [scan EXCEPT ![s] = q]
    BY <1>0, <1>3 DEF SendSucceeds, Locals
  <2>2. Ready(q)
    BY <1>0, <1>3 DEF SendSucceeds, Ready, Locals, TypeInv, OnMessage
  <2> QED BY <1>3, <2>1, <2>2
<1>4. CASE SendFails(s) \/ AnswerLost(s)
  <2> DEFINE q == [scan[s] EXCEPT !.pc = "record", !.sent = FALSE]
  <2>1. scan' = [scan EXCEPT ![s] = q]
    BY <1>0, <1>4 DEF SendFails, AnswerLost, Locals
  <2>2. Ready(q)
    BY <1>0, <1>4 DEF SendFails, AnswerLost, Ready, Locals, TypeInv, OnMessage
  <2> QED BY <1>4, <2>1, <2>2
<1> QED BY <1>1, <1>2, <1>3, <1>4 DEF Sends

\* What Claim does to the row it takes.
Claims(s, p) ==
  /\ p = <<scan[s].at, scan'[s].to>> /\ scan'[s].at = scan[s].at /\ scan'[s].pc = "send"
  /\ ~Taken(p)
  /\ delivery' = [delivery EXCEPT ![p] = "processing"]
  /\ fresh' = [fresh EXCEPT ![p] = TRUE]
  /\ \/ delivery[p] # "processing" /\ takeovers' = takeovers
     \/ delivery[p] = "processing" /\ takeovers' = [takeovers EXCEPT ![p] = @ + 1]
  /\ UNCHANGED <<mailbox, cursor, copies, unheard, relied, faults, resets>>

LEMMA ClaimsPair ==
  ASSUME TypeInv, NEW s \in Scans, Claim(s)
  PROVE  \E p \in Pairs : Claims(s, p)
<1>1. PICK d \in scan[s].left :
        /\ ~Taken(<<scan[s].at, d>>)
        /\ takeovers' = [takeovers EXCEPT ![<<scan[s].at, d>>] =
                           IF delivery[<<scan[s].at, d>>] = "processing"
                              /\ ~fresh[<<scan[s].at, d>>]
                           THEN takeovers[<<scan[s].at, d>>] + 1 ELSE takeovers[<<scan[s].at, d>>]]
        /\ delivery' = [delivery EXCEPT ![<<scan[s].at, d>>] = "processing"]
        /\ fresh' = [fresh EXCEPT ![<<scan[s].at, d>>] = TRUE]
        /\ scan' = [scan EXCEPT ![s].pc = "send", ![s].to = d]
  BY DEF Claim
<1> DEFINE p == <<scan[s].at, d>>
<1>2. p \in Pairs
  BY DEF Claim, TypeInv, TypeOK, OnMessage, Locals, Pairs
<1>3. scan'[s].to = d /\ scan'[s].at = scan[s].at /\ scan'[s].pc = "send"
  BY <1>1 DEF TypeInv, TypeOK, Locals
<1>4. p = <<scan[s].at, scan'[s].to>>
  BY <1>3
<1>5. UNCHANGED <<mailbox, cursor, copies, unheard, relied, faults, resets>>
  BY DEF Claim
<1>6. /\ ~Taken(p)
      /\ takeovers' = [takeovers EXCEPT ![p] = IF delivery[p] = "processing" /\ ~fresh[p]
                                               THEN takeovers[p] + 1 ELSE takeovers[p]]
      /\ delivery' = [delivery EXCEPT ![p] = "processing"]
      /\ fresh' = [fresh EXCEPT ![p] = TRUE]
  BY <1>1
<1> HIDE DEF p
<1>7. takeovers \in [Pairs -> Nat]
  BY DEF TypeInv, TypeOK
<1>8. \/ delivery[p] # "processing" /\ takeovers' = takeovers
      \/ delivery[p] = "processing" /\ takeovers' = [takeovers EXCEPT ![p] = takeovers[p] + 1]
  BY <1>2, <1>6, <1>7 DEF Taken
<1> QED BY <1>2, <1>3, <1>4, <1>5, <1>6, <1>8 DEF Claims

LEMMA FaultType == ASSUME TypeOK, NEW f, Fault(f) PROVE faults' \in 0..MaxFaults
BY ForwardingAssumption DEF TypeOK, Fault

LEMMA TypeInit == Init => TypeInv
<1> SUFFICES ASSUME Init PROVE TypeInv
  OBVIOUS
<1>1. \A s \in Scans : Ready(scan[s]) /\ scan[s] = Idle
  BY IdleReady DEF Init
<1>2. OnMessage
  BY <1>1 DEF OnMessage, Ready
<1>3. scan \in [Scans -> Locals]
  BY <1>1 DEF Ready, Init
<1>4. TypeOK
  BY <1>3, ForwardingAssumption DEF Init, TypeOK
<1> QED BY <1>2, <1>4 DEF TypeInv

LEMMA TypeStep == TypeInv /\ [Next]_vars => TypeInv'
<1> SUFFICES ASSUME TypeInv, [Next]_vars PROVE TypeInv'
  OBVIOUS
<1> USE DEF Pairs
<1>1. CASE UNCHANGED vars
  BY <1>1 DEF vars, TypeInv, TypeOK, OnMessage
<1>2. ASSUME NEW m \in Messages, Arrive(m) PROVE TypeInv'
  BY <1>2 DEF Arrive, TypeInv, TypeOK, OnMessage
<1>3. CASE ResetCursor
  BY <1>3, ForwardingAssumption DEF ResetCursor, TypeInv, TypeOK, OnMessage
<1>4. ASSUME NEW p \in Pairs, FiveMinutes(p) PROVE TypeInv'
  <2>1. faults' \in 0..MaxFaults
    BY <1>4, FaultType DEF FiveMinutes, TypeInv, TypeOK
  <2> QED BY <1>4, <2>1 DEF FiveMinutes, TypeInv, TypeOK, OnMessage
<1>5. ASSUME NEW s \in Scans, ScanStep(s) \/ FetchFails(s) \/ DeliveryRaises(s) \/ Crash(s)
      PROVE  TypeInv'
  <2>1. scan' \in [Scans -> Locals] /\ OnMessage'
    <3>1. Leaves(s) \/ Claim(s) \/ Sends(s)
      BY <1>5 DEF ScanStep, Leaves, Sends
    <3>2. PICK q : Ready(q) /\ scan' = [scan EXCEPT ![s] = q]
      BY <3>1, LocalStep
    <3> QED BY <3>2, ScanReady
  <2>2. /\ scan[s] \in Locals
        /\ scan[s].pc \in {"claim", "send", "record"} => scan[s].at \in Messages
    BY DEF TypeInv, TypeOK, OnMessage
  <2>3. scan[s].pc \in {"send", "record"} => scan[s].to \in Destinations
    BY DEF TypeInv, OnMessage
  <2>4. scan[s].left \subseteq Destinations /\ scan[s].latest \in Nat
    BY <2>2 DEF Locals
  <2>5. CASE StartScan(s) \/ ListMail(s) \/ ScanRaises(s)
    BY <2>1, <2>5 DEF StartScan, ListMail, ScanRaises, TypeInv, TypeOK
  <2>6. CASE FetchFails(s) \/ DeliveryRaises(s) \/ Crash(s) \/ SendFails(s)
    <3>1. faults' \in 0..MaxFaults
      BY <2>6, FaultType DEF FetchFails, DeliveryRaises, Crash, SendFails, TypeInv
    <3> QED BY <2>1, <2>6, <3>1
        DEF FetchFails, DeliveryRaises, Crash, SendFails, TypeInv, TypeOK
  <2>7. CASE Claim(s)
    <3>1. PICK p \in Pairs : Claims(s, p)
      BY <2>7, ClaimsPair
    <3> QED BY <2>1, <3>1 DEF Claims, TypeInv, TypeOK
  <2>8. CASE SendSucceeds(s)
    <3> DEFINE p == <<scan[s].at, scan[s].to>>
    <3>1. /\ copies' = [copies EXCEPT ![p] = copies[p] + 1]
          /\ UNCHANGED <<mailbox, cursor, delivery, fresh, takeovers, unheard, relied, faults,
                         resets>>
      BY <2>8 DEF SendSucceeds
    <3>2. p \in Pairs
      BY <2>2, <2>3, <2>8 DEF SendSucceeds
    <3> HIDE DEF p
    <3>3. copies' \in [Pairs -> Nat]
      BY <3>1, <3>2 DEF TypeInv, TypeOK
    <3> QED BY <2>1, <3>1, <3>3 DEF TypeInv, TypeOK
  <2>9. CASE Record(s)
    <3>1. /\ delivery' = [delivery EXCEPT ![<<scan[s].at, scan[s].to>>] = StatusOf(scan[s].sent)]
          /\ fresh' = [fresh EXCEPT ![<<scan[s].at, scan[s].to>>] = TRUE]
          /\ UNCHANGED <<mailbox, cursor, copies, takeovers, unheard, relied, faults, resets>>
      BY <2>9 DEF Record
    <3>2. StatusOf(scan[s].sent) \in {"success", "failed"}
      BY DEF StatusOf
    <3> QED BY <2>1, <3>1, <3>2 DEF TypeInv, TypeOK
  <2>10. CASE Finish(s)
    BY <2>1, <2>4, <2>10 DEF Finish, TypeInv, TypeOK
  <2>11. CASE Skip(s)
    <3>1. PICK d \in scan[s].left : relied' = relied \/ relied' = relied \cup {<<scan[s].at, d>>}
      BY <2>11 DEF Skip
    <3>2. <<scan[s].at, d>> \in Pairs
      BY <2>2, <2>4, <2>11 DEF Skip
    <3>3. relied' \subseteq Pairs
      BY <3>1, <3>2 DEF TypeInv, TypeOK
    <3> QED BY <2>1, <2>11, <3>3 DEF Skip, TypeInv, TypeOK
  <2>12. CASE AnswerLost(s)
    <3> DEFINE p == <<scan[s].at, scan[s].to>>
    <3>1. /\ copies' = [copies EXCEPT ![p] = copies[p] + 1]
          /\ unheard' = [unheard EXCEPT ![p] = unheard[p] + 1]
          /\ UNCHANGED <<mailbox, cursor, delivery, fresh, takeovers, relied, resets>>
      BY <2>12 DEF AnswerLost
    <3>2. p \in Pairs
      BY <2>2, <2>3, <2>12 DEF AnswerLost
    <3> HIDE DEF p
    <3>3. copies' \in [Pairs -> Nat] /\ unheard' \in [Pairs -> Nat]
      BY <3>1, <3>2 DEF TypeInv, TypeOK
    <3>4. faults' \in 0..MaxFaults
      BY <2>12, FaultType DEF AnswerLost, TypeInv
    <3> QED BY <2>1, <3>1, <3>3, <3>4 DEF TypeInv, TypeOK
  <2> QED BY <1>5, <2>5, <2>6, <2>7, <2>8, <2>9, <2>10, <2>11, <2>12 DEF ScanStep
<1> QED BY <1>1, <1>2, <1>3, <1>4, <1>5 DEF Next

-----------------------------------------------------------------------------
(* Deliveries in flight                                                    *)

\* The scan r may still send p, or has to record that it could not.
Flies(r, p) == <<r.at, r.to>> = p /\ (r.pc = "send" \/ (r.pc = "record" /\ ~r.sent))

Flying(p) == {s \in Scans : Flies(scan[s], p)}

Open(p) == IF delivery[p] \in {"none", "failed"} THEN 1 ELSE 0

\* CopiesBounded says nothing of the sends that are still to come: each claim
\* is one copy, one delivery in flight, or gives the row back, and a failure
\* reported of mail that was accepted gives it back although there is a copy.
FlightInv ==
  \A p \in Pairs : copies[p] + Cardinality(Flying(p)) + Open(p) <= 1 + takeovers[p] + unheard[p]

\* What a scan is about to record as a success has been sent.
SentInv ==
  /\ SuccessWasSent
  /\ \A s \in Scans : scan[s].pc = "record" /\ scan[s].sent
                        => copies[<<scan[s].at, scan[s].to>>] > 0

LEMMA FlyingFinite ==
  ASSUME NEW p PROVE IsFiniteSet(Flying(p)) /\ Cardinality(Flying(p)) \in Nat
BY ForwardingAssumption, FS_Subset, FS_CardinalityType DEF Flying

\* The deliveries in flight after a step of one scan.
LEMMA FlyingStep ==
  ASSUME TypeInv, NEW s \in Scans, NEW q, scan' = [scan EXCEPT ![s] = q], NEW p
  PROVE  /\ Flies(scan[s], p) /\ Flies(q, p) => Flying(p)' = Flying(p)
         /\ ~Flies(scan[s], p) /\ Flies(q, p) =>
              Cardinality(Flying(p)') = Cardinality(Flying(p)) + 1
         /\ ~Flies(scan[s], p) /\ ~Flies(q, p) => Flying(p)' = Flying(p)
         /\ Flies(scan[s], p) /\ ~Flies(q, p) =>
              Cardinality(Flying(p)') = Cardinality(Flying(p)) - 1
<1>1. \A t \in Scans : scan'[t] = IF t = s THEN q ELSE scan[t]
  BY DEF TypeInv, TypeOK
<1>2. Flying(p)' = IF Flies(q, p) THEN Flying(p) \cup {s} ELSE Flying(p) \ {s}
  BY <1>1 DEF Flying, Flies
<1>3. s \in Flying(p) <=> Flies(scan[s], p)
  BY DEF Flying
<1>4. IsFiniteSet(Flying(p)) /\ Cardinality(Flying(p)) \in Nat
  BY FlyingFinite
<1>5. Cardinality(Flying(p) \cup {s})
        = IF s \in Flying(p) THEN Cardinality(Flying(p)) ELSE Cardinality(Flying(p)) + 1
  BY <1>4, FS_AddElement
<1>6. Cardinality(Flying(p) \ {s})
        = IF s \in Flying(p) THEN Cardinality(Flying(p)) - 1 ELSE Cardinality(Flying(p))
  BY <1>4, FS_RemoveElement
<1>7. CASE Flies(q, p)
  BY <1>2, <1>3, <1>5, <1>7
<1>8. CASE ~Flies(q, p)
  BY <1>2, <1>3, <1>6, <1>8
<1> QED BY <1>7, <1>8

LEMMA FlightInit == Init => FlightInv /\ SentInv
<1> SUFFICES ASSUME Init PROVE FlightInv /\ SentInv
  OBVIOUS
<1>1. \A s \in Scans : scan[s].pc = "idle"
  BY DEF Init, Idle
<1>2. \A p \in Pairs : copies[p] = 0 /\ takeovers[p] = 0 /\ unheard[p] = 0 /\ delivery[p] = "none"
  BY DEF Init
<1>3. \A p \in Pairs : Flying(p) = {}
  BY <1>1 DEF Flying, Flies
<1>4. Cardinality({}) = 0
  BY FS_EmptySet
<1>5. FlightInv
  BY <1>2, <1>3, <1>4 DEF FlightInv, Open
<1>6. SentInv
  BY <1>1, <1>2 DEF SentInv, SuccessWasSent
<1> QED BY <1>5, <1>6

LEMMA FlightStep == TypeInv /\ FlightInv /\ [Next]_vars => FlightInv'
<1> SUFFICES ASSUME TypeInv, FlightInv, [Next]_vars, NEW p \in Pairs
             PROVE  copies'[p] + Cardinality(Flying(p)') + Open(p)'
                      <= 1 + takeovers'[p] + unheard'[p]
  BY DEF FlightInv
<1>0. /\ copies[p] + Cardinality(Flying(p)) + Open(p) <= 1 + takeovers[p] + unheard[p]
      /\ copies \in [Pairs -> Nat] /\ takeovers \in [Pairs -> Nat] /\ unheard \in [Pairs -> Nat]
      /\ copies[p] \in Nat /\ takeovers[p] \in Nat /\ unheard[p] \in Nat
      /\ Cardinality(Flying(p)) \in Nat /\ Open(p) \in 0..1
  BY FlyingFinite DEF FlightInv, TypeInv, TypeOK, Open
<1> DEFINE Same == /\ UNCHANGED <<delivery, copies, takeovers, unheard>>
                   /\ Cardinality(Flying(p)') <= Cardinality(Flying(p))
                   /\ Cardinality(Flying(p)') \in Nat
<1>1. ASSUME Same
      PROVE  copies'[p] + Cardinality(Flying(p)') + Open(p)' <= 1 + takeovers'[p] + unheard'[p]
  <2>1. Open(p)' = Open(p)
    BY <1>1 DEF Open
  <2> QED BY <1>0, <1>1, <2>1
<1>2. ASSUME UNCHANGED <<delivery, copies, takeovers, unheard, scan>> PROVE Same
  <2>1. Flying(p)' = Flying(p)
    BY <1>2 DEF Flying
  <2> QED BY <1>0, <1>2, <2>1
<1>3. CASE UNCHANGED vars \/ (\E m \in Messages : Arrive(m)) \/ ResetCursor
             \/ (\E x \in Pairs : FiveMinutes(x))
  BY <1>1, <1>2, <1>3 DEF vars, Arrive, ResetCursor, FiveMinutes
<1>4. ASSUME NEW s \in Scans, Leaves(s)
      PROVE  copies'[p] + Cardinality(Flying(p)') + Open(p)' <= 1 + takeovers'[p] + unheard'[p]
  <2>1. PICK q : /\ Ready(q) /\ q.pc \notin {"send", "record"}
                 /\ scan' = [scan EXCEPT ![s] = q]
    BY <1>4, LeavesStep
  <2>2. ~Flies(q, p)
    BY <2>1 DEF Flies
  <2>3. /\ Flies(scan[s], p) => Cardinality(Flying(p)') = Cardinality(Flying(p)) - 1
        /\ ~Flies(scan[s], p) => Flying(p)' = Flying(p)
    BY <2>1, <2>2, FlyingStep
  <2>4. Cardinality(Flying(p)') \in Nat
    BY ForwardingAssumption, FS_Subset, FS_CardinalityType DEF Flying
  <2>5. CASE ~Record(s)
    <3>1. UNCHANGED <<delivery, copies, takeovers, unheard>>
      BY <1>4, <2>5
        DEF Leaves, StartScan, ListMail, Skip, ScanRaises, Finish, FetchFails, DeliveryRaises, Crash
    <3>2. Cardinality(Flying(p)') <= Cardinality(Flying(p))
      BY <1>0, <2>3
    <3> QED BY <1>1, <2>4, <3>1, <3>2
  <2>6. CASE Record(s)
    <3> DEFINE x == <<scan[s].at, scan[s].to>>
    <3>1. /\ delivery' = [delivery EXCEPT ![x] = StatusOf(scan[s].sent)]
          /\ UNCHANGED <<copies, takeovers, unheard>>
      BY <2>6 DEF Record
    <3>2. delivery \in [Pairs -> {"none", "processing", "success", "failed"}]
      BY DEF TypeInv, TypeOK
    <3>3. CASE x # p
      <4>1. delivery'[p] = delivery[p]
        BY <3>1, <3>2, <3>3
      <4>2. Open(p)' = Open(p)
        BY <4>1 DEF Open
      <4>3. Cardinality(Flying(p)') <= Cardinality(Flying(p))
        BY <1>0, <2>3
      <4> QED BY <1>0, <2>4, <3>1, <4>2, <4>3
    <3>4. CASE x = p /\ scan[s].sent
      <4>1. delivery'[p] = "success"
        BY <3>1, <3>2, <3>4 DEF StatusOf
      <4>2. Open(p)' = 0
        BY <4>1 DEF Open
      <4>3. Cardinality(Flying(p)') <= Cardinality(Flying(p))
        BY <1>0, <2>3
      <4> QED BY <1>0, <2>4, <3>1, <4>2, <4>3
    <3>5. CASE x = p /\ ~scan[s].sent
      <4>1. Flies(scan[s], p)
        BY <2>6, <3>5 DEF Record, Flies
      <4>2. Cardinality(Flying(p)') = Cardinality(Flying(p)) - 1
        BY <2>3, <4>1
      <4>3. Open(p)' \in 0..1
        BY DEF Open
      <4> QED BY <1>0, <2>4, <3>1, <4>2, <4>3
    <3> QED BY <3>3, <3>4, <3>5
  <2> QED BY <2>5, <2>6
<1>5. ASSUME NEW s \in Scans, Claim(s)
      PROVE  copies'[p] + Cardinality(Flying(p)') + Open(p)' <= 1 + takeovers'[p] + unheard'[p]
  <2>1. PICK x \in Pairs : Claims(s, x)
    BY <1>5, ClaimsPair
  <2>2. PICK q : Ready(q) /\ scan' = [scan EXCEPT ![s] = q]
    BY <1>5, LocalStep
  <2>3. scan'[s] = q
    BY <2>2 DEF TypeInv, TypeOK
  <2>4. Flies(q, p) <=> x = p
    BY <2>1, <2>3 DEF Claims, Flies
  <2>5. ~Flies(scan[s], p)
    BY <1>5 DEF Claim, Flies
  <2>6. delivery \in [Pairs -> {"none", "processing", "success", "failed"}]
    BY DEF TypeInv, TypeOK
  <2>7. CASE x # p
    <3>1. Flying(p)' = Flying(p)
      BY <2>2, <2>4, <2>5, <2>7, FlyingStep
    <3>2. /\ delivery'[p] = delivery[p] /\ takeovers'[p] = takeovers[p]
          /\ copies' = copies /\ unheard' = unheard
      BY <1>0, <2>1, <2>6, <2>7 DEF Claims
    <3>3. Open(p)' = Open(p)
      BY <3>2 DEF Open
    <3> QED BY <1>0, <3>1, <3>2, <3>3
  <2>8. CASE x = p
    <3>1. Cardinality(Flying(p)') = Cardinality(Flying(p)) + 1
      BY <2>2, <2>4, <2>5, <2>8, FlyingStep
    <3>2. delivery'[p] = "processing" /\ copies' = copies /\ unheard' = unheard
      BY <2>1, <2>6, <2>8 DEF Claims
    <3>3. Open(p)' = 0
      BY <3>2 DEF Open
    <3>4. CASE delivery[p] = "processing"
      <4>1. takeovers'[p] = takeovers[p] + 1
        BY <1>0, <2>1, <2>8, <3>4 DEF Claims
      <4> QED BY <1>0, <3>1, <3>2, <3>3, <4>1
    <3>5. CASE delivery[p] # "processing"
      <4>1. takeovers'[p] = takeovers[p]
        BY <1>0, <2>1, <2>8, <3>5 DEF Claims
      <4>2. delivery[p] \in {"none", "failed"}
        BY <2>1, <2>6, <2>8, <3>5 DEF Claims, Taken
      <4>3. Open(p) = 1
        BY <4>2 DEF Open
      <4> QED BY <1>0, <3>1, <3>2, <3>3, <4>1, <4>3
    <3> QED BY <3>4, <3>5
  <2> QED BY <2>7, <2>8
<1>6. ASSUME NEW s \in Scans, Sends(s)
      PROVE  copies'[p] + Cardinality(Flying(p)') + Open(p)' <= 1 + takeovers'[p] + unheard'[p]
  <2> DEFINE x == <<scan[s].at, scan[s].to>>
  <2>0. scan \in [Scans -> Locals] /\ scan[s] \in Locals /\ scan[s].pc = "send"
    BY <1>6 DEF TypeInv, TypeOK, Sends, SendSucceeds, SendFails, AnswerLost
  <2>1. UNCHANGED <<delivery, takeovers>>
    BY <1>6 DEF Sends, SendSucceeds, SendFails, AnswerLost
  <2>2. Open(p)' = Open(p)
    BY <2>1 DEF Open
  <2>3. Flies(scan[s], p) <=> x = p
    BY <2>0 DEF Flies
  <2>4. CASE SendSucceeds(s)
    <3> DEFINE q == [scan[s] EXCEPT !.pc = "record", !.sent = TRUE]
    <3>1. scan' = [scan EXCEPT ![s] = q]
      BY <2>0, <2>4 DEF SendSucceeds, Locals
    <3>2. ~Flies(q, p)
      BY <2>0 DEF Flies, Locals
    <3>3. copies' = [copies EXCEPT ![x] = copies[x] + 1] /\ unheard' = unheard
      BY <2>4 DEF SendSucceeds
    <3> HIDE DEF q
    <3>4. CASE x = p
      <4>1. Cardinality(Flying(p)') = Cardinality(Flying(p)) - 1
        BY <2>3, <3>1, <3>2, <3>4, FlyingStep
      <4>2. copies'[p] = copies[p] + 1
        BY <1>0, <3>3, <3>4
      <4> QED BY <1>0, <2>1, <2>2, <3>3, <4>1, <4>2
    <3>5. CASE x # p
      <4>1. Flying(p)' = Flying(p)
        BY <2>3, <3>1, <3>2, <3>5, FlyingStep
      <4>2. copies'[p] = copies[p]
        BY <1>0, <3>3, <3>5
      <4> QED BY <1>0, <2>1, <2>2, <3>3, <4>1, <4>2
    <3> QED BY <3>4, <3>5
  <2>5. CASE SendFails(s)
    <3> DEFINE q == [scan[s] EXCEPT !.pc = "record", !.sent = FALSE]
    <3>1. scan' = [scan EXCEPT ![s] = q]
      BY <2>0, <2>5 DEF SendFails, Locals
    <3>2. Flies(q, p) <=> x = p
      BY <2>0 DEF Flies, Locals
    <3>3. copies' = copies /\ unheard' = unheard
      BY <2>5 DEF SendFails
    <3> HIDE DEF q
    <3>4. Flying(p)' = Flying(p)
      BY <2>3, <3>1, <3>2, FlyingStep
    <3> QED BY <1>0, <2>1, <2>2, <3>3, <3>4
  <2>6. CASE AnswerLost(s)
    <3> DEFINE q == [scan[s] EXCEPT !.pc = "record", !.sent = FALSE]
    <3>1. scan' = [scan EXCEPT ![s] = q]
      BY <2>0, <2>6 DEF AnswerLost, Locals
    <3>2. Flies(q, p) <=> x = p
      BY <2>0 DEF Flies, Locals
    <3>3. /\ copies' = [copies EXCEPT ![x] = copies[x] + 1]
          /\ unheard' = [unheard EXCEPT ![x] = unheard[x] + 1]
      BY <2>6 DEF AnswerLost
    <3> HIDE DEF q
    <3>4. Flying(p)' = Flying(p)
      BY <2>3, <3>1, <3>2, FlyingStep
    <3>5. \/ copies'[p] = copies[p] /\ unheard'[p] = unheard[p]
          \/ copies'[p] = copies[p] + 1 /\ unheard'[p] = unheard[p] + 1
      BY <1>0, <3>3
    <3> QED BY <1>0, <2>1, <2>2, <3>4, <3>5
  <2> QED BY <1>6, <2>4, <2>5, <2>6 DEF Sends
<1>7. ASSUME NEW s \in Scans, ScanStep(s) \/ FetchFails(s) \/ DeliveryRaises(s) \/ Crash(s)
      PROVE  Leaves(s) \/ Claim(s) \/ Sends(s)
  BY <1>7 DEF ScanStep, Leaves, Sends
<1> QED BY <1>3, <1>4, <1>5, <1>6, <1>7 DEF Next

LEMMA SentStep == TypeInv /\ SentInv /\ [Next]_vars => SentInv'
<1> SUFFICES ASSUME TypeInv, SentInv, [Next]_vars PROVE SentInv'
  OBVIOUS
<1> DEFINE At(r) == <<r.at, r.to>>
           Sent(r) == r.pc = "record" /\ r.sent => copies[At(r)] > 0
<1>0. /\ delivery \in [Pairs -> {"none", "processing", "success", "failed"}]
      /\ copies \in [Pairs -> Nat] /\ scan \in [Scans -> Locals]
      /\ \A p \in Pairs : delivery[p] = "success" => copies[p] > 0
      /\ \A s \in Scans : Sent(scan[s])
  BY DEF TypeInv, TypeOK, SentInv, SuccessWasSent
<1>1. CASE UNCHANGED <<delivery, copies, scan>>
  BY <1>1 DEF SentInv, SuccessWasSent
<1>2. ASSUME UNCHANGED vars \/ (\E m \in Messages : Arrive(m)) \/ ResetCursor
               \/ (\E x \in Pairs : FiveMinutes(x))
      PROVE  UNCHANGED <<delivery, copies, scan>>
  BY <1>2 DEF vars, Arrive, ResetCursor, FiveMinutes
<1>3. ASSUME NEW s \in Scans, Leaves(s) PROVE SentInv'
  <2>1. PICK q : /\ Ready(q) /\ q.pc \notin {"send", "record"}
                 /\ scan' = [scan EXCEPT ![s] = q]
    BY <1>3, LeavesStep
  <2>2. copies' = copies
    BY <1>3
      DEF Leaves, StartScan, ListMail, Skip, ScanRaises, Record, Finish, FetchFails,
          DeliveryRaises, Crash
  <2>3. \A t \in Scans : scan'[t].pc = "record" => scan'[t] = scan[t]
    BY <1>0, <2>1
  <2>4. \A p \in Pairs : delivery'[p] = "success" => copies[p] > 0
    <3>1. CASE Record(s)
      <4> DEFINE x == At(scan[s])
      <4>1. delivery' = [delivery EXCEPT ![x] = StatusOf(scan[s].sent)]
        BY <3>1 DEF Record
      <4>2. scan[s].sent => copies[x] > 0
        BY <1>0, <3>1 DEF Record
      <4>3. ~scan[s].sent => StatusOf(scan[s].sent) = "failed"
        BY DEF StatusOf
      <4> HIDE DEF x
      <4> QED BY <1>0, <4>1, <4>2, <4>3
    <3>2. CASE ~Record(s)
      <4>1. delivery' = delivery
        BY <1>3, <3>2
          DEF Leaves, StartScan, ListMail, Skip, ScanRaises, Finish, FetchFails, DeliveryRaises,
              Crash
      <4> QED BY <1>0, <4>1
    <3> QED BY <3>1, <3>2
  <2> QED BY <1>0, <2>2, <2>3, <2>4 DEF SentInv, SuccessWasSent
<1>4. ASSUME NEW s \in Scans, Claim(s) PROVE SentInv'
  <2>1. PICK x \in Pairs : Claims(s, x)
    BY <1>4, ClaimsPair
  <2>2. PICK q : scan' = [scan EXCEPT ![s] = q]
    BY <1>4, LocalStep
  <2>3. /\ scan'[s].pc = "send"
        /\ copies' = copies /\ delivery' = [delivery EXCEPT ![x] = "processing"]
    BY <2>1 DEF Claims
  <2>4. \A t \in Scans : scan'[t].pc = "record" => scan'[t] = scan[t]
    BY <1>0, <2>2, <2>3
  <2>5. \A p \in Pairs : delivery'[p] = "success" => copies[p] > 0
    BY <1>0, <2>3
  <2> QED BY <1>0, <2>3, <2>4, <2>5 DEF SentInv, SuccessWasSent
<1>5. ASSUME NEW s \in Scans, SendSucceeds(s) PROVE SentInv'
  <2> DEFINE x == At(scan[s])
             q == [scan[s] EXCEPT !.pc = "record", !.sent = TRUE]
  <2>1. copies' = [copies EXCEPT ![x] = copies[x] + 1] /\ delivery' = delivery
    BY <1>5 DEF SendSucceeds
  <2>2. scan' = [scan EXCEPT ![s] = q]
    BY <1>0, <1>5 DEF SendSucceeds, Locals
  <2>3. x \in Pairs
    BY <1>0, <1>5 DEF SendSucceeds, Pairs, TypeInv, OnMessage
  <2>4. At(q) = x
    BY <1>0 DEF Locals
  <2> HIDE DEF x, q
  <2>5. copies'[x] > 0 /\ \A p \in Pairs : copies'[p] \in Nat /\ copies'[p] >= copies[p]
    BY <1>0, <2>1, <2>3
  <2>6. \A p \in Pairs : delivery'[p] = "success" => copies'[p] > 0
    BY <1>0, <2>1, <2>5
  <2>7. ASSUME NEW t \in Scans, scan'[t].pc = "record", scan'[t].sent
        PROVE  copies'[At(scan'[t])] > 0
    <3>1. CASE t = s
      <4>1. scan'[t] = q
        BY <1>0, <2>2, <3>1
      <4> QED BY <2>4, <2>5, <2>3, <4>1
    <3>2. CASE t # s
      <4>1. scan'[t] = scan[t]
        BY <1>0, <2>2, <3>2
      <4>2. At(scan[t]) \in Pairs
        BY <2>7, <4>1 DEF Pairs, TypeInv, OnMessage
      <4>3. copies[At(scan[t])] > 0
        BY <1>0, <2>7, <4>1
      <4> DEFINE y == At(scan[t])
      <4>4. y \in Pairs /\ copies[y] > 0 /\ At(scan'[t]) = y
        BY <4>1, <4>2, <4>3
      <4> HIDE DEF y
      <4>5. copies[y] \in Nat /\ copies'[y] \in Nat /\ copies'[y] >= copies[y]
        BY <1>0, <2>5, <4>4
      <4>6. copies'[y] > 0
        BY <4>4, <4>5
      <4> QED BY <4>4, <4>6
    <3> QED BY <3>1, <3>2
  <2> QED BY <2>6, <2>7 DEF SentInv, SuccessWasSent
<1>6. ASSUME NEW s \in Scans, SendFails(s) \/ AnswerLost(s) PROVE SentInv'
  <2> DEFINE x == At(scan[s])
             q == [scan[s] EXCEPT !.pc = "record", !.sent = FALSE]
  <2>1. /\ copies' = copies \/ copies' = [copies EXCEPT ![x] = copies[x] + 1]
        /\ delivery' = delivery
    BY <1>6 DEF SendFails, AnswerLost
  <2>2. scan' = [scan EXCEPT ![s] = q]
    BY <1>0, <1>6 DEF SendFails, AnswerLost, Locals
  <2>3. ~q.sent
    BY <1>0 DEF Locals
  <2> HIDE DEF q, x
  <2>4. \A t \in Scans : scan'[t].sent => scan'[t] = scan[t]
    BY <1>0, <2>2, <2>3
  <2>5. \A p \in Pairs : copies[p] > 0 => copies'[p] > 0
    BY <1>0, <2>1
  <2>6. \A p \in Pairs : delivery'[p] = "success" => copies'[p] > 0
    BY <1>0, <2>1, <2>5
  <2>7. ASSUME NEW t \in Scans, scan'[t].pc = "record", scan'[t].sent
        PROVE  copies'[<<scan'[t].at, scan'[t].to>>] > 0
    <3>1. scan'[t] = scan[t]
      BY <2>4, <2>7
    <3>2. <<scan[t].at, scan[t].to>> \in Pairs
      BY <2>7, <3>1 DEF Pairs, TypeInv, OnMessage
    <3>3. copies[<<scan[t].at, scan[t].to>>] > 0
      BY <2>7, <3>1 DEF SentInv
    <3> QED BY <2>5, <3>1, <3>2, <3>3
  <2> QED BY <2>6, <2>7 DEF SentInv, SuccessWasSent
<1>7. ASSUME NEW s \in Scans, ScanStep(s) \/ FetchFails(s) \/ DeliveryRaises(s) \/ Crash(s)
      PROVE  Leaves(s) \/ Claim(s) \/ Sends(s)
  BY <1>7 DEF ScanStep, Leaves, Sends
<1> QED BY <1>1, <1>2, <1>3, <1>4, <1>5, <1>6, <1>7 DEF Next, Sends

LEMMA Inductive == Spec => [](TypeInv /\ FlightInv /\ SentInv)
<1>1. Init => TypeInv /\ FlightInv /\ SentInv
  BY TypeInit, FlightInit
<1>2. (TypeInv /\ FlightInv /\ SentInv) /\ [Next]_vars => (TypeInv /\ FlightInv /\ SentInv)'
  BY TypeStep, FlightStep, SentStep
<1> QED BY <1>1, <1>2, PTL DEF Spec

-----------------------------------------------------------------------------
(* Theorems                                                                *)

\* The rows, the cursor and the scans keep their types.
THEOREM ForwardingTypes == Spec => []TypeOK
<1>1. TypeInv => TypeOK
  BY DEF TypeInv
<1> QED BY <1>1, Inductive, PTL

\* However scans of one account overlap, fail, restart and are repeated from
\* an earlier cursor, the claim in _claim_delivery sends a message to a
\* destination once, and once more for each takeover after five minutes and each
\* failure reported of a message that had been accepted.
THEOREM CopiesAreBounded == Spec => []CopiesBounded
<1>1. TypeInv /\ FlightInv => CopiesBounded
  <2> SUFFICES ASSUME TypeInv, FlightInv, NEW p \in Pairs
               PROVE  copies[p] <= 1 + takeovers[p] + unheard[p]
    BY DEF CopiesBounded
  <2>1. copies[p] \in Nat /\ takeovers[p] \in Nat /\ unheard[p] \in Nat
    BY DEF TypeInv, TypeOK
  <2>2. Cardinality(Flying(p)) \in Nat /\ Open(p) \in 0..1
    BY FlyingFinite DEF Open
  <2>3. copies[p] + Cardinality(Flying(p)) + Open(p) <= 1 + takeovers[p] + unheard[p]
    BY DEF FlightInv
  <2> QED BY <2>1, <2>2, <2>3
<1> QED BY <1>1, Inductive, PTL

\* A row says success only when the destination has got the message.
THEOREM RecordedSuccessWasSent == Spec => []SuccessWasSent
<1>1. SentInv => SuccessWasSent
  BY DEF SentInv
<1> QED BY <1>1, Inductive, PTL

-----------------------------------------------------------------------------
(* What the cursor has passed                                              *)

\* The folder fits in a page, and no two messages have the same time stamp.
Orderly ==
  /\ IsFiniteSet(Messages) /\ Cardinality(Messages) <= PageSize
  /\ \A m, k \in Messages : Received[m] # 0 /\ Received[m] = Received[k] => m = k

\* The deliveries that were made, or left to a claim in progress.
Settled == {p \in Pairs : copies[p] > 0 \/ p \in relied}

Got(m, G) == \A d \in Destinations : <<m, d>> \in G

\* Mail up to the time c is settled, and no more such mail will come.
Covered(c, G) == \A m \in mailbox : Received[m] # 0 /\ Received[m] <= c => Got(m, G)
Beyond(c) == \A m \in Messages \ mailbox : Received[m] # 0 => c < Received[m]

OrderInv ==
  /\ Beyond(cursor)
  /\ \A m \in mailbox : Beyond(Received[m])
  /\ \A s \in Scans : Beyond(scan[s].read) /\ Beyond(scan[s].latest)

Visiting == {"claim", "send", "record"}

\* Mail after r.latest is still to do, or later than all that is.
Ahead(r) ==
  \A m \in mailbox : Received[m] > r.latest =>
    m \in r.todo \/ \A k \in r.todo : Received[k] < Received[m]

Sweeps(r, G) ==
  /\ r.todo \subseteq mailbox
  /\ r.bad => r.failed
  /\ r.pc \in Visiting => r.at \in Earliest(r.todo)
  /\ r.pc \in {"send", "record"} => r.to \in r.left
  /\ ~r.failed =>
       /\ r.pc # "idle" => Covered(r.latest, G)
       /\ r.pc = "list" => r.latest = r.read
       /\ r.pc \in Visiting \cup {"finish"} => Ahead(r)
       /\ r.pc \in Visiting => \A d \in Destinations \ r.left : <<r.at, d>> \in G

SweepInv == \A s \in Scans : Sweeps(scan[s], Settled)

\* CursorHonest says nothing of the scans that will move the cursor: each knows
\* of mail it has covered, and that the rest is ahead of it.
CursorInv == Covered(cursor, Settled) /\ OrderInv /\ SweepInv

LEMMA WholePage == ASSUME TypeOK, Orderly PROVE Page = mailbox
<1> SUFFICES ASSUME NEW m \in mailbox
             PROVE  Cardinality({k \in mailbox : Received[k] > Received[m]}) < PageSize
  BY DEF Page
<1> DEFINE Newer == {k \in mailbox : Received[k] > Received[m]}
<1>1. m \in Messages /\ Received[m] \in Nat
  BY ForwardingAssumption DEF TypeOK
<1>2. Newer \subseteq Messages \ {m}
  BY <1>1 DEF TypeOK
<1>3. IsFiniteSet(Messages \ {m}) /\ Cardinality(Messages \ {m}) = Cardinality(Messages) - 1
  BY <1>1, FS_RemoveElement DEF Orderly
<1> HIDE DEF Newer
<1>4. Cardinality(Newer) \in Nat /\ Cardinality(Newer) <= Cardinality(Messages \ {m})
  BY <1>2, <1>3, FS_Subset, FS_CardinalityType
<1>5. Cardinality(Messages) \in Nat /\ Cardinality(Messages) <= PageSize /\ PageSize \in Nat
  BY FS_CardinalityType, ForwardingAssumption DEF Orderly
<1>6. Cardinality(Newer) < PageSize
  BY <1>3, <1>4, <1>5
<1> QED BY <1>6 DEF Newer

\* A scan goes on with the mail S.
LEMMA VisitSweeps ==
  ASSUME TypeOK, NEW G, NEW r \in Locals, NEW S \in SUBSET mailbox, NEW q \in Visit(r, S),
         r.bad => r.failed,
         ~r.failed => /\ Covered(r.latest, G)
                      /\ \A m \in mailbox : Received[m] > r.latest =>
                           m \in S \/ \A k \in S : Received[k] < Received[m]
  PROVE  Sweeps(q, G) /\ q.latest = r.latest /\ q.read = r.read
<1>1. CASE S = {}
  <2>1. q = [r EXCEPT !.pc = "finish", !.todo = {}, !.at = None, !.left = {}, !.to = None]
    BY <1>1 DEF Visit
  <2>2. /\ q.pc = "finish" /\ q.todo = {} /\ q.latest = r.latest /\ q.read = r.read
        /\ q.bad = r.bad /\ q.failed = r.failed
    BY <2>1 DEF Locals
  <2> QED BY <2>2 DEF Sweeps, Visiting, Ahead
<1>2. CASE S # {}
  <2>1. PICK m \in Earliest(S) :
          q = [r EXCEPT !.pc = "claim", !.todo = S, !.at = m, !.left = Destinations,
                        !.to = None, !.bad = FALSE]
    BY <1>2 DEF Visit
  <2>2. /\ q.pc = "claim" /\ q.todo = S /\ q.latest = r.latest /\ q.read = r.read
        /\ q.bad = FALSE /\ q.failed = r.failed /\ q.at = m /\ q.left = Destinations
    BY <2>1 DEF Locals
  <2> QED BY <2>1, <2>2 DEF Sweeps, Visiting, Ahead
<1> QED BY <1>1, <1>2

\* It is done with destination d, which is settled or failed.
LEMMA PassedSweeps ==
  ASSUME TypeOK, Orderly, NEW G, NEW r \in Locals, r.pc \in Visiting, Sweeps(r, G),
         r.at \in Messages, NEW d, ~r.failed => <<r.at, d>> \in G, NEW q \in Passed(r, d)
  PROVE  /\ Sweeps(q, G) /\ q.read = r.read
         /\ q.latest = r.latest \/ (r.at \in mailbox /\ q.latest = Received[r.at])
<1>0. /\ r.at \in r.todo /\ \A k \in r.todo : Received[r.at] <= Received[k]
      /\ r.todo \subseteq mailbox /\ mailbox \subseteq Messages
      /\ r.latest \in Nat /\ \A m \in Messages : Received[m] \in Nat
  BY ForwardingAssumption DEF Sweeps, Earliest, TypeOK, Locals
<1>1. CASE r.left \ {d} # {}
  <2>1. q = [r EXCEPT !.pc = "claim", !.left = r.left \ {d}, !.to = None]
    BY <1>1 DEF Passed
  <2>2. /\ q.pc = "claim" /\ q.left = r.left \ {d} /\ q.at = r.at /\ q.todo = r.todo
        /\ q.read = r.read /\ q.latest = r.latest /\ q.bad = r.bad /\ q.failed = r.failed
    BY <2>1 DEF Locals
  <2>3. Ahead(q) <=> Ahead(r)
    BY <2>2 DEF Ahead
  <2> QED BY <2>2, <2>3 DEF Sweeps, Visiting
<1>2. CASE r.left \ {d} = {}
  <2> DEFINE l == IF r.bad \/ Received[r.at] < r.latest THEN r.latest ELSE Received[r.at]
             n == [r EXCEPT !.latest = l]
  <2>1. /\ l \in Nat /\ l >= r.latest /\ l \in {r.latest, Received[r.at]}
        /\ ~r.bad => l >= Received[r.at]
    BY <1>0
  <2> HIDE DEF l
  <2>2. /\ n \in Locals /\ n.latest = l /\ n.read = r.read
        /\ n.bad = r.bad /\ n.failed = r.failed
    BY <2>1 DEF Locals
  <2>3. q \in Visit(n, r.todo \ {r.at})
    BY <1>2 DEF Passed, l
  <2> HIDE DEF n
  <2>4. ASSUME ~r.failed
        PROVE  /\ Covered(l, G)
               /\ \A m \in mailbox : Received[m] > l =>
                    \/ m \in r.todo \ {r.at}
                    \/ \A k \in r.todo \ {r.at} : Received[k] < Received[m]
    <3>1. Covered(r.latest, G) /\ Ahead(r) /\ ~r.bad
      BY <2>4 DEF Sweeps, Visiting
    <3>2. Got(r.at, G)
      BY <1>2, <2>4 DEF Sweeps, Got
    <3>3. ASSUME NEW m \in mailbox, Received[m] # 0, Received[m] <= l PROVE Got(m, G)
      <4>1. CASE Received[m] <= r.latest
        BY <3>1, <3>3, <4>1 DEF Covered
      <4>2. CASE Received[m] > r.latest
        <5>1. l = Received[r.at]
          BY <1>0, <2>1, <3>3, <4>2
        <5>2. m \in r.todo
          BY <1>0, <3>1, <3>3, <4>2, <5>1 DEF Ahead
        <5>3. Received[m] = Received[r.at]
          BY <1>0, <3>3, <5>1, <5>2
        <5>4. m = r.at
          BY <1>0, <3>3, <5>3 DEF Orderly
        <5> QED BY <3>2, <5>4
      <4> QED BY <1>0, <4>1, <4>2
    <3>4. ASSUME NEW m \in mailbox, Received[m] > l
          PROVE  \/ m \in r.todo \ {r.at}
                 \/ \A k \in r.todo \ {r.at} : Received[k] < Received[m]
      <4>1. Received[m] > r.latest /\ m # r.at
        BY <1>0, <2>1, <3>1, <3>4
      <4> QED BY <3>1, <4>1 DEF Ahead
    <3> QED BY <3>3, <3>4 DEF Covered
  <2>5. r.todo \ {r.at} \in SUBSET mailbox /\ (r.bad => r.failed)
    BY <1>0 DEF Sweeps
  <2>6. Sweeps(q, G) /\ q.latest = n.latest /\ q.read = n.read
    BY <2>2, <2>3, <2>4, <2>5, VisitSweeps
  <2> QED BY <1>0, <2>1, <2>2, <2>6
<1> QED BY <1>1, <1>2

\* What is settled stays so.
LEMMA SettledGrows ==
  ASSUME TypeInv, [Next]_vars PROVE Settled \subseteq Settled'
<1>1. copies \in [Pairs -> Nat]
  BY DEF TypeInv, TypeOK
<1>2. SUFFICES /\ \A p \in Pairs : copies[p] > 0 => copies'[p] > 0
               /\ relied \subseteq relied'
  BY DEF Settled
<1>3. CASE copies' = copies /\ relied' = relied
  BY <1>3
<1>4. ASSUME NEW s \in Scans, Skip(s) PROVE copies' = copies /\ relied \subseteq relied'
  BY <1>4 DEF Skip
<1>5. ASSUME NEW s \in Scans, SendSucceeds(s) \/ AnswerLost(s)
      PROVE  /\ \A p \in Pairs : copies[p] > 0 => copies'[p] > 0
             /\ relied' = relied
  <2> DEFINE x == <<scan[s].at, scan[s].to>>
  <2>1. copies' = [copies EXCEPT ![x] = copies[x] + 1] /\ relied' = relied
    BY <1>5 DEF SendSucceeds, AnswerLost
  <2> HIDE DEF x
  <2> QED BY <1>1, <2>1
<1>6. ASSUME NEW s \in Scans,
             \/ StartScan(s) \/ ListMail(s) \/ Claim(s) \/ ScanRaises(s) \/ SendFails(s)
             \/ Record(s) \/ Finish(s) \/ FetchFails(s) \/ DeliveryRaises(s) \/ Crash(s)
      PROVE  copies' = copies /\ relied' = relied
  BY <1>6 DEF StartScan, ListMail, Claim, ScanRaises, SendFails, Record, Finish, FetchFails,
              DeliveryRaises, Crash
<1>7. ASSUME \/ UNCHANGED vars \/ (\E m \in Messages : Arrive(m)) \/ ResetCursor
             \/ (\E p \in Pairs : FiveMinutes(p))
      PROVE  copies' = copies /\ relied' = relied
  BY <1>7 DEF vars, Arrive, ResetCursor, FiveMinutes
<1> QED BY <1>3, <1>4, <1>5, <1>6, <1>7 DEF Next, ScanStep

LEMMA CursorInit == Init => CursorInv
<1> SUFFICES ASSUME Init PROVE CursorInv
  OBVIOUS
<1>1. /\ mailbox = {} /\ cursor = 0
      /\ \A s \in Scans : scan[s] = Idle
  BY DEF Init
<1>2. /\ Idle.pc = "idle" /\ Idle.read = 0 /\ Idle.latest = 0 /\ Idle.todo = {} /\ ~Idle.bad
  BY DEF Idle
<1>3. Beyond(0)
  BY ForwardingAssumption DEF Beyond
<1>4. Sweeps(Idle, Settled)
  BY <1>2 DEF Sweeps, Visiting
<1>5. OrderInv
  BY <1>1, <1>2, <1>3 DEF OrderInv
<1> QED BY <1>1, <1>4, <1>5 DEF CursorInv, Covered, SweepInv

\* What a scan has established stays, as nothing is unsettled.
LEMMA SweepsStay ==
  ASSUME NEW r, NEW G, NEW H, G \subseteq H, Sweeps(r, G)
  PROVE  Sweeps(r, H)
<1>1. \A m : Got(m, G) => Got(m, H)
  BY DEF Got
<1>2. Covered(r.latest, G) => Covered(r.latest, H)
  BY <1>1 DEF Covered
<1> QED BY <1>2 DEF Sweeps

\* The other scans take no notice of a step that adds no mail.
LEMMA OthersStay ==
  ASSUME TypeInv, CursorInv, Settled \subseteq Settled', mailbox' = mailbox, NEW r \in Locals,
         Sweeps(r, Settled)
  PROVE  Sweeps(r, Settled)'
<1>1. Sweeps(r, Settled')
  BY SweepsStay
<1> QED BY <1>1 DEF Sweeps, Covered, Ahead, Got

\* A step of a scan to the local variables q.
LEMMA ScanMoves ==
  ASSUME TypeInv, CursorInv, NEW s \in Scans, NEW q, Ready(q), Sweeps(q, Settled'),
         scan' = [scan EXCEPT ![s] = q], mailbox' = mailbox, Settled \subseteq Settled',
         Beyond(q.read), Beyond(q.latest), Beyond(cursor'), Covered(cursor', Settled)
  PROVE  CursorInv'
<1>1. \A t \in Scans : scan'[t] = IF t = s THEN q ELSE scan[t]
  BY DEF TypeInv, TypeOK
<1>2. SweepInv'
  <2>1. Sweeps(q, Settled)'
    BY DEF Sweeps, Covered, Ahead, Got
  <2>2. ASSUME NEW t \in Scans, t # s PROVE Sweeps(scan[t], Settled)'
    <3>1. scan'[t] = scan[t] /\ scan[t] \in Locals /\ Sweeps(scan[t], Settled)
      BY <1>1, <2>2 DEF TypeInv, TypeOK, CursorInv, SweepInv
    <3> DEFINE r == scan[t]
    <3>2. Sweeps(r, Settled')
      BY <3>1, SweepsStay
    <3> QED BY <3>1, <3>2 DEF Sweeps, Covered, Ahead, Got
  <2> QED BY <1>1, <2>1, <2>2 DEF SweepInv
<1>3. Covered(cursor, Settled)'
  BY DEF Covered, Got
<1>4. OrderInv'
  BY <1>1 DEF OrderInv, CursorInv, Beyond
<1> QED BY <1>2, <1>3, <1>4 DEF CursorInv

\* The mail that arrives is later than all the mail that any scan has seen.
LEMMA ArriveCursor ==
  ASSUME TypeInv, Orderly, CursorInv, NEW m \in Messages, Arrive(m)
  PROVE  CursorInv'
<1>0. /\ mailbox \subseteq Messages /\ cursor \in Nat /\ \A k \in Messages : Received[k] \in Nat
      /\ \A s \in Scans : scan[s] \in Locals
  BY ForwardingAssumption DEF TypeInv, TypeOK
<1>1. /\ m \notin mailbox /\ mailbox' = mailbox \cup {m}
      /\ \A k \in Messages \ mailbox : Received[k] = 0 \/ Received[k] >= Received[m]
      /\ UNCHANGED <<cursor, copies, relied, scan>>
  BY DEF Arrive
<1>9. Settled' = Settled
  BY <1>1 DEF Settled
<1>2. ASSUME NEW c, Covered(c, Settled), Beyond(c), c \in Nat
      PROVE  Covered(c, Settled)' /\ Beyond(c)'
  <2>1. Received[m] # 0 => c < Received[m]
    BY <1>1, <1>2 DEF Beyond
  <2>2. \A k \in mailbox : Got(k, Settled)' <=> Got(k, Settled)
    BY <1>9 DEF Got
  <2> QED BY <1>0, <1>1, <1>2, <2>1, <2>2 DEF Covered, Beyond
<1>3. ASSUME NEW c, Beyond(c) PROVE Beyond(c)'
  BY <1>1, <1>3 DEF Beyond
<1>4. Beyond(Received[m])'
  <2>1. ASSUME NEW k \in Messages \ mailbox', Received[k] # 0 PROVE Received[m] < Received[k]
    <3>1. Received[k] >= Received[m] /\ k # m
      BY <1>1, <2>1
    <3>2. Received[k] # Received[m]
      BY <2>1, <3>1 DEF Orderly
    <3> QED BY <1>0, <3>1, <3>2
  <2> QED BY <2>1 DEF Beyond
<1>5. Covered(cursor, Settled)' /\ Beyond(cursor)'
  BY <1>0, <1>1, <1>2 DEF CursorInv, OrderInv
<1>6. OrderInv'
  BY <1>1, <1>3, <1>4, <1>5 DEF CursorInv, OrderInv
<1>7. ASSUME NEW r \in Locals, Sweeps(r, Settled), Beyond(r.latest)
      PROVE  Sweeps(r, Settled)'
  <2>1. r.latest \in Nat /\ r.todo \subseteq mailbox
    BY <1>7 DEF Locals, Sweeps
  <2>2. Covered(r.latest, Settled) => Covered(r.latest, Settled)'
    BY <1>2, <1>7, <2>1
  <2>3. ASSUME NEW k \in r.todo, Received[m] # 0 PROVE Received[k] < Received[m]
    <3>1. Beyond(Received[k])
      BY <2>1 DEF CursorInv, OrderInv
    <3> QED BY <1>1, <2>3, <3>1 DEF Beyond
  <2>4. Received[m] > r.latest => Received[m] # 0
    BY <1>0, <2>1
  <2>5. Ahead(r) => Ahead(r)'
    BY <1>1, <2>3, <2>4 DEF Ahead
  <2> QED BY <1>1, <1>7, <1>9, <2>2, <2>5 DEF Sweeps
<1>8. SweepInv'
  <2>1. \A s \in Scans : Sweeps(scan[s], Settled)'
    BY <1>0, <1>1, <1>7 DEF CursorInv, OrderInv, SweepInv
  <2> QED BY <2>1 DEF SweepInv
<1> QED BY <1>5, <1>6, <1>8 DEF CursorInv

LEMMA IdleSweeps ==
  ASSUME TypeInv, NEW G PROVE Ready(Idle) /\ Sweeps(Idle, G) /\ Beyond(0)
<1>1. Idle.pc = "idle" /\ Idle.todo = {} /\ ~Idle.bad
  BY DEF Idle
<1>2. Beyond(0)
  BY ForwardingAssumption DEF Beyond
<1> QED BY <1>1, <1>2, IdleReady DEF Sweeps, Visiting

\* The actions in which a scan looks at no delivery.
LEMMA ReadCursor ==
  ASSUME TypeInv, Orderly, CursorInv, NEW s \in Scans,
         \/ StartScan(s) \/ ListMail(s) \/ ScanRaises(s) \/ FetchFails(s) \/ Finish(s)
         \/ DeliveryRaises(s) \/ Crash(s)
  PROVE  CursorInv'
<1>0. /\ scan[s] \in Locals /\ scan \in [Scans -> Locals] /\ Sweeps(scan[s], Settled)
      /\ Covered(cursor, Settled) /\ Beyond(cursor) /\ cursor \in Nat
      /\ Beyond(scan[s].read) /\ Beyond(scan[s].latest) /\ mailbox \subseteq Messages
  BY DEF TypeInv, TypeOK, CursorInv, OrderInv, SweepInv
<1>1. mailbox' = mailbox /\ Settled' = Settled
  BY DEF StartScan, ListMail, ScanRaises, FetchFails, Finish, DeliveryRaises, Crash, Settled
<1>2. Idle.read = 0 /\ Idle.latest = 0
  BY DEF Idle
<1>3. CASE StartScan(s)
  <2> DEFINE q == [Idle EXCEPT !.pc = "list", !.read = cursor, !.latest = cursor]
  <2>1. /\ q \in Locals /\ q.pc = "list" /\ q.read = cursor /\ q.latest = cursor
        /\ q.todo = {} /\ ~q.bad
    BY <1>0 DEF Idle, Locals
  <2>2. scan' = [scan EXCEPT ![s] = q] /\ cursor' = cursor
    BY <1>3 DEF StartScan
  <2> HIDE DEF q
  <2>3. Ready(q) /\ Sweeps(q, Settled)
    BY <1>0, <2>1 DEF Ready, Sweeps, Visiting
  <2> QED BY <1>0, <1>1, <2>1, <2>2, <2>3, ScanMoves
<1>4. CASE ListMail(s)
  <2> DEFINE r == scan[s]
             S == Candidates(r.read)
  <2>1. PICK q \in Visit(r, S) : scan' = [scan EXCEPT ![s] = q]
    BY <1>4 DEF ListMail
  <2>2. r.pc = "list" /\ cursor' = cursor
    BY <1>4 DEF ListMail
  <2>3. /\ S \in SUBSET mailbox
        /\ \A m \in mailbox : Received[m] > r.read => m \in S
    BY WholePage DEF Candidates, TypeInv
  <2>4. (r.bad => r.failed) /\ (~r.failed => Covered(r.latest, Settled) /\ r.latest = r.read)
    BY <1>0, <2>2 DEF Sweeps
  <2> HIDE DEF r, S
  <2>5. r \in Locals
    BY <1>0 DEF r
  <2>6. Sweeps(q, Settled) /\ q.latest = r.latest /\ q.read = r.read
    BY <2>1, <2>3, <2>4, <2>5, VisitSweeps DEF TypeInv
  <2>7. Ready(q)
    BY <1>0, <2>1, <2>3, <2>5, VisitType
  <2> QED BY <1>0, <1>1, <2>1, <2>2, <2>6, <2>7, ScanMoves DEF r
<1>5. CASE ScanRaises(s) \/ FetchFails(s) \/ DeliveryRaises(s) \/ Crash(s)
  <2>1. scan' = [scan EXCEPT ![s] = Idle] /\ cursor' = cursor
    BY <1>5 DEF ScanRaises, FetchFails, DeliveryRaises, Crash
  <2> QED BY <1>0, <1>1, <1>2, <2>1, IdleSweeps, ScanMoves
<1>6. CASE Finish(s)
  <2>1. scan' = [scan EXCEPT ![s] = Idle] /\ scan[s].pc = "finish"
    BY <1>6 DEF Finish
  <2>2. \/ cursor' = cursor
        \/ ~scan[s].failed /\ cursor' = scan[s].latest
    BY <1>6 DEF Finish
  <2>3. Covered(cursor', Settled) /\ Beyond(cursor')
    BY <1>0, <2>1, <2>2 DEF Sweeps
  <2> QED BY <1>0, <1>1, <1>2, <2>1, <2>3, IdleSweeps, ScanMoves
<1> QED BY <1>3, <1>4, <1>5, <1>6

\* The actions on a delivery.
LEMMA DeliveryCursor ==
  ASSUME TypeInv, SentInv, Orderly, CursorInv, [Next]_vars, NEW s \in Scans,
         Claim(s) \/ Skip(s) \/ Sends(s) \/ Record(s)
  PROVE  CursorInv'
<1>0. /\ scan[s] \in Locals /\ scan \in [Scans -> Locals] /\ Sweeps(scan[s], Settled)
      /\ Covered(cursor, Settled) /\ Beyond(cursor) /\ mailbox \subseteq Messages
      /\ Beyond(scan[s].read) /\ Beyond(scan[s].latest)
      /\ \A m \in mailbox : Beyond(Received[m])
      /\ copies \in [Pairs -> Nat]
  BY DEF TypeInv, TypeOK, CursorInv, OrderInv, SweepInv
<1>1. /\ mailbox' = mailbox /\ cursor' = cursor
      /\ scan[s].pc \in Visiting /\ scan[s].at \in Messages
  BY DEF Claim, Skip, Sends, SendSucceeds, SendFails, AnswerLost, Record, Visiting, TypeInv,
         OnMessage
<1>7. Settled \subseteq Settled'
  BY SettledGrows
<1>2. ASSUME NEW r \in Locals, r.pc \in Visiting, Sweeps(r, Settled), r.at = scan[s].at,
             r.read = scan[s].read, r.latest = scan[s].latest,
             NEW d, ~r.failed => <<r.at, d>> \in Settled', NEW q \in Passed(r, d),
             NEW x, x \in {q, [q EXCEPT !.expired = TRUE]},
             scan' = [scan EXCEPT ![s] = x]
      PROVE  CursorInv'
  <2>0. Sweeps(r, Settled')
    BY <1>2, <1>7, SweepsStay
  <2>1. Sweeps(q, Settled') /\ Beyond(q.read) /\ Beyond(q.latest)
    BY <1>0, <1>1, <1>2, <2>0, PassedSweeps DEF TypeInv
  <2>2. Ready(q)
    BY <1>1, <1>2, PassedType
  <2>3. /\ x \in Locals /\ x.pc = q.pc /\ x.todo = q.todo /\ x.at = q.at /\ x.left = q.left
        /\ x.to = q.to /\ x.read = q.read /\ x.latest = q.latest
        /\ x.bad = q.bad /\ x.failed = q.failed
    BY <1>2, <2>2 DEF Ready, Locals
  <2>4. Ready(x) /\ Sweeps(x, Settled') /\ Beyond(x.read) /\ Beyond(x.latest)
    BY <2>1, <2>2, <2>3 DEF Ready, Sweeps, Ahead
  <2> QED BY <1>0, <1>1, <1>2, <1>7, <2>4, ScanMoves
<1>3. CASE Claim(s)
  <2>1. PICK d \in scan[s].left : scan' = [scan EXCEPT ![s].pc = "send", ![s].to = d]
    BY <1>3 DEF Claim
  <2> DEFINE q == [scan[s] EXCEPT !.pc = "send", !.to = d]
  <2>2. scan' = [scan EXCEPT ![s] = q]
    BY <1>0, <2>1 DEF Locals
  <2>3. /\ q \in Locals /\ q.pc = "send" /\ q.to = d /\ d \in Destinations
        /\ q.todo = scan[s].todo /\ q.at = scan[s].at /\ q.left = scan[s].left
        /\ q.read = scan[s].read /\ q.latest = scan[s].latest
        /\ q.bad = scan[s].bad /\ q.failed = scan[s].failed
    BY <1>0, <2>1 DEF Locals
  <2> HIDE DEF q
  <2>4. Ready(q) /\ Sweeps(q, Settled)
    BY <1>0, <1>1, <2>1, <2>3 DEF Ready, Sweeps, Visiting, Ahead
  <2>5. Sweeps(q, Settled')
    BY <1>7, <2>4, SweepsStay
  <2> QED BY <1>0, <1>1, <1>7, <2>2, <2>3, <2>4, <2>5, ScanMoves
<1>4. CASE Skip(s)
  <2>1. PICK d \in scan[s].left :
          /\ Taken(<<scan[s].at, d>>)
          /\ \E r \in Passed(scan[s], d) : scan' = [scan EXCEPT ![s] = [r EXCEPT !.expired = TRUE]]
          /\ relied' = IF delivery[<<scan[s].at, d>>] = "processing"
                       THEN relied \cup {<<scan[s].at, d>>} ELSE relied
    BY <1>4 DEF Skip
  <2>2. PICK r \in Passed(scan[s], d) : scan' = [scan EXCEPT ![s] = [r EXCEPT !.expired = TRUE]]
    BY <2>1
  <2>3. <<scan[s].at, d>> \in Pairs
    BY <1>0, <1>1 DEF Pairs, Locals
  <2>4. relied' = IF delivery[<<scan[s].at, d>>] = "processing"
                  THEN relied \cup {<<scan[s].at, d>>} ELSE relied
    BY <2>1
  <2>5. <<scan[s].at, d>> \in Settled'
    <3>1. CASE delivery[<<scan[s].at, d>>] = "processing"
      BY <2>3, <2>4, <3>1 DEF Settled
    <3>2. CASE delivery[<<scan[s].at, d>>] # "processing"
      <4>1. copies[<<scan[s].at, d>>] > 0
        BY <2>1, <2>3, <3>2 DEF Taken, SentInv, SuccessWasSent
      <4> QED BY <1>7, <2>3, <4>1 DEF Settled
    <3> QED BY <3>1, <3>2
  <2> QED BY <1>0, <1>1, <1>2, <2>2, <2>5
<1>5. CASE Sends(s)
  <2> DEFINE q == [scan[s] EXCEPT !.pc = "record", !.sent = scan'[s].sent]
             x == <<scan[s].at, scan[s].to>>
  <2>1. scan[s].pc = "send" /\ x \in Pairs
    BY <1>5 DEF Sends, SendSucceeds, SendFails, AnswerLost, Pairs, TypeInv, OnMessage
  <2>2. scan' = [scan EXCEPT ![s] = q]
    <3>1. PICK b \in BOOLEAN : scan' = [scan EXCEPT ![s].pc = "record", ![s].sent = b]
      BY <1>5 DEF Sends, SendSucceeds, SendFails, AnswerLost
    <3>2. scan'[s] = [scan[s] EXCEPT !.pc = "record", !.sent = b] /\ scan'[s].sent = b
      BY <1>0, <3>1 DEF Locals
    <3> QED BY <1>0, <3>1, <3>2
  <2>3. scan'[s].sent \in BOOLEAN
    BY <1>0, <1>5 DEF Sends, SendSucceeds, SendFails, AnswerLost, Locals
  <2>4. /\ q \in Locals /\ q.pc = "record" /\ q.to = scan[s].to
        /\ q.todo = scan[s].todo /\ q.at = scan[s].at /\ q.left = scan[s].left
        /\ q.read = scan[s].read /\ q.latest = scan[s].latest
        /\ q.bad = scan[s].bad /\ q.failed = scan[s].failed
    BY <1>0, <2>3 DEF Locals
  <2>6. scan[s].to \in Destinations
    BY <2>1 DEF TypeInv, OnMessage
  <2> HIDE DEF q, x
  <2>7. Ready(q) /\ Sweeps(q, Settled)
    BY <1>0, <1>1, <2>1, <2>4, <2>6 DEF Ready, Sweeps, Visiting, Ahead
  <2>8. Sweeps(q, Settled')
    BY <1>7, <2>7, SweepsStay
  <2> QED BY <1>0, <1>1, <1>7, <2>2, <2>4, <2>7, <2>8, ScanMoves
<1>6. CASE Record(s)
  <2> DEFINE ok == scan[s].sent
             n  == [scan[s] EXCEPT !.bad = scan[s].bad \/ ~ok, !.failed = scan[s].failed \/ ~ok]
  <2>1. PICK q \in Passed(n, scan[s].to) : scan' = [scan EXCEPT ![s] = q]
    BY <1>6 DEF Record
  <2>2. /\ n \in Locals /\ n.pc = scan[s].pc /\ n.to = scan[s].to
        /\ n.todo = scan[s].todo /\ n.at = scan[s].at /\ n.left = scan[s].left
        /\ n.read = scan[s].read /\ n.latest = scan[s].latest
        /\ n.bad <=> scan[s].bad \/ ~ok
        /\ n.failed <=> scan[s].failed \/ ~ok
    BY <1>0 DEF Locals
  <2>3. copies' = copies /\ scan[s].pc = "record"
    BY <1>6 DEF Record
  <2>4. ok => copies[<<scan[s].at, scan[s].to>>] > 0
    BY <2>3 DEF SentInv
  <2> HIDE DEF n
  <2>5. Sweeps(n, Settled)
    BY <1>0, <2>2 DEF Sweeps, Ahead
  <2>6. <<n.at, scan[s].to>> \in Pairs
    BY <1>1, <1>6, <2>2 DEF Record, Pairs, TypeInv, OnMessage
  <2>7. ~n.failed => <<n.at, scan[s].to>> \in Settled'
    BY <1>7, <2>2, <2>4, <2>6 DEF Settled
  <2> QED BY <1>0, <1>1, <1>2, <2>1, <2>2, <2>3, <2>5, <2>7
<1> QED BY <1>3, <1>4, <1>5, <1>6

LEMMA CursorStep == TypeInv /\ SentInv /\ Orderly /\ CursorInv /\ [Next]_vars => CursorInv'
<1> SUFFICES ASSUME TypeInv, SentInv, Orderly, CursorInv, [Next]_vars PROVE CursorInv'
  OBVIOUS
<1>1. CASE UNCHANGED vars \/ \E p \in Pairs : FiveMinutes(p)
  <2>1. UNCHANGED <<mailbox, cursor, copies, relied, scan>>
    BY <1>1 DEF vars, FiveMinutes
  <2> QED BY <2>1
        DEF CursorInv, OrderInv, SweepInv, Sweeps, Covered, Beyond, Got, Ahead, Settled
<1>2. ASSUME NEW m \in Messages, Arrive(m) PROVE CursorInv'
  BY <1>2, ArriveCursor
<1>3. CASE ResetCursor
  <2>1. /\ cursor' \in 0..cursor /\ UNCHANGED <<mailbox, copies, relied, scan>>
        /\ cursor \in Nat /\ mailbox \subseteq Messages /\ \A m \in Messages : Received[m] \in Nat
    BY <1>3, ForwardingAssumption DEF ResetCursor, TypeInv, TypeOK
  <2>2. Settled' = Settled
    BY <2>1 DEF Settled
  <2>3. Covered(cursor, Settled)'
    BY <2>1, <2>2 DEF CursorInv, Covered, Got
  <2>4. OrderInv'
    BY <2>1 DEF CursorInv, OrderInv, Beyond
  <2>5. SweepInv'
    BY <2>1, <2>2 DEF CursorInv, SweepInv, Sweeps, Covered, Got, Ahead
  <2> QED BY <2>3, <2>4, <2>5 DEF CursorInv
<1>4. ASSUME NEW s \in Scans, ScanStep(s) \/ FetchFails(s) \/ DeliveryRaises(s) \/ Crash(s)
      PROVE  CursorInv'
  BY <1>4, ReadCursor, DeliveryCursor DEF ScanStep, Sends
<1> QED BY <1>1, <1>2, <1>3, <1>4 DEF Next

\* Whatever fails, raises or dies, however scans of the account overlap, however
\* long a delivery takes and wherever the cursor is reset to: it passes no mail
\* but what has reached every destination or was left to a claim in progress.
\* A folder longer than a page and mail that repeats a time stamp are excluded.
THEOREM CursorIsHonest == ASSUME Orderly PROVE Spec => []CursorHonest
<1>1. Init => CursorInv
  BY CursorInit
<1>2. TypeInv /\ SentInv /\ CursorInv /\ [Next]_vars => CursorInv'
  BY CursorStep
<1>3. TypeInv /\ CursorInv => CursorHonest
  BY DEF CursorInv, Covered, Got, CursorHonest, Settled
<1> QED BY <1>1, <1>2, <1>3, Inductive, PTL DEF Spec

-----------------------------------------------------------------------------
(* Retained mail                                                           *)

SyncPCs == {"list", "page", "fetch", "detail", "prune"}
RequestPCs == {"delete", "forget", "mark", "show"}

\* What a sync or a request is doing.
WorkState ==
  [pc: {"idle"} \cup SyncPCs \cup RequestPCs, policy: Policy \cup {None}, page: SUBSET Mails,
   channel: Channels, read: SUBSET Mails, todo: SUBSET Mails, id: Ids \cup {None}, fresh: BOOLEAN]

\* It has a policy or a message, and nothing to fetch before it has listed.
Equipped(r) ==
  /\ r.pc \in SyncPCs => r.policy \in Policy
  /\ r.pc \in RequestPCs => r.id \in Ids
  /\ r.pc = "list" => r.todo = {}

StoreTypeInv ==
  /\ inbox \in [Mails -> {"unsent", "unread", "read", "gone"}] /\ marked \subseteq Mails
  /\ row \in [Ids -> RowState \cup {None}]
  /\ policy \in Policy \cup {None}
  /\ work \in [Works -> WorkState]
  /\ \A w \in Works : Equipped(work[w])
  /\ raced \subseteq Ids /\ obeyed \in BOOLEAN /\ ops \in 0..MaxOps

LEMMA FreeType == Free \in WorkState /\ Equipped(Free)
BY DEF Free, WorkState, Equipped, Channels, SyncPCs, RequestPCs

LEMMA StoreTypeInit == StoreInit => StoreTypeInv
<1> SUFFICES ASSUME StoreInit PROVE StoreTypeInv
  OBVIOUS
<1>1. work \in [Works -> WorkState] /\ \A w \in Works : Equipped(work[w])
  BY FreeType DEF StoreInit
<1>2. 0 \in 0..MaxOps
  BY StoreAssumption
<1> QED BY <1>1, <1>2 DEF StoreInit, StoreTypeInv

\* One sync or request goes on.
LEMMA WorkType ==
  ASSUME StoreTypeInv, NEW w \in Works, NEW new \in WorkState, Equipped(new),
         work' = [work EXCEPT ![w] = new]
  PROVE  work' \in [Works -> WorkState] /\ \A v \in Works : Equipped(work'[v])
BY DEF StoreTypeInv

LEMMA StopType ==
  ASSUME StoreTypeInv, NEW w \in Works, work' = Stop(w)
  PROVE  work' \in [Works -> WorkState] /\ \A v \in Works : Equipped(work'[v])
<1>1. work' = [work EXCEPT ![w] = Free]
  BY DEF Stop
<1> QED BY <1>1, FreeType, WorkType

LEMMA BeginType ==
  ASSUME StoreTypeInv, NEW w \in Works, NEW new \in WorkState, Equipped(new), Begin(w, new)
  PROVE  /\ work' \in [Works -> WorkState] /\ \A v \in Works : Equipped(work'[v])
         /\ ops' \in 0..MaxOps
<1>1. ops' \in 0..MaxOps
  BY StoreAssumption DEF StoreTypeInv, Begin
<1> QED BY <1>1, WorkType DEF Begin

LEMMA StoredType ==
  ASSUME StoreTypeInv, NEW w \in Works, NEW body \in BOOLEAN
  PROVE  Stored(work[w], body) \in [Ids -> RowState \cup {None}]
<1> SUFFICES ASSUME NEW i \in Ids PROVE Stored(work[w], body)[i] \in RowState \cup {None}
  BY DEF Stored
<1> DEFINE kept == body \/ (row[i] # None /\ row[i].body)
           read == i[1] \in work[w].read
<1>1. row[i] \in RowState \cup {None}
  BY DEF StoreTypeInv
<1>2. kept \in BOOLEAN /\ read \in BOOLEAN
  BY <1>1 DEF RowState
<1>3. Stored(work[w], body)[i] = IF i[2] = work[w].channel /\ i[1] \in work[w].page
                                 THEN [read |-> read, recent |-> TRUE, body |-> kept] ELSE row[i]
  BY Zenon DEF Stored
<1> HIDE DEF kept, read
<1> QED BY <1>1, <1>2, <1>3 DEF RowState

\* Which rows an operation may write, and what is left after a prune.
LEMMA SurvivorsType ==
  ASSUME NEW R \in SUBSET Ids, NEW n, NEW S \in Survivors(R, n)
  PROVE  S \subseteq R
BY DEF Survivors, Top

LEMMA RemovedType ==
  ASSUME StoreTypeInv, NEW S
  PROVE  /\ Removed(S) \in [Mails -> {"unsent", "unread", "read", "gone"}]
         /\ \A m \in Mails : Removed(S)[m] = IF m \in S THEN "gone" ELSE inbox[m]
BY DEF StoreTypeInv, Removed

LEMMA SyncType ==
  ASSUME StoreTypeInv, NEW w \in Works,
         \/ StartSync(w) \/ SyncFails(w)
         \/ \E c \in Channels : List(w, c)
         \/ \E m \in Mails : Fetch(w, m)
  PROVE  StoreTypeInv'
<1> DEFINE r == work[w]
<1>1. r \in WorkState /\ Equipped(r)
  BY DEF StoreTypeInv
<1>2. CASE StartSync(w)
  <2> DEFINE new == [Free EXCEPT !.pc = "list", !.policy = policy]
  <2>1. /\ policy \in Policy /\ Begin(w, new)
        /\ UNCHANGED <<inbox, marked, row, policy, done, raced, obeyed>>
    BY <1>2 DEF StartSync, StoreTypeInv
  <2>2. new \in WorkState /\ Equipped(new)
    BY <2>1, FreeType DEF WorkState, SyncPCs, RequestPCs, Equipped, Free
  <2> HIDE DEF new
  <2>3. /\ work' \in [Works -> WorkState] /\ \A v \in Works : Equipped(work'[v])
        /\ ops' \in 0..MaxOps
    BY <2>1, <2>2, BeginType
  <2> QED BY <2>1, <2>3 DEF StoreTypeInv
<1>3. CASE SyncFails(w)
  BY <1>3, StopType DEF SyncFails, StoreTypeInv
<1>4. ASSUME NEW c \in Channels, List(w, c) PROVE StoreTypeInv'
  <2>1. PICK page \in Newest(r.policy.max) :
          work' = [work EXCEPT ![w].pc = "page", ![w].channel = c, ![w].page = page,
                               ![w].read = {m \in Present : inbox[m] = "read"}]
    BY <1>4, Zenon DEF List
  <2> DEFINE read == {m \in Present : inbox[m] = "read"}
             new == [r EXCEPT !.pc = "page", !.channel = c, !.page = page, !.read = read]
  <2>2. page \in SUBSET Mails /\ read \in SUBSET Mails
    BY DEF Newest, Top, Present
  <2>3. work' = [work EXCEPT ![w] = new]
    BY <2>1 DEF StoreTypeInv
  <2> HIDE DEF read
  <2>4. new \in WorkState /\ Equipped(new)
    BY <1>1, <1>4, <2>2 DEF WorkState, SyncPCs, RequestPCs, Equipped, List
  <2> HIDE DEF new
  <2>5. work' \in [Works -> WorkState] /\ \A v \in Works : Equipped(work'[v])
    BY <2>3, <2>4, WorkType
  <2> QED BY <1>4, <2>5 DEF StoreTypeInv, List
<1>5. ASSUME NEW m \in Mails, Fetch(w, m) PROVE StoreTypeInv'
  <2> DEFINE read == IF inbox[m] = "read" THEN {m} ELSE {}
             new == [r EXCEPT !.pc = "detail", !.page = {m}, !.todo = @ \ {m}, !.read = read]
  <2>1. /\ work' = [work EXCEPT ![w].pc = "detail", ![w].page = {m}, ![w].todo = @ \ {m},
                                ![w].read = IF inbox[m] = "read" THEN {m} ELSE {}]
        /\ r.pc = "fetch" /\ UNCHANGED <<inbox, marked, row, policy, done, raced, obeyed, ops>>
    BY <1>5 DEF Fetch
  <2>2. work' = [work EXCEPT ![w] = new]
    BY <2>1 DEF StoreTypeInv
  <2>3. read \in SUBSET Mails
    OBVIOUS
  <2> HIDE DEF read
  <2>4. new \in WorkState /\ Equipped(new)
    BY <1>1, <2>1, <2>3 DEF WorkState, SyncPCs, RequestPCs, Equipped
  <2> HIDE DEF new
  <2>5. work' \in [Works -> WorkState] /\ \A v \in Works : Equipped(work'[v])
    BY <2>2, <2>4, WorkType
  <2> QED BY <2>1, <2>5 DEF StoreTypeInv
<1> QED BY <1>2, <1>3, <1>4, <1>5

\* What a sync has in hand after it has stored a page or a body.
StoredOn(r, left) ==
  /\ left \in WorkState /\ left.pc \in {"prune", "fetch"} /\ left.pc = AfterStoring(left)
  /\ left.page = {} /\ left.todo \subseteq r.page \cup r.todo
  /\ left.policy = r.policy /\ left.fresh = r.fresh

LEMMA StorePageWork ==
  ASSUME StoreTypeInv, NEW w \in Works, StorePage(w)
  PROVE  \E left : StoredOn(work[w], left) /\ work' = [work EXCEPT ![w] = left]
<1> DEFINE r == work[w]
           todo == IF r.policy.bodies THEN r.page ELSE {}
           left == [r EXCEPT !.page = {}, !.todo = todo]
           pc == AfterStoring(left)
           next == [left EXCEPT !.pc = pc]
<1>1. r \in WorkState /\ r.pc = "page" /\ work' = [work EXCEPT ![w] = next]
  BY DEF StoreTypeInv, StorePage
<1>2. todo \in SUBSET Mails /\ todo \subseteq r.page
  BY <1>1 DEF WorkState
<1> HIDE DEF todo
<1>3. left \in WorkState /\ left.page = {} /\ left.todo = todo /\ left.policy = r.policy
      /\ left.fresh = r.fresh
  BY <1>1, <1>2 DEF WorkState
<1> HIDE DEF left
<1>4. pc = (IF left.todo = {} THEN "prune" ELSE "fetch")
  BY DEF AfterStoring
<1>5. next \in WorkState /\ next.page = {} /\ next.todo = todo /\ next.policy = r.policy
      /\ next.fresh = r.fresh /\ next.pc = pc /\ next.todo = left.todo
  BY <1>3, <1>4 DEF WorkState, SyncPCs
<1> HIDE DEF next, pc
<1>6. StoredOn(r, next)
  BY <1>2, <1>4, <1>5 DEF StoredOn, AfterStoring
<1> QED BY <1>1, <1>6

LEMMA StoreDetailWork ==
  ASSUME StoreTypeInv, NEW w \in Works, StoreDetail(w)
  PROVE  \E left : StoredOn(work[w], left) /\ work' = [work EXCEPT ![w] = left]
<1> DEFINE r == work[w]
           pc == AfterStoring(r)
           next == [r EXCEPT !.pc = pc, !.page = {}]
<1>1. r \in WorkState /\ r.pc = "detail" /\ work' = [work EXCEPT ![w] = next]
  BY DEF StoreTypeInv, StoreDetail
<1>2. pc = (IF r.todo = {} THEN "prune" ELSE "fetch")
  BY DEF AfterStoring
<1> HIDE DEF pc
<1>3. next \in WorkState /\ next.page = {} /\ next.todo = r.todo /\ next.policy = r.policy
      /\ next.fresh = r.fresh /\ next.pc = pc
  BY <1>1, <1>2 DEF WorkState, SyncPCs
<1> HIDE DEF next
<1>4. StoredOn(r, next)
  BY <1>2, <1>3 DEF StoredOn, AfterStoring
<1> QED BY <1>1, <1>4

LEMMA StoringType ==
  ASSUME StoreTypeInv, NEW w \in Works, StorePage(w) \/ StoreDetail(w) PROVE StoreTypeInv'
<1>1. PICK left : StoredOn(work[w], left) /\ work' = [work EXCEPT ![w] = left]
  BY StorePageWork, StoreDetailWork
<1>2. work[w].policy \in Policy
  BY DEF StorePage, StoreDetail, StoreTypeInv, Equipped, SyncPCs
<1>3. left \in WorkState /\ Equipped(left)
  BY <1>1, <1>2 DEF StoredOn, Equipped, SyncPCs, RequestPCs
<1>4. work' \in [Works -> WorkState] /\ \A v \in Works : Equipped(work'[v])
  BY <1>1, <1>3, WorkType
<1>5. row' \in [Ids -> RowState \cup {None}]
  BY StoredType, Zenon DEF StorePage, StoreDetail
<1>6. obeyed' \in BOOLEAN
  <2>1. obeyed' = FALSE \/ obeyed' = (obeyed /\ work[w].page = {})
    BY Zenon DEF StorePage, StoreDetail
  <2> QED BY <2>1, Zenon
<1> QED BY <1>4, <1>5, <1>6 DEF StoreTypeInv, StorePage, StoreDetail

LEMMA RequestType ==
  ASSUME StoreTypeInv, NEW w \in Works,
         \/ \E i \in Ids : StartDelete(w, i) \/ StartMark(w, i)
         \/ ProviderDeletes(w) \/ ExpungeFails(w) \/ ForgetRow(w)
         \/ ProviderMarks(w) \/ ShowRead(w) \/ Refuse(w)
  PROVE  StoreTypeInv'
<1> DEFINE r == work[w]
           i == r.id
<1>1. r \in WorkState /\ Equipped(r)
  BY DEF StoreTypeInv
<1>2. ASSUME NEW k \in Ids, StartDelete(w, k) \/ StartMark(w, k) PROVE StoreTypeInv'
  <2>1. PICK pc \in {"delete", "mark"} : Begin(w, [Free EXCEPT !.pc = pc, !.id = k])
    BY <1>2 DEF StartDelete, StartMark
  <2> DEFINE new == [Free EXCEPT !.pc = pc, !.id = k]
  <2>2. new \in WorkState /\ Equipped(new)
    BY FreeType DEF WorkState, SyncPCs, RequestPCs, Equipped, Free
  <2> HIDE DEF new
  <2>3. /\ work' \in [Works -> WorkState] /\ \A v \in Works : Equipped(work'[v])
        /\ ops' \in 0..MaxOps
    BY <2>1, <2>2, BeginType DEF new
  <2> QED BY <1>2, <2>3 DEF StoreTypeInv, StartDelete, StartMark
<1>3. ASSUME NEW pc \in {"forget", "show"}, work' = [work EXCEPT ![w].pc = pc], r.id \in Ids
      PROVE  work' \in [Works -> WorkState] /\ \A v \in Works : Equipped(work'[v])
  <2> DEFINE new == [r EXCEPT !.pc = pc]
  <2>1. new \in WorkState /\ Equipped(new)
    BY <1>1, <1>3 DEF WorkState, SyncPCs, RequestPCs, Equipped
  <2>2. work' = [work EXCEPT ![w] = new]
    BY <1>3 DEF StoreTypeInv
  <2> QED BY <2>1, <2>2, WorkType
<1>4. r.pc \in RequestPCs => i \in Ids /\ i[1] \in Mails /\ i[2] \in Channels /\ i = <<i[1], i[2]>>
  BY <1>1 DEF Equipped, Ids
<1>5. CASE ProviderDeletes(w)
  <2>1. work' = [work EXCEPT ![w].pc = "forget"] /\ i \in Ids
        /\ UNCHANGED <<row, policy, done, raced, obeyed, ops>>
    BY <1>4, <1>5 DEF ProviderDeletes, RequestPCs
  <2>2. marked' \subseteq Mails /\ \E S : inbox' = Removed(S)
    BY <1>5 DEF ProviderDeletes, GraphDeletes, ImapDeletes, StoreTypeInv
  <2>3. work' \in [Works -> WorkState] /\ \A v \in Works : Equipped(work'[v])
    BY <1>3, <2>1
  <2>4. inbox' \in [Mails -> {"unsent", "unread", "read", "gone"}]
    BY <2>2, RemovedType
  <2> QED BY <2>1, <2>2, <2>3, <2>4 DEF StoreTypeInv
<1>6. CASE ExpungeFails(w)
  BY <1>4, <1>6, StopType DEF ExpungeFails, StoreTypeInv, RequestPCs
<1>7. ASSUME Answered("delete", i) \/ Answered("read", i), i \in Ids PROVE raced' \subseteq Ids
  BY <1>7 DEF Answered, StoreTypeInv
<1>8. CASE ForgetRow(w)
  <2>1. i \in Ids /\ Answered("delete", i)
    BY <1>4, <1>8 DEF ForgetRow, RequestPCs
  <2>2. row' \in [Ids -> RowState \cup {None}]
    BY <1>8, <2>1 DEF ForgetRow, Forgotten, StoreTypeInv
  <2>3. raced' \subseteq Ids
    BY <1>7, <2>1
  <2> QED BY <1>8, <2>2, <2>3, StopType DEF ForgetRow, StoreTypeInv
<1>9. CASE ProviderMarks(w)
  <2>1. work' = [work EXCEPT ![w].pc = "show"] /\ i \in Ids
        /\ UNCHANGED <<marked, row, policy, done, raced, obeyed, ops>>
        /\ inbox' = [inbox EXCEPT ![i[1]] = "read"]
    BY <1>4, <1>9 DEF ProviderMarks, RequestPCs
  <2>2. work' \in [Works -> WorkState] /\ \A v \in Works : Equipped(work'[v])
    BY <1>3, <2>1
  <2> QED BY <2>1, <2>2 DEF StoreTypeInv
<1>10. CASE ShowRead(w)
  <2>1. i \in Ids /\ Answered("read", i)
    BY <1>4, <1>10 DEF ShowRead, RequestPCs
  <2>2. row' = row \/ (row[i] # None /\ row' = [row EXCEPT ![i].read = TRUE])
    BY <1>10 DEF ShowRead
  <2>3. row' \in [Ids -> RowState \cup {None}]
    <3>1. row[i] # None => [row[i] EXCEPT !.read = TRUE] \in RowState
      BY <2>1 DEF StoreTypeInv, RowState
    <3> QED BY <2>1, <2>2, <3>1 DEF StoreTypeInv
  <2>4. raced' \subseteq Ids
    BY <1>7, <2>1
  <2> QED BY <1>10, <2>3, <2>4, StopType DEF ShowRead, StoreTypeInv
<1>11. CASE Refuse(w)
  BY <1>11, StopType DEF Refuse, StoreTypeInv
<1> QED BY <1>2, <1>5, <1>6, <1>8, <1>9, <1>10, <1>11

LEMMA PruneType == ASSUME StoreTypeInv, NEW w \in Works, Prune(w) PROVE StoreTypeInv'
<1> DEFINE R == {i \in Kept : row[i].recent}
<1>1. PICK S \in Survivors(R, work[w].policy.max) :
        row' = [i \in Ids |-> IF i \in S THEN row[i] ELSE None]
  BY DEF Prune
<1>2. row' \in [Ids -> RowState \cup {None}]
  BY <1>1 DEF StoreTypeInv
<1>3. obeyed' \in BOOLEAN
  BY DEF Prune, StoreTypeInv, WorkState
<1> QED BY <1>2, <1>3, StopType DEF Prune, StoreTypeInv

\* The policy is written, and the syncs that have read the old one are told apart.
LEMMA WritePolicyType == ASSUME StoreTypeInv, NEW p \in Policy, WritePolicy(p) PROVE StoreTypeInv'
<1>1. ASSUME NEW w \in Works
      PROVE  work'[w] \in WorkState /\ Equipped(work'[w])
  <2>1. work[w] \in WorkState /\ Equipped(work[w])
    BY DEF StoreTypeInv
  <2>2. work'[w] = work[w] \/ work'[w] = [work[w] EXCEPT !.fresh = FALSE]
    BY DEF WritePolicy
  <2> QED BY <2>1, <2>2 DEF WorkState, Equipped
<1>2. work' \in [Works -> WorkState] /\ ops' \in 0..MaxOps
  BY <1>1, StoreAssumption DEF WritePolicy, StoreTypeInv
<1> QED BY <1>1, <1>2 DEF WritePolicy, StoreTypeInv

LEMMA StoreTypeStep == StoreTypeInv /\ [StoreNext]_storeVars => StoreTypeInv'
<1> SUFFICES ASSUME StoreTypeInv, [StoreNext]_storeVars PROVE StoreTypeInv'
  OBVIOUS
<1>1. ASSUME NEW m \in Mails, Receive(m) PROVE StoreTypeInv'
  BY <1>1 DEF Receive, StoreTypeInv
<1>2. ASSUME NEW i \in Ids, Age(i) PROVE StoreTypeInv'
  <2>1. [row[i] EXCEPT !.recent = FALSE] \in RowState
    BY <1>2 DEF Age, StoreTypeInv, RowState
  <2>2. row' \in [Ids -> RowState \cup {None}]
    BY <1>2, <2>1 DEF Age, StoreTypeInv
  <2> QED BY <1>2, <2>2 DEF Age, StoreTypeInv
<1>3. CASE Clear
  BY <1>3 DEF Clear, StoreTypeInv
<1>4. CASE UNCHANGED storeVars
  BY <1>4 DEF storeVars, StoreTypeInv
<1> QED BY <1>1, <1>2, <1>3, <1>4, SyncType, StoringType, RequestType, PruneType, WritePolicyType
         DEF StoreNext

-----------------------------------------------------------------------------
(* What is deleted and read                                                *)

\* What a sync has in hand, and what of it it is about to store.
Hands(r) == IF r.pc \in {"page", "fetch", "detail"} THEN r.page \cup r.todo ELSE {}
Listed(r) == IF r.pc \in {"page", "detail"} THEN r.page ELSE {}

\* A request that the provider has answered has been obeyed there.
Answers(r) ==
  /\ r.pc = "delete" => inbox[r.id[1]] # "unsent"
  /\ r.pc = "forget" => inbox[r.id[1]] = "gone"
  /\ r.pc = "show" => inbox[r.id[1]] \in {"read", "gone"}

\* No sync brings back what was deleted, or shows as unread what was read.
Copied(i) ==
  /\ <<"delete", i>> \in done => inbox[i[1]] = "gone"
  /\ <<"read", i>> \in done => inbox[i[1]] \in {"read", "gone"}
  /\ i \notin raced /\ <<"delete", i>> \in done =>
       row[i] = None /\ \A w \in Works : i[1] \notin Hands(work[w])
  /\ i \notin raced /\ <<"read", i>> \in done =>
       /\ row[i] # None => row[i].read
       /\ \A w \in Works : i[1] \in Listed(work[w]) => i[1] \in work[w].read

CopyInv == (\A w \in Works : Answers(work[w])) /\ \A i \in Ids : Copied(i)

LEMMA CopyInit == StoreInit => CopyInv
BY DEF StoreInit, CopyInv, Copied, Answers, Free

\* Messages go and are read for good.
MailMoves ==
  \A m \in Mails :
    /\ inbox[m] # "unsent" => inbox'[m] # "unsent"
    /\ inbox[m] = "gone" => inbox'[m] = "gone"
    /\ inbox[m] \in {"read", "gone"} => inbox'[m] \in {"read", "gone"}

\* A row stays, or goes, or is stored by a sync.
RowMoves(i) ==
  row'[i] # None =>
    \/ row[i] # None /\ (row[i].read => row'[i].read)
    \/ \E w \in Works : i[1] \in Listed(work[w]) /\ (i[1] \in work[w].read => row'[i].read)

\* A sync takes nothing in hand but what is there, and as it is there.
WorkMoves(w) ==
  /\ \A m \in Hands(work'[w]) : m \in Hands(work[w]) \/ inbox[m] # "gone"
  /\ \A m \in Listed(work'[w]) :
       \/ m \in Listed(work[w]) /\ (m \in work[w].read => m \in work'[w].read)
       \/ inbox[m] # "gone" /\ (inbox[m] = "read" => m \in work'[w].read)

LEMMA CopiedStep ==
  ASSUME CopyInv, MailMoves, UNCHANGED <<done, raced>>, NEW i \in Ids, RowMoves(i),
         \A w \in Works : WorkMoves(w)
  PROVE  Copied(i)'
<1>1. Copied(i) /\ i[1] \in Mails
  BY DEF CopyInv, Ids
<1>2. <<"delete", i>> \in done => inbox'[i[1]] = "gone"
  BY <1>1 DEF Copied, MailMoves
<1>3. <<"read", i>> \in done => inbox'[i[1]] \in {"read", "gone"}
  BY <1>1 DEF Copied, MailMoves
<1>4. ASSUME i \notin raced, <<"delete", i>> \in done
      PROVE  row'[i] = None /\ \A w \in Works : i[1] \notin Hands(work'[w])
  <2>1. row[i] = None /\ (\A w \in Works : i[1] \notin Hands(work[w])) /\ inbox[i[1]] = "gone"
    BY <1>1, <1>4 DEF Copied
  <2>2. \A w \in Works : i[1] \notin Listed(work[w])
    BY <2>1 DEF Hands, Listed
  <2> QED BY <2>1, <2>2 DEF RowMoves, WorkMoves
<1>5. ASSUME i \notin raced, <<"read", i>> \in done
      PROVE  /\ row'[i] # None => row'[i].read
             /\ \A w \in Works : i[1] \in Listed(work'[w]) => i[1] \in work'[w].read
  <2>1. /\ row[i] # None => row[i].read
        /\ \A w \in Works : i[1] \in Listed(work[w]) => i[1] \in work[w].read
        /\ inbox[i[1]] \in {"read", "gone"}
    BY <1>1, <1>5 DEF Copied
  <2> QED BY <2>1 DEF RowMoves, WorkMoves
<1> QED BY <1>2, <1>3, <1>4, <1>5 DEF Copied

LEMMA AnswersStep ==
  ASSUME StoreTypeInv, CopyInv, MailMoves, NEW w \in Works,
         work'[w].pc \notin RequestPCs \/ work'[w] = work[w]
  PROVE  Answers(work[w])'
<1>1. work[w].pc \in RequestPCs => work[w].id[1] \in Mails
  BY DEF StoreTypeInv, Equipped, Ids
<1> QED BY <1>1 DEF CopyInv, Answers, MailMoves, RequestPCs

\* Everything else stays when a sync or a request goes on.
LEMMA OthersMove ==
  ASSUME StoreTypeInv, NEW w \in Works, NEW new, work' = [work EXCEPT ![w] = new]
  PROVE  /\ work'[w] = new
         /\ \A v \in Works \ {w} : work'[v] = work[v] /\ WorkMoves(v)
BY DEF StoreTypeInv, WorkMoves

\* Nobody has anything in hand after a sync or a request has ended.
LEMMA StopMoves ==
  ASSUME StoreTypeInv, NEW w \in Works, work' = Stop(w)
  PROVE  /\ work'[w] = Free /\ \A v \in Works \ {w} : work'[v] = work[v]
         /\ \A v \in Works : WorkMoves(v)
<1>1. work' = [work EXCEPT ![w] = Free]
  BY DEF Stop
<1>2. Hands(Free) = {} /\ Listed(Free) = {}
  BY DEF Hands, Listed, Free
<1> QED BY <1>1, <1>2, OthersMove DEF WorkMoves

LEMMA QuietStep ==
  ASSUME StoreTypeInv, CopyInv, MailMoves, UNCHANGED <<done, raced>>,
         \A i \in Ids : RowMoves(i), \A w \in Works : WorkMoves(w),
         \A w \in Works : work'[w].pc \notin RequestPCs \/ work'[w] = work[w] \/ Answers(work[w])'
  PROVE  CopyInv'
<1>1. \A w \in Works : Answers(work[w])'
  BY AnswersStep
<1>2. \A i \in Ids : Copied(i)'
  BY CopiedStep
<1> QED BY <1>1, <1>2 DEF CopyInv

LEMMA RowsStay == row' = row => \A i \in Ids : RowMoves(i)
BY DEF RowMoves

LEMMA MailStays == inbox' = inbox => MailMoves
BY DEF MailMoves

LEMMA SyncCopies ==
  ASSUME StoreTypeInv, CopyInv, NEW w \in Works,
         \/ StartSync(w) \/ SyncFails(w) \/ Prune(w)
         \/ \E c \in Channels : List(w, c)
         \/ \E m \in Mails : Fetch(w, m)
  PROVE  CopyInv'
<1> DEFINE r == work[w]
<1>1. r \in WorkState /\ Equipped(r)
  BY DEF StoreTypeInv
<1>2. MailMoves /\ UNCHANGED <<done, raced>>
  BY MailStays DEF StartSync, SyncFails, Prune, List, Fetch
<1>3. \A i \in Ids : RowMoves(i)
  <2>1. CASE Prune(w)
    <3>1. \A i \in Ids : row'[i] \in {row[i], None}
      BY <2>1 DEF Prune
    <3> QED BY <3>1 DEF RowMoves
  <2>2. CASE ~Prune(w)
    BY <2>2, RowsStay DEF StartSync, SyncFails, List, Fetch
  <2> QED BY <2>1, <2>2
<1>4. CASE SyncFails(w) \/ Prune(w)
  <2>1. work' = Stop(w)
    BY <1>4 DEF SyncFails, Prune
  <2> QED BY <1>2, <1>3, <2>1, StopMoves, QuietStep DEF Free, RequestPCs
<1>5. CASE StartSync(w)
  <2> DEFINE new == [Free EXCEPT !.pc = "list", !.policy = policy]
  <2>1. work' = [work EXCEPT ![w] = new]
    BY <1>5 DEF StartSync, Begin
  <2>2. new.pc = "list"
    BY DEF Free
  <2> HIDE DEF new
  <2>3. Hands(new) = {} /\ Listed(new) = {}
    BY <2>2 DEF Hands, Listed
  <2>4. \A v \in Works : WorkMoves(v) /\ (work'[v].pc \notin RequestPCs \/ work'[v] = work[v])
    BY <2>1, <2>2, <2>3, OthersMove DEF WorkMoves, RequestPCs
  <2> QED BY <1>2, <1>3, <2>4, QuietStep
<1>6. ASSUME NEW c \in Channels, List(w, c) PROVE CopyInv'
  <2>1. PICK page \in Newest(r.policy.max) :
          work' = [work EXCEPT ![w].pc = "page", ![w].channel = c, ![w].page = page,
                               ![w].read = {m \in Present : inbox[m] = "read"}]
    BY <1>6, Zenon DEF List
  <2> DEFINE read == {m \in Present : inbox[m] = "read"}
             new == [r EXCEPT !.pc = "page", !.channel = c, !.page = page, !.read = read]
  <2>2. page \subseteq Present /\ r.todo = {}
    BY <1>1, <1>6 DEF Newest, Top, List, Equipped
  <2>3. work' = [work EXCEPT ![w] = new]
    BY <2>1 DEF StoreTypeInv
  <2>4. new.pc = "page" /\ new.page = page /\ new.todo = {} /\ new.read = read
    BY <1>1, <2>2 DEF WorkState
  <2> HIDE DEF new
  <2>5. \A m \in Hands(new) : inbox[m] # "gone" /\ (inbox[m] = "read" => m \in new.read)
    BY <2>2, <2>4 DEF Hands, Present
  <2>6. \A m \in Listed(new) : inbox[m] # "gone" /\ (inbox[m] = "read" => m \in new.read)
    BY <2>4, <2>5 DEF Hands, Listed
  <2>7. \A v \in Works : WorkMoves(v) /\ (work'[v].pc \notin RequestPCs \/ work'[v] = work[v])
    BY <2>3, <2>4, <2>5, <2>6, OthersMove DEF WorkMoves, RequestPCs
  <2> QED BY <1>2, <1>3, <2>7, QuietStep
<1>7. ASSUME NEW m \in Mails, Fetch(w, m) PROVE CopyInv'
  <2> DEFINE read == IF inbox[m] = "read" THEN {m} ELSE {}
             new == [r EXCEPT !.pc = "detail", !.page = {m}, !.todo = @ \ {m}, !.read = read]
  <2>1. /\ work' = [work EXCEPT ![w].pc = "detail", ![w].page = {m}, ![w].todo = @ \ {m},
                                ![w].read = IF inbox[m] = "read" THEN {m} ELSE {}]
        /\ r.pc = "fetch" /\ m \in r.todo /\ m \in Present
    BY <1>7 DEF Fetch
  <2>2. work' = [work EXCEPT ![w] = new]
    BY <2>1 DEF StoreTypeInv
  <2>3. new.pc = "detail" /\ new.page = {m} /\ new.todo = r.todo \ {m} /\ new.read = read
    BY <1>1 DEF WorkState
  <2> HIDE DEF new
  <2>4. Hands(new) \subseteq Hands(r) /\ Listed(new) = {m} /\ inbox[m] # "gone"
        /\ (inbox[m] = "read" => m \in new.read)
    BY <2>1, <2>3 DEF Hands, Listed, Present
  <2>5. \A v \in Works : WorkMoves(v) /\ (work'[v].pc \notin RequestPCs \/ work'[v] = work[v])
    BY <2>2, <2>3, <2>4, OthersMove DEF WorkMoves, RequestPCs
  <2> QED BY <1>2, <1>3, <2>5, QuietStep
<1> QED BY <1>4, <1>5, <1>6, <1>7

LEMMA StoringCopies ==
  ASSUME StoreTypeInv, CopyInv, NEW w \in Works, StorePage(w) \/ StoreDetail(w)
  PROVE  CopyInv'
<1> DEFINE r == work[w]
<1>1. MailMoves /\ UNCHANGED <<done, raced>>
  BY MailStays DEF StorePage, StoreDetail
<1>2. PICK left : StoredOn(r, left) /\ work' = [work EXCEPT ![w] = left]
  BY StorePageWork, StoreDetailWork
<1>3. /\ left.pc \in {"prune", "fetch"} /\ left.page = {} /\ left.todo \subseteq r.page \cup r.todo
      /\ r.pc \in {"page", "detail"}
  BY <1>2 DEF StoredOn, StorePage, StoreDetail
<1>4. Hands(left) \subseteq Hands(r) /\ Listed(left) = {}
  BY <1>3 DEF Hands, Listed
<1>5. \A v \in Works : WorkMoves(v) /\ (work'[v].pc \notin RequestPCs \/ work'[v] = work[v])
  BY <1>2, <1>3, <1>4, OthersMove DEF WorkMoves, RequestPCs
<1>6. PICK body \in BOOLEAN : row' = Stored(r, body)
  BY DEF StorePage, StoreDetail
<1>7. ASSUME NEW i \in Ids PROVE RowMoves(i)
  <2>1. CASE i[2] = r.channel /\ i[1] \in r.page
    <3> DEFINE kept == body \/ (row[i] # None /\ row[i].body)
               read == i[1] \in r.read
    <3>1. row'[i] = [read |-> read, recent |-> TRUE, body |-> kept]
      BY <1>6, <2>1, Zenon DEF Stored
    <3> HIDE DEF kept, read
    <3>2. row'[i].read = read
      BY <3>1
    <3>3. i[1] \in Listed(r)
      BY <1>3, <2>1 DEF Listed
    <3> QED BY <3>2, <3>3 DEF RowMoves, read
  <2>2. CASE ~(i[2] = r.channel /\ i[1] \in r.page)
    BY <1>6, <2>2 DEF Stored, RowMoves
  <2> QED BY <2>1, <2>2
<1> QED BY <1>1, <1>5, <1>7, QuietStep

\* A deletion or a read mark that is answered with success.
LEMMA AnsweredStep ==
  ASSUME StoreTypeInv, CopyInv, NEW w \in Works, work' = Stop(w), inbox' = inbox,
         NEW op \in {"delete", "read"}, NEW k \in Ids, Answered(op, k),
         \A i \in Ids : RowMoves(i),
         op = "delete" => inbox[k[1]] = "gone" /\ row'[k] = None,
         op = "read" => inbox[k[1]] \in {"read", "gone"} /\ (row'[k] # None => row'[k].read)
  PROVE  CopyInv'
<1>1. /\ work'[w] = Free /\ \A v \in Works \ {w} : work'[v] = work[v]
      /\ \A v \in Works : WorkMoves(v)
  BY StopMoves
<1>2. \A v \in Works : Answers(work[v])'
  BY <1>1, AnswersStep, MailStays DEF Free, RequestPCs
<1>3. done' = done \cup {<<op, k>>} /\ raced \subseteq raced' /\ raced' \subseteq raced \cup {k}
  BY DEF Answered
<1>4. k \notin raced' => \A v \in Works : k[1] \notin Hands(work[v])
  BY DEF Answered, InFlight, Hands
<1>5. ASSUME NEW i \in Ids PROVE Copied(i)'
  <2>1. Copied(i) /\ RowMoves(i)
    BY DEF CopyInv
  <2>2. \A v \in Works : Listed(work[v]) \subseteq Hands(work[v])
    BY DEF Listed, Hands
  <2>3. <<"delete", i>> \in done' => <<"delete", i>> \in done \/ (op = "delete" /\ i = k)
    BY <1>3
  <2>4. <<"read", i>> \in done' => <<"read", i>> \in done \/ (op = "read" /\ i = k)
    BY <1>3
  <2>5. ASSUME i \notin raced', <<"delete", i>> \in done'
        PROVE  row'[i] = None /\ \A v \in Works : i[1] \notin Hands(work'[v])
    <3>1. i \notin raced
      BY <1>3, <2>5
    <3>2. \A v \in Works : i[1] \notin Hands(work[v])
      BY <1>4, <2>1, <2>3, <2>5, <3>1 DEF Copied
    <3>3. inbox[i[1]] = "gone"
      BY <2>1, <2>3, <2>5 DEF Copied
    <3>4. row[i] = None \/ row'[i] = None
      BY <2>1, <2>3, <2>5, <3>1 DEF Copied
    <3> QED BY <1>1, <2>1, <2>2, <3>2, <3>3, <3>4 DEF RowMoves, WorkMoves
  <2>6. ASSUME i \notin raced', <<"read", i>> \in done'
        PROVE  /\ row'[i] # None => row'[i].read
               /\ \A v \in Works : i[1] \in Listed(work'[v]) => i[1] \in work'[v].read
    <3>1. i \notin raced
      BY <1>3, <2>6
    <3>2. \A v \in Works : i[1] \in Listed(work[v]) => i[1] \in work[v].read
      BY <1>4, <2>1, <2>2, <2>4, <2>6, <3>1 DEF Copied
    <3>3. inbox[i[1]] \in {"read", "gone"}
      BY <2>1, <2>4, <2>6 DEF Copied
    <3>4. CASE <<"read", i>> \in done
      <4>1. row[i] # None => row[i].read
        BY <2>1, <3>1, <3>4 DEF Copied
      <4> QED BY <1>1, <2>1, <3>2, <3>3, <4>1 DEF RowMoves, WorkMoves
    <3>5. CASE op = "read" /\ i = k
      BY <1>1, <3>2, <3>3, <3>5 DEF WorkMoves
    <3> QED BY <2>4, <2>6, <3>4, <3>5
  <2> QED BY <2>1, <2>3, <2>4, <2>5, <2>6 DEF Copied
<1> QED BY <1>2, <1>5 DEF CopyInv

LEMMA RequestCopies ==
  ASSUME StoreTypeInv, CopyInv, NEW w \in Works,
         \/ \E i \in Ids : StartDelete(w, i) \/ StartMark(w, i)
         \/ ProviderDeletes(w) \/ ExpungeFails(w) \/ ForgetRow(w)
         \/ ProviderMarks(w) \/ ShowRead(w) \/ Refuse(w)
  PROVE  CopyInv'
<1> DEFINE r == work[w]
           k == r.id
<1>1. r \in WorkState /\ Equipped(r) /\ Answers(r)
  BY DEF StoreTypeInv, CopyInv
<1>2. r.pc \in RequestPCs => k \in Ids /\ k[1] \in Mails
  BY <1>1 DEF Equipped, Ids
<1>3. ASSUME NEW pc \in RequestPCs, NEW id \in Ids, NEW new,
             new.pc = pc, new.id = id, work' = [work EXCEPT ![w] = new], MailMoves,
             UNCHANGED <<row, done, raced>>,
             pc = "delete" => inbox'[id[1]] # "unsent",
             pc = "forget" => inbox'[id[1]] = "gone",
             pc = "show" => inbox'[id[1]] \in {"read", "gone"}
      PROVE  CopyInv'
  <2>1. Hands(new) = {} /\ Listed(new) = {}
    BY <1>3 DEF Hands, Listed, RequestPCs
  <2>2. work'[w] = new /\ \A v \in Works \ {w} : work'[v] = work[v] /\ WorkMoves(v)
    BY <1>3, OthersMove
  <2>3. Answers(work[w])' /\ WorkMoves(w)
    BY <1>3, <2>1, <2>2 DEF Answers, WorkMoves
  <2> QED BY <1>3, <2>2, <2>3, RowsStay, QuietStep
<1>4. ASSUME NEW i \in Ids, StartDelete(w, i) \/ StartMark(w, i) PROVE CopyInv'
  <2>1. PICK pc \in {"delete", "mark"} :
          /\ work' = [work EXCEPT ![w] = [Free EXCEPT !.pc = pc, !.id = i]]
          /\ pc = "delete" => inbox[i[1]] # "unsent"
    BY <1>4 DEF StartDelete, StartMark, Begin
  <2> DEFINE new == [Free EXCEPT !.pc = pc, !.id = i]
  <2>2. new.pc = pc /\ new.id = i /\ work' = [work EXCEPT ![w] = new]
    BY <2>1 DEF Free
  <2> HIDE DEF new
  <2>3. MailMoves /\ UNCHANGED <<inbox, row, done, raced>>
    BY <1>4, MailStays DEF StartDelete, StartMark
  <2> QED BY <1>3, <2>1, <2>2, <2>3 DEF RequestPCs
<1>5. CASE ProviderDeletes(w)
  <2>1. /\ r.pc = "delete" /\ k \in Ids /\ k[1] \in Mails /\ UNCHANGED <<row, done, raced>>
        /\ work' = [work EXCEPT ![w].pc = "forget"]
    BY <1>2, <1>5 DEF ProviderDeletes, RequestPCs
  <2>2. PICK S : inbox' = Removed(S) /\ (k[1] \in Present => k[1] \in S)
    BY <1>5 DEF ProviderDeletes, GraphDeletes, ImapDeletes
  <2>3. MailMoves
    BY <2>2, RemovedType DEF MailMoves
  <2>4. inbox'[k[1]] = "gone"
    BY <1>1, <2>1, <2>2, RemovedType DEF Answers, Present
  <2> DEFINE new == [r EXCEPT !.pc = "forget"]
  <2>5. new.pc = "forget" /\ new.id = k /\ work' = [work EXCEPT ![w] = new]
    BY <1>1, <2>1 DEF WorkState, StoreTypeInv
  <2> HIDE DEF new
  <2> QED BY <1>3, <2>1, <2>3, <2>4, <2>5 DEF RequestPCs
<1>6. CASE ProviderMarks(w)
  <2>1. /\ r.pc = "mark" /\ k \in Ids /\ k[1] \in Mails /\ UNCHANGED <<row, done, raced>>
        /\ work' = [work EXCEPT ![w].pc = "show"] /\ inbox' = [inbox EXCEPT ![k[1]] = "read"]
        /\ k[1] \in Present
    BY <1>2, <1>6 DEF ProviderMarks, RequestPCs
  <2>2. MailMoves /\ inbox'[k[1]] = "read"
    BY <2>1 DEF MailMoves, StoreTypeInv, Present
  <2> DEFINE new == [r EXCEPT !.pc = "show"]
  <2>3. new.pc = "show" /\ new.id = k /\ work' = [work EXCEPT ![w] = new]
    BY <1>1, <2>1 DEF WorkState, StoreTypeInv
  <2> HIDE DEF new
  <2> QED BY <1>3, <2>1, <2>2, <2>3 DEF RequestPCs
<1>7. CASE ExpungeFails(w) \/ Refuse(w)
  <2>1. work' = Stop(w) /\ UNCHANGED <<inbox, row, done, raced>>
    BY <1>7 DEF ExpungeFails, Refuse
  <2> QED BY <2>1, MailStays, RowsStay, StopMoves, QuietStep DEF Free, RequestPCs
<1>8. CASE ForgetRow(w)
  <2>1. /\ r.pc = "forget" /\ k \in Ids /\ row' = [row EXCEPT ![k] = None]
        /\ Answered("delete", k) /\ work' = Stop(w) /\ inbox' = inbox
    BY <1>2, <1>8 DEF ForgetRow, Forgotten, RequestPCs
  <2>2. row'[k] = None /\ \A i \in Ids : row'[i] \in {row[i], None}
    BY <2>1 DEF StoreTypeInv
  <2>3. inbox[k[1]] = "gone" /\ \A i \in Ids : RowMoves(i)
    BY <1>1, <2>1, <2>2 DEF Answers, RowMoves
  <2> QED BY <2>1, <2>2, <2>3, AnsweredStep
<1>9. CASE ShowRead(w)
  <2>1. /\ r.pc = "show" /\ k \in Ids
        /\ row' = IF row[k] = None THEN row ELSE [row EXCEPT ![k].read = TRUE]
        /\ Answered("read", k) /\ work' = Stop(w) /\ inbox' = inbox
    BY <1>2, <1>9 DEF ShowRead, RequestPCs
  <2>2. row'[k] # None => row'[k].read
    BY <2>1 DEF StoreTypeInv, RowState
  <2>3. \A i \in Ids \ {k} : row'[i] = row[i]
    BY <2>1 DEF StoreTypeInv
  <2>4. row'[k] # None => row[k] # None
    BY <2>1
  <2>5. inbox[k[1]] \in {"read", "gone"} /\ \A i \in Ids : RowMoves(i)
    BY <1>1, <2>1, <2>2, <2>3, <2>4 DEF Answers, RowMoves
  <2> QED BY <2>1, <2>2, <2>5, AnsweredStep
<1> QED BY <1>4, <1>5, <1>6, <1>7, <1>8, <1>9

LEMMA CopyStep == StoreTypeInv /\ CopyInv /\ [StoreNext]_storeVars => CopyInv'
<1> SUFFICES ASSUME StoreTypeInv, CopyInv, [StoreNext]_storeVars PROVE CopyInv'
  OBVIOUS
<1>1. ASSUME NEW m \in Mails, Receive(m) PROVE CopyInv'
  <2>1. MailMoves /\ UNCHANGED <<row, work, done, raced>>
    BY <1>1 DEF Receive, MailMoves, StoreTypeInv
  <2>2. \A w \in Works : WorkMoves(w)
    BY <2>1 DEF WorkMoves
  <2> QED BY <2>1, <2>2, RowsStay, QuietStep
<1>2. ASSUME NEW p \in Policy, WritePolicy(p) PROVE CopyInv'
  <2>1. UNCHANGED <<inbox, row, done, raced>>
    BY <1>2 DEF WritePolicy
  <2>2. ASSUME NEW w \in Works PROVE WorkMoves(w) /\ Answers(work[w])'
    <3>1. work[w] \in WorkState /\ Answers(work[w])
      BY DEF StoreTypeInv, CopyInv
    <3>2. work'[w] = work[w] \/ work'[w] = [work[w] EXCEPT !.fresh = FALSE]
      BY <1>2 DEF WritePolicy
    <3>3. /\ work'[w].pc = work[w].pc /\ work'[w].page = work[w].page
          /\ work'[w].todo = work[w].todo /\ work'[w].read = work[w].read
          /\ work'[w].id = work[w].id
      BY <3>1, <3>2 DEF WorkState
    <3> QED BY <2>1, <3>1, <3>3 DEF WorkMoves, Hands, Listed, Answers
  <2> QED BY <2>1, <2>2, MailStays, RowsStay, QuietStep
<1>3. CASE (\E i \in Ids : Age(i)) \/ Clear \/ UNCHANGED storeVars
  <2>1. UNCHANGED <<inbox, work, done, raced>>
    BY <1>3 DEF Age, Clear, storeVars
  <2>2. ASSUME NEW i \in Ids PROVE RowMoves(i)
    <3>1. row'[i] # None => /\ row[i] # None
                            /\ row'[i] \in {row[i], [row[i] EXCEPT !.recent = FALSE]}
      BY <1>3 DEF Age, Clear, storeVars, StoreTypeInv
    <3>2. row[i] # None => row[i] \in RowState
      BY DEF StoreTypeInv
    <3> QED BY <3>1, <3>2 DEF RowMoves, RowState
  <2>3. \A w \in Works : WorkMoves(w)
    BY <2>1 DEF WorkMoves
  <2> QED BY <2>1, <2>2, <2>3, MailStays, QuietStep
<1> QED BY <1>1, <1>2, <1>3, SyncCopies, StoringCopies, RequestCopies DEF StoreNext

\* Rows, messages, syncs and requests keep their types.
THEOREM StoreTypes == StoreSpec => []StoreTypeOK
<1>1. StoreTypeInv => StoreTypeOK
  BY DEF StoreTypeInv, StoreTypeOK, WorkState
<1> QED BY <1>1, StoreTypeInit, StoreTypeStep, PTL DEF StoreSpec

\* What delete_mail deleted has no copy here any more, and what mark_mail_read marked is not
\* shown as unread, unless a sync had it in its hands at the time.
THEOREM CopiesFollow == StoreSpec => []LocalCopyFollows
<1> DEFINE Inv == StoreTypeInv /\ CopyInv
<1>1. StoreInit => Inv
  BY StoreTypeInit, CopyInit
<1>2. Inv /\ [StoreNext]_storeVars => Inv'
  BY StoreTypeStep, CopyStep
<1>3. Inv => LocalCopyFollows
  BY DEF CopyInv, Copied, LocalCopyFollows
<1> HIDE DEF Inv
<1> QED BY <1>1, <1>2, <1>3, PTL DEF StoreSpec

-----------------------------------------------------------------------------
(* What a policy retains                                                   *)

\* A sync that is fresh works by the policy that is there.
FreshInv == \A w \in Works : work[w].pc \in SyncPCs /\ work[w].fresh => work[w].policy = policy

PolicyInv == FreshInv /\ (obeyed => policy \in Policy) /\ PolicyObeyed

LEMMA KeptFinite == IsFiniteSet(Ids) /\ IsFiniteSet(Kept) /\ Cardinality(Kept) \in Nat
<1>1. IsFiniteSet(Channels)
  <2>1. IsFiniteSet({"graph"}) /\ IsFiniteSet({"imap"})
    BY FS_Singleton
  <2>2. Channels = {"graph"} \cup {"imap"}
    BY DEF Channels
  <2> QED BY <2>1, <2>2, FS_Union
<1>2. IsFiniteSet(Ids)
  BY <1>1, StoreAssumption, FS_Product DEF Ids
<1> QED BY <1>2, FS_Subset, FS_CardinalityType DEF Kept

LEMMA PolicyInit == StoreInit => PolicyInv
BY DEF StoreInit, PolicyInv, FreshInv, PolicyObeyed, Free, SyncPCs

\* Nothing is stored and the policy stays.
LEMMA RetainedStep ==
  ASSUME StoreTypeInv, PolicyInv, FreshInv', policy' = policy, Kept' \subseteq Kept,
         obeyed' => obeyed
  PROVE  PolicyInv'
<1>1. Cardinality(Kept') <= Cardinality(Kept) /\ Cardinality(Kept') \in Nat
  BY KeptFinite, FS_Subset, FS_CardinalityType
<1>2. ASSUME obeyed' PROVE policy' \in Policy /\ Cardinality(Kept') <= policy'.max
  <2>1. policy \in Policy /\ Cardinality(Kept) <= policy.max /\ policy.max \in Nat
    BY <1>2, StoreAssumption DEF PolicyInv, PolicyObeyed, Policy
  <2> QED BY <1>1, <2>1, KeptFinite
<1> QED BY <1>2 DEF PolicyInv, PolicyObeyed

LEMMA FreshStep ==
  ASSUME StoreTypeInv, PolicyInv, policy' = policy, NEW w \in Works, NEW new,
         work' = [work EXCEPT ![w] = new],
         \/ new.pc \notin SyncPCs
         \/ work[w].pc \in SyncPCs /\ new.policy = work[w].policy /\ new.fresh = work[w].fresh
         \/ new.policy = policy
  PROVE  FreshInv'
<1>1. work'[w] = new /\ \A v \in Works \ {w} : work'[v] = work[v]
  BY DEF StoreTypeInv
<1> QED BY <1>1 DEF PolicyInv, FreshInv

LEMMA StopFresh ==
  ASSUME StoreTypeInv, PolicyInv, policy' = policy, NEW w \in Works, work' = Stop(w)
  PROVE  FreshInv'
<1>1. work' = [work EXCEPT ![w] = Free] /\ Free.pc \notin SyncPCs
  BY DEF Stop, Free, SyncPCs
<1> QED BY <1>1, FreshStep

\* The prune leaves as many rows as the policy allows, if nobody has written it since.
LEMMA PrunePolicy == ASSUME StoreTypeInv, PolicyInv, NEW w \in Works, Prune(w) PROVE PolicyInv'
<1> DEFINE r == work[w]
           R == {i \in Kept : row[i].recent}
           n == r.policy.max
<1>1. PICK S \in Survivors(R, n) : row' = [i \in Ids |-> IF i \in S THEN row[i] ELSE None]
  BY DEF Prune
<1>2. /\ r.pc = "prune" /\ policy' = policy /\ obeyed' = r.fresh /\ work' = Stop(w)
      /\ r.policy \in Policy
  BY DEF Prune, StoreTypeInv, Equipped, SyncPCs
<1>3. n \in Nat
  BY <1>2, StoreAssumption DEF Policy
<1>4. IsFiniteSet(R) /\ Cardinality(R) \in Nat
  BY KeptFinite, FS_Subset, FS_CardinalityType
<1> HIDE DEF R, n
<1>5. S \subseteq R /\ Cardinality(S) <= n
  BY <1>3, <1>4 DEF Survivors, Top
<1>6. Kept' \subseteq S
  BY <1>1 DEF Kept
<1>7. Cardinality(Kept') <= n
  <2>1. IsFiniteSet(S) /\ Cardinality(S) \in Nat
    BY <1>4, <1>5, FS_Subset, FS_CardinalityType
  <2>2. Cardinality(Kept') <= Cardinality(S) /\ Cardinality(Kept') \in Nat
    BY <1>6, <2>1, FS_Subset, FS_CardinalityType
  <2> QED BY <1>3, <1>5, <2>1, <2>2
<1>8. r.fresh => r.policy = policy
  BY <1>2 DEF PolicyInv, FreshInv, SyncPCs
<1>9. FreshInv'
  BY <1>2, StopFresh
<1> QED BY <1>2, <1>7, <1>8, <1>9 DEF PolicyInv, PolicyObeyed, n

LEMMA PolicyStep == StoreTypeInv /\ PolicyInv /\ [StoreNext]_storeVars => PolicyInv'
<1> SUFFICES ASSUME StoreTypeInv, PolicyInv, [StoreNext]_storeVars PROVE PolicyInv'
  OBVIOUS
<1>1. ASSUME NEW p \in Policy, WritePolicy(p) PROVE PolicyInv'
  <2>1. ASSUME NEW w \in Works PROVE work'[w].pc \in SyncPCs => ~work'[w].fresh
    <3>1. work[w] \in WorkState
      BY DEF StoreTypeInv
    <3>2. work'[w] = Free \/ work'[w] = [work[w] EXCEPT !.fresh = FALSE]
      BY <1>1 DEF WritePolicy
    <3>3. CASE work'[w] = Free
      BY <3>3 DEF Free, SyncPCs
    <3>4. CASE work'[w] = [work[w] EXCEPT !.fresh = FALSE]
      BY <3>1, <3>4 DEF WorkState
    <3> QED BY <3>2, <3>3, <3>4
  <2> QED BY <1>1, <2>1 DEF WritePolicy, PolicyInv, FreshInv, PolicyObeyed
<1>2. ASSUME NEW w \in Works, StartSync(w) PROVE PolicyInv'
  <2> DEFINE new == [Free EXCEPT !.pc = "list", !.policy = policy]
  <2>1. work' = [work EXCEPT ![w] = new] /\ UNCHANGED <<row, policy, obeyed>>
    BY <1>2 DEF StartSync, Begin
  <2>2. new.policy = policy
    BY DEF Free
  <2> HIDE DEF new
  <2> QED BY <2>1, <2>2, FreshStep, RetainedStep DEF Kept
<1>3. ASSUME NEW w \in Works,
             \/ \E c \in Channels : List(w, c)
             \/ \E m \in Mails : Fetch(w, m)
      PROVE  PolicyInv'
  <2> DEFINE r == work[w]
             new == work'[w]
  <2>1. StoreTypeInv' /\ r \in WorkState /\ r.pc \in SyncPCs /\ UNCHANGED <<row, policy, obeyed>>
    BY <1>3, SyncType DEF List, Fetch, StoreTypeInv, SyncPCs
  <2>2. /\ new.policy = r.policy /\ new.fresh = r.fresh
        /\ \A v \in Works \ {w} : work'[v] = work[v]
    <3>1. ASSUME NEW c \in Channels, List(w, c)
          PROVE  work'[w].policy = r.policy /\ work'[w].fresh = r.fresh
                                                      /\ \A v \in Works \ {w} : work'[v] = work[v]
      <4> DEFINE seen == {m \in Present : inbox[m] = "read"}
      <4>1. PICK page \in Newest(r.policy.max) :
              work' = [work EXCEPT ![w].pc = "page", ![w].channel = c, ![w].page = page,
                                   ![w].read = seen]
        BY <3>1, Zenon DEF List
      <4> HIDE DEF seen
      <4>2. work' = [work EXCEPT ![w] = [r EXCEPT !.pc = "page", !.channel = c, !.page = page,
                                                  !.read = seen]]
        BY <4>1 DEF StoreTypeInv
      <4> QED BY <2>1, <4>2 DEF StoreTypeInv, WorkState
    <3>2. ASSUME NEW m \in Mails, Fetch(w, m)
          PROVE  work'[w].policy = r.policy /\ work'[w].fresh = r.fresh
                                                    /\ \A v \in Works \ {w} : work'[v] = work[v]
      <4> DEFINE seen == IF inbox[m] = "read" THEN {m} ELSE {}
      <4>1. work' = [work EXCEPT ![w].pc = "detail", ![w].page = {m}, ![w].todo = @ \ {m},
                                 ![w].read = seen]
        BY <3>2 DEF Fetch
      <4> HIDE DEF seen
      <4>2. work' = [work EXCEPT ![w] = [r EXCEPT !.pc = "detail", !.page = {m}, !.todo = @ \ {m},
                                                  !.read = seen]]
        BY <4>1 DEF StoreTypeInv
      <4> QED BY <2>1, <4>2 DEF StoreTypeInv, WorkState
    <3> QED BY <1>3, <3>1, <3>2
  <2>3. FreshInv'
    BY <2>1, <2>2 DEF PolicyInv, FreshInv
  <2> QED BY <2>1, <2>3, RetainedStep DEF Kept
<1>4. ASSUME NEW w \in Works, StorePage(w) \/ StoreDetail(w) PROVE PolicyInv'
  <2> DEFINE r == work[w]
  <2>1. PICK left : StoredOn(r, left) /\ work' = [work EXCEPT ![w] = left]
    BY <1>4, StorePageWork, StoreDetailWork
  <2>2. policy' = policy /\ r.pc \in SyncPCs
    BY <1>4 DEF StorePage, StoreDetail, SyncPCs
  <2>3. FreshInv'
    BY <2>1, <2>2, FreshStep DEF StoredOn
  <2>4. obeyed' => obeyed /\ row' = row
    <3>1. CASE StorePage(w)
      <4>1. row' = Stored(r, FALSE) /\ obeyed' = (obeyed /\ r.page = {})
        BY <3>1, Zenon DEF StorePage
      <4>2. r.page = {} => row' = row
        BY <4>1 DEF Stored, StoreTypeInv
      <4> QED BY <4>1, <4>2
    <3>2. CASE StoreDetail(w)
      BY <3>2 DEF StoreDetail
    <3> QED BY <1>4, <3>1, <3>2
  <2>5. CASE obeyed'
    BY <2>2, <2>3, <2>4, <2>5, RetainedStep DEF Kept
  <2>6. CASE ~obeyed'
    BY <2>3, <2>6 DEF PolicyInv, PolicyObeyed
  <2> QED BY <2>5, <2>6
<1>5. ASSUME NEW w \in Works, NEW i \in Ids, StartDelete(w, i) \/ StartMark(w, i)
      PROVE  PolicyInv'
  <2>1. PICK pc \in {"delete", "mark"} :
          work' = [work EXCEPT ![w] = [Free EXCEPT !.pc = pc, !.id = i]]
    BY <1>5 DEF StartDelete, StartMark, Begin
  <2> DEFINE new == [Free EXCEPT !.pc = pc, !.id = i]
  <2>2. new.pc \notin SyncPCs /\ work' = [work EXCEPT ![w] = new]
    BY <2>1 DEF Free, SyncPCs
  <2> HIDE DEF new
  <2>3. UNCHANGED <<row, policy, obeyed>>
    BY <1>5 DEF StartDelete, StartMark
  <2> QED BY <2>2, <2>3, FreshStep, RetainedStep DEF Kept
<1>6. ASSUME NEW w \in Works, ProviderDeletes(w) \/ ProviderMarks(w) PROVE PolicyInv'
  <2>1. PICK pc \in {"forget", "show"} : work' = [work EXCEPT ![w].pc = pc]
    BY <1>6 DEF ProviderDeletes, ProviderMarks
  <2> DEFINE new == [work[w] EXCEPT !.pc = pc]
  <2>2. new.pc \notin SyncPCs /\ work' = [work EXCEPT ![w] = new]
    BY <2>1 DEF StoreTypeInv, WorkState, SyncPCs
  <2> HIDE DEF new
  <2>3. UNCHANGED <<row, policy, obeyed>>
    BY <1>6 DEF ProviderDeletes, ProviderMarks
  <2> QED BY <2>2, <2>3, FreshStep, RetainedStep DEF Kept
<1>7. ASSUME NEW w \in Works,
             SyncFails(w) \/ ExpungeFails(w) \/ ForgetRow(w) \/ ShowRead(w) \/ Refuse(w)
      PROVE  PolicyInv'
  <2>1. work' = Stop(w) /\ UNCHANGED <<policy, obeyed>>
    BY <1>7 DEF SyncFails, ExpungeFails, ForgetRow, ShowRead, Refuse
  <2>2. Kept' \subseteq Kept
    BY <1>7 DEF SyncFails, ExpungeFails, ForgetRow, Forgotten, ShowRead, Refuse, Kept, StoreTypeInv
  <2> QED BY <2>1, <2>2, StopFresh, RetainedStep
<1>8. CASE \/ \E m \in Mails : Receive(m)
           \/ \E i \in Ids : Age(i)
           \/ Clear \/ UNCHANGED storeVars
  <2>1. UNCHANGED <<work, policy, obeyed>>
    BY <1>8 DEF Receive, Age, Clear, storeVars
  <2>2. Kept' \subseteq Kept
    BY <1>8 DEF Receive, Age, Clear, storeVars, Kept, StoreTypeInv
  <2>3. FreshInv'
    BY <2>1 DEF PolicyInv, FreshInv
  <2> QED BY <2>1, <2>2, <2>3, RetainedStep
<1> QED BY <1>1, <1>2, <1>3, <1>4, <1>5, <1>6, <1>7, <1>8, PrunePolicy DEF StoreNext

\* Only its own prune ends a sync that has come to it.
LEMMA OnlyPruneEnds ==
  ASSUME StoreTypeInv, [StoreNext]_storeVars, NEW w \in Works,
         work[w].pc = "prune", work'[w].pc = "idle"
  PROVE  Prune(w)
<1>1. work[w] \in WorkState
  BY DEF StoreTypeInv
<1>2. ASSUME NEW v \in Works, NEW new, work' = [work EXCEPT ![v] = new], work[v].pc # "prune"
      PROVE  FALSE
  BY <1>2 DEF StoreTypeInv
<1>3. ASSUME NEW p \in Policy, WritePolicy(p) PROVE FALSE
  BY <1>1, <1>3 DEF WritePolicy, WorkState, Free
<1>4. ASSUME NEW v \in Works, \/ StartSync(v) \/ \E i \in Ids : StartDelete(v, i) \/ StartMark(v, i)
      PROVE  FALSE
  <2>1. PICK new : Begin(v, new)
    BY <1>4 DEF StartSync, StartDelete, StartMark
  <2>2. work[v] = Free /\ work' = [work EXCEPT ![v] = new]
    BY <2>1 DEF Begin
  <2> QED BY <1>2, <2>2 DEF Free
<1>5. ASSUME NEW v \in Works,
             SyncFails(v) \/ ExpungeFails(v) \/ ForgetRow(v) \/ ShowRead(v) \/ Refuse(v)
      PROVE  FALSE
  BY <1>2, <1>5 DEF SyncFails, ExpungeFails, ForgetRow, ShowRead, Refuse, Stop
<1>6. ASSUME NEW v \in Works, StorePage(v) \/ StoreDetail(v) PROVE FALSE
  <2>1. PICK left : work' = [work EXCEPT ![v] = left]
    BY <1>6, StorePageWork, StoreDetailWork
  <2> QED BY <1>2, <1>6, <2>1 DEF StorePage, StoreDetail
<1>7. ASSUME NEW v \in Works,
             \/ \E c \in Channels : List(v, c)
             \/ \E m \in Mails : Fetch(v, m)
             \/ ProviderDeletes(v) \/ ProviderMarks(v)
      PROVE  FALSE
  <2>1. work[v].pc # "prune"
    BY <1>7 DEF List, Fetch, ProviderDeletes, ProviderMarks
  <2>2. work'[w] = work[w]
    BY <1>7, <2>1 DEF List, Fetch, ProviderDeletes, ProviderMarks, StoreTypeInv
  <2> QED BY <2>2
<1>8. ASSUME NEW v \in Works, Prune(v) PROVE v = w
  BY <1>8 DEF Prune, Stop, StoreTypeInv
<1>9. CASE \/ \E m \in Mails : Receive(m)
           \/ \E i \in Ids : Age(i)
           \/ Clear \/ UNCHANGED storeVars
  BY <1>9 DEF Receive, Age, Clear, storeVars
<1> QED BY <1>3, <1>4, <1>5, <1>6, <1>7, <1>8, <1>9 DEF StoreNext

LEMMA NewestStep ==
  StoreTypeInv /\ [StoreNext]_storeVars =>
    \A w \in Works : work[w].pc = "prune" /\ work'[w].pc = "idle" =>
      \A i, j \in Kept :
        row'[i] = None /\ row[i].recent /\ row'[j] # None /\ {k[2] : k \in Kept} = {"graph"} =>
          Date[j[1]] >= Date[i[1]]
<1> SUFFICES ASSUME StoreTypeInv, [StoreNext]_storeVars, NEW w \in Works,
                    work[w].pc = "prune", work'[w].pc = "idle", NEW i \in Kept, NEW j \in Kept,
                    row'[i] = None, row[i].recent, row'[j] # None,
                    {k[2] : k \in Kept} = {"graph"}
             PROVE  Date[j[1]] >= Date[i[1]]
  OBVIOUS
<1> DEFINE R == {k \in Kept : row[k].recent}
<1>1. PICK S \in Survivors(R, work[w].policy.max) :
        row' = [k \in Ids |-> IF k \in S THEN row[k] ELSE None]
  BY OnlyPruneEnds DEF Prune
<1>2. i \in Ids /\ j \in Ids /\ row[i] # None
  BY DEF Kept
<1>3. i \in R \ S /\ j \in S
  BY <1>1, <1>2
<1>4. Key[i] <= Key[j]
  BY <1>3 DEF Survivors, Top
<1>5. i[2] = "graph" /\ j[2] = "graph"
  OBVIOUS
<1>6. Key[i] = Date[i[1]] /\ Key[j] = Date[j[1]]
  BY <1>2, <1>5 DEF Key
<1>7. Date[i[1]] \in Nat /\ Date[j[1]] \in Nat
  BY <1>2, StoreAssumption DEF Ids
<1> QED BY <1>4, <1>6, <1>7

\* A prune leaves as many rows as the policy allows that is there, and takes none of Graph that
\* is newer than one it leaves.  (prune_retained_mail)
THEOREM PoliciesAreObeyed == StoreSpec => RetentionObeyed
<1> DEFINE Inv == StoreTypeInv /\ PolicyInv
           Kept1 == \A w \in Works : work[w].pc = "prune" /\ work'[w].pc = "idle" =>
                      \A i, j \in Kept :
                        row'[i] = None /\ row[i].recent /\ row'[j] # None
                            /\ {k[2] : k \in Kept} = {"graph"} =>
                          Date[j[1]] >= Date[i[1]]
<1>1. StoreInit => Inv
  BY StoreTypeInit, PolicyInit
<1>2. Inv /\ [StoreNext]_storeVars => Inv'
  BY StoreTypeStep, PolicyStep
<1>3. Inv => PolicyObeyed
  BY DEF PolicyInv
<1>4. Inv /\ [StoreNext]_storeVars => [Kept1]_storeVars
  BY NewestStep
<1>5. NewestKept <=> [][Kept1]_storeVars
  BY DEF NewestKept
<1> HIDE DEF Inv, Kept1
<1>6. StoreSpec => []PolicyObeyed /\ [][Kept1]_storeVars
  BY <1>1, <1>2, <1>3, <1>4, PTL DEF StoreSpec
<1> QED BY <1>5, <1>6 DEF RetentionObeyed
=============================================================================
