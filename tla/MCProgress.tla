----------------------------- MODULE MCProgress -----------------------------
(***************************************************************************)
(* TLC's instances of GroupTree, MailStore, CodeScan, JobFeed and          *)
(* Forwarding, of which all but MailStore must get something done as well. *)
(* They share no state, so one run checks them side by side: every         *)
(* behaviour is one of the component that running names, and leaves the    *)
(* others as they began.                                                   *)
(***************************************************************************)
EXTENDS GroupTree, MailStore, CodeScan, JobFeed, Forwarding, TLC

CONSTANTS
  First, Second, Third,  \* groups and accounts
  On, Off                \* proxy profiles

VARIABLE running

Group(parent, level, proxy) == [parent |-> parent, level |-> level, proxy |-> proxy]

\* Three levels, with a disabled profile at the bottom and one that is enabled at the top,
\* and room for another group.
TheTree ==
  Default :> Group(None, 1, On) @@ First :> Group(Default, 2, None)
  @@ Second :> Group(First, 3, Off) @@ Third :> None
  @@ Temporary :> Group(None, 1, None)
OneTree == {TheTree}

InOrder == First :> 1 @@ Second :> 2 @@ Third :> 3

\* When messages were received; their headers come after any time stamp, as they begin with
\* the name of a day, and the other way round.
TwoDates == First :> 1 @@ Second :> 2
TwoHeaders == First :> 4 @@ Second :> 3

allVars == <<running, groupVars, storeVars, scanVars, feedVars, vars>>

AllInit ==
  /\ running \in {"tree", "mail", "scan", "feed", "forward"}
  /\ TreeInit
  /\ running # "tree" => member = [group |-> None, proxy |-> None]
  /\ StoreInit
  /\ running # "mail" => inbox = [m \in Mails |-> "unread"]
  /\ ScanInit
  /\ running # "scan" => kind = [a \in Accounts |-> "active"] /\ asked = {}
  /\ FeedInit
  /\ running # "feed" => reader.kind = "sse"
  /\ Init

AllNext ==
  \/ /\ running = "tree" /\ TreeNext
     /\ UNCHANGED <<running, storeVars, scanVars, feedVars, vars>>
  \/ /\ running = "mail" /\ StoreNext
     /\ UNCHANGED <<running, groupVars, scanVars, feedVars, vars>>
  \/ /\ running = "scan" /\ ScanNext
     /\ UNCHANGED <<running, groupVars, storeVars, feedVars, vars>>
  \/ /\ running = "feed" /\ FeedNext
     /\ UNCHANGED <<running, groupVars, storeVars, scanVars, vars>>
  \/ /\ running = "forward" /\ Next
     /\ UNCHANGED <<running, groupVars, storeVars, scanVars, feedVars>>

\* The fairness of the components.
TreeFairness == WF_groupVars(running = "tree" /\ WalkUp)

ScanFairness ==
  /\ WF_scanVars(running = "scan" /\ BeginScan)
  /\ WF_scanVars(running = "scan" /\ Deadline)
  /\ WF_scanVars(running = "scan" /\ FinishScan)
  /\ WF_scanVars(running = "scan" /\ \E a \in Accounts : Acquire(a))
  /\ WF_scanVars(running = "scan" /\ \E a \in Accounts : Cancel(a))

FeedFairness ==
  /\ WF_feedVars(running = "feed" /\ ReadEvents)
  /\ WF_feedVars(running = "feed" /\ ReadStatus)

ForwardFairness ==
  /\ \A s \in Scans : WF_vars(running = "forward" /\ ScanStep(s))
  /\ \A p \in Pairs : WF_vars(running = "forward" /\ FiveMinutes(p))

AllSpec ==
  /\ AllInit /\ [][AllNext]_allVars
  /\ TreeFairness /\ ScanFairness /\ FeedFairness /\ ForwardFairness

-----------------------------------------------------------------------------
\* The type invariants of the components.
AllTypeOK == TreeTypeOK /\ StoreTypeOK /\ ScanTypeOK /\ FeedTypeOK /\ TypeOK
=============================================================================
