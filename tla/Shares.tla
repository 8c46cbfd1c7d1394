------------------------------- MODULE Shares -------------------------------
(***************************************************************************)
(* Links that show one mailbox to whoever holds them.  A visit looks its   *)
(* link up, notes the time, and then asks the provider or the local        *)
(* copies; the link is revoked, deleted or lapses meanwhile.               *)
(***************************************************************************)
EXTENDS Null

CONSTANTS
  Links,     \* ids of shared links, and their tokens
  Mailboxes, \* accounts
  Folders,   \* mail folders
  Visits     \* public requests

VARIABLES
  mailbox, \* the accounts that are there
  link,    \* email_share_links
  visit    \* where each request is, with the standing of its link when it began

shareVars == <<mailbox, link, visit>>

Sources == {"auto", "live", "retained"}

Link == [mailbox : Mailboxes, folders : (SUBSET Folders) \ {{}},
         status : {"active", "expired", "revoked"}, expires : BOOLEAN,
         seen : {"never", "just", "earlier"}]

NoVisit == [phase |-> "idle", link |-> None, folder |-> None, source |-> "auto", read |-> None,
            began |-> None]

Ended(v, phase) == [visit EXCEPT ![v].phase = phase]

-----------------------------------------------------------------------------
(* create_email_share, revoke_email_share, delete_email_share              *)

CreateShare(l, a, folders, expires) ==
  /\ link[l] = None /\ a \in mailbox
  /\ \A v \in Visits : visit[v].link # l
  /\ link' = [link EXCEPT ![l] = [mailbox |-> a, folders |-> folders, status |-> "active",
                                  expires |-> expires, seen |-> "never"]]
  /\ UNCHANGED <<mailbox, visit>>

RevokeShare(l) ==
  /\ link[l] # None
  /\ link' = [link EXCEPT ![l].status = "revoked"]
  /\ UNCHANGED <<mailbox, visit>>

DeleteShare(l) ==
  /\ link[l] # None
  /\ link' = [link EXCEPT ![l] = None]
  /\ UNCHANGED <<mailbox, visit>>

\* purge_account; the links go with their account.
PurgeMailbox(a) ==
  /\ a \in mailbox
  /\ mailbox' = mailbox \ {a}
  /\ link' = [l \in Links |-> IF link[l] # None /\ link[l].mailbox = a THEN None ELSE link[l]]
  /\ UNCHANGED visit

\* expires_at passes; a link that never expires has none.
Lapse(l) ==
  /\ link[l] # None
  /\ link[l].expires /\ link[l].status = "active"
  /\ link' = [link EXCEPT ![l].status = "expired"]
  /\ UNCHANGED <<mailbox, visit>>

\* Five minutes pass since last_accessed_at.
Forget(l) ==
  /\ link[l] # None
  /\ link[l].seen = "just"
  /\ link' = [link EXCEPT ![l].seen = "earlier"]
  /\ UNCHANGED <<mailbox, visit>>

-----------------------------------------------------------------------------
(* resolve_email_share                                                     *)

Visiting(v, l, folder, source) ==
  /\ visit[v].phase \in {"idle", "status", "live", "retained", "refused"}
  /\ visit' = [visit EXCEPT ![v] = [phase |-> "asking", link |-> l, folder |-> folder,
                                    source |-> source, read |-> None, began |-> link[l]]]
  /\ UNCHANGED <<mailbox, link>>

\* Mutant: the folder that is asked for is not compared with those of the link.
OpensAnyFolder(row, folder) == row # None /\ row.status = "active"

Opens(row, folder) ==
  /\ row # None
  /\ row.status = "active"
  /\ folder # None => folder \in row.folders

\* The row is read without a lock; 404, 410 or 403 when it does not open.
ReadLink(v) ==
  LET row == link[visit[v].link]
  IN /\ visit[v].phase = "asking"
     /\ visit' = IF Opens(row, visit[v].folder)
                 THEN [visit EXCEPT ![v].phase = "read", ![v].read = row]
                 ELSE Ended(v, "refused")
     /\ UNCHANGED <<mailbox, link>>

\* Mutant: the row is written as it was read.
SeenAsRead(now, read) == [read EXCEPT !.seen = "just"]

Seen(now, read) == [now EXCEPT !.seen = "just"]

\* The account, and the time of the visit: an UPDATE of one column, which fails with an
\* uncaught StaleDataError when the row is gone.
NoteVisit(v) ==
  LET l == visit[v].link
      due == visit[v].read.seen # "just"
  IN /\ visit[v].phase = "read"
     /\ IF visit[v].read.mailbox \notin mailbox \/ (due /\ link[l] = None)
        THEN visit' = Ended(v, "refused") /\ UNCHANGED link
        ELSE /\ link' = IF due THEN [link EXCEPT ![l] = Seen(@, visit[v].read)] ELSE link
             /\ visit' = Ended(v, IF visit[v].folder = None THEN "status" ELSE "open")
     /\ UNCHANGED mailbox

\* list_mail or get_mail_detail answers.
Live(v) ==
  /\ visit[v].phase = "open" /\ visit[v].source # "retained"
  /\ visit' = Ended(v, "live")
  /\ UNCHANGED <<mailbox, link>>

\* An ApiProblem; other errors end the request.
LiveFails(v) ==
  /\ visit[v].phase = "open" /\ visit[v].source # "retained"
  /\ \E caught \in BOOLEAN :
       visit' = IF caught /\ visit[v].source = "auto" THEN [visit EXCEPT ![v].source = "retained"]
                ELSE Ended(v, "refused")
  /\ UNCHANGED <<mailbox, link>>

\* list_retained_mail or get_retained_mail_detail; the account may be gone by now.
Retained(v) ==
  /\ visit[v].phase = "open" /\ visit[v].source = "retained"
  /\ visit' = Ended(v, IF visit[v].read.mailbox \in mailbox THEN "retained" ELSE "refused")
  /\ UNCHANGED <<mailbox, link>>

-----------------------------------------------------------------------------
ShareInit ==
  /\ mailbox = Mailboxes
  /\ link = [l \in Links |-> None]
  /\ visit = [v \in Visits |-> NoVisit]

ShareNext ==
  \/ \E l \in Links :
       \/ \E a \in Mailboxes, folders \in (SUBSET Folders) \ {{}}, expires \in BOOLEAN :
            CreateShare(l, a, folders, expires)
       \/ RevokeShare(l) \/ DeleteShare(l) \/ Lapse(l) \/ Forget(l)
  \/ \E a \in Mailboxes : PurgeMailbox(a)
  \/ \E v \in Visits :
       \/ \E l \in Links, folder \in Folders \cup {None}, source \in Sources :
            (folder = None => source = "auto") /\ Visiting(v, l, folder, source)
       \/ ReadLink(v) \/ NoteVisit(v) \/ Live(v) \/ LiveFails(v) \/ Retained(v)

ShareSpec == ShareInit /\ [][ShareNext]_shareVars

-----------------------------------------------------------------------------
ShareTypeOK ==
  /\ mailbox \subseteq Mailboxes
  /\ link \in [Links -> Link \cup {None}]
  /\ visit \in [Visits ->
       [phase : {"idle", "asking", "read", "open", "status", "live", "retained", "refused"},
        link : Links \cup {None}, folder : Folders \cup {None}, source : Sources,
        read : Link \cup {None}, began : Link \cup {None}]]

\* The link's data and mail, live or from the copies, is shown only to a visit whose link was
\* active when the visit arrived, and only from a folder of that link; the link may have been
\* revoked, deleted or lapsed since.  (resolve_email_share, public_mail, public_mail_detail)
ShownAsShared ==
  \A v \in Visits :
    visit[v].phase \in {"status", "live", "retained"} =>
      /\ visit[v].began # None
      /\ visit[v].began.status = "active"
      /\ visit[v].folder # None => visit[v].folder \in visit[v].began.folders

\* A revoked link is never active again, whatever visit that had read it before notes its time
\* afterwards.  (revoke_email_share, resolve_email_share)
LinkStaysRevoked ==
  [][\A l \in Links :
       link[l] # None => (link[l].status = "revoked" =>
                           (link'[l] # None => link'[l].status = "revoked"))]_shareVars

\* What a link promises.
SharesHold == LinkStaysRevoked /\ [][ShownAsShared']_shareVars
=============================================================================
