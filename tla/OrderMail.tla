-------------------------------- MODULE OrderMail ------------------------------
(* Orders read from e-mail, up to the intake: the shared inbox polled over IMAP
   and the sync of a linked Gmail account.  Purchases takes it from there. *)
EXTENDS Naturals, Sequences, FiniteSets

CONSTANTS
  Mails,         \* e-mails of known stores
  Synced,        \* those in the Gmail account; the others reach the shared inbox
  PollBatch,     \* BATCH
  PerRun,        \* PER_RUN_LIMIT
  MaxLinks, MaxMailFaults

VARIABLES
  arrived,       \* the mails in the order they arrived
  unread,        \* mails of the shared inbox without \Seen
  polling,       \* one tick of poll_order_inbox: [on, todo, done]; todo is a set
                 \* of positions in arrived
  link,          \* calendar_link: the refresh token, 0 for none
  links,         \* tokens given so far
  dead,          \* tokens Google no longer takes
  watermark,     \* last_synced_at, as a position in arrived
  syncing,       \* one sync_one: [at, token, since, started, todo]
  beyond,        \* ghost: mails a sync listed past its limit
  emails,        \* purchase_email: the mails that have a row, each with its event
  mailFaults

mailVars == <<arrived, unread, polling, link, links, dead, watermark, syncing,
              beyond, emails, mailFaults>>

NoPoll == [on |-> FALSE, todo |-> {}, done |-> {}]
NoSync == [at |-> "idle", token |-> 0, since |-> 0, started |-> 0, todo |-> {}]

OrderMailInit ==
  /\ arrived = <<>> /\ unread = {} /\ polling = NoPoll
  /\ link = 0 /\ links = 0 /\ dead = {} /\ watermark = 0
  /\ syncing = NoSync /\ beyond = {}
  /\ emails = {} /\ mailFaults = 0

MailFault == mailFaults < MaxMailFaults /\ mailFaults' = mailFaults + 1

\* Where the mails of a set arrived; the n oldest and the n newest of some positions.
PlacesOf(mails) == {i \in DOMAIN arrived : arrived[i] \in mails}
Oldest(n, places) == {i \in places : Cardinality({j \in places : j < i}) < n}
Newest(n, places) == {i \in places : Cardinality({j \in places : j > i}) < n}

Arrive(m) ==
  /\ \A i \in DOMAIN arrived : arrived[i] # m
  /\ arrived' = Append(arrived, m)
  /\ unread' = IF m \in Synced THEN unread ELSE unread \cup {m}
  /\ UNCHANGED <<polling, link, links, dead, watermark, syncing, beyond, emails, mailFaults>>

\* accept_for_owner: ON CONFLICT (user_id, message_id) DO NOTHING, and the event
\* in the same transaction.
Accept(m) == emails' = emails \cup {m}

--------------------------------------------------------------------------------
(* The shared inbox *)

FetchUnseen ==
  /\ ~polling.on /\ unread # {}
  /\ polling' = [on |-> TRUE, done |-> {}, todo |-> Oldest(PollBatch, PlacesOf(unread))]
  /\ UNCHANGED <<arrived, unread, link, links, dead, watermark, syncing, beyond,
                 emails, mailFaults>>

AcceptPolled ==
  /\ \E i \in Oldest(1, polling.todo) :
       /\ Accept(arrived[i])
       /\ polling' = [polling EXCEPT !.todo = @ \ {i}, !.done = @ \cup {arrived[i]}]
  /\ UNCHANGED <<arrived, unread, link, links, dead, watermark, syncing, beyond, mailFaults>>

\* A mail that could not be accepted stays unread and is met again.
RefusePolled ==
  /\ MailFault
  /\ \E i \in Oldest(1, polling.todo) : polling' = [polling EXCEPT !.todo = @ \ {i}]
  /\ UNCHANGED <<arrived, unread, link, links, dead, watermark, syncing, beyond,
                 emails>>

MarkSeen ==
  /\ polling.on /\ polling.todo = {}
  /\ unread' = unread \ polling.done /\ polling' = NoPoll
  /\ UNCHANGED <<arrived, link, links, dead, watermark, syncing, beyond, emails, mailFaults>>

\* The worker dies, or the mailbox cannot be reached to mark what was accepted.
PollDies ==
  /\ polling.on /\ MailFault
  /\ polling' = NoPoll
  /\ UNCHANGED <<arrived, unread, link, links, dead, watermark, syncing, beyond,
                 emails>>

--------------------------------------------------------------------------------
(* The linked Gmail account *)

\* finish_connect: a new token, and the first thirty days are read again.
Connect ==
  /\ links < MaxLinks
  /\ links' = links + 1 /\ link' = links + 1 /\ watermark' = 0
  /\ UNCHANGED <<arrived, unread, polling, dead, syncing, beyond, emails, mailFaults>>

Disconnect ==
  /\ link # 0 /\ link' = 0
  /\ UNCHANGED <<arrived, unread, polling, links, dead, watermark, syncing,
                 beyond, emails, mailFaults>>

GrantDies ==
  /\ link \notin dead \cup {0} /\ dead' = dead \cup {link}
  /\ UNCHANGED <<arrived, unread, polling, link, links, watermark, syncing,
                 beyond, emails, mailFaults>>

BeginSync ==
  /\ syncing.at = "idle" /\ link # 0
  /\ syncing' = [at |-> "list", token |-> link, since |-> watermark,
                 started |-> Len(arrived), todo |-> {}]
  /\ UNCHANGED <<arrived, unread, polling, link, links, dead, watermark, beyond,
                 emails, mailFaults>>

\* Newest first, and no more than the limit: the rest is not listed.
ListMails ==
  /\ syncing.at = "list" /\ syncing.token \notin dead
  /\ LET found == {i \in PlacesOf(Synced) : i > syncing.since}
         listed == Newest(PerRun, found)
     IN  /\ syncing' = [syncing EXCEPT !.at = "accept", !.todo = listed]
         /\ beyond' = beyond \cup {arrived[i] : i \in found \ listed}
  /\ UNCHANGED <<arrived, unread, polling, link, links, dead, watermark, emails, mailFaults>>

AcceptSynced ==
  /\ syncing.at = "accept"
  /\ \E i \in Newest(1, syncing.todo) :
       Accept(arrived[i]) /\ syncing' = [syncing EXCEPT !.todo = @ \ {i}]
  /\ UNCHANGED <<arrived, unread, polling, link, links, dead, watermark, beyond, mailFaults>>

FinishSyncNow ==
  /\ syncing.at = "accept" /\ syncing.todo = {}
  /\ watermark' = Len(arrived) /\ syncing' = NoSync
  /\ UNCHANGED <<arrived, unread, polling, link, links, dead, beyond, emails, mailFaults>>

\* last_synced_at becomes the moment the sync started, so that what arrived
\* while it ran is listed again.
FinishSync ==
  /\ syncing.at = "accept" /\ syncing.todo = {}
  /\ watermark' = syncing.started /\ syncing' = NoSync
  /\ UNCHANGED <<arrived, unread, polling, link, links, dead, beyond, emails, mailFaults>>

\* CalendarReauthRequired: the row loses its token, whichever that is by now.
DropGrant ==
  /\ syncing.at = "list" /\ syncing.token \in dead
  /\ link' = 0 /\ syncing' = NoSync
  /\ UNCHANGED <<arrived, unread, polling, links, dead, watermark, beyond,
                 emails, mailFaults>>

\* Gmail is down, an intake raises, the worker dies: the watermark stays.
SyncFails ==
  /\ syncing.at \in {"list", "accept"} /\ MailFault
  /\ syncing' = NoSync
  /\ UNCHANGED <<arrived, unread, polling, link, links, dead, watermark, beyond,
                 emails>>

--------------------------------------------------------------------------------
PollSteps == FetchUnseen \/ AcceptPolled \/ MarkSeen

OrderMailNext ==
  \/ \E m \in Mails : Arrive(m)
  \/ FetchUnseen \/ AcceptPolled \/ RefusePolled \/ MarkSeen \/ PollDies
  \/ Connect \/ Disconnect \/ GrantDies
  \/ BeginSync \/ ListMails \/ AcceptSynced \/ FinishSync \/ DropGrant \/ SyncFails

\* The inbox is polled every minute.
OrderMailFairness == WF_mailVars(PollSteps)

OrderMailSpec == OrderMailInit /\ [][OrderMailNext]_mailVars /\ OrderMailFairness

(* last_synced_at never passes a mail the sync has not handed to the intake     *)
(* (gmail_sync.py, sync_one), but those a run listed past its limit; and the    *)
(* shared inbox marks no mail as seen that was not accepted (inbox_poll.py).    *)
NoMailPassedOver ==
  \A i \in DOMAIN arrived :
    IF arrived[i] \in Synced THEN i <= watermark => arrived[i] \in emails \cup beyond
                            ELSE arrived[i] \in unread \cup emails

(* A mail in the shared inbox is accepted in the end, whatever polls die.       *)
MailsAccepted == \A m \in Mails : m \in unread ~> m \in emails
================================================================================
