-------------------------------- MODULE Purchases ------------------------------
(* The job that turns an accepted e-mail of a store into rows of the wardrobe,
   or takes rows out again. *)
EXTENDS Naturals, FiniteSets

CONSTANTS
  Notices,       \* e-mails the intake has accepted, or will
  Order,         \* [Notices -> orders]; one purchase key per order
  Says,          \* [Notices -> {"bought", "returned"}]
  MaxReadFaults

ASSUME SaysAssumption == Says \in [Notices -> {"bought", "returned"}]

VARIABLES
  status,        \* purchase_email: the status per mail, "none" without a row
  mailQueue,     \* purchase_email.received events on their way to a job
  reading,       \* ingest_order_email per mail: [at, kind, found]
  rows,          \* the garment a mail has added: "none", "active", "retired"
  claimed,       \* garments the user has corrected or worn
  removed,       \* ghost: garments the user has removed
  beside,        \* ghost: mails of one order whose jobs looked at once
  raised,        \* ghost: mails whose job raised
  readFaults

purchaseVars == <<status, mailQueue, reading, rows, claimed, removed, beside,
                  raised, readFaults>>
rowVars == <<rows, claimed, removed, beside>>

NotReading == [at |-> "idle", kind |-> "none", found |-> FALSE]

PurchasesInit ==
  /\ status = [m \in Notices |-> "none"] /\ mailQueue = {}
  /\ reading = [m \in Notices |-> NotReading]
  /\ rows = [m \in Notices |-> "none"]
  /\ claimed = {} /\ removed = {} /\ beside = {} /\ raised = {}
  /\ readFaults = 0

ReadFault == readFaults < MaxReadFaults /\ readFaults' = readFaults + 1

\* accept_for_owner: ON CONFLICT (user_id, message_id) DO NOTHING, and the event
\* in the same transaction; a mail accepted again is a duplicate.
Receive(m) ==
  /\ status[m] = "none"
  /\ status' = [status EXCEPT ![m] = "received"]
  /\ mailQueue' = mailQueue \cup {m}
  /\ UNCHANGED <<reading, rowVars, raised, readFaults>>

--------------------------------------------------------------------------------
(* ingest_order_email *)

StartReading(m) ==
  /\ m \in mailQueue /\ reading[m].at = "idle"
  /\ mailQueue' = mailQueue \ {m}
  /\ reading' = IF status[m] = "received" THEN [reading EXCEPT ![m].at = "ask"] ELSE reading
  /\ UNCHANGED <<status, rowVars, raised, readFaults>>

Finish(m, outcome) ==
  /\ status' = [status EXCEPT ![m] = outcome]
  /\ reading' = [reading EXCEPT ![m] = NotReading]

CannotReadSilently(m) ==
  /\ reading[m].at = "ask"
  /\ reading' = [reading EXCEPT ![m] = NotReading]
  /\ UNCHANGED <<status, mailQueue, rowVars, raised, readFaults>>

\* No model key, or the model's answer cannot be had or parsed: failed, for good.
CannotRead(m) ==
  /\ reading[m].at = "ask"
  /\ Finish(m, "failed")
  /\ UNCHANGED <<mailQueue, rowVars, raised, readFaults>>

\* The model finds what the mail says, or nothing in it.
Extract(m) ==
  /\ reading[m].at = "ask"
  /\ \E kind \in {Says[m], "other"} :
       reading' = [reading EXCEPT ![m].at = "look", ![m].kind = kind]
  /\ UNCHANGED <<status, mailQueue, rowVars, raised, readFaults>>

LookUpActive(m) ==
  /\ reading[m].at = "look" /\ reading[m].kind = "bought"
  /\ reading' = [reading EXCEPT ![m].at = "keep",
       ![m].found = \E n \in Notices : Order[n] = Order[m] /\ rows[n] = "active"]
  /\ beside' = beside \cup {{m, n} : n \in {n \in Notices : reading[n].at = "keep"}}
  /\ UNCHANGED <<status, mailQueue, rows, claimed, removed, raised, readFaults>>

\* The garments with this purchase key, whether active or not; no lock is taken.
LookUp(m) ==
  /\ reading[m].at = "look" /\ reading[m].kind = "bought"
  /\ reading' = [reading EXCEPT ![m].at = "keep",
       ![m].found = \E n \in Notices : Order[n] = Order[m] /\ rows[n] # "none"]
  /\ beside' = beside \cup {{m, n} : n \in {n \in Notices : reading[n].at = "keep"}}
  /\ UNCHANGED <<status, mailQueue, rows, claimed, removed, raised, readFaults>>

KeepPurchase(m) ==
  /\ reading[m].at = "keep"
  /\ rows' = IF reading[m].found THEN rows ELSE [rows EXCEPT ![m] = "active"]
  /\ Finish(m, IF reading[m].found THEN "nothing_to_add" ELSE "added")
  /\ UNCHANGED <<mailQueue, claimed, removed, beside, raised, readFaults>>

\* One UPDATE: the order's garments, unless the user has made them theirs.
Reverse(m) ==
  /\ reading[m].at = "look" /\ reading[m].kind # "bought"
  /\ LET gone == {n \in Notices : /\ reading[m].kind = "returned" /\ Order[n] = Order[m]
                                /\ rows[n] = "active" /\ n \notin claimed}
     IN  /\ rows' = [n \in Notices |-> IF n \in gone THEN "retired" ELSE rows[n]]
         /\ Finish(m, IF gone = {} THEN "nothing_to_add" ELSE "added")
  /\ UNCHANGED <<mailQueue, claimed, removed, beside, raised, readFaults>>

\* Anything else that raises (the object store, a malformed image URL) ends the
\* arq job; the mail stays received.
ReadingRaises(m) ==
  /\ reading[m].at \in {"look", "keep"} /\ ReadFault
  /\ reading' = [reading EXCEPT ![m] = NotReading]
  /\ raised' = raised \cup {m}
  /\ UNCHANGED <<status, mailQueue, rowVars>>

ReaderDies(m) ==
  /\ reading[m].at # "idle" /\ ReadFault
  /\ reading' = [reading EXCEPT ![m] = NotReading]
  /\ mailQueue' = mailQueue \cup {m}
  /\ UNCHANGED <<status, rowVars, raised>>

\* A correction or a wearing makes a garment the user's; the user removes one.
MakeOwn(m) ==
  /\ rows[m] = "active" /\ claimed' = claimed \cup {m}
  /\ UNCHANGED <<status, mailQueue, reading, rows, removed, beside, raised, readFaults>>

RemoveOwn(m) ==
  /\ rows[m] = "active"
  /\ rows' = [rows EXCEPT ![m] = "retired"] /\ removed' = removed \cup {m}
  /\ UNCHANGED <<status, mailQueue, reading, claimed, beside, raised, readFaults>>

ReadSteps(m) ==
  StartReading(m) \/ CannotRead(m) \/ Extract(m) \/ LookUp(m) \/ KeepPurchase(m) \/ Reverse(m)

PurchasesNext == \E m \in Notices :
  \/ Receive(m) \/ StartReading(m) \/ CannotRead(m) \/ Extract(m) \/ LookUp(m)
  \/ KeepPurchase(m) \/ Reverse(m) \/ ReadingRaises(m) \/ ReaderDies(m)
  \/ MakeOwn(m) \/ RemoveOwn(m)

\* The queue delivers and jobs run on.
PurchasesFairness == \A m \in Notices : WF_purchaseVars(ReadSteps(m))

PurchasesSpec == PurchasesInit /\ [][PurchasesNext]_purchaseVars /\ PurchasesFairness

--------------------------------------------------------------------------------
(* Several mails about one order (confirmation, dispatch, delivery) add one     *)
(* garment, also when the first was sent back or removed in between, unless     *)
(* two jobs looked before either had inserted (purchases.py,                   *)
(* ingest_order_email).  No mail takes out a garment the user has corrected or  *)
(* worn.                                                                       *)
OneRowPerPurchase ==
  /\ \A m, n \in Notices :
       Order[m] = Order[n] /\ rows[m] # "none" /\ rows[n] # "none" =>
         m = n \/ {m, n} \in beside
  /\ \A m \in claimed : rows[m] = "retired" => m \in removed

(* An accepted mail is settled in the end, unless its job raised: then it      *)
(* stays received for good.                                                    *)
MailsSettle ==
  \A m \in Notices : status[m] = "received" ~> (status[m] # "received" \/ m \in raised)
================================================================================
