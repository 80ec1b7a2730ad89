------------------------------- MODULE MCRequests -------------------------------
(* Small instances of the components that meet nowhere but in the account they
   belong to, checked one at a time: part says which one this behaviour is of. *)
EXTENDS IngestIntake, Export, Learning, OrderMail, Purchases, Digest, TLC

CONSTANTS liked, late, bought, sent, back

VARIABLE part

intakeVars == <<claim, inserted, pc, reply, expiries>>

AllVars == <<part, intakeVars, exportVars, learningVars, mailVars, purchaseVars, digestVars>>

AllInit ==
  /\ part \in {"intake", "export", "learning", "mail", "purchases", "digest"}
  /\ Init /\ ExportInit /\ LearningInit /\ OrderMailInit /\ PurchasesInit /\ DigestInit

AllNext ==
  \/ /\ part = "intake" /\ Next
     /\ UNCHANGED <<part, exportVars, learningVars, mailVars, purchaseVars, digestVars>>
  \/ /\ part = "export" /\ ExportNext
     /\ UNCHANGED <<part, intakeVars, learningVars, mailVars, purchaseVars, digestVars>>
  \/ /\ part = "learning" /\ LearningNext
     /\ UNCHANGED <<part, intakeVars, exportVars, mailVars, purchaseVars, digestVars>>
  \/ /\ part = "mail" /\ OrderMailNext
     /\ UNCHANGED <<part, intakeVars, exportVars, learningVars, purchaseVars, digestVars>>
  \/ /\ part = "purchases" /\ PurchasesNext
     /\ UNCHANGED <<part, intakeVars, exportVars, learningVars, mailVars, digestVars>>
  \/ /\ part = "digest" /\ DigestNext
     /\ UNCHANGED <<part, intakeVars, exportVars, learningVars, mailVars, purchaseVars>>

AllSpec ==
  /\ AllInit /\ [][AllNext]_AllVars
  /\ ExportFairness /\ OrderMailFairness /\ PurchasesFairness

--------------------------------------------------------------------------------
\* An outfit that is embedded and one whose embedding comes late, of one dress
\* code, liked and disliked.
MCWorn == (liked :> {"tee"}) @@ (late :> {"shawl"})
MCCode == [e \in {liked, late} |-> "casual"]
MCVerdict == (liked :> "like") @@ (late :> "dislike")

\* One order: bought, sent (both add), and sent back.
MCOrder == [m \in {bought, sent, back} |-> 1]
MCSays == (bought :> "bought") @@ (sent :> "bought") @@ (back :> "returned")

--------------------------------------------------------------------------------
(* From the inbox to the wardrobe no mail is lost: a mail in the shared inbox   *)
(* is accepted in the end (inbox_poll.py), and an accepted one is settled,      *)
(* unless its job raised (purchases.py).                                        *)
MailsEnd == MailsAccepted /\ MailsSettle
================================================================================
