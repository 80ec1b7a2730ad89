------------------------------ MODULE RequestsProofs ----------------------------
(* Proofs about the components MCRequests checks side by side: the intake of uploads,
   the daily digest, order mails and the purchases in them, learning from reactions,
   and the export.  Any number of requests, phones, runs, mails, notices, events and
   exports. *)
EXTENDS IngestIntake, Digest, Purchases, OrderMail, Learning, Export, FiniteSetTheorems, TLAPS

--------------------------------------------------------------------------------
(* The intake: one key, one answer. *)

\* Until the claim expires for the first time, whoever has got past the SET
\* does so because of the claim that stands, and every reply names its owner.
OneOwner ==
  expiries = 0 =>
    \A a \in Attempts :
      /\ pc[a] = "refused" => claim # Nobody
      /\ pc[a] = "claimed" => claim = a
      /\ pc[a] = "answered" => reply[a] = claim

IInv == TypeOK /\ OneOwner

LEMMA InitInv == Init => IInv
BY NobodyAssumption, ExpiriesAssumption
   DEF Init, IInv, TypeOK, OneOwner, Places

LEMMA SetNxKeeps == ASSUME IInv, NEW a \in Attempts, SetNx(a) PROVE IInv'
<1> USE DEF SetNx, Goto, IInv
<1>1. TypeOK'
  BY NobodyAssumption DEF TypeOK, Places
<1>2. OneOwner'
  BY NobodyAssumption DEF OneOwner, TypeOK, Places
<1> QED
  BY <1>1, <1>2

LEMMA GetClaimKeeps == ASSUME IInv, NEW a \in Attempts, GetClaim(a) PROVE IInv'
<1> USE DEF GetClaim, Answer, Goto, IInv
<1>1. TypeOK'
  BY NobodyAssumption DEF TypeOK, Places
<1>2. OneOwner'
  BY NobodyAssumption DEF OneOwner, TypeOK, Places
<1> QED
  BY <1>1, <1>2

LEMMA InsertKeeps == ASSUME IInv, NEW a \in Attempts, Insert(a) PROVE IInv'
<1> USE DEF Insert, Answer, Goto, IInv
<1>1. TypeOK'
  BY NobodyAssumption DEF TypeOK, Places
<1>2. OneOwner'
  BY NobodyAssumption DEF OneOwner, TypeOK, Places
<1> QED
  BY <1>1, <1>2

LEMMA DieKeeps == ASSUME IInv, NEW a \in Attempts, Die(a) PROVE IInv'
BY NobodyAssumption DEF Die, Goto, IInv, TypeOK, Places, OneOwner

LEMMA ExpireKeeps == ASSUME IInv, Expire PROVE IInv'
BY ExpiriesAssumption DEF Expire, IInv, TypeOK, Places, OneOwner

LEMMA Inductive == Spec => []IInv
<1>1. IInv /\ UNCHANGED vars => IInv'
  BY DEF IInv, TypeOK, OneOwner, vars
<1>2. IInv /\ [Next]_vars => IInv'
  BY <1>1, SetNxKeeps, GetClaimKeeps, InsertKeeps, DieKeeps, ExpireKeeps DEF Next
<1> QED
  BY InitInv, <1>2, PTL DEF Spec

(* As long as no claim has expired, all attempts under a key give the same *)
(* job ids (test_idempotency.py), for any number of attempts and crashes.  *)
THEOREM OneAnswerPerKey == Spec => []SameAnswer
<1>1. IInv => SameAnswer
  BY DEF IInv, OneOwner, SameAnswer
<1> QED
  BY Inductive, <1>1, PTL

--------------------------------------------------------------------------------
(* The daily digest: nobody is told of one day twice. *)

Stations == {"idle", "claimed", "send"}
RunRecords == [at : Stations, day : Nat, left : SUBSET Phones, gone : SUBSET Phones]

DigestTyped ==
  /\ today \in Nat
  /\ enabled \subseteq Phones
  /\ sending \in [Runs -> RunRecords]

\* A day belongs to one run: two runs under way are of different days, a claim
\* that is open is not yet taken, and only a committed one is sent.
DaysApart ==
  \A r \in Runs :
    /\ \A q \in Runs : /\ sending[q].at # "idle" /\ sending[r].at # "idle"
                       /\ sending[q].day = sending[r].day
                       => q = r
    /\ sending[r].at = "claimed" => sending[r].day \notin claims
    /\ sending[r].at = "send" => sending[r].day \in claims

\* What has been shown is of a claimed day, and of that day's run, to phones it
\* need not go to any more.
ShownByTheClaimant ==
  /\ \A n \in notices : n \in Phones \X Nat \X Runs /\ n[2] \in claims
  /\ \A m, n \in notices : m[2] = n[2] => m[3] = n[3]
  /\ \A r \in Runs, n \in notices :
       sending[r].at = "send" /\ n[2] = sending[r].day =>
         n[3] = r /\ n[1] \notin sending[r].left

\* A phone that a run was told is gone, and that has the app, came back since.
GoneOrRevived ==
  \A r \in Runs : sending[r].at # "idle" => sending[r].gone \cap installed \subseteq revived

InUse == \A p \in installed \ off : p \in enabled \/ p \in revived

DigestInv == DigestTyped /\ DaysApart /\ ShownByTheClaimant /\ GoneOrRevived /\ InUse

LEMMA DigestInitInv == DigestInit => DigestInv
BY DEF DigestInit, DigestInv, DigestTyped, DaysApart, ShownByTheClaimant, GoneOrRevived,
       InUse, NoRun, RunRecords, Stations

\* Ending a run, from wherever it is, disturbs none of the other runs.
LEMMA EndingKeeps ==
  ASSUME DigestInv, NEW r \in Runs, sending' = [sending EXCEPT ![r] = NoRun],
         claims \subseteq claims',
         \A q \in Runs \ {r} : sending[q].at = "claimed" => sending[q].day \notin claims',
         UNCHANGED <<today, installed, notices, revived>>
  PROVE  (sending \in [Runs -> RunRecords])' /\ DaysApart' /\ ShownByTheClaimant' /\ GoneOrRevived'
<1> USE DEF DigestInv, DigestTyped
<1>1. NoRun \in RunRecords /\ NoRun.at = "idle"
  BY DEF NoRun, RunRecords, Stations
<1>2. sending' \in [Runs -> RunRecords] /\ sending'[r].at = "idle"
      /\ \A q \in Runs \ {r} : sending'[q] = sending[q]
  BY <1>1
<1>3. DaysApart'
  BY <1>2 DEF DaysApart
<1>4. ShownByTheClaimant'
  BY <1>2 DEF ShownByTheClaimant
<1>5. GoneOrRevived'
  BY <1>2 DEF GoneOrRevived
<1> QED
  BY <1>2, <1>3, <1>4, <1>5

LEMMA ClaimDayKeeps ==
  ASSUME DigestInv, NEW r \in Runs, ClaimDay(r) PROVE DigestInv'
<1> USE DEF DigestInv, DigestTyped
<1> DEFINE fresh == [at |-> "claimed", day |-> today, left |-> enabled, gone |-> {}]
<1>1. fresh \in RunRecords
  BY DEF RunRecords, Stations
<1>2. sending' = [sending EXCEPT ![r] = fresh] /\ sending[r].at = "idle"
      /\ UNCHANGED <<today, enabled, installed, claims, notices, off, revived>>
  BY DEF ClaimDay
<1>3. sending' \in [Runs -> RunRecords] /\ sending'[r] = fresh
      /\ \A q \in Runs \ {r} : sending'[q] = sending[q]
  BY <1>1, <1>2
<1>4. today \notin claims
      /\ \A q \in Runs \ {r} : sending[q].at # "idle" => sending[q].day # today
  <2>1. ClaimFree(r)
    BY DEF ClaimDay
  <2>2. \A q \in Runs : sending[q].at \in Stations
    BY DEF RunRecords
  <2> QED
    BY <2>1, <2>2 DEF ClaimFree, DaysApart, Stations
<1>5. DaysApart'
  BY <1>2, <1>3, <1>4 DEF DaysApart
<1>6. ShownByTheClaimant'
  BY <1>2, <1>3 DEF ShownByTheClaimant
<1>7. GoneOrRevived' /\ InUse'
  BY <1>2, <1>3 DEF GoneOrRevived, InUse
<1> QED
  BY <1>2, <1>3, <1>5, <1>6, <1>7

LEMMA CommitClaimKeeps ==
  ASSUME DigestInv, NEW r \in Runs, CommitClaim(r) PROVE DigestInv'
<1> USE DEF DigestInv, DigestTyped
<1>1. /\ sending[r].at = "claimed" /\ sending[r].day \in Nat /\ sending[r] \in RunRecords
      /\ claims' = claims \cup {sending[r].day}
      /\ UNCHANGED <<today, enabled, installed, notices, off, revived>>
  BY DEF CommitClaim, RunRecords
<1>2. \A q \in Runs \ {r} : sending[q].at = "claimed" => sending[q].day \notin claims'
  BY <1>1 DEF DaysApart
<1>3. InUse'
  BY <1>1 DEF InUse
<1>4. CASE sending' = [sending EXCEPT ![r] = NoRun]
  BY <1>1, <1>2, <1>3, <1>4, EndingKeeps
<1>5. CASE sending' = [sending EXCEPT ![r] = [@ EXCEPT !.at = "send"]]
  <2>1. sending' \in [Runs -> RunRecords]
    BY <1>1, <1>5 DEF RunRecords, Stations
  <2>2. /\ sending'[r].at = "send" /\ sending'[r].day = sending[r].day
        /\ sending'[r].gone = sending[r].gone
        /\ \A q \in Runs \ {r} : sending'[q] = sending[q]
    BY <1>1, <1>5 DEF RunRecords
  <2>3. DaysApart'
    BY <1>1, <1>2, <2>2 DEF DaysApart
  <2>4. ShownByTheClaimant'
    <3>1. \A n \in notices : n[2] # sending[r].day
      BY <1>1 DEF ShownByTheClaimant, DaysApart
    <3> QED
      BY <1>1, <2>2, <3>1 DEF ShownByTheClaimant
  <2>5. GoneOrRevived'
    BY <1>1, <2>2 DEF GoneOrRevived
  <2> QED
    BY <1>1, <1>3, <2>1, <2>3, <2>4, <2>5
<1> QED
  BY <1>4, <1>5 DEF CommitClaim

LEMMA SendToKeeps ==
  ASSUME DigestInv, NEW r \in Runs, NEW p \in Phones, SendTo(r, p) PROVE DigestInv'
<1> USE DEF DigestInv, DigestTyped
<1>1. /\ sending[r].at = "send" /\ p \in sending[r].left /\ sending[r] \in RunRecords
      /\ UNCHANGED <<today, enabled, installed, claims, off, revived>>
  BY DEF SendTo
<1>2. /\ sending' \in [Runs -> RunRecords]
      /\ sending'[r].at = "send" /\ sending'[r].day = sending[r].day
      /\ sending'[r].left = sending[r].left \ {p}
      /\ \A q \in Runs \ {r} : sending'[q] = sending[q]
      /\ sending'[r].gone \cap installed = sending[r].gone \cap installed
  <2>1. CASE sending' = [sending EXCEPT ![r].left = @ \ {p}, ![r].gone = @ \cup {p}]
             /\ p \notin installed
    BY <1>1, <2>1 DEF RunRecords
  <2>2. CASE sending' = [sending EXCEPT ![r].left = @ \ {p}]
    BY <1>1, <2>2 DEF RunRecords
  <2> QED
    BY <2>1, <2>2 DEF SendTo
<1>3. DaysApart'
  BY <1>1, <1>2 DEF DaysApart
<1>4. notices' \subseteq notices \cup {<<p, sending[r].day, r>>}
  BY DEF SendTo
<1>5. ShownByTheClaimant'
  <2> DEFINE new == <<p, sending[r].day, r>>
  <2>1. new \in Phones \X Nat \X Runs /\ new[1] = p /\ new[2] = sending[r].day /\ new[3] = r
    BY <1>1 DEF RunRecords
  <2>2. sending[r].day \in claims
    BY <1>1 DEF DaysApart
  <2>3. \A n \in notices : n[2] = sending[r].day => n[3] = r
    BY <1>1 DEF ShownByTheClaimant
  <2>4. \A q \in Runs \ {r} : sending[q].at = "send" => sending[q].day # sending[r].day
    BY <1>1 DEF DaysApart
  <2> HIDE DEF new
  <2> QED
    BY <1>1, <1>2, <1>4, <2>1, <2>2, <2>3, <2>4 DEF ShownByTheClaimant, new
<1>6. GoneOrRevived' /\ InUse'
  BY <1>1, <1>2 DEF GoneOrRevived, InUse
<1> QED
  BY <1>1, <1>2, <1>3, <1>5, <1>6

LEMMA RecordResultKeeps ==
  ASSUME DigestInv, NEW r \in Runs, RecordResult(r) PROVE DigestInv'
<1> USE DEF DigestInv, DigestTyped
<1>1. /\ sending[r].at = "send" /\ sending' = [sending EXCEPT ![r] = NoRun]
      /\ enabled' = enabled \ sending[r].gone
      /\ UNCHANGED <<today, installed, claims, notices, off, revived>>
  BY DEF RecordResult
<1>2. \A q \in Runs \ {r} : sending[q].at = "claimed" => sending[q].day \notin claims'
  BY <1>1 DEF DaysApart
<1>3. InUse'
  BY <1>1 DEF GoneOrRevived, InUse
<1> QED
  BY <1>1, <1>2, <1>3, EndingKeeps

LEMMA RunEndsKeeps ==
  ASSUME DigestInv, NEW r \in Runs, RunEnds(r) PROVE DigestInv'
<1> USE DEF DigestInv, DigestTyped
<1>1. /\ sending' = [sending EXCEPT ![r] = NoRun]
      /\ UNCHANGED <<today, enabled, installed, claims, notices, off, revived>>
  BY DEF RunEnds
<1>2. \A q \in Runs \ {r} : sending[q].at = "claimed" => sending[q].day \notin claims'
  BY <1>1 DEF DaysApart
<1>3. InUse'
  BY <1>1 DEF InUse
<1> QED
  BY <1>1, <1>2, <1>3, EndingKeeps

\* The user's phones and the calendar leave runs, claims and notices alone.
LEMMA DevicesKeep ==
  ASSUME DigestInv, NEW p \in Phones,
         RegisterDevice(p) \/ DisableDevice(p) \/ Uninstall(p) \/ DisableAll \/ NextDay
  PROVE  DigestInv'
<1> USE DEF DigestInv, DigestTyped
<1>1. UNCHANGED <<sending, claims, notices>>
  BY DEF RegisterDevice, DisableDevice, Uninstall, DisableAll, NextDay
<1>2. today' \in Nat /\ enabled' \subseteq Phones
  BY DEF RegisterDevice, DisableDevice, Uninstall, DisableAll, NextDay
<1>3. DaysApart' /\ ShownByTheClaimant'
  BY <1>1 DEF DaysApart, ShownByTheClaimant
<1>4. GoneOrRevived' /\ InUse'
  BY <1>1 DEF GoneOrRevived, InUse, RegisterDevice, DisableDevice, Uninstall, DisableAll, NextDay
<1> QED
  BY <1>1, <1>2, <1>3, <1>4

LEMMA DigestInvKept == DigestInv /\ [DigestNext]_digestVars => DigestInv'
<1> SUFFICES ASSUME DigestInv, [DigestNext]_digestVars PROVE DigestInv'
  OBVIOUS
<1>1. CASE UNCHANGED digestVars
  BY <1>1 DEF digestVars, DigestInv, DigestTyped, DaysApart, ShownByTheClaimant, GoneOrRevived, InUse
<1>2. CASE \E r \in Runs : ClaimDay(r) \/ CommitClaim(r) \/ RecordResult(r) \/ RunEnds(r)
  BY <1>2, ClaimDayKeeps, CommitClaimKeeps, RecordResultKeeps, RunEndsKeeps
<1>3. CASE \E r \in Runs, p \in Phones : SendTo(r, p)
  BY <1>3, SendToKeeps
<1>4. CASE \E p \in Phones : RegisterDevice(p) \/ DisableDevice(p) \/ Uninstall(p)
  BY <1>4, DevicesKeep
<1>5. CASE DisableAll \/ NextDay
  <2>1. CASE Phones = {}
    BY <1>5, <2>1 DEF DisableAll, NextDay, DigestInv, DigestTyped, DaysApart,
         ShownByTheClaimant, GoneOrRevived, InUse
  <2>2. CASE Phones # {}
    BY <1>5, <2>2, DevicesKeep
  <2> QED
    BY <2>1, <2>2
<1> QED
  BY <1>1, <1>2, <1>3, <1>4, <1>5 DEF DigestNext

(* OneDigestADay, for any phones, runs and days: a phone shows a day's digest at *)
(* most once, and stays registered while it is in use (notify.py, push.py).      *)
THEOREM OneDigestPerDay == DigestSpec => []OneDigestADay
<1>1. DigestInv => OneDigestADay
  BY DEF DigestInv, ShownByTheClaimant, InUse, OneDigestADay
<1> QED
  BY <1>1, DigestInitInv, DigestInvKept, PTL DEF DigestSpec

--------------------------------------------------------------------------------
(* Purchases: one row for one purchase, or two mails read side by side. *)

RowStates == {"none", "active", "retired"}
ReadingSet == [at : {"idle", "ask", "look", "keep"}, kind : {"none", "bought", "returned", "other"},
               found : BOOLEAN]

PurchasesTyped ==
  /\ status \in [Notices -> {"none", "received", "failed", "added", "nothing_to_add"}]
  /\ reading \in [Notices -> ReadingSet] /\ rows \in [Notices -> RowStates]
  /\ claimed \subseteq Notices

\* One order's mails whose jobs look while another is about to keep looked together;
\* and one that found nothing missed only rows of such a mail.
LooksRecorded ==
  /\ \A m, n \in Notices :
       reading[m].at = "keep" /\ reading[n].at = "keep" /\ m # n => {m, n} \in beside
  /\ \A m, n \in Notices :
       reading[m].at = "keep" /\ ~reading[m].found /\ Order[m] = Order[n] /\ rows[n] # "none" =>
         {m, n} \in beside

PurchaseInv ==
  /\ PurchasesTyped /\ LooksRecorded /\ OneRowPerPurchase
  /\ \A m \in Notices : reading[m].at # "idle" => status[m] = "received"
  /\ \A m \in Notices : status[m] \in {"none", "received"} => rows[m] = "none"

LEMMA PurchasesInitInv == PurchasesInit => PurchaseInv
BY DEF PurchasesInit, PurchaseInv, PurchasesTyped, LooksRecorded, OneRowPerPurchase, NotReading,
       ReadingSet, RowStates

\* A step of one mail's job that leaves every row alone and does not come to keep.
LEMMA ReadingAlone ==
  ASSUME PurchaseInv, NEW m \in Notices, NEW q \in ReadingSet, q.at # "keep",
         NEW s \in {"received", "failed", "added", "nothing_to_add"},
         reading' = [reading EXCEPT ![m] = q], status' = [status EXCEPT ![m] = s],
         UNCHANGED rowVars, q.at # "idle" => s = "received", s = "received" => rows[m] = "none"
  PROVE  PurchaseInv'
<1>1. /\ reading' \in [Notices -> ReadingSet]
      /\ \A n \in Notices : reading'[n] = IF n = m THEN q ELSE reading[n]
      /\ status' \in [Notices -> {"none", "received", "failed", "added", "nothing_to_add"}]
      /\ \A n \in Notices : status'[n] = IF n = m THEN s ELSE status[n]
      /\ UNCHANGED <<rows, claimed, removed, beside>>
  BY DEF PurchaseInv, PurchasesTyped, rowVars
<1>2. PurchasesTyped'
  BY <1>1 DEF PurchaseInv, PurchasesTyped
<1>3. LooksRecorded'
  BY <1>1 DEF PurchaseInv, LooksRecorded
<1>4. OneRowPerPurchase'
  BY <1>1 DEF PurchaseInv, OneRowPerPurchase
<1>5. (\A n \in Notices : reading[n].at # "idle" => status[n] = "received")'
      /\ (\A n \in Notices : status[n] \in {"none", "received"} => rows[n] = "none")'
  BY <1>1 DEF PurchaseInv
<1> QED
  BY <1>2, <1>3, <1>4, <1>5 DEF PurchaseInv

LEMMA LookUpKeeps == ASSUME PurchaseInv, NEW m \in Notices, LookUp(m) PROVE PurchaseInv'
<1> DEFINE missed == \E n \in Notices : Order[n] = Order[m] /\ rows[n] # "none"
           q == [reading[m] EXCEPT !.at = "keep", !.found = missed]
<1>1. reading' = [reading EXCEPT ![m] = q] /\ reading[m] \in ReadingSet /\ reading[m].at = "look"
      /\ UNCHANGED <<status, rows, claimed, removed>>
      /\ beside' = beside \cup {{m, n} : n \in {n \in Notices : reading[n].at = "keep"}}
  BY DEF LookUp, PurchaseInv, PurchasesTyped
<1>2. missed \in BOOLEAN
  OBVIOUS
<1>3. q \in ReadingSet /\ q.at = "keep" /\ q.found = missed
  <2> HIDE DEF missed
  <2> QED
    BY <1>1, <1>2 DEF ReadingSet
<1>4. /\ reading' \in [Notices -> ReadingSet]
      /\ \A n \in Notices : reading'[n] = IF n = m THEN q ELSE reading[n]
  <2> HIDE DEF q
  <2> QED
    BY <1>1, <1>3 DEF PurchaseInv, PurchasesTyped
<1>5. PurchasesTyped'
  BY <1>1, <1>4 DEF PurchaseInv, PurchasesTyped
<1>6. LooksRecorded'
  <2> HIDE DEF q, missed
  <2>1. \A n \in Notices : reading[n].at = "keep" => {m, n} \in beside' /\ {n, m} \in beside'
    <3>1. \A n \in Notices : {n, m} = {m, n}
      OBVIOUS
    <3> QED
      BY <1>1, <3>1
  <2>2. \A k, n \in Notices : {k, n} \in beside => {k, n} \in beside'
    BY <1>1
  <2>3. ~missed => \A n \in Notices : Order[m] = Order[n] => rows[n] = "none"
    BY DEF missed
  <2> QED
    BY <1>1, <1>3, <1>4, <2>1, <2>2, <2>3 DEF PurchaseInv, LooksRecorded
<1>7. OneRowPerPurchase'
  BY <1>1 DEF PurchaseInv, OneRowPerPurchase
<1>8. (\A n \in Notices : reading[n].at # "idle" => status[n] = "received")'
      /\ (\A n \in Notices : status[n] \in {"none", "received"} => rows[n] = "none")'
  BY <1>1, <1>4 DEF PurchaseInv
<1> QED
  BY <1>5, <1>6, <1>7, <1>8 DEF PurchaseInv

LEMMA KeepPurchaseKeeps == ASSUME PurchaseInv, NEW m \in Notices, KeepPurchase(m) PROVE PurchaseInv'
<1>1. CASE reading[m].found
  <2>1. UNCHANGED rowVars /\ status' = [status EXCEPT ![m] = "nothing_to_add"]
        /\ reading' = [reading EXCEPT ![m] = NotReading]
    BY <1>1 DEF KeepPurchase, Finish, rowVars
  <2>2. NotReading \in ReadingSet /\ NotReading.at = "idle"
    BY DEF NotReading, ReadingSet
  <2> QED
    BY <2>1, <2>2, ReadingAlone
<1>2. CASE ~reading[m].found
  <2>1. /\ rows' = [rows EXCEPT ![m] = "active"] /\ status' = [status EXCEPT ![m] = "added"]
        /\ reading' = [reading EXCEPT ![m] = NotReading] /\ reading[m].at = "keep"
        /\ UNCHANGED <<claimed, removed, beside>>
    BY <1>2 DEF KeepPurchase, Finish
  <2>2. PurchasesTyped'
    BY <2>1 DEF PurchaseInv, PurchasesTyped, NotReading, ReadingSet, RowStates
  <2>3. /\ \A n \in Notices : rows'[n] = IF n = m THEN "active" ELSE rows[n]
        /\ \A n \in Notices : reading'[n] = IF n = m THEN NotReading ELSE reading[n]
        /\ \A n \in Notices : status'[n] = IF n = m THEN "added" ELSE status[n]
        /\ NotReading.at = "idle"
    BY <2>1 DEF PurchaseInv, PurchasesTyped, NotReading
  <2>4. LooksRecorded'
    BY <2>1, <2>3 DEF PurchaseInv, LooksRecorded
  <2>5. OneRowPerPurchase'
    <3>1. ASSUME NEW n \in Notices, Order[n] = Order[m], rows[n] # "none"
          PROVE  {m, n} \in beside
      BY <1>2, <2>1, <3>1 DEF PurchaseInv, LooksRecorded
    <3>2. \A n \in Notices : {n, m} = {m, n}
      OBVIOUS
    <3> QED
      BY <2>1, <2>3, <3>1, <3>2 DEF PurchaseInv, OneRowPerPurchase
  <2> QED
    BY <2>2, <2>3, <2>4, <2>5 DEF PurchaseInv
<1> QED
  BY <1>1, <1>2

LEMMA ReverseKeeps == ASSUME PurchaseInv, NEW m \in Notices, Reverse(m) PROVE PurchaseInv'
<1> DEFINE gone == {n \in Notices : /\ reading[m].kind = "returned" /\ Order[n] = Order[m]
                                    /\ rows[n] = "active" /\ n \notin claimed}
<1>1. PICK s \in {"added", "nothing_to_add"} :
        /\ rows' = [n \in Notices |-> IF n \in gone THEN "retired" ELSE rows[n]]
        /\ status' = [status EXCEPT ![m] = s] /\ reading' = [reading EXCEPT ![m] = NotReading]
        /\ UNCHANGED <<claimed, removed, beside>> /\ reading[m].at = "look"
  BY DEF Reverse, Finish
<1>2. \A n \in gone : rows[n] = "active" /\ n \notin claimed
  OBVIOUS
<1> HIDE DEF gone
<1>3. PurchasesTyped'
  BY <1>1 DEF PurchaseInv, PurchasesTyped, NotReading, ReadingSet, RowStates
<1>4. /\ \A n \in Notices : rows'[n] # "none" <=> rows[n] # "none"
      /\ \A n \in claimed \cap Notices : rows'[n] = rows[n]
      /\ \A n \in Notices : reading'[n] = IF n = m THEN NotReading ELSE reading[n]
      /\ \A n \in Notices : status'[n] = IF n = m THEN s ELSE status[n]
      /\ NotReading.at = "idle"
  BY <1>1, <1>2 DEF PurchaseInv, PurchasesTyped, NotReading
<1>5. LooksRecorded'
  BY <1>1, <1>4 DEF PurchaseInv, LooksRecorded
<1>6. OneRowPerPurchase'
  <2>1. claimed \subseteq Notices
    BY DEF PurchaseInv, PurchasesTyped
  <2> QED
    BY <1>1, <1>4, <2>1 DEF PurchaseInv, OneRowPerPurchase
<1>7. (\A n \in Notices : reading[n].at # "idle" => status[n] = "received")'
      /\ (\A n \in Notices : status[n] \in {"none", "received"} => rows[n] = "none")'
  BY <1>1, <1>4 DEF PurchaseInv
<1> QED
  BY <1>3, <1>5, <1>6, <1>7 DEF PurchaseInv

\* What the user does to a row it has.
LEMMA OwnKeeps == ASSUME PurchaseInv, NEW m \in Notices, MakeOwn(m) \/ RemoveOwn(m) PROVE PurchaseInv'
<1>1. CASE MakeOwn(m)
  BY <1>1 DEF MakeOwn, PurchaseInv, PurchasesTyped, LooksRecorded, OneRowPerPurchase
<1>2. CASE RemoveOwn(m)
  <2>1. /\ UNCHANGED <<status, reading, claimed, beside>> /\ removed' = removed \cup {m}
        /\ rows' \in [Notices -> RowStates]
        /\ \A n \in Notices : rows'[n] = IF n = m THEN "retired" ELSE rows[n]
        /\ rows[m] = "active"
    BY <1>2 DEF RemoveOwn, PurchaseInv, PurchasesTyped, RowStates
  <2> QED
    BY <2>1 DEF PurchaseInv, PurchasesTyped, LooksRecorded, OneRowPerPurchase
<1> QED
  BY <1>1, <1>2

LEMMA PurchaseInvKept == PurchaseInv /\ [PurchasesNext]_purchaseVars => PurchaseInv'
<1> SUFFICES ASSUME PurchaseInv, [PurchasesNext]_purchaseVars PROVE PurchaseInv'
  OBVIOUS
<1>0. NotReading \in ReadingSet /\ NotReading.at = "idle"
  BY DEF NotReading, ReadingSet
<1>1. ASSUME NEW m \in Notices, Receive(m) PROVE PurchaseInv'
  BY <1>1 DEF Receive, PurchaseInv, PurchasesTyped, LooksRecorded, OneRowPerPurchase, rowVars
<1>2. ASSUME NEW m \in Notices, CannotRead(m) \/ ReadingRaises(m) \/ ReaderDies(m)
      PROVE  PurchaseInv'
  <2>1. PICK s \in {"received", "failed"} :
          reading' = [reading EXCEPT ![m] = NotReading] /\ status' = [status EXCEPT ![m] = s]
          /\ UNCHANGED rowVars /\ (s = "received" => rows[m] = "none")
    <3>1. status[m] = "received" /\ status = [status EXCEPT ![m] = "received"] /\ rows[m] = "none"
      BY <1>2 DEF PurchaseInv, PurchasesTyped, CannotRead, ReadingRaises, ReaderDies
    <3> QED
      BY <1>2, <3>1 DEF CannotRead, ReadingRaises, ReaderDies, Finish, rowVars
  <2> QED
    BY <1>0, <2>1, ReadingAlone
<1>3. ASSUME NEW m \in Notices, StartReading(m) \/ Extract(m) PROVE PurchaseInv'
  <2>1. CASE UNCHANGED reading
    BY <1>3, <2>1 DEF StartReading, Extract, PurchaseInv, PurchasesTyped, LooksRecorded,
                      OneRowPerPurchase, rowVars
  <2>2. CASE ~UNCHANGED reading
    <3>1. /\ status[m] = "received" /\ status' = [status EXCEPT ![m] = "received"]
          /\ rows[m] = "none" /\ UNCHANGED rowVars /\ reading[m] \in ReadingSet
      BY <1>3, <2>2 DEF StartReading, Extract, PurchaseInv, PurchasesTyped
    <3>2. PICK q \in ReadingSet : q.at # "keep" /\ reading' = [reading EXCEPT ![m] = q]
      <4>1. CASE StartReading(m)
        <5> DEFINE q == [reading[m] EXCEPT !.at = "ask"]
        <5>1. q \in ReadingSet /\ q.at = "ask" /\ reading' = [reading EXCEPT ![m] = q]
          BY <2>2, <3>1, <4>1 DEF StartReading, ReadingSet
        <5> QED
          BY <5>1
      <4>2. CASE Extract(m)
        <5>1. PICK kind \in {Says[m], "other"} :
                reading' = [reading EXCEPT ![m].at = "look", ![m].kind = kind]
          BY <4>2 DEF Extract
        <5> DEFINE q == [reading[m] EXCEPT !.at = "look", !.kind = kind]
        <5>2. q \in ReadingSet /\ q.at = "look"
          BY <3>1, <5>1, SaysAssumption DEF ReadingSet
        <5>3. reading' = [reading EXCEPT ![m] = q]
          BY <5>1 DEF PurchaseInv, PurchasesTyped, ReadingSet
        <5> QED
          BY <5>2, <5>3
      <4> QED
        BY <1>3, <4>1, <4>2
    <3> QED
      BY <3>1, <3>2, ReadingAlone
  <2> QED
    BY <2>1, <2>2
<1>4. CASE UNCHANGED purchaseVars
  BY <1>4 DEF purchaseVars, PurchaseInv, PurchasesTyped, LooksRecorded, OneRowPerPurchase
<1> QED
  BY <1>1, <1>2, <1>3, <1>4, LookUpKeeps, KeepPurchaseKeeps, ReverseKeeps, OwnKeeps
  DEF PurchasesNext

(* One order adds one garment, whatever mails tell of it and in whatever order     *)
(* their jobs run, die and are delivered again, unless two jobs looked before      *)
(* either had inserted; and no mail takes out a garment the user has made theirs.  *)
THEOREM PurchasesAddOnce == PurchasesSpec => []OneRowPerPurchase
<1>1. PurchaseInv => OneRowPerPurchase
  BY DEF PurchaseInv
<1> QED
  BY <1>1, PurchasesInitInv, PurchaseInvKept, PTL DEF PurchasesSpec

--------------------------------------------------------------------------------
(* Order mails: none is passed over. *)

Handed(i) == arrived[i] \in emails \cup beyond

MailTyped ==
  /\ arrived \in Seq(Mails) /\ watermark \in 0..Len(arrived)
  /\ polling \in [on : BOOLEAN, todo : SUBSET DOMAIN arrived, done : SUBSET emails]
  /\ syncing \in [at : {"idle", "list", "accept"}, token : Nat, since : 0..Len(arrived),
                  started : 0..Len(arrived), todo : SUBSET DOMAIN arrived]
  /\ link \in Nat /\ links \in Nat

\* What the sync under way will have handed to the intake when it moves the watermark.
SyncCovers ==
  /\ syncing.at = "list" => \A i \in PlacesOf(Synced) : i <= syncing.since => Handed(i)
  /\ syncing.at = "accept" =>
       \A i \in PlacesOf(Synced) : i <= syncing.started => Handed(i) \/ i \in syncing.todo

MailInv == MailTyped /\ SyncCovers /\ NoMailPassedOver

LEMMA MailInitInv == OrderMailInit => MailInv
BY DEF OrderMailInit, MailInv, MailTyped, SyncCovers, NoMailPassedOver, NoPoll, NoSync, PlacesOf

\* Mails keep their places.
LEMMA ArriveKeeps == ASSUME MailInv, NEW m \in Mails, Arrive(m) PROVE MailInv'
<1>1. /\ arrived \in Seq(Mails) /\ arrived' = Append(arrived, m)
      /\ unread' = IF m \in Synced THEN unread ELSE unread \cup {m}
      /\ UNCHANGED <<polling, link, links, watermark, syncing, beyond, emails>>
  BY DEF Arrive, MailInv, MailTyped
<1>2. /\ arrived' \in Seq(Mails) /\ Len(arrived) \in Nat /\ Len(arrived') = Len(arrived) + 1
      /\ DOMAIN arrived = 1..Len(arrived) /\ DOMAIN arrived' = 1..(Len(arrived) + 1)
      /\ \A i \in DOMAIN arrived : arrived'[i] = arrived[i]
      /\ arrived'[Len(arrived) + 1] = m
  BY <1>1
<1>3. MailTyped'
  <2>1. 0..Len(arrived) \subseteq 0..Len(arrived') /\ DOMAIN arrived \subseteq DOMAIN arrived'
    BY <1>2
  <2> QED
    BY <1>1, <1>2, <2>1 DEF MailInv, MailTyped
<1>4. \A i \in PlacesOf(Synced)' : i <= Len(arrived) => i \in PlacesOf(Synced)
  BY <1>2 DEF PlacesOf
<1>5. syncing.since \in 0..Len(arrived) /\ syncing.started \in 0..Len(arrived)
      /\ watermark \in 0..Len(arrived)
  BY DEF MailInv, MailTyped
<1>6. \A i \in DOMAIN arrived : Handed(i) => Handed(i)'
  BY <1>1, <1>2 DEF Handed
<1>7. SyncCovers'
  <2>1. \A i \in PlacesOf(Synced)' : i \in 1..(Len(arrived) + 1)
    BY <1>2 DEF PlacesOf
  <2>2. \A i \in PlacesOf(Synced) : i \in DOMAIN arrived
    BY DEF PlacesOf
  <2>3. \A i \in PlacesOf(Synced)' : i <= syncing.since => PlacesOf(Synced) # {} /\ i \in PlacesOf(Synced)
    BY <1>2, <1>4, <1>5, <2>1
  <2>4. \A i \in PlacesOf(Synced)' : i <= syncing.started => i \in PlacesOf(Synced)
    BY <1>2, <1>4, <1>5, <2>1
  <2> QED
    BY <1>1, <1>6, <2>2, <2>3, <2>4 DEF MailInv, SyncCovers
<1>8. NoMailPassedOver'
  <2> SUFFICES ASSUME NEW i \in DOMAIN arrived'
               PROVE  /\ arrived'[i] \in Synced => (i <= watermark => arrived'[i] \in emails \cup beyond)
                      /\ arrived'[i] \notin Synced => arrived'[i] \in unread' \cup emails
    BY <1>1 DEF NoMailPassedOver
  <2>1. CASE i \in DOMAIN arrived
    BY <1>1, <1>2, <2>1 DEF MailInv, NoMailPassedOver
  <2>2. CASE i = Len(arrived) + 1
    BY <1>1, <1>2, <1>5, <2>2
  <2> QED
    BY <1>2, <2>1, <2>2
<1> QED
  BY <1>3, <1>7, <1>8 DEF MailInv

\* A mail more is accepted; what the poll and the sync still have to do may shrink by it.
LEMMA AcceptKeeps ==
  ASSUME MailInv, NEW i \in DOMAIN arrived, Accept(arrived[i]),
         UNCHANGED <<arrived, unread, link, links, watermark, beyond>>,
         \/ syncing' = syncing
         \/ syncing' = [syncing EXCEPT !.todo = @ \ {i}],
         \/ polling' = polling
         \/ polling' = [polling EXCEPT !.todo = @ \ {i}, !.done = @ \cup {arrived[i]}]
  PROVE  MailInv'
<1>1. emails' = emails \cup {arrived[i]}
  BY DEF Accept
<1>2. /\ syncing' \in [at : {"idle", "list", "accept"}, token : Nat, since : 0..Len(arrived),
                       started : 0..Len(arrived), todo : SUBSET DOMAIN arrived]
      /\ syncing'.at = syncing.at /\ syncing'.since = syncing.since
      /\ syncing'.started = syncing.started
      /\ \A j \in syncing.todo : j \in syncing'.todo \/ j = i
  BY DEF MailInv, MailTyped
<1>3. polling' \in [on : BOOLEAN, todo : SUBSET DOMAIN arrived, done : SUBSET emails']
  <2>1. polling \in [on : BOOLEAN, todo : SUBSET DOMAIN arrived, done : SUBSET emails]
    BY DEF MailInv, MailTyped
  <2>2. polling \in [on : BOOLEAN, todo : SUBSET DOMAIN arrived, done : SUBSET emails']
    BY <1>1, <2>1
  <2>3. polling.todo \ {i} \in SUBSET DOMAIN arrived
        /\ polling.done \cup {arrived[i]} \in SUBSET emails'
    BY <1>1, <2>2
  <2> QED
    BY <2>2, <2>3
<1>4. MailTyped'
  BY <1>2, <1>3 DEF MailInv, MailTyped
<1>5. \A j \in DOMAIN arrived : (Handed(j) => Handed(j)') /\ (j = i => Handed(j)')
  BY <1>1 DEF Handed
<1>6. SyncCovers'
  BY <1>2, <1>5 DEF MailInv, SyncCovers, PlacesOf
<1>7. NoMailPassedOver'
  BY <1>1 DEF MailInv, NoMailPassedOver
<1> QED
  BY <1>4, <1>6, <1>7 DEF MailInv

LEMMA PollKeepsMail ==
  ASSUME MailInv, FetchUnseen \/ AcceptPolled \/ RefusePolled \/ MarkSeen \/ PollDies PROVE MailInv'
<1>1. CASE FetchUnseen
  <2>1. Oldest(PollBatch, PlacesOf(unread)) \subseteq DOMAIN arrived
    BY DEF Oldest, PlacesOf
  <2>2. polling' \in [on : BOOLEAN, todo : SUBSET DOMAIN arrived, done : SUBSET emails]
    BY <1>1, <2>1 DEF FetchUnseen
  <2> QED
    BY <1>1, <2>2 DEF FetchUnseen, MailInv, MailTyped, SyncCovers, NoMailPassedOver, PlacesOf, Handed
<1>2. CASE AcceptPolled
  <2>1. PICK i \in Oldest(1, polling.todo) :
          /\ Accept(arrived[i])
          /\ polling' = [polling EXCEPT !.todo = @ \ {i}, !.done = @ \cup {arrived[i]}]
    BY <1>2 DEF AcceptPolled
  <2>2. i \in DOMAIN arrived
    BY DEF MailInv, MailTyped, Oldest
  <2> QED
    BY <1>2, <2>1, <2>2, AcceptKeeps DEF AcceptPolled
<1>3. CASE RefusePolled
  <2>1. polling' \in [on : BOOLEAN, todo : SUBSET DOMAIN arrived, done : SUBSET emails]
    BY <1>3 DEF RefusePolled, MailInv, MailTyped
  <2> QED
    BY <1>3, <2>1 DEF RefusePolled, MailInv, MailTyped, SyncCovers, NoMailPassedOver, PlacesOf, Handed
<1>4. CASE MarkSeen \/ PollDies
  <2>1. /\ polling' \in [on : BOOLEAN, todo : SUBSET DOMAIN arrived, done : SUBSET emails]
        /\ unread' = unread \ polling.done \/ unread' = unread
        /\ UNCHANGED <<arrived, link, links, watermark, syncing, beyond, emails>>
    <3>1. NoPoll \in [on : BOOLEAN, todo : SUBSET DOMAIN arrived, done : SUBSET emails]
      BY DEF NoPoll
    <3> QED
      BY <1>4, <3>1 DEF MarkSeen, PollDies
  <2>2. polling.done \subseteq emails
    BY DEF MailInv, MailTyped
  <2>3. NoMailPassedOver'
    BY <2>1, <2>2 DEF MailInv, NoMailPassedOver
  <2> QED
    BY <2>1, <2>3 DEF MailInv, MailTyped, SyncCovers, PlacesOf, Handed
<1> QED
  BY <1>1, <1>2, <1>3, <1>4

LEMMA LinkKeepsMail == ASSUME MailInv, Connect \/ Disconnect \/ GrantDies PROVE MailInv'
<1>1. /\ UNCHANGED <<arrived, unread, polling, syncing, beyond, emails>>
      /\ link' \in Nat /\ links' \in Nat /\ watermark' \in {0, watermark}
  BY DEF Connect, Disconnect, GrantDies, MailInv, MailTyped
<1>2. Len(arrived) \in Nat /\ DOMAIN arrived = 1..Len(arrived)
  BY DEF MailInv, MailTyped
<1>3. NoMailPassedOver'
  BY <1>1, <1>2 DEF MailInv, NoMailPassedOver
<1> QED
  BY <1>1, <1>2, <1>3 DEF MailInv, MailTyped, SyncCovers, PlacesOf, Handed

LEMMA SyncKeepsMail ==
  ASSUME MailInv, BeginSync \/ ListMails \/ AcceptSynced \/ FinishSync \/ DropGrant \/ SyncFails
  PROVE  MailInv'
<1> DEFINE SyncSet == [at : {"idle", "list", "accept"}, token : Nat, since : 0..Len(arrived),
                       started : 0..Len(arrived), todo : SUBSET DOMAIN arrived]
<1>0. /\ syncing \in SyncSet /\ Len(arrived) \in Nat /\ DOMAIN arrived = 1..Len(arrived)
      /\ watermark \in 0..Len(arrived)
  BY DEF MailInv, MailTyped
<1>1. CASE BeginSync
  <2>1. syncing' \in SyncSet /\ syncing'.at = "list" /\ syncing'.since = watermark
    BY <1>0, <1>1 DEF BeginSync, MailInv, MailTyped
  <2>2. SyncCovers'
    BY <1>1, <2>1 DEF BeginSync, MailInv, NoMailPassedOver, SyncCovers, PlacesOf, Handed
  <2> QED
    BY <1>1, <2>1, <2>2 DEF BeginSync, MailInv, MailTyped, NoMailPassedOver
<1>2. CASE ListMails
  <2> DEFINE found == {i \in PlacesOf(Synced) : i > syncing.since}
             listed == Newest(PerRun, found)
  <2>1. /\ syncing' = [syncing EXCEPT !.at = "accept", !.todo = listed]
        /\ beyond' = beyond \cup {arrived[i] : i \in found \ listed}
        /\ UNCHANGED <<arrived, unread, polling, link, links, watermark, emails>>
        /\ syncing.at = "list"
    BY <1>2 DEF ListMails
  <2>2. listed \subseteq DOMAIN arrived
    BY DEF Newest, PlacesOf
  <2> HIDE DEF listed
  <2>3. /\ syncing' \in SyncSet /\ syncing'.at = "accept" /\ syncing'.todo = listed
    BY <1>0, <2>1, <2>2
  <2>4. SyncCovers'
    <3>1. ASSUME NEW i \in PlacesOf(Synced) PROVE Handed(i)' \/ i \in listed
      <4>1. i \in DOMAIN arrived /\ syncing.since \in 0..Len(arrived)
        BY <1>0 DEF PlacesOf
      <4>2. CASE i <= syncing.since
        BY <2>1, <4>2 DEF MailInv, SyncCovers, Handed
      <4>3. CASE i > syncing.since
        BY <2>1, <4>3 DEF Handed
      <4> QED
        BY <1>0, <4>1, <4>2, <4>3
    <3> QED
      BY <2>1, <2>3, <3>1 DEF SyncCovers, PlacesOf
  <2>5. NoMailPassedOver'
    BY <2>1 DEF MailInv, NoMailPassedOver
  <2> QED
    BY <2>1, <2>3, <2>4, <2>5 DEF MailInv, MailTyped
<1>3. CASE AcceptSynced
  <2>1. PICK i \in Newest(1, syncing.todo) :
          Accept(arrived[i]) /\ syncing' = [syncing EXCEPT !.todo = @ \ {i}]
    BY <1>3 DEF AcceptSynced
  <2>2. i \in DOMAIN arrived
    BY <1>0 DEF Newest
  <2> QED
    BY <1>3, <2>1, <2>2, AcceptKeeps DEF AcceptSynced
<1>4. CASE FinishSync
  <2>1. /\ syncing' \in SyncSet /\ syncing'.at = "idle" /\ watermark' = syncing.started
        /\ UNCHANGED <<arrived, unread, polling, link, links, beyond, emails>>
        /\ syncing.at = "accept" /\ syncing.todo = {}
    BY <1>0, <1>4 DEF FinishSync, NoSync
  <2>2. NoMailPassedOver'
    BY <2>1 DEF MailInv, SyncCovers, NoMailPassedOver, PlacesOf, Handed
  <2> QED
    BY <1>0, <2>1, <2>2 DEF MailInv, MailTyped, SyncCovers
<1>5. CASE DropGrant \/ SyncFails
  <2>1. /\ syncing' \in SyncSet /\ syncing'.at = "idle" /\ link' \in Nat
        /\ UNCHANGED <<arrived, unread, polling, links, watermark, beyond, emails>>
    BY <1>0, <1>5 DEF DropGrant, SyncFails, NoSync, MailInv, MailTyped
  <2> QED
    BY <2>1 DEF MailInv, MailTyped, SyncCovers, NoMailPassedOver
<1> QED
  BY <1>1, <1>2, <1>3, <1>4, <1>5

LEMMA MailInvKept == MailInv /\ [OrderMailNext]_mailVars => MailInv'
<1>1. MailInv /\ UNCHANGED mailVars => MailInv'
  BY DEF mailVars, MailInv, MailTyped, SyncCovers, NoMailPassedOver, PlacesOf, Handed
<1> QED
  BY <1>1, ArriveKeeps, PollKeepsMail, LinkKeepsMail, SyncKeepsMail DEF OrderMailNext

(* No mail of a store is passed over, whatever polls and syncs die and however      *)
(* accounts are linked anew: last_synced_at passes only what the intake was handed  *)
(* or a run listed past its limit, and only an accepted mail is marked as seen.     *)
THEOREM MailsAreNotPassedOver == OrderMailSpec => []NoMailPassedOver
<1>1. MailInv => NoMailPassedOver
  BY DEF MailInv
<1> QED
  BY <1>1, MailInitInv, MailInvKept, PTL DEF OrderMailSpec

--------------------------------------------------------------------------------
(* Learning from reactions. *)

(* The n-th of some places *)

Rank(S, i) == Cardinality({k \in S : k <= i})

\* A place comes after as many as are below it, so that two places never share a rank.
LEMMA RankGrows ==
  ASSUME NEW S \in SUBSET Nat, IsFiniteSet(S), NEW i \in S
  PROVE  /\ Rank(S, i) \in 1..Cardinality(S)
         /\ \A j \in S : i < j => Rank(S, i) < Rank(S, j)
<1> DEFINE Below(j) == {k \in S : k <= j}
<1>1. ASSUME NEW j \in S
      PROVE  IsFiniteSet(Below(j)) /\ Rank(S, j) \in Nat /\ Rank(S, j) <= Cardinality(S)
             /\ Cardinality(S) \in Nat
  <2>1. Below(j) \in SUBSET S
    OBVIOUS
  <2>2. IsFiniteSet(Below(j)) /\ Cardinality(Below(j)) <= Cardinality(S)
    BY <2>1, FS_Subset
  <2>3. Cardinality(Below(j)) \in Nat /\ Cardinality(S) \in Nat
    BY <2>2, FS_CardinalityType
  <2> QED
    BY <2>2, <2>3 DEF Rank
<1>2. Rank(S, i) >= 1
  <2>1. {i} \in SUBSET Below(i)
    OBVIOUS
  <2>2. Cardinality({i}) <= Cardinality(Below(i))
    BY <1>1, <2>1, FS_Subset
  <2>3. Cardinality({i}) = 1
    BY FS_Singleton
  <2> QED
    BY <2>2, <2>3 DEF Rank
<1>3. ASSUME NEW j \in S, i < j PROVE Rank(S, i) < Rank(S, j)
  <2>1. Below(i) \cup {j} \in SUBSET Below(j) /\ j \notin Below(i)
    <3>1. i \in Nat /\ j \in Nat /\ \A k \in S : k \in Nat
      OBVIOUS
    <3>2. \A k \in S : k <= i => k <= j
      BY <1>3, <3>1
    <3>3. ~(j <= i) /\ j <= j
      BY <1>3, <3>1
    <3>4. Below(i) \cup {j} \subseteq Below(j)
      BY <3>2, <3>3
    <3>5. j \notin Below(i)
      BY <3>3
    <3> HIDE DEF Below
    <3> QED
      BY <3>4, <3>5
  <2>2. Cardinality(Below(i) \cup {j}) <= Cardinality(Below(j))
    BY <1>1, <2>1, FS_Subset
  <2>3. Cardinality(Below(i) \cup {j}) = Cardinality(Below(i)) + 1
    BY <1>1, <2>1, FS_AddElement
  <2> QED
    BY <1>1, <2>2, <2>3 DEF Rank
<1>4. Rank(S, i) \in 1..Cardinality(S)
  <2>1. Rank(S, i) \in Nat /\ Rank(S, i) <= Cardinality(S) /\ Cardinality(S) \in Nat
    BY <1>1
  <2> HIDE DEF Below
  <2> QED
    BY <1>2, <2>1
<1> HIDE DEF Below
<1> QED
  BY <1>3, <1>4

\* Every place is found again under its rank, and every rank up to their number is taken.
LEMMA NthFound ==
  ASSUME NEW S \in SUBSET Nat, IsFiniteSet(S)
  PROVE  /\ \A i \in S : Nth(S, Rank(S, i)) = i
         /\ \A n \in 1..Cardinality(S) : Nth(S, n) \in S /\ Rank(S, Nth(S, n)) = n
<1>1. \A i, j \in S : Rank(S, i) = Rank(S, j) => i = j
  <2> SUFFICES ASSUME NEW i \in S, NEW j \in S, Rank(S, i) = Rank(S, j) PROVE i = j
    OBVIOUS
  <2>1. Rank(S, i) \in Nat /\ ~(i < j) /\ ~(j < i)
    BY RankGrows
  <2> QED
    BY <2>1
<1>2. ASSUME NEW n \in 1..Cardinality(S) PROVE \E i \in S : Rank(S, i) = n
  <2> DEFINE f == [i \in S |-> Rank(S, i)]
  <2>1. Cardinality(S) \in Nat
    BY FS_CardinalityType
  <2>2. f \in [S -> 1..Cardinality(S)]
    BY RankGrows
  <2>3. f \in Injection(S, 1..Cardinality(S))
    BY <1>1, <2>2 DEF Injection, IsInjective
  <2>4. IsFiniteSet(1..Cardinality(S)) /\ Cardinality(1..Cardinality(S)) = Cardinality(S)
    BY <2>1, FS_Interval
  <2>5. f \in Surjection(S, 1..Cardinality(S))
    BY <2>3, <2>4, FS_Injection
  <2>6. \E i \in S : f[i] = n
    BY <2>5 DEF Surjection
  <2> QED
    BY <2>6
<1>3. \A n : Nth(S, n) = CHOOSE i \in {j \in S : Rank(S, j) = n} : TRUE
  BY DEF Nth, Rank
<1>4. ASSUME NEW n, NEW i \in S, Rank(S, i) = n PROVE Nth(S, n) \in S /\ Rank(S, Nth(S, n)) = n
  <2>1. i \in {j \in S : Rank(S, j) = n}
    BY <1>4
  <2>2. (CHOOSE k \in {j \in S : Rank(S, j) = n} : TRUE) \in {j \in S : Rank(S, j) = n}
    BY <2>1
  <2> QED
    BY <1>3, <2>2
<1> QED
  BY <1>1, <1>2, <1>4

\* A place behind all the others is the last.
LEMMA NthOfMore ==
  ASSUME NEW S \in SUBSET Nat, IsFiniteSet(S), NEW x \in Nat, \A i \in S : i < x
  PROVE  /\ IsFiniteSet(S \cup {x}) /\ Cardinality(S \cup {x}) = Cardinality(S) + 1
         /\ Nth(S \cup {x}, Cardinality(S) + 1) = x
         /\ \A n \in 1..Cardinality(S) : Nth(S \cup {x}, n) = Nth(S, n)
<1> DEFINE T == S \cup {x}
<1>1. IsFiniteSet(T) /\ Cardinality(T) = Cardinality(S) + 1 /\ T \in SUBSET Nat
      /\ Cardinality(S) \in Nat
  <2>1. x \notin S
    OBVIOUS
  <2> QED
    BY <2>1, FS_AddElement, FS_CardinalityType
<1>2. \A i \in S : {k \in T : k <= i} = {k \in S : k <= i}
  OBVIOUS
<1>3. \A i \in S : Rank(T, i) = Rank(S, i)
  BY <1>2 DEF Rank
<1>4. Rank(T, x) = Cardinality(S) + 1
  <2>1. {k \in T : k <= x} = T
    <3>1. \A k \in S : k \in Nat /\ k < x
      OBVIOUS
    <3>2. \A k \in T : k <= x
      BY <3>1
    <3> QED
      BY <3>2
  <2> QED
    BY <1>1, <2>1 DEF Rank
<1>5. Nth(T, Cardinality(S) + 1) = x
  <2>1. x \in T
    OBVIOUS
  <2>2. Nth(T, Rank(T, x)) = x
    BY <1>1, <2>1, NthFound
  <2> QED
    BY <1>4, <2>2
<1>6. ASSUME NEW n \in 1..Cardinality(S) PROVE Nth(T, n) = Nth(S, n)
  <2>1. Nth(S, n) \in S /\ Rank(S, Nth(S, n)) = n
    BY NthFound
  <2>2. Nth(S, n) \in T /\ Rank(T, Nth(S, n)) = n
    BY <1>3, <2>1
  <2>3. Nth(T, Rank(T, Nth(S, n))) = Nth(S, n)
    BY <1>1, <2>2, NthFound
  <2> QED
    BY <2>2, <2>3
<1> QED
  BY <1>1, <1>5, <1>6

--------------------------------------------------------------------------------
(* The invariant *)

FoldSet == Reactions \X SUBSET Taught
Counts == [liked : Nat, disliked : Nat]
TxSet == [at : {"idle", "load", "save", "arm", "count", "commit", "done", "lost"},
          seen : SUBSET Taught, fold : Seq(FoldSet), count : Counts]

LearnTyped ==
  /\ begun \in Seq(Reactions) /\ logged \subseteq Reactions
  /\ vector \in Seq(FoldSet) /\ rebuilding \in Seq(FoldSet)
  /\ arms \in [Arms -> Counts] /\ reacting \in [Reactions -> TxSet]

\* A reaction begins once; its rows are committed when it is done.
LogSound ==
  /\ \A i, j \in DOMAIN begun : begun[i] = begun[j] => i = j
  /\ \A e \in Reactions : reacting[e].at # "idle" => \E i \in DOMAIN begun : begun[i] = e
  /\ \A i \in DOMAIN begun : reacting[begun[i]].at # "idle"
  /\ \A e \in Reactions : e \in logged <=> reacting[e].at = "done"
  /\ \A e \in Reactions : reacting[e].at # "idle" => reacting[e].seen \subseteq Worn[e] \cap embedded

\* Writers that are at work at once have overlapped.
OverlapsRecorded ==
  /\ \A e, f \in Open : e # f => {e, f} \in together
  /\ rebuilding # <<>> => \A e \in Open : {e, Rebuild} \in together

\* A sequence of folds folds no reaction twice and only logged ones; what it lacks
\* had nothing embedded or was written beside another.
Once(s) == \A i, j \in DOMAIN s : s[i][1] = s[j][1] => i = j
OfTheLog(s) == \A i \in DOMAIN s : s[i][1] \in logged
LacksFew(s) ==
  \A e \in logged : \/ \E i \in DOMAIN s : s[i][1] = e
                    \/ reacting[e].seen = {}
                    \/ Beside(e)
FoldSound(s) == Once(s) /\ OfTheLog(s) /\ LacksFew(s)

Folding(e) == reacting[e].seen # {} /\ reacting[e].at \in {"save", "arm", "count", "commit"}
FoldsSound ==
  /\ FoldSound(vector)
  /\ rebuilding # <<>> => FoldSound(rebuilding)
  /\ \A e \in Reactions : Folding(e) =>
       \E v \in Seq(FoldSet) :
         reacting[e].fold = Append(v, <<e, reacting[e].seen>>) /\ FoldSound(v)

\* Without overlaps and late embeddings the vector is what the script would write.
NoneLate == \A e \in logged : reacting[e].seen = Worn[e] \cap embedded
LikeReplay ==
  together = {} /\ NoneLate =>
    /\ vector = Replay
    /\ rebuilding # <<>> => rebuilding = Replay /\ Open = {}
    /\ \A e \in Open : begun[Len(begun)] = e
    /\ \A e \in Open : Folding(e) => reacting[e].fold = Append(Replay, <<e, reacting[e].seen>>)

\* Who counts holds the vector's row, or has left it alone.
Ballots(k) == Voters(k, "like") \cup Voters(k, "dislike")
Miscounted(e) ==
  \E f \in Ballots(Code[e]) : /\ e # f /\ {e, f} \in together
                              /\ reacting[e].seen = {} \/ reacting[f].seen = {}
ArmExact(k) ==
  /\ arms[k].liked = Cardinality(Voters(k, "like"))
  /\ arms[k].disliked = Cardinality(Voters(k, "dislike"))
ArmExcused(k) == \E e, f \in Ballots(k) : e # f /\ {e, f} \in together /\ reacting[e].seen = {}
CountsSound ==
  /\ \A e \in Reactions : reacting[e].seen # {} /\ reacting[e].at \in {"arm", "count", "commit"} =>
       vectorLock = e
  /\ \A e \in Reactions : reacting[e].at \in {"count", "commit"} /\ Votes(e) =>
       reacting[e].count = Counted(e, arms[Code[e]]) \/ Miscounted(e)
  /\ \A k \in Arms : ArmExact(k) \/ ArmExcused(k)

LearnInv == LearnTyped /\ LogSound /\ OverlapsRecorded /\ FoldsSound /\ LikeReplay /\ CountsSound

LEMMA LearningIsSound == LearnInv => LearningSound
<1> SUFFICES ASSUME LearnInv PROVE LearningSound
  OBVIOUS
<1>1. \A i, j \in DOMAIN vector : vector[i][1] = vector[j][1] => i = j
  BY DEF LearnInv, FoldsSound, FoldSound, Once
<1>2. \A i \in DOMAIN vector : vector[i][1] \in logged
  BY DEF LearnInv, FoldsSound, FoldSound, OfTheLog
<1>3. \A e \in logged : \/ \E i \in DOMAIN vector : vector[i][1] = e
                        \/ reacting[e].seen = {}
                        \/ Beside(e)
  BY DEF LearnInv, FoldsSound, FoldSound, LacksFew
<1>4. together = {} /\ (\A e \in logged : reacting[e].seen = Worn[e] \cap embedded) => vector = Replay
  BY DEF LearnInv, LikeReplay, NoneLate
<1>5. \A k \in Arms : ArmExact(k) \/ ArmExcused(k)
  BY DEF LearnInv, CountsSound
<1> QED
  BY <1>1, <1>2, <1>3, <1>4, <1>5 DEF LearningSound, ArmExact, ArmExcused, Ballots

--------------------------------------------------------------------------------
(* The replay of the log *)

LoggedPlaces == {i \in DOMAIN begun : begun[i] \in logged /\ Worn[begun[i]] \cap embedded # {}}

LEMMA PlacesFinite ==
  ASSUME LearnTyped
  PROVE  /\ LoggedPlaces \in SUBSET Nat /\ IsFiniteSet(LoggedPlaces) /\ Cardinality(LoggedPlaces) \in Nat
         /\ \A i \in LoggedPlaces : i <= Len(begun)
         /\ \A i \in DOMAIN begun : begun[i] \in Reactions
         /\ Len(begun) \in Nat /\ DOMAIN begun = 1..Len(begun)
<1>1. Len(begun) \in Nat /\ DOMAIN begun = 1..Len(begun) /\ \A i \in DOMAIN begun : begun[i] \in Reactions
  BY DEF LearnTyped
<1>2. LoggedPlaces \in SUBSET (1..Len(begun)) /\ IsFiniteSet(1..Len(begun))
  BY <1>1, FS_Interval DEF LoggedPlaces
<1>3. IsFiniteSet(LoggedPlaces)
  BY <1>2, FS_Subset
<1> QED
  BY <1>1, <1>2, <1>3, FS_CardinalityType

LEMMA ReplayUnfolds ==
  ASSUME LearnTyped
  PROVE  Replay = [n \in 1..Cardinality(LoggedPlaces) |->
                     <<begun[Nth(LoggedPlaces, n)], Worn[begun[Nth(LoggedPlaces, n)]] \cap embedded>>]
<1> DEFINE seen == [e \in Reactions |-> Worn[e] \cap embedded]
           places == {i \in DOMAIN begun : begun[i] \in logged /\ seen[begun[i]] # {}}
<1>1. \A i \in DOMAIN begun : seen[begun[i]] = Worn[begun[i]] \cap embedded
  BY PlacesFinite
<1>2. places = LoggedPlaces
  BY <1>1 DEF LoggedPlaces
<1>3. Replay = [n \in 1..Cardinality(places) |->
                  <<begun[Nth(places, n)], seen[begun[Nth(places, n)]]>>]
  BY DEF Replay, Folded
<1>4. \A n \in 1..Cardinality(LoggedPlaces) : Nth(LoggedPlaces, n) \in DOMAIN begun
  <2>1. \A n \in 1..Cardinality(LoggedPlaces) : Nth(LoggedPlaces, n) \in LoggedPlaces
    BY PlacesFinite, NthFound
  <2> QED
    BY <2>1 DEF LoggedPlaces
<1> HIDE DEF seen, places
<1> QED
  BY <1>1, <1>2, <1>3, <1>4

LEMMA ReplaySound ==
  ASSUME LearnTyped, LogSound
  PROVE  /\ Replay \in Seq(FoldSet) /\ FoldSound(Replay) /\ Len(Replay) = Cardinality(LoggedPlaces)
         /\ \A n \in 1..Cardinality(LoggedPlaces) :
              Replay[n] = <<begun[Nth(LoggedPlaces, n)], Worn[begun[Nth(LoggedPlaces, n)]] \cap embedded>>
<1>1. /\ \A n \in 1..Cardinality(LoggedPlaces) : Nth(LoggedPlaces, n) \in LoggedPlaces /\ Rank(LoggedPlaces, Nth(LoggedPlaces, n)) = n
      /\ \A i \in LoggedPlaces : Nth(LoggedPlaces, Rank(LoggedPlaces, i)) = i /\ Rank(LoggedPlaces, i) \in 1..Cardinality(LoggedPlaces)
  BY PlacesFinite, NthFound, RankGrows
<1>2. /\ \A n \in 1..Cardinality(LoggedPlaces) :
           Replay[n] = <<begun[Nth(LoggedPlaces, n)], Worn[begun[Nth(LoggedPlaces, n)]] \cap embedded>>
      /\ DOMAIN Replay = 1..Cardinality(LoggedPlaces)
  BY ReplayUnfolds
<1>3. \A i \in LoggedPlaces : i \in DOMAIN begun /\ begun[i] \in logged /\ begun[i] \in Reactions
  BY PlacesFinite DEF LoggedPlaces
<1>4. Replay \in Seq(FoldSet) /\ Len(Replay) = Cardinality(LoggedPlaces)
  <2>1. \A n \in 1..Cardinality(LoggedPlaces) :
          <<begun[Nth(LoggedPlaces, n)], Worn[begun[Nth(LoggedPlaces, n)]] \cap embedded>> \in FoldSet
    BY <1>1, <1>3 DEF FoldSet, Taught
  <2>2. Cardinality(LoggedPlaces) \in Nat
    BY PlacesFinite
  <2> QED
    BY <2>1, <2>2, ReplayUnfolds
<1>5. Once(Replay)
  <2> SUFFICES ASSUME NEW m \in 1..Cardinality(LoggedPlaces), NEW n \in 1..Cardinality(LoggedPlaces),
                      Replay[m][1] = Replay[n][1]
               PROVE  m = n
    BY <1>2 DEF Once
  <2>1. begun[Nth(LoggedPlaces, m)] = begun[Nth(LoggedPlaces, n)]
    BY <1>2
  <2>2. Nth(LoggedPlaces, m) = Nth(LoggedPlaces, n)
    BY <1>1, <1>3, <2>1 DEF LogSound
  <2> QED
    BY <1>1, <2>2
<1>6. OfTheLog(Replay)
  BY <1>1, <1>2, <1>3 DEF OfTheLog
<1>7. LacksFew(Replay)
  <2> SUFFICES ASSUME NEW e \in logged, reacting[e].seen # {}
               PROVE  \E n \in DOMAIN Replay : Replay[n][1] = e
    BY DEF LacksFew
  <2>1. e \in Reactions /\ reacting[e].at # "idle" /\ Worn[e] \cap embedded # {}
    BY DEF LearnTyped, LogSound
  <2>2. PICK i \in DOMAIN begun : begun[i] = e
    BY <2>1 DEF LogSound
  <2>3. i \in LoggedPlaces
    BY <2>1, <2>2 DEF LoggedPlaces
  <2> QED
    BY <1>1, <1>2, <2>2, <2>3
<1> QED
  BY <1>2, <1>4, <1>5, <1>6, <1>7 DEF FoldSound

LEMMA ReplayUnfoldsThen ==
  LearnTyped' => Replay' = [n \in 1..Cardinality(LoggedPlaces') |->
                   <<begun'[Nth(LoggedPlaces', n)], Worn[begun'[Nth(LoggedPlaces', n)]] \cap embedded'>>]
<1>1. LearnTyped => Replay = [n \in 1..Cardinality(LoggedPlaces) |->
        <<begun[Nth(LoggedPlaces, n)], Worn[begun[Nth(LoggedPlaces, n)]] \cap embedded>>]
  BY ReplayUnfolds
<1>2. (LearnTyped => Replay = [n \in 1..Cardinality(LoggedPlaces) |->
        <<begun[Nth(LoggedPlaces, n)], Worn[begun[Nth(LoggedPlaces, n)]] \cap embedded>>])'
  BY <1>1, PTL
<1> QED
  BY <1>2

\* The replay is of the logged places and what is embedded of their outfits.
LEMMA ReplayKept ==
  ASSUME LearnTyped, LearnTyped', LoggedPlaces' = LoggedPlaces,
         \A i \in LoggedPlaces : begun'[i] = begun[i]
                           /\ Worn[begun[i]] \cap embedded' = Worn[begun[i]] \cap embedded
  PROVE  Replay' = Replay
<1>1. \A n \in 1..Cardinality(LoggedPlaces) : Nth(LoggedPlaces, n) \in LoggedPlaces
  BY PlacesFinite, NthFound
<1>2. Replay = [n \in 1..Cardinality(LoggedPlaces) |->
        <<begun[Nth(LoggedPlaces, n)], Worn[begun[Nth(LoggedPlaces, n)]] \cap embedded>>]
  BY ReplayUnfolds
<1>3. Replay' = [n \in 1..Cardinality(LoggedPlaces) |->
        <<begun'[Nth(LoggedPlaces, n)], Worn[begun'[Nth(LoggedPlaces, n)]] \cap embedded'>>]
  BY ReplayUnfoldsThen
<1>4. \A n \in 1..Cardinality(LoggedPlaces) :
        <<begun'[Nth(LoggedPlaces, n)], Worn[begun'[Nth(LoggedPlaces, n)]] \cap embedded'>>
        = <<begun[Nth(LoggedPlaces, n)], Worn[begun[Nth(LoggedPlaces, n)]] \cap embedded>>
  BY <1>1
<1> QED
  BY <1>2, <1>3, <1>4

\* The last that began is logged last.
LEMMA ReplayGrows ==
  ASSUME LearnTyped, LearnTyped', LogSound, NEW e \in Reactions, e \notin logged,
         UNCHANGED <<begun, embedded>>, logged' = logged \cup {e},
         begun # <<>>, begun[Len(begun)] = e
  PROVE  /\ Worn[e] \cap embedded = {} => Replay' = Replay
         /\ Worn[e] \cap embedded # {} => Replay' = Append(Replay, <<e, Worn[e] \cap embedded>>)
<1> DEFINE last == Len(begun)
           N == Cardinality(LoggedPlaces)
           fold == <<e, Worn[e] \cap embedded>>
<1>1. /\ last \in DOMAIN begun /\ last \in Nat /\ last \notin LoggedPlaces
      /\ \A i \in DOMAIN begun : begun[i] = e => i = last
      /\ N \in Nat /\ LoggedPlaces \in SUBSET Nat /\ IsFiniteSet(LoggedPlaces)
  <2>1. last \in Nat /\ last # 0 /\ DOMAIN begun = 1..last
    BY DEF LearnTyped
  <2>2. last \in DOMAIN begun
    BY <2>1
  <2>3. \A i \in DOMAIN begun : begun[i] = e => i = last
    BY <2>2 DEF LogSound
  <2> QED
    BY <2>1, <2>2, <2>3, PlacesFinite DEF LoggedPlaces
<1>2. \A i \in LoggedPlaces : i < last
  <2>1. \A i \in LoggedPlaces : i \in Nat /\ i <= last /\ i # last
    BY <1>1, PlacesFinite
  <2> QED
    BY <1>1, <2>1
<1>3. CASE Worn[e] \cap embedded = {}
  <2>1. LoggedPlaces' = LoggedPlaces
    BY <1>1, <1>3 DEF LoggedPlaces
  <2> QED
    BY <1>3, <2>1, ReplayKept
<1>4. CASE Worn[e] \cap embedded # {}
  <2>1. LoggedPlaces' = LoggedPlaces \cup {last}
    BY <1>1, <1>4 DEF LoggedPlaces
  <2>2. /\ Cardinality(LoggedPlaces') = N + 1 /\ Nth(LoggedPlaces', N + 1) = last
        /\ \A n \in 1..N : Nth(LoggedPlaces', n) = Nth(LoggedPlaces, n)
    BY <1>1, <1>2, <2>1, NthOfMore
  <2>3. Replay' = [n \in 1..(N + 1) |->
          <<begun[Nth(LoggedPlaces', n)], Worn[begun[Nth(LoggedPlaces', n)]] \cap embedded>>]
    BY <2>2, ReplayUnfoldsThen
  <2>4. Replay \in Seq(FoldSet) /\ Len(Replay) = N
        /\ \A n \in 1..N :
             Replay[n] = <<begun[Nth(LoggedPlaces, n)], Worn[begun[Nth(LoggedPlaces, n)]] \cap embedded>>
    BY ReplaySound
  <2>6. Append(Replay, fold) = [n \in 1..(N + 1) |-> IF n = N + 1 THEN fold ELSE Replay[n]]
    BY <2>4
  <2>7. \A n \in 1..(N + 1) : n \in 1..N \/ n = N + 1
    BY <1>1
  <2>8. \A n \in 1..N : n # N + 1
    BY <1>1
  <2>9. Replay' = [n \in 1..(N + 1) |-> IF n = N + 1 THEN fold ELSE Replay[n]]
    <3>1. \A n \in 1..(N + 1) :
            <<begun[Nth(LoggedPlaces', n)], Worn[begun[Nth(LoggedPlaces', n)]] \cap embedded>>
            = IF n = N + 1 THEN fold ELSE Replay[n]
      BY <1>1, <2>2, <2>4, <2>7, <2>8
    <3> QED
      BY <2>3, <3>1
  <2> QED
    BY <2>6, <2>9, <1>4
<1> QED
  BY <1>3, <1>4

--------------------------------------------------------------------------------
(* What a step leaves *)

LEMMA BesideGrows ==
  ASSUME together \subseteq together' PROVE \A e : Beside(e) => Beside(e)'
BY DEF Beside

\* Nothing is logged: what was sound stays so, and the sequences are made of such.
LEMMA FoldsKept ==
  ASSUME LearnInv, LearnTyped', logged' = logged, together \subseteq together',
         \A e \in logged : reacting'[e].seen = reacting[e].seen,
         FoldSound(vector'),
         rebuilding' # <<>> => FoldSound(rebuilding'),
         \A e \in Reactions : Folding(e)' =>
           \/ /\ Folding(e) /\ reacting'[e].fold = reacting[e].fold
              /\ reacting'[e].seen = reacting[e].seen
           \/ reacting'[e].fold = Append(vector, <<e, reacting'[e].seen>>)
  PROVE  FoldsSound'
<1>1. ASSUME NEW s, FoldSound(s)
      PROVE  /\ \A i, j \in DOMAIN s : s[i][1] = s[j][1] => i = j
             /\ \A i \in DOMAIN s : s[i][1] \in logged'
             /\ \A e \in logged' : \/ \E i \in DOMAIN s : s[i][1] = e
                                   \/ reacting'[e].seen = {}
                                   \/ Beside(e)'
  BY <1>1, BesideGrows DEF FoldSound, Once, OfTheLog, LacksFew
<1>2. FoldSound(vector)'
  BY <1>1 DEF FoldSound, Once, OfTheLog, LacksFew
<1>3. (rebuilding # <<>> => FoldSound(rebuilding))'
  BY <1>1 DEF FoldSound, Once, OfTheLog, LacksFew
<1>4. ASSUME NEW e \in Reactions, Folding(e)'
      PROVE  (\E v \in Seq(FoldSet) :
                reacting[e].fold = Append(v, <<e, reacting[e].seen>>) /\ FoldSound(v))'
  <2>1. PICK v \in Seq(FoldSet) :
          reacting'[e].fold = Append(v, <<e, reacting'[e].seen>>) /\ FoldSound(v)
    BY <1>4 DEF LearnInv, FoldsSound, LearnTyped
  <2>2. FoldSound(v)'
    BY <1>1, <2>1 DEF FoldSound, Once, OfTheLog, LacksFew
  <2> QED
    BY <2>1, <2>2
<1> QED
  BY <1>2, <1>3, <1>4 DEF FoldsSound

LEMMA CountsKept ==
  ASSUME LearnInv, UNCHANGED <<logged, arms>>, together \subseteq together',
         \A e \in logged : reacting'[e].seen = reacting[e].seen,
         \A e \in Reactions :
           reacting'[e].seen # {} /\ reacting'[e].at \in {"arm", "count", "commit"} =>
             vectorLock' = e,
         \A e \in Reactions : reacting'[e].at \in {"count", "commit"} /\ Votes(e) =>
           \/ reacting'[e].count = Counted(e, arms[Code[e]])
           \/ /\ reacting[e].at \in {"count", "commit"} /\ reacting'[e].count = reacting[e].count
              /\ reacting'[e].seen = reacting[e].seen
  PROVE  CountsSound'
<1>1. \A k, v : Voters(k, v)' = Voters(k, v)
  BY DEF Voters
<1>2. \A k : Ballots(k)' = Ballots(k) /\ Ballots(k) \subseteq logged
  BY DEF Ballots, Voters
<1>3. \A k \in Arms : ArmExact(k)' \/ ArmExcused(k)'
  BY <1>1, <1>2 DEF LearnInv, CountsSound, ArmExact, ArmExcused
<1>4. ASSUME NEW e \in Reactions, reacting'[e].at \in {"count", "commit"}, Votes(e)
      PROVE  (reacting[e].count = Counted(e, arms[Code[e]]))' \/ Miscounted(e)'
  <2>1. CASE reacting'[e].count = Counted(e, arms[Code[e]])
    BY <2>1 DEF Counted
  <2>2. CASE /\ reacting[e].at \in {"count", "commit"} /\ reacting'[e].count = reacting[e].count
             /\ reacting'[e].seen = reacting[e].seen
    <3>1. Miscounted(e) => Miscounted(e)'
      BY <1>2, <2>2 DEF Miscounted
    <3>2. reacting[e].count = Counted(e, arms[Code[e]]) \/ Miscounted(e)
      BY <1>4, <2>2 DEF LearnInv, CountsSound
    <3> QED
      BY <2>2, <3>1, <3>2 DEF Counted
  <2> QED
    BY <1>4, <2>1, <2>2
<1> QED
  BY <1>3, <1>4 DEF CountsSound, Votes

\* Whatever neither begins nor logs a reaction, nor embeds a garment of the log.
LEMMA SettledKept ==
  ASSUME LearnInv, LearnTyped', logged' = logged,
         \A e \in logged : reacting'[e].seen = reacting[e].seen,
         \A i \in DOMAIN begun : i \in DOMAIN begun' /\ begun'[i] = begun[i],
         \A i \in DOMAIN begun' : i \in DOMAIN begun \/ begun'[i] \notin logged,
         \/ embedded' = embedded
         \/ \E g : embedded' = embedded \cup {g}
  PROVE  NoneLate' => NoneLate /\ Replay' = Replay
<1> SUFFICES ASSUME NoneLate' PROVE NoneLate /\ Replay' = Replay
  OBVIOUS
<1>1. \A e \in logged : e \in Reactions /\ Worn[e] \cap embedded' = Worn[e] \cap embedded
                        /\ reacting[e].seen = Worn[e] \cap embedded
  <2> SUFFICES ASSUME NEW e \in logged
               PROVE  e \in Reactions /\ Worn[e] \cap embedded' = Worn[e] \cap embedded
                      /\ reacting[e].seen = Worn[e] \cap embedded
    OBVIOUS
  <2>1. e \in Reactions /\ reacting[e].at # "idle"
    BY DEF LearnInv, LearnTyped, LogSound
  <2>2. reacting[e].seen \subseteq Worn[e] \cap embedded
    BY <2>1 DEF LearnInv, LogSound
  <2>3. reacting[e].seen = Worn[e] \cap embedded'
    BY DEF NoneLate
  <2> QED
    BY <2>1, <2>2, <2>3
<1>2. LoggedPlaces' = LoggedPlaces
  BY <1>1 DEF LoggedPlaces
<1>3. \A i \in LoggedPlaces : begun'[i] = begun[i]
                        /\ Worn[begun[i]] \cap embedded' = Worn[begun[i]] \cap embedded
  BY <1>1 DEF LoggedPlaces
<1>4. LearnTyped
  BY DEF LearnInv
<1> QED
  BY <1>1, <1>2, <1>3, <1>4, ReplayKept DEF NoneLate

--------------------------------------------------------------------------------
(* The steps *)

LEMMA InitSound == LearningInit => LearnInv
<1> SUFFICES ASSUME LearningInit PROVE LearnInv
  OBVIOUS
<1>1. LearnTyped
  <2>1. arms \in [Arms -> Counts]
    BY DEF LearningInit, Counts
  <2>2. reacting \in [Reactions -> TxSet]
    <3> DEFINE q == [at |-> "idle", seen |-> {}, fold |-> <<>>,
                     count |-> [liked |-> 0, disliked |-> 0]]
    <3>1. q.count \in Counts /\ q.seen \in SUBSET Taught /\ q.fold \in Seq(FoldSet)
      BY DEF Counts
    <3>2. q \in TxSet
      BY <3>1 DEF TxSet
    <3> QED
      BY <3>2 DEF LearningInit
  <2> QED
    BY <2>1, <2>2 DEF LearningInit, LearnTyped
<1>2. LogSound
  BY DEF LearningInit, LogSound
<1>3. Open = {}
  BY DEF LearningInit, Open
<1>4. OverlapsRecorded
  BY <1>3 DEF OverlapsRecorded
<1>5. FoldsSound
  BY DEF LearningInit, FoldsSound, FoldSound, Once, OfTheLog, LacksFew, Folding
<1>6. LikeReplay
  <2>1. LoggedPlaces = {}
    BY DEF LoggedPlaces, LearningInit
  <2>2. Replay = <<>>
    <3>1. Cardinality(LoggedPlaces) = 0
      BY <2>1, FS_EmptySet
    <3>2. Replay \in Seq(FoldSet) /\ Len(Replay) = 0
      BY <1>1, <1>2, <3>1, ReplaySound
    <3> QED
      BY <3>2
  <2> QED
    BY <1>3, <2>2 DEF LearningInit, LikeReplay
<1>7. CountsSound
  <2>1. \A k, v : Voters(k, v) = {}
    BY DEF LearningInit, Voters
  <2>2. \A k \in Arms : ArmExact(k)
    BY <2>1, FS_EmptySet DEF LearningInit, ArmExact
  <2> QED
    BY <2>2 DEF LearningInit, CountsSound
<1> QED
  BY <1>1, <1>2, <1>4, <1>5, <1>6, <1>7 DEF LearnInv

\* A step of one open transaction that commits nothing.
LEMMA TransactionStep ==
  ASSUME LearnInv, NEW e \in Open, NEW q \in TxSet,
         reacting' = [reacting EXCEPT ![e] = q],
         q.seen = reacting[e].seen, q.at \notin {"idle", "done"},
         UNCHANGED <<embedded, begun, logged, vector, arms, rebuilding, together>>,
         q.seen # {} /\ q.at \in {"save", "arm", "count", "commit"} =>
           \/ q.fold = reacting[e].fold /\ reacting[e].at \in {"save", "arm", "count", "commit"}
           \/ q.fold = Append(vector, <<e, q.seen>>),
         q.at \in {"count", "commit"} /\ Votes(e) =>
           \/ q.count = reacting[e].count /\ reacting[e].at \in {"count", "commit"}
           \/ q.count = Counted(e, arms[Code[e]]),
         q.seen # {} /\ q.at \in {"arm", "count", "commit"} => vectorLock' = e,
         \A f \in Reactions : f # e /\ vectorLock = f => vectorLock' = f
  PROVE  LearnInv'
<1>1. e \in Reactions /\ reacting[e].at \notin {"idle", "done"} /\ e \notin logged
  BY DEF Open, LearnInv, LogSound
<1>2. reacting'[e] = q /\ \A f \in Reactions : f # e => reacting'[f] = reacting[f]
  BY <1>1 DEF LearnInv, LearnTyped
<1>3. LearnTyped'
  <2>1. reacting' \in [Reactions -> TxSet]
    BY <1>1 DEF LearnInv, LearnTyped
  <2> QED
    BY <2>1 DEF LearnInv, LearnTyped, Counts, FoldSet
<1>4. \A f \in Reactions : reacting'[f].seen = reacting[f].seen
  BY <1>2
<1>5. \A f \in Reactions : (reacting'[f].at = "idle" <=> reacting[f].at = "idle")
                           /\ (reacting'[f].at = "done" <=> reacting[f].at = "done")
  BY <1>1, <1>2
<1>6. LogSound'
  <2>1. \A i \in DOMAIN begun : begun[i] \in Reactions
    BY PlacesFinite DEF LearnInv
  <2> QED
    BY <1>4, <1>5, <2>1 DEF LearnInv, LogSound
<1>7. Open' \subseteq Open
  BY <1>2 DEF Open
<1>8. OverlapsRecorded'
  BY <1>7 DEF LearnInv, OverlapsRecorded
<1>9. \A f \in Reactions : Folding(f)' =>
        \/ /\ Folding(f) /\ reacting'[f].fold = reacting[f].fold
           /\ reacting'[f].seen = reacting[f].seen
        \/ reacting'[f].fold = Append(vector, <<f, reacting'[f].seen>>)
  <2> SUFFICES ASSUME NEW f \in Reactions, Folding(f)'
               PROVE  \/ /\ Folding(f) /\ reacting'[f].fold = reacting[f].fold
                         /\ reacting'[f].seen = reacting[f].seen
                      \/ reacting'[f].fold = Append(vector, <<f, reacting'[f].seen>>)
    OBVIOUS
  <2>1. CASE f = e
    BY <1>2, <2>1 DEF Folding
  <2>2. CASE f # e
    BY <1>2, <2>2 DEF Folding
  <2> QED
    BY <2>1, <2>2
<1>10. \A f \in logged : reacting'[f].seen = reacting[f].seen
  BY <1>4 DEF LearnInv, LearnTyped
<1>11. FoldsSound'
  <2>1. FoldSound(vector') /\ (rebuilding' # <<>> => FoldSound(rebuilding'))
    BY DEF LearnInv, FoldsSound
  <2>2. logged' = logged /\ together \subseteq together'
    OBVIOUS
  <2> QED
    BY <1>3, <1>9, <1>10, <2>1, <2>2, FoldsKept
<1>12. LikeReplay'
  <2>1. NoneLate' => NoneLate /\ Replay' = Replay
    <3>1. /\ \A i \in DOMAIN begun : i \in DOMAIN begun' /\ begun'[i] = begun[i]
          /\ \A i \in DOMAIN begun' : i \in DOMAIN begun \/ begun'[i] \notin logged
      OBVIOUS
    <3> QED
      BY <1>3, <1>10, <3>1, SettledKept
  <2> SUFFICES ASSUME together = {}, NoneLate'
               PROVE  /\ vector = Replay'
                      /\ rebuilding # <<>> => rebuilding = Replay' /\ Open' = {}
                      /\ \A f \in Open' : begun[Len(begun)] = f
                      /\ \A f \in Open' : Folding(f)' =>
                           reacting'[f].fold = Append(Replay', <<f, reacting'[f].seen>>)
    BY DEF LikeReplay
  <2>2. /\ vector = Replay
        /\ rebuilding # <<>> => rebuilding = Replay /\ Open = {}
        /\ \A f \in Open : begun[Len(begun)] = f
        /\ \A f \in Open : Folding(f) => reacting[f].fold = Append(Replay, <<f, reacting[f].seen>>)
    BY <2>1 DEF LearnInv, LikeReplay
  <2>3. \A f \in Open' : f \in Open /\ f \in Reactions
    BY <1>7 DEF Open
  <2> QED
    BY <1>9, <2>1, <2>2, <2>3
<1>13. CountsSound'
  <2>1. \A f \in Reactions :
          reacting'[f].seen # {} /\ reacting'[f].at \in {"arm", "count", "commit"} =>
            vectorLock' = f
    BY <1>2 DEF LearnInv, CountsSound
  <2>2. \A f \in Reactions : reacting'[f].at \in {"count", "commit"} /\ Votes(f) =>
          \/ reacting'[f].count = Counted(f, arms[Code[f]])
          \/ /\ reacting[f].at \in {"count", "commit"} /\ reacting'[f].count = reacting[f].count
             /\ reacting'[f].seen = reacting[f].seen
    BY <1>2, <1>4
  <2>3. UNCHANGED <<logged, arms>> /\ together \subseteq together'
    OBVIOUS
  <2> QED
    BY <1>10, <2>1, <2>2, <2>3, CountsKept
<1> QED
  BY <1>3, <1>6, <1>8, <1>11, <1>12, <1>13 DEF LearnInv

LEMMA TxOf ==
  ASSUME LearnTyped, NEW e \in Reactions
  PROVE  /\ reacting[e] \in TxSet
         /\ reacting[e].seen \in SUBSET Taught /\ reacting[e].fold \in Seq(FoldSet)
         /\ reacting[e].count \in Counts
         /\ reacting[e] = [at |-> reacting[e].at, seen |-> reacting[e].seen,
                           fold |-> reacting[e].fold, count |-> reacting[e].count]
BY DEF LearnTyped, TxSet

LEMMA LoadStyleSound == ASSUME LearnInv, NEW e \in Reactions, LoadStyle(e) PROVE LearnInv'
<1> DEFINE at == IF reacting[e].seen = {} THEN "arm" ELSE "save"
           fold == IF reacting[e].seen = {} THEN <<>> ELSE Append(vector, <<e, reacting[e].seen>>)
           q == [reacting[e] EXCEPT !.at = at, !.fold = fold]
<1>1. LearnTyped
  BY DEF LearnInv
<1>2. q \in TxSet
  <2>1. <<e, reacting[e].seen>> \in FoldSet /\ vector \in Seq(FoldSet)
    BY <1>1, TxOf DEF FoldSet, LearnTyped
  <2>2. fold \in Seq(FoldSet)
    BY <2>1
  <2>3. at \in {"arm", "save"}
    OBVIOUS
  <2> HIDE DEF at, fold
  <2> QED
    BY <1>1, <2>2, <2>3, TxOf DEF TxSet
<1>3. reacting' = [reacting EXCEPT ![e] = q]
  BY <1>1, TxOf DEF LoadStyle, LearnTyped
<1>4. e \in Open
  BY DEF LoadStyle, Open
<1>5. /\ q.seen = reacting[e].seen /\ q.at \notin {"idle", "done", "count", "commit"}
      /\ q.seen # {} /\ q.at \in {"save", "arm", "count", "commit"} =>
           q.fold = Append(vector, <<e, q.seen>>)
      /\ ~(q.seen # {} /\ q.at \in {"arm", "count", "commit"})
  BY <1>1, TxOf DEF TxSet
<1>6. UNCHANGED <<embedded, begun, logged, vector, arms, rebuilding, together, vectorLock>>
  BY DEF LoadStyle
<1> HIDE DEF q
<1> QED
  BY <1>2, <1>3, <1>4, <1>5, <1>6, TransactionStep

LEMMA SaveStyleSound == ASSUME LearnInv, NEW e \in Reactions, SaveStyle(e) PROVE LearnInv'
<1> DEFINE q == [reacting[e] EXCEPT !.at = "arm"]
<1>1. LearnTyped
  BY DEF LearnInv
<1>2. q \in TxSet
  BY <1>1, TxOf DEF TxSet
<1>3. reacting' = [reacting EXCEPT ![e] = q]
  BY <1>1, TxOf DEF SaveStyle, LearnTyped
<1>4. e \in Open /\ reacting[e].at = "save"
  BY DEF SaveStyle, Open
<1>5. q.seen = reacting[e].seen /\ q.at = "arm" /\ q.fold = reacting[e].fold
  BY <1>1, TxOf DEF TxSet
<1>6. UNCHANGED <<embedded, begun, logged, vector, arms, rebuilding, together>>
  BY DEF SaveStyle
<1>7. vectorLock = Unheld /\ vectorLock' = e /\ \A f \in Reactions : f # Unheld
  BY ReactionsAssumption DEF SaveStyle
<1> HIDE DEF q
<1> QED
  BY <1>2, <1>3, <1>4, <1>5, <1>6, <1>7, TransactionStep

LEMMA CountedTyped ==
  ASSUME NEW e, NEW c \in Counts
  PROVE  /\ Counted(e, c) \in Counts
         /\ Verdict[e] = "like" => Counted(e, c).liked = c.liked + 1 /\ Counted(e, c).disliked = c.disliked
         /\ Verdict[e] # "like" => Counted(e, c).liked = c.liked /\ Counted(e, c).disliked = c.disliked + 1
BY DEF Counted, Counts

LEMMA ReadArmSound == ASSUME LearnInv, NEW e \in Reactions, ReadArm(e) PROVE LearnInv'
<1> DEFINE at == IF Votes(e) THEN "count" ELSE "commit"
           count == Counted(e, arms[Code[e]])
           q == [reacting[e] EXCEPT !.at = at, !.count = count]
<1>1. LearnTyped
  BY DEF LearnInv
<1>2. q \in TxSet
  <2>1. count \in Counts
    BY <1>1, CountedTyped DEF LearnTyped, Arms
  <2>2. at \in {"count", "commit"}
    OBVIOUS
  <2> HIDE DEF at, count
  <2> QED
    BY <1>1, <2>1, <2>2, TxOf DEF TxSet
<1>3. reacting' = [reacting EXCEPT ![e] = q]
  BY <1>1, TxOf DEF ReadArm, LearnTyped
<1>4. e \in Open /\ reacting[e].at = "arm"
  BY DEF ReadArm, Open
<1>5. /\ q.seen = reacting[e].seen /\ q.at \in {"count", "commit"}
      /\ q.fold = reacting[e].fold /\ q.count = Counted(e, arms[Code[e]])
  BY <1>1, TxOf DEF TxSet
<1>6. UNCHANGED <<embedded, begun, logged, vector, arms, rebuilding, together, vectorLock>>
  BY DEF ReadArm
<1>7. q.seen # {} => vectorLock = e
  BY <1>4, <1>5 DEF LearnInv, CountsSound
<1> HIDE DEF q
<1> QED
  BY <1>2, <1>3, <1>4, <1>5, <1>6, <1>7, TransactionStep

LEMMA WriteArmSound == ASSUME LearnInv, NEW e \in Reactions, WriteArm(e) PROVE LearnInv'
<1> DEFINE q == [reacting[e] EXCEPT !.at = "commit"]
<1>1. LearnTyped
  BY DEF LearnInv
<1>2. q \in TxSet
  BY <1>1, TxOf DEF TxSet
<1>3. reacting' = [reacting EXCEPT ![e] = q]
  BY <1>1, TxOf DEF WriteArm, LearnTyped
<1>4. e \in Open /\ reacting[e].at = "count"
  BY DEF WriteArm, Open
<1>5. q.seen = reacting[e].seen /\ q.at = "commit" /\ q.fold = reacting[e].fold
      /\ q.count = reacting[e].count
  BY <1>1, TxOf DEF TxSet
<1>6. UNCHANGED <<embedded, begun, logged, vector, arms, rebuilding, together, vectorLock>>
  BY DEF WriteArm
<1>7. q.seen # {} => vectorLock = e
  BY <1>4, <1>5 DEF LearnInv, CountsSound
<1> HIDE DEF q
<1> QED
  BY <1>2, <1>3, <1>4, <1>5, <1>6, <1>7, TransactionStep

LEMMA RollBackSound == ASSUME LearnInv, NEW e \in Reactions, RollBack(e) PROVE LearnInv'
<1> DEFINE q == [reacting[e] EXCEPT !.at = "lost"]
<1>1. LearnTyped
  BY DEF LearnInv
<1>2. q \in TxSet
  BY <1>1, TxOf DEF TxSet
<1>3. reacting' = [reacting EXCEPT ![e] = q]
  BY <1>1, TxOf DEF RollBack, LearnTyped
<1>4. e \in Open
  BY DEF RollBack
<1>5. q.seen = reacting[e].seen /\ q.at = "lost"
  BY <1>1, TxOf DEF TxSet
<1>6. UNCHANGED <<embedded, begun, logged, vector, arms, rebuilding, together>>
  BY DEF RollBack
<1>7. \A f \in Reactions : f # e /\ vectorLock = f => vectorLock' = f
  BY DEF RollBack, Unlock
<1> HIDE DEF q
<1> QED
  BY <1>2, <1>3, <1>4, <1>5, <1>6, <1>7, TransactionStep

LEMMA RecordEventSound == ASSUME LearnInv, NEW e \in Reactions, RecordEvent(e) PROVE LearnInv'
<1> DEFINE q == [reacting[e] EXCEPT !.at = "load", !.seen = Worn[e] \cap embedded]
<1>1. LearnTyped
  BY DEF LearnInv
<1>2. q \in TxSet
  <2>1. Worn[e] \cap embedded \in SUBSET Taught
    BY DEF Taught
  <2> QED
    BY <1>1, <2>1, TxOf DEF TxSet
<1>3. reacting' = [reacting EXCEPT ![e] = q]
  BY <1>1, TxOf DEF RecordEvent, LearnTyped
<1>4. reacting[e].at = "idle" /\ e \notin logged /\ e \notin Open
  BY DEF RecordEvent, LearnInv, LogSound, Open
<1>5. q.seen = Worn[e] \cap embedded /\ q.at = "load"
  BY <1>1, TxOf DEF TxSet
<1>6. UNCHANGED <<embedded, logged, vector, arms, rebuilding, vectorLock>>
  BY DEF RecordEvent
<1>7. together' = together \cup {{e, w} : w \in Writers} /\ begun' = Append(begun, e)
  BY DEF RecordEvent
<1> HIDE DEF q
<1>8. reacting'[e] = q /\ \A f \in Reactions : f # e => reacting'[f] = reacting[f]
  BY <1>1, <1>3 DEF LearnTyped
<1>9. LearnTyped'
  <2>1. reacting' \in [Reactions -> TxSet] /\ begun' \in Seq(Reactions)
    BY <1>1, <1>2, <1>3, <1>7 DEF LearnTyped
  <2> QED
    BY <1>1, <1>6, <2>1 DEF LearnTyped, Counts, FoldSet
<1>10. /\ Len(begun) \in Nat /\ DOMAIN begun = 1..Len(begun)
       /\ Len(begun') = Len(begun) + 1 /\ DOMAIN begun' = 1..(Len(begun) + 1)
       /\ \A i \in DOMAIN begun : begun'[i] = begun[i] /\ begun[i] \in Reactions /\ begun[i] # e
       /\ begun'[Len(begun) + 1] = e
       /\ \A i \in DOMAIN begun' : i \in DOMAIN begun \/ i = Len(begun) + 1
       /\ \A i \in DOMAIN begun : i \in DOMAIN begun'
       /\ Len(begun) + 1 \in DOMAIN begun'
  <2>1. /\ Len(begun) \in Nat /\ DOMAIN begun = 1..Len(begun)
        /\ \A i \in DOMAIN begun : begun[i] \in Reactions
    BY <1>1, PlacesFinite
  <2>2. \A i \in DOMAIN begun : begun[i] # e
    BY <1>4 DEF LearnInv, LogSound
  <2>3. begun \in Seq(Reactions)
    BY <1>1 DEF LearnTyped
  <2>4. Len(begun') = Len(begun) + 1 /\ DOMAIN begun' = 1..(Len(begun) + 1)
        /\ begun'[Len(begun) + 1] = e /\ \A i \in 1..Len(begun) : begun'[i] = begun[i]
    BY <1>7, <2>1, <2>3
  <2> QED
    BY <2>1, <2>2, <2>4
<1>11. \A f \in logged : f \in Reactions /\ f # e /\ reacting'[f].seen = reacting[f].seen
  BY <1>1, <1>4, <1>8 DEF LearnTyped
<1>12. LogSound'
  <2>1. \A i, j \in DOMAIN begun' : begun'[i] = begun'[j] => i = j
    BY <1>10 DEF LearnInv, LogSound
  <2>2. \A f \in Reactions : reacting'[f].at # "idle" => \E i \in DOMAIN begun' : begun'[i] = f
    BY <1>8, <1>10 DEF LearnInv, LogSound
  <2>3. \A i \in DOMAIN begun' : reacting'[begun'[i]].at # "idle"
    BY <1>5, <1>8, <1>10 DEF LearnInv, LogSound
  <2>4. \A f \in Reactions : f \in logged' <=> reacting'[f].at = "done"
    BY <1>4, <1>5, <1>6, <1>8 DEF LearnInv, LogSound
  <2>5. \A f \in Reactions : reacting'[f].at # "idle" => reacting'[f].seen \subseteq Worn[f] \cap embedded'
    BY <1>5, <1>6, <1>8 DEF LearnInv, LogSound
  <2> QED
    BY <2>1, <2>2, <2>3, <2>4, <2>5 DEF LogSound
<1>13. \A f \in Open' : f = e \/ f \in Open
  BY <1>8 DEF Open
<1>14. OverlapsRecorded'
  <2>1. \A w \in Writers : {e, w} \in together'
    BY <1>7
  <2>2. Open \subseteq Writers /\ (rebuilding # <<>> => Rebuild \in Writers)
    BY DEF Writers
  <2>3. \A f, g \in Open' : f # g => {f, g} \in together'
    <3> SUFFICES ASSUME NEW f \in Open', NEW g \in Open', f # g PROVE {f, g} \in together'
      OBVIOUS
    <3>1. {f, g} = {g, f}
      OBVIOUS
    <3> QED
      BY <1>7, <1>13, <2>1, <2>2, <3>1 DEF LearnInv, OverlapsRecorded
  <2>4. rebuilding' # <<>> => \A f \in Open' : {f, Rebuild} \in together'
    BY <1>6, <1>7, <1>13, <2>1, <2>2 DEF LearnInv, OverlapsRecorded
  <2> QED
    BY <2>3, <2>4 DEF OverlapsRecorded
<1>15. FoldsSound'
  <2>1. FoldSound(vector') /\ (rebuilding' # <<>> => FoldSound(rebuilding'))
    BY <1>6 DEF LearnInv, FoldsSound
  <2>2. \A f \in Reactions : Folding(f)' =>
          /\ Folding(f) /\ reacting'[f].fold = reacting[f].fold
          /\ reacting'[f].seen = reacting[f].seen
    BY <1>5, <1>8 DEF Folding
  <2> QED
    BY <1>6, <1>7, <1>9, <1>11, <2>1, <2>2, FoldsKept
<1>16. LikeReplay'
  <2>1. NoneLate' => NoneLate /\ Replay' = Replay
    <3>1. \A i \in DOMAIN begun' : i \in DOMAIN begun \/ begun'[i] \notin logged
      BY <1>4, <1>10
    <3> QED
      BY <1>6, <1>9, <1>10, <1>11, <3>1, SettledKept
  <2>2. together' = {} => together = {} /\ Open = {} /\ rebuilding = <<>>
    <3>1. \A w \in Writers : {e, w} \in together'
      BY <1>7
    <3> QED
      BY <1>7, <3>1 DEF Writers
  <2>3. ~Folding(e)'
    BY <1>5, <1>8 DEF Folding
  <2>4. \A f \in Open' : together' = {} => f = e
    BY <1>13, <2>2
  <2>5. begun'[Len(begun')] = e
    BY <1>10
  <2>6. together' = {} /\ NoneLate' => vector' = Replay'
    BY <1>6, <2>1, <2>2 DEF LearnInv, LikeReplay
  <2>7. together' = {} => rebuilding' = <<>>
    BY <1>6, <2>2
  <2> QED
    BY <2>3, <2>4, <2>5, <2>6, <2>7 DEF LikeReplay
<1>17. CountsSound'
  <2>1. \A f \in Reactions :
          reacting'[f].seen # {} /\ reacting'[f].at \in {"arm", "count", "commit"} =>
            vectorLock' = f
    BY <1>5, <1>6, <1>8 DEF LearnInv, CountsSound
  <2>2. \A f \in Reactions : reacting'[f].at \in {"count", "commit"} /\ Votes(f) =>
          /\ reacting[f].at \in {"count", "commit"} /\ reacting'[f].count = reacting[f].count
          /\ reacting'[f].seen = reacting[f].seen
    BY <1>5, <1>8
  <2> QED
    BY <1>6, <1>7, <1>11, <2>1, <2>2, CountsKept
<1> QED
  BY <1>9, <1>12, <1>14, <1>15, <1>16, <1>17 DEF LearnInv

\* Nothing happens to the transactions and the log.
LEMMA RestingStep ==
  ASSUME LearnInv, UNCHANGED <<begun, logged, reacting, vectorLock, arms>>,
         \/ embedded' = embedded
         \/ \E g : embedded' = embedded \cup {g},
         together \subseteq together',
         vector' \in Seq(FoldSet), rebuilding' \in Seq(FoldSet),
         FoldSound(vector'), rebuilding' # <<>> => FoldSound(rebuilding'),
         rebuilding' # <<>> => \A e \in Open : {e, Rebuild} \in together',
         together' = {} /\ NoneLate => vector' = Replay,
         together' = {} /\ NoneLate /\ rebuilding' # <<>> => rebuilding' = Replay /\ Open = {}
  PROVE  LearnInv'
<1>1. LearnTyped'
  BY DEF LearnInv, LearnTyped, TxSet, FoldSet, Counts
<1>2. Open' = Open
  BY DEF Open
<1>3. embedded \subseteq embedded'
  OBVIOUS
<1>4. LogSound'
  BY <1>3 DEF LearnInv, LogSound
<1>5. OverlapsRecorded'
  BY <1>2 DEF LearnInv, OverlapsRecorded
<1>6. FoldsSound'
  <2>1. \A e \in Reactions : Folding(e)' =>
          /\ Folding(e) /\ reacting'[e].fold = reacting[e].fold
          /\ reacting'[e].seen = reacting[e].seen
    BY DEF Folding
  <2>2. \A e \in logged : reacting'[e].seen = reacting[e].seen
    OBVIOUS
  <2> QED
    BY <1>1, <2>1, <2>2, FoldsKept
<1>7. LikeReplay'
  <2>1. NoneLate' => NoneLate /\ Replay' = Replay
    BY <1>1, SettledKept
  <2>2. together' = {} => together = {}
    OBVIOUS
  <2>3. together' = {} /\ NoneLate' =>
          \A e \in Open' : begun'[Len(begun')] = e
    BY <1>2, <2>1, <2>2 DEF LearnInv, LikeReplay
  <2>4. together' = {} /\ NoneLate' =>
          \A e \in Open' : Folding(e)' =>
            reacting'[e].fold = Append(Replay', <<e, reacting'[e].seen>>)
    BY <1>2, <2>1, <2>2 DEF LearnInv, LikeReplay, Folding
  <2> QED
    BY <1>2, <2>1, <2>3, <2>4 DEF LikeReplay
<1>8. CountsSound'
  <2>1. \A e \in Reactions :
          reacting'[e].seen # {} /\ reacting'[e].at \in {"arm", "count", "commit"} =>
            vectorLock' = e
    BY DEF LearnInv, CountsSound
  <2>2. \A e \in logged : reacting'[e].seen = reacting[e].seen
    OBVIOUS
  <2>3. \A e \in Reactions : reacting'[e].at \in {"count", "commit"} /\ Votes(e) =>
          /\ reacting[e].at \in {"count", "commit"} /\ reacting'[e].count = reacting[e].count
          /\ reacting'[e].seen = reacting[e].seen
    OBVIOUS
  <2> QED
    BY <2>1, <2>2, <2>3, CountsKept
<1> QED
  BY <1>1, <1>4, <1>5, <1>6, <1>7, <1>8 DEF LearnInv

LEMMA StartRebuildSound == ASSUME LearnInv, StartRebuild PROVE LearnInv'
<1>1. LearnTyped /\ LogSound
  BY DEF LearnInv
<1>2. rebuilding' = Replay /\ Replay \in Seq(FoldSet) /\ FoldSound(Replay)
  BY <1>1, ReplaySound DEF StartRebuild
<1>3. /\ UNCHANGED <<begun, logged, reacting, vectorLock, arms, embedded, vector>>
      /\ together' = together \cup {{Rebuild, e} : e \in Open}
  BY DEF StartRebuild
<1>4. together \subseteq together' /\ (together' = {} => together = {} /\ Open = {})
  <2>1. \A e \in Open : {Rebuild, e} \in together'
    BY <1>3
  <2> QED
    BY <1>3, <2>1
<1>5. \A e \in Open : {e, Rebuild} \in together'
  <2>1. \A e \in Open : {e, Rebuild} = {Rebuild, e}
    OBVIOUS
  <2> QED
    BY <1>3, <2>1
<1>6. vector' \in Seq(FoldSet) /\ FoldSound(vector')
  BY <1>3 DEF LearnInv, LearnTyped, FoldsSound
<1>7. together' = {} /\ NoneLate => vector' = Replay
  BY <1>3, <1>4 DEF LearnInv, LikeReplay
<1> QED
  BY <1>2, <1>3, <1>4, <1>5, <1>6, <1>7, RestingStep

LEMMA PersistRebuildSound == ASSUME LearnInv, PersistRebuild PROVE LearnInv'
<1>1. /\ UNCHANGED <<begun, logged, reacting, vectorLock, arms, embedded, together>>
      /\ rebuilding # <<>> /\ vector' = rebuilding /\ rebuilding' = <<>>
  BY DEF PersistRebuild
<1>2. vector' \in Seq(FoldSet) /\ FoldSound(vector') /\ rebuilding' \in Seq(FoldSet)
  BY <1>1 DEF LearnInv, LearnTyped, FoldsSound
<1>3. together' = {} /\ NoneLate => vector' = Replay
  BY <1>1 DEF LearnInv, LikeReplay
<1> QED
  BY <1>1, <1>2, <1>3, RestingStep

LEMMA ElsewhereSound ==
  ASSUME LearnInv,
         \/ DropRebuild
         \/ \E g \in Taught : EmbedLate(g) \/ TakeAway(g)
         \/ UNCHANGED learningVars
  PROVE  LearnInv'
<1>1. /\ UNCHANGED <<begun, logged, reacting, vectorLock, arms, vector, together>>
      /\ rebuilding' = rebuilding \/ rebuilding' = <<>>
      /\ embedded' = embedded \/ \E g : embedded' = embedded \cup {g}
  BY DEF DropRebuild, EmbedLate, TakeAway, learningVars
<1>2. vector' \in Seq(FoldSet) /\ FoldSound(vector') /\ rebuilding' \in Seq(FoldSet)
      /\ (rebuilding' # <<>> => FoldSound(rebuilding'))
  <2>1. vector' \in Seq(FoldSet) /\ FoldSound(vector')
    BY <1>1 DEF LearnInv, LearnTyped, FoldsSound
  <2>2. rebuilding \in Seq(FoldSet) /\ <<>> \in Seq(FoldSet)
    BY DEF LearnInv, LearnTyped
  <2>3. rebuilding # <<>> => FoldSound(rebuilding)
    BY DEF LearnInv, FoldsSound
  <2> QED
    BY <1>1, <2>1, <2>2, <2>3
<1>3. /\ together' = {} /\ NoneLate => vector' = Replay
      /\ together' = {} /\ NoneLate /\ rebuilding' # <<>> => rebuilding' = Replay /\ Open = {}
  BY <1>1 DEF LearnInv, LikeReplay
<1>4. rebuilding' # <<>> => \A e \in Open : {e, Rebuild} \in together'
  BY <1>1 DEF LearnInv, OverlapsRecorded
<1>5. together \subseteq together'
  BY <1>1
<1> QED
  BY <1>1, <1>2, <1>3, <1>4, <1>5, RestingStep

\* One more vote is counted from what the transaction read of the counters.
LEMMA VoteCounts ==
  ASSUME LearnInv, NEW e \in Reactions, CommitReaction(e)
  PROVE  CountsSound'
<1>1. LearnTyped
  BY DEF LearnInv
<1>2. reacting[e].at = "commit" /\ e \notin logged /\ e \in Open /\ logged' = logged \cup {e}
      /\ together' = together
  BY DEF CommitReaction, LearnInv, LogSound, Open
<1>3. /\ \A f \in Reactions : f # e => reacting'[f] = reacting[f]
      /\ \A f \in Reactions : reacting'[f].seen = reacting[f].seen
      /\ reacting'[e].at = "done"
  BY <1>1 DEF CommitReaction, LearnTyped, TxSet
<1>4. \A k : Ballots(k) \subseteq Ballots(k)' /\ Ballots(k) \subseteq logged /\ logged \subseteq Reactions
  BY <1>1, <1>2 DEF Ballots, Voters, LearnTyped
<1>5. /\ Votes(e) => e \in Ballots(Code[e])'
      /\ arms' = IF Votes(e) THEN [arms EXCEPT ![Code[e]] = reacting[e].count] ELSE arms
      /\ arms \in [Arms -> Counts] /\ Code[e] \in Arms
  BY <1>1, <1>2 DEF Ballots, Voters, Votes, CommitReaction, LearnTyped, Arms
<1>6. ASSUME NEW f \in Reactions, reacting'[f].seen # {},
             reacting'[f].at \in {"arm", "count", "commit"}
      PROVE  vectorLock' = f
  <2>1. f # e /\ vectorLock = f
    BY <1>3, <1>6 DEF LearnInv, CountsSound
  <2> QED
    BY <2>1 DEF CommitReaction, Unlock
<1>7. ASSUME NEW f \in Reactions, reacting'[f].at \in {"count", "commit"}, Votes(f)
      PROVE  reacting'[f].count = Counted(f, arms'[Code[f]]) \/ Miscounted(f)'
  <2>1. f # e /\ reacting[f].at \in {"count", "commit"} /\ reacting'[f] = reacting[f] /\ f \in Open
    BY <1>3, <1>7 DEF Open
  <2>2. {f, e} \in together
    BY <1>2, <2>1 DEF LearnInv, OverlapsRecorded
  <2>3. reacting[f].count = Counted(f, arms[Code[f]]) \/ Miscounted(f)
    BY <1>7, <2>1 DEF LearnInv, CountsSound
  <2>4. Miscounted(f) => Miscounted(f)'
    BY <1>2, <1>3, <1>4 DEF Miscounted
  <2>5. CASE Votes(e) /\ Code[e] = Code[f]
    <3>1. reacting[f].seen = {} \/ reacting[e].seen = {}
      BY <1>2, <2>1 DEF LearnInv, CountsSound
    <3>2. e \in Ballots(Code[f])'
      BY <1>5, <2>5
    <3> QED
      BY <1>2, <1>3, <2>1, <2>2, <3>1, <3>2 DEF Miscounted
  <2>6. CASE ~(Votes(e) /\ Code[e] = Code[f])
    <3>1. arms'[Code[f]] = arms[Code[f]]
      BY <1>5, <2>6 DEF Arms
    <3> QED
      BY <2>1, <2>3, <2>4, <3>1
  <2> QED
    BY <2>5, <2>6
<1>8. ASSUME NEW k \in Arms PROVE ArmExact(k)' \/ ArmExcused(k)'
  <2>1. ArmExact(k) \/ ArmExcused(k)
    BY DEF LearnInv, CountsSound
  <2>2. ArmExcused(k) => ArmExcused(k)'
    BY <1>2, <1>3, <1>4 DEF ArmExcused
  <2>3. CASE ~(Votes(e) /\ Code[e] = k)
    <3>1. arms'[k] = arms[k]
      BY <1>5, <2>3
    <3>2. Voters(k, "like")' = Voters(k, "like") /\ Voters(k, "dislike")' = Voters(k, "dislike")
      BY <1>2, <2>3 DEF Voters, Votes
    <3> QED
      BY <2>1, <2>2, <3>1, <3>2 DEF ArmExact
  <2>4. CASE Votes(e) /\ Code[e] = k /\ Miscounted(e)
    <3>1. PICK f \in Ballots(k) : /\ e # f /\ {e, f} \in together
                                  /\ reacting[e].seen = {} \/ reacting[f].seen = {}
      BY <2>4 DEF Miscounted
    <3>2. e \in Ballots(k)' /\ f \in Ballots(k)' /\ {f, e} \in together'
          /\ reacting'[f].seen = reacting[f].seen /\ reacting'[e].seen = reacting[e].seen
      <4>1. {f, e} = {e, f}
        OBVIOUS
      <4> QED
        BY <1>2, <1>3, <1>4, <1>5, <2>4, <3>1, <4>1
    <3> QED
      BY <1>2, <3>1, <3>2 DEF ArmExcused
  <2>5. CASE Votes(e) /\ Code[e] = k /\ ~Miscounted(e) /\ ArmExact(k)
    <3>1. reacting[e].count = Counted(e, arms[k])
      BY <1>2, <2>5 DEF LearnInv, CountsSound
    <3>2. arms'[k] = Counted(e, arms[k]) /\ arms[k] \in Counts
      BY <1>5, <2>5, <3>1
    <3>3. IsFiniteSet(Voters(k, "like")) /\ IsFiniteSet(Voters(k, "dislike"))
      <4>1. Voters(k, "like") \in SUBSET Reactions /\ Voters(k, "dislike") \in SUBSET Reactions
        BY <1>4 DEF Voters
      <4> QED
        BY <4>1, FS_Subset, ReactionsAssumption
    <3>4. e \notin Voters(k, "like") /\ e \notin Voters(k, "dislike")
      BY <1>2 DEF Voters
    <3>5. CASE Verdict[e] = "like"
      <4>1. Voters(k, "like")' = Voters(k, "like") \cup {e} /\ Voters(k, "dislike")' = Voters(k, "dislike")
        BY <1>2, <2>5, <3>5 DEF Voters
      <4>2. Cardinality(Voters(k, "like")') = Cardinality(Voters(k, "like")) + 1
        BY <3>3, <3>4, <4>1, FS_AddElement
      <4> QED
        BY <2>5, <3>2, <3>5, <4>1, <4>2, CountedTyped DEF ArmExact
    <3>6. CASE Verdict[e] = "dislike"
      <4>1. Voters(k, "dislike")' = Voters(k, "dislike") \cup {e} /\ Voters(k, "like")' = Voters(k, "like")
        BY <1>2, <2>5, <3>6 DEF Voters
      <4>2. Cardinality(Voters(k, "dislike")') = Cardinality(Voters(k, "dislike")) + 1
        BY <3>3, <3>4, <4>1, FS_AddElement
      <4> QED
        BY <2>5, <3>2, <3>6, <4>1, <4>2, CountedTyped DEF ArmExact
    <3> QED
      BY <2>5, <3>5, <3>6 DEF Votes
  <2> QED
    BY <2>1, <2>2, <2>3, <2>4, <2>5
<1> QED
  BY <1>6, <1>7, <1>8 DEF CountsSound, Votes, Counted

LEMMA CommitReactionSound == ASSUME LearnInv, NEW e \in Reactions, CommitReaction(e) PROVE LearnInv'
<1>1. LearnTyped
  BY DEF LearnInv
<1>2. reacting[e].at = "commit" /\ e \notin logged /\ e \in Open /\ logged' = logged \cup {e}
      /\ UNCHANGED <<embedded, begun, rebuilding, together>>
  BY DEF CommitReaction, LearnInv, LogSound, Open
<1>3. /\ \A f \in Reactions : f # e => reacting'[f] = reacting[f]
      /\ \A f \in Reactions : reacting'[f].seen = reacting[f].seen
      /\ reacting'[e].at = "done"
  BY <1>1 DEF CommitReaction, LearnTyped, TxSet
<1>4. vector' = (IF reacting[e].seen = {} THEN vector ELSE reacting[e].fold)
  BY DEF CommitReaction
<1>5. LearnTyped'
  <2>1. reacting' \in [Reactions -> TxSet]
    <3> DEFINE q == [reacting[e] EXCEPT !.at = "done"]
    <3>1. q \in TxSet
      BY <1>1, TxOf DEF TxSet
    <3>2. reacting' = [reacting EXCEPT ![e] = q]
      BY <1>1, TxOf DEF CommitReaction, LearnTyped
    <3> HIDE DEF q
    <3> QED
      BY <1>1, <3>1, <3>2 DEF LearnTyped
  <2>2. arms' \in [Arms -> Counts]
    <3>1. reacting[e].count \in Counts
      BY <1>1, TxOf
    <3> QED
      BY <1>1, <3>1 DEF CommitReaction, LearnTyped
  <2>3. vector' \in Seq(FoldSet)
    BY <1>1, <1>4, TxOf DEF LearnTyped
  <2> QED
    BY <1>1, <1>2, <2>1, <2>2, <2>3 DEF LearnTyped
<1>6. LogSound'
  <2>1. \A i \in DOMAIN begun : begun[i] \in Reactions
    BY <1>1, PlacesFinite
  <2>2. \A f \in Reactions : f \in logged' <=> reacting'[f].at = "done"
    BY <1>2, <1>3 DEF LearnInv, LogSound
  <2>3. \A f \in Reactions : reacting'[f].at = "idle" <=> reacting[f].at = "idle"
    BY <1>2, <1>3
  <2> QED
    BY <1>2, <1>3, <2>1, <2>2, <2>3 DEF LearnInv, LogSound
<1>7. Open' \subseteq Open /\ e \notin Open'
  BY <1>3 DEF Open
<1>8. OverlapsRecorded'
  BY <1>2, <1>7 DEF LearnInv, OverlapsRecorded
<1>9. ASSUME NEW s, FoldSound(s), Beside(e) \/ reacting[e].seen = {}
      PROVE  FoldSound(s)'
  <2>1. \A f : Beside(f)' <=> Beside(f)
    BY <1>2 DEF Beside
  <2>2. \A f \in logged : reacting'[f].seen = reacting[f].seen
    BY <1>1, <1>3 DEF LearnTyped
  <2> QED
    BY <1>2, <1>3, <1>9, <2>1, <2>2 DEF FoldSound, Once, OfTheLog, LacksFew
<1>10. \A f \in Open : f # e => Beside(e)
  BY <1>2 DEF LearnInv, OverlapsRecorded, Beside, Open
<1>11. rebuilding # <<>> => Beside(e)
  BY <1>2, ReactionsAssumption DEF LearnInv, OverlapsRecorded, Beside
<1>12. FoldsSound'
  <2>1. FoldSound(vector)'
    <3>1. CASE reacting[e].seen = {}
      <4>1. FoldSound(vector) /\ vector' = vector
        BY <1>4, <3>1 DEF LearnInv, FoldsSound
      <4> QED
        BY <1>9, <3>1, <4>1 DEF FoldSound, Once, OfTheLog, LacksFew
    <3>2. CASE reacting[e].seen # {}
      <4>1. Folding(e)
        BY <1>2, <3>2 DEF Folding
      <4>2. PICK v \in Seq(FoldSet) :
              reacting[e].fold = Append(v, <<e, reacting[e].seen>>) /\ FoldSound(v)
        BY <4>1 DEF LearnInv, FoldsSound
      <4> DEFINE n == Len(v)
      <4>3. vector' = Append(v, <<e, reacting[e].seen>>)
        BY <1>4, <3>2, <4>2
      <4>4. /\ n \in Nat /\ DOMAIN v = 1..n /\ DOMAIN vector' = 1..(n + 1)
            /\ \A i \in 1..n : vector'[i] = v[i]
            /\ vector'[n + 1] = <<e, reacting[e].seen>>
        BY <4>3
<4>5. \A i \in DOMAIN vector' :
              \/ i \in DOMAIN v /\ vector'[i] = v[i] /\ v[i][1] \in logged
              \/ i = n + 1 /\ vector'[i][1] = e
        <5>1. \A i \in 1..(n + 1) : i \in 1..n \/ i = n + 1
          BY <4>4
        <5>2. \A i \in DOMAIN v : v[i][1] \in logged
          BY <4>2 DEF FoldSound, OfTheLog
        <5>3. vector'[n + 1][1] = e
          BY <4>4
        <5> HIDE DEF n
        <5> QED
          BY <4>4, <5>1, <5>2, <5>3
      <4>6. /\ \A i \in DOMAIN v : i \in DOMAIN vector' /\ vector'[i] = v[i]
            /\ n + 1 \in DOMAIN vector'
        BY <4>4
      <4> HIDE DEF n
      <4>7. \A i, j \in DOMAIN vector' : vector'[i][1] = vector'[j][1] => i = j
        BY <1>2, <4>2, <4>5 DEF FoldSound, Once
      <4>8. \A i \in DOMAIN vector' : vector'[i][1] \in logged'
        BY <1>2, <4>5
      <4>9. \A f \in logged' : \/ \E i \in DOMAIN vector' : vector'[i][1] = f
                               \/ reacting'[f].seen = {}
                               \/ Beside(f)'
        <5> SUFFICES ASSUME NEW f \in logged'
                     PROVE  \/ \E i \in DOMAIN vector' : vector'[i][1] = f
                            \/ reacting'[f].seen = {}
                            \/ Beside(f)'
          OBVIOUS
        <5>1. CASE f = e
          BY <4>4, <4>6, <5>1
        <5>2. CASE f # e
          <6>1. f \in logged /\ f \in Reactions
            BY <1>1, <1>2, <5>2 DEF LearnTyped
          <6>2. \/ \E i \in DOMAIN v : v[i][1] = f
                \/ reacting[f].seen = {}
                \/ Beside(f)
            BY <4>2, <6>1 DEF FoldSound, LacksFew
          <6>3. Beside(f) => Beside(f)'
            BY <1>2 DEF Beside
          <6> QED
            BY <1>3, <4>6, <6>1, <6>2, <6>3
        <5> QED
          BY <5>1, <5>2
      <4> QED
        BY <4>7, <4>8, <4>9 DEF FoldSound, Once, OfTheLog, LacksFew
    <3> QED
      BY <3>1, <3>2
  <2>2. (rebuilding # <<>> => FoldSound(rebuilding))'
    <3>1. rebuilding # <<>> => FoldSound(rebuilding)
      BY DEF LearnInv, FoldsSound
    <3> QED
      BY <1>2, <1>9, <1>11, <3>1 DEF FoldSound, Once, OfTheLog, LacksFew
  <2>3. ASSUME NEW f \in Reactions, Folding(f)'
        PROVE  (\E v \in Seq(FoldSet) :
                  reacting[f].fold = Append(v, <<f, reacting[f].seen>>) /\ FoldSound(v))'
    <3>1. f # e /\ reacting'[f] = reacting[f] /\ Folding(f) /\ f \in Open
      BY <1>3, <2>3 DEF Folding, Open
    <3>2. PICK v \in Seq(FoldSet) :
            reacting[f].fold = Append(v, <<f, reacting[f].seen>>) /\ FoldSound(v)
      BY <3>1 DEF LearnInv, FoldsSound
    <3>3. FoldSound(v)'
      BY <1>9, <1>10, <3>1, <3>2 DEF FoldSound, Once, OfTheLog, LacksFew
    <3> QED
      BY <3>1, <3>2, <3>3
  <2> QED
    BY <2>1, <2>2, <2>3 DEF FoldsSound
<1>13. LikeReplay'
  <2> SUFFICES ASSUME together = {}, NoneLate'
               PROVE  vector' = Replay' /\ rebuilding = <<>> /\ Open' = {}
    BY <1>2 DEF LikeReplay
  <2>1. NoneLate /\ reacting[e].seen = Worn[e] \cap embedded
    <3>1. \A f \in logged' : f \in Reactions /\ reacting[f].seen = Worn[f] \cap embedded
      BY <1>1, <1>2, <1>3 DEF NoneLate, LearnTyped
    <3> QED
      BY <1>2, <3>1 DEF NoneLate
  <2>2. rebuilding = <<>>
    BY <1>2 DEF LearnInv, OverlapsRecorded
  <2>3. Open' = {}
    BY <1>2, <1>7 DEF LearnInv, OverlapsRecorded
  <2>4. vector = Replay /\ begun[Len(begun)] = e
        /\ (Folding(e) => reacting[e].fold = Append(Replay, <<e, reacting[e].seen>>))
    BY <1>2, <2>1 DEF LearnInv, LikeReplay
  <2>5. begun # <<>>
    <3>1. \E i \in DOMAIN begun : begun[i] = e
      BY <1>2 DEF LearnInv, LogSound
    <3> QED
      BY <3>1
  <2>6. LogSound /\ UNCHANGED <<begun, embedded>>
    BY <1>2 DEF LearnInv
  <2>7. /\ Worn[e] \cap embedded = {} => Replay' = Replay
        /\ Worn[e] \cap embedded # {} => Replay' = Append(Replay, <<e, Worn[e] \cap embedded>>)
    BY <1>1, <1>2, <1>5, <2>4, <2>5, <2>6, ReplayGrows
  <2>8. reacting[e].seen # {} => Folding(e)
    BY <1>2 DEF Folding
  <2> QED
    BY <1>4, <2>1, <2>2, <2>3, <2>4, <2>7, <2>8
<1>14. CountsSound'
  BY VoteCounts
<1> QED
  BY <1>5, <1>6, <1>8, <1>12, <1>13, <1>14 DEF LearnInv

(* What the reactions teach is sound, however many there are and however they and   *)
(* the rebuild script interleave (feedback.py, style.py): none is folded twice or   *)
(* without its row in the log, one is missing only beside another writer or for     *)
(* want of an embedding, and undisturbed the vector is the replay of the log.       *)
THEOREM LearningAlwaysSound == LearningSpec => []LearningSound
<1>1. ASSUME LearnInv, [LearningNext]_learningVars PROVE LearnInv'
  BY <1>1, RecordEventSound, LoadStyleSound, SaveStyleSound, ReadArmSound, WriteArmSound,
     CommitReactionSound, RollBackSound, StartRebuildSound, PersistRebuildSound, ElsewhereSound
     DEF LearningNext
<1> QED
  BY <1>1, InitSound, LearningIsSound, PTL DEF LearningSpec

--------------------------------------------------------------------------------
(* The export: its link leads to an archive. *)

ExportRows == [state : {"none", "pending", "building", "ready", "failed"}, key : BOOLEAN,
               due : BOOLEAN, deleted : BOOLEAN]

ExportTyped ==
  /\ exports \in [Exports -> ExportRows]
  /\ building \in [Exports -> {"idle", "write", "record"}]
  /\ buildQueue \subseteq Exports /\ sweeping \subseteq Exports

\* An archive whose key the row has, or is about to have, is there until it is due;
\* and by then nothing builds it any more.
ExportSound(e) ==
  /\ exports[e].key => exports[e].due \/ e \in archives
  /\ building[e] = "record" => e \in archives
  /\ building[e] # "idle" \/ e \in buildQueue => exports[e].state # "none" /\ ~exports[e].due
  /\ exports[e].state = "none" => ~exports[e].due
  /\ e \in sweeping => exports[e].due

ExportInv == ExportTyped /\ \A e \in Exports : ExportSound(e)

LEMMA ExportInitInv == ExportInit => ExportInv
BY DEF ExportInit, ExportInv, ExportTyped, ExportSound, NoRow, ExportRows

\* A step about one export.
LEMMA ExportMoves ==
  ASSUME ExportInv, NEW e \in Exports, NEW x \in ExportRows, exports' = [exports EXCEPT ![e] = x],
         NEW b \in {"idle", "write", "record"}, building' = [building EXCEPT ![e] = b],
         buildQueue' \subseteq buildQueue \cup {e}, sweeping' \subseteq sweeping \cup {e},
         \A f \in Exports : f # e => (f \in archives => f \in archives'),
         ExportSound(e)'
  PROVE  ExportInv'
<1>1. \A f \in Exports : exports'[f] = IF f = e THEN x ELSE exports[f]
  BY DEF ExportInv, ExportTyped
<1>2. \A f \in Exports : building'[f] = IF f = e THEN b ELSE building[f]
  BY DEF ExportInv, ExportTyped
<1>3. ExportTyped'
  BY DEF ExportInv, ExportTyped
<1>4. ASSUME NEW f \in Exports, f # e PROVE ExportSound(f)'
  BY <1>1, <1>2, <1>4 DEF ExportInv, ExportSound
<1> QED
  BY <1>3, <1>4 DEF ExportInv

LEMMA ExportStep ==
  ASSUME ExportInv, NEW e \in Exports,
         \/ RequestExport(e) \/ StartBuild(e) \/ PutArchive(e) \/ RecordReady(e) \/ BuildFails(e)
         \/ InterruptBuild(e) \/ RedeliverBuild(e) \/ FallDue(e)
         \/ SweepArchive(e) \/ SweepRow(e) \/ SweepDies(e)
  PROVE  ExportInv'
<1>1. /\ exports[e] \in ExportRows /\ building[e] \in {"idle", "write", "record"} /\ ExportSound(e)
      /\ exports = [exports EXCEPT ![e] = exports[e]]
      /\ building = [building EXCEPT ![e] = building[e]]
  BY DEF ExportInv, ExportTyped
<1>2. /\ \A x : (exports' = [exports EXCEPT ![e] = x]) => exports'[e] = x
      /\ \A b : (building' = [building EXCEPT ![e] = b]) => building'[e] = b
  BY DEF ExportInv, ExportTyped
<1>3. CASE RequestExport(e)
  <2> DEFINE x == [exports[e] EXCEPT !.state = "pending"]
  <2>1. /\ x \in ExportRows /\ x.state = "pending" /\ x.key = exports[e].key /\ x.due = exports[e].due
    BY <1>1 DEF ExportRows
  <2>2. exports' = [exports EXCEPT ![e] = x]
    BY <1>3 DEF RequestExport, ExportInv, ExportTyped
  <2> HIDE DEF x
  <2>3. ExportSound(e)'
    BY <1>1, <1>2, <1>3, <2>1, <2>2 DEF RequestExport, ExportSound
  <2> QED
    BY <1>1, <1>3, <2>1, <2>2, <2>3, ExportMoves DEF RequestExport
<1>4. CASE StartBuild(e)
  <2>1. CASE InFlight \subseteq {e}
    <3> DEFINE x == [exports[e] EXCEPT !.state = "building"]
    <3>1. x \in ExportRows /\ x.state = "building" /\ x.key = exports[e].key /\ x.due = exports[e].due
      BY <1>1 DEF ExportRows
    <3>2. exports' = [exports EXCEPT ![e] = x] /\ building' = [building EXCEPT ![e] = "write"]
      BY <1>4, <2>1 DEF StartBuild, ExportInv, ExportTyped
    <3> HIDE DEF x
    <3>3. ExportSound(e)'
      BY <1>1, <1>2, <1>4, <3>1, <3>2 DEF StartBuild, ExportSound
    <3> QED
      BY <1>1, <1>4, <3>1, <3>2, <3>3, ExportMoves DEF StartBuild
  <2>2. CASE ~(InFlight \subseteq {e})
    <3>1. UNCHANGED <<exports, building, archives, sweeping>> /\ buildQueue' = buildQueue \ {e}
      BY <1>4, <2>2 DEF StartBuild
    <3>2. ExportSound(e)'
      BY <1>1, <3>1 DEF ExportSound
    <3> QED
      BY <1>1, <3>1, <3>2, ExportMoves
  <2> QED
    BY <2>1, <2>2
<1>5. CASE PutArchive(e)
  <2>1. ExportSound(e)'
    BY <1>1, <1>2, <1>5 DEF PutArchive, ExportSound
  <2> QED
    BY <1>1, <1>5, <2>1, ExportMoves DEF PutArchive
<1>6. CASE RecordReady(e)
  <2> DEFINE x == [exports[e] EXCEPT !.state = "ready", !.key = TRUE]
  <2>1. x \in ExportRows /\ x.state = "ready" /\ x.due = exports[e].due
    BY <1>1 DEF ExportRows
  <2>2. exports' = [exports EXCEPT ![e] = x]
    BY <1>6 DEF RecordReady, ExportInv, ExportTyped
  <2> HIDE DEF x
  <2>3. ExportSound(e)'
    BY <1>1, <1>2, <1>6, <2>1, <2>2 DEF RecordReady, ExportSound
  <2> QED
    BY <1>1, <1>6, <2>1, <2>2, <2>3, ExportMoves DEF RecordReady
<1>7. CASE BuildFails(e)
  <2> DEFINE x == [exports[e] EXCEPT !.state = "failed"]
  <2>1. x \in ExportRows /\ x.state = "failed" /\ x.key = exports[e].key /\ x.due = exports[e].due
    BY <1>1 DEF ExportRows
  <2>2. exports' = [exports EXCEPT ![e] = x]
    BY <1>7 DEF BuildFails, ExportInv, ExportTyped
  <2> HIDE DEF x
  <2>3. ExportSound(e)'
    BY <1>1, <1>2, <1>7, <2>1, <2>2 DEF BuildFails, ExportSound
  <2> QED
    BY <1>1, <1>7, <2>1, <2>2, <2>3, ExportMoves DEF BuildFails
<1>8. CASE InterruptBuild(e)
  <2>1. ExportSound(e)'
    BY <1>1, <1>2, <1>8 DEF InterruptBuild, ExportSound
  <2> QED
    BY <1>1, <1>8, <2>1, ExportMoves DEF InterruptBuild
<1>9. CASE RedeliverBuild(e)
  <2>1. ExportSound(e)'
    BY <1>1, <1>9 DEF RedeliverBuild, ExportSound
  <2> QED
    BY <1>1, <1>9, <2>1, ExportMoves DEF RedeliverBuild
<1>10. CASE FallDue(e)
  <2> DEFINE x == [exports[e] EXCEPT !.due = TRUE]
  <2>1. x \in ExportRows /\ x.state = exports[e].state /\ x.due
    BY <1>1 DEF ExportRows
  <2>2. exports' = [exports EXCEPT ![e] = x]
    BY <1>10 DEF FallDue, ExportInv, ExportTyped
  <2> HIDE DEF x
  <2>3. ExportSound(e)'
    BY <1>1, <1>2, <1>10, <2>1, <2>2 DEF FallDue, ExportSound
  <2> QED
    BY <1>1, <1>10, <2>1, <2>2, <2>3, ExportMoves DEF FallDue
<1>11. CASE SweepArchive(e)
  <2>1. exports[e].due
    BY <1>11 DEF SweepArchive, Expired
  <2>2. ExportSound(e)'
    BY <1>1, <1>11, <2>1 DEF SweepArchive, ExportSound
  <2> QED
    BY <1>1, <1>11, <2>2, ExportMoves DEF SweepArchive
<1>12. CASE SweepRow(e)
  <2> DEFINE x == [exports[e] EXCEPT !.deleted = TRUE, !.key = FALSE]
  <2>1. x \in ExportRows /\ x.state = exports[e].state /\ x.due = exports[e].due /\ ~x.key
    BY <1>1 DEF ExportRows
  <2>2. exports' = [exports EXCEPT ![e] = x]
    BY <1>12 DEF SweepRow, ExportInv, ExportTyped
  <2> HIDE DEF x
  <2>3. ExportSound(e)'
    BY <1>1, <1>2, <1>12, <2>1, <2>2 DEF SweepRow, ExportSound
  <2> QED
    BY <1>1, <1>12, <2>1, <2>2, <2>3, ExportMoves DEF SweepRow
<1>13. CASE SweepDies(e)
  <2>1. ExportSound(e)'
    BY <1>1, <1>13 DEF SweepDies, ExportSound
  <2> QED
    BY <1>1, <1>13, <2>1, ExportMoves DEF SweepDies
<1> QED
  BY <1>3, <1>4, <1>5, <1>6, <1>7, <1>8, <1>9, <1>10, <1>11, <1>12, <1>13

(* The safety part of ExportLifetime: a link that GET /me/export hands out  *)
(* leads to an archive until its seven days are over, however builds are    *)
(* interrupted and delivered again and whenever the sweep runs.             *)
THEOREM LinksAlwaysLead == ExportSpec => []LinksLead
<1>1. ExportInv => LinksLead
  BY DEF ExportInv, ExportSound, LinksLead, Linked
<1>2. ExportInv /\ UNCHANGED exportVars => ExportInv'
  BY DEF exportVars, ExportInv, ExportTyped, ExportSound
<1>3. ExportInv /\ [ExportNext]_exportVars => ExportInv'
  BY <1>2, ExportStep DEF ExportNext
<1> QED
  BY <1>1, <1>3, ExportInitInv, PTL DEF ExportSpec
================================================================================
