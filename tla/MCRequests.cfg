\* Three attempts under one key with two expiries; two exports; two reactions
\* and a rebuild; three mails, one of them in the shared inbox; three mails of
\* one order; a phone and two overlapping runs on two days.  Deadlock is off:
\* attempts, mails, faults and days are bounded.
SPECIFICATION AllSpec
CONSTANTS
  Attempts = {a1, a2, a3}
  Nobody = Nobody
  MaxExpiries = 2
  Exports = {e1, e2}
  MaxExportFaults = 2
  liked = liked
  late = late
  Reactions = {liked, late}
  Worn <- MCWorn
  Code <- MCCode
  Verdict <- MCVerdict
  Embedded = {"tee"}
  MaxRebuilds = 1
  Rebuild = Rebuild
  Unheld = Unheld
  Mails = {m1, m2, m3}
  Synced = {m2, m3}
  PollBatch = 1
  PerRun = 1
  MaxLinks = 2
  MaxMailFaults = 1
  bought = bought
  sent = sent
  back = back
  Notices = {bought, sent, back}
  Order <- MCOrder
  Says <- MCSays
  MaxReadFaults = 1
  Phones = {p1}
  Runs = {r1, r2}
  LastDay = 2
INVARIANTS SameAnswer LearningSound NoMailPassedOver
  OneRowPerPurchase OneDigestADay
PROPERTIES ExportLifetime MailsEnd
CHECK_DEADLOCK FALSE
