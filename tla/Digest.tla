---------------------------------- MODULE Digest -------------------------------
(* The daily digest: the hourly run claims a tenant's day before it sends, sends
   to the devices it has read, and then records what became of each; devices
   are registered and turned off meanwhile. *)
EXTENDS Naturals, FiniteSets

CONSTANTS
  Phones,        \* device tokens of the tenant
  Runs,          \* runs of hourly_digest, which may overlap
  LastDay        \* local days, from 1

VARIABLES
  today,
  enabled,       \* device_token without disabled_at
  installed,     \* phones that have the app: FCM delivers to them
  claims,        \* push_send: days claimed
  sending,       \* [at, phones, left, gone] per run
  notices,       \* ghost: digests shown, as <<phone, day, run>>
  off,           \* ghost: phones whose user turned push off and not on again
  revived        \* ghost: phones registered while a run was under way

digestVars == <<today, enabled, installed, claims, sending, notices, off, revived>>

NoRun == [at |-> "idle", day |-> 0, left |-> {}, gone |-> {}]

DigestInit ==
  /\ today = 1
  /\ enabled = {} /\ installed = {} /\ claims = {}
  /\ sending = [r \in Runs |-> NoRun]
  /\ notices = {} /\ off = {} /\ revived = {}

\* The claim of a run that has not committed holds the key of the index.
ClaimFree(r) ==
  /\ today \notin claims
  /\ \A q \in Runs \ {r} : sending[q].at = "claimed" => sending[q].day # today

ClaimDayLate(r) ==
  /\ sending[r].at = "idle" /\ enabled # {} /\ today \notin claims
  /\ sending' = [sending EXCEPT ![r] = [at |-> "claimed", day |-> today,
                                        left |-> enabled, gone |-> {}]]
  /\ UNCHANGED <<today, enabled, installed, claims, notices, off, revived>>

\* The devices are read, it is 07:00 where the first of them is, and the day is
\* claimed: ON CONFLICT DO NOTHING.
ClaimDay(r) ==
  /\ sending[r].at = "idle" /\ enabled # {} /\ ClaimFree(r)
  /\ sending' = [sending EXCEPT ![r] = [at |-> "claimed", day |-> today,
                                        left |-> enabled, gone |-> {}]]
  /\ UNCHANGED <<today, enabled, installed, claims, notices, off, revived>>

\* With or without an outfit to name, the claim is committed.
CommitClaim(r) ==
  /\ sending[r].at = "claimed"
  /\ claims' = claims \cup {sending[r].day}
  /\ \E outfit \in BOOLEAN :
       sending' = [sending EXCEPT ![r] = IF outfit THEN [@ EXCEPT !.at = "send"] ELSE NoRun]
  /\ UNCHANGED <<today, enabled, installed, notices, off, revived>>

\* FcmClient.send, one request per token: delivered, gone for good, or neither.
SendTo(r, p) ==
  /\ sending[r].at = "send" /\ p \in sending[r].left
  /\ \/ /\ p \in installed
        /\ notices' = notices \cup {<<p, sending[r].day, r>>}
        /\ sending' = [sending EXCEPT ![r].left = @ \ {p}]
     \/ /\ p \notin installed
        /\ sending' = [sending EXCEPT ![r].left = @ \ {p}, ![r].gone = @ \cup {p}]
        /\ UNCHANGED notices
     \/ /\ sending' = [sending EXCEPT ![r].left = @ \ {p}]
        /\ UNCHANGED notices
  /\ UNCHANGED <<today, enabled, installed, claims, off, revived>>

\* What FCM said is written, whatever has happened to the token since.
RecordResult(r) ==
  /\ sending[r].at = "send" /\ sending[r].left = {}
  /\ enabled' = enabled \ sending[r].gone
  /\ sending' = [sending EXCEPT ![r] = NoRun]
  /\ UNCHANGED <<today, installed, claims, notices, off, revived>>

\* FCM cannot be reached, or the worker dies; what is not committed is undone.
RunEnds(r) ==
  /\ sending[r].at # "idle"
  /\ sending' = [sending EXCEPT ![r] = NoRun]
  /\ UNCHANGED <<today, enabled, installed, claims, notices, off, revived>>

\* POST /push/devices, at every start of the app: a dead token comes to life.
RegisterDevice(p) ==
  /\ p \notin enabled \cap installed
  /\ installed' = installed \cup {p} /\ enabled' = enabled \cup {p}
  /\ off' = off \ {p}
  /\ revived' = IF \E r \in Runs : sending[r].at # "idle" THEN revived \cup {p} ELSE revived
  /\ UNCHANGED <<today, claims, sending, notices>>

DisableDevice(p) ==
  /\ p \in enabled
  /\ enabled' = enabled \ {p} /\ off' = off \cup {p}
  /\ UNCHANGED <<today, installed, claims, sending, notices, revived>>

DisableAll ==
  /\ enabled # {}
  /\ enabled' = {} /\ off' = off \cup enabled
  /\ UNCHANGED <<today, installed, claims, sending, notices, revived>>

Uninstall(p) ==
  /\ p \in installed /\ installed' = installed \ {p}
  /\ UNCHANGED <<today, enabled, claims, sending, notices, off, revived>>

NextDay ==
  /\ today < LastDay /\ today' = today + 1
  /\ UNCHANGED <<enabled, installed, claims, sending, notices, off, revived>>

DigestNext ==
  \/ \E r \in Runs : ClaimDay(r) \/ CommitClaim(r) \/ RecordResult(r) \/ RunEnds(r)
  \/ \E r \in Runs, p \in Phones : SendTo(r, p)
  \/ \E p \in Phones : RegisterDevice(p) \/ DisableDevice(p) \/ Uninstall(p)
  \/ DisableAll \/ NextDay

DigestSpec == DigestInit /\ [][DigestNext]_digestVars

--------------------------------------------------------------------------------
(* "A crash after this insert costs one missed digest; a crash after sending   *)
(* but before recording costs a duplicate" (notify.py): a phone shows at most  *)
(* one digest of a day, whatever runs overlap or die.  And a phone with the    *)
(* app whose user has not turned push off stays registered, unless it came     *)
(* back while a run was under way that FCM had told it was gone.               *)
OneDigestADay ==
  /\ \A x, y \in notices : x[1] = y[1] /\ x[2] = y[2] => x = y
  /\ \A p \in installed \ off : p \in enabled \/ p \in revived
================================================================================
