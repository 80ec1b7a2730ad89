------------------------------- MODULE PartnerKeys -----------------------------
(* A partner's keys and its allowance: keys issued and revoked by an admin, and
   requests that name a key and one of the partner's users, counted per client in
   windows of one minute. *)
EXTENDS Naturals, FiniteSets

CONSTANTS
  Keys,          \* keys of the one client looked at
  Users,         \* ids the partner gives its users
  Requests,      \* its requests in flight at once
  RateLimit,     \* rate_limit_per_minute
  MaxWindows, MaxCacheOutages, MaxRequests   \* bounds

ASSUME AllowanceAssumption == RateLimit \in Nat /\ MaxWindows \in Nat \ {0}

VARIABLES
  keyRow,        \* api_key: "none", "live" or "revoked"
  known,         \* X-User-Id -> "unknown", "live" or "deleted"
  window,        \* the minute on the clock
  counted,       \* ratelimit:<client>:<window>
  requests,      \* request -> [at, key, user, window, late, gone]: late is
                 \* sent after the key was revoked, gone after the user left
  asked,         \* requests so far
  passed,        \* ghost: requests let through per window
  missed,        \* ghost: requests the cache failed to count, per window
  outages

keyVars == <<keyRow, known, window, counted, requests, asked, passed, missed, outages>>

Quiet == [at |-> "idle", key |-> "none", user |-> "none", window |-> 0,
          late |-> FALSE, gone |-> FALSE]
PerWindow(n) == [w \in 1..MaxWindows |-> n]

KeysInit ==
  /\ keyRow = [k \in Keys |-> "none"] /\ known = [u \in Users |-> "unknown"]
  /\ window = 1 /\ counted = PerWindow(0) /\ passed = PerWindow(0) /\ missed = PerWindow(0)
  /\ requests = [r \in Requests |-> Quiet] /\ asked = 0 /\ outages = 0

Step(r, from, to) ==
  requests[r].at = from /\ requests' = [requests EXCEPT ![r].at = to]
EndRequest(r) == requests' = [requests EXCEPT ![r] = Quiet]

\* The key is shown once, in the answer; only its hash is stored.
IssueKey(k) ==
  /\ keyRow[k] = "none" /\ keyRow' = [keyRow EXCEPT ![k] = "live"]
  /\ UNCHANGED <<known, window, counted, requests, asked, passed, missed, outages>>

\* Revoking twice changes nothing; the request already past the lookup goes on.
RevokeKey(k) ==
  /\ keyRow[k] = "live" /\ keyRow' = [keyRow EXCEPT ![k] = "revoked"]
  /\ UNCHANGED <<known, window, counted, requests, asked, passed, missed, outages>>

ChangeUser(u) ==
  /\ \/ known[u] = "unknown" /\ known' = [known EXCEPT ![u] = "live"]
     \/ known[u] = "live" /\ known' = [known EXCEPT ![u] = "deleted"]
  /\ UNCHANGED <<keyRow, window, counted, requests, asked, passed, missed, outages>>

Send(r, k, u) ==
  /\ requests[r].at = "idle" /\ asked < MaxRequests /\ keyRow[k] # "none"
  /\ requests' = [requests EXCEPT ![r] =
       [at |-> "sent", key |-> k, user |-> u, window |-> 0,
        late |-> keyRow[k] = "revoked", gone |-> known[u] = "deleted"]]
  /\ asked' = asked + 1
  /\ UNCHANGED <<keyRow, known, window, counted, passed, missed, outages>>

\* The lookup by prefix and hash; the minute is read after it.
ResolveApiKey(r) ==
  /\ requests[r].at = "sent"
  /\ IF keyRow[requests[r].key] = "live"
     THEN requests' = [requests EXCEPT ![r].at = "resolved", ![r].window = window]
     ELSE EndRequest(r)
  /\ UNCHANGED <<keyRow, known, window, counted, asked, passed, missed, outages>>

\* What a counter per key, or a count read before it is raised, would let through.
CountTooLate(r) ==
  /\ requests[r].at = "resolved"
  /\ LET w == requests[r].window
     IN  /\ counted' = [counted EXCEPT ![w] = @ + 1]
         /\ IF counted[w] <= RateLimit
            THEN Step(r, "resolved", "counted") /\ passed' = [passed EXCEPT ![w] = @ + 1]
            ELSE EndRequest(r) /\ UNCHANGED passed
  /\ UNCHANGED <<keyRow, known, window, asked, missed, outages>>

\* INCR: the count of the window the request was resolved in.
IncrWindow(r) ==
  /\ requests[r].at = "resolved"
  /\ LET w == requests[r].window
     IN  /\ counted' = [counted EXCEPT ![w] = @ + 1]
         /\ IF counted'[w] <= RateLimit
            THEN Step(r, "resolved", "counted") /\ passed' = [passed EXCEPT ![w] = @ + 1]
            ELSE EndRequest(r) /\ UNCHANGED passed
  /\ UNCHANGED <<keyRow, known, window, asked, missed, outages>>

\* The cache is down: the count is taken for 0.
CacheOut(r) ==
  /\ outages < MaxCacheOutages /\ outages' = outages + 1
  /\ Step(r, "resolved", "counted")
  /\ LET w == requests[r].window
     IN  /\ passed' = [passed EXCEPT ![w] = @ + 1]
         /\ missed' = [missed EXCEPT ![w] = @ + 1]
         /\ counted' \in {counted, [counted EXCEPT ![w] = @ + 1]}   \* its answer may be what was lost
  /\ UNCHANGED <<keyRow, known, window, asked>>

NextMinute ==
  /\ window < MaxWindows /\ window' = window + 1
  /\ UNCHANGED <<keyRow, known, counted, requests, asked, passed, missed, outages>>

\* current_user_id: the user of this client, or 404.  POST /partner/users stops here.
ResolveUser(r) ==
  /\ requests[r].at = "counted"
  /\ IF known[requests[r].user] = "unknown" THEN EndRequest(r) ELSE Step(r, "counted", "named")
  /\ UNCHANGED <<keyRow, known, window, counted, asked, passed, missed, outages>>

\* current_user: 401 once the row is gone, 410 from the moment the person left.
GateUser(r) ==
  /\ requests[r].at = "named"
  /\ IF known[requests[r].user] = "live" THEN Step(r, "named", "inside") ELSE EndRequest(r)
  /\ UNCHANGED <<keyRow, known, window, counted, asked, passed, missed, outages>>

\* The handler: what it does is the other modules'.
Serve(r) ==
  /\ requests[r].at = "inside" /\ EndRequest(r)
  /\ UNCHANGED <<keyRow, known, window, counted, asked, passed, missed, outages>>

KeysNext ==
  \/ \E k \in Keys : IssueKey(k) \/ RevokeKey(k)
  \/ \E u \in Users : ChangeUser(u)
  \/ \E r \in Requests :
       \/ \E k \in Keys, u \in Users : Send(r, k, u)
       \/ ResolveApiKey(r) \/ IncrWindow(r) \/ CacheOut(r) \/ ResolveUser(r)
       \/ GateUser(r) \/ Serve(r)
  \/ NextMinute

KeysSpec == KeysInit /\ [][KeysNext]_keyVars

--------------------------------------------------------------------------------
(* _resolve_api_key: whatever keys a client uses and however its requests         *)
(* interleave with the minute's end, no more of them pass in one window than its  *)
(* allowance and the requests the cache failed to count; and none that was sent   *)
(* after its key was revoked, or for a user who had left.                          *)
AllowanceKept ==
  /\ \A w \in 1..MaxWindows : passed[w] <= RateLimit + missed[w]
  /\ \A r \in Requests : requests[r].late => requests[r].at \in {"idle", "sent"}
  /\ \A r \in Requests : requests[r].gone => requests[r].at # "inside"
================================================================================
