-------------------------------- MODULE Accounts -------------------------------
(* One person's account: created by registering or by a partner's call, signed in
   to, refreshed, signed out of, left.  Uniqueness is per address, so one address
   shows it.  A refresh token's life is counted in the three ages the code tells
   apart: more than a second left, its last second, expired. *)
EXTENDS Naturals, Sequences, FiniteSets

CONSTANTS
  Creates,       \* calls of /auth/register or POST /partner/users
  Refreshes,     \* calls of /auth/refresh, each answered before it is used again
  MaxTokens, MaxGatewayFaults, MaxDenyFaults   \* bounds

ASSUME CreatesAssumption == "none" \notin Creates

VARIABLES
  partners,      \* whether the account is a partner's
  account,       \* the users row: "none", "live" or "deleted" (deleted_at)
  profileKey,    \* user_profile.litellm_key: the create that issued it, or "none"
  creating,      \* create -> where it is
  gatewayKeys,   \* virtual keys at the gateway, named by the create that asked
  told,          \* create -> its answer
  age,           \* refresh tokens issued so far, and what is left of each
  denied,        \* jwt:revoked:*
  ended,         \* ghost: tokens exchanged or signed out, and the caller told
  refreshing,    \* refresh -> [at, token, late]
  accountFaults  \* [gateway, deny]

accountVars == <<partners, account, profileKey, creating, gatewayKeys, told, age, denied,
                 ended, refreshing, accountFaults>>
rowVars == <<partners, account, profileKey, creating, gatewayKeys, told>>
tokenVars == <<age, denied, ended, refreshing>>

Idle == [at |-> "idle", token |-> 0, late |-> FALSE]

AccountsInit ==
  /\ partners \in BOOLEAN
  /\ account = "none" /\ profileKey = "none" /\ gatewayKeys = {}
  /\ creating = [c \in Creates |-> "unsent"] /\ told = [c \in Creates |-> "nothing"]
  /\ age = <<>> /\ denied = {} /\ ended = {}
  /\ refreshing = [r \in Refreshes |-> Idle]
  /\ accountFaults = [gateway |-> 0, deny |-> 0]

AccountFault(where, bound) ==
  /\ accountFaults[where] < bound
  /\ accountFaults' = [accountFaults EXCEPT ![where] = @ + 1]

--------------------------------------------------------------------------------
(* create_account *)

At(c, from, to) == creating[c] = from /\ creating' = [creating EXCEPT ![c] = to]
Answer(c, what) == told' = [told EXCEPT ![c] = what]
Exists == IF partners THEN "found" ELSE "conflict"

LookUpUser(c) ==
  /\ partners
  /\ IF account # "none"
     THEN At(c, "unsent", "done") /\ Answer(c, "found")
     ELSE At(c, "unsent", "looked") /\ UNCHANGED told
  /\ UNCHANGED <<partners, account, profileKey, gatewayKeys, tokenVars, accountFaults>>

Uncommitted == \E c \in Creates : creating[c] \in {"inserted", "keyed", "keyless"}

\* What the bug of an index without its UNIQUE would do.
InsertUnindexed(c) ==
  /\ At(c, IF partners THEN "looked" ELSE "unsent", "inserted")
  /\ UNCHANGED <<partners, account, profileKey, gatewayKeys, told, tokenVars, accountFaults>>

\* The flush: an uncommitted row of the same address makes it wait.
InsertUser(c) ==
  /\ ~Uncommitted
  /\ LET from == IF partners THEN "looked" ELSE "unsent"
     IN  IF account # "none"
         THEN At(c, from, "done") /\ Answer(c, Exists)
         ELSE At(c, from, "inserted") /\ UNCHANGED told
  /\ UNCHANGED <<partners, account, profileKey, gatewayKeys, tokenVars, accountFaults>>

IssueKeyAtGateway(c) == gatewayKeys' = gatewayKeys \cup {c}

\* A gateway that fails before or after it made the key does not stop the signup.
CreateVirtualKey(c) ==
  /\ \/ At(c, "inserted", "keyed") /\ IssueKeyAtGateway(c) /\ UNCHANGED accountFaults
     \/ /\ At(c, "inserted", "keyless")
        /\ IssueKeyAtGateway(c) \/ UNCHANGED gatewayKeys
        /\ AccountFault("gateway", MaxGatewayFaults)
  /\ UNCHANGED <<partners, account, profileKey, told, tokenVars>>

Issue == Len(age) < MaxTokens /\ age' = Append(age, "fresh")

CommitAccount(c) ==
  /\ creating[c] \in {"keyed", "keyless"}
  /\ account' = "live"
  /\ profileKey' = IF creating[c] = "keyed" THEN c ELSE "none"
  /\ creating' = [creating EXCEPT ![c] = "done"]
  /\ Answer(c, "created")
  /\ IF partners THEN UNCHANGED age ELSE Issue
  /\ UNCHANGED <<partners, gatewayKeys, denied, ended, refreshing, accountFaults>>

\* A statement or the commit fails, or the process dies: the row is rolled back.
CreateFails(c) ==
  /\ creating[c] \in {"inserted", "keyed", "keyless"}
  /\ creating' = [creating EXCEPT ![c] = "done"]
  /\ Answer(c, "error")
  /\ AccountFault("gateway", MaxGatewayFaults)
  /\ UNCHANGED <<partners, account, profileKey, gatewayKeys, tokenVars>>

Leave ==
  /\ account = "live" /\ account' = "deleted"
  /\ UNCHANGED <<partners, profileKey, creating, gatewayKeys, told, tokenVars, accountFaults>>

--------------------------------------------------------------------------------
(* Tokens *)

\* A partner's account has no password that matches.
Login ==
  /\ account = "live" /\ ~partners /\ Issue
  /\ UNCHANGED <<rowVars, denied, ended, refreshing, accountFaults>>

Expired(t) == age[t] = "expired"
\* int(remaining) > 0
SecondsLeft(t) == age[t] = "fresh"

BeginRefresh(r, t) ==
  /\ refreshing[r].at = "idle" /\ ~Expired(t)
  /\ refreshing' = [refreshing EXCEPT ![r] = [at |-> "begun", token |-> t, late |-> t \in ended]]
  /\ UNCHANGED <<rowVars, age, denied, ended, accountFaults>>

CheckRevoked(r) ==
  /\ refreshing[r].at = "begun"
  /\ refreshing' =
       [refreshing EXCEPT ![r] = IF @.token \in denied THEN Idle ELSE [@ EXCEPT !.at = "passed"]]
  /\ UNCHANGED <<rowVars, age, denied, ended, accountFaults>>

EndRotate(r) ==
  /\ refreshing[r].at = "passed" /\ Issue
  /\ refreshing' = [refreshing EXCEPT ![r] = Idle]
  /\ UNCHANGED <<rowVars, accountFaults>>

\* What a refresh that forgets to revoke would do.
RotateKeeping(r) ==
  /\ EndRotate(r)
  /\ ended' = ended \cup {refreshing[r].token}
  /\ UNCHANGED denied

Rotate(r) ==
  /\ EndRotate(r)
  /\ LET t == refreshing[r].token
         revoked == IF SecondsLeft(t) THEN {t} ELSE {}
     IN  denied' = denied \cup revoked /\ ended' = ended \cup {t}

\* The deny list is not reached, or its answer is lost: a 500, no new pair.
RefreshFails(r) ==
  /\ refreshing[r].at \in {"begun", "passed"}
  /\ denied' \in {denied} \cup (IF refreshing[r].at = "passed" /\ SecondsLeft(refreshing[r].token)
                                THEN {denied \cup {refreshing[r].token}} ELSE {})
  /\ refreshing' = [refreshing EXCEPT ![r] = Idle]
  /\ AccountFault("deny", MaxDenyFaults)
  /\ UNCHANGED <<rowVars, age, ended>>

Logout(t) ==
  /\ ~Expired(t)
  /\ denied' = IF SecondsLeft(t) THEN denied \cup {t} ELSE denied
  /\ ended' = ended \cup {t}
  /\ UNCHANGED <<rowVars, age, refreshing, accountFaults>>

Ages == [fresh |-> "last", last |-> "expired"]

PassTime(t) ==
  /\ ~Expired(t)
  /\ age' = [age EXCEPT ![t] = Ages[@]]
  /\ UNCHANGED <<rowVars, denied, ended, refreshing, accountFaults>>

\* The entry's TTL is the token's remaining life cut to whole seconds.
Lapse(t) ==
  /\ t \in denied /\ ~SecondsLeft(t)
  /\ denied' = denied \ {t}
  /\ UNCHANGED <<rowVars, age, ended, refreshing, accountFaults>>

--------------------------------------------------------------------------------
AccountsNext ==
  \/ \E c \in Creates :
       LookUpUser(c) \/ InsertUser(c) \/ CreateVirtualKey(c) \/ CommitAccount(c) \/ CreateFails(c)
  \/ Leave \/ Login
  \/ \E r \in Refreshes :
       \/ \E t \in DOMAIN age : BeginRefresh(r, t)
       \/ CheckRevoked(r) \/ Rotate(r) \/ RefreshFails(r)
  \/ \E t \in DOMAIN age : Logout(t) \/ PassTime(t) \/ Lapse(t)

AccountsSpec == AccountsInit /\ [][AccountsNext]_accountVars

--------------------------------------------------------------------------------
(* create_account and POST /partner/users: of any number of calls at once one is  *)
(* told it created the account, "it exists" is never said of an account that does *)
(* not, and a key is missing from the account, or left over at the gateway, only  *)
(* where a call to the gateway or the transaction around it failed.               *)
OneAccount ==
  /\ Cardinality({c \in Creates : told[c] = "created"}) = IF account = "none" THEN 0 ELSE 1
  /\ (\E c \in Creates : told[c] \in {"found", "conflict"}) => account # "none"
  /\ account # "none" /\ accountFaults.gateway = 0 => profileKey \in gatewayKeys
  /\ Cardinality({c \in gatewayKeys \ {profileKey} : creating[c] = "done"}) <= accountFaults.gateway

(* refresh and logout: a refresh begun after the caller was told that its token   *)
(* is spent does not get past the deny list while the token has a second to live. *)
SpentTokensStaySpent ==
  \A r \in Refreshes :
    refreshing[r].late /\ refreshing[r].at = "passed" => ~SecondsLeft(refreshing[r].token)
================================================================================
