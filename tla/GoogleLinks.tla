------------------------------ MODULE GoogleLinks ------------------------------
(* The two links of a user to Google, the calendar's and Gmail's: consent, the
   callback, reading, disconnecting.  Google keeps one grant for the app, so that
   revoking any of its tokens ends them all. *)
EXTENDS Naturals, FiniteSets

CONSTANTS
  Calls,         \* callbacks, reads and disconnects in flight at once
  MaxGrants, MaxStates, MaxGoogleFaults, MaxCalls   \* bounds

VARIABLES
  states,        \* authorize states given out and not yet back: their purposes
  given,         \* states given out so far
  row,           \* calendar_link: provider -> [token, revoked, confirmed]; token 0 for NULL
  tokens,        \* refresh tokens Google gave so far
  alive,         \* those it still takes
  gcall,         \* call -> [does, at, for, token, confirmed, calendarLive, others, barred]
  calls,
  said,          \* ghost: what the user was told of a token: [gone, unsure, refused];
                 \* overrun: cleared by a disconnect of another token, or replaced by
                 \* an older one;
                 \* hit: <<p, t>>: ended, under the other link, by a disconnect of p
  googleFaults

linkVars == <<states, given, row, tokens, alive, gcall, calls, said, googleFaults>>

Providers == {"calendar", "gmail"}
Free == [does |-> "nothing", at |-> "idle", for |-> "calendar", token |-> 0, confirmed |-> FALSE,
         calendarLive |-> FALSE, others |-> 0, barred |-> {}]
Linked(t) == [token |-> t, revoked |-> FALSE, confirmed |-> FALSE]

LinksInit ==
  /\ states = {} /\ given = 0 /\ tokens = 0 /\ alive = {} /\ calls = 0 /\ googleFaults = 0
  /\ row = [p \in Providers |-> Linked(0)]
  /\ gcall = [c \in Calls |-> Free]
  /\ said = [gone |-> {}, unsure |-> {}, refused |-> {}, overrun |-> {}, hit |-> {}]

GoogleFault == googleFaults < MaxGoogleFaults /\ googleFaults' = googleFaults + 1

Begin(c, does, p) ==
  /\ gcall[c].at = "idle" /\ calls < MaxCalls /\ calls' = calls + 1
  /\ gcall' = [gcall EXCEPT ![c] =
       [Free EXCEPT !.does = does, !.at = "begun", !.for = p, !.barred = said.gone]]
Doing(c, does, at) == gcall[c].does = does /\ gcall[c].at = at
Reply(c) == gcall' = [gcall EXCEPT ![c] = Free]

TheOther(p) == CHOOSE q \in Providers : q # p

--------------------------------------------------------------------------------
(* Connecting *)

\* The signed state names the user and the purpose, for ten minutes.
NewState(p) == <<given, p>>

Authorize(p) ==
  /\ given < MaxStates /\ given' = given + 1
  /\ states' = states \cup {NewState(p)}
  /\ UNCHANGED <<row, tokens, alive, gcall, calls, said, googleFaults>>

\* The ten minutes are over, the consent is denied, or the user never comes back.
StateLost(s) ==
  /\ s \in states /\ states' = states \ {s}
  /\ UNCHANGED <<given, row, tokens, alive, gcall, calls, said, googleFaults>>

BeginCallback(c, s) ==
  /\ s \in states /\ states' = states \ {s}     \* Google takes a code once
  /\ Begin(c, "callback", s[2])
  /\ UNCHANGED <<given, row, tokens, alive, said, googleFaults>>

\* Google's answer: a token, or one the callback refuses (a scope unchecked).
ExchangeCode(c) ==
  /\ Doing(c, "callback", "begun") /\ tokens < MaxGrants
  /\ tokens' = tokens + 1 /\ alive' = alive \cup {tokens'}
  /\ \/ /\ gcall' = [gcall EXCEPT ![c].at = "exchanged", ![c].token = tokens']
        /\ UNCHANGED said
     \/ /\ Reply(c)
        /\ said' = [said EXCEPT !.refused = @ \cup {tokens'}]
  /\ UNCHANGED <<states, given, row, calls, googleFaults>>

\* No token came: consent given before, or the exchange was rejected.
ExchangeRefused(c) ==
  /\ Doing(c, "callback", "begun") /\ Reply(c)
  /\ UNCHANGED <<states, given, row, tokens, alive, calls, said, googleFaults>>

\* ON CONFLICT (user_id, provider) DO UPDATE.
StoreLink(c) ==
  /\ Doing(c, "callback", "exchanged")
  /\ row' = [row EXCEPT ![gcall[c].for] = Linked(gcall[c].token)]
  /\ said' = [said EXCEPT !.overrun = @ \cup {t \in {row[gcall[c].for].token} : t > gcall[c].token}]
  /\ Reply(c)
  /\ UNCHANGED <<states, given, tokens, alive, calls, googleFaults>>

\* The process dies, or a statement fails: before the token is stored, or between
\* the revocation and the row.
CallDies(c) ==
  /\ gcall[c].at \in {"exchanged", "revoked"} /\ GoogleFault /\ Reply(c)
  /\ said' = [said EXCEPT !.refused =
       IF gcall[c].does = "callback" THEN @ \cup {gcall[c].token} ELSE @]
  /\ UNCHANGED <<states, given, row, tokens, alive, calls>>

--------------------------------------------------------------------------------
(* Reading the calendar of today *)

BeginToday(c) ==
  /\ Begin(c, "today", "calendar")
  /\ UNCHANGED <<states, given, row, tokens, alive, said, googleFaults>>

\* Without a token it is "not_connected".
ReadToken(c) ==
  /\ Doing(c, "today", "begun")
  /\ LET t == row["calendar"].token
     IN  IF t = 0 THEN Reply(c)
         ELSE gcall' = [gcall EXCEPT ![c].at = "reading", ![c].token = t]
  /\ UNCHANGED <<states, given, row, tokens, alive, calls, said, googleFaults>>

\* A dead token is "reauth_required", a fault "unavailable"; the row keeps it.
RefreshAccess(c) ==
  /\ Doing(c, "today", "reading")
  /\ \/ /\ gcall' = [gcall EXCEPT ![c] = IF @.token \in alive THEN [@ EXCEPT !.at = "listing"] ELSE Free]
        /\ UNCHANGED googleFaults
     \/ Reply(c) /\ GoogleFault
  /\ UNCHANGED <<states, given, row, tokens, alive, calls, said>>

\* With an access token the events are listed or refused; last_synced_at is written.
ListToday(c) ==
  /\ Doing(c, "today", "listing") /\ Reply(c)
  /\ UNCHANGED <<states, given, row, tokens, alive, calls, said, googleFaults>>

--------------------------------------------------------------------------------
(* Disconnecting *)

BeginDisconnect(c, p) ==
  /\ Begin(c, "disconnect", p)
  /\ UNCHANGED <<states, given, row, tokens, alive, said, googleFaults>>

CalendarLives == row["calendar"].token # 0 /\ ~row["calendar"].revoked

\* Gmail's also asks whether the calendar lives; the calendar's asks nothing.
ReadLink(c) ==
  /\ Doing(c, "disconnect", "begun")
  /\ LET p == gcall[c].for
     IN  IF row[p].token = 0 THEN Reply(c)
         ELSE gcall' = [gcall EXCEPT ![c].at = "read", ![c].token = row[p].token,
                ![c].others = row[TheOther(p)].token,
                ![c].calendarLive = p = "gmail" /\ CalendarLives]
  /\ UNCHANGED <<states, given, row, tokens, alive, calls, said, googleFaults>>

Confirm(c, confirmed) ==
  gcall' = [gcall EXCEPT ![c].at = "revoked", ![c].confirmed = confirmed]
\* Revoking one token ends the grant; revoking a dead one, nothing.
EndGrant(c) ==
  LET t == gcall[c].others
      under == {t} \cap alive \cap {row[p].token : p \in Providers}
  IN  IF gcall[c].token \in alive
      THEN /\ alive' = {}
           /\ said' = [said EXCEPT !.hit = @ \cup {<<gcall[c].for, u>> : u \in under}]
      ELSE UNCHANGED <<alive, said>>

\* 200 for a live token and 400 for a dead one: both confirm.
Revoke(c) ==
  /\ Doing(c, "disconnect", "read") /\ ~gcall[c].calendarLive
  /\ EndGrant(c) /\ Confirm(c, TRUE)
  /\ UNCHANGED <<states, given, row, tokens, calls, googleFaults>>

\* "Google keeps one grant for this app": Gmail's token is forgotten, not revoked.
KeepGrant(c) ==
  /\ Doing(c, "disconnect", "read") /\ gcall[c].calendarLive
  /\ Confirm(c, FALSE)
  /\ UNCHANGED <<states, given, row, tokens, alive, calls, said, googleFaults>>

\* No answer, or another status: Google may have revoked or not.
RevokeFails(c) ==
  /\ Doing(c, "disconnect", "read") /\ ~gcall[c].calendarLive
  /\ EndGrant(c) \/ UNCHANGED <<alive, said>>
  /\ Confirm(c, FALSE) /\ GoogleFault
  /\ UNCHANGED <<states, given, row, tokens, calls>>

\* What a disconnect that clears only what Google confirmed would do.
ClearConfirmed(c) ==
  /\ Doing(c, "disconnect", "revoked")
  /\ LET p == gcall[c].for
     IN  row' = IF gcall[c].confirmed
                THEN [row EXCEPT ![p] = [token |-> 0, revoked |-> TRUE, confirmed |-> TRUE]] ELSE row
  /\ said' = [said EXCEPT !.gone = @ \cup {gcall[c].token}]
  /\ Reply(c)
  /\ UNCHANGED <<states, given, tokens, alive, calls, googleFaults>>

\* The UPDATE clears whichever token the row holds by now.
ClearLink(c) ==
  /\ Doing(c, "disconnect", "revoked")
  /\ LET p == gcall[c].for
         t == gcall[c].token
     IN  /\ row' = [row EXCEPT ![p] =
              [token |-> 0, revoked |-> TRUE, confirmed |-> gcall[c].confirmed]]
         /\ said' = [said EXCEPT !.gone = @ \cup {t},
                                 !.unsure = @ \cup (IF gcall[c].confirmed THEN {} ELSE {t}),
                                 !.overrun = @ \cup ({row[p].token} \ {t, 0})]
  /\ Reply(c)
  /\ UNCHANGED <<states, given, tokens, alive, calls, googleFaults>>

\* The user withdraws access in the Google account.
Withdraw ==
  /\ alive # {} /\ alive' = {}
  /\ UNCHANGED <<states, given, row, tokens, gcall, calls, said, googleFaults>>

LinksNext ==
  \/ \E p \in Providers : Authorize(p)
  \/ \E s \in states : StateLost(s)
  \/ \E c \in Calls :
       \/ \E s \in states : BeginCallback(c, s)
       \/ ExchangeCode(c) \/ ExchangeRefused(c) \/ StoreLink(c)
       \/ BeginToday(c) \/ ReadToken(c) \/ RefreshAccess(c) \/ ListToday(c)
       \/ \E p \in Providers : BeginDisconnect(c, p)
       \/ ReadLink(c) \/ Revoke(c) \/ KeepGrant(c) \/ RevokeFails(c)
       \/ ClearLink(c) \/ CallDies(c)
  \/ Withdraw

LinksSpec == LinksInit /\ [][LinksNext]_linkVars

--------------------------------------------------------------------------------
(* What the routers tell a user of a link is so, however callbacks, reads and     *)
(* disconnects interleave.  A token reported disconnected is in no row, and no    *)
(* read begun later uses it; one whose end Google confirmed is dead there.  A     *)
(* token Google still takes is in a row (or replaced there under the same grant), *)
(* on its way there, or was refused or unconfirmed to the user's face, except     *)
(* when a disconnect cleared a token connected after the one it read or an older  *)
(* callback stored its token over a newer.  And Gmail's disconnect does not end   *)
(* the calendar it found connected.                                               *)
LinksAsTold ==
  LET held == {row[p].token : p \in Providers}
      coming == {gcall[c].token : c \in {d \in Calls : Doing(d, "callback", "exchanged")}}
  IN  /\ said.gone \cap held = {}
      /\ \A c \in Calls : gcall[c].at \in {"reading", "listing"} => gcall[c].token \notin gcall[c].barred
      /\ said.gone \ said.unsure \subseteq (1..tokens) \ alive
      /\ alive # {} =>
           alive \cap (held \cup coming \cup said.refused \cup said.unsure \cup said.overrun) # {}
      /\ \A hit \in said.hit : hit[1] # "gmail"
================================================================================
