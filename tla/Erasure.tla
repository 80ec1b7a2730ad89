-------------------------------- MODULE Erasure --------------------------------
(* The erasure of one account: DELETE /me, the cron that drains open requests,
   the seven steps, and the handlers and jobs of the user that were already
   past the account check.  All the steps of a run share one transaction; what
   they do to providers and to the object store does not wait for its commit. *)
EXTENDS Naturals, FiniteSets, SequencesExt

CONSTANTS
  Kinds,      \* the prefixes of the object store this user has something under
  Grants,     \* what providers hold for the user: the gateway key, Google links
  Writers,    \* requests and jobs that passed the account check in time
  Loose,      \* tables with a user_id and no foreign key on users
  Nothing,
  MaxFailures   \* outages, refusals, crashes and failing statements

VARIABLES
  account,    \* the users row: "live", "soft" (deleted_at is set) or "gone"
  request,    \* the newest erasure_request row, or Nothing
  objects,    \* prefixes with objects under them
  loose,      \* tables of Loose with rows of the user
  tokens,     \* grants whose secret is in a row
  held,       \* grants a provider still honours
  writers,    \* which writers have not answered yet
  run,        \* the drain's transaction, or Nothing
  late,       \* ghost: written or granted after the account was disabled
  unheard,    \* ghost: grants whose provider, last asked, did not confirm their end
  told,       \* ghost: what confirmed requests disclosed
  failures

ghosts == <<late, unheard, told>>
erasureVars == <<account, request, objects, loose, tokens, held, writers, run, ghosts, failures>>

Steps == <<"soft_deleted", "provider_purged", "traces_scrubbed",
           "objects_deleted", "cdn_purged", "rows_deleted", "confirmed">>

\* The rows of erasure_request.
Requests == [state : Range(Steps), done : SUBSET Range(Steps),
             disclosed : SUBSET (Grants \cup {"traces"}), attempts : Nat]

ASSUME NothingAssumption == Nothing \notin Requests
ASSUME GrantsAssumption == IsFiniteSet(Grants) /\ MaxFailures \in Nat

Listed == <<"originals", "cutouts", "masks", "boards", "grids", "body", "tryon", "exports">>
Purged == Range(Listed)

IsOpen == request # Nothing /\ request.state # "confirmed"

ErasureInit ==
  /\ account = "live" /\ request = Nothing
  /\ objects = {} /\ loose = Loose
  /\ tokens = Grants /\ held = Grants
  /\ writers = Writers /\ run = Nothing
  /\ late = {} /\ unheard = {} /\ told = {} /\ failures = 0

--------------------------------------------------------------------------------
\* Who is let in: the row is there and is not soft-deleted.
Admitted == account = "live"

\* A presigned upload: each data class has a prefix of its own.
Upload(k) ==
  /\ Admitted /\ k \notin objects
  /\ objects' = objects \cup {k}
  /\ UNCHANGED <<account, request, loose, tokens, held, writers, run, ghosts, failures>>

\* DELETE /me: the row, the soft delete and step 1, in one transaction.
Opened == [state |-> "soft_deleted", done |-> {"soft_deleted"}, disclosed |-> {}, attempts |-> 0]

DeleteMe ==
  /\ Admitted
  /\ request' = Opened
  /\ account' = "soft"
  /\ UNCHANGED <<objects, loose, tokens, held, writers, run, ghosts, failures>>

\* A second DELETE /me that passed the check before the first committed: told
\* "already requested" while the first is open, a fresh request once it is not.
DeleteMeAgain(w) ==
  /\ w \in writers /\ account # "live"
  /\ writers' = writers \ {w}
  /\ request' = IF IsOpen THEN request ELSE Opened
  /\ UNCHANGED <<account, objects, loose, tokens, held, run, ghosts, failures>>

\* What an upload, a stage, a render, an export or an OAuth callback leaves
\* behind.  A row that hangs off users needs the users row; the others do not.
WriteLate(w) ==
  /\ w \in writers /\ account # "live"
  /\ writers' = writers \ {w}
  /\ \/ \E k \in Kinds :
          /\ objects' = objects \cup {k} /\ late' = late \cup {k}
          /\ UNCHANGED <<loose, tokens, held>>
     \/ \E t \in Loose :
          /\ loose' = loose \cup {t} /\ late' = late \cup {t}
          /\ UNCHANGED <<objects, tokens, held>>
     \/ \E g \in Grants :
          /\ held' = held \cup {g} /\ late' = late \cup {g}
          /\ tokens' = IF account = "gone" THEN tokens ELSE tokens \cup {g}
          /\ UNCHANGED <<objects, loose>>
  /\ UNCHANGED <<account, request, run, unheard, told, failures>>

--------------------------------------------------------------------------------
DrainOnce ==
  /\ IsOpen /\ run = Nothing /\ request.attempts = 0
  /\ run' = [done |-> request.done, disclosed |-> request.disclosed, loose |-> {},
             nulled |-> {}, gone |-> FALSE, failed |-> FALSE]
  /\ UNCHANGED <<account, request, objects, loose, tokens, held, ghosts, writers, failures>>

\* drain_erasures picks up an open request with the steps it has recorded.
Drain ==
  /\ IsOpen /\ run = Nothing
  /\ run' = [done |-> request.done, disclosed |-> request.disclosed, loose |-> {},
             nulled |-> {}, gone |-> FALSE, failed |-> FALSE]
  /\ UNCHANGED <<account, request, objects, loose, tokens, held, ghosts, writers, failures>>

\* The next step of the run: those already recorded are skipped.
Todo == CHOOSE i \in 1..Len(Steps) :
          Steps[i] \notin run.done /\ \A j \in 1..(i - 1) : Steps[j] \in run.done

Doing(step) == run # Nothing /\ ~run.failed /\ run.done # Range(Steps)
               /\ Steps[Todo] = step

Advance(step, reasons) ==
  [run EXCEPT !.done = @ \cup {step}, !.disclosed = @ \cup reasons]

\* Every stored secret is presented to its provider.  The gateway's refusal to
\* delete the key is an answer the step does not look at, its outage is; one
\* Google link that is confirmed speaks for all of them.
Secrets == tokens \ run.nulled
Google == Secrets \ {"litellm"}
Unconfirmed(revoked, unreachable) ==
  (unreachable \cap {"litellm"})
  \cup (IF Google # {} /\ Google \cap revoked = {} THEN Google ELSE {})

PurgeProviders ==
  /\ Doing("provider_purged")
  /\ \E revoked \in SUBSET Secrets, unreachable \in SUBSET (Secrets \cap {"litellm"}) :
       /\ revoked \cap unreachable = {}
       /\ failures' = failures + Cardinality(Secrets \ revoked) /\ failures' <= MaxFailures
       /\ held' = held \ revoked
       /\ unheard' = (unheard \ Secrets) \cup Unconfirmed(revoked, unreachable)
       /\ run' = [Advance("provider_purged", Unconfirmed(revoked, unreachable))
                    EXCEPT !.nulled = Google]
  /\ UNCHANGED <<account, request, objects, loose, tokens, writers, late, told>>

ScrubTraces ==
  /\ Doing("traces_scrubbed")
  /\ \E tracing \in BOOLEAN :
       run' = Advance("traces_scrubbed", IF tracing THEN {"traces"} ELSE {})
  /\ UNCHANGED <<account, request, objects, loose, tokens, held, ghosts, writers, failures>>

\* Every version under the prefixes; nothing else is listed.
DeleteAllVersions(prefixes) == objects \ Range(prefixes)

\* Prefix after prefix; the first that cannot be listed raises.
DeleteObjects ==
  /\ Doing("objects_deleted")
  /\ \/ /\ objects' = DeleteAllVersions(Listed)
        /\ run' = Advance("objects_deleted", {})
        /\ UNCHANGED failures
     \/ /\ failures < MaxFailures /\ failures' = failures + 1
        /\ \E n \in 0..(Len(Listed) - 1) :
             objects' = DeleteAllVersions(SubSeq(Listed, 1, n))
        /\ run' = [run EXCEPT !.failed = TRUE]
  /\ UNCHANGED <<account, request, loose, tokens, held, writers, ghosts>>

PurgeCdn ==
  /\ Doing("cdn_purged")
  /\ run' = Advance("cdn_purged", {})
  /\ UNCHANGED <<account, request, objects, loose, tokens, held, ghosts, writers, failures>>

\* erase_user_rows: every listed table, users last; what hangs off users by a
\* foreign key goes with it.
EraseUserRows(t) == [t EXCEPT !.gone = TRUE, !.loose = loose]

DeleteRows ==
  /\ Doing("rows_deleted")
  /\ run' = EraseUserRows(Advance("rows_deleted", {}))
  /\ UNCHANGED <<account, request, objects, loose, tokens, held, ghosts, writers, failures>>

Confirm ==
  /\ Doing("confirmed")
  /\ run' = Advance("confirmed", {})
  /\ UNCHANGED <<account, request, objects, loose, tokens, held, ghosts, writers, failures>>

--------------------------------------------------------------------------------
Newest(done) == Steps[CHOOSE i \in 1..Len(Steps) :
                      Steps[i] \in done /\ \A j \in (i + 1)..Len(Steps) : Steps[j] \notin done]

CommitForgets ==
  /\ run # Nothing /\ (run.failed \/ run.done = Range(Steps))
  /\ request' = [request EXCEPT !.state = Newest(run.done), !.done = run.done]
  /\ account' = IF run.gone THEN "gone" ELSE account
  /\ loose' = loose \ run.loose
  /\ tokens' = IF run.gone THEN {} ELSE tokens \ run.nulled
  /\ told' = IF "confirmed" \in run.done THEN told \cup request'.disclosed ELSE told
  /\ run' = Nothing
  /\ UNCHANGED <<objects, held, writers, late, unheard, failures>>

\* The transaction ends: after the last step, or after a step raised, because
\* the exception is caught inside it; the error itself is a row write of its own.
Commit ==
  /\ run # Nothing /\ (run.failed \/ run.done = Range(Steps))
  /\ request' = [state |-> Newest(run.done), done |-> run.done, disclosed |-> run.disclosed,
                 attempts |-> IF run.failed THEN request.attempts + 1 ELSE request.attempts]
  /\ account' = IF run.gone THEN "gone" ELSE account
  /\ loose' = loose \ run.loose
  /\ tokens' = IF run.gone THEN {} ELSE tokens \ run.nulled
  /\ told' = IF "confirmed" \in run.done THEN told \cup request'.disclosed ELSE told
  /\ run' = Nothing
  /\ UNCHANGED <<objects, held, writers, late, unheard, failures>>

\* A failing statement, the job's timeout, or a crash: nothing of the run's
\* record stays, all of its effects outside the database do.
RollBack ==
  /\ run # Nothing /\ failures < MaxFailures
  /\ failures' = failures + 1
  /\ run' = Nothing
  /\ request' \in {request, [request EXCEPT !.attempts = @ + 1]}
  /\ UNCHANGED <<account, objects, loose, tokens, held, writers, ghosts>>

RunSteps == PurgeProviders \/ ScrubTraces \/ DeleteObjects \/ PurgeCdn \/ DeleteRows
            \/ Confirm \/ Commit

ErasureNext ==
  \/ \E k \in Kinds : Upload(k)
  \/ DeleteMe
  \/ \E w \in Writers : DeleteMeAgain(w) \/ WriteLate(w)
  \/ Drain \/ PurgeProviders \/ ScrubTraces \/ DeleteObjects \/ PurgeCdn \/ DeleteRows
  \/ Confirm \/ Commit \/ RollBack

ErasureSpec == ErasureInit /\ [][ErasureNext]_erasureVars

\* The cron comes round every half hour and a run goes on until it ends.
ErasureFairness == WF_erasureVars(Drain) /\ WF_erasureVars(RunSteps)

--------------------------------------------------------------------------------
ErasureTypeOK ==
  /\ account \in {"live", "soft", "gone"}
  /\ request # Nothing => request \in Requests /\ request.attempts <= failures
  /\ objects \subseteq Kinds /\ loose \subseteq Loose
  /\ tokens \subseteq Grants /\ held \subseteq Grants
  /\ writers \subseteq Writers /\ failures \in 0..MaxFailures

Confirmed == request # Nothing /\ request.state = "confirmed"

\* An erasure that is confirmed has deleted the account, every object of the
\* purged prefixes and every row that existed when it was asked for, whatever
\* outages and restarts it went through; only late writers leave anything.  A
\* grant whose provider, when it was last asked, could not confirm its end is
\* disclosed by a confirmed record, through rollbacks and resumed runs.
ConfirmedIsTrue ==
  Confirmed => /\ account = "gone" /\ tokens = {}
               /\ objects \cap Purged \subseteq late
               /\ loose \subseteq late
               /\ (held \cap unheard) \ late \subseteq told

\* Outages and restarts do not keep an erasure from being finished.
ErasureFinishes == (account = "soft") ~> (account = "gone")

\* "Reporting success while someone else still holds the data is worse than
\* saying so": nothing from before the request survives a confirmed erasure
\* unless the record discloses it.
NothingSurvivesUndisclosed ==
  Confirmed => /\ objects \subseteq late
               /\ held \ late \subseteq request.disclosed
================================================================================
