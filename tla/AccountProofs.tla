------------------------------ MODULE AccountProofs -----------------------------
(* Proofs of what a user may take back: that what a confirmed erasure says is so,
   for any prefixes, grants, late writers and number of outages, refusals and
   crashes; that a revocation of consent holds, and that the record of a render
   says what the picture shows, for any photos, outfits, taps, jobs and faults. *)
EXTENDS MCAccount, WellFoundedInduction, FiniteSetTheorems, TLAPS

LEMMA StepsAre ==
  /\ Range(Steps) = {"soft_deleted", "provider_purged", "traces_scrubbed", "objects_deleted",
                     "cdn_purged", "rows_deleted", "confirmed"}
  /\ Len(Steps) = 7 /\ 1..Len(Steps) = {1, 2, 3, 4, 5, 6, 7}
  /\ Steps[1] = "soft_deleted" /\ Steps[2] = "provider_purged" /\ Steps[3] = "traces_scrubbed"
  /\ Steps[4] = "objects_deleted" /\ Steps[5] = "cdn_purged" /\ Steps[6] = "rows_deleted"
  /\ Steps[7] = "confirmed"
<1>1. DOMAIN Steps = {1, 2, 3, 4, 5, 6, 7} /\ Len(Steps) = 7
  BY DEF Steps
<1>2. 1..Len(Steps) = {1, 2, 3, 4, 5, 6, 7}
  BY <1>1
<1>3. /\ Steps[1] = "soft_deleted" /\ Steps[2] = "provider_purged"
      /\ Steps[3] = "traces_scrubbed" /\ Steps[4] = "objects_deleted"
      /\ Steps[5] = "cdn_purged" /\ Steps[6] = "rows_deleted" /\ Steps[7] = "confirmed"
  BY DEF Steps
<1> QED
  BY <1>1, <1>2, <1>3 DEF Range

\* The steps are done one after the other.
InOrder(done) ==
  /\ done \subseteq Range(Steps) /\ "soft_deleted" \in done
  /\ "traces_scrubbed" \in done => "provider_purged" \in done
  /\ "objects_deleted" \in done => "traces_scrubbed" \in done
  /\ "cdn_purged" \in done => "objects_deleted" \in done
  /\ "rows_deleted" \in done => "cdn_purged" \in done
  /\ "confirmed" \in done => "rows_deleted" \in done

LEMMA TodoIsNext ==
  ASSUME InOrder(run.done), NEW step, Doing(step)
  PROVE  step \in Range(Steps) /\ step \notin run.done /\ InOrder(run.done \cup {step})
<1> DEFINE First(i) == Steps[i] \notin run.done /\ \A j \in 1..(i - 1) : Steps[j] \in run.done
<1>1. \E i \in 1..Len(Steps) : First(i)
  <2>1. \E i \in 1..Len(Steps) : Steps[i] \notin run.done
    BY StepsAre DEF Doing, InOrder
  <2>2. /\ 1..(1 - 1) = {} /\ 1..(2 - 1) = {1} /\ 1..(3 - 1) = {1, 2} /\ 1..(4 - 1) = {1, 2, 3}
        /\ 1..(5 - 1) = {1, 2, 3, 4} /\ 1..(6 - 1) = {1, 2, 3, 4, 5}
        /\ 1..(7 - 1) = {1, 2, 3, 4, 5, 6}
    OBVIOUS
  <2> QED
    BY <2>1, <2>2, StepsAre, SMTT(30) DEF InOrder
<1>2. Todo \in 1..Len(Steps) /\ First(Todo)
  BY <1>1 DEF Todo
<1>3. step = Steps[Todo]
  BY DEF Doing
<1>4. Todo # 1 => Steps[Todo - 1] \in run.done
  BY <1>2, StepsAre
<1> QED
  BY <1>2, <1>3, <1>4, StepsAre DEF InOrder

LEMMA NewestIsAStep ==
  ASSUME NEW done, InOrder(done)
  PROVE  Newest(done) \in Range(Steps) /\ (Newest(done) = "confirmed" <=> "confirmed" \in done)
<1> DEFINE IsNewest(i) == Steps[i] \in done /\ \A j \in (i + 1)..Len(Steps) : Steps[j] \notin done
<1>1. \E i \in 1..Len(Steps) : IsNewest(i)
  <2>1. /\ (7 + 1)..Len(Steps) = {} /\ (6 + 1)..Len(Steps) = {7} /\ (5 + 1)..Len(Steps) = {6, 7}
        /\ (4 + 1)..Len(Steps) = {5, 6, 7} /\ (3 + 1)..Len(Steps) = {4, 5, 6, 7}
        /\ (2 + 1)..Len(Steps) = {3, 4, 5, 6, 7} /\ (1 + 1)..Len(Steps) = {2, 3, 4, 5, 6, 7}
    BY StepsAre
  <2> QED
    BY <2>1, StepsAre DEF InOrder
<1> DEFINE n == CHOOSE i \in 1..Len(Steps) : IsNewest(i)
<1>2. n \in 1..Len(Steps) /\ IsNewest(n) /\ Newest(done) = Steps[n]
  BY <1>1 DEF Newest
<1>3. "confirmed" \in done => n = 7
  BY <1>2, StepsAre
<1> QED
  BY <1>2, <1>3, StepsAre

--------------------------------------------------------------------------------
Transactions == [done : SUBSET Range(Steps), disclosed : SUBSET (Grants \cup {"traces"}),
                 loose : SUBSET Loose, nulled : SUBSET Grants, gone : BOOLEAN, failed : BOOLEAN]

ErasureTyped ==
  /\ request # Nothing => request \in Requests
  /\ run # Nothing => run \in Transactions
  /\ tokens \subseteq Grants /\ loose \subseteq Loose

\* A request closes the account, and only an open one is worked on.
AccountClosed ==
  /\ account = "live" => request = Nothing
  /\ request = Nothing => account = "live" /\ unheard = {} /\ run = Nothing
  /\ account = "gone" => tokens = {}
  /\ request # Nothing =>
       InOrder(request.done) /\ (request.state = "confirmed" <=> "confirmed" \in request.done)
  /\ run # Nothing => request.state # "confirmed" /\ InOrder(run.done)

ObjectsGone(done) == "objects_deleted" \in done => objects \cap Purged \subseteq late
RowsGone(done) == "rows_deleted" \in done => account = "gone" /\ loose \subseteq late

\* Grants that may live on although the user's end of them is over.
Unended == (held \cap unheard) \ late

\* What the request has on record is done.  A grant that could not be ended is
\* disclosed, or its secret is still there to be presented again.
RecordIsTrue ==
  request # Nothing =>
    /\ ObjectsGone(request.done) /\ RowsGone(request.done)
    /\ "provider_purged" \in request.done => Unended \subseteq request.disclosed \cup told
    /\ "provider_purged" \notin request.done => Unended \subseteq tokens \cup told
    /\ request.state = "confirmed" => Unended \subseteq told

\* What a run has got done so far is done, or will be when it commits.
RunIsTrue ==
  run # Nothing =>
    /\ ObjectsGone(run.done)
    /\ run.gone => "rows_deleted" \in run.done
    /\ "rows_deleted" \in run.done =>
         RowsGone(request.done) /\ (run.gone \/ "rows_deleted" \in request.done)
    /\ run.gone => loose \ run.loose \subseteq late
    /\ "provider_purged" \in run.done => Unended \subseteq run.disclosed \cup told
    /\ "provider_purged" \notin run.done => run.nulled = {} /\ "provider_purged" \notin request.done

ErasureInv == ErasureTyped /\ AccountClosed /\ RecordIsTrue /\ RunIsTrue

LEMMA ErasureInitInv == ErasureInit => ErasureInv
BY DEF ErasureInit, ErasureInv, ErasureTyped, AccountClosed, RecordIsTrue, RunIsTrue

--------------------------------------------------------------------------------
LEMMA UploadKeeps == ASSUME ErasureInv, NEW k \in Kinds, Upload(k) PROVE ErasureInv'
BY DEF Upload, Admitted, ErasureInv, ErasureTyped, AccountClosed, RecordIsTrue, RunIsTrue, ghosts

LEMMA OpenedIsARequest ==
  Opened \in Requests /\ InOrder(Opened.done) /\ Opened.state # "confirmed"
  /\ Opened.done = {"soft_deleted"} /\ Opened.disclosed = {}
BY StepsAre DEF Opened, Requests, InOrder

LEMMA DeleteMeKeeps == ASSUME ErasureInv, DeleteMe PROVE ErasureInv'
<1>1. request' = Opened /\ account' = "soft" /\ request = Nothing /\ run' = Nothing
      /\ unheard = {} /\ UNCHANGED <<objects, loose, tokens, held, writers, ghosts, failures>>
  BY DEF DeleteMe, Admitted, ErasureInv, AccountClosed
<1>2. CASE Opened # Nothing
  BY <1>1, <1>2, OpenedIsARequest
     DEF ErasureInv, ErasureTyped, AccountClosed, RecordIsTrue, RunIsTrue, ObjectsGone,
         RowsGone, Unended, ghosts
<1> QED
  BY <1>2, NothingAssumption, OpenedIsARequest

LEMMA DeleteMeAgainKeeps ==
  ASSUME ErasureInv, NEW w \in Writers, DeleteMeAgain(w) PROVE ErasureInv'
<1>1. /\ account # "live"
      /\ UNCHANGED <<account, objects, loose, tokens, held, run, ghosts, failures>>
  BY DEF DeleteMeAgain
<1>2. CASE request' = request
  BY <1>1, <1>2 DEF ErasureInv, ErasureTyped, AccountClosed, RecordIsTrue, RunIsTrue,
     ObjectsGone, RowsGone, Unended, ghosts
<1>3. CASE request' = Opened /\ ~IsOpen
  <2>1. request # Nothing /\ request.state = "confirmed" /\ run = Nothing /\ Unended \subseteq told
    BY <1>1, <1>3 DEF IsOpen, ErasureInv, AccountClosed, RecordIsTrue
  <2>2. Opened # Nothing
    BY NothingAssumption, OpenedIsARequest
  <2> QED
    BY <1>1, <1>3, <2>1, <2>2, OpenedIsARequest
       DEF ErasureInv, ErasureTyped, AccountClosed, RecordIsTrue, RunIsTrue, ObjectsGone,
           RowsGone, Unended, ghosts
<1> QED
  BY <1>2, <1>3 DEF DeleteMeAgain

LEMMA WriteLateKeeps ==
  ASSUME ErasureInv, NEW w \in Writers, WriteLate(w) PROVE ErasureInv'
<1>1. /\ account # "live" /\ request # Nothing
      /\ late \subseteq late' /\ UNCHANGED <<account, request, run, unheard, told>>
  BY DEF WriteLate, ErasureInv, AccountClosed
<1>2. objects' \ late' \subseteq objects /\ objects \cap late \subseteq late'
      /\ loose' \ late' \subseteq loose /\ loose' \subseteq Loose \cup loose
      /\ held' \ late' \subseteq held
      /\ tokens \subseteq tokens' /\ tokens' \subseteq Grants \cup tokens
      /\ (account = "gone" => tokens' = tokens)
  BY DEF WriteLate
<1>3. Unended' \subseteq Unended
  BY <1>1, <1>2 DEF Unended
<1>4. ErasureTyped' /\ AccountClosed'
  BY <1>1, <1>2 DEF ErasureInv, ErasureTyped, AccountClosed
<1>5. \A done : (ObjectsGone(done) => ObjectsGone(done)') /\ (RowsGone(done) => RowsGone(done)')
  BY <1>1, <1>2 DEF ObjectsGone, RowsGone
<1>6. RecordIsTrue'
  BY <1>1, <1>2, <1>3, <1>5 DEF ErasureInv, RecordIsTrue
<1>7. RunIsTrue'
  BY <1>1, <1>2, <1>3, <1>5 DEF ErasureInv, RunIsTrue
<1> QED
  BY <1>4, <1>6, <1>7 DEF ErasureInv

LEMMA DrainKeeps == ASSUME ErasureInv, Drain PROVE ErasureInv'
<1> DEFINE begun == [done |-> request.done, disclosed |-> request.disclosed, loose |-> {},
                     nulled |-> {}, gone |-> FALSE, failed |-> FALSE]
<1>1. /\ request # Nothing /\ request.state # "confirmed" /\ run' = begun
      /\ UNCHANGED <<account, request, objects, loose, tokens, held, ghosts>>
  BY DEF Drain, IsOpen
<1>2. begun \in Transactions /\ InOrder(request.done)
  BY <1>1 DEF ErasureInv, ErasureTyped, AccountClosed, Requests, Transactions
<1>3. ErasureTyped' /\ AccountClosed'
  BY <1>1, <1>2 DEF ErasureInv, ErasureTyped, AccountClosed, ghosts
<1>4. RecordIsTrue' /\ RunIsTrue'
  BY <1>1 DEF ErasureInv, RecordIsTrue, RunIsTrue, ObjectsGone, RowsGone, Unended, ghosts
<1> QED
  BY <1>3, <1>4 DEF ErasureInv

--------------------------------------------------------------------------------
\* A run that may take a step has a request, and its record after the step.
LEMMA StepKeepsOrder ==
  ASSUME ErasureInv, NEW step, Doing(step), NEW reasons \in SUBSET (Grants \cup {"traces"})
  PROVE  /\ run # Nothing /\ run \in Transactions
         /\ request # Nothing /\ account # "live"
         /\ step \notin run.done /\ InOrder(run.done \cup {step})
         /\ Advance(step, reasons) \in Transactions
         /\ Advance(step, reasons).done = run.done \cup {step}
         /\ Advance(step, reasons).disclosed = run.disclosed \cup reasons
         /\ Advance(step, reasons).loose = run.loose
         /\ Advance(step, reasons).nulled = run.nulled
         /\ Advance(step, reasons).gone = run.gone
<1>1. run # Nothing /\ run \in Transactions /\ InOrder(run.done) /\ request # Nothing
      /\ account # "live"
  BY DEF Doing, ErasureInv, ErasureTyped, AccountClosed
<1>2. step \in Range(Steps) /\ step \notin run.done /\ InOrder(run.done \cup {step})
  BY <1>1, TodoIsNext
<1> QED
  BY <1>1, <1>2 DEF Advance, Transactions

LEMMA QuietStepKeeps ==
  ASSUME ErasureInv, NEW step, Doing(step), NEW reasons \in SUBSET (Grants \cup {"traces"}),
         step \notin {"provider_purged", "objects_deleted", "rows_deleted"},
         run' = Advance(step, reasons),
         UNCHANGED <<account, request, objects, loose, tokens, held, ghosts>>
  PROVE  ErasureInv'
<1>1. /\ run # Nothing /\ request # Nothing /\ run' \in Transactions
      /\ InOrder(run'.done) /\ run'.done = run.done \cup {step}
      /\ run.disclosed \subseteq run'.disclosed
      /\ run'.loose = run.loose /\ run'.nulled = run.nulled /\ run'.gone = run.gone
  <2>1. /\ run # Nothing /\ request # Nothing /\ InOrder(run.done \cup {step})
        /\ Advance(step, reasons) \in Transactions
        /\ Advance(step, reasons).done = run.done \cup {step}
        /\ Advance(step, reasons).disclosed = run.disclosed \cup reasons
        /\ Advance(step, reasons).loose = run.loose
        /\ Advance(step, reasons).nulled = run.nulled
        /\ Advance(step, reasons).gone = run.gone
    BY StepKeepsOrder
  <2> QED
    BY <2>1
<1>2. ErasureTyped' /\ AccountClosed'
  BY <1>1 DEF ErasureInv, ErasureTyped, AccountClosed, ghosts
<1>3. RecordIsTrue'
  BY DEF ErasureInv, RecordIsTrue, ObjectsGone, RowsGone, Unended, ghosts
<1>4. RunIsTrue'
  BY <1>1 DEF ErasureInv, RunIsTrue, ObjectsGone, RowsGone, Unended, ghosts
<1> QED
  BY <1>2, <1>3, <1>4 DEF ErasureInv

LEMMA PurgeProvidersKeeps == ASSUME ErasureInv, PurgeProviders PROVE ErasureInv'
<1>1. PICK revoked \in SUBSET Secrets, unreachable \in SUBSET (Secrets \cap {"litellm"}) :
        /\ held' = held \ revoked
        /\ unheard' = (unheard \ Secrets) \cup Unconfirmed(revoked, unreachable)
        /\ run' = [Advance("provider_purged", Unconfirmed(revoked, unreachable))
                     EXCEPT !.nulled = Google]
  BY DEF PurgeProviders
<1> DEFINE reasons == Unconfirmed(revoked, unreachable)
<1>2. Doing("provider_purged")
      /\ UNCHANGED <<account, request, objects, loose, tokens, late, told>>
  BY DEF PurgeProviders
<1>3. reasons \subseteq Secrets /\ Secrets \subseteq tokens /\ Google \subseteq Secrets
      /\ tokens \subseteq Grants
  BY DEF Unconfirmed, Secrets, Google, ErasureInv, ErasureTyped
<1>4. run # Nothing /\ request # Nothing /\ "provider_purged" \notin run.done
      /\ InOrder(run.done \cup {"provider_purged"})
  BY <1>2, <1>3, StepKeepsOrder
<1>5. Secrets = tokens
  BY <1>4 DEF ErasureInv, RunIsTrue, Secrets
<1>6. /\ run' \in Transactions
      /\ run'.done = run.done \cup {"provider_purged"}
      /\ run'.disclosed = run.disclosed \cup reasons
      /\ run'.loose = run.loose /\ run'.gone = run.gone
  <2>1. /\ run \in Transactions /\ Advance("provider_purged", reasons) \in Transactions
        /\ Advance("provider_purged", reasons).done = run.done \cup {"provider_purged"}
        /\ Advance("provider_purged", reasons).disclosed = run.disclosed \cup reasons
        /\ Advance("provider_purged", reasons).loose = run.loose
        /\ Advance("provider_purged", reasons).gone = run.gone
    BY <1>2, <1>3, StepKeepsOrder, ZenonT(30)
  <2>2. Google \subseteq Grants
    BY <1>3
  <2> QED
    BY <1>1, <2>1, <2>2 DEF Transactions
<1>7. Unended' \subseteq reasons \cup told /\ "provider_purged" \notin request.done
  <2>1. "provider_purged" \notin request.done
    BY <1>4 DEF ErasureInv, RunIsTrue
  <2>2. Unended \subseteq tokens \cup told
    BY <1>4, <2>1 DEF ErasureInv, RecordIsTrue
  <2>3. Unended' \subseteq (Unended \ tokens) \cup reasons
    BY <1>1, <1>2, <1>5 DEF Unended
  <2> QED
    BY <2>1, <2>2, <2>3
<1>8. ErasureTyped' /\ AccountClosed'
  BY <1>2, <1>4, <1>6 DEF ErasureInv, ErasureTyped, AccountClosed
<1>9. RecordIsTrue'
  <2>1. request.state # "confirmed"
    BY <1>4 DEF ErasureInv, AccountClosed
  <2> QED
    BY <1>2, <1>3, <1>4, <1>5, <1>7, <2>1
       DEF ErasureInv, RecordIsTrue, ObjectsGone, RowsGone
<1>10. RunIsTrue'
  BY <1>2, <1>4, <1>6, <1>7 DEF ErasureInv, RunIsTrue, ObjectsGone, RowsGone
<1> QED
  BY <1>8, <1>9, <1>10 DEF ErasureInv

LEMMA DeleteObjectsKeeps == ASSUME ErasureInv, DeleteObjects PROVE ErasureInv'
<1>1. Doing("objects_deleted")
      /\ UNCHANGED <<account, request, loose, tokens, held, writers, ghosts>>
  BY DEF DeleteObjects
<1>2. /\ run # Nothing /\ run \in Transactions /\ request # Nothing
      /\ "objects_deleted" \notin run.done
      /\ InOrder(run.done \cup {"objects_deleted"})
      /\ Advance("objects_deleted", {}) \in Transactions
      /\ Advance("objects_deleted", {}).done = run.done \cup {"objects_deleted"}
      /\ Advance("objects_deleted", {}).disclosed = run.disclosed \cup {}
      /\ Advance("objects_deleted", {}).loose = run.loose
      /\ Advance("objects_deleted", {}).nulled = run.nulled
      /\ Advance("objects_deleted", {}).gone = run.gone
  BY <1>1, StepKeepsOrder, ZenonT(30)
<1>3. CASE objects' = DeleteAllVersions(Listed) /\ run' = Advance("objects_deleted", {})
  <2>1. objects' \cap Purged = {} /\ objects' \subseteq objects
    BY <1>3 DEF DeleteAllVersions, Purged
  <2>2. ErasureTyped' /\ AccountClosed'
    BY <1>1, <1>2, <1>3 DEF ErasureInv, ErasureTyped, AccountClosed, ghosts
  <2>3. RecordIsTrue' /\ RunIsTrue'
    BY <1>1, <1>2, <1>3, <2>1
       DEF ErasureInv, RecordIsTrue, RunIsTrue, ObjectsGone, RowsGone, Unended, ghosts
  <2> QED
    BY <2>2, <2>3 DEF ErasureInv
<1>4. CASE objects' \subseteq objects /\ run' = [run EXCEPT !.failed = TRUE]
  <2>1. run' \in Transactions /\ run'.done = run.done /\ run'.disclosed = run.disclosed
        /\ run'.loose = run.loose /\ run'.nulled = run.nulled /\ run'.gone = run.gone
    BY <1>2, <1>4 DEF Transactions
  <2>2. ErasureTyped' /\ AccountClosed'
    BY <1>1, <1>2, <2>1 DEF ErasureInv, ErasureTyped, AccountClosed, ghosts
  <2>3. RecordIsTrue' /\ RunIsTrue'
    BY <1>1, <1>2, <1>4, <2>1
       DEF ErasureInv, RecordIsTrue, RunIsTrue, ObjectsGone, RowsGone, Unended, ghosts
  <2> QED
    BY <2>2, <2>3 DEF ErasureInv
<1> QED
  BY <1>3, <1>4 DEF DeleteObjects, DeleteAllVersions

LEMMA DeleteRowsKeeps == ASSUME ErasureInv, DeleteRows PROVE ErasureInv'
<1>1. Doing("rows_deleted") /\ run' = EraseUserRows(Advance("rows_deleted", {}))
      /\ UNCHANGED <<account, request, objects, loose, tokens, held, ghosts>>
  BY DEF DeleteRows
<1>2. /\ run # Nothing /\ run \in Transactions /\ request # Nothing
      /\ "rows_deleted" \notin run.done
      /\ InOrder(run.done \cup {"rows_deleted"})
      /\ Advance("rows_deleted", {}) \in Transactions
      /\ Advance("rows_deleted", {}).done = run.done \cup {"rows_deleted"}
      /\ Advance("rows_deleted", {}).disclosed = run.disclosed \cup {}
      /\ Advance("rows_deleted", {}).loose = run.loose
      /\ Advance("rows_deleted", {}).nulled = run.nulled
      /\ Advance("rows_deleted", {}).gone = run.gone
  BY <1>1, StepKeepsOrder, ZenonT(30)
<1>3. /\ run' \in Transactions
      /\ run'.done = run.done \cup {"rows_deleted"} /\ run'.disclosed = run.disclosed
      /\ run'.loose = loose /\ run'.nulled = run.nulled /\ run'.gone
  BY <1>1, <1>2 DEF EraseUserRows, Transactions, ErasureInv, ErasureTyped
<1>4. ErasureTyped' /\ AccountClosed'
  BY <1>1, <1>2, <1>3 DEF ErasureInv, ErasureTyped, AccountClosed, ghosts
<1>5. RecordIsTrue' /\ RunIsTrue'
  BY <1>1, <1>2, <1>3
     DEF ErasureInv, RecordIsTrue, RunIsTrue, ObjectsGone, RowsGone, Unended, ghosts
<1> QED
  BY <1>4, <1>5 DEF ErasureInv

--------------------------------------------------------------------------------
LEMMA CommitKeeps == ASSUME ErasureInv, Commit PROVE ErasureInv'
<1>1. /\ run # Nothing /\ run' = Nothing
      /\ request'.state = Newest(run.done) /\ request'.done = run.done
      /\ request'.disclosed = run.disclosed
      /\ request' \in [state : {Newest(run.done)}, done : {run.done},
                       disclosed : {run.disclosed},
                       attempts : {request.attempts, request.attempts + 1}]
      /\ account' = IF run.gone THEN "gone" ELSE account
      /\ loose' = loose \ run.loose
      /\ tokens' = IF run.gone THEN {} ELSE tokens \ run.nulled
      /\ told' = IF "confirmed" \in run.done THEN told \cup request'.disclosed ELSE told
      /\ UNCHANGED <<objects, held, late, unheard>>
  BY DEF Commit
<1>2. /\ run \in Transactions /\ InOrder(run.done)
      /\ request # Nothing /\ request \in Requests /\ account # "live"
  BY <1>1 DEF ErasureInv, ErasureTyped, AccountClosed
<1>3. Newest(run.done) \in Range(Steps)
      /\ (Newest(run.done) = "confirmed" <=> "confirmed" \in run.done)
  BY <1>2, NewestIsAStep
<1>4. request' \in Requests /\ request' # Nothing
  BY <1>1, <1>2, <1>3, NothingAssumption DEF Requests, Transactions
<1>5. ErasureTyped'
  BY <1>1, <1>2, <1>4 DEF ErasureInv, ErasureTyped
<1>6. AccountClosed'
  BY <1>1, <1>2, <1>3, <1>4 DEF ErasureInv, AccountClosed
<1>7. RecordIsTrue'
  <2>1. ObjectsGone(request.done)'
    BY <1>1 DEF ErasureInv, RunIsTrue, ObjectsGone
  <2>2. RowsGone(request.done)'
    BY <1>1 DEF ErasureInv, RunIsTrue, RecordIsTrue, RowsGone
  <2>3. CASE "provider_purged" \in run.done
    <3>1. Unended' \subseteq request'.disclosed \cup told
      BY <1>1, <2>3 DEF ErasureInv, RunIsTrue, Unended
    <3>2. told \subseteq told'
          /\ ("confirmed" \in run.done => told' = told \cup request'.disclosed)
      BY <1>1
    <3>3. request'.done = run.done /\ (request'.state = "confirmed" <=> "confirmed" \in run.done)
      BY <1>1, <1>3
    <3> QED
      BY <2>1, <2>2, <2>3, <3>1, <3>2, <3>3 DEF RecordIsTrue
  <2>4. CASE "provider_purged" \notin run.done
    <3>1. "confirmed" \notin run.done /\ "rows_deleted" \notin run.done
      BY <1>2, <2>4 DEF InOrder
    <3>2. tokens' = tokens /\ told' = told
      BY <1>1, <1>2, <2>4, <3>1 DEF ErasureInv, RunIsTrue, Transactions
    <3> QED
      BY <1>1, <1>2, <1>3, <2>1, <2>2, <2>4, <3>1, <3>2
         DEF ErasureInv, RunIsTrue, RecordIsTrue, ObjectsGone, RowsGone, Unended
  <2> QED
    BY <2>3, <2>4
<1> QED
  BY <1>1, <1>5, <1>6, <1>7 DEF ErasureInv, RunIsTrue

LEMMA RollBackKeeps == ASSUME ErasureInv, RollBack PROVE ErasureInv'
<1>1. /\ run # Nothing /\ run' = Nothing
      /\ request' \in {request, [request EXCEPT !.attempts = @ + 1]}
      /\ UNCHANGED <<account, objects, loose, tokens, held, ghosts>>
  BY DEF RollBack
<1>2. request # Nothing /\ request \in Requests
  BY <1>1 DEF ErasureInv, ErasureTyped, AccountClosed
<1>3. request' \in Requests /\ request'.done = request.done /\ request'.state = request.state
      /\ request'.disclosed = request.disclosed
  BY <1>1, <1>2 DEF Requests
<1>4. ErasureTyped' /\ AccountClosed'
  BY <1>1, <1>2, <1>3, NothingAssumption DEF ErasureInv, ErasureTyped, AccountClosed, ghosts
<1>5. RecordIsTrue' /\ RunIsTrue'
  BY <1>1, <1>2, <1>3
     DEF ErasureInv, RecordIsTrue, RunIsTrue, ObjectsGone, RowsGone, Unended, ghosts
<1> QED
  BY <1>4, <1>5 DEF ErasureInv

LEMMA ErasureInvKept == ErasureInv /\ [ErasureNext]_erasureVars => ErasureInv'
<1> SUFFICES ASSUME ErasureInv, [ErasureNext]_erasureVars PROVE ErasureInv'
  OBVIOUS
<1>1. CASE UNCHANGED erasureVars
  BY <1>1 DEF erasureVars, ghosts, ErasureInv, ErasureTyped, AccountClosed, RecordIsTrue,
     RunIsTrue, ObjectsGone, RowsGone, Unended
<1>2. CASE \E k \in Kinds : Upload(k)
  BY <1>2, UploadKeeps
<1>3. CASE DeleteMe
  BY <1>3, DeleteMeKeeps
<1>4. CASE \E w \in Writers : DeleteMeAgain(w) \/ WriteLate(w)
  BY <1>4, DeleteMeAgainKeeps, WriteLateKeeps
<1>5. CASE Drain
  BY <1>5, DrainKeeps
<1>6. CASE PurgeProviders \/ DeleteObjects \/ DeleteRows
  BY <1>6, PurgeProvidersKeeps, DeleteObjectsKeeps, DeleteRowsKeeps
<1>7. CASE ScrubTraces
  <2>1. PICK tracing \in BOOLEAN :
          run' = Advance("traces_scrubbed", IF tracing THEN {"traces"} ELSE {})
    BY <1>7 DEF ScrubTraces
  <2>2. Doing("traces_scrubbed")
        /\ UNCHANGED <<account, request, objects, loose, tokens, held, ghosts>>
    BY <1>7 DEF ScrubTraces
  <2>3. (IF tracing THEN {"traces"} ELSE {}) \in SUBSET (Grants \cup {"traces"})
    OBVIOUS
  <2> QED
    BY <2>1, <2>2, <2>3, QuietStepKeeps
<1>8. CASE PurgeCdn
  <2>1. Doing("cdn_purged") /\ run' = Advance("cdn_purged", {})
        /\ UNCHANGED <<account, request, objects, loose, tokens, held, ghosts>>
    BY <1>8 DEF PurgeCdn
  <2> QED
    BY <2>1, QuietStepKeeps
<1>9. CASE Confirm
  <2>1. Doing("confirmed") /\ run' = Advance("confirmed", {})
        /\ UNCHANGED <<account, request, objects, loose, tokens, held, ghosts>>
    BY <1>9 DEF Confirm
  <2> QED
    BY <2>1, QuietStepKeeps
<1>10. CASE Commit \/ RollBack
  BY <1>10, CommitKeeps, RollBackKeeps
<1> QED
  BY <1>1, <1>2, <1>3, <1>4, <1>5, <1>6, <1>7, <1>8, <1>9, <1>10 DEF ErasureNext

(* ConfirmedIsTrue, for any prefixes, grants, late writers and failures: what a   *)
(* confirmed erasure says is gone is gone, but for what came late, and a grant    *)
(* that could not be ended is disclosed (erasure.py).                             *)
THEOREM ConfirmationsAreTrue == ErasureSpec => []ConfirmedIsTrue
<1>1. ErasureInv => ConfirmedIsTrue
  <2> SUFFICES ASSUME ErasureInv, Confirmed
               PROVE  /\ account = "gone" /\ tokens = {}
                      /\ objects \cap Purged \subseteq late /\ loose \subseteq late
                      /\ (held \cap unheard) \ late \subseteq told
    BY DEF ConfirmedIsTrue
  <2>1. request # Nothing /\ request.state = "confirmed" /\ "confirmed" \in request.done
        /\ InOrder(request.done)
    BY DEF Confirmed, ErasureInv, AccountClosed
  <2>2. "rows_deleted" \in request.done /\ "objects_deleted" \in request.done
    BY <2>1 DEF InOrder
  <2> QED
    BY <2>1, <2>2
       DEF ErasureInv, AccountClosed, RecordIsTrue, ObjectsGone, RowsGone, Unended
<1> QED
  BY <1>1, ErasureInitInv, ErasureInvKept, PTL DEF ErasureSpec

--------------------------------------------------------------------------------
(* The revocation of consent. *)

\* A set of numbers has no smallest difference to a bound without having one: a
\* set of photos has a newest.
LEMMA NewestExists ==
  ASSUME NEW S \in SUBSET Photos, S # {}
  PROVE  Max(S) \in S
<1> DEFINE T == {NPhotos - p : p \in S}
<1>1. T \subseteq Nat /\ T # {}
  <2>1. \A p \in S : p \in Nat /\ p <= NPhotos
    BY PhotosAssumption DEF Photos
  <2>2. \A p \in S : NPhotos - p \in Nat
    BY <2>1, PhotosAssumption
  <2> QED
    BY <2>2
<1>2. PICK m \in T : \A k \in T : ~(<<k, m>> \in OpToRel(<, Nat))
  <2> HIDE DEF T
  <2> QED
    BY <1>1, NatLessThanWellFounded, WFMin
<1>3. \A k \in T : ~(k < m)
  BY <1>1, <1>2 DEF OpToRel
<1>4. PICK p \in S : m = NPhotos - p
  BY <1>2
<1>5. \A q \in S : p >= q
  <2> TAKE q \in S
  <2>1. NPhotos - q \in T
    OBVIOUS
  <2>2. ~(NPhotos - q < NPhotos - p)
    BY <1>3, <1>4, <2>1
  <2> QED
    BY <2>2, PhotosAssumption DEF Photos
<1> QED
  BY <1>5 DEF Max

\* A photo is flagged only once it is revoked, and deleted before that, unless it
\* came while the revocation was under way; and a job knows no revocation of the
\* photo it works on.
MarksAreTrue ==
  /\ flagged \subseteq Revoked
  /\ \A p \in flagged : p \in stored => p \in raced
  /\ revoking # None => \A p \in Given : p \in stored => p \in raced

JobsBeganInTime ==
  \A j \in Jobs : jobs[j].pc \in {"fetch", "wait", "send", "put", "record"} =>
                    jobs[j].photo \notin jobs[j].knew

JobStates == {"none", "queued", "fetch", "wait", "send", "put", "record", "done"}

TryonTyped ==
  /\ consent \in [Photos -> {"none", "given", "revoked"}]
  /\ jobs \in [Jobs -> [pc : JobStates, outfit : Outfits \cup {None}, photo : Photos \cup {None},
                        passes : Nat, tries : Nat, knew : SUBSET Photos]]
  /\ taps \in [Taps -> Outfits \cup {None}]

TryonInv == TryonTyped /\ MarksAreTrue /\ JobsBeganInTime /\ leaked = {}

LEMMA TryonInitInv == Init => TryonInv
BY DEF Init, TryonInv, TryonTyped, MarksAreTrue, JobsBeganInTime, NoJob, JobStates, Given, Revoked

LEMMA RecordBodyPhotoKeeps ==
  ASSUME TryonInv, NEW p \in Photos, RecordBodyPhoto(p) PROVE TryonInv'
<1>1. consent[p] = "none" /\ consent' = [consent EXCEPT ![p] = "given"]
      /\ stored' \in {stored, stored \cup {p}}
      /\ raced' = (IF revoking = None THEN raced ELSE raced \cup {p})
      /\ UNCHANGED <<flagged, revoking, jobs, taps, leaked>>
  BY DEF RecordBodyPhoto
<1>2. TryonTyped' /\ JobsBeganInTime'
  BY <1>1 DEF TryonInv, TryonTyped, JobsBeganInTime
<1>3. Given' = Given \cup {p} /\ Revoked' = Revoked /\ p \notin Revoked
  BY <1>1 DEF TryonInv, TryonTyped, Given, Revoked
<1>4. MarksAreTrue'
  BY <1>1, <1>3 DEF TryonInv, MarksAreTrue
<1> QED
  BY <1>1, <1>2, <1>4 DEF TryonInv

LEMMA RevocationKeeps ==
  ASSUME TryonInv, RevokeDelete \/ RevokeFails \/ RevokeMark PROVE TryonInv'
<1>1. UNCHANGED <<jobs, taps, leaked, raced>> /\ stored' \subseteq stored
  BY DEF RevokeDelete, RevokeFails, RevokeMark
<1>2. JobsBeganInTime' /\ leaked' = {}
  BY <1>1 DEF TryonInv, JobsBeganInTime
<1>3. TryonTyped'
  BY <1>1 DEF TryonInv, TryonTyped, RevokeDelete, RevokeFails, RevokeMark
<1>4. CASE RevokeDelete
  BY <1>1, <1>2, <1>3, <1>4 DEF RevokeDelete, TryonInv, MarksAreTrue, Given, Revoked
<1>5. CASE RevokeFails
  BY <1>1, <1>2, <1>3, <1>5 DEF RevokeFails, TryonInv, MarksAreTrue, Given, Revoked
<1>6. CASE RevokeMark
  <2>1. Given' = {} /\ Revoked' = Revoked \cup Given
    BY <1>6 DEF RevokeMark, TryonInv, TryonTyped, Given, Revoked
  <2> QED
    BY <1>1, <1>2, <1>3, <1>6, <2>1 DEF RevokeMark, TryonInv, MarksAreTrue
<1> QED
  BY <1>2, <1>3, <1>4, <1>5, <1>6 DEF RevokeDelete, RevokeFails, TryonInv

LEMMA TapsKeep ==
  ASSUME TryonInv, NEW t \in Taps, RecordRequest(t) \/ \E o \in Outfits : Ask(t, o)
  PROVE  TryonInv'
<1>1. UNCHANGED <<photoVars, leaked>>
  BY DEF RecordRequest, Ask
<1>2. MarksAreTrue'
  BY <1>1 DEF photoVars, TryonInv, MarksAreTrue, Given, Revoked
<1>3. CASE RecordRequest(t)
  <2>1. PICK j \in Jobs :
          jobs[j].pc = "none" /\ jobs' = [jobs EXCEPT ![j].pc = "queued", ![j].outfit = taps[t]]
    BY <1>3 DEF RecordRequest
  <2>2. taps' = [taps EXCEPT ![t] = None]
    BY <1>3 DEF RecordRequest
  <2>3. TryonTyped'
    <3>1. jobs' \in [Jobs -> [pc : JobStates, outfit : Outfits \cup {None},
                             photo : Photos \cup {None}, passes : Nat, tries : Nat,
                             knew : SUBSET Photos]]
      <4>1. taps[t] \in Outfits \cup {None} /\ "queued" \in JobStates
        BY DEF TryonInv, TryonTyped, JobStates
      <4> DEFINE job == [jobs[j] EXCEPT !.pc = "queued", !.outfit = taps[t]]
      <4>2. job \in [pc : JobStates, outfit : Outfits \cup {None}, photo : Photos \cup {None},
                     passes : Nat, tries : Nat, knew : SUBSET Photos]
        BY <4>1 DEF TryonInv, TryonTyped
      <4>3. jobs' = [jobs EXCEPT ![j] = job]
        BY <2>1
      <4> HIDE DEF job
      <4> QED
        BY <4>2, <4>3 DEF TryonInv, TryonTyped
    <3>2. taps' \in [Taps -> Outfits \cup {None}]
      BY <2>2 DEF TryonInv, TryonTyped
    <3> QED
      BY <1>1, <3>1, <3>2 DEF photoVars, TryonInv, TryonTyped
  <2>4. JobsBeganInTime'
    BY <2>1 DEF TryonInv, TryonTyped, JobsBeganInTime
  <2> QED
    BY <1>1, <1>2, <2>3, <2>4 DEF TryonInv
<1>4. CASE \E o \in Outfits : Ask(t, o)
  BY <1>1, <1>2, <1>4 DEF Ask, photoVars, TryonInv, TryonTyped, JobsBeganInTime
<1> QED
  BY <1>3, <1>4

--------------------------------------------------------------------------------
\* A job that goes on with the photo and the knowledge it began with, or that
\* begins with a photo that is not revoked, or that does not work.
LEMMA JobMovesOn ==
  ASSUME TryonInv, NEW j \in Jobs, NEW job, Set(j, job),
         job \in [pc : JobStates, outfit : Outfits \cup {None}, photo : Photos \cup {None},
                  passes : Nat, tries : Nat, knew : SUBSET Photos],
         job.pc \in {"fetch", "wait", "send", "put", "record"} => job.photo \notin job.knew,
         UNCHANGED <<photoVars, taps>>, leaked' = {}
  PROVE  TryonInv'
<1>1. jobs' = [jobs EXCEPT ![j] = job]
  BY DEF Set
<1>2. TryonTyped' /\ JobsBeganInTime'
  BY <1>1 DEF TryonInv, TryonTyped, JobsBeganInTime, photoVars
<1>3. MarksAreTrue'
  BY DEF TryonInv, MarksAreTrue, Given, Revoked, photoVars
<1> QED
  BY <1>2, <1>3 DEF TryonInv

JobRecords == [pc : JobStates, outfit : Outfits \cup {None}, photo : Photos \cup {None},
               passes : Nat, tries : Nat, knew : SUBSET Photos]

LEMMA JobStepKeeps == ASSUME TryonInv, NEW j \in Jobs, JobStep(j) PROVE TryonInv'
<1>1. jobs[j] \in JobRecords /\ leaked = {} /\ UNCHANGED <<photoVars, taps>>
  BY DEF TryonInv, TryonTyped, JobRecords, JobStep, Begin, Fetch, Send, Receive, PutImage,
     RecordRender, Crash, TimeOut, ThreadEnds, photoVars
<1>2. jobs[j].pc \in {"fetch", "wait", "send", "put", "record"} => jobs[j].photo \notin jobs[j].knew
  BY DEF TryonInv, JobsBeganInTime
<1>3. ASSUME NEW job \in JobRecords, Set(j, job), leaked' = {},
             job.pc \in {"fetch", "wait", "send", "put", "record"} => job.photo \notin job.knew
      PROVE  TryonInv'
  BY <1>1, <1>3, JobMovesOn DEF JobRecords
<1>4. ASSUME NEW job \in JobRecords, Set(j, job), leaked' = {}, job.pc = "done"
      PROVE  TryonInv'
  BY <1>3, <1>4
<1>5. [jobs[j] EXCEPT !.pc = "done"] \in JobRecords /\ [jobs[j] EXCEPT !.pc = "done"].pc = "done"
  BY <1>1 DEF JobRecords, JobStates
<1>6. ASSUME End(j) \/ Fail(j), leaked' = {} PROVE TryonInv'
  BY <1>4, <1>5, <1>6 DEF End, Fail
<1>7. CASE Begin(j)
  <2>1. leaked' = {}
    BY <1>1, <1>7 DEF Begin
  <2>2. CASE /\ Given # {}
             /\ Set(j, [jobs[j] EXCEPT !.pc = "fetch", !.photo = Max(Given), !.knew = Revoked])
    <3> DEFINE job == [jobs[j] EXCEPT !.pc = "fetch", !.photo = Max(Given), !.knew = Revoked]
    <3>1. Max(Given) \in Given
      BY <2>2, NewestExists DEF Given
    <3>2. Given \subseteq Photos /\ Revoked \subseteq Photos /\ Given \cap Revoked = {}
      BY DEF Given, Revoked
    <3>3. job \in JobRecords /\ job.photo = Max(Given) /\ job.knew = Revoked
      BY <1>1, <3>1, <3>2 DEF JobRecords, JobStates
    <3> QED
      BY <1>3, <2>1, <2>2, <3>1, <3>2, <3>3
  <2>3. CASE End(j) \/ Fail(j)
    BY <1>6, <2>1, <2>3
  <2> QED
    BY <1>7, <2>2, <2>3 DEF Begin
<1>8. ASSUME NEW job \in JobRecords, Set(j, job), leaked' = {}, job.photo = jobs[j].photo,
             job.knew = jobs[j].knew,
             jobs[j].pc \in {"fetch", "wait", "send", "put", "record"}
      PROVE  TryonInv'
  BY <1>2, <1>3, <1>8
<1>9. CASE Fetch(j)
  <2>1. leaked' = {} /\ jobs[j].pc = "fetch"
    BY <1>1, <1>9 DEF Fetch
  <2>2. CASE Set(j, [jobs[j] EXCEPT !.pc = "wait"])
    BY <1>1, <1>8, <2>1, <2>2 DEF JobRecords, JobStates
  <2> QED
    BY <1>6, <1>9, <2>1, <2>2 DEF Fetch
<1>10. CASE Send(j)
  <2>1. leaked' = {} /\ jobs[j].pc = "wait" /\ Set(j, [jobs[j] EXCEPT !.pc = "send"])
    BY <1>1, <1>2, <1>10 DEF Send
  <2> QED
    BY <1>1, <1>8, <2>1 DEF JobRecords, JobStates
<1>11. CASE Receive(j)
  <2>1. leaked' = {} /\ jobs[j].pc = "send"
    BY <1>1, <1>11 DEF Receive
  <2>2. PICK state \in {"wait", "put"}, passes \in Nat, tries \in Nat :
          \/ Set(j, [jobs[j] EXCEPT !.passes = passes, !.tries = tries, !.pc = state])
          \/ Fail(j)
    <3> DEFINE next == IF jobs[j].passes + 1 < Passes(jobs[j].outfit) THEN "wait" ELSE "put"
    <3>1. CASE Set(j, [jobs[j] EXCEPT !.passes = @ + 1, !.tries = 0, !.pc = next])
      <4>1. next \in {"wait", "put"} /\ jobs[j].passes + 1 \in Nat
        BY <1>1 DEF JobRecords
      <4> HIDE DEF next
      <4> QED
        BY <3>1, <4>1
    <3>2. CASE Set(j, [jobs[j] EXCEPT !.tries = 1, !.pc = "wait"])
      <4>1. [jobs[j] EXCEPT !.tries = 1, !.pc = "wait"]
              = [jobs[j] EXCEPT !.passes = jobs[j].passes, !.tries = 1, !.pc = "wait"]
        BY <1>1 DEF JobRecords
      <4> QED
        BY <1>1, <3>2, <4>1 DEF JobRecords
    <3>3. CASE Set(j, [jobs[j] EXCEPT !.pc = "put"])
      <4>1. [jobs[j] EXCEPT !.pc = "put"]
              = [jobs[j] EXCEPT !.passes = jobs[j].passes, !.tries = jobs[j].tries, !.pc = "put"]
        BY <1>1 DEF JobRecords
      <4> QED
        BY <1>1, <3>3, <4>1 DEF JobRecords
    <3>4. CASE Fail(j)
      BY <3>4
    <3> QED
      BY <1>11, <3>1, <3>2, <3>3, <3>4 DEF Receive, Answers
  <2>3. CASE Set(j, [jobs[j] EXCEPT !.passes = passes, !.tries = tries, !.pc = state])
    BY <1>1, <1>8, <2>1, <2>3 DEF JobRecords, JobStates
  <2> QED
    BY <1>6, <2>1, <2>2, <2>3
<1>12. CASE PutImage(j)
  <2>1. leaked' = {} /\ jobs[j].pc = "put" /\ Set(j, [jobs[j] EXCEPT !.pc = "record"])
    BY <1>1, <1>12 DEF PutImage
  <2> QED
    BY <1>1, <1>8, <2>1 DEF JobRecords, JobStates
<1>13. CASE RecordRender(j) \/ TimeOut(j)
  BY <1>1, <1>6, <1>13 DEF RecordRender, TimeOut
<1>14. CASE Crash(j)
  <2> DEFINE job == [NoJob EXCEPT !.pc = "queued", !.outfit = jobs[j].outfit]
  <2>1. job \in JobRecords /\ job.pc = "queued"
    BY <1>1 DEF JobRecords, JobStates, NoJob
  <2>2. Set(j, job) /\ leaked' = {}
    BY <1>1, <1>14 DEF Crash
  <2> QED
    BY <1>3, <2>1, <2>2
<1>15. CASE ThreadEnds(j)
  BY <1>1, <1>15 DEF ThreadEnds, TryonInv, TryonTyped, MarksAreTrue, JobsBeganInTime,
     photoVars, Given, Revoked
<1> QED
  BY <1>7, <1>9, <1>10, <1>11, <1>12, <1>13, <1>14, <1>15 DEF JobStep

LEMMA TryonInvKept == TryonInv /\ [Next]_vars => TryonInv'
<1> SUFFICES ASSUME TryonInv, [Next]_vars PROVE TryonInv'
  OBVIOUS
<1>1. CASE UNCHANGED vars
  BY <1>1 DEF vars, TryonInv, TryonTyped, MarksAreTrue, JobsBeganInTime, Given, Revoked
<1>2. CASE \E p \in Photos : RecordBodyPhoto(p)
  BY <1>2, RecordBodyPhotoKeeps
<1>3. CASE RevokeDelete \/ RevokeFails \/ RevokeMark
  BY <1>3, RevocationKeeps
<1>4. CASE \E t \in Taps : RecordRequest(t) \/ \E o \in Outfits : Ask(t, o)
  BY <1>4, TapsKeep
<1>5. CASE \E o \in Outfits : GrowOld(o)
  BY <1>5 DEF GrowOld, photoVars, TryonInv, TryonTyped, MarksAreTrue, JobsBeganInTime,
     Given, Revoked
<1>6. CASE \E j \in Jobs : JobStep(j)
  BY <1>6, JobStepKeeps
<1> QED
  BY <1>1, <1>2, <1>3, <1>4, <1>5, <1>6 DEF Next

(* RevocationHolds, for any photos, outfits, taps, jobs and faults: no render     *)
(* begun after a revocation sends the revoked photo, and a row that says its      *)
(* photo is deleted is right, but for one consented to meanwhile (privacy.py,     *)
(* tryon.py).                                                                     *)
THEOREM RevocationsHold == Spec => []RevocationHolds
<1>1. TryonInv => RevocationHolds
  BY DEF TryonInv, MarksAreTrue, RevocationHolds
<1> QED
  BY <1>1, TryonInitInv, TryonInvKept, PTL DEF Spec

--------------------------------------------------------------------------------
(* The pictures, and what the log says of them. *)

Entries == [what : {"requested", "rendered", "failed"}, young : BOOLEAN, passes : Nat]

\* A job has an outfit from its request on, and a chain of passes has an end.
JobSound(job) ==
  /\ IF job.pc = "none" THEN job.outfit = None ELSE job.outfit \in Outfits
  /\ job.passes \in 0..MaxPasses /\ job.tries \in 0..1
  /\ job.pc \in {"none", "queued", "fetch"} => job.passes = 0
  /\ job.pc \in {"wait", "send"} => job.passes < Passes(job.outfit)
  /\ job.pc \in {"put", "record"} => job.passes # 0

RenderTyped ==
  /\ log \in [Outfits -> Seq(Entries)]
  /\ image \in [Outfits -> {None} \cup 1..MaxPasses]
  /\ sending \subseteq Jobs
  /\ \A j \in Jobs : JobSound(jobs[j])

LEMMA PassesEnd == ASSUME NEW o \in Outfits PROVE Passes(o) \in 1..MaxPasses
<1>1. Fits[o] \in Nat \ {0} /\ MaxPasses \in Nat \ {0}
  BY OutfitsAssumption, PassesAssumption
<1>2. \A a, b \in Nat : Min({a, b}) \in {a, b} /\ Min({a, b}) <= a
  <2> TAKE a, b \in Nat
  <2>1. CASE a <= b
    BY <2>1 DEF Min
  <2>2. CASE b <= a
    BY <2>2 DEF Min
  <2> QED
    BY <2>1, <2>2
<1> QED
  BY <1>1, <1>2 DEF Passes

--------------------------------------------------------------------------------
\* What a step of a job makes of it, of the log and of the pictures.
Unrendered == {"queued", "fetch", "wait", "send", "put"}

Logs(j, entry) == log' = [log EXCEPT ![jobs[j].outfit] = Append(@, entry)]

Goes(j, job) ==
  \/ /\ UNCHANGED <<log, image>>
     /\ \/ cut' = cut \cup {j}
        \/ cut' = cut /\ jobs[j].pc \in Unrendered /\ job.pc \in Unrendered \cup {"done"}
        \/ cut' = cut /\ job = jobs[j]
  \/ /\ jobs[j].pc \in Unrendered /\ job.pc = "done"
     /\ Logs(j, Entry("failed")) /\ UNCHANGED <<image, cut>>
  \/ /\ jobs[j].pc = "put" /\ job.pc = "record" /\ job.passes = jobs[j].passes
     /\ image' = [image EXCEPT ![jobs[j].outfit] = jobs[j].passes] /\ UNCHANGED <<log, cut>>
  \/ /\ jobs[j].pc = "record" /\ job.pc = "done"
     /\ Logs(j, [Entry("rendered") EXCEPT !.passes = jobs[j].passes])
     /\ UNCHANGED <<image, cut>>

LEMMA JobStepGoes ==
  ASSUME TryonInv, RenderTyped, NEW j \in Jobs, JobStep(j)
  PROVE  \E job \in JobRecords :
           /\ jobs' = [jobs EXCEPT ![j] = job] /\ taps' = taps /\ sending' \subseteq Jobs
           /\ job.outfit = jobs[j].outfit /\ jobs[j].pc # "none"
           /\ JobSound(job) /\ Goes(j, job)
<1>1. jobs[j] \in JobRecords /\ JobSound(jobs[j]) /\ jobs \in [Jobs -> JobRecords]
  BY DEF TryonInv, TryonTyped, JobRecords, RenderTyped
<1>2. taps' = taps /\ sending' \subseteq Jobs
  BY DEF JobStep, Begin, Fetch, Send, Receive, PutImage, RecordRender, Crash, TimeOut, ThreadEnds,
     RenderTyped
<1>3. jobs[j].pc # "none"
  BY DEF JobStep, Begin, Fetch, Send, Receive, PutImage, RecordRender, Crash, Working, TimeOut,
     ThreadEnds
<1>4. jobs[j].outfit \in Outfits /\ Passes(jobs[j].outfit) \in 1..MaxPasses
  BY <1>1, <1>3, PassesEnd DEF JobSound
<1>5. MaxPasses \in Nat \ {0} /\ jobs[j].passes \in Nat
  BY <1>1, PassesAssumption DEF JobRecords
<1>6. SUFFICES \E job \in JobRecords :
                 Set(j, job) /\ job.outfit = jobs[j].outfit /\ JobSound(job) /\ Goes(j, job)
  BY <1>2, <1>3 DEF Set
<1>7. ASSUME End(j), jobs[j].pc \in Unrendered, UNCHANGED <<log, image, cut>>
      PROVE  \E job \in JobRecords :
               Set(j, job) /\ job.outfit = jobs[j].outfit /\ JobSound(job) /\ Goes(j, job)
  <2> DEFINE job == [jobs[j] EXCEPT !.pc = "done"]
  <2>1. /\ job \in JobRecords /\ job.outfit = jobs[j].outfit /\ job.pc = "done"
        /\ job.passes = jobs[j].passes /\ job.tries = jobs[j].tries
    BY <1>1 DEF JobRecords, JobStates
  <2>2. JobSound(job)
    BY <1>1, <1>4, <2>1 DEF JobSound
  <2> QED
    BY <1>7, <2>1, <2>2 DEF End, Goes
<1>8. ASSUME Fail(j), jobs[j].pc \in Unrendered, UNCHANGED <<image, cut>>
      PROVE  \E job \in JobRecords :
               Set(j, job) /\ job.outfit = jobs[j].outfit /\ JobSound(job) /\ Goes(j, job)
  <2> DEFINE job == [jobs[j] EXCEPT !.pc = "done"]
  <2>1. /\ job \in JobRecords /\ job.outfit = jobs[j].outfit /\ job.pc = "done"
        /\ job.passes = jobs[j].passes /\ job.tries = jobs[j].tries
    BY <1>1 DEF JobRecords, JobStates
  <2>2. JobSound(job)
    BY <1>1, <1>4, <2>1 DEF JobSound
  <2> QED
    BY <1>8, <2>1, <2>2 DEF Fail, End, Note, Logs, Goes
<1>9. ASSUME NEW job \in JobRecords, Set(j, job), job.outfit = jobs[j].outfit, JobSound(job),
             jobs[j].pc \in Unrendered, job.pc \in Unrendered, UNCHANGED <<log, image, cut>>
      PROVE  \E next \in JobRecords :
               Set(j, next) /\ next.outfit = jobs[j].outfit /\ JobSound(next) /\ Goes(j, next)
  BY <1>9 DEF Goes
<1>10. CASE Begin(j)
  <2>1. jobs[j].pc = "queued" /\ UNCHANGED <<image, cut>>
    BY <1>10 DEF Begin
  <2>2. CASE /\ Given # {} /\ log' = log
             /\ Set(j, [jobs[j] EXCEPT !.pc = "fetch", !.photo = Max(Given), !.knew = Revoked])
    <3> DEFINE job == [jobs[j] EXCEPT !.pc = "fetch", !.photo = Max(Given), !.knew = Revoked]
    <3>1. Max(Given) \in Photos /\ Revoked \subseteq Photos
      BY <2>2, NewestExists DEF Given, Revoked
    <3>2. /\ job \in JobRecords /\ job.outfit = jobs[j].outfit /\ job.pc = "fetch"
          /\ job.passes = jobs[j].passes /\ job.tries = jobs[j].tries
      BY <1>1, <3>1 DEF JobRecords, JobStates
    <3>3. JobSound(job) /\ job.pc \in Unrendered /\ Set(j, job)
      BY <1>1, <1>4, <2>1, <2>2, <3>2 DEF JobSound, Unrendered
    <3> HIDE DEF job
    <3> QED
      BY <1>9, <2>1, <2>2, <3>2, <3>3 DEF Unrendered
  <2>3. CASE End(j) /\ UNCHANGED log
    BY <1>7, <2>1, <2>3 DEF Unrendered
  <2>4. CASE Fail(j)
    BY <1>8, <2>1, <2>4 DEF Unrendered
  <2> QED
    BY <1>10, <2>2, <2>3, <2>4 DEF Begin
<1>11. ASSUME NEW pc \in {"wait", "send", "put"}, Set(j, [jobs[j] EXCEPT !.pc = pc]),
              jobs[j].pc \in Unrendered, UNCHANGED <<log, image, cut>>,
              pc \in {"wait", "send"} => jobs[j].passes < Passes(jobs[j].outfit),
              pc = "put" => jobs[j].passes # 0
      PROVE  \E job \in JobRecords :
               Set(j, job) /\ job.outfit = jobs[j].outfit /\ JobSound(job) /\ Goes(j, job)
  <2> DEFINE job == [jobs[j] EXCEPT !.pc = pc]
  <2>1. /\ job \in JobRecords /\ job.outfit = jobs[j].outfit /\ job.pc = pc
        /\ job.passes = jobs[j].passes /\ job.tries = jobs[j].tries
    BY <1>1 DEF JobRecords, JobStates
  <2>2. JobSound(job) /\ job.pc \in Unrendered /\ Set(j, job)
    BY <1>1, <1>4, <1>11, <2>1 DEF JobSound, Unrendered
  <2> HIDE DEF job
  <2> QED
    BY <1>9, <1>11, <2>1, <2>2
<1>12. CASE Fetch(j)
  <2>1. jobs[j].pc = "fetch" /\ UNCHANGED <<image, cut>>
    BY <1>12 DEF Fetch
  <2>2. CASE Set(j, [jobs[j] EXCEPT !.pc = "wait"]) /\ UNCHANGED log
    <3>1. jobs[j].passes < Passes(jobs[j].outfit)
      BY <1>1, <1>4, <1>5, <2>1 DEF JobSound
    <3> QED
      BY <1>11, <2>1, <2>2, <3>1 DEF Unrendered
  <2>3. CASE Fail(j)
    BY <1>8, <2>1, <2>3 DEF Unrendered
  <2> QED
    BY <1>12, <2>2, <2>3 DEF Fetch
<1>13. CASE Send(j)
  <2>1. /\ jobs[j].pc = "wait" /\ UNCHANGED <<log, image, cut>>
        /\ Set(j, [jobs[j] EXCEPT !.pc = "send"])
    BY <1>13 DEF Send
  <2>2. jobs[j].passes < Passes(jobs[j].outfit)
    BY <1>1, <2>1 DEF JobSound
  <2> QED
    BY <1>11, <2>1, <2>2 DEF Unrendered
<1>14. CASE Receive(j)
  <2>1. /\ jobs[j].pc = "send" /\ UNCHANGED <<image, cut>>
        /\ jobs[j].passes < Passes(jobs[j].outfit)
    BY <1>1, <1>14 DEF Receive, JobSound
  <2> DEFINE more == jobs[j].passes + 1
             next == IF more < Passes(jobs[j].outfit) THEN "wait" ELSE "put"
  <2>2. CASE Set(j, [jobs[j] EXCEPT !.passes = @ + 1, !.tries = 0, !.pc = next]) /\ log' = log
    <3> DEFINE job == [jobs[j] EXCEPT !.passes = @ + 1, !.tries = 0, !.pc = next]
    <3>1. more \in 1..MaxPasses
      BY <1>4, <1>5, <2>1
    <3>2. next \in {"wait", "put"} /\ (next = "wait" => more < Passes(jobs[j].outfit))
      OBVIOUS
    <3>5. jobs[j].passes + 1 \in Nat
      BY <1>5
    <3> HIDE DEF next
    <3>3. /\ job \in JobRecords /\ job.outfit = jobs[j].outfit /\ job.pc = next
          /\ job.passes = more /\ job.tries = 0
      BY <1>1, <3>2, <3>5 DEF JobRecords, JobStates
    <3>4. JobSound(job) /\ job.pc \in Unrendered /\ Set(j, job)
      BY <1>4, <1>5, <2>2, <3>1, <3>2, <3>3 DEF JobSound, Unrendered
    <3> HIDE DEF job
    <3> QED
      BY <1>9, <2>1, <2>2, <3>3, <3>4 DEF Unrendered
  <2>3. CASE Set(j, [jobs[j] EXCEPT !.tries = 1, !.pc = "wait"]) /\ log' = log
    <3> DEFINE job == [jobs[j] EXCEPT !.tries = 1, !.pc = "wait"]
    <3>1. /\ job \in JobRecords /\ job.outfit = jobs[j].outfit /\ job.pc = "wait"
          /\ job.passes = jobs[j].passes /\ job.tries = 1
      BY <1>1 DEF JobRecords, JobStates
    <3>2. JobSound(job) /\ job.pc \in Unrendered /\ Set(j, job)
      BY <1>1, <1>4, <2>1, <2>3, <3>1 DEF JobSound, Unrendered
    <3> HIDE DEF job
    <3> QED
      BY <1>9, <2>1, <2>3, <3>1, <3>2 DEF Unrendered
  <2>4. CASE Set(j, [jobs[j] EXCEPT !.pc = "put"]) /\ jobs[j].passes > 0 /\ log' = log
    BY <1>5, <1>11, <2>1, <2>4 DEF Unrendered
  <2>5. CASE Fail(j)
    BY <1>8, <2>1, <2>5 DEF Unrendered
  <2> QED
    BY <1>14, <2>2, <2>3, <2>4, <2>5 DEF Receive, Answers
<1>15. CASE PutImage(j)
  <2> DEFINE job == [jobs[j] EXCEPT !.pc = "record"]
  <2>1. /\ job \in JobRecords /\ job.outfit = jobs[j].outfit /\ job.pc = "record"
        /\ job.passes = jobs[j].passes /\ job.tries = jobs[j].tries
    BY <1>1 DEF JobRecords, JobStates
  <2>2. JobSound(job) /\ Set(j, job)
    BY <1>1, <1>4, <1>15, <2>1 DEF JobSound, PutImage
  <2> QED
    BY <1>15, <2>1, <2>2 DEF PutImage, Goes
<1>16. CASE RecordRender(j)
  <2> DEFINE job == [jobs[j] EXCEPT !.pc = "done"]
  <2>1. /\ job \in JobRecords /\ job.outfit = jobs[j].outfit /\ job.pc = "done"
        /\ job.passes = jobs[j].passes /\ job.tries = jobs[j].tries
    BY <1>1 DEF JobRecords, JobStates
  <2>2. JobSound(job) /\ Set(j, job)
    BY <1>1, <1>4, <1>16, <2>1 DEF JobSound, RecordRender, End
  <2> QED
    BY <1>16, <2>1, <2>2 DEF RecordRender, Note, Logs, Goes
<1>17. CASE Crash(j)
  <2> DEFINE job == [NoJob EXCEPT !.pc = "queued", !.outfit = jobs[j].outfit]
  <2>1. /\ job \in JobRecords /\ job.outfit = jobs[j].outfit /\ job.pc = "queued"
        /\ job.passes = 0 /\ job.tries = 0
    BY <1>1 DEF JobRecords, JobStates, NoJob
  <2>2. JobSound(job) /\ Set(j, job)
    BY <1>4, <1>5, <1>17, <2>1 DEF JobSound, Crash
  <2> QED
    BY <1>17, <2>1, <2>2 DEF Crash, Goes
<1>18. CASE TimeOut(j)
  <2> DEFINE job == [jobs[j] EXCEPT !.pc = "done"]
  <2>1. /\ job \in JobRecords /\ job.outfit = jobs[j].outfit /\ job.pc = "done"
        /\ job.passes = jobs[j].passes /\ job.tries = jobs[j].tries
    BY <1>1 DEF JobRecords, JobStates
  <2>2. JobSound(job) /\ Set(j, job)
    BY <1>1, <1>4, <1>18, <2>1 DEF JobSound, TimeOut, End
  <2> QED
    BY <1>18, <2>1, <2>2 DEF TimeOut, Goes
<1>19. CASE ThreadEnds(j)
  BY <1>1, <1>19 DEF ThreadEnds, Set, Goes
<1> QED
  BY <1>10, <1>12, <1>13, <1>14, <1>15, <1>16, <1>17, <1>18, <1>19 DEF JobStep

\* The outfit of one job only, which nothing cut off.
Sole(j, o) ==
  /\ jobs[j].outfit = o /\ \A i \in Jobs : jobs[i].outfit = o => i = j
  /\ j \notin cut

\* The newest record of a render says so many passes.
Says(o, n) ==
  \E i \in Renders(o) : log[o][i].passes = n /\ \A k \in Renders(o) : k <= i

\* A picture comes of a job, and the job that is about to record it knows it.
Described ==
  \A o \in Outfits :
    /\ (\A j \in Jobs : jobs[j].outfit # o) => image[o] = None
    /\ \A j \in Jobs : Sole(j, o) =>
         /\ jobs[j].pc \in Unrendered => image[o] = None
         /\ jobs[j].pc = "record" => image[o] = jobs[j].passes
         /\ jobs[j].pc = "done" => image[o] = None \/ Says(o, image[o])

\* Taps that passed the check have not recorded their requests yet.
Deciding == {t \in Taps : taps[t] # None}
Requested == UNION {{o} \X RequestsOf(o) : o \in Outfits}
QuotaKept ==
  /\ IsFiniteSet(Requested)
  /\ Cardinality(Requested) + Cardinality(Deciding) <= Quota + Cardinality(Taps) - 1

RenderInv == TryonInv /\ RenderTyped /\ Described /\ QuotaKept

LEMMA DecidingIsFinite ==
  /\ IsFiniteSet(Deciding) /\ Cardinality(Deciding) \in Nat
  /\ Cardinality(Deciding) <= Cardinality(Taps) /\ Cardinality(Taps) \in Nat \ {0}
<1>1. IsFiniteSet(Taps) /\ Taps # {} /\ Deciding \subseteq Taps
  BY QuotaAssumption DEF Deciding
<1>2. IsFiniteSet(Deciding) /\ Cardinality(Deciding) <= Cardinality(Taps)
  BY <1>1, FS_Subset
<1>3. Cardinality(Taps) \in Nat /\ Cardinality(Deciding) \in Nat
  BY <1>1, <1>2, FS_CardinalityType
<1>4. Cardinality(Taps) # 0
  BY <1>1, FS_EmptySet
<1> QED
  BY <1>2, <1>3, <1>4

LEMMA RequestedIs ==
  \A o, i : <<o, i>> \in Requested <=> o \in Outfits /\ i \in RequestsOf(o)
BY DEF Requested

LEMMA RenderInitInv == Init => RenderInv
<1> SUFFICES ASSUME Init PROVE RenderInv
  OBVIOUS
<1>1. TryonInv
  BY TryonInitInv
<1>2. /\ \A o \in Outfits : log[o] = <<>> /\ image[o] = None
      /\ \A j \in Jobs : jobs[j] = NoJob
      /\ \A t \in Taps : taps[t] = None
  BY DEF Init
<1>3. NoJob.pc = "none" /\ NoJob.outfit = None /\ NoJob.passes = 0 /\ NoJob.tries = 0
  BY DEF NoJob
<1>4. JobSound(NoJob)
  BY <1>3, PassesAssumption DEF JobSound
<1>5. RenderTyped
  BY <1>2, <1>4 DEF Init, RenderTyped
<1>6. Described
  BY <1>2, <1>3, OutfitsAssumption DEF Described, Sole
<1>7. QuotaKept
  <2>1. \A o \in Outfits : RequestsOf(o) = {}
    BY <1>2 DEF RequestsOf
  <2>2. Requested = {}
    BY <2>1 DEF Requested
  <2>3. Deciding = {}
    BY <1>2 DEF Deciding
  <2>4. IsFiniteSet(Requested) /\ Cardinality(Requested) = 0 /\ Cardinality(Deciding) = 0
    BY <2>2, <2>3, FS_EmptySet
  <2> QED
    BY <2>4, DecidingIsFinite, QuotaAssumption DEF QuotaKept
<1> QED
  BY <1>1, <1>5, <1>6, <1>7 DEF RenderInv

--------------------------------------------------------------------------------
\* A record is added at the end of one outfit's log.
LEMMA Logged ==
  ASSUME RenderTyped, NEW o \in Outfits, NEW entry \in Entries,
         log' = [log EXCEPT ![o] = Append(@, entry)]
  PROVE  /\ log' \in [Outfits -> Seq(Entries)]
         /\ \A q \in Outfits : q # o => log'[q] = log[q]
         /\ Len(log'[o]) = Len(log[o]) + 1 /\ log'[o][Len(log[o]) + 1] = entry
         /\ \A i \in 1..Len(log[o]) : log'[o][i] = log[o][i]
         /\ Len(log[o]) \in Nat
BY DEF RenderTyped

LEMMA RequestsLogged ==
  ASSUME RenderTyped, NEW o \in Outfits, NEW entry \in Entries,
         log' = [log EXCEPT ![o] = Append(@, entry)]
  PROVE  Requested' = IF entry.what = "requested"
                      THEN Requested \cup {<<o, Len(log[o]) + 1>>} ELSE Requested
<1> DEFINE n == Len(log[o]) + 1
<1>1. \A q \in Outfits : q # o => RequestsOf(q)' = RequestsOf(q)
  BY Logged DEF RequestsOf
<1>2. n \in 1..Len(log'[o]) /\ 1..Len(log'[o]) = 1..Len(log[o]) \cup {n} /\ log'[o][n] = entry
  <2>1. Len(log'[o]) = Len(log[o]) + 1 /\ Len(log[o]) \in Nat /\ log'[o][n] = entry
    BY Logged
  <2> QED
    BY <2>1
<1>3. \A i \in 1..Len(log[o]) : log'[o][i] = log[o][i]
  BY Logged
<1> HIDE DEF n
<1>4. RequestsOf(o)' = IF entry.what = "requested" THEN RequestsOf(o) \cup {n} ELSE RequestsOf(o)
  <2>1. CASE entry.what = "requested"
    BY <1>2, <1>3, <2>1 DEF RequestsOf
  <2>2. CASE entry.what # "requested"
    BY <1>2, <1>3, <2>2 DEF RequestsOf
  <2> QED
    BY <2>1, <2>2
<1>5. CASE entry.what = "requested"
  <2>1. Requested' \subseteq Requested \cup {<<o, n>>}
    BY <1>1, <1>4, <1>5 DEF Requested
  <2>2. Requested \cup {<<o, n>>} \subseteq Requested'
    BY <1>1, <1>4, <1>5 DEF Requested
  <2> QED
    BY <1>5, <2>1, <2>2 DEF n
<1>6. CASE entry.what # "requested"
  <2>1. \A q \in Outfits : RequestsOf(q)' = RequestsOf(q)
    BY <1>1, <1>4, <1>6
  <2> QED
    BY <1>6, <2>1 DEF Requested
<1> QED
  BY <1>5, <1>6

LEMMA FailureSays ==
  ASSUME RenderTyped, NEW o \in Outfits, NEW entry \in Entries, entry.what # "rendered",
         log' = [log EXCEPT ![o] = Append(@, entry)], NEW q \in Outfits, NEW n, Says(q, n)
  PROVE  Says(q, n)'
<1>1. Renders(q)' = Renders(q) /\ \A i \in Renders(q) : log'[q][i] = log[q][i]
  <2>1. CASE q # o
    BY <2>1, Logged DEF Renders
  <2>2. CASE q = o
    <3>1. 1..Len(log'[o]) = 1..Len(log[o]) \cup {Len(log[o]) + 1}
      <4>1. Len(log'[o]) = Len(log[o]) + 1 /\ Len(log[o]) \in Nat
        BY Logged
      <4> QED
        BY <4>1
    <3> QED
      BY <2>2, <3>1, Logged DEF Renders
  <2> QED
    BY <2>1, <2>2
<1> QED
  BY <1>1 DEF Says

LEMMA RenderSays ==
  ASSUME RenderTyped, NEW o \in Outfits, NEW entry \in Entries, entry.what = "rendered",
         log' = [log EXCEPT ![o] = Append(@, entry)]
  PROVE  Says(o, entry.passes)'
<1> DEFINE n == Len(log[o]) + 1
<1>1. Len(log'[o]) = n /\ n \in Nat \ {0} /\ log'[o][n] = entry
  <2>1. Len(log'[o]) = n /\ Len(log[o]) \in Nat /\ log'[o][n] = entry
    BY Logged
  <2> QED
    BY <2>1
<1> HIDE DEF n
<1>2. n \in Renders(o)' /\ \A k \in Renders(o)' : k <= n
  BY <1>1 DEF Renders
<1> QED
  BY <1>1, <1>2 DEF Says

\* The log and the pictures are as they were; so is what the taps decided.
LEMMA OtherStepsKeep ==
  ASSUME RenderInv, UNCHANGED <<log, taps, jobs, sending, image, cut>>
  PROVE  RenderTyped' /\ Described' /\ QuotaKept'
BY DEF RenderInv, RenderTyped, Described, QuotaKept, Sole, Says, Renders, Requested, RequestsOf,
   Deciding

LEMMA AskKeeps ==
  ASSUME RenderInv, NEW t \in Taps, NEW o \in Outfits, Ask(t, o)
  PROVE  RenderTyped' /\ Described' /\ QuotaKept'
<1>1. Used < Quota /\ UNCHANGED <<log, jobs, sending, image, cut>>
  BY DEF Ask
<1>2. RenderTyped' /\ Described'
  BY <1>1 DEF RenderInv, RenderTyped, Described, Sole, Says, Renders
<1>3. Requested' = Requested /\ IsFiniteSet(Requested)
  BY <1>1 DEF RenderInv, QuotaKept, Requested, RequestsOf
<1>4. Cardinality(Requested) < Quota /\ Cardinality(Requested) \in Nat
  BY <1>1, <1>3, FS_CardinalityType DEF Used, Requested
<1>5. Cardinality(Deciding)' \in Nat /\ Cardinality(Deciding)' <= Cardinality(Taps)
      /\ Cardinality(Taps) \in Nat
  <2>1. (/\ IsFiniteSet(Deciding) /\ Cardinality(Deciding) \in Nat
         /\ Cardinality(Deciding) <= Cardinality(Taps) /\ Cardinality(Taps) \in Nat \ {0})'
    BY DecidingIsFinite, PTL
  <2> QED
    BY <2>1
<1> QED
  BY <1>2, <1>3, <1>4, <1>5, QuotaAssumption DEF QuotaKept

LEMMA RecordRequestKeeps ==
  ASSUME RenderInv, NEW t \in Taps, RecordRequest(t)
  PROVE  RenderTyped' /\ Described' /\ QuotaKept'
<1> DEFINE o == taps[t]
           entry == Entry("requested")
<1>1. PICK j \in Jobs :
        jobs[j].pc = "none" /\ jobs' = [jobs EXCEPT ![j].pc = "queued", ![j].outfit = o]
  BY DEF RecordRequest
<1>2. /\ o # None /\ log' = [log EXCEPT ![o] = Append(@, entry)]
      /\ taps' = [taps EXCEPT ![t] = None] /\ UNCHANGED <<sending, image, cut>>
  BY DEF RecordRequest, Note
<1>3. /\ jobs \in [Jobs -> JobRecords] /\ taps \in [Taps -> Outfits \cup {None}]
      /\ RenderTyped /\ o \in Outfits
  BY <1>2 DEF RenderInv, TryonInv, TryonTyped, JobRecords
<1>4. entry \in Entries /\ entry.what = "requested"
  BY DEF Entry, Entries
<1> HIDE DEF entry, o
<1>5. /\ \A i \in Jobs : i # j => jobs'[i] = jobs[i]
      /\ jobs'[j].pc = "queued" /\ jobs'[j].outfit = o
      /\ jobs'[j].passes = jobs[j].passes /\ jobs'[j].tries = jobs[j].tries
  <2> DEFINE job == [jobs[j] EXCEPT !.pc = "queued", !.outfit = o]
  <2>1. jobs' = [jobs EXCEPT ![j] = job]
    BY <1>1
  <2>2. job.pc = "queued" /\ job.outfit = o /\ job.passes = jobs[j].passes
        /\ job.tries = jobs[j].tries
    BY <1>3 DEF JobRecords
  <2> HIDE DEF job
  <2> QED
    BY <1>3, <2>1, <2>2
<1>6. jobs[j].outfit = None /\ jobs[j].passes = 0
  BY <1>1, <1>3 DEF RenderTyped, JobSound
<1>7. RenderTyped'
  <2>1. log' \in [Outfits -> Seq(Entries)]
    BY <1>2, <1>3, <1>4, Logged
  <2>2. JobSound(jobs'[j])
    BY <1>3, <1>5, <1>6 DEF RenderTyped, JobSound
  <2> QED
    BY <1>2, <1>3, <1>5, <2>1, <2>2 DEF RenderTyped, JobSound, Passes
<1>8. Described'
  <2> SUFFICES ASSUME NEW q \in Outfits
               PROVE  /\ (\A i \in Jobs : jobs'[i].outfit # q) => image[q] = None
                      /\ \A i \in Jobs : Sole(i, q)' =>
                           /\ jobs'[i].pc \in Unrendered => image[q] = None
                           /\ jobs'[i].pc = "record" => image[q] = jobs'[i].passes
                           /\ jobs'[i].pc = "done" => image[q] = None \/ Says(q, image[q])'
    BY <1>2 DEF Described, Says, Renders
  <2>1. CASE q = o
    <3>1. ASSUME NEW i \in Jobs, Sole(i, q)'
          PROVE  i = j /\ image[q] = None
      <4>1. i = j
        BY <1>5, <2>1, <3>1 DEF Sole
      <4>2. \A k \in Jobs : jobs[k].outfit # q
        BY <1>5, <1>6, <2>1, <3>1, <4>1, OutfitsAssumption DEF Sole
      <4> QED
        BY <4>1, <4>2 DEF RenderInv, Described
    <3> QED
      BY <1>5, <2>1, <3>1
  <2>2. CASE q # o
    <3>1. \A i \in Jobs : jobs'[i].outfit = q <=> jobs[i].outfit = q
      BY <1>5, <1>6, <2>2, OutfitsAssumption
    <3>2. \A i \in Jobs : Sole(i, q)' <=> Sole(i, q)
      BY <1>2, <3>1 DEF Sole
    <3>3. \A i \in Jobs : Sole(i, q) => i # j /\ jobs'[i] = jobs[i]
      BY <1>5, <1>6, OutfitsAssumption DEF Sole
    <3>4. /\ jobs[j].outfit # q
          /\ (\A i \in Jobs : jobs[i].outfit # q) => image[q] = None
          /\ \A i \in Jobs : Sole(i, q) =>
               /\ jobs[i].pc \in Unrendered => image[q] = None
               /\ jobs[i].pc = "record" => image[q] = jobs[i].passes
               /\ jobs[i].pc = "done" => image[q] = None \/ Says(q, image[q])
      BY <1>6, OutfitsAssumption DEF RenderInv, Described
    <3>5. Says(q, image[q]) => Says(q, image[q])'
      <4>1. log'[q] = log[q] /\ image'[q] = image[q]
        BY <1>2, <1>3, <1>4, <2>2, Logged
      <4> QED
        BY <4>1 DEF Says, Renders
    <3> QED
      BY <3>1, <3>2, <3>3, <3>4, <3>5
  <2> QED
    BY <2>1, <2>2
<1>9. QuotaKept'
  <2>1. Requested' = Requested \cup {<<o, Len(log[o]) + 1>>} /\ IsFiniteSet(Requested)
    BY <1>2, <1>3, <1>4, RequestsLogged DEF RenderInv, QuotaKept
  <2>2. <<o, Len(log[o]) + 1>> \notin Requested
    <3>1. Len(log[o]) \in Nat
      BY <1>3 DEF RenderTyped
    <3>2. Len(log[o]) + 1 \notin RequestsOf(o)
      BY <3>1 DEF RequestsOf
    <3> QED
      BY <3>2, RequestedIs
  <2>3. IsFiniteSet(Requested') /\ Cardinality(Requested') = Cardinality(Requested) + 1
    BY <2>1, <2>2, FS_AddElement
  <2>4. Deciding' = Deciding \ {t} /\ t \in Deciding
    BY <1>2, <1>3 DEF Deciding, o
  <2>5. Cardinality(Deciding') = Cardinality(Deciding) - 1
    BY <2>4, DecidingIsFinite, FS_RemoveElement
  <2>6. Cardinality(Requested) \in Nat
    BY <2>1, FS_CardinalityType
  <2>7. Cardinality(Requested) + Cardinality(Deciding) <= Quota + Cardinality(Taps) - 1
    BY DEF RenderInv, QuotaKept
  <2>8. Cardinality(Requested') + Cardinality(Deciding') <= Quota + Cardinality(Taps) - 1
    BY <2>3, <2>5, <2>6, <2>7, DecidingIsFinite, QuotaAssumption
  <2> QED
    BY <2>3, <2>8 DEF QuotaKept
<1> QED
  BY <1>7, <1>8, <1>9

LEMMA GrowOldKeeps ==
  ASSUME RenderInv, NEW o \in Outfits, GrowOld(o)
  PROVE  RenderTyped' /\ Described' /\ QuotaKept'
<1>1. /\ log' = [log EXCEPT ![o] = [i \in 1..Len(@) |-> [@[i] EXCEPT !.young = FALSE]]]
      /\ UNCHANGED <<taps, jobs, sending, image, cut>>
  BY DEF GrowOld
<1>2. log \in [Outfits -> Seq(Entries)]
  BY DEF RenderInv, RenderTyped
<1> DEFINE older == [i \in 1..Len(log[o]) |-> [log[o][i] EXCEPT !.young = FALSE]]
<1>3. ASSUME NEW i \in 1..Len(log[o])
      PROVE  /\ older[i] \in Entries
             /\ older[i].what = log[o][i].what /\ older[i].passes = log[o][i].passes
  <2>1. log[o] \in Seq(Entries)
    BY <1>2
  <2>2. log[o][i] \in Entries
    BY <2>1
  <2>3. older[i] = [log[o][i] EXCEPT !.young = FALSE]
    OBVIOUS
  <2> HIDE DEF older
  <2> QED
    BY <2>2, <2>3 DEF Entries
<1>4. older \in Seq(Entries) /\ Len(older) = Len(log[o])
  BY <1>2, <1>3
<1>5. log' = [log EXCEPT ![o] = older]
  BY <1>1
<1> HIDE DEF older
<1>6. log' \in [Outfits -> Seq(Entries)]
  BY <1>2, <1>4, <1>5
<1>7. \A q \in Outfits :
        /\ Len(log'[q]) = Len(log[q])
        /\ \A i \in 1..Len(log[q]) :
             log'[q][i].what = log[q][i].what /\ log'[q][i].passes = log[q][i].passes
  BY <1>2, <1>3, <1>4, <1>5
<1>8. \A q \in Outfits : RequestsOf(q)' = RequestsOf(q) /\ Renders(q)' = Renders(q)
  BY <1>7 DEF RequestsOf, Renders
<1>9. \A q \in Outfits : \A n : Says(q, n) => Says(q, n)'
  BY <1>7, <1>8 DEF Says, Renders
<1>10. Requested' = Requested /\ Deciding' = Deciding
  BY <1>1, <1>8 DEF Requested, Deciding
<1>11. RenderTyped'
  BY <1>1, <1>6 DEF RenderInv, RenderTyped
<1>12. Described'
  BY <1>1, <1>9 DEF RenderInv, Described, Sole
<1> QED
  BY <1>10, <1>11, <1>12 DEF RenderInv, QuotaKept

LEMMA JobStepRenders ==
  ASSUME RenderInv, NEW j \in Jobs, JobStep(j)
  PROVE  RenderTyped' /\ Described' /\ QuotaKept'
<1>1. TryonInv /\ RenderTyped /\ jobs \in [Jobs -> JobRecords]
  BY DEF RenderInv, TryonInv, TryonTyped, JobRecords
<1>2. PICK job \in JobRecords :
        /\ jobs' = [jobs EXCEPT ![j] = job] /\ taps' = taps /\ sending' \subseteq Jobs
        /\ job.outfit = jobs[j].outfit /\ jobs[j].pc # "none"
        /\ JobSound(job) /\ Goes(j, job)
  BY <1>1, JobStepGoes
<1>3. PICK o \in Outfits : o = jobs[j].outfit
  BY <1>1, <1>2 DEF RenderTyped, JobSound
<1>4. PICK failure, render :
        /\ failure = Entry("failed") /\ failure \in Entries /\ failure.what = "failed"
        /\ render = [Entry("rendered") EXCEPT !.passes = jobs[j].passes]
        /\ render \in Entries /\ render.what = "rendered" /\ render.passes = jobs[j].passes
  <2>1. jobs[j].passes \in Nat
    BY <1>1 DEF JobRecords
  <2>2. Entry("failed") \in Entries /\ Entry("failed").what = "failed"
    BY DEF Entry, Entries
  <2>3. /\ [Entry("rendered") EXCEPT !.passes = jobs[j].passes] \in Entries
        /\ [Entry("rendered") EXCEPT !.passes = jobs[j].passes].what = "rendered"
        /\ [Entry("rendered") EXCEPT !.passes = jobs[j].passes].passes = jobs[j].passes
    BY <2>1 DEF Entry, Entries
  <2> QED
    BY <2>2, <2>3
<1>5. \/ log' = log
      \/ log' = [log EXCEPT ![o] = Append(@, failure)]
      \/ log' = [log EXCEPT ![o] = Append(@, render)]
  BY <1>2, <1>3, <1>4 DEF Goes, Logs
<1>6. \A i \in Jobs : jobs'[i] = IF i = j THEN job ELSE jobs[i]
  BY <1>1, <1>2
<1>7. cut \subseteq cut'
  BY <1>2 DEF Goes
<1>8. \/ image' = image
      \/ /\ jobs[j].pc = "put" /\ image' = [image EXCEPT ![o] = jobs[j].passes]
  BY <1>2, <1>3 DEF Goes
<1>9. image \in [Outfits -> {None} \cup 1..MaxPasses]
  BY <1>1 DEF RenderTyped
<1>10. RenderTyped'
  <2>1. log' \in [Outfits -> Seq(Entries)]
    <3>1. CASE log' = log
      BY <1>1, <3>1 DEF RenderTyped
    <3> QED
      BY <1>1, <1>3, <1>4, <1>5, <3>1, Logged
  <2>2. image' \in [Outfits -> {None} \cup 1..MaxPasses]
    <3>1. CASE jobs[j].pc = "put" /\ image' = [image EXCEPT ![o] = jobs[j].passes]
      <4>1. jobs[j].passes \in 1..MaxPasses
        BY <1>1, <3>1, PassesAssumption DEF RenderTyped, JobSound
      <4> QED
        BY <1>9, <3>1, <4>1
    <3> QED
      BY <1>8, <1>9, <3>1
  <2>3. \A i \in Jobs : JobSound(jobs'[i])
    BY <1>1, <1>2, <1>6 DEF RenderTyped
  <2> QED
    BY <1>2, <2>1, <2>2, <2>3 DEF RenderTyped, JobSound, Passes
<1>11. QuotaKept'
  <2>1. Requested' = Requested
    <3>1. CASE log' = log
      BY <3>1 DEF Requested, RequestsOf
    <3> QED
      BY <1>1, <1>3, <1>4, <1>5, <3>1, RequestsLogged
  <2> QED
    BY <1>2, <2>1 DEF RenderInv, QuotaKept, Deciding
<1>12. \A q \in Outfits, i \in Jobs : Sole(i, q)' => Sole(i, q)
  BY <1>2, <1>6, <1>7 DEF Sole
<1>13. \A q \in Outfits : q # o => log'[q] = log[q] /\ image'[q] = image[q]
  <2>1. \A q \in Outfits : q # o => log'[q] = log[q]
    BY <1>1, <1>3, <1>4, <1>5, Logged
  <2> QED
    BY <1>8, <1>9, <2>1
<1>14. ASSUME NEW q \in Outfits, NEW i \in Jobs, Sole(i, q)', i # j
       PROVE  /\ jobs'[i].pc \in Unrendered => image'[q] = None
              /\ jobs'[i].pc = "record" => image'[q] = jobs'[i].passes
              /\ jobs'[i].pc = "done" => image'[q] = None \/ (\E n : n = image'[q] /\ Says(q, n)')
  <2>1. Sole(i, q) /\ q # o /\ jobs'[i] = jobs[i]
    BY <1>3, <1>6, <1>12, <1>14 DEF Sole
  <2>2. log'[q] = log[q] /\ image'[q] = image[q]
    BY <1>13, <2>1
  <2>3. /\ jobs[i].pc \in Unrendered => image[q] = None
        /\ jobs[i].pc = "record" => image[q] = jobs[i].passes
        /\ jobs[i].pc = "done" => image[q] = None \/ Says(q, image[q])
    BY <2>1 DEF RenderInv, Described
  <2>4. \A n : Says(q, n) => Says(q, n)'
    BY <2>2 DEF Says, Renders
  <2> QED
    BY <2>1, <2>2, <2>3, <2>4
<1>15. ASSUME Sole(j, o)'
       PROVE  /\ job.pc \in Unrendered => image'[o] = None
              /\ job.pc = "record" => image'[o] = job.passes
              /\ job.pc = "done" => image'[o] = None \/ (\E n : n = image'[o] /\ Says(o, n)')
  <2>1. Sole(j, o) /\ cut' # cut \cup {j}
    <3>1. Sole(j, o)
      BY <1>12, <1>15
    <3>2. j \notin cut'
      BY <1>15 DEF Sole
    <3> QED
      BY <3>1, <3>2
  <2>2. /\ jobs[j].pc \in Unrendered => image[o] = None
        /\ jobs[j].pc = "record" => image[o] = jobs[j].passes
        /\ jobs[j].pc = "done" => image[o] = None \/ Says(o, image[o])
    BY <2>1 DEF RenderInv, Described
  <2>3. CASE log' = log /\ image' = image /\ job = jobs[j]
    BY <2>2, <2>3 DEF Says, Renders
  <2>4. CASE image' = image /\ jobs[j].pc \in Unrendered /\ job.pc \in Unrendered \cup {"done"}
    BY <2>2, <2>4 DEF Unrendered
  <2>5. CASE /\ jobs[j].pc = "put" /\ job.pc = "record" /\ job.passes = jobs[j].passes
             /\ image' = [image EXCEPT ![o] = jobs[j].passes]
    BY <1>3, <1>9, <2>5 DEF Unrendered
  <2>6. CASE /\ jobs[j].pc = "record" /\ job.pc = "done" /\ image' = image
             /\ log' = [log EXCEPT ![o] = Append(@, render)]
    <3>1. Says(o, render.passes)'
      BY <1>1, <1>3, <1>4, <2>6, RenderSays
    <3>2. render.passes = image'[o]
      BY <1>4, <2>2, <2>6
    <3>3. \E n : n = image'[o] /\ Says(o, n)'
      BY <3>1, <3>2
    <3> QED
      BY <2>6, <3>3 DEF Unrendered
  <2> QED
    BY <1>2, <1>3, <1>4, <2>1, <2>3, <2>4, <2>5, <2>6 DEF Goes, Logs
<1>16. ASSUME NEW q \in Outfits, \A i \in Jobs : jobs'[i].outfit # q
       PROVE  image'[q] = None
  <2>1. q # o /\ \A i \in Jobs : jobs[i].outfit # q
    BY <1>2, <1>3, <1>6, <1>16
  <2> QED
    BY <1>13, <2>1 DEF RenderInv, Described
<1>17. Described'
  <2>1. \A q \in Outfits : Sole(j, q)' => q = o
    BY <1>2, <1>3, <1>6 DEF Sole
  <2>2. ASSUME NEW q \in Outfits, NEW i \in Jobs, Sole(i, q)'
        PROVE  /\ jobs'[i].pc \in Unrendered => image'[q] = None
               /\ jobs'[i].pc = "record" => image'[q] = jobs'[i].passes
               /\ jobs'[i].pc = "done" => image'[q] = None \/ (\E n : n = image'[q] /\ Says(q, n)')
    <3>1. CASE i = j
      BY <1>6, <1>15, <2>1, <2>2, <3>1
    <3>2. CASE i # j
      BY <1>14, <2>2, <3>2
    <3> QED
      BY <3>1, <3>2
  <2> QED
    BY <1>16, <2>2 DEF Described, Says, Renders
<1> QED
  BY <1>10, <1>11, <1>17

LEMMA StoredKept ==
  ASSUME stored \subseteq Photos, [Next]_vars
  PROVE  stored' \subseteq Photos
BY DEF Next, RecordBodyPhoto, RevokeDelete, RevokeFails, RevokeMark, RecordRequest, Ask, GrowOld,
   JobStep, Begin, Fetch, Send, Receive, PutImage, RecordRender, Crash, TimeOut, ThreadEnds,
   photoVars, vars

LEMMA RenderInvKept == RenderInv /\ [Next]_vars => RenderInv'
<1> SUFFICES ASSUME RenderInv, [Next]_vars PROVE RenderInv'
  OBVIOUS
<1>1. TryonInv'
  BY TryonInvKept DEF RenderInv
<1>2. CASE UNCHANGED <<log, taps, jobs, sending, image, cut>>
  BY <1>1, <1>2, OtherStepsKeep DEF RenderInv
<1>3. CASE \/ \E p \in Photos : RecordBodyPhoto(p)
           \/ RevokeDelete \/ RevokeFails \/ RevokeMark \/ UNCHANGED vars
  BY <1>2, <1>3 DEF RecordBodyPhoto, RevokeDelete, RevokeFails, RevokeMark, vars
<1>4. CASE \E t \in Taps : RecordRequest(t) \/ \E o \in Outfits : Ask(t, o)
  BY <1>1, <1>4, RecordRequestKeeps, AskKeeps DEF RenderInv
<1>5. CASE \E o \in Outfits : GrowOld(o)
  BY <1>1, <1>5, GrowOldKeeps DEF RenderInv
<1>6. CASE \E j \in Jobs : JobStep(j)
  BY <1>1, <1>6, JobStepRenders DEF RenderInv
<1> QED
  BY <1>3, <1>4, <1>5, <1>6 DEF Next

(* RecordDescribesImage, for any outfits, taps, jobs and faults: the record of    *)
(* the newest render says how many garments the stored picture shows, but where   *)
(* two jobs rendered the outfit or one was cut off (tryon.py, _record_render).    *)
THEOREM RecordsDescribeImages == Spec => []RecordDescribesImage
<1>1. RenderInv => RecordDescribesImage
  <2> SUFFICES ASSUME RenderInv, NEW o \in Outfits, NEW j \in Jobs,
                      {i \in Jobs : jobs[i].outfit = o} = {j}, j \notin cut, image[o] # None
               PROVE  jobs[j].pc = "record" \/ Says(o, image[o])
    BY DEF RecordDescribesImage, Says
  <2>1. Sole(j, o)
    BY DEF Sole
  <2>2. /\ jobs[j].pc \in Unrendered => image[o] = None
        /\ jobs[j].pc = "done" => image[o] = None \/ Says(o, image[o])
    BY <2>1 DEF RenderInv, Described
  <2>3. jobs[j].pc \in JobStates /\ jobs[j].pc # "none"
    BY <2>1, OutfitsAssumption DEF RenderInv, TryonInv, TryonTyped, RenderTyped, JobSound, Sole
  <2> QED
    BY <2>2, <2>3 DEF JobStates, Unrendered
<1> QED
  BY <1>1, RenderInitInv, RenderInvKept, PTL DEF Spec

--------------------------------------------------------------------------------
(* The types of the two parts, and their counts. *)

LEMMA TryonTypes == RenderInv /\ stored \subseteq Photos => TypeOK
<1> SUFFICES ASSUME RenderInv, stored \subseteq Photos PROVE TypeOK
  OBVIOUS
<1>1. flagged \subseteq Photos
  BY DEF RenderInv, TryonInv, MarksAreTrue, Revoked
<1>2. \A o \in Outfits : \A i \in 1..Len(log[o]) : log[o][i].what \in {"requested", "rendered", "failed"}
  <2> TAKE o \in Outfits
  <2>1. log[o] \in Seq(Entries)
    BY DEF RenderInv, RenderTyped
  <2>2. \A i \in 1..Len(log[o]) : log[o][i] \in Entries
    BY <2>1
  <2> QED
    BY <2>2 DEF Entries
<1>3. Used <= Quota + Cardinality(Taps) - 1
  <2>1. Used \in Nat /\ Used + Cardinality(Deciding) <= Quota + Cardinality(Taps) - 1
    BY FS_CardinalityType DEF RenderInv, QuotaKept, Used, Requested
  <2> QED
    BY <2>1, DecidingIsFinite, QuotaAssumption
<1>4. consent \in [Photos -> {"none", "given", "revoked"}]
  BY DEF RenderInv, TryonInv, TryonTyped
<1>5. /\ sending \subseteq Jobs /\ \A o \in Outfits : image[o] \in {None} \cup 1..MaxPasses
      /\ \A j \in Jobs : jobs[j].passes \in 0..MaxPasses /\ jobs[j].tries \in 0..1
  BY DEF RenderInv, RenderTyped, JobSound
<1> QED
  BY <1>1, <1>2, <1>3, <1>4, <1>5 DEF TypeOK

\* Who failed once is counted by the failures, and once by the attempts.
Counting ==
  /\ account \in {"live", "soft", "gone"}
  /\ objects \subseteq Kinds /\ held \subseteq Grants /\ writers \subseteq Writers
  /\ failures \in 0..MaxFailures
  /\ run # Nothing => request # Nothing
  /\ request # Nothing =>
       /\ request \in Requests /\ request.attempts <= failures
       /\ run # Nothing /\ run.failed => request.attempts + 1 <= failures

LEMMA CountingInit == ErasureInit => Counting
BY GrantsAssumption DEF ErasureInit, Counting

LEMMA CountingKept == ErasureInv /\ Counting /\ [ErasureNext]_erasureVars => Counting'
<1> SUFFICES ASSUME ErasureInv, Counting, [ErasureNext]_erasureVars PROVE Counting'
  OBVIOUS
<1>0. MaxFailures \in Nat /\ IsFiniteSet(Grants)
  BY GrantsAssumption
<1>1. CASE UNCHANGED erasureVars
  BY <1>1 DEF erasureVars, ghosts, Counting
<1>2. CASE \E k \in Kinds : Upload(k)
  BY <1>2 DEF Upload, Counting
<1>3. ASSUME request' = Opened, run = Nothing, UNCHANGED <<run, failures>>,
             account' \in {"live", "soft", "gone"}, writers' \subseteq writers,
             UNCHANGED <<objects, held>>
      PROVE  Counting'
  BY <1>0, <1>3, OpenedIsARequest DEF Opened, Counting
<1>4. CASE DeleteMe
  <2>1. run = Nothing
    BY <1>4 DEF DeleteMe, Admitted, ErasureInv, AccountClosed
  <2> QED
    BY <1>3, <1>4, <2>1 DEF DeleteMe
<1>5. CASE \E w \in Writers : DeleteMeAgain(w)
  <2>1. CASE request' = Opened /\ ~IsOpen
    <3>1. run = Nothing
      BY <2>1 DEF IsOpen, ErasureInv, AccountClosed
    <3> QED
      BY <1>3, <1>5, <2>1, <3>1 DEF DeleteMeAgain, Counting
  <2>2. CASE request' = request
    BY <1>5, <2>2 DEF DeleteMeAgain, Counting
  <2> QED
    BY <1>5, <2>1, <2>2 DEF DeleteMeAgain
<1>6. CASE \E w \in Writers : WriteLate(w)
  BY <1>6 DEF WriteLate, Counting
<1>7. CASE Drain
  BY <1>7 DEF Drain, IsOpen, Counting
<1>8. ASSUME NEW step, NEW reasons \in SUBSET (Grants \cup {"traces"}), Doing(step),
             run' = Advance(step, reasons), UNCHANGED <<account, request, held, writers, failures>>,
             objects' \subseteq objects
      PROVE  Counting'
  <2>1. run # Nothing /\ run \in Transactions /\ ~run.failed
    BY <1>8, StepKeepsOrder DEF Doing
  <2>2. run'.failed = run.failed
    BY <1>8, <2>1 DEF Advance, Transactions
  <2> QED
    BY <1>8, <2>1, <2>2 DEF Counting
<1>9. CASE PurgeProviders
  <2>1. PICK revoked \in SUBSET Secrets, unreachable \in SUBSET (Secrets \cap {"litellm"}) :
          /\ failures' = failures + Cardinality(Secrets \ revoked) /\ failures' <= MaxFailures
          /\ held' = held \ revoked
          /\ run' = [Advance("provider_purged", Unconfirmed(revoked, unreachable))
                       EXCEPT !.nulled = Google]
    BY <1>9 DEF PurgeProviders
  <2>2. Doing("provider_purged") /\ UNCHANGED <<account, request, objects, writers>>
    BY <1>9 DEF PurgeProviders
  <2>3. run # Nothing /\ run \in Transactions /\ ~run.failed
    BY <2>2, StepKeepsOrder DEF Doing
  <2>4. run'.failed = run.failed
    BY <2>1, <2>3 DEF Advance, Transactions
  <2>5. IsFiniteSet(Secrets \ revoked)
    <3>1. Secrets \ revoked \subseteq Grants
      BY DEF Secrets, ErasureInv, ErasureTyped
    <3> QED
      BY <1>0, <3>1, FS_Subset
  <2>6. failures' \in 0..MaxFailures /\ failures <= failures'
    <3>1. Cardinality(Secrets \ revoked) \in Nat /\ failures \in Nat
      BY <2>5, FS_CardinalityType DEF Counting
    <3> QED
      BY <1>0, <2>1, <3>1
  <2>7. request # Nothing => request.attempts \in Nat
    BY DEF Counting, Requests
  <2> QED
    BY <1>0, <2>1, <2>2, <2>3, <2>4, <2>6, <2>7 DEF Counting
<1>10. CASE ScrubTraces
  BY <1>8, <1>10 DEF ScrubTraces
<1>11. CASE DeleteObjects
  <2>1. CASE objects' = DeleteAllVersions(Listed) /\ run' = Advance("objects_deleted", {})
             /\ UNCHANGED failures
    BY <1>8, <1>11, <2>1 DEF DeleteObjects, DeleteAllVersions
  <2>2. CASE /\ failures < MaxFailures /\ failures' = failures + 1
             /\ \E n \in 0..(Len(Listed) - 1) : objects' = DeleteAllVersions(SubSeq(Listed, 1, n))
             /\ run' = [run EXCEPT !.failed = TRUE]
    <3>1. run # Nothing /\ run \in Transactions /\ UNCHANGED <<account, request, held, writers>>
      BY <1>11, StepKeepsOrder DEF DeleteObjects
    <3>2. objects' \subseteq objects
      BY <2>2 DEF DeleteAllVersions
    <3>3. failures' \in 0..MaxFailures /\ failures \in Nat
      BY <1>0, <2>2 DEF Counting
    <3>4. request # Nothing => request.attempts \in Nat
      BY DEF Counting, Requests
    <3> QED
      BY <2>2, <3>1, <3>2, <3>3, <3>4 DEF Counting
  <2> QED
    BY <1>11, <2>1, <2>2 DEF DeleteObjects
<1>12. CASE PurgeCdn
  BY <1>8, <1>12 DEF PurgeCdn
<1>13. CASE DeleteRows
  <2>1. run # Nothing /\ run \in Transactions /\ ~run.failed /\ Doing("rows_deleted")
    BY <1>13, StepKeepsOrder DEF DeleteRows, Doing
  <2>2. Advance("rows_deleted", {}) \in Transactions /\ Advance("rows_deleted", {}).failed = run.failed
    BY <2>1, StepKeepsOrder DEF Advance, Transactions
  <2>3. run'.failed = run.failed
    BY <1>13, <2>2 DEF DeleteRows, EraseUserRows, Transactions
  <2> QED
    BY <1>13, <2>1, <2>3 DEF DeleteRows, Counting
<1>14. CASE Confirm
  BY <1>8, <1>14 DEF Confirm
<1>15. CASE Commit
  <2>1. /\ run # Nothing /\ run' = Nothing /\ UNCHANGED <<objects, held, writers, failures>>
        /\ request'.attempts = (IF run.failed THEN request.attempts + 1 ELSE request.attempts)
        /\ account' \in {account, "gone"}
    BY <1>15 DEF Commit
  <2>2. request' \in Requests
    <3>1. run \in Transactions /\ InOrder(run.done)
      BY <2>1 DEF ErasureInv, ErasureTyped, AccountClosed
    <3>2. Newest(run.done) \in Range(Steps)
      BY <3>1, NewestIsAStep
    <3>3. request.attempts \in Nat
      BY <2>1 DEF Counting, Requests
    <3> QED
      BY <1>15, <3>1, <3>2, <3>3 DEF Commit, Requests, Transactions
  <2>3. request.attempts \in Nat /\ request # Nothing
    BY <2>1 DEF Counting, Requests
  <2> QED
    BY <2>1, <2>2, <2>3 DEF Counting
<1>16. CASE RollBack
  <2>1. /\ run # Nothing /\ run' = Nothing /\ UNCHANGED <<account, objects, held, writers>>
        /\ failures < MaxFailures /\ failures' = failures + 1
        /\ request' \in {request, [request EXCEPT !.attempts = @ + 1]}
    BY <1>16 DEF RollBack
  <2>2. request \in Requests /\ request.attempts \in Nat /\ request.attempts <= failures
    BY <2>1 DEF Counting, Requests
  <2>3. request' \in Requests /\ request'.attempts \in {request.attempts, request.attempts + 1}
    BY <2>1, <2>2 DEF Requests
  <2>4. failures \in Nat /\ failures' \in 0..MaxFailures
    BY <1>0, <2>1 DEF Counting
  <2> QED
    BY <2>1, <2>2, <2>3, <2>4 DEF Counting
<1> QED
  BY <1>1, <1>2, <1>4, <1>5, <1>6, <1>7, <1>9, <1>10, <1>11, <1>12, <1>13, <1>14, <1>15, <1>16
     DEF ErasureNext

LEMMA ErasureTypes == ErasureInv /\ Counting => ErasureTypeOK
BY DEF ErasureInv, ErasureTyped, Counting, ErasureTypeOK

(* AccountTypeOK, for any account and any try-ons: every row is of the shape its  *)
(* columns allow, an attempt to erase is counted only when something failed       *)
(* (erasure.py), and taps that pass the quota check together overshoot the        *)
(* quota by at most one request each (tryon.py).                                  *)
THEOREM AccountsStayTyped == AccountSpec => []AccountTypeOK
<1> DEFINE AccountInv == ErasureInv /\ Counting /\ RenderInv /\ stored \subseteq Photos
<1>1. AccountInit => AccountInv
  <2>1. Init => stored \subseteq Photos
    BY DEF Init
  <2> QED
    BY <2>1, ErasureInitInv, CountingInit, RenderInitInv DEF AccountInit
<1>2. AccountInv /\ [AccountNext]_AccountVars => AccountInv'
  <2> SUFFICES ASSUME AccountInv, [AccountNext]_AccountVars PROVE AccountInv'
    OBVIOUS
  <2>1. [ErasureNext]_erasureVars /\ [Next]_vars
    BY DEF AccountNext, AccountVars
  <2>2. ErasureInv' /\ Counting'
    BY <2>1, ErasureInvKept, CountingKept
  <2>3. RenderInv' /\ stored' \subseteq Photos
    BY <2>1, RenderInvKept, StoredKept
  <2> QED
    BY <2>2, <2>3
<1>3. AccountInv => AccountTypeOK
  BY ErasureTypes, TryonTypes DEF AccountTypeOK
<1> QED
  BY <1>1, <1>2, <1>3, PTL DEF AccountSpec
================================================================================
