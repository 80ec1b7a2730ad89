--------------------------------- MODULE Tryon ---------------------------------
(* Try-on of outfits: consent to a body photo and its revocation, the request
   with its in-flight check and quota, and the render job.  One user; the queue
   between them delivers at least once. *)
EXTENDS Naturals, FiniteSets, SequencesExt

CONSTANTS
  NPhotos,     \* body photos the user uploads, numbered as they are consented to
  Outfits,
  Fits,        \* how many garments of an outfit the provider can render, at least 1
  Taps,        \* requests handled at once
  Jobs,        \* render jobs, one per recorded request
  Quota,       \* tryon_daily_quota; the model is one day
  MaxPasses,
  None,
  MaxFaults

ASSUME PhotosAssumption == NPhotos \in Nat
ASSUME OutfitsAssumption == None \notin Outfits /\ Fits \in [Outfits -> Nat \ {0}]
ASSUME QuotaAssumption == Quota \in Nat /\ IsFiniteSet(Taps) /\ Taps # {}
ASSUME PassesAssumption == MaxPasses \in Nat \ {0}

VARIABLES
  consent,     \* body_photo rows: "none", "given" or "revoked"
  flagged,     \* rows with deleted_from_storage
  stored,      \* photos in the object store
  revoking,    \* a revocation between its deletions and its UPDATE, or None
  log,         \* audit_log per outfit, oldest first
  taps,        \* the outfit a tap has decided to request, or None
  jobs,        \* render jobs
  sending,     \* jobs whose thread has a request at the provider
  image,       \* passes of the stored render per outfit, or None
  raced,       \* ghost: photos consented to while a revocation was under way
  leaked,      \* ghost: jobs that sent a photo revoked before they began
  cut,         \* ghost: jobs that a crash or a timeout interrupted
  faults

vars == <<consent, flagged, stored, revoking, log, taps, jobs, sending, image,
          raced, leaked, cut, faults>>
photoVars == <<consent, flagged, stored, revoking, raced>>

Photos == 1..NPhotos

NoJob == [pc |-> "none", outfit |-> None, photo |-> None, passes |-> 0, tries |-> 0,
          knew |-> {}]

Init ==
  /\ consent = [p \in Photos |-> "none"] /\ flagged = {} /\ stored = {}
  /\ revoking = None
  /\ log = [o \in Outfits |-> <<>>]
  /\ taps = [t \in Taps |-> None]
  /\ jobs = [j \in Jobs |-> NoJob] /\ sending = {}
  /\ image = [o \in Outfits |-> None]
  /\ raced = {} /\ leaked = {} /\ cut = {} /\ faults = 0

Given == {p \in Photos : consent[p] = "given"}
Revoked == {p \in Photos : consent[p] = "revoked"}

--------------------------------------------------------------------------------
\* POST /me/body-photos records the consent; nothing looks for the object.
RecordBodyPhoto(p) ==
  /\ consent[p] = "none" /\ \A q \in 1..(p - 1) : consent[q] # "none"
  /\ consent' = [consent EXCEPT ![p] = "given"]
  /\ stored' \in {stored, stored \cup {p}}
  /\ raced' = IF revoking = None THEN raced ELSE raced \cup {p}
  /\ UNCHANGED <<flagged, revoking, log, taps, jobs, sending, image, leaked, cut, faults>>

\* DELETE /me/body-photos: the objects of the rows it reads, one after another.
RevokeDelete ==
  /\ revoking = None /\ Given # {}
  /\ stored' = stored \ Given
  /\ revoking' = Given
  /\ UNCHANGED <<consent, flagged, raced, log, taps, jobs, sending, image, leaked, cut, faults>>

\* One of them cannot be deleted, or the server dies: the rows stay as they are.
RevokeFails ==
  /\ revoking = None /\ Given # {} /\ faults < MaxFaults
  /\ faults' = faults + 1
  /\ \E gone \in SUBSET Given : stored' = stored \ gone
  /\ UNCHANGED <<consent, flagged, revoking, raced, log, taps, jobs, sending, image, leaked, cut>>

\* The UPDATE takes every unrevoked row it sees, read before or not.
RevokeMark ==
  /\ revoking # None
  /\ consent' = [p \in Photos |-> IF consent[p] = "given" THEN "revoked" ELSE consent[p]]
  /\ flagged' = flagged \cup Given
  /\ revoking' = None
  /\ UNCHANGED <<stored, raced, log, taps, jobs, sending, image, leaked, cut, faults>>

--------------------------------------------------------------------------------
\* What the audit log says of one outfit.
After(o, whats) ==
  LET last == SelectLastInSeq(log[o], LAMBDA e : e.what \in whats)
  IN SubSeq(log[o], last + 1, Len(log[o]))

Has(entries, what) == \E i \in 1..Len(entries) : entries[i].what = what

\* The newest failure is newer than the newest request.
Failed(o) == Has(After(o, {"requested"}), "failed")

InProgressForever(o) == Has(After(o, {"rendered", "failed"}), "requested")

\* A request that nothing has answered, younger than RENDER_INFLIGHT_TTL_S.
InProgress(o) ==
  LET open == After(o, {"rendered", "failed"})
  IN \E i \in 1..Len(open) : open[i].what = "requested" /\ open[i].young

RequestsOf(o) == {i \in 1..Len(log[o]) : log[o][i].what = "requested"}
Used == Cardinality(UNION {{o} \X RequestsOf(o) : o \in Outfits})

\* A render that is there is served whatever has become of the consent.
Served(o) == image[o] # None

\* One request more than the quota.
AskPastQuota(t, o) ==
  /\ taps[t] = None
  /\ ~Served(o) /\ Given # {} /\ ~Failed(o) /\ ~InProgress(o)
  /\ Used <= Quota
  /\ taps' = [taps EXCEPT ![t] = o]
  /\ UNCHANGED <<photoVars, log, jobs, sending, image, leaked, cut, faults>>

\* POST /outfits/{hash}/tryon on its way to the one branch that asks for a
\* render; a render that is there, no consent, a failure, a request under way
\* and a spent quota are answered without a trace.
Ask(t, o) ==
  /\ taps[t] = None
  /\ ~Served(o) /\ Given # {} /\ ~Failed(o) /\ ~InProgress(o)
  /\ Used < Quota
  /\ taps' = [taps EXCEPT ![t] = o]
  /\ UNCHANGED <<photoVars, log, jobs, sending, image, leaked, cut, faults>>

Entry(what) == [what |-> what, young |-> TRUE, passes |-> 0]
Note(o, entry) == log' = [log EXCEPT ![o] = Append(@, entry)]

\* The audit row and the outbox event, in a transaction of their own.
RecordRequest(t) ==
  /\ taps[t] # None
  /\ \E j \in Jobs :
       /\ jobs[j].pc = "none"
       /\ jobs' = [jobs EXCEPT ![j].pc = "queued", ![j].outfit = taps[t]]
  /\ Note(taps[t], Entry("requested"))
  /\ taps' = [taps EXCEPT ![t] = None]
  /\ UNCHANGED <<photoVars, sending, image, leaked, cut, faults>>

\* Fifteen minutes go by.
GrowOld(o) ==
  /\ \E i \in 1..Len(log[o]) : log[o][i].young
  /\ log' = [log EXCEPT ![o] = [i \in 1..Len(@) |-> [@[i] EXCEPT !.young = FALSE]]]
  /\ UNCHANGED <<photoVars, taps, jobs, sending, image, leaked, cut, faults>>

--------------------------------------------------------------------------------
Set(j, job) == jobs' = [jobs EXCEPT ![j] = job]
End(j) == Set(j, [jobs[j] EXCEPT !.pc = "done"])
Fail(j) == End(j) /\ Note(jobs[j].outfit, Entry("failed"))

BeginTrusting(j) ==
  /\ jobs[j].pc = "queued"
  /\ \E p \in Given \cup Revoked :
       Set(j, [jobs[j] EXCEPT !.pc = "fetch", !.photo = p, !.knew = Revoked])
  /\ UNCHANGED <<photoVars, log, taps, sending, image, leaked, cut, faults>>

\* render_tryon reads consent, outfit and garments again.  Without consent, with
\* the outfit gone, or with nothing this provider fits, the job ends unrecorded;
\* with no garment left that any provider could render, it records a failure.
Begin(j) ==
  /\ jobs[j].pc = "queued"
  /\ \/ /\ Given # {}
        /\ Set(j, [jobs[j] EXCEPT !.pc = "fetch", !.photo = Max(Given), !.knew = Revoked])
        /\ UNCHANGED log
     \/ End(j) /\ UNCHANGED log
     \/ Given # {} /\ Fail(j)
  /\ UNCHANGED <<photoVars, taps, sending, image, leaked, cut, faults>>

\* The photo is read into memory, or is not there any more.
Fetch(j) ==
  /\ jobs[j].pc = "fetch"
  /\ IF jobs[j].photo \in stored
     THEN Set(j, [jobs[j] EXCEPT !.pc = "wait"]) /\ UNCHANGED log
     ELSE Fail(j)
  /\ UNCHANGED <<photoVars, taps, sending, image, leaked, cut, faults>>

Holding == {j \in Jobs : jobs[j].pc = "send"}

\* Under _RENDER_LOCK the photo, or the picture so far, goes to the provider.
Send(j) ==
  /\ jobs[j].pc = "wait" /\ Holding = {}
  /\ Set(j, [jobs[j] EXCEPT !.pc = "send"])
  /\ sending' = sending \cup {j}
  /\ leaked' = IF jobs[j].photo \in jobs[j].knew THEN leaked \cup {j} ELSE leaked
  /\ UNCHANGED <<photoVars, log, taps, image, cut, faults>>

\* What the client makes of the provider: a picture, nothing usable (it is
\* down, refuses, or its stream breaks), the photo it was given, or a bug.
Answers == {"picture", "unavailable", "unchanged", "error"}

\* Lower before upper, as many garments as are renderable and allowed.
Passes(o) == Min({MaxPasses, Fits[o]})

\* One pass at the provider: the next garment, or the picture is finished.  An
\* outage is tried once more; a chain that got somewhere before it is kept.
Receive(j) ==
  /\ jobs[j].pc = "send"
  /\ \E answer \in Answers :
       /\ faults' = faults + (IF answer = "picture" THEN 0 ELSE 1) /\ faults' <= MaxFaults
       /\ CASE answer = "picture" ->
               /\ Set(j, [jobs[j] EXCEPT !.passes = @ + 1, !.tries = 0,
                            !.pc = IF jobs[j].passes + 1 < Passes(jobs[j].outfit)
                                   THEN "wait" ELSE "put"])
               /\ UNCHANGED log
            [] answer = "unavailable" /\ jobs[j].tries = 0 ->
               Set(j, [jobs[j] EXCEPT !.tries = 1, !.pc = "wait"]) /\ UNCHANGED log
            [] answer \in {"unavailable", "unchanged"} /\ jobs[j].passes > 0 ->
               Set(j, [jobs[j] EXCEPT !.pc = "put"]) /\ UNCHANGED log
            [] OTHER -> Fail(j)
  /\ sending' = sending \ {j}
  /\ UNCHANGED <<photoVars, taps, image, leaked, cut>>

PutImage(j) ==
  /\ jobs[j].pc = "put"
  /\ image' = [image EXCEPT ![jobs[j].outfit] = jobs[j].passes]
  /\ Set(j, [jobs[j] EXCEPT !.pc = "record"])
  /\ UNCHANGED <<photoVars, log, taps, sending, leaked, cut, faults>>

RecordEarly(j) ==
  /\ jobs[j].pc = "record"
  /\ End(j)
  /\ Note(jobs[j].outfit, [Entry("rendered") EXCEPT !.passes = MaxPasses])
  /\ UNCHANGED <<photoVars, taps, sending, image, leaked, cut, faults>>

RecordRender(j) ==
  /\ jobs[j].pc = "record"
  /\ End(j)
  /\ Note(jobs[j].outfit, [Entry("rendered") EXCEPT !.passes = jobs[j].passes])
  /\ UNCHANGED <<photoVars, taps, sending, image, leaked, cut, faults>>

Working(j) == jobs[j].pc \in {"fetch", "wait", "send", "put", "record"}

\* The worker dies: arq delivers the job again, from the top.
Crash(j) ==
  /\ Working(j) /\ faults < MaxFaults
  /\ faults' = faults + 1
  /\ Set(j, [NoJob EXCEPT !.pc = "queued", !.outfit = jobs[j].outfit])
  /\ sending' = sending \ {j} /\ cut' = cut \cup {j}
  /\ UNCHANGED <<photoVars, log, taps, image, leaked>>

\* arq's job_timeout cancels the coroutine: nothing is recorded, the lock is
\* free, and the thread goes on talking to the provider.
TimeOut(j) ==
  /\ jobs[j].pc \in {"wait", "send"} /\ faults < MaxFaults
  /\ faults' = faults + 1
  /\ End(j) /\ cut' = cut \cup {j}
  /\ UNCHANGED <<photoVars, log, taps, sending, image, leaked>>

ThreadEnds(j) ==
  /\ j \in sending /\ jobs[j].pc = "done"
  /\ sending' = sending \ {j}
  /\ UNCHANGED <<photoVars, log, taps, jobs, image, leaked, cut, faults>>

JobStep(j) ==
  \/ Begin(j) \/ Fetch(j) \/ Send(j) \/ Receive(j) \/ PutImage(j)
  \/ RecordRender(j) \/ Crash(j) \/ TimeOut(j) \/ ThreadEnds(j)

Next ==
  \/ \E p \in Photos : RecordBodyPhoto(p)
  \/ RevokeDelete \/ RevokeFails \/ RevokeMark
  \/ \E t \in Taps : RecordRequest(t) \/ \E o \in Outfits : Ask(t, o)
  \/ \E o \in Outfits : GrowOld(o)
  \/ \E j \in Jobs : JobStep(j)

Spec == Init /\ [][Next]_vars

\* Time passes, and a handler that has decided to record a request does so.
Fairness ==
  /\ \A o \in Outfits : WF_vars(GrowOld(o))
  /\ \A t \in Taps : WF_vars(RecordRequest(t))

--------------------------------------------------------------------------------
\* The types, and how long the log gets: taps that pass the check together
\* overshoot the day's quota by at most one request each.
TypeOK ==
  /\ consent \in [Photos -> {"none", "given", "revoked"}]
  /\ flagged \subseteq Photos /\ stored \subseteq Photos
  /\ \A o \in Outfits : \A i \in 1..Len(log[o]) :
       log[o][i].what \in {"requested", "rendered", "failed"}
  /\ Used <= Quota + Cardinality(Taps) - 1
  /\ \A j \in Jobs : jobs[j].passes \in 0..MaxPasses /\ jobs[j].tries \in 0..1
  /\ sending \subseteq Jobs
  /\ \A o \in Outfits : image[o] \in {None} \cup 1..MaxPasses

\* What a revocation says is done.  A render that begins after a photo was
\* revoked never sends that photo to the provider, whatever was true when it
\* was asked for; and a row that says its photo is deleted from storage says
\* the truth, except of a photo consented to while a revocation was under way.
RevocationHolds ==
  /\ leaked = {}
  /\ \A p \in flagged : p \in stored => p \in raced

Renders(o) == {i \in 1..Len(log[o]) : log[o][i].what = "rendered"}

\* What a card says a picture leaves out is what its record says: the record of
\* the newest render is the one of the stored picture, a chain that broke off
\* half way included, unless two jobs rendered the outfit or one was cut off.
RecordDescribesImage ==
  \A o \in Outfits, j \in Jobs :
    {i \in Jobs : jobs[i].outfit = o} = {j} /\ j \notin cut /\ image[o] # None
      => \/ jobs[j].pc = "record"
         \/ \E i \in Renders(o) :
              log[o][i].passes = image[o] /\ \A k \in Renders(o) : k <= i

\* "A worker that dies mid-render does not leave an outfit stuck at in
\* progress": every request is answered or grows old.
InProgressEnds == \A o \in Outfits : InProgress(o) ~> ~InProgress(o)
================================================================================
