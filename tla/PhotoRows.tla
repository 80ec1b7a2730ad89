------------------------------- MODULE PhotoRows -------------------------------
(***************************************************************************)
(* What the ten ingest stages do to the garment rows of one photo          *)
(* (stylist_worker/stages/), while the owner of the wardrobe edits,        *)
(* removes and answers questions about the same rows (stylist_api/routers) *)
(* and while workers die between a stage's writes and the transition that  *)
(* records them.  How a job is queued, retried and parked is in            *)
(* IngestPipeline; here a job is the number of its last completed stage.   *)
(*                                                                         *)
(* A stage runs in two steps, as it does in the code: it reads records     *)
(* (from ctx.scratch, which a crash loses, or from the table) and works on *)
(* them, and then writes them in one transaction.  Pixels, vectors and     *)
(* tags are left out; of a value the rows keep who wrote it last.          *)
(***************************************************************************)
EXTENDS Integers, Sequences, FiniteSets

CONSTANTS Primary, Extra,           \* the garments a photo may show
          HashTwins, VectorTwins,   \* those already in the wardrobe: found by
                                    \* the picture, found by the embedding only
          MaxEdits,                 \* bound: what the user does to the rows
          MaxCrashes,               \* bound: workers lost
          MaxFaults                 \* bound: stage errors, lost intermediates

Pieces == {Primary} \cup Extra
ASSUME PiecesAssumption == IsFiniteSet(Extra) /\ Primary \notin Extra
ASSUME TwinsAssumption == HashTwins \subseteq Pieces /\ VectorTwins \subseteq Pieces
ASSUME BoundsAssumption == MaxEdits \in Nat /\ MaxCrashes \in Nat /\ MaxFaults \in Nat

VALIDATE == 1
SANITISE == 2
MODERATE == 3
SEGMENT == 4
MATTE == 5
CLASSIFY == 6
TAG == 7
EMBED == 8
DEDUPE == 9
PERSIST == 10

VARIABLES photo,    \* what the models see in it: constant, but any
          rows,     \* the garment rows with its original_key; 1 is the job's
          job,      \* the last completed stage
          ended,    \* the off-ramp taken, "dlq", or "no"
          pc,       \* ready: between stages; read: a stage is at work;
                    \* wrote: its write is committed; mark: the off-ramp is;
                    \* over: run_pipeline has returned
          held,     \* the records the stage at work has in its hands
          scratch,  \* ctx.scratch["garment_records"]
          onDisk,   \* the sanitised intermediate is in the object store
          inHand,   \* ... and its bytes in ctx.scratch
          sent,     \* rows whose cutout went to the vision model
          edits, crashes, faults

pipeline == <<job, ended, pc, held, scratch, onDisk, inHand>>
bounds == <<edits, crashes, faults>>
vars == <<photo, rows, pipeline, sent, bounds>>

Fields == {"slot", "colour", "tags"}
OffRamps == {"rejected", "quarantined", "needs_review", "degraded_tagged"}

\* A row: the garment it shows, its state column, whether it is active, has a
\* cutout and an embedding, who wrote each field, user_verified_fields,
\* needs_review, duplicate_of; and, for the properties, why it ought to be
\* under review and whether the user has answered a duplicate question on it.
NewRow(p) ==
  [piece |-> p, state |-> "received", active |-> TRUE, cut |-> FALSE, emb |-> FALSE,
   by |-> [f \in Fields |-> "nobody"], verified |-> {}, review |-> FALSE, dup |-> FALSE,
   why |-> {}, answered |-> FALSE]

\* A record a stage hands to the next: cutout_key, needs_review, embedding.
Records == [cut : BOOLEAN, review : BOOLEAN, vec : BOOLEAN]
NoRecords == <<>>

Init ==
  /\ photo \in {ph \in [valid : BOOLEAN, verdict : {"ok", "review", "quarantine"},
                         shows : {{}} \cup {{Primary} \cup E : E \in SUBSET Extra},
                         dark : SUBSET Pieces] :
                  ph.dark \subseteq ph.shows /\ (ph.valid \/ ph.shows = {})}
  /\ rows = <<NewRow(Primary)>>
  /\ job = 0 /\ ended = "no" /\ pc = "ready"
  /\ held = NoRecords /\ scratch = NoRecords
  /\ onDisk = FALSE /\ inHand = FALSE
  /\ sent = {}
  /\ edits = 0 /\ crashes = 0 /\ faults = 0
--------------------------------------------------------------------------------
Active == {i \in DOMAIN rows : rows[i].active}
WithCutout == {i \in Active : rows[i].cut}

\* Stage k is next, or at work.
At(k, place) == pc = place /\ job = k - 1

Goto(place) == pc' = place /\ UNCHANGED <<job, ended>>

\* raise Terminal(state): the job's off-ramp is committed first.
Terminal(state) ==
  /\ ended' = state /\ pc' = "mark"
  /\ UNCHANGED <<job, scratch, onDisk, inHand>>

\* What a record read from the table says; the vector is not read back.
FromTable(S) ==
  [i \in S |-> [cut |-> rows[i].cut, review |-> rows[i].review, vec |-> FALSE]]

AllCut(recs) == \A i \in DOMAIN recs : recs[i].cut

Take(recs) == held' = recs /\ Goto("read") /\ UNCHANGED <<scratch, onDisk>>

\* The stage's transaction: row i becomes F(i) for the records in hand.
Write(F(_)) ==
  rows' = [i \in DOMAIN rows |-> IF i \in DOMAIN held THEN F(i) ELSE rows[i]]

\* The stage has, or no longer has, a reason to put the row under review.
Because(r, reason, holds) ==
  [r EXCEPT !.why = IF holds THEN @ \cup {reason} ELSE @ \ {reason}]

\* needs_review = needs_review OR holds
Flag(r, reason, holds) ==
  Because([r EXCEPT !.review = @ \/ holds], reason, holds)

\* The stage returns recs as garment_records; NoRecords if it returns none.
Done(recs) ==
  /\ held' = recs /\ Goto("wrote")
  /\ UNCHANGED <<scratch, onDisk, inHand>>

Quiet == UNCHANGED <<photo, sent, bounds>>
--------------------------------------------------------------------------------
(* The stages. *)

Validate ==
  /\ At(VALIDATE, "ready")
  /\ IF photo.valid THEN Done(NoRecords) ELSE Terminal("rejected") /\ held' = NoRecords
  /\ rows' = rows /\ Quiet

Sanitise ==
  /\ At(SANITISE, "ready")
  /\ onDisk' = TRUE /\ inHand' = TRUE
  /\ held' = NoRecords /\ Goto("wrote")
  /\ UNCHANGED <<rows, scratch>> /\ Quiet

\* load_sanitised(): the bytes in scratch, or the object, or the end.
LoadImage(recs) ==
  IF inHand \/ onDisk
  THEN Take(recs) /\ inHand' = TRUE
  ELSE Terminal("rejected") /\ held' = NoRecords

ReadModerate ==
  /\ At(MODERATE, "ready") /\ LoadImage(NoRecords)
  /\ rows' = rows /\ Quiet

\* _record(): every row of the photo, whatever stages did to it before.
WriteModerateLogged ==
  /\ At(MODERATE, "read")
  /\ rows' = [i \in DOMAIN rows |->
                Flag(rows[i], "moderation", photo.verdict = "review")]
  /\ Done(NoRecords)
  /\ Quiet

WriteModerate ==
  /\ At(MODERATE, "read")
  /\ rows' = [i \in DOMAIN rows |->
                Flag(rows[i], "moderation", photo.verdict = "review")]
  /\ IF photo.verdict = "quarantine"
     THEN Terminal("quarantined") /\ held' = NoRecords
     ELSE Done(NoRecords)
  /\ Quiet

ReadSegment ==
  /\ At(SEGMENT, "ready") /\ LoadImage(NoRecords)
  /\ rows' = rows /\ Quiet

\* split_masks() gives the first garment to the job's row; every other one is a
\* row of its own, under a fresh id each time the stage runs.
SplitInto(order) ==
  /\ rows' = [rows EXCEPT ![1].state = "segmented", ![1].by["slot"] = "model"]
             \o [n \in DOMAIN order |->
                   [NewRow(order[n]) EXCEPT
                      !.state = "segmented", !.by["slot"] = "model",
                      !.why = IF photo.verdict = "review" THEN {"moderation"} ELSE {}]]
  /\ Done([i \in {1} \cup (Len(rows) + 1)..(Len(rows) + Len(order)) |->
             [cut |-> FALSE, review |-> FALSE, vec |-> FALSE]])

WriteSegment ==
  /\ At(SEGMENT, "read")
  /\ \/ photo.shows = {} /\ Terminal("needs_review") /\ held' = NoRecords /\ rows' = rows
     \/ /\ photo.shows # {}
        /\ \E order \in [1..Cardinality(photo.shows \ {Primary}) -> photo.shows \ {Primary}] :
             /\ \A m, n \in DOMAIN order : order[m] = order[n] => m = n
             /\ SplitInto(order)
  /\ Quiet

\* _records(): scratch, else the active rows; then the image.
ReadMatte ==
  /\ At(MATTE, "ready")
  /\ LET recs == IF scratch # NoRecords THEN scratch ELSE FromTable(Active)
     IN  IF recs = NoRecords
         THEN Terminal("rejected") /\ held' = NoRecords
         ELSE LoadImage(recs)
  /\ rows' = rows /\ Quiet

\* A cutout of almost nothing is flagged; if they all are, the photo needs a
\* manual crop.  needs_review is assigned, not added to.
WriteMatte ==
  /\ At(MATTE, "read")
  /\ LET dim(i) == rows[i].piece \in photo.dark
         matted == [i \in DOMAIN held |-> [cut |-> TRUE, review |-> dim(i), vec |-> FALSE]]
     IN  IF \A i \in DOMAIN held : dim(i)
         THEN Terminal("needs_review") /\ held' = NoRecords /\ rows' = rows
         ELSE /\ Write(LAMBDA i :
                   Because([rows[i] EXCEPT !.cut = TRUE, !.state = "matted", !.review = dim(i),
                                           !.why = @ \cap {"moderation"}],
                           "cutout", dim(i)))
              /\ Done(matted)
  /\ Quiet

\* _records() of classify and of embed: scratch if it has cutouts, else the rows.
CutRecords ==
  IF scratch # NoRecords /\ AllCut(scratch) THEN scratch ELSE FromTable(WithCutout)

ReadClassify ==
  /\ At(CLASSIFY, "ready") /\ Take(CutRecords)
  /\ UNCHANGED <<rows, inHand>> /\ Quiet

\* The colours are written whoever wrote the column last; needs_review is what
\* the record said, or a low confidence.
WriteClassify ==
  /\ At(CLASSIFY, "read")
  /\ \E unsure \in SUBSET DOMAIN held :
       LET flagged(i) == held[i].review \/ i \in unsure
       IN  /\ Write(LAMBDA i :
                Because([rows[i] EXCEPT !.by["colour"] = "model", !.state = "classified",
                                        !.review = flagged(i)],
                        "colour", i \in unsure))
           /\ Done([i \in DOMAIN held |-> [held[i] EXCEPT !.review = flagged(i)]])
  /\ Quiet

ReadTag ==
  /\ At(TAG, "ready") /\ Take(FromTable(WithCutout))
  /\ UNCHANGED <<rows, inHand>> /\ Quiet

\* _keep_if_verified(): decided in the UPDATE, on the row as it is then.
KeepNever(r, f) == [r EXCEPT !.by[f] = "model"]
Keep(r, f) == [r EXCEPT !.by[f] = IF f \in r.verified THEN @ ELSE "model"]

\* No virtual key, or the tenant's budget is spent: nothing is sent.
TagRefused ==
  /\ At(TAG, "read") /\ held # NoRecords
  /\ Write(LAMBDA i : Flag(rows[i], "tags", TRUE))
  /\ Terminal("degraded_tagged") /\ held' = NoRecords
  /\ Quiet

\* The answer does not parse: the rows are marked degraded and the job goes on.
TagUnusable ==
  /\ At(TAG, "read") /\ held # NoRecords
  /\ sent' = sent \cup DOMAIN held
  /\ Write(LAMBDA i : Flag(rows[i], "tags", TRUE))
  /\ Done(scratch)
  /\ UNCHANGED <<photo, bounds>>

\* The answer has an item for some of the cells, some of them doubtful, some
\* with a subcategory sure enough to move the slot.
WriteTag ==
  /\ At(TAG, "read")
  /\ sent' = sent \cup DOMAIN held
  /\ \E items \in SUBSET DOMAIN held : \E doubtful, moved \in SUBSET items :
       Write(LAMBDA i :
         IF i \notin items THEN rows[i]
         ELSE LET r == Keep(rows[i], "tags")
                  s == IF i \in moved THEN Keep(r, "slot") ELSE r
              IN  Flag([s EXCEPT !.state = "tagged"], "tags", i \in doubtful))
  /\ Done(scratch)
  /\ UNCHANGED <<photo, bounds>>

ReadEmbed ==
  /\ At(EMBED, "ready") /\ Take(CutRecords)
  /\ UNCHANGED <<rows, inHand>> /\ Quiet

WriteEmbed ==
  /\ At(EMBED, "read")
  /\ Write(LAMBDA i : [rows[i] EXCEPT !.emb = TRUE, !.state = "embedded"])
  /\ Done([i \in DOMAIN held |-> [held[i] EXCEPT !.vec = TRUE]])
  /\ Quiet

\* _records() of dedupe: scratch, else the active rows, without the vectors.
ReadDedupe ==
  /\ At(DEDUPE, "ready")
  /\ Take(IF scratch # NoRecords THEN scratch ELSE FromTable(Active))
  /\ UNCHANGED <<rows, inHand>> /\ Quiet

Proposed(i) ==
  \/ held[i].cut /\ rows[i].piece \in HashTwins
  \/ held[i].vec /\ rows[i].piece \in VectorTwins

WriteDedupe ==
  /\ At(DEDUPE, "read")
  /\ Write(LAMBDA i :
       [rows[i] EXCEPT !.dup = Proposed(i),
                       !.state = IF Proposed(i) THEN "duplicate_suspect" ELSE "deduped"])
  /\ Done(held)
  /\ Quiet

\* One transaction: the rows are read and written in it.
PersistAll ==
  /\ At(PERSIST, "ready")
  /\ IF Active = {}
     THEN Terminal("rejected") /\ held' = NoRecords /\ rows' = rows
     ELSE /\ rows' = [i \in DOMAIN rows |->
                        IF i \in Active THEN [rows[i] EXCEPT !.state = "matted"] ELSE rows[i]]
          /\ Done(scratch)
  /\ Quiet

Persist ==
  /\ At(PERSIST, "ready")
  /\ IF Active = {}
     THEN Terminal("rejected") /\ held' = NoRecords /\ rows' = rows
     ELSE /\ rows' = [i \in DOMAIN rows |->
                        IF i \in Active /\ rows[i].state \notin
                             {"duplicate_suspect", "rejected", "quarantined"}
                        THEN [rows[i] EXCEPT !.state = "matted"] ELSE rows[i]]
          /\ Done(scratch)
  /\ Quiet
--------------------------------------------------------------------------------
(* run_pipeline() around the stages. *)

Advance ==
  /\ pc = "wrote"
  /\ job' = job + 1
  /\ pc' = IF job' = PERSIST THEN "over" ELSE "ready"
  /\ scratch' = IF held # NoRecords THEN held ELSE scratch
  /\ held' = NoRecords
  /\ UNCHANGED <<rows, ended, onDisk, inHand>> /\ Quiet

\* mark_garment_state(): the job's own row only.
Mark ==
  /\ pc = "mark"
  /\ rows' = [rows EXCEPT ![1].state = ended]
  /\ pc' = "over"
  /\ UNCHANGED <<job, ended, held, scratch, onDisk, inHand>> /\ Quiet

\* The stage raises before it writes: it is tried again, or the job is given up.
StageFailsLate ==
  /\ pc \in {"read", "wrote"} /\ faults < MaxFaults
  /\ faults' = faults + 1
  /\ pc' = "ready" /\ ended' = ended
  /\ held' = NoRecords
  /\ UNCHANGED <<photo, rows, job, scratch, onDisk, inHand, sent, edits, crashes>>

StageFails ==
  /\ pc = "read" /\ faults < MaxFaults
  /\ faults' = faults + 1
  /\ \/ pc' = "ready" /\ ended' = ended
     \/ pc' = "over" /\ ended' = "dlq"
  /\ held' = NoRecords
  /\ UNCHANGED <<photo, rows, job, scratch, onDisk, inHand, sent, edits, crashes>>

\* The worker dies and another takes the job up with an empty scratch.  A
\* terminal job is left alone; degraded_tagged is not terminal and has no rank,
\* so that job starts from the top.
Crash ==
  /\ crashes < MaxCrashes
  /\ pc \in {"ready", "read", "wrote", "mark"} \/ ended = "degraded_tagged"
  /\ crashes' = crashes + 1
  /\ held' = NoRecords /\ scratch' = NoRecords /\ inHand' = FALSE
  /\ CASE ended = "no" -> pc' = "ready" /\ UNCHANGED <<job, ended>>
       [] ended = "degraded_tagged" -> pc' = "ready" /\ job' = 0 /\ ended' = "no"
       [] OTHER -> pc' = "over" /\ UNCHANGED <<job, ended>>
  /\ UNCHANGED <<photo, rows, onDisk, sent, edits, faults>>

LoseIntermediate ==
  /\ onDisk /\ faults < MaxFaults
  /\ faults' = faults + 1
  /\ onDisk' = FALSE
  /\ UNCHANGED <<photo, rows, job, ended, pc, held, scratch, inHand, sent, edits, crashes>>
--------------------------------------------------------------------------------
(* The owner of the wardrobe, at any moment. *)

Edit(i, r) ==
  /\ i \in Active /\ edits < MaxEdits
  /\ edits' = edits + 1
  /\ rows' = [rows EXCEPT ![i] = r]
  /\ UNCHANGED <<photo, pipeline, sent, crashes, faults>>

\* PATCH /garments/{id}/fields
Correct(i, f) ==
  Edit(i, [rows[i] EXCEPT !.by[f] = "user", !.verified = @ \cup {f},
                          !.review = FALSE, !.why = {}])

\* DELETE /garments/{id}
Remove(i) == Edit(i, [rows[i] EXCEPT !.active = FALSE])

\* POST /garments/{id}/duplicate-resolution: "different" or "same".
Resolve(i) ==
  /\ rows[i].state = "duplicate_suspect"
  /\ \/ Edit(i, [rows[i] EXCEPT !.state = "matted", !.dup = FALSE, !.answered = TRUE])
     \/ Edit(i, [rows[i] EXCEPT !.active = FALSE, !.answered = TRUE])
--------------------------------------------------------------------------------
Read ==
  \/ ReadModerate \/ ReadSegment \/ ReadMatte \/ ReadClassify
  \/ ReadTag \/ ReadEmbed \/ ReadDedupe

Work ==
  \/ Validate \/ Sanitise \/ WriteModerate \/ WriteSegment \/ WriteMatte \/ WriteClassify
  \/ TagRefused \/ TagUnusable \/ WriteTag \/ WriteEmbed \/ WriteDedupe \/ Persist

User ==
  \E i \in DOMAIN rows :
    \/ \E f \in Fields : Correct(i, f)
    \/ Remove(i)
    \/ Resolve(i)

Next ==
  \/ Read \/ Work \/ Advance \/ Mark
  \/ StageFails \/ Crash \/ LoseIntermediate
  \/ User

Spec == Init /\ [][Next]_vars
--------------------------------------------------------------------------------
Sources == {"nobody", "model", "user"}
Rows ==
  [piece : Pieces,
   state : OffRamps \cup {"received", "segmented", "matted", "classified", "tagged",
                          "embedded", "deduped", "duplicate_suspect"},
   active : BOOLEAN, cut : BOOLEAN, emb : BOOLEAN, by : [Fields -> Sources],
   verified : SUBSET Fields, review : BOOLEAN, dup : BOOLEAN,
   why : SUBSET {"moderation", "cutout", "colour", "tags"}, answered : BOOLEAN]

Complete == pc = "over" /\ ended = "no"

(* The split is whole: when the job completes, each garment it found has a *)
(* row with a cutout and an embedding, whatever stage was run again from   *)
(* whatever records, unless the user took the garment out; of one garment  *)
(* there is one row, and at most one more for every worker lost (segment.py *)
(* inserts the secondary garments under fresh ids each time it runs); and  *)
(* no row goes into the wardrobe half-made but what such a repeat left.    *)
SplitIsWhole ==
  /\ Complete => \A p \in photo.shows :
       \E i \in DOMAIN rows :
         rows[i].piece = p /\ ((rows[i].cut /\ rows[i].emb) \/ ~rows[i].active)
  /\ \A p \in Pieces : Cardinality({i \in DOMAIN rows : rows[i].piece = p}) <= 1 + crashes
  /\ Complete /\ crashes = 0 => \A i \in Active : rows[i].cut /\ rows[i].emb

(* What a stage has found wrong reaches the user.  A known duplicate is put *)
(* as one when the job completes, though a worker lost after embed costs   *)
(* the matches by embedding (dedupe.py does not read the vectors back);    *)
(* and what matte, classify or tag flagged stays flagged, through restarts *)
(* and later stages, until the user has looked or matte starts afresh.     *)
FlagsReachTheUser ==
  /\ Complete => \A i \in Active :
       /\ rows[i].cut /\ rows[i].emb /\ ~rows[i].answered
       /\ rows[i].piece \in HashTwins \/ (rows[i].piece \in VectorTwins /\ crashes = 0)
       => rows[i].state = "duplicate_suspect" /\ rows[i].dup
  /\ \A i \in DOMAIN rows :
       \/ "cutout" \in rows[i].why /\ job >= MATTE
       \/ "colour" \in rows[i].why /\ job >= CLASSIFY
       \/ "tags" \in rows[i].why /\ job >= TAG
       => rows[i].review

(* From classify on no stage overwrites what the user has corrected, also  *)
(* when the correction lands while the model call is out (tag.py,          *)
(* _keep_if_verified).                                                     *)
CorrectionsKept ==
  [][\A i \in DOMAIN rows : job >= CLASSIFY =>
       \A f \in rows[i].verified : rows[i].by[f] = "user" => rows'[i].by[f] = "user"]_vars

(* A quarantined photo makes no external call and yields no cutout         *)
(* (moderate.py), whatever is run again.                                   *)
QuarantineContained ==
  photo.verdict = "quarantine" => sent = {} /\ \A i \in DOMAIN rows : ~rows[i].cut

================================================================================
