---------------------------- MODULE PhotoRowsProofs ----------------------------
(***************************************************************************)
(* Proofs about the rows of one photo, for any garments on it and any      *)
(* number of edits, crashes and faults: moderation's verdict holds it back *)
(* (QuarantineHolds), its split is whole (SplitsAreWhole), what the stages *)
(* found wrong is shown to the user (FlagsAreNotLost), and his corrections *)
(* stay (CorrectionsAreKept).  The first has an invariant of its own; the  *)
(* others rest on PhotoInv, which says for each stage what its records and *)
(* the rows have between them.                                             *)
(***************************************************************************)
EXTENDS PhotoRows, FiniteSetTheorems, TLAPS

\* A quarantined photo is stopped at its third stage: nothing after it has run,
\* so there is the job's own row and nothing in it comes from a model's cutout.
Stopped ==
  /\ job \in 0..2
  /\ pc = "wrote" => job < 2
  /\ pc = "mark" => ended \in OffRamps
  /\ rows \in [{1} -> Rows]
  /\ ~rows[1].cut
  /\ sent = {}

IInv == photo.verdict = "quarantine" => Stopped

LEMMA InitInv == Init => IInv
<1> SUFFICES ASSUME Init PROVE Stopped
  BY DEF IInv
<1>1. NewRow(Primary) \in Rows /\ ~NewRow(Primary).cut
  BY DEF NewRow, Rows, Pieces, Sources, Fields
<1>2. rows = [i \in {1} |-> NewRow(Primary)]
  BY DEF Init
<1> QED
  BY <1>1, <1>2 DEF Init, Stopped

\* The rows may change as long as the one row stays a row without a cutout.
LEMMA RowsKeep ==
  ASSUME Stopped, job' \in 0..2, pc' = "wrote" => job' < 2,
         pc' = "mark" => ended' \in OffRamps, sent' = sent,
         rows' \in [{1} -> Rows], rows'[1].cut = rows[1].cut
  PROVE  Stopped'
BY DEF Stopped

LEMMA PipelineKeeps ==
  ASSUME Stopped, job' \in 0..2, pc' = "wrote" => job' < 2,
         pc' = "mark" => ended' \in OffRamps, sent' = sent, rows' = rows
  PROVE  Stopped'
BY DEF Stopped

LEMMA ReadKeeps == ASSUME Stopped, Read PROVE Stopped'
<1>1. ReadModerate
  BY DEF Read, ReadSegment, ReadMatte, ReadClassify, ReadTag, ReadEmbed, ReadDedupe, At,
         Stopped, SEGMENT, MATTE, CLASSIFY, TAG, EMBED, DEDUPE
<1>2. rows' = rows /\ sent' = sent /\ LoadImage(NoRecords)
  BY <1>1 DEF ReadModerate, Quiet
<1>3. CASE inHand \/ onDisk
  <2>1. pc' = "read" /\ job' = job
    BY <1>2, <1>3 DEF LoadImage, Take, Goto
  <2> QED
    BY <1>2, <2>1, PipelineKeeps DEF Stopped
<1>4. CASE ~(inHand \/ onDisk)
  <2>1. pc' = "mark" /\ job' = job /\ ended' = "rejected"
    BY <1>2, <1>4 DEF LoadImage, Terminal
  <2> QED
    BY <1>2, <2>1, PipelineKeeps DEF Stopped, OffRamps
<1> QED
  BY <1>3, <1>4

LEMMA WorkKeeps ==
  ASSUME Stopped, photo.verdict = "quarantine", Work PROVE Stopped'
<1>1. Validate \/ Sanitise \/ WriteModerate
  <2>1. /\ ~At(SEGMENT, "read") /\ ~At(MATTE, "read") /\ ~At(CLASSIFY, "read")
        /\ ~At(TAG, "read") /\ ~At(EMBED, "read") /\ ~At(DEDUPE, "read")
        /\ ~At(PERSIST, "ready")
    BY DEF At, Stopped, SEGMENT, MATTE, CLASSIFY, TAG, EMBED, DEDUPE, PERSIST
  <2>2. ~WriteSegment
    BY <2>1 DEF WriteSegment
  <2>3. ~WriteMatte
    BY <2>1 DEF WriteMatte
  <2>4. ~WriteClassify
    BY <2>1 DEF WriteClassify
  <2>5. ~TagRefused /\ ~TagUnusable /\ ~WriteTag
    BY <2>1 DEF TagRefused, TagUnusable, WriteTag
  <2>6. ~WriteEmbed /\ ~WriteDedupe /\ ~Persist
    BY <2>1 DEF WriteEmbed, WriteDedupe, Persist
  <2> QED
    BY <2>2, <2>3, <2>4, <2>5, <2>6 DEF Work
<1>2. CASE Validate
  BY <1>2, PipelineKeeps
     DEF Validate, At, VALIDATE, Done, Terminal, Goto, Quiet, Stopped, OffRamps
<1>3. CASE Sanitise
  BY <1>3, PipelineKeeps DEF Sanitise, At, SANITISE, Goto, Quiet, Stopped
<1>4. CASE WriteModerate
  <2>1. /\ rows' = [i \in DOMAIN rows |-> Flag(rows[i], "moderation", FALSE)]
        /\ Terminal("quarantined") /\ Quiet
    BY <1>4 DEF WriteModerate
  <2>2. rows[1] \in Rows /\ DOMAIN rows = {1}
    BY DEF Stopped
  <2>3. Flag(rows[1], "moderation", FALSE) \in Rows
        /\ Flag(rows[1], "moderation", FALSE).cut = rows[1].cut
    BY <2>2 DEF Flag, Because, Rows
  <2>4. rows' \in [{1} -> Rows] /\ rows'[1].cut = rows[1].cut
    BY <2>1, <2>2, <2>3
  <2> QED
    BY <2>1, <2>4, RowsKeep DEF Terminal, Quiet, OffRamps, Stopped
<1> QED
  BY <1>1, <1>2, <1>3, <1>4

LEMMA MarkKeeps == ASSUME Stopped, Mark PROVE Stopped'
<1>1. rows' = [rows EXCEPT ![1].state = ended] /\ ended \in OffRamps /\ rows[1] \in Rows
      /\ DOMAIN rows = {1}
  BY DEF Mark, Stopped
<1>2. rows'[1] \in Rows /\ rows'[1].cut = rows[1].cut
  BY <1>1 DEF Rows
<1>3. rows' \in [{1} -> Rows]
  BY <1>1, <1>2
<1> QED
  BY <1>2, <1>3, RowsKeep DEF Mark, Quiet, Stopped

LEMMA UserKeeps == ASSUME Stopped, User PROVE Stopped'
<1> PICK i \in DOMAIN rows : (\E f \in Fields : Correct(i, f)) \/ Remove(i) \/ Resolve(i)
  BY DEF User
<1>1. i = 1 /\ rows[1] \in Rows /\ DOMAIN rows = {1}
  BY DEF Stopped
<1>2. ASSUME NEW r, Edit(1, r), r \in Rows, r.cut = rows[1].cut
      PROVE  Stopped'
  <2>1. rows' \in [{1} -> Rows] /\ rows'[1].cut = rows[1].cut
    BY <1>1, <1>2 DEF Edit
  <2> QED
    BY <1>2, <2>1, RowsKeep DEF Edit, pipeline, Stopped
<1>3. ASSUME NEW f \in Fields, Correct(i, f) PROVE Stopped'
  <2> DEFINE r == [rows[1] EXCEPT !.by[f] = "user", !.verified = @ \cup {f},
                                  !.review = FALSE, !.why = {}]
  <2>1. r \in Rows /\ r.cut = rows[1].cut
    BY <1>1, <1>3 DEF Rows, Sources
  <2> HIDE DEF r
  <2> QED
    BY <1>1, <1>2, <1>3, <2>1 DEF Correct, r
<1>4. CASE Remove(i)
  <2>1. [rows[1] EXCEPT !.active = FALSE] \in Rows
        /\ [rows[1] EXCEPT !.active = FALSE].cut = rows[1].cut
    BY <1>1 DEF Rows
  <2> QED
    BY <1>1, <1>2, <1>4, <2>1 DEF Remove
<1>5. CASE Resolve(i)
  <2> DEFINE r == [rows[1] EXCEPT !.state = "matted", !.dup = FALSE, !.answered = TRUE]
             s == [rows[1] EXCEPT !.active = FALSE, !.answered = TRUE]
  <2>1. r \in Rows /\ r.cut = rows[1].cut /\ s \in Rows /\ s.cut = rows[1].cut
    BY <1>1 DEF Rows
  <2>2. Edit(1, r) \/ Edit(1, s)
    BY <1>1, <1>5 DEF Resolve
  <2> HIDE DEF r, s
  <2> QED
    BY <1>2, <2>1, <2>2
<1> QED
  BY <1>3, <1>4, <1>5

LEMMA PhotoConstant == [Next]_vars => photo' = photo
<1> USE DEF Quiet
<1>1. Read => photo' = photo
  BY DEF Read, ReadModerate, ReadSegment, ReadMatte, ReadClassify, ReadTag, ReadEmbed, ReadDedupe
<1>2. Work => photo' = photo
  BY DEF Work, Validate, Sanitise, WriteModerate, WriteSegment, WriteMatte, WriteClassify,
         TagRefused, TagUnusable, WriteTag, WriteEmbed, WriteDedupe, Persist
<1>3. User => photo' = photo
  BY DEF User, Correct, Remove, Resolve, Edit
<1>4. Advance \/ Mark \/ StageFails \/ Crash \/ LoseIntermediate => photo' = photo
  BY DEF Advance, Mark, StageFails, Crash, LoseIntermediate
<1> QED
  BY <1>1, <1>2, <1>3, <1>4 DEF Next, vars

LEMMA Inductive == Spec => []IInv
<1>1. ASSUME IInv, [Next]_vars PROVE IInv'
  <2> SUFFICES ASSUME photo.verdict = "quarantine", Stopped PROVE Stopped'
    BY <1>1, PhotoConstant DEF IInv
  <2>1. CASE Advance
    BY <2>1, PipelineKeeps DEF Advance, Quiet, Stopped, PERSIST
  <2>2. CASE StageFails
    BY <2>2, PipelineKeeps DEF StageFails, Stopped
  <2>3. CASE Crash
    BY <2>3, PipelineKeeps DEF Crash, Stopped
  <2>4. CASE LoseIntermediate
    BY <2>4, PipelineKeeps DEF LoseIntermediate, Stopped
  <2>5. CASE UNCHANGED vars
    BY <2>5, PipelineKeeps DEF vars, pipeline, Stopped
  <2> QED
    BY <1>1, <2>1, <2>2, <2>3, <2>4, <2>5, ReadKeeps, WorkKeeps, MarkKeeps, UserKeeps DEF Next
<1> QED
  BY InitInv, <1>1, PTL DEF Spec

(* A photo that moderation quarantines is never sent to the vision model   *)
(* and never yields a cutout (moderate.py), with any number of garments on *)
(* it, and any number of workers lost, stages repeated and edits made.     *)
THEOREM QuarantineHolds == Spec => []QuarantineContained
<1>1. IInv => QuarantineContained
  BY DEF IInv, Stopped, QuarantineContained
<1> QED
  BY Inductive, <1>1, PTL
--------------------------------------------------------------------------------
Photos == [valid : BOOLEAN, verdict : {"ok", "review", "quarantine"},
           shows : {{}} \cup {{Primary} \cup E : E \in SUBSET Extra}, dark : SUBSET Pieces]

\* The records in hand are of rows.
Recorded(recs, rs) ==
  DOMAIN recs \subseteq DOMAIN rs /\ \A i \in DOMAIN recs : recs[i] \in Records

PhotoTyped ==
  /\ photo \in Photos
  /\ rows \in Seq(Rows) /\ Len(rows) >= 1
  /\ Recorded(held, rows) /\ Recorded(scratch, rows)
  /\ crashes \in Nat

StageTyped ==
  /\ job \in 0..10 /\ pc \in {"ready", "read", "wrote", "mark", "over"}
  /\ ended \in OffRamps \cup {"no", "dlq"}
  /\ pc = "mark" => ended \in OffRamps
  /\ pc \in {"ready", "read", "wrote"} => ended = "no" /\ job < 10
  /\ pc = "over" /\ ended = "no" => job = 10
  /\ pc = "mark" => held = NoRecords
  /\ ended = "degraded_tagged" => job = 6

\* Stage k has written, or more than that.
Past(k) == job >= k \/ (job = k - 1 /\ pc = "wrote")

\* Of a secondary garment there is one row for each time segment has written.
Of(rs, p) == {i \in DOMAIN rs : rs[i].piece = p}
Repeats(rs, n) ==
  /\ rs[1].piece = Primary /\ \A i \in DOMAIN rs : i # 1 => rs[i].piece \in Extra
  /\ \A p \in Extra : Cardinality(Of(rs, p)) <= n
Counted == Repeats(rows, crashes + (IF Past(SEGMENT) THEN 1 ELSE 0))

\* Every garment in G has a row the user took out or one the next stage works on.
Covers(G, rs, D) ==
  \A p \in G : \E i \in DOMAIN rs : rs[i].piece = p /\ (rs[i].active => i \in D)
CoversCut(G, rs, D) ==
  \A p \in G : \E i \in DOMAIN rs :
    rs[i].piece = p /\ (rs[i].active => rs[i].cut /\ i \in D)
CoversMade(G, rs) ==
  \A p \in G : \E i \in DOMAIN rs :
    rs[i].piece = p /\ (rs[i].active => rs[i].cut /\ rs[i].emb)

Covered ==
  /\ Past(SEGMENT) => Covers(photo.shows, rows, DOMAIN rows)
  /\ job = 3 /\ pc = "wrote" => Covers(photo.shows, rows, DOMAIN held)
  /\ job = 4 /\ scratch # NoRecords => Covers(photo.shows, rows, DOMAIN scratch)
  /\ job = 4 /\ pc = "read" => Covers(photo.shows, rows, DOMAIN held)
  /\ Past(MATTE) => CoversCut(photo.shows, rows, DOMAIN rows)
  /\ job = 4 /\ pc = "wrote" => CoversCut(photo.shows, rows, DOMAIN held)
  /\ job \in 5..7 /\ scratch # NoRecords => CoversCut(photo.shows, rows, DOMAIN scratch)
  /\ job \in {5, 7} /\ pc \in {"read", "wrote"} => CoversCut(photo.shows, rows, DOMAIN held)
  /\ job = 6 /\ pc = "wrote" => held = scratch
  /\ Past(EMBED) => CoversMade(photo.shows, rows)

\* Until a worker is lost, the stages work on all the rows.
Whole ==
  crashes = 0 =>
    /\ ~Past(SEGMENT) => Len(rows) = 1
    /\ job = 3 /\ pc = "wrote" => DOMAIN held = DOMAIN rows
    /\ job \in 4..7 => DOMAIN scratch = DOMAIN rows
    /\ job \in {4, 5, 7} /\ pc \in {"read", "wrote"} => DOMAIN held = DOMAIN rows
    /\ Past(MATTE) => \A i \in DOMAIN rows : rows[i].cut
    /\ job = 4 /\ pc = "wrote" => AllCut(held)
    /\ job \in 5..7 => AllCut(scratch)
    /\ job \in {5, 7} /\ pc \in {"read", "wrote"} => AllCut(held)
    /\ Past(EMBED) => \A i \in DOMAIN rows : rows[i].emb

\* What was embedded is compared with the wardrobe.
Made(r) == r.active /\ r.cut /\ r.emb
Put(r) == r.state = "duplicate_suspect" /\ r.dup
Twin(r, lost) == r.piece \in HashTwins \/ (r.piece \in VectorTwins /\ lost = 0)

Compared ==
  /\ (\E i \in DOMAIN rows : rows[i].emb) =>
       job >= 8 \/ (job = 7 /\ (pc = "wrote" \/ scratch = NoRecords))
  /\ job = 7 /\ pc \in {"read", "wrote"} =>
       /\ \A i \in DOMAIN rows : Made(rows[i]) => i \in DOMAIN held
       /\ AllCut(held)
       /\ pc = "wrote" => \A i \in DOMAIN held : held[i].vec
  /\ job = 8 => \A i \in DOMAIN rows : Made(rows[i]) =>
       IF scratch = NoRecords THEN crashes > 0
       ELSE i \in DOMAIN scratch /\ scratch[i].cut /\ scratch[i].vec
  /\ job = 8 /\ pc = "read" => \A i \in DOMAIN rows : Made(rows[i]) =>
       i \in DOMAIN held /\ held[i].cut /\ (held[i].vec \/ crashes > 0)
  /\ Past(DEDUPE) /\ ended = "no" => \A i \in DOMAIN rows :
       Made(rows[i]) /\ ~rows[i].answered /\ Twin(rows[i], crashes) => Put(rows[i])

\* What a stage found is on the row, and in the record classify assigns from.
Concerned(r) == r.why \cap {"cutout", "colour", "tags"} # {}
Told(rs, recs) == \A i \in DOMAIN recs : Concerned(rs[i]) => recs[i].review
Flagged ==
  /\ \A i \in DOMAIN rows : Concerned(rows[i]) => rows[i].review
  /\ job = 4 /\ pc = "wrote" => held # NoRecords /\ Told(rows, held)
  /\ job = 5 /\ pc \in {"ready", "read"} => Told(rows, scratch)
  /\ job = 5 /\ pc = "read" => Told(rows, held)

PhotoInv == PhotoTyped /\ StageTyped /\ Counted /\ Covered /\ Whole /\ Compared /\ Flagged

--------------------------------------------------------------------------------
\* The rows still show the same garments, and none is less made than it was.
Grown(rs, qs) ==
  /\ DOMAIN qs = DOMAIN rs
  /\ \A i \in DOMAIN rs :
       /\ qs[i].piece = rs[i].piece
       /\ qs[i].active => rs[i].active
       /\ rs[i].cut => qs[i].cut
       /\ rs[i].emb => qs[i].emb

\* ... nor more.
Alike(rs, qs) ==
  /\ Grown(rs, qs)
  /\ \A i \in DOMAIN rs : qs[i].cut = rs[i].cut /\ qs[i].emb = rs[i].emb

LEMMA CoversStay ==
  ASSUME NEW rs, NEW qs, NEW G, NEW D, Grown(rs, qs)
  PROVE  /\ Covers(G, rs, D) => Covers(G, qs, D)
         /\ CoversCut(G, rs, D) => CoversCut(G, qs, D)
         /\ CoversMade(G, rs) => CoversMade(G, qs)
<1>1. Covers(G, rs, D) => Covers(G, qs, D)
  BY DEF Covers, Grown
<1>2. CoversCut(G, rs, D) => CoversCut(G, qs, D)
  BY DEF CoversCut, Grown
<1>3. CoversMade(G, rs) => CoversMade(G, qs)
  BY DEF CoversMade, Grown
<1> QED
  BY <1>1, <1>2, <1>3

LEMMA RepeatsStay ==
  ASSUME NEW rs, NEW qs, NEW m, NEW n, Grown(rs, qs), 1 \in DOMAIN rs,
         Repeats(rs, m), m \in Nat, n \in Nat, m <= n,
         \A p \in Extra : Cardinality(Of(rs, p)) \in Nat
  PROVE  Repeats(qs, n)
<1>1. \A p : Of(qs, p) = Of(rs, p)
  BY DEF Of, Grown
<1>2. \A p \in Extra : Cardinality(Of(qs, p)) <= n
  BY <1>1 DEF Repeats
<1> QED
  BY <1>2 DEF Repeats, Grown

LEMMA OfFinite ==
  ASSUME PhotoTyped, NEW p
  PROVE  IsFiniteSet(Of(rows, p)) /\ Cardinality(Of(rows, p)) \in Nat
<1>1. Of(rows, p) \subseteq 1..Len(rows) /\ Len(rows) \in Nat
  BY DEF Of, PhotoTyped
<1>2. IsFiniteSet(1..Len(rows))
  BY <1>1, FS_Interval
<1> QED
  BY <1>1, <1>2, FS_Subset, FS_CardinalityType

LEMMA CountedStays ==
  ASSUME PhotoTyped, Counted, Grown(rows, rows'), StageTyped, StageTyped',
         \/ crashes' = crashes /\ (Past(SEGMENT) => Past(SEGMENT)')
         \/ crashes' = crashes + 1
  PROVE  Counted'
<1> DEFINE m == crashes + (IF Past(SEGMENT) THEN 1 ELSE 0)
           n == crashes' + (IF Past(SEGMENT)' THEN 1 ELSE 0)
<1>1. m \in Nat /\ n \in Nat /\ m <= n
  BY DEF PhotoTyped
<1>2. 1 \in DOMAIN rows /\ \A p \in Extra : Cardinality(Of(rows, p)) \in Nat
  BY OfFinite DEF PhotoTyped
<1>3. Repeats(rows, m)
  BY DEF Counted
<1> HIDE DEF m, n
<1>4. Repeats(rows', n)
  BY <1>1, <1>2, <1>3, RepeatsStay
<1> QED
  BY <1>4 DEF Counted, n

\* Records are of the rows there still are.
LEMMA RecordedStays ==
  ASSUME NEW recs, NEW rs, NEW qs, Recorded(recs, rs), DOMAIN rs \subseteq DOMAIN qs
  PROVE  Recorded(recs, qs)
BY DEF Recorded

LEMMA NothingRecorded == ASSUME NEW rs PROVE Recorded(NoRecords, rs)
BY DEF Recorded, NoRecords

\* A stage that stops, fails or goes off the ramp with its work undone.
LEMMA Rest ==
  ASSUME PhotoInv, photo' = photo, rows' \in Seq(Rows), Alike(rows, rows'), job' = job,
         scratch' = scratch, crashes' = crashes, held' = NoRecords,
         pc \in {"ready", "read", "mark"}, pc' \in {"ready", "mark", "over"}, StageTyped',
         \A i \in DOMAIN rows' : Concerned(rows'[i]) => rows'[i].review,
         pc' = "ready" => rows' = rows /\ pc \in {"ready", "read"},
         ended' = "no" => rows' = rows /\ ended = "no"
  PROVE  PhotoInv'
<1>0. Grown(rows, rows') /\ DOMAIN rows' = DOMAIN rows
  BY DEF Alike, Grown
<1>1. PhotoTyped'
  <2>1. Len(rows') >= 1
    BY <1>0 DEF PhotoInv, PhotoTyped
  <2> QED
    BY <1>0, <2>1, RecordedStays, NothingRecorded DEF PhotoInv, PhotoTyped
<1>2. \A k : Past(k)' => Past(k)
  BY DEF Past
<1>2a. \A k : Past(k) => Past(k)'
  BY DEF Past
<1>3. Counted'
  BY <1>0, <1>2a, CountedStays DEF PhotoInv
<1>4. Covered'
  BY <1>0, <1>2, CoversStay DEF PhotoInv, Covered
<1>5. Whole'
  BY <1>0, <1>2, <1>2a DEF PhotoInv, Whole, Alike, PhotoTyped
<1>6. Compared'
  <2>1. \A i \in DOMAIN rows : Made(rows'[i]) => Made(rows[i])
    BY DEF Made, Alike, Grown
  <2> QED
    BY <1>0, <1>2, <2>1 DEF PhotoInv, Compared, Alike
<1>7. Flagged'
  BY <1>0 DEF PhotoInv, Flagged, NoRecords
<1> QED
  BY <1>1, <1>3, <1>4, <1>5, <1>6, <1>7 DEF PhotoInv

\* The rows are edited and the pipeline left alone.
LEMMA Aside ==
  ASSUME PhotoInv, photo' = photo, rows' \in Seq(Rows), Alike(rows, rows'), job' = job,
         scratch' = scratch, crashes' = crashes, held' = held, pc' = pc, ended' = ended,
         \A i \in DOMAIN rows : Concerned(rows'[i]) =>
           Concerned(rows[i]) /\ rows'[i].review = rows[i].review,
         \A i \in DOMAIN rows : rows'[i].active /\ ~rows'[i].answered =>
           ~rows[i].answered /\ (Put(rows[i]) => Put(rows'[i]))
  PROVE  PhotoInv'
<1>0. Grown(rows, rows') /\ DOMAIN rows' = DOMAIN rows
  BY DEF Alike, Grown
<1>1. PhotoTyped'
  <2>1. Len(rows') >= 1
    BY <1>0 DEF PhotoInv, PhotoTyped
  <2> QED
    BY <1>0, <2>1, RecordedStays DEF PhotoInv, PhotoTyped
<1>2. \A k : Past(k)' <=> Past(k)
  BY DEF Past
<1>2a. StageTyped'
  BY DEF PhotoInv, StageTyped
<1>3. Counted'
  BY <1>0, <1>2, <1>2a, CountedStays DEF PhotoInv
<1>4. Covered'
  BY <1>0, <1>2, CoversStay DEF PhotoInv, Covered
<1>5. Whole'
  BY <1>0, <1>2 DEF PhotoInv, Whole, Alike, PhotoTyped
<1>6. Compared'
  <2>1. \A i \in DOMAIN rows : Made(rows'[i]) => Made(rows[i])
    BY DEF Made, Alike, Grown
  <2>2. \A i \in DOMAIN rows : Twin(rows'[i], crashes) => Twin(rows[i], crashes)
    BY <1>0 DEF Twin, Grown
  <2>3. (Past(DEDUPE) /\ ended = "no" => \A i \in DOMAIN rows :
          Made(rows[i]) /\ ~rows[i].answered /\ Twin(rows[i], crashes) => Put(rows[i]))'
    BY <1>0, <1>2, <2>1, <2>2 DEF PhotoInv, Compared, Made
  <2> QED
    BY <1>0, <2>1, <2>3 DEF PhotoInv, Compared, Alike
<1>7. Flagged'
  BY <1>0 DEF PhotoInv, Flagged, Told, Recorded, PhotoTyped
<1> QED
  BY <1>1, <1>2a, <1>3, <1>4, <1>5, <1>6, <1>7 DEF PhotoInv

\* A stage has read its records.
LEMMA Reading ==
  ASSUME PhotoInv, photo' = photo, rows' = rows, job' = job, scratch' = scratch,
         crashes' = crashes, pc = "ready", pc' = "read", ended' = ended,
         Recorded(held', rows),
         job = 4 => /\ Covers(photo.shows, rows, DOMAIN held')
                    /\ crashes = 0 => DOMAIN held' = DOMAIN rows,
         job \in {5, 7} => /\ CoversCut(photo.shows, rows, DOMAIN held')
                           /\ crashes = 0 => DOMAIN held' = DOMAIN rows /\ AllCut(held'),
         job = 5 => Told(rows, held'),
         job = 7 => /\ \A i \in DOMAIN rows : Made(rows[i]) => i \in DOMAIN held'
                    /\ AllCut(held'),
         job = 8 => \A i \in DOMAIN rows : Made(rows[i]) =>
           i \in DOMAIN held' /\ held'[i].cut /\ (held'[i].vec \/ crashes > 0)
  PROVE  PhotoInv'
<1>1. PhotoTyped' /\ StageTyped'
  BY DEF PhotoInv, PhotoTyped, StageTyped
<1>2. \A k : Past(k)' <=> Past(k)
  BY DEF Past
<1>3. Counted'
  BY <1>2 DEF PhotoInv, Counted
<1>4. Covered'
  BY <1>2 DEF PhotoInv, Covered
<1>5. Whole'
  BY <1>2 DEF PhotoInv, Whole, AllCut
<1>6. Compared'
  BY <1>2 DEF PhotoInv, Compared, AllCut
<1>7. Flagged'
  BY DEF PhotoInv, Flagged
<1> QED
  BY <1>1, <1>3, <1>4, <1>5, <1>6, <1>7 DEF PhotoInv

\* A stage other than segment, matte and embed has written.
LEMMA Writing ==
  ASSUME PhotoInv, photo' = photo, rows' \in Seq(Rows), Alike(rows, rows'), job' = job,
         scratch' = scratch, crashes' = crashes, pc \in {"ready", "read"}, pc' = "wrote",
         ended' = ended, Recorded(held', rows), job \in {0, 1, 2, 5, 6, 8, 9},
         \A i \in DOMAIN rows' : Concerned(rows'[i]) => rows'[i].review,
         job = 5 => /\ CoversCut(photo.shows, rows, DOMAIN held')
                    /\ crashes = 0 => DOMAIN held' = DOMAIN rows /\ AllCut(held'),
         job = 6 => held' = scratch,
         job \in {8, 9} => \A i \in DOMAIN rows :
           Made(rows'[i]) /\ ~rows'[i].answered /\ Twin(rows'[i], crashes) => Put(rows'[i])
  PROVE  PhotoInv'
<1>0. Grown(rows, rows') /\ DOMAIN rows' = DOMAIN rows
  BY DEF Alike, Grown
<1>1. PhotoTyped' /\ StageTyped'
  <2>1. Len(rows') >= 1
    BY <1>0 DEF PhotoInv, PhotoTyped
  <2>2. PhotoTyped'
    BY <1>0, <2>1, RecordedStays DEF PhotoInv, PhotoTyped
  <2> QED
    BY <2>2 DEF PhotoInv, StageTyped
<1>2. \A k : Past(k) => Past(k)'
  BY DEF Past
<1>3. Past(SEGMENT)' = Past(SEGMENT) /\ (Past(MATTE)' => Past(MATTE))
      /\ (Past(EMBED)' => Past(EMBED)) /\ (Past(DEDUPE)' => job \in {8, 9})
  BY DEF Past, SEGMENT, MATTE, EMBED, DEDUPE
<1>4. Counted'
  BY <1>0, <1>1, <1>2, CountedStays DEF PhotoInv
<1>5. Covered'
  <2>1. CoversMade(photo.shows, rows) => CoversMade(photo.shows, rows')
    BY <1>0, CoversStay
  <2>2. job # 3 /\ job # 4 /\ job # 7
    OBVIOUS
  <2>3. job = 5 => CoversCut(photo.shows, rows', DOMAIN held')
    BY <1>0, CoversStay
  <2>4. Past(SEGMENT)' => Covers(photo.shows, rows', DOMAIN rows')
    BY <1>0, <1>3, CoversStay DEF PhotoInv, Covered
  <2>5. Past(MATTE)' => CoversCut(photo.shows, rows', DOMAIN rows')
    BY <1>0, <1>3, CoversStay DEF PhotoInv, Covered
  <2>6. Past(EMBED)' => CoversMade(photo.shows, rows')
    BY <1>3, <2>1 DEF PhotoInv, Covered
  <2>7. job' \in 5..7 /\ scratch' # NoRecords => CoversCut(photo.shows, rows', DOMAIN scratch')
    BY <1>0, CoversStay DEF PhotoInv, Covered
  <2> QED
    BY <2>2, <2>3, <2>4, <2>5, <2>6, <2>7 DEF Covered
<1>6. Whole'
  BY <1>0, <1>3 DEF PhotoInv, Whole, Alike, PhotoTyped, AllCut
<1>7. Compared'
  <2>1. \A i \in DOMAIN rows : Made(rows'[i]) => Made(rows[i])
    BY DEF Made, Alike, Grown
  <2> QED
    BY <1>0, <1>3, <2>1 DEF PhotoInv, Compared, Alike
<1>8. Flagged'
  BY <1>0 DEF PhotoInv, Flagged
<1> QED
  BY <1>1, <1>4, <1>5, <1>6, <1>7, <1>8 DEF PhotoInv

\* What a stage reads from the table.
LEMMA TableRecords ==
  ASSUME PhotoTyped, NEW S, S \subseteq DOMAIN rows
  PROVE  /\ Recorded(FromTable(S), rows) /\ DOMAIN FromTable(S) = S
         /\ \A i \in S : FromTable(S)[i].cut = rows[i].cut /\ FromTable(S)[i].review = rows[i].review
<1>1. \A i \in S : rows[i] \in Rows
  BY DEF PhotoTyped
<1> QED
  BY <1>1 DEF Recorded, FromTable, Records, Rows

\* Classify and embed work on what has a cutout.
LEMMA CutReading ==
  ASSUME PhotoInv, Past(MATTE), job \in {5, 7}
  PROVE  /\ Recorded(CutRecords, rows) /\ AllCut(CutRecords)
         /\ CoversCut(photo.shows, rows, DOMAIN CutRecords)
         /\ crashes = 0 => DOMAIN CutRecords = DOMAIN rows
         /\ (CutRecords = scratch /\ scratch # NoRecords) \/ CutRecords = FromTable(WithCutout)
<1>1. CASE scratch # NoRecords /\ AllCut(scratch)
  <2>1. CutRecords = scratch
    BY <1>1 DEF CutRecords
  <2> QED
    BY <1>1, <2>1 DEF PhotoInv, Covered, Whole, PhotoTyped
<1>2. CASE ~(scratch # NoRecords /\ AllCut(scratch))
  <2>1. CutRecords = FromTable(WithCutout)
    BY <1>2 DEF CutRecords
  <2>2. WithCutout \subseteq DOMAIN rows
    BY DEF WithCutout, Active
  <2>3. Recorded(CutRecords, rows) /\ DOMAIN CutRecords = WithCutout /\ AllCut(CutRecords)
    BY <2>1, <2>2, TableRecords DEF PhotoInv, AllCut, WithCutout
  <2>4. CoversCut(photo.shows, rows, WithCutout)
    BY DEF PhotoInv, Covered, CoversCut, WithCutout, Active
  <2>5. crashes # 0
    <3> SUFFICES ASSUME crashes = 0 PROVE FALSE
      OBVIOUS
    <3>1. AllCut(scratch) /\ DOMAIN scratch = DOMAIN rows
      BY DEF PhotoInv, Whole
    <3>2. 1 \in DOMAIN scratch
      BY <3>1 DEF PhotoInv, PhotoTyped
    <3>3. DOMAIN NoRecords = {}
      BY DEF NoRecords
    <3> QED
      BY <1>2, <3>1, <3>2, <3>3
  <2> QED
    BY <2>1, <2>3, <2>4, <2>5
<1> QED
  BY <1>1, <1>2

\* The image is at hand, or the job goes off the ramp.
LEMMA Loading ==
  ASSUME NEW recs, LoadImage(recs)
  PROVE  \/ held' = recs /\ pc' = "read" /\ job' = job /\ ended' = ended /\ scratch' = scratch
         \/ /\ held' = NoRecords /\ pc' = "mark" /\ job' = job /\ ended' = "rejected"
            /\ scratch' = scratch
BY DEF LoadImage, Take, Goto, Terminal

LEMMA GivenUp ==
  ASSUME PhotoInv, photo' = photo, rows' = rows, crashes' = crashes, pc \in {"ready", "read"},
         held' = NoRecords, pc' = "mark", job' = job, scratch' = scratch,
         ended' \in OffRamps, ended' # "degraded_tagged"
  PROVE  PhotoInv'
<1>1. Alike(rows, rows')
  BY DEF Alike, Grown
<1>2. StageTyped'
  BY DEF PhotoInv, StageTyped
<1>3. ended' # "no"
  BY DEF OffRamps
<1> QED
  BY <1>1, <1>2, <1>3, Rest DEF PhotoInv, PhotoTyped, Flagged

LEMMA ReadsKeep == ASSUME PhotoInv, Read PROVE PhotoInv'
<1> USE DEF Quiet, bounds
<1>1. CASE ReadModerate
  <2>1. /\ photo' = photo /\ rows' = rows /\ crashes' = crashes /\ pc = "ready" /\ job = 2
        /\ LoadImage(NoRecords)
    BY <1>1 DEF ReadModerate, At, MODERATE
  <2> QED
    BY <2>1, Loading, NothingRecorded, Reading, GivenUp DEF OffRamps
<1>2. CASE ReadSegment
  <2>1. /\ photo' = photo /\ rows' = rows /\ crashes' = crashes /\ pc = "ready" /\ job = 3
        /\ LoadImage(NoRecords)
    BY <1>2 DEF ReadSegment, At, SEGMENT
  <2> QED
    BY <2>1, Loading, NothingRecorded, Reading, GivenUp DEF OffRamps
<1>3. CASE ReadMatte
  <2> DEFINE recs == IF scratch # NoRecords THEN scratch ELSE FromTable(Active)
  <2>1. /\ photo' = photo /\ rows' = rows /\ crashes' = crashes /\ pc = "ready" /\ job = 4
        /\ \/ Terminal("rejected") /\ held' = NoRecords
           \/ LoadImage(recs)
    BY <1>3 DEF ReadMatte, At, MATTE
  <2>2. Recorded(recs, rows) /\ Covers(photo.shows, rows, DOMAIN recs)
        /\ (crashes = 0 => DOMAIN recs = DOMAIN rows)
    <3>1. CASE scratch # NoRecords
      BY <2>1, <3>1 DEF PhotoInv, PhotoTyped, Covered, Whole
    <3>2. CASE scratch = NoRecords
      <4>1. Recorded(recs, rows) /\ DOMAIN recs = Active
        BY <3>2, TableRecords DEF PhotoInv, Active
      <4>2. Covers(photo.shows, rows, Active)
        BY <2>1 DEF PhotoInv, Covered, Past, SEGMENT, Covers, Active
      <4>3. crashes # 0
        <5>1. DOMAIN scratch = {} /\ 1 \in DOMAIN rows
          BY <3>2 DEF NoRecords, PhotoInv, PhotoTyped
        <5> QED
          BY <2>1, <5>1 DEF PhotoInv, Whole
      <4> QED
        BY <4>1, <4>2, <4>3
    <3> QED
      BY <3>1, <3>2
  <2> HIDE DEF recs
  <2>3. CASE Terminal("rejected") /\ held' = NoRecords
    BY <2>1, <2>3, GivenUp DEF Terminal, OffRamps
  <2>4. CASE LoadImage(recs)
    BY <2>1, <2>2, <2>4, Loading, Reading, GivenUp DEF OffRamps
  <2> QED
    BY <2>1, <2>3, <2>4
<1>4. CASE ReadClassify
  <2>1. /\ photo' = photo /\ rows' = rows /\ crashes' = crashes /\ pc = "ready" /\ job = 5
        /\ held' = CutRecords /\ pc' = "read" /\ job' = job /\ ended' = ended
        /\ scratch' = scratch
    BY <1>4 DEF ReadClassify, At, CLASSIFY, Take, Goto
  <2>2. Past(MATTE)
    BY <2>1 DEF Past, MATTE
  <2>3. Told(rows, CutRecords)
    <3>1. CASE CutRecords = scratch
      BY <2>1, <3>1 DEF PhotoInv, Flagged
    <3>2. CASE CutRecords = FromTable(WithCutout)
      <4>1. WithCutout \subseteq DOMAIN rows
        BY DEF WithCutout, Active
      <4> QED
        BY <3>2, <4>1, TableRecords DEF PhotoInv, Flagged, Told
    <3> QED
      BY <2>1, <2>2, <3>1, <3>2, CutReading
  <2> HIDE DEF CutRecords
  <2> QED
    BY <2>1, <2>2, <2>3, CutReading, Reading
<1>5. CASE ReadTag
  <2>1. /\ photo' = photo /\ rows' = rows /\ crashes' = crashes /\ pc = "ready" /\ job = 6
        /\ held' = FromTable(WithCutout) /\ pc' = "read" /\ job' = job /\ ended' = ended
        /\ scratch' = scratch
    BY <1>5 DEF ReadTag, At, TAG, Take, Goto
  <2>2. WithCutout \subseteq DOMAIN rows
    BY DEF WithCutout, Active
  <2>3. Recorded(held', rows)
    BY <2>1, <2>2, TableRecords DEF PhotoInv
  <2> QED
    BY <2>1, <2>3, Reading
<1>6. CASE ReadEmbed
  <2>1. /\ photo' = photo /\ rows' = rows /\ crashes' = crashes /\ pc = "ready" /\ job = 7
        /\ held' = CutRecords /\ pc' = "read" /\ job' = job /\ ended' = ended
        /\ scratch' = scratch
    BY <1>6 DEF ReadEmbed, At, EMBED, Take, Goto
  <2>2. Past(MATTE)
    BY <2>1 DEF Past, MATTE
  <2>3. \A i \in DOMAIN rows : Made(rows[i]) => i \in DOMAIN CutRecords
    <3> SUFFICES ASSUME NEW i \in DOMAIN rows, Made(rows[i]) PROVE i \in DOMAIN CutRecords
      OBVIOUS
    <3>1. scratch = NoRecords
      BY <2>1 DEF PhotoInv, Compared, Made
    <3>2. CutRecords = FromTable(WithCutout)
      BY <3>1 DEF CutRecords
    <3>3. i \in WithCutout
      BY DEF WithCutout, Active, Made
    <3> QED
      BY <3>2, <3>3 DEF FromTable
  <2> QED
    BY <2>1, <2>2, <2>3, CutReading, Reading
<1>7. CASE ReadDedupe
  <2>1. /\ photo' = photo /\ rows' = rows /\ crashes' = crashes /\ pc = "ready" /\ job = 8
        /\ held' = (IF scratch # NoRecords THEN scratch ELSE FromTable(Active))
        /\ pc' = "read" /\ job' = job /\ ended' = ended /\ scratch' = scratch
    BY <1>7 DEF ReadDedupe, At, DEDUPE, Take, Goto
  <2>2. /\ Recorded(held', rows)
        /\ \A i \in DOMAIN rows : Made(rows[i]) =>
             i \in DOMAIN held' /\ held'[i].cut /\ (held'[i].vec \/ crashes > 0)
    <3>1. CASE scratch # NoRecords
      BY <2>1, <3>1 DEF PhotoInv, PhotoTyped, Compared
    <3>2. CASE scratch = NoRecords
      <4>1. Active \subseteq DOMAIN rows /\ held' = FromTable(Active)
        BY <2>1, <3>2 DEF Active
      <4>2. Recorded(held', rows) /\ DOMAIN held' = Active
            /\ \A i \in Active : held'[i].cut = rows[i].cut
        BY <4>1, TableRecords DEF PhotoInv
      <4>3. \A i \in DOMAIN rows : Made(rows[i]) => i \in Active /\ rows[i].cut /\ crashes > 0
        BY <2>1, <3>2 DEF PhotoInv, Compared, Made, Active
      <4> QED
        BY <4>2, <4>3
    <3> QED
      BY <3>1, <3>2
  <2> QED
    BY <2>1, <2>2, Reading
<1> QED
  BY <1>1, <1>2, <1>3, <1>4, <1>5, <1>6, <1>7 DEF Read

Whys == {"moderation", "cutout", "colour", "tags"}

LEMMA RowsOf ==
  ASSUME NEW n \in Nat, NEW q \in [1..n -> Rows] PROVE q \in Seq(Rows) /\ Len(q) = n
OBVIOUS

LEMMA Joined ==
  ASSUME NEW s \in Seq(Rows), NEW t \in Seq(Rows)
  PROVE  s \o t \in Seq(Rows) /\ Len(s \o t) = Len(s) + Len(t)
OBVIOUS

LEMMA RowTyped == ASSUME PhotoTyped, NEW i \in DOMAIN rows PROVE rows[i] \in Rows
BY DEF PhotoTyped

\* The same row but for what is said of it.
Same(r, s) ==
  /\ s.piece = r.piece /\ s.active = r.active /\ s.cut = r.cut /\ s.emb = r.emb
  /\ s.answered = r.answered

LEMMA FlagRow ==
  ASSUME NEW r \in Rows, NEW reason \in Whys, NEW h \in BOOLEAN
  PROVE  /\ Flag(r, reason, h) \in Rows /\ Same(r, Flag(r, reason, h))
         /\ (Concerned(r) => r.review) =>
              (Concerned(Flag(r, reason, h)) => Flag(r, reason, h).review)
<1> DEFINE s == Flag(r, reason, h)
<1>1. s = [[r EXCEPT !.review = r.review \/ h] EXCEPT !.why =
             IF h THEN r.why \cup {reason} ELSE r.why \ {reason}]
  BY DEF Flag, Because, Rows
<1>2. s \in Rows
  <2> DEFINE t == [r EXCEPT !.review = r.review \/ h]
             w == IF h THEN r.why \cup {reason} ELSE r.why \ {reason}
  <2>1. (r.review \/ h) \in BOOLEAN
    OBVIOUS
  <2>2. t \in Rows
    BY <2>1 DEF Rows
  <2>3. w \in SUBSET {"moderation", "cutout", "colour", "tags"}
    BY DEF Rows, Whys
  <2>4. s = [t EXCEPT !.why = w]
    BY <1>1
  <2> HIDE DEF t, w, s
  <2> QED
    BY <2>2, <2>3, <2>4 DEF Rows
<1>3. Same(r, s) /\ s.review = (r.review \/ h)
      /\ s.why = (IF h THEN r.why \cup {reason} ELSE r.why \ {reason})
  BY <1>1 DEF Rows, Same
<1>4. (Concerned(r) => r.review) => (Concerned(s) => s.review)
  <2>1. CASE h
    <3>1. s.review
      BY <1>3, <2>1
    <3> QED
      BY <3>1
  <2>2. CASE ~h
    <3>1. s.why \subseteq r.why /\ s.review = r.review
      BY <1>3, <2>2 DEF Rows
    <3> HIDE DEF s
    <3> QED
      BY <3>1 DEF Concerned
  <2> QED
    BY <2>1, <2>2
<1> QED
  BY <1>2, <1>3, <1>4

\* The rows a transaction leaves, one by one.
LEMMA OneByOne ==
  ASSUME PhotoTyped, NEW qs, DOMAIN qs = DOMAIN rows, qs = [i \in DOMAIN rows |-> qs[i]],
         \A i \in DOMAIN rows : qs[i] \in Rows
  PROVE  qs \in Seq(Rows) /\ Len(qs) = Len(rows)
<1>1. Len(rows) \in Nat /\ DOMAIN rows = 1..Len(rows)
  BY DEF PhotoTyped
<1>2. qs \in [1..Len(rows) -> Rows]
  BY <1>1
<1> QED
  BY <1>1, <1>2, RowsOf

LEMMA AlikeSame ==
  ASSUME NEW rs, NEW qs, DOMAIN qs = DOMAIN rs, \A i \in DOMAIN rs : Same(rs[i], qs[i])
  PROVE  Alike(rs, qs)
BY DEF Alike, Grown, Same

LEMMA FlaggedRows ==
  ASSUME PhotoTyped, NEW S, NEW reason \in Whys, NEW h \in BOOLEAN,
         \A i \in DOMAIN rows : Concerned(rows[i]) => rows[i].review,
         NEW qs, qs = [i \in DOMAIN rows |->
                         IF i \in S THEN Flag(rows[i], reason, h) ELSE rows[i]]
  PROVE  /\ qs \in Seq(Rows) /\ Alike(rows, qs) /\ DOMAIN qs = DOMAIN rows
         /\ \A i \in DOMAIN qs : Concerned(qs[i]) => qs[i].review
<1>1. DOMAIN qs = DOMAIN rows /\ \A i \in DOMAIN rows :
        qs[i] = IF i \in S THEN Flag(rows[i], reason, h) ELSE rows[i]
  OBVIOUS
<1>2. \A i \in DOMAIN rows :
        qs[i] \in Rows /\ Same(rows[i], qs[i]) /\ (Concerned(qs[i]) => qs[i].review)
  <2> SUFFICES ASSUME NEW i \in DOMAIN rows
               PROVE  qs[i] \in Rows /\ Same(rows[i], qs[i]) /\ (Concerned(qs[i]) => qs[i].review)
    OBVIOUS
  <2>1. rows[i] \in Rows
    BY RowTyped
  <2>2. CASE i \in S
    BY <1>1, <2>1, <2>2, FlagRow
  <2>3. CASE i \notin S
    BY <1>1, <2>1, <2>3 DEF Same
  <2> QED
    BY <2>2, <2>3
<1>3. qs \in Seq(Rows)
  BY <1>1, <1>2, OneByOne
<1> QED
  BY <1>1, <1>2, <1>3, AlikeSame

LEMMA ValidateKeeps == ASSUME PhotoInv, Validate PROVE PhotoInv'
<1>1. /\ photo' = photo /\ rows' = rows /\ crashes' = crashes /\ pc = "ready" /\ job = 0
      /\ job' = job /\ scratch' = scratch /\ held' = NoRecords
      /\ \/ pc' = "wrote" /\ ended' = ended
         \/ pc' = "mark" /\ ended' = "rejected"
  BY DEF Validate, At, VALIDATE, Quiet, bounds, Done, Goto, Terminal
<1>2. Alike(rows, rows')
  BY <1>1 DEF Alike, Grown
<1> QED
  BY <1>1, <1>2, GivenUp, Writing, NothingRecorded DEF OffRamps, PhotoInv, PhotoTyped, Flagged

LEMMA SanitiseKeeps == ASSUME PhotoInv, Sanitise PROVE PhotoInv'
<1>1. /\ photo' = photo /\ rows' = rows /\ crashes' = crashes /\ pc = "ready" /\ job = 1
      /\ job' = job /\ scratch' = scratch /\ held' = NoRecords /\ pc' = "wrote" /\ ended' = ended
  BY DEF Sanitise, At, SANITISE, Quiet, bounds, Goto
<1>2. Alike(rows, rows')
  BY <1>1 DEF Alike, Grown
<1> QED
  BY <1>1, <1>2, Writing, NothingRecorded DEF PhotoInv, PhotoTyped, Flagged

LEMMA ModerateKeeps == ASSUME PhotoInv, WriteModerate PROVE PhotoInv'
<1>1. /\ photo' = photo /\ crashes' = crashes /\ pc = "read" /\ job = 2
      /\ job' = job /\ scratch' = scratch /\ held' = NoRecords
      /\ \/ pc' = "wrote" /\ ended' = ended
         \/ pc' = "mark" /\ ended' = "quarantined"
  BY DEF WriteModerate, At, MODERATE, Quiet, bounds, Done, Goto, Terminal
<1>2. rows' = [i \in DOMAIN rows |-> IF i \in DOMAIN rows
                THEN Flag(rows[i], "moderation", photo.verdict = "review") ELSE rows[i]]
  BY DEF WriteModerate
<1>3. /\ rows' \in Seq(Rows) /\ Alike(rows, rows')
      /\ \A i \in DOMAIN rows' : Concerned(rows'[i]) => rows'[i].review
  <2>1. CASE photo.verdict = "review"
    <3>1. rows' = [i \in DOMAIN rows |-> IF i \in DOMAIN rows
                    THEN Flag(rows[i], "moderation", TRUE) ELSE rows[i]]
      BY <1>2, <2>1
    <3> QED
      BY <3>1, FlaggedRows DEF PhotoInv, Flagged, Whys
  <2>2. CASE photo.verdict # "review"
    <3>1. rows' = [i \in DOMAIN rows |-> IF i \in DOMAIN rows
                    THEN Flag(rows[i], "moderation", FALSE) ELSE rows[i]]
      BY <1>2, <2>2
    <3> QED
      BY <3>1, FlaggedRows DEF PhotoInv, Flagged, Whys
  <2> QED
    BY <2>1, <2>2
<1>4. CASE pc' = "wrote" /\ ended' = ended
  BY <1>1, <1>3, <1>4, Writing, NothingRecorded DEF PhotoInv, PhotoTyped
<1>5. CASE pc' = "mark" /\ ended' = "quarantined"
  <2>1. StageTyped'
    BY <1>1, <1>5 DEF PhotoInv, StageTyped, OffRamps
  <2> QED
    BY <1>1, <1>3, <1>5, <2>1, Rest
<1> QED
  BY <1>1, <1>4, <1>5

LEMMA RefusedKeeps == ASSUME PhotoInv, TagRefused PROVE PhotoInv'
<1>1. /\ photo' = photo /\ crashes' = crashes /\ pc = "read" /\ job = 6 /\ job' = job
      /\ scratch' = scratch /\ held' = NoRecords /\ pc' = "mark" /\ ended' = "degraded_tagged"
  BY DEF TagRefused, At, TAG, Quiet, bounds, Terminal
<1>2. rows' = [i \in DOMAIN rows |-> IF i \in DOMAIN held
                THEN Flag(rows[i], "tags", TRUE) ELSE rows[i]]
  BY DEF TagRefused, Write
<1>3. /\ rows' \in Seq(Rows) /\ Alike(rows, rows')
      /\ \A i \in DOMAIN rows' : Concerned(rows'[i]) => rows'[i].review
  BY <1>2, FlaggedRows DEF PhotoInv, Flagged, Whys
<1>4. StageTyped'
  BY <1>1 DEF PhotoInv, StageTyped, OffRamps
<1> QED
  BY <1>1, <1>3, <1>4, Rest

LEMMA UnusableKeeps == ASSUME PhotoInv, TagUnusable PROVE PhotoInv'
<1>1. /\ photo' = photo /\ crashes' = crashes /\ pc = "read" /\ job = 6 /\ job' = job
      /\ scratch' = scratch /\ held' = scratch /\ pc' = "wrote" /\ ended' = ended
  BY DEF TagUnusable, At, TAG, bounds, Done, Goto
<1>2. rows' = [i \in DOMAIN rows |-> IF i \in DOMAIN held
                THEN Flag(rows[i], "tags", TRUE) ELSE rows[i]]
  BY DEF TagUnusable, Write
<1>3. /\ rows' \in Seq(Rows) /\ Alike(rows, rows')
      /\ \A i \in DOMAIN rows' : Concerned(rows'[i]) => rows'[i].review
  BY <1>2, FlaggedRows DEF PhotoInv, Flagged, Whys
<1>4. Recorded(held', rows)
  BY <1>1 DEF PhotoInv, PhotoTyped
<1> QED
  BY <1>1, <1>3, <1>4, Writing

LEMMA KeepRow ==
  ASSUME NEW r \in Rows, NEW f \in Fields
  PROVE  /\ Keep(r, f) \in Rows /\ Same(r, Keep(r, f))
         /\ Keep(r, f).why = r.why /\ Keep(r, f).review = r.review
         /\ Keep(r, f).verified = r.verified
         /\ \A g \in r.verified : Keep(r, f).by[g] = r.by[g]
<1>1. Keep(r, f) = [r EXCEPT !.by = [r.by EXCEPT ![f] = IF f \in r.verified THEN r.by[f] ELSE "model"]]
  BY DEF Keep, Rows
<1>2. [r.by EXCEPT ![f] = IF f \in r.verified THEN r.by[f] ELSE "model"] \in [Fields -> Sources]
      /\ \A g \in r.verified :
           [r.by EXCEPT ![f] = IF f \in r.verified THEN r.by[f] ELSE "model"][g] = r.by[g]
  BY DEF Rows, Sources
<1> QED
  BY <1>1, <1>2 DEF Rows, Same

\* What tag makes of one row of the answer.
Tagging(r, s) ==
  /\ s \in Rows /\ Same(r, s)
  /\ (Concerned(r) => r.review) => (Concerned(s) => s.review)
  /\ s.verified = r.verified /\ \A g \in r.verified : s.by[g] = r.by[g]

LEMMA TagRow ==
  ASSUME NEW r \in Rows, NEW doubtful \in BOOLEAN, NEW m, NEW t, NEW s,
         m = Keep(r, "tags") \/ m = Keep(Keep(r, "tags"), "slot"),
         t = [m EXCEPT !.state = "tagged"], s = Flag(t, "tags", doubtful)
  PROVE  Tagging(r, s)
<1> DEFINE k == Keep(r, "tags")
<1>1. /\ k \in Rows /\ Same(r, k) /\ k.why = r.why /\ k.review = r.review
      /\ k.verified = r.verified /\ \A g \in r.verified : k.by[g] = r.by[g]
  BY KeepRow DEF Fields
<1> HIDE DEF k
<1>2. /\ m \in Rows /\ Same(r, m) /\ m.why = r.why /\ m.review = r.review
      /\ m.verified = r.verified /\ \A g \in r.verified : m.by[g] = r.by[g]
  <2>1. m = k \/ m = Keep(k, "slot")
    BY DEF k
  <2>2. CASE m = Keep(k, "slot")
    BY <1>1, <2>2, KeepRow DEF Fields, Same
  <2> QED
    BY <1>1, <2>1, <2>2
<1>3. /\ t \in Rows /\ Same(r, t) /\ t.why = r.why /\ t.review = r.review
      /\ t.verified = r.verified /\ t.by = m.by
  BY <1>2 DEF Rows, Same
<1>5. s \in Rows /\ Same(t, s) /\ ((Concerned(t) => t.review) => (Concerned(s) => s.review))
  BY <1>3, FlagRow DEF Whys
<1>6. s.verified = t.verified /\ s.by = t.by
  BY <1>3 DEF Flag, Because, Rows
<1>7. (Concerned(r) => r.review) => (Concerned(t) => t.review)
  BY <1>3 DEF Concerned
<1> QED
  BY <1>2, <1>3, <1>5, <1>6, <1>7 DEF Same, Tagging

\* Each row is what tag made of it, or what it was.
LEMMA Tagged ==
  ASSUME PhotoInv, WriteTag
  PROVE  /\ DOMAIN rows' = DOMAIN rows /\ rows' = [i \in DOMAIN rows |-> rows'[i]]
         /\ \A i \in DOMAIN rows :
              /\ rows'[i] \in Rows /\ Same(rows[i], rows'[i])
              /\ Concerned(rows'[i]) => rows'[i].review
              /\ rows'[i].verified = rows[i].verified
              /\ \A g \in rows[i].verified : rows'[i].by[g] = rows[i].by[g]
<1>1. PICK items \in SUBSET DOMAIN held : \E doubtful, moved \in SUBSET items :
        rows' = [i \in DOMAIN rows |-> IF i \in DOMAIN held THEN
          (IF i \notin items THEN rows[i]
           ELSE Flag([(IF i \in moved THEN Keep(Keep(rows[i], "tags"), "slot")
                       ELSE Keep(rows[i], "tags")) EXCEPT !.state = "tagged"],
                     "tags", i \in doubtful)) ELSE rows[i]]
  BY DEF WriteTag, Write
<1>2. PICK doubtful, moved \in SUBSET items :
        rows' = [i \in DOMAIN rows |-> IF i \in DOMAIN held THEN
          (IF i \notin items THEN rows[i]
           ELSE Flag([(IF i \in moved THEN Keep(Keep(rows[i], "tags"), "slot")
                       ELSE Keep(rows[i], "tags")) EXCEPT !.state = "tagged"],
                     "tags", i \in doubtful)) ELSE rows[i]]
  BY <1>1
<1> SUFFICES ASSUME NEW i \in DOMAIN rows
             PROVE  /\ rows'[i] \in Rows /\ Same(rows[i], rows'[i])
                    /\ Concerned(rows'[i]) => rows'[i].review
                    /\ rows'[i].verified = rows[i].verified
                    /\ \A g \in rows[i].verified : rows'[i].by[g] = rows[i].by[g]
  BY <1>2
<1>3. rows[i] \in Rows /\ (Concerned(rows[i]) => rows[i].review)
  BY RowTyped DEF PhotoInv, Flagged
<1>4. CASE i \in items
  <2>1. rows'[i] = Flag([(IF i \in moved THEN Keep(Keep(rows[i], "tags"), "slot")
                          ELSE Keep(rows[i], "tags")) EXCEPT !.state = "tagged"],
                        "tags", i \in doubtful)
    BY <1>2, <1>4, i \in DOMAIN held
  <2> PICK m : m = IF i \in moved THEN Keep(Keep(rows[i], "tags"), "slot")
                   ELSE Keep(rows[i], "tags")
    OBVIOUS
  <2>2. m = Keep(rows[i], "tags") \/ m = Keep(Keep(rows[i], "tags"), "slot")
    OBVIOUS
  <2> PICK s : s = rows'[i]
    OBVIOUS
  <2> PICK t : t = [m EXCEPT !.state = "tagged"]
    OBVIOUS
  <2>4. CASE i \in doubtful
    <3>1. (i \in doubtful) = TRUE
      BY <2>4
    <3>2. s = Flag(t, "tags", TRUE)
      BY <2>1, <3>1
    <3>3. TRUE \in BOOLEAN
      OBVIOUS
    <3>4. Tagging(rows[i], s)
      BY <1>3, <2>2, <3>2, <3>3, TagRow
    <3> QED
      BY <1>3, <3>4 DEF Tagging
  <2>5. CASE i \notin doubtful
    <3>1. (i \in doubtful) = FALSE
      BY <2>5
    <3>2. s = Flag(t, "tags", FALSE)
      BY <2>1, <3>1
    <3>3. FALSE \in BOOLEAN
      OBVIOUS
    <3>4. Tagging(rows[i], s)
      BY <1>3, <2>2, <3>2, <3>3, TagRow
    <3> QED
      BY <1>3, <3>4 DEF Tagging
  <2> QED
    BY <2>4, <2>5
<1>5. CASE i \notin items
  BY <1>2, <1>3, <1>5 DEF Same
<1> QED
  BY <1>4, <1>5

LEMMA TagKeeps == ASSUME PhotoInv, WriteTag PROVE PhotoInv'
<1>1. /\ photo' = photo /\ crashes' = crashes /\ pc = "read" /\ job = 6 /\ job' = job
      /\ scratch' = scratch /\ held' = scratch /\ pc' = "wrote" /\ ended' = ended
  BY DEF WriteTag, At, TAG, bounds, Done, Goto
<1>2. rows' \in Seq(Rows) /\ Alike(rows, rows')
  BY Tagged, OneByOne, AlikeSame DEF PhotoInv
<1>3. \A i \in DOMAIN rows' : Concerned(rows'[i]) => rows'[i].review
  BY Tagged
<1>4. Recorded(held', rows)
  BY <1>1 DEF PhotoInv, PhotoTyped
<1> QED
  BY <1>1, <1>2, <1>3, <1>4, Writing

LEMMA BecauseRow ==
  ASSUME NEW t \in Rows, NEW reason \in Whys, NEW u \in BOOLEAN
  PROVE  /\ Because(t, reason, u) \in Rows /\ Same(t, Because(t, reason, u))
         /\ Because(t, reason, u).review = t.review
         /\ Because(t, reason, u).why =
              (IF u THEN t.why \cup {reason} ELSE t.why \ {reason})
<1> PICK w : w = IF u THEN t.why \cup {reason} ELSE t.why \ {reason}
  OBVIOUS
<1>1. w \in SUBSET {"moderation", "cutout", "colour", "tags"}
  BY DEF Rows, Whys
<1>2. Because(t, reason, u) = [t EXCEPT !.why = w]
  BY DEF Because, Rows
<1>3. [t EXCEPT !.why = w] \in Rows
  BY <1>1 DEF Rows
<1>4. Same(t, [t EXCEPT !.why = w]) /\ [t EXCEPT !.why = w].review = t.review
      /\ [t EXCEPT !.why = w].why = w
  BY DEF Rows, Same
<1> QED
  BY <1>2, <1>3, <1>4

\* A row that a stage has written and flagged if it had to.
Sound(r, s) == s \in Rows /\ Same(r, s) /\ (Concerned(s) => s.review)

\* What classify makes of a row it assigns needs_review = w.
LEMMA ClassRow ==
  ASSUME NEW r \in Rows, NEW w \in BOOLEAN, NEW t,
         t = [r EXCEPT !.by["colour"] = "model", !.state = "classified", !.review = w],
         Concerned(r) => w
  PROVE  /\ w => Sound(r, Because(t, "colour", TRUE))
         /\ Sound(r, Because(t, "colour", FALSE))
<1>1. t \in Rows /\ Same(r, t) /\ t.why = r.why /\ t.review = w
  <2> PICK b : b = [r.by EXCEPT !["colour"] = "model"]
    OBVIOUS
  <2>1. b \in [Fields -> Sources]
    BY DEF Rows, Sources, Fields
  <2>2. t = [r EXCEPT !.by = b, !.state = "classified", !.review = w]
    OBVIOUS
  <2> QED
    BY <2>1, <2>2, ZenonT(30) DEF Rows, Same
<1>2. "colour" \in Whys
  BY DEF Whys
<1>3. w => Sound(r, Because(t, "colour", TRUE))
  <2>1. Because(t, "colour", TRUE) \in Rows /\ Same(t, Because(t, "colour", TRUE))
        /\ Because(t, "colour", TRUE).review = t.review
    BY <1>1, <1>2, BecauseRow
  <2> QED
    BY <1>1, <2>1 DEF Same, Sound
<1>4. Sound(r, Because(t, "colour", FALSE))
  <2>1. /\ Because(t, "colour", FALSE) \in Rows /\ Same(t, Because(t, "colour", FALSE))
        /\ Because(t, "colour", FALSE).review = t.review
        /\ Because(t, "colour", FALSE).why = t.why \ {"colour"}
    BY <1>1, <1>2, BecauseRow
  <2>2. Concerned(Because(t, "colour", FALSE)) => Concerned(r)
    BY <1>1, <2>1 DEF Concerned
  <2> QED
    BY <1>1, <2>1, <2>2 DEF Same, Sound
<1> QED
  BY <1>3, <1>4

LEMMA ClassifyKeeps == ASSUME PhotoInv, WriteClassify PROVE PhotoInv'
<1>1. /\ photo' = photo /\ crashes' = crashes /\ pc = "read" /\ job = 5 /\ job' = job
      /\ scratch' = scratch /\ pc' = "wrote" /\ ended' = ended
  BY DEF WriteClassify, At, CLASSIFY, Quiet, bounds, Done, Goto
<1>p. PICK unsure \in SUBSET DOMAIN held :
      /\ rows' = [i \in DOMAIN rows |-> IF i \in DOMAIN held
           THEN Because([rows[i] EXCEPT !.by["colour"] = "model", !.state = "classified",
                                        !.review = held[i].review \/ i \in unsure],
                        "colour", i \in unsure)
           ELSE rows[i]]
      /\ held' = [i \in DOMAIN held |-> [held[i] EXCEPT !.review = held[i].review \/ i \in unsure]]
  BY DEF WriteClassify, Write, Done
<1>2. \A i \in DOMAIN rows :
        rows'[i] \in Rows /\ Same(rows[i], rows'[i]) /\ (Concerned(rows'[i]) => rows'[i].review)
  <2> SUFFICES ASSUME NEW i \in DOMAIN rows
      PROVE rows'[i] \in Rows /\ Same(rows[i], rows'[i]) /\ (Concerned(rows'[i]) => rows'[i].review)
    OBVIOUS
  <2>1. rows[i] \in Rows /\ (Concerned(rows[i]) => rows[i].review)
    BY RowTyped DEF PhotoInv, Flagged
  <2>2. CASE i \in DOMAIN held
    <3>1. held[i].review \in BOOLEAN /\ (Concerned(rows[i]) => held[i].review)
      BY <1>1, <2>2 DEF PhotoInv, PhotoTyped, Recorded, Records, Flagged, Told
    <3>2. CASE i \in unsure
      <4> PICK t : t = [rows[i] EXCEPT !.by["colour"] = "model", !.state = "classified",
                                       !.review = TRUE]
        OBVIOUS
      <4>1. (i \in unsure) = TRUE /\ (held[i].review \/ i \in unsure) = TRUE
        BY <3>2
      <4>2. rows'[i] = Because(t, "colour", TRUE)
        BY <1>p, <2>2, <4>1
      <4>3. Sound(rows[i], Because(t, "colour", TRUE))
        BY <2>1, ClassRow
      <4> QED
        BY <4>2, <4>3 DEF Sound
    <3>3. CASE i \notin unsure
      <4> PICK t : t = [rows[i] EXCEPT !.by["colour"] = "model", !.state = "classified",
                                       !.review = held[i].review]
        OBVIOUS
      <4>1. (i \in unsure) = FALSE /\ (held[i].review \/ i \in unsure) = held[i].review
        BY <3>1, <3>3
      <4>2. rows'[i] = Because(t, "colour", FALSE)
        BY <1>p, <2>2, <4>1
      <4>3. Sound(rows[i], Because(t, "colour", FALSE))
        BY <2>1, <3>1, ClassRow
      <4> QED
        BY <4>2, <4>3 DEF Sound
    <3> QED
      BY <3>2, <3>3
  <2>3. CASE i \notin DOMAIN held
    BY <1>p, <2>1, <2>3 DEF Same
  <2> QED
    BY <2>2, <2>3
<1>3. DOMAIN rows' = DOMAIN rows /\ rows' = [i \in DOMAIN rows |-> rows'[i]]
  BY <1>p
<1>4. rows' \in Seq(Rows) /\ Alike(rows, rows')
  BY <1>2, <1>3, OneByOne, AlikeSame DEF PhotoInv
<1>5. Recorded(held', rows) /\ DOMAIN held' = DOMAIN held /\ (AllCut(held) => AllCut(held'))
  <2>1. \A i \in DOMAIN held : held[i] \in Records /\ (held[i].review \/ i \in unsure) \in BOOLEAN
    BY DEF PhotoInv, PhotoTyped, Recorded, Records
  <2>2. \A i \in DOMAIN held : held'[i] \in Records /\ held'[i].cut = held[i].cut
    BY <1>p, <2>1 DEF Records
  <2> QED
    BY <1>p, <2>2 DEF PhotoInv, PhotoTyped, Recorded, AllCut
<1>6. /\ CoversCut(photo.shows, rows, DOMAIN held')
      /\ crashes = 0 => DOMAIN held' = DOMAIN rows /\ AllCut(held')
  BY <1>1, <1>5 DEF PhotoInv, Covered, Whole
<1> QED
  BY <1>1, <1>2, <1>3, <1>4, <1>5, <1>6, Writing

LEMMA DedupeKeeps == ASSUME PhotoInv, WriteDedupe PROVE PhotoInv'
<1>1. /\ photo' = photo /\ crashes' = crashes /\ pc = "read" /\ job = 8 /\ job' = job
      /\ scratch' = scratch /\ held' = held /\ pc' = "wrote" /\ ended' = ended
  BY DEF WriteDedupe, At, DEDUPE, Quiet, bounds, Done, Goto
<1>2. rows' = [i \in DOMAIN rows |-> IF i \in DOMAIN held
         THEN [rows[i] EXCEPT !.dup = Proposed(i),
                              !.state = IF Proposed(i) THEN "duplicate_suspect" ELSE "deduped"]
         ELSE rows[i]]
  BY DEF WriteDedupe, Write
<1>3. \A i \in DOMAIN rows :
        /\ rows'[i] \in Rows /\ Same(rows[i], rows'[i]) /\ (Concerned(rows'[i]) => rows'[i].review)
        /\ i \in DOMAIN held /\ Proposed(i) => Put(rows'[i])
  <2> SUFFICES ASSUME NEW i \in DOMAIN rows
      PROVE /\ rows'[i] \in Rows /\ Same(rows[i], rows'[i])
            /\ Concerned(rows'[i]) => rows'[i].review
            /\ i \in DOMAIN held /\ Proposed(i) => Put(rows'[i])
    OBVIOUS
  <2>1. rows[i] \in Rows /\ (Concerned(rows[i]) => rows[i].review)
    BY RowTyped DEF PhotoInv, Flagged
  <2>2. CASE i \in DOMAIN held /\ Proposed(i)
    <3>1. Proposed(i) = TRUE
      BY <2>2 DEF Proposed
    <3>2. rows'[i] = [rows[i] EXCEPT !.dup = TRUE, !.state = "duplicate_suspect"]
      BY <1>2, <2>2, <3>1
    <3> QED
      BY <2>1, <3>2 DEF Rows, Same, Concerned, Put
  <2>3. CASE i \in DOMAIN held /\ ~Proposed(i)
    <3>1. Proposed(i) = FALSE
      BY <2>3 DEF Proposed
    <3>2. rows'[i] = [rows[i] EXCEPT !.dup = FALSE, !.state = "deduped"]
      BY <1>2, <2>3, <3>1
    <3> QED
      BY <2>1, <2>3, <3>2 DEF Rows, Same, Concerned
  <2>4. CASE i \notin DOMAIN held
    BY <1>2, <2>1, <2>4 DEF Same
  <2> QED
    BY <2>2, <2>3, <2>4
<1>4. DOMAIN rows' = DOMAIN rows /\ rows' = [i \in DOMAIN rows |-> rows'[i]]
  BY <1>2
<1>5. rows' \in Seq(Rows) /\ Alike(rows, rows')
  BY <1>3, <1>4, OneByOne, AlikeSame DEF PhotoInv
<1>6. \A i \in DOMAIN rows :
        Made(rows'[i]) /\ ~rows'[i].answered /\ Twin(rows'[i], crashes) => Put(rows'[i])
  <2> SUFFICES ASSUME NEW i \in DOMAIN rows, Made(rows'[i]), Twin(rows'[i], crashes)
               PROVE  Put(rows'[i])
    OBVIOUS
  <2>1. Made(rows[i]) /\ Twin(rows[i], crashes)
    BY <1>3 DEF Made, Twin, Same
  <2>2. i \in DOMAIN held /\ held[i].cut /\ (held[i].vec \/ crashes > 0)
    BY <1>1, <2>1 DEF PhotoInv, Compared
  <2>3. Proposed(i)
    BY <2>1, <2>2 DEF Proposed, Twin, PhotoInv, PhotoTyped
  <2> QED
    BY <1>3, <2>2, <2>3
<1>7. Recorded(held', rows)
  BY <1>1 DEF PhotoInv, PhotoTyped
<1> QED
  BY <1>1, <1>3, <1>4, <1>5, <1>6, <1>7, Writing

LEMMA PersistKeeps == ASSUME PhotoInv, Persist PROVE PhotoInv'
<1>1. /\ photo' = photo /\ crashes' = crashes /\ pc = "ready" /\ job = 9 /\ job' = job
      /\ scratch' = scratch
      /\ \/ pc' = "mark" /\ ended' = "rejected" /\ held' = NoRecords /\ rows' = rows
         \/ /\ pc' = "wrote" /\ ended' = ended /\ held' = scratch
            /\ rows' = [i \in DOMAIN rows |->
                 IF i \in Active /\ rows[i].state \notin
                      {"duplicate_suspect", "rejected", "quarantined"}
                 THEN [rows[i] EXCEPT !.state = "matted"] ELSE rows[i]]
  BY DEF Persist, At, PERSIST, Quiet, bounds, Done, Goto, Terminal
<1>2. CASE pc' = "mark" /\ ended' = "rejected" /\ held' = NoRecords /\ rows' = rows
  BY <1>1, <1>2, GivenUp DEF OffRamps
<1>3. CASE pc' = "wrote"
  <2>1. rows' = [i \in DOMAIN rows |->
                 IF i \in Active /\ rows[i].state \notin
                      {"duplicate_suspect", "rejected", "quarantined"}
                 THEN [rows[i] EXCEPT !.state = "matted"] ELSE rows[i]]
        /\ ended' = ended /\ held' = scratch
    BY <1>1, <1>3
  <2>2. \A i \in DOMAIN rows :
        /\ rows'[i] \in Rows /\ Same(rows[i], rows'[i]) /\ (Concerned(rows'[i]) => rows'[i].review)
        /\ Put(rows[i]) => Put(rows'[i])
    <3> SUFFICES ASSUME NEW i \in DOMAIN rows
        PROVE /\ rows'[i] \in Rows /\ Same(rows[i], rows'[i])
              /\ Concerned(rows'[i]) => rows'[i].review
              /\ Put(rows[i]) => Put(rows'[i])
      OBVIOUS
    <3>1. rows[i] \in Rows /\ (Concerned(rows[i]) => rows[i].review)
      BY RowTyped DEF PhotoInv, Flagged
    <3>2. rows'[i] = rows[i] \/ (~Put(rows[i]) /\ rows'[i] = [rows[i] EXCEPT !.state = "matted"])
      BY <2>1 DEF Put
    <3> QED
      BY <3>1, <3>2 DEF Rows, Same, Concerned
  <2>3. DOMAIN rows' = DOMAIN rows /\ rows' = [i \in DOMAIN rows |-> rows'[i]]
    BY <2>1
  <2>4. rows' \in Seq(Rows) /\ Alike(rows, rows')
    BY <2>2, <2>3, OneByOne, AlikeSame DEF PhotoInv
  <2>5. ended = "no"
    BY <1>1 DEF PhotoInv, StageTyped
  <2>6. \A i \in DOMAIN rows :
          Made(rows'[i]) /\ ~rows'[i].answered /\ Twin(rows'[i], crashes) => Put(rows'[i])
    BY <1>1, <2>2, <2>5 DEF PhotoInv, Compared, Past, DEDUPE, Made, Twin, Same
  <2>7. Recorded(held', rows)
    BY <2>1 DEF PhotoInv, PhotoTyped
  <2> QED
    BY <1>1, <1>3, <2>1, <2>2, <2>3, <2>4, <2>6, <2>7, Writing
<1> QED
  BY <1>1, <1>2, <1>3

\* A row with a cutout, flagged if it had to be.
Matted(r, s) ==
  /\ s \in Rows /\ s.piece = r.piece /\ s.active = r.active /\ s.emb = r.emb /\ s.cut
  /\ Concerned(s) => s.review

LEMMA MatteKeeps == ASSUME PhotoInv, WriteMatte PROVE PhotoInv'
<1> DEFINE dim(i) == rows[i].piece \in photo.dark
<1>1. photo' = photo /\ crashes' = crashes /\ pc = "read" /\ job = 4 /\ job' = job
      /\ scratch' = scratch
  BY DEF WriteMatte, At, MATTE, Quiet, bounds, Done, Goto, Terminal
<1>2. CASE pc' = "mark" /\ ended' = "needs_review" /\ held' = NoRecords /\ rows' = rows
  BY <1>1, <1>2, GivenUp DEF OffRamps
<1>3. ASSUME /\ ~\A i \in DOMAIN held : dim(i)
             /\ Write(LAMBDA i :
                  Because([rows[i] EXCEPT !.cut = TRUE, !.state = "matted", !.review = dim(i),
                                          !.why = rows[i].why \cap {"moderation"}],
                          "cutout", dim(i)))
             /\ Done([i \in DOMAIN held |-> [cut |-> TRUE, review |-> dim(i), vec |-> FALSE]])
      PROVE  PhotoInv'
  <2>1. pc' = "wrote" /\ ended' = ended
    BY <1>3 DEF Done, Goto
  <2>2. held' = [i \in DOMAIN held |-> [cut |-> TRUE, review |-> dim(i), vec |-> FALSE]]
    BY <1>3 DEF Done
  <2>3. rows' = [i \in DOMAIN rows |-> IF i \in DOMAIN held THEN
          Because([rows[i] EXCEPT !.cut = TRUE, !.state = "matted", !.review = dim(i),
                                  !.why = rows[i].why \cap {"moderation"}],
                  "cutout", dim(i)) ELSE rows[i]]
    BY <1>3 DEF Write
  <2>4. \A i \in DOMAIN held : Matted(rows[i], rows'[i]) /\ (Concerned(rows'[i]) => dim(i))
    <3> SUFFICES ASSUME NEW i \in DOMAIN held
                 PROVE  Matted(rows[i], rows'[i]) /\ (Concerned(rows'[i]) => dim(i))
      OBVIOUS
    <3>1. i \in DOMAIN rows /\ rows[i] \in Rows
      BY RowTyped DEF PhotoInv, PhotoTyped, Recorded
    <3>2. "cutout" \in Whys
      BY DEF Whys
    <3>3. CASE dim(i)
      <4> PICK t : t = [rows[i] EXCEPT !.cut = TRUE, !.state = "matted", !.review = TRUE,
                                       !.why = rows[i].why \cap {"moderation"}]
        OBVIOUS
      <4>1. dim(i) = TRUE
        BY <3>3
      <4>2. rows'[i] = Because(t, "cutout", TRUE)
        BY <2>3, <3>1, <4>1
      <4>3. /\ t \in Rows /\ t.piece = rows[i].piece /\ t.active = rows[i].active
            /\ t.emb = rows[i].emb /\ t.cut /\ t.review
        BY <3>1 DEF Rows
      <4>4. Because(t, "cutout", TRUE) \in Rows /\ Same(t, Because(t, "cutout", TRUE))
            /\ Because(t, "cutout", TRUE).review = t.review
        BY <3>2, <4>3, BecauseRow
      <4> QED
        BY <3>3, <4>2, <4>3, <4>4 DEF Matted, Same
    <3>4. CASE ~dim(i)
      <4> PICK t : t = [rows[i] EXCEPT !.cut = TRUE, !.state = "matted", !.review = FALSE,
                                       !.why = rows[i].why \cap {"moderation"}]
        OBVIOUS
      <4>1. dim(i) = FALSE
        BY <3>4
      <4>2. rows'[i] = Because(t, "cutout", FALSE)
        BY <2>3, <3>1, <4>1
      <4>3. /\ t \in Rows /\ t.piece = rows[i].piece /\ t.active = rows[i].active
            /\ t.emb = rows[i].emb /\ t.cut /\ ~t.review
            /\ t.why \subseteq {"moderation"}
        BY <3>1 DEF Rows
      <4>4. Because(t, "cutout", FALSE) \in Rows /\ Same(t, Because(t, "cutout", FALSE))
            /\ Because(t, "cutout", FALSE).why = t.why \ {"cutout"}
        BY <3>2, <4>3, BecauseRow
      <4>5. ~Concerned(rows'[i])
        BY <4>2, <4>3, <4>4 DEF Concerned
      <4> QED
        BY <4>2, <4>3, <4>4, <4>5 DEF Matted, Same
    <3> QED
      BY <3>3, <3>4
  <2>5. \A i \in DOMAIN rows : i \notin DOMAIN held => rows'[i] = rows[i]
    BY <2>3
  <2>6. DOMAIN rows' = DOMAIN rows /\ rows' = [i \in DOMAIN rows |-> rows'[i]]
    BY <2>3
  <2>7. \A i \in DOMAIN rows : rows'[i] \in Rows /\ rows'[i].emb = rows[i].emb
          /\ rows'[i].active = rows[i].active
    BY <2>4, <2>5, RowTyped DEF PhotoInv, Matted
  <2>8. rows' \in Seq(Rows) /\ Len(rows') = Len(rows)
    BY <2>6, <2>7, OneByOne DEF PhotoInv
  <2>9. Grown(rows, rows')
    BY <2>4, <2>5, <2>6 DEF Grown, Matted
  <2>10. DOMAIN held' = DOMAIN held /\ Recorded(held', rows) /\ AllCut(held')
         /\ \A i \in DOMAIN held : held'[i].review = dim(i)
    BY <2>2 DEF PhotoInv, PhotoTyped, Recorded, Records, AllCut
  <2>11. held' # NoRecords
    <3>1. DOMAIN held' # {}
      BY <1>3, <2>10
    <3> QED
      BY <3>1 DEF NoRecords
  <2>12. PhotoTyped' /\ StageTyped'
    <3>1. PhotoTyped'
      BY <1>1, <2>6, <2>8, <2>10, RecordedStays DEF PhotoInv, PhotoTyped
    <3> QED
      BY <1>1, <2>1, <3>1 DEF PhotoInv, StageTyped
  <2>13. Counted'
    <3>1. Past(SEGMENT)'
      BY <1>1 DEF Past, SEGMENT
    <3> QED
      BY <1>1, <2>9, <2>12, <3>1, CountedStays DEF PhotoInv
  <2>14. Covered'
    <3>1. Covers(photo.shows, rows, DOMAIN held) /\ Covers(photo.shows, rows, DOMAIN rows)
      BY <1>1 DEF PhotoInv, Covered, Past, SEGMENT
    <3>2. Covers(photo.shows, rows', DOMAIN rows)
      BY <2>9, <3>1, CoversStay
    <3>3. CoversCut(photo.shows, rows', DOMAIN held)
      <4> SUFFICES ASSUME NEW p \in photo.shows
                   PROVE  \E i \in DOMAIN rows' : rows'[i].piece = p /\
                            (rows'[i].active => rows'[i].cut /\ i \in DOMAIN held)
        BY DEF CoversCut
      <4> PICK i \in DOMAIN rows : rows[i].piece = p /\ (rows[i].active => i \in DOMAIN held)
        BY <3>1 DEF Covers
      <4>1. rows'[i].piece = p /\ rows'[i].active = rows[i].active
            /\ (i \in DOMAIN held => rows'[i].cut)
        BY <2>4, <2>7, <2>9 DEF Grown, Matted
      <4> QED
        BY <2>6, <4>1
    <3>4. CoversCut(photo.shows, rows', DOMAIN rows')
      BY <2>6, <3>3 DEF CoversCut, PhotoInv, PhotoTyped, Recorded
    <3>5. scratch # NoRecords => Covers(photo.shows, rows', DOMAIN scratch)
      BY <1>1, <2>9, CoversStay DEF PhotoInv, Covered
    <3> QED
      BY <1>1, <2>1, <2>6, <2>10, <3>2, <3>3, <3>4, <3>5 DEF Covered, Past, EMBED
  <2>15. Whole'
    <3> SUFFICES ASSUME crashes = 0 PROVE Whole'
      BY <1>1 DEF Whole
    <3>1. DOMAIN held = DOMAIN rows /\ DOMAIN scratch = DOMAIN rows
      BY <1>1 DEF PhotoInv, Whole
    <3>2. \A i \in DOMAIN rows : rows'[i].cut
      BY <2>4, <3>1 DEF Matted
    <3> QED
      BY <1>1, <2>1, <2>6, <2>10, <3>1, <3>2 DEF Whole, Past, SEGMENT, EMBED
  <2>16. Compared'
    BY <1>1, <2>1, <2>6, <2>7 DEF PhotoInv, Compared, Past, DEDUPE
  <2>17. Flagged'
    <3>1. \A i \in DOMAIN rows' : Concerned(rows'[i]) => rows'[i].review
      BY <2>4, <2>5, <2>6 DEF PhotoInv, Flagged, Matted
    <3>2. Told(rows', held')
      BY <2>4, <2>10 DEF Told
    <3> QED
      BY <1>1, <2>11, <3>1, <3>2 DEF Flagged
  <2> QED
    BY <2>12, <2>13, <2>14, <2>15, <2>16, <2>17 DEF PhotoInv
<1> QED
  BY <1>2, <1>3 DEF WriteMatte, Terminal

LEMMA EmbedKeeps == ASSUME PhotoInv, WriteEmbed PROVE PhotoInv'
<1>1. /\ photo' = photo /\ crashes' = crashes /\ pc = "read" /\ job = 7 /\ job' = job
      /\ scratch' = scratch /\ pc' = "wrote" /\ ended' = ended
      /\ held' = [i \in DOMAIN held |-> [held[i] EXCEPT !.vec = TRUE]]
  BY DEF WriteEmbed, At, EMBED, Quiet, bounds, Done, Goto
<1>2. rows' = [i \in DOMAIN rows |-> IF i \in DOMAIN held
                THEN [rows[i] EXCEPT !.emb = TRUE, !.state = "embedded"] ELSE rows[i]]
  BY DEF WriteEmbed, Write
<1>3. \A i \in DOMAIN rows :
        /\ rows'[i] \in Rows
        /\ rows'[i].piece = rows[i].piece /\ rows'[i].active = rows[i].active
        /\ rows'[i].cut = rows[i].cut
        /\ rows'[i].review = rows[i].review /\ rows'[i].why = rows[i].why
        /\ rows'[i].emb = (i \in DOMAIN held \/ rows[i].emb)
  <2> SUFFICES ASSUME NEW i \in DOMAIN rows
      PROVE /\ rows'[i] \in Rows
            /\ rows'[i].piece = rows[i].piece /\ rows'[i].active = rows[i].active
            /\ rows'[i].cut = rows[i].cut
            /\ rows'[i].review = rows[i].review /\ rows'[i].why = rows[i].why
            /\ rows'[i].emb = (i \in DOMAIN held \/ rows[i].emb)
    OBVIOUS
  <2>1. rows[i] \in Rows
    BY RowTyped DEF PhotoInv
  <2> QED
    BY <1>2, <2>1, ZenonT(30) DEF Rows
<1>4. DOMAIN rows' = DOMAIN rows /\ rows' = [i \in DOMAIN rows |-> rows'[i]]
  BY <1>2
<1>5. rows' \in Seq(Rows) /\ Len(rows') = Len(rows)
  BY <1>3, <1>4, OneByOne DEF PhotoInv
<1>6. Grown(rows, rows')
  BY <1>3, <1>4 DEF Grown
<1>7. DOMAIN held' = DOMAIN held /\ Recorded(held', rows) /\ (AllCut(held) => AllCut(held'))
      /\ \A i \in DOMAIN held : held'[i].vec
  <2>1. \A i \in DOMAIN held : held[i] \in Records
    BY DEF PhotoInv, PhotoTyped, Recorded
  <2>2. \A i \in DOMAIN held : held'[i] \in Records /\ held'[i].cut = held[i].cut /\ held'[i].vec
    BY <1>1, <2>1 DEF Records
  <2> QED
    BY <1>1, <2>2 DEF PhotoInv, PhotoTyped, Recorded, AllCut
<1>8. PhotoTyped' /\ StageTyped'
  <2>1. PhotoTyped'
    BY <1>1, <1>4, <1>5, <1>7, RecordedStays DEF PhotoInv, PhotoTyped
  <2> QED
    BY <1>1, <2>1 DEF PhotoInv, StageTyped
<1>9. Counted'
  <2>1. Past(SEGMENT)'
    BY <1>1 DEF Past, SEGMENT
  <2> QED
    BY <1>1, <1>6, <1>8, <2>1, CountedStays DEF PhotoInv
<1>10. Covered'
  <2>1. CoversCut(photo.shows, rows, DOMAIN held) /\ CoversCut(photo.shows, rows, DOMAIN rows)
        /\ Covers(photo.shows, rows, DOMAIN rows)
        /\ (scratch # NoRecords => CoversCut(photo.shows, rows, DOMAIN scratch))
    BY <1>1 DEF PhotoInv, Covered, Past, SEGMENT, MATTE
  <2>2. CoversCut(photo.shows, rows', DOMAIN held)
    BY <1>6, <2>1, CoversStay
  <2>3. CoversCut(photo.shows, rows', DOMAIN rows)
    BY <1>6, <2>1, CoversStay
  <2>4. Covers(photo.shows, rows', DOMAIN rows)
    BY <1>6, <2>1, CoversStay
  <2>5. scratch # NoRecords => CoversCut(photo.shows, rows', DOMAIN scratch)
    BY <1>6, <2>1, CoversStay
  <2>6. CoversMade(photo.shows, rows')
    BY <1>3, <1>4, <2>2 DEF CoversCut, CoversMade
  <2> QED
    BY <1>1, <1>4, <1>7, <2>2, <2>3, <2>4, <2>5, <2>6 DEF Covered
<1>11. Whole'
  <2> SUFFICES ASSUME crashes = 0 PROVE Whole'
    BY <1>1 DEF Whole
  <2>1. DOMAIN held = DOMAIN rows /\ DOMAIN scratch = DOMAIN rows /\ AllCut(held) /\ AllCut(scratch)
        /\ \A i \in DOMAIN rows : rows[i].cut
    BY <1>1 DEF PhotoInv, Whole, Past, MATTE
  <2>2. \A i \in DOMAIN rows : rows'[i].cut /\ rows'[i].emb
    BY <1>3, <2>1
  <2> QED
    BY <1>1, <1>4, <1>7, <2>1, <2>2 DEF Whole, Past, SEGMENT
<1>12. Compared'
  <2>1. AllCut(held) /\ \A i \in DOMAIN rows : Made(rows[i]) => i \in DOMAIN held
    BY <1>1 DEF PhotoInv, Compared
  <2>2. \A i \in DOMAIN rows : Made(rows'[i]) => i \in DOMAIN held'
    BY <1>3, <1>7, <2>1 DEF Made
  <2> QED
    BY <1>1, <1>4, <1>7, <2>1, <2>2 DEF Compared, Past, DEDUPE
<1>13. Flagged'
  BY <1>1, <1>3, <1>4 DEF PhotoInv, Flagged, Concerned
<1> QED
  BY <1>8, <1>9, <1>10, <1>11, <1>12, <1>13 DEF PhotoInv

\* The secondary garments are put in some order, each of them once.
LEMMA OrderIsOnto ==
  ASSUME PhotoTyped, NEW order \in [1..Cardinality(photo.shows \ {Primary}) ->
                                      photo.shows \ {Primary}],
         \A m, n \in DOMAIN order : order[m] = order[n] => m = n
  PROVE  /\ Cardinality(photo.shows \ {Primary}) \in Nat
         /\ photo.shows \ {Primary} \subseteq Extra
         /\ \A p \in photo.shows \ {Primary} : \E n \in DOMAIN order : order[n] = p
<1> DEFINE G == photo.shows \ {Primary}
           k == Cardinality(G)
<1>1. G \subseteq Extra
  BY DEF PhotoTyped, Photos
<1>2. IsFiniteSet(G) /\ k \in Nat
  <2>1. IsFiniteSet(G)
    BY <1>1, PiecesAssumption, FS_Subset
  <2> QED
    BY <2>1, FS_CardinalityType
<1>3. IsFiniteSet(1..k) /\ Cardinality(1..k) = k
  <2> HIDE DEF k
  <2>1. IsFiniteSet(1..k) /\ Cardinality(1..k) = IF 1 > k THEN 0 ELSE k - 1 + 1
    BY <1>2, FS_Interval
  <2> QED
    BY <1>2, <2>1
<1>4. order \in Injection(1..k, G)
  BY DEF Injection, IsInjective
<1>5. order \in Surjection(1..k, G)
  <2> HIDE DEF k, G
  <2> QED
    BY <1>2, <1>3, <1>4, FS_Injection DEF k
<1> QED
  BY <1>1, <1>2, <1>5 DEF Surjection

\* The rows of a photo once it is split.
Split(order, qs) ==
  /\ qs \in Seq(Rows) /\ Len(qs) = Len(rows) + Len(order)
  /\ \A i \in 1..Len(rows) :
       Same(rows[i], qs[i]) /\ qs[i].why = rows[i].why /\ qs[i].review = rows[i].review
  /\ \A n \in 1..Len(order) :
       /\ qs[Len(rows) + n].piece = order[n] /\ qs[Len(rows) + n].active
       /\ ~qs[Len(rows) + n].cut /\ ~qs[Len(rows) + n].emb
       /\ qs[Len(rows) + n].why \subseteq {"moderation"}

LEMMA SplitRows ==
  ASSUME PhotoTyped, NEW k \in Nat, NEW order \in [1..k -> Extra], SplitInto(order)
  PROVE  Split(order, rows')
<1>h. PICK head : head = [rows EXCEPT ![1].state = "segmented", ![1].by["slot"] = "model"]
  OBVIOUS
<1>t. PICK tail : tail = [n \in DOMAIN order |->
                   [NewRow(order[n]) EXCEPT
                      !.state = "segmented", !.by["slot"] = "model",
                      !.why = IF photo.verdict = "review" THEN {"moderation"} ELSE {}]]
  OBVIOUS
<1>1. rows' = head \o tail
  BY <1>h, <1>t DEF SplitInto
<1>2. DOMAIN rows = 1..Len(rows) /\ Len(rows) \in Nat /\ 1 \in DOMAIN rows /\ rows[1] \in Rows
      /\ DOMAIN order = 1..k /\ Len(order) = k
  BY DEF PhotoTyped
<1>3. /\ head[1] \in Rows /\ Same(rows[1], head[1])
      /\ head[1].why = rows[1].why /\ head[1].review = rows[1].review
  <2> PICK b : b = [rows[1].by EXCEPT !["slot"] = "model"]
    OBVIOUS
  <2>1. b \in [Fields -> Sources]
    BY <1>2 DEF Rows, Sources, Fields
  <2>2. head[1] = [rows[1] EXCEPT !.state = "segmented", !.by = b]
    BY <1>h, <1>2 DEF Rows
  <2> QED
    BY <1>2, <2>1, <2>2 DEF Rows, Same
<1>4. head \in Seq(Rows) /\ Len(head) = Len(rows) /\ \A i \in DOMAIN rows : i # 1 => head[i] = rows[i]
  <2>1. DOMAIN head = DOMAIN rows /\ head = [i \in DOMAIN rows |-> head[i]]
        /\ \A i \in DOMAIN rows : i # 1 => head[i] = rows[i]
    BY <1>h
  <2>2. \A i \in DOMAIN rows : head[i] \in Rows
    BY <1>3, <2>1, RowTyped
  <2> QED
    BY <2>1, <2>2, OneByOne
<1>5. \A i \in 1..Len(rows) :
        Same(rows[i], head[i]) /\ head[i].why = rows[i].why /\ head[i].review = rows[i].review
  BY <1>2, <1>3, <1>4 DEF Same
<1>6. \A n \in 1..k :
        /\ tail[n] \in Rows /\ tail[n].piece = order[n] /\ tail[n].active
        /\ ~tail[n].cut /\ ~tail[n].emb /\ tail[n].why \subseteq {"moderation"}
  <2> SUFFICES ASSUME NEW n \in 1..k
      PROVE /\ tail[n] \in Rows /\ tail[n].piece = order[n] /\ tail[n].active
            /\ ~tail[n].cut /\ ~tail[n].emb /\ tail[n].why \subseteq {"moderation"}
    OBVIOUS
  <2>1. order[n] \in Pieces
    BY DEF Pieces
  <2> PICK b : b = [[f \in Fields |-> "nobody"] EXCEPT !["slot"] = "model"]
    OBVIOUS
  <2>2. b \in [Fields -> Sources]
    BY DEF Sources, Fields
  <2> PICK w : w = IF photo.verdict = "review" THEN {"moderation"} ELSE {}
    OBVIOUS
  <2>3. w \in SUBSET {"moderation"}
    OBVIOUS
  <2>4. tail[n] = [piece |-> order[n], state |-> "segmented", active |-> TRUE, cut |-> FALSE,
                   emb |-> FALSE, by |-> b, verified |-> {}, review |-> FALSE, dup |-> FALSE,
                   why |-> w, answered |-> FALSE]
    BY <1>t, <1>2 DEF NewRow
  <2> QED
    BY <2>1, <2>2, <2>3, <2>4 DEF Rows
<1>7. tail \in Seq(Rows) /\ Len(tail) = k
  <2>1. tail \in [1..k -> Rows]
    BY <1>t, <1>2, <1>6
  <2> QED
    BY <2>1, RowsOf
<1>8. rows' \in Seq(Rows) /\ Len(rows') = Len(rows) + k
  <2>1. head \o tail \in Seq(Rows) /\ Len(head \o tail) = Len(head) + Len(tail)
    BY <1>4, <1>7, Joined
  <2> QED
    BY <1>1, <1>4, <1>7, <2>1
<1>9. \A i \in 1..Len(rows) : rows'[i] = head[i]
  BY <1>1, <1>2, <1>4, <1>7
<1>10. \A n \in 1..k : rows'[Len(rows) + n] = tail[n]
  BY <1>1, <1>2, <1>4, <1>7
<1> QED
  BY <1>2, <1>5, <1>6, <1>8, <1>9, <1>10 DEF Split

LEMMA SegmentKeeps == ASSUME PhotoInv, WriteSegment PROVE PhotoInv'
<1>1. photo' = photo /\ crashes' = crashes /\ pc = "read" /\ job = 3 /\ job' = job
      /\ scratch' = scratch
  <2>1. photo' = photo /\ crashes' = crashes /\ pc = "read" /\ job = 3
    BY DEF WriteSegment, At, SEGMENT, Quiet, bounds
  <2>2. CASE Terminal("needs_review")
    BY <2>1, <2>2 DEF Terminal
  <2>3. CASE \E order : SplitInto(order)
    BY <2>1, <2>3 DEF SplitInto, Done, Goto
  <2> QED
    BY <2>2, <2>3 DEF WriteSegment
<1>2. CASE pc' = "mark" /\ ended' = "needs_review" /\ held' = NoRecords /\ rows' = rows
  BY <1>1, <1>2, GivenUp DEF OffRamps
<1> DEFINE G == photo.shows \ {Primary}
           k == Cardinality(G)
<1>3. ASSUME NEW order \in [1..k -> G],
             \A m, n \in DOMAIN order : order[m] = order[n] => m = n, SplitInto(order)
      PROVE  PhotoInv'
  <2>1. k \in Nat /\ G \subseteq Extra /\ \A p \in G : \E n \in DOMAIN order : order[n] = p
    BY <1>3, OrderIsOnto DEF PhotoInv
  <2> HIDE DEF k
  <2>2. order \in [1..k -> Extra] /\ DOMAIN order = 1..k /\ Len(order) = k
    BY <2>1
  <2>3. Split(order, rows')
    BY <1>3, <2>1, <2>2, SplitRows DEF PhotoInv
  <2> DEFINE L == Len(rows)
  <2>4. L \in Nat /\ L >= 1 /\ DOMAIN rows = 1..L
    BY DEF PhotoInv, PhotoTyped
  <2>5. /\ pc' = "wrote" /\ ended' = ended
        /\ held' = [i \in {1} \cup (L + 1)..(L + Len(order)) |->
                      [cut |-> FALSE, review |-> FALSE, vec |-> FALSE]]
    BY <1>3 DEF SplitInto, Done, Goto
  <2> HIDE DEF L
  <2>6. /\ rows' \in Seq(Rows) /\ Len(rows') = L + k /\ DOMAIN rows' = 1..(L + k)
        /\ \A i \in 1..L :
             Same(rows[i], rows'[i]) /\ rows'[i].why = rows[i].why /\ rows'[i].review = rows[i].review
        /\ \A n \in 1..k :
             /\ rows'[L + n].piece = order[n] /\ rows'[L + n].active
             /\ ~rows'[L + n].cut /\ ~rows'[L + n].emb /\ rows'[L + n].why \subseteq {"moderation"}
    BY <2>2, <2>3, <2>4 DEF Split, L
  <2>7. \A i \in DOMAIN rows' : i \in 1..L \/ \E n \in 1..k : i = L + n
    <3> SUFFICES ASSUME NEW i \in 1..(L + k), i > L PROVE i - L \in 1..k /\ i = L + (i - L)
      BY <2>4, <2>6
    <3> QED
      BY <2>1, <2>4
  <2>8. DOMAIN held' = {1} \cup (L + 1)..(L + k)
        /\ \A i \in DOMAIN held' : held'[i] \in Records
    BY <2>2, <2>5 DEF Records
  <2>9. DOMAIN rows \subseteq DOMAIN rows' /\ DOMAIN held' \subseteq DOMAIN rows'
    BY <2>1, <2>4, <2>6, <2>8
  <2>10. PhotoTyped' /\ StageTyped'
    <3>1. Len(rows') >= 1
      BY <2>1, <2>4, <2>6
    <3>2. Recorded(held', rows') /\ Recorded(scratch', rows')
      BY <1>1, <2>8, <2>9, RecordedStays DEF PhotoInv, PhotoTyped, Recorded
    <3>3. PhotoTyped'
      BY <1>1, <2>6, <3>1, <3>2 DEF PhotoInv, PhotoTyped
    <3> QED
      BY <1>1, <2>5, <3>3 DEF PhotoInv, StageTyped
  <2>11. rows[1].piece = Primary /\ rows'[1].piece = Primary /\ 1 \in DOMAIN rows'
    <3>1. rows[1].piece = Primary
      BY DEF PhotoInv, Counted, Repeats
    <3> QED
      BY <2>4, <2>6, <2>9, <3>1 DEF Same
  <2>12. Counted'
    <3>1. Past(SEGMENT)' /\ ~Past(SEGMENT)
      BY <1>1, <2>5 DEF Past, SEGMENT
    <3>2. \A p \in Extra : Cardinality(Of(rows, p)) <= crashes
      BY <3>1 DEF PhotoInv, Counted, Repeats, PhotoTyped
    <3>3. \A i \in DOMAIN rows' : i # 1 => rows'[i].piece \in Extra
      <4>1. \A i \in 1..L : i # 1 => rows[i].piece \in Extra
        BY <2>4 DEF PhotoInv, Counted, Repeats
      <4>2. \A n \in 1..k : rows'[L + n].piece \in Extra
        BY <2>2, <2>6
      <4> QED
        BY <2>6, <2>7, <4>1, <4>2 DEF Same
    <3>4. ASSUME NEW p \in Extra PROVE Cardinality(Of(rows', p)) <= crashes + 1
      <4>1. PICK j : \A n \in 1..k : order[n] = p => L + n = j
        BY <1>3, <2>2
      <4>2. Of(rows', p) \subseteq Of(rows, p) \cup {j}
        BY <2>4, <2>6, <2>7, <4>1 DEF Of, Same
      <4>3. IsFiniteSet(Of(rows, p)) /\ Cardinality(Of(rows, p)) \in Nat
        BY OfFinite DEF PhotoInv
      <4>4. IsFiniteSet(Of(rows, p) \cup {j})
            /\ Cardinality(Of(rows, p) \cup {j}) =
                 IF j \in Of(rows, p) THEN Cardinality(Of(rows, p)) ELSE Cardinality(Of(rows, p)) + 1
        BY <4>3, FS_AddElement
      <4>5. IsFiniteSet(Of(rows', p))
            /\ Cardinality(Of(rows', p)) <= Cardinality(Of(rows, p) \cup {j})
        BY <4>2, <4>4, FS_Subset
      <4>6. Cardinality(Of(rows', p)) \in Nat
        BY <4>5, FS_CardinalityType
      <4>7. crashes \in Nat /\ Cardinality(Of(rows, p)) <= crashes
        BY <3>2 DEF PhotoInv, PhotoTyped
      <4> QED
        BY <4>3, <4>4, <4>5, <4>6, <4>7
    <3> QED
      BY <1>1, <2>11, <3>1, <3>3, <3>4 DEF Counted, Repeats
  <2>13. Covers(photo.shows, rows', DOMAIN held')
    <3> SUFFICES ASSUME NEW p \in photo.shows
                 PROVE  \E i \in DOMAIN rows' : rows'[i].piece = p /\ i \in DOMAIN held'
      BY DEF Covers
    <3>1. CASE p = Primary
      BY <2>8, <2>11, <3>1
    <3>2. CASE p # Primary
      <4>1. PICK n \in 1..k : order[n] = p
        BY <2>1, <2>2, <3>2
      <4>2. rows'[L + n].piece = p /\ L + n \in DOMAIN held'
        BY <2>1, <2>4, <2>6, <2>8, <4>1
      <4> QED
        BY <2>9, <4>2
    <3> QED
      BY <3>1, <3>2
  <2>14. Covered'
    <3>1. Covers(photo.shows, rows', DOMAIN rows')
      BY <2>9, <2>13 DEF Covers
    <3> QED
      BY <1>1, <2>13, <3>1 DEF Covered, Past, MATTE, EMBED
  <2>15. Whole'
    <3> SUFFICES ASSUME crashes = 0 PROVE Whole'
      BY <1>1 DEF Whole
    <3>1. L = 1
      BY <1>1 DEF PhotoInv, Whole, Past, SEGMENT, L
    <3>2. DOMAIN held' = DOMAIN rows'
      BY <2>1, <2>6, <2>8, <3>1
    <3> QED
      BY <1>1, <2>5, <3>2 DEF Whole, Past, SEGMENT, MATTE, EMBED
  <2>16. Compared'
    <3>1. \A i \in DOMAIN rows' : ~rows'[i].emb
      BY <1>1, <2>4, <2>6, <2>7 DEF PhotoInv, Compared, Same
    <3> QED
      BY <1>1, <3>1 DEF Compared, Past, DEDUPE
  <2>17. Flagged'
    <3>1. \A i \in DOMAIN rows' : Concerned(rows'[i]) => rows'[i].review
      <4>1. \A i \in 1..L : Concerned(rows'[i]) => rows'[i].review
        BY <2>4, <2>6 DEF PhotoInv, Flagged, Concerned
      <4>2. \A n \in 1..k : ~Concerned(rows'[L + n])
        BY <2>6 DEF Concerned
      <4> QED
        BY <2>7, <4>1, <4>2
    <3> QED
      BY <1>1, <3>1 DEF Flagged
  <2> QED
    BY <2>10, <2>12, <2>14, <2>15, <2>16, <2>17 DEF PhotoInv
<1> QED
  BY <1>2, <1>3 DEF WriteSegment, Terminal

LEMMA WorkHolds == ASSUME PhotoInv, Work PROVE PhotoInv'
BY ValidateKeeps, SanitiseKeeps, ModerateKeeps, SegmentKeeps, MatteKeeps, ClassifyKeeps,
   RefusedKeeps, UnusableKeeps, TagKeeps, EmbedKeeps, DedupeKeeps, PersistKeeps DEF Work

LEMMA CoversNone ==
  ASSUME NEW rs, NEW G, NEW D
  PROVE  /\ Covers(G, rs, DOMAIN NoRecords) => Covers(G, rs, D)
         /\ CoversCut(G, rs, DOMAIN NoRecords) => CoversCut(G, rs, D)
<1>1. DOMAIN NoRecords = {}
  BY DEF NoRecords
<1>2. Covers(G, rs, DOMAIN NoRecords) => Covers(G, rs, D)
  BY <1>1 DEF Covers
<1>3. CoversCut(G, rs, DOMAIN NoRecords) => CoversCut(G, rs, D)
  BY <1>1 DEF CoversCut
<1> QED
  BY <1>2, <1>3

LEMMA AdvanceKeeps == ASSUME PhotoInv, Advance PROVE PhotoInv'
<1>1. /\ photo' = photo /\ crashes' = crashes /\ pc = "wrote" /\ job' = job + 1 /\ rows' = rows
      /\ pc' = (IF job' = 10 THEN "over" ELSE "ready") /\ ended' = ended
      /\ scratch' = (IF held # NoRecords THEN held ELSE scratch) /\ held' = NoRecords
  BY DEF Advance, Quiet, bounds, PERSIST
<1>2. job \in 0..9 /\ ended = "no" /\ pc' \in {"ready", "over"}
  BY <1>1 DEF PhotoInv, StageTyped
<1>3. DOMAIN NoRecords = {}
  BY DEF NoRecords
<1>4. PhotoTyped' /\ StageTyped'
  <2>1. PhotoTyped'
    BY <1>1, NothingRecorded DEF PhotoInv, PhotoTyped
  <2> QED
    BY <1>1, <1>2, <2>1 DEF PhotoInv, StageTyped
<1>5. /\ Past(SEGMENT)' = Past(SEGMENT) /\ Past(MATTE)' = Past(MATTE)
      /\ Past(EMBED)' = Past(EMBED) /\ Past(DEDUPE)' = Past(DEDUPE)
  BY <1>1, <1>2 DEF Past, SEGMENT, MATTE, EMBED, DEDUPE
<1>6. Counted'
  BY <1>1, <1>5 DEF PhotoInv, Counted
<1>7. Covered'
  <2>1. job' = 4 => Covers(photo.shows, rows, DOMAIN scratch')
    <3> SUFFICES ASSUME job = 3 PROVE Covers(photo.shows, rows, DOMAIN scratch')
      BY <1>1, <1>2
    <3>1. Covers(photo.shows, rows, DOMAIN held)
      BY <1>1 DEF PhotoInv, Covered
    <3> QED
      BY <1>1, <3>1, CoversNone
  <2>2. job' \in 5..7 /\ scratch' # NoRecords => CoversCut(photo.shows, rows, DOMAIN scratch')
    <3>1. CASE job \in {4, 5}
      <4>1. CoversCut(photo.shows, rows, DOMAIN held)
        BY <1>1, <3>1 DEF PhotoInv, Covered
      <4> QED
        BY <1>1, <4>1, CoversNone
    <3>2. CASE job = 6
      <4>1. held = scratch
        BY <1>1, <3>2 DEF PhotoInv, Covered
      <4>2. scratch' = scratch
        BY <1>1, <4>1
      <4> QED
        BY <3>2, <4>2 DEF PhotoInv, Covered
    <3> QED
      BY <1>1, <1>2, <3>1, <3>2
  <2> QED
    BY <1>1, <1>2, <1>5, <2>1, <2>2 DEF PhotoInv, Covered
<1>8. Whole'
  <2> SUFFICES ASSUME crashes = 0 PROVE Whole'
    BY <1>1 DEF Whole
  <2>1. 1 \in DOMAIN rows
    BY DEF PhotoInv, PhotoTyped
  <2>2. job \in 3..6 => DOMAIN scratch' = DOMAIN rows
    <3>1. job \in {3, 4, 5} => DOMAIN held = DOMAIN rows
      BY <1>1 DEF PhotoInv, Whole
    <3>2. job = 6 => scratch' = scratch /\ DOMAIN scratch = DOMAIN rows
      BY <1>1 DEF PhotoInv, Whole, Covered
    <3> QED
      BY <1>1, <1>3, <2>1, <3>1, <3>2
  <2>3. job \in 4..6 => AllCut(scratch')
    <3>1. job \in {4, 5} => DOMAIN held = DOMAIN rows /\ AllCut(held)
      BY <1>1 DEF PhotoInv, Whole
    <3>2. job = 6 => scratch' = scratch /\ AllCut(scratch)
      BY <1>1 DEF PhotoInv, Whole, Covered
    <3> QED
      BY <1>1, <1>3, <2>1, <3>1, <3>2
  <2> QED
    BY <1>1, <1>2, <1>5, <2>2, <2>3 DEF PhotoInv, Whole
<1>9. Compared'
  <2>1. (\E i \in DOMAIN rows : rows[i].emb) => job' >= 8
    BY <1>1, <1>2 DEF PhotoInv, Compared
  <2>2. ASSUME job = 7, NEW i \in DOMAIN rows, Made(rows[i])
        PROVE  scratch' # NoRecords /\ i \in DOMAIN scratch' /\ scratch'[i].cut /\ scratch'[i].vec
    <3>1. i \in DOMAIN held /\ held[i].cut /\ held[i].vec
      BY <1>1, <2>2 DEF PhotoInv, Compared, AllCut
    <3>2. held # NoRecords
      BY <1>3, <3>1
    <3> QED
      BY <1>1, <3>1, <3>2
  <2>3. job' = 8 => \A i \in DOMAIN rows : Made(rows[i]) =>
          IF scratch' = NoRecords THEN crashes > 0
          ELSE i \in DOMAIN scratch' /\ scratch'[i].cut /\ scratch'[i].vec
    BY <1>1, <1>2, <2>2
  <2> QED
    BY <1>1, <1>2, <1>5, <2>1, <2>3 DEF PhotoInv, Compared
<1>10. Flagged'
  <2>1. job = 4 => Told(rows, scratch')
    BY <1>1 DEF PhotoInv, Flagged
  <2> QED
    BY <1>1, <1>2, <2>1 DEF PhotoInv, Flagged
<1> QED
  BY <1>4, <1>6, <1>7, <1>8, <1>9, <1>10 DEF PhotoInv

LEMMA MarkHolds == ASSUME PhotoInv, Mark PROVE PhotoInv'
<1>1. /\ photo' = photo /\ crashes' = crashes /\ pc = "mark" /\ pc' = "over" /\ job' = job
      /\ ended' = ended /\ held' = held /\ scratch' = scratch
      /\ rows' = [rows EXCEPT ![1].state = ended]
  BY DEF Mark, Quiet, bounds
<1>2. ended \in OffRamps /\ ended # "no"
  BY <1>1 DEF PhotoInv, StageTyped, OffRamps
<1>3. \A i \in DOMAIN rows :
        rows'[i] \in Rows /\ Same(rows[i], rows'[i]) /\ (Concerned(rows'[i]) => rows'[i].review)
  <2> SUFFICES ASSUME NEW i \in DOMAIN rows
      PROVE rows'[i] \in Rows /\ Same(rows[i], rows'[i]) /\ (Concerned(rows'[i]) => rows'[i].review)
    OBVIOUS
  <2>1. rows[i] \in Rows /\ (Concerned(rows[i]) => rows[i].review)
    BY RowTyped DEF PhotoInv, Flagged
  <2>2. rows'[i] = rows[i] \/ rows'[i] = [rows[i] EXCEPT !.state = ended]
    BY <1>1
  <2> QED
    BY <1>2, <2>1, <2>2 DEF Rows, Same, Concerned
<1>4. DOMAIN rows' = DOMAIN rows /\ rows' = [i \in DOMAIN rows |-> rows'[i]]
  BY <1>1
<1>5. rows' \in Seq(Rows) /\ Alike(rows, rows')
  BY <1>3, <1>4, OneByOne, AlikeSame DEF PhotoInv
<1>6. StageTyped'
  BY <1>1, <1>2 DEF PhotoInv, StageTyped
<1>7. held = NoRecords
  BY <1>1 DEF PhotoInv, StageTyped
<1> QED
  BY <1>1, <1>2, <1>3, <1>4, <1>5, <1>6, <1>7, Rest

LEMMA StageFailsKeeps == ASSUME PhotoInv, StageFails PROVE PhotoInv'
<1>1. /\ photo' = photo /\ rows' = rows /\ crashes' = crashes /\ pc = "read" /\ job' = job
      /\ held' = NoRecords /\ scratch' = scratch
      /\ \/ pc' = "ready" /\ ended' = ended
         \/ pc' = "over" /\ ended' = "dlq"
  BY DEF StageFails
<1>2. Alike(rows, rows')
  BY <1>1 DEF Alike, Grown
<1>3. StageTyped'
  BY <1>1 DEF PhotoInv, StageTyped
<1>4. ended = "no"
  BY <1>1 DEF PhotoInv, StageTyped
<1> QED
  BY <1>1, <1>2, <1>3, <1>4, Rest DEF PhotoInv, PhotoTyped, Flagged

LEMMA CrashKeeps == ASSUME PhotoInv, Crash PROVE PhotoInv'
<1>1. /\ photo' = photo /\ rows' = rows /\ crashes' = crashes + 1
      /\ held' = NoRecords /\ scratch' = NoRecords
      /\ pc \in {"ready", "read", "wrote", "mark"} \/ ended = "degraded_tagged"
  BY DEF Crash
<1>2. \/ ended = "no" /\ pc' = "ready" /\ job' = job /\ ended' = ended
      \/ ended = "degraded_tagged" /\ pc' = "ready" /\ job' = 0 /\ ended' = "no"
      \/ ended \notin {"no", "degraded_tagged"} /\ pc' = "over" /\ job' = job /\ ended' = ended
  BY DEF Crash
<1>3. crashes \in Nat /\ crashes' # 0 /\ crashes' > 0
  BY <1>1 DEF PhotoInv, PhotoTyped
<1>4. PhotoTyped' /\ StageTyped'
  <2>1. PhotoTyped'
    BY <1>1, <1>3, NothingRecorded DEF PhotoInv, PhotoTyped
  <2>2. StageTyped'
    BY <1>1, <1>2 DEF PhotoInv, StageTyped, OffRamps
  <2> QED
    BY <2>1, <2>2
<1>5. \A k \in {4, 5, 8, 9} : Past(k)' => Past(k)
  BY <1>2 DEF Past, PhotoInv, StageTyped
<1>6. Counted'
  <2>1. Grown(rows, rows')
    BY <1>1 DEF Grown
  <2> QED
    BY <1>1, <1>4, <2>1, CountedStays DEF PhotoInv
<1>7. Covered'
  <2>1. pc' # "wrote" /\ pc' # "read"
    BY <1>2
  <2> QED
    BY <1>1, <1>5, <2>1 DEF PhotoInv, Covered, SEGMENT, MATTE, EMBED
<1>8. Whole'
  BY <1>3 DEF Whole
<1>9. Compared'
  <2>1. (\E i \in DOMAIN rows : rows[i].emb) => job' >= 7
    BY <1>2 DEF PhotoInv, Compared, StageTyped
  <2>2. \A i \in DOMAIN rows : Twin(rows[i], crashes') => Twin(rows[i], crashes)
    BY <1>3 DEF Twin
  <2>3. (Past(DEDUPE) /\ ended = "no" => \A i \in DOMAIN rows :
          Made(rows[i]) /\ ~rows[i].answered /\ Twin(rows[i], crashes) => Put(rows[i]))'
    <3> SUFFICES ASSUME Past(DEDUPE)', ended' = "no" 
                 PROVE  Past(DEDUPE) /\ ended = "no"
      BY <1>1, <2>2 DEF PhotoInv, Compared
    <3> QED
      BY <1>2, <1>5 DEF Past, DEDUPE
  <2>4. pc' # "wrote" /\ pc' # "read" /\ job' \in 0..10
    BY <1>2, <1>4 DEF StageTyped
  <2> QED
    BY <1>1, <1>3, <2>1, <2>3, <2>4 DEF Compared
<1>10. Flagged'
  <2>1. DOMAIN NoRecords = {}
    BY DEF NoRecords
  <2> QED
    BY <1>1, <1>2, <2>1 DEF PhotoInv, Flagged, Told
<1> QED
  BY <1>4, <1>6, <1>7, <1>8, <1>9, <1>10 DEF PhotoInv

\* One row is edited.
LEMMA Edits ==
  ASSUME PhotoInv, NEW i \in DOMAIN rows, NEW r \in Rows, Edit(i, r),
         r.piece = rows[i].piece, r.active => rows[i].active, r.cut = rows[i].cut,
         r.emb = rows[i].emb, Concerned(r) => Concerned(rows[i]) /\ r.review = rows[i].review,
         r.active /\ ~r.answered => ~rows[i].answered /\ (Put(rows[i]) => Put(r))
  PROVE  PhotoInv'
<1>1. /\ rows' = [rows EXCEPT ![i] = r] /\ photo' = photo /\ crashes' = crashes
      /\ job' = job /\ ended' = ended /\ pc' = pc /\ held' = held /\ scratch' = scratch
  BY DEF Edit, pipeline
<1>2. DOMAIN rows' = DOMAIN rows /\ rows' = [j \in DOMAIN rows |-> rows'[j]]
      /\ rows'[i] = r /\ \A j \in DOMAIN rows : j # i => rows'[j] = rows[j]
  BY <1>1
<1>3. \A j \in DOMAIN rows : rows'[j] \in Rows
  BY <1>2, RowTyped DEF PhotoInv
<1>4. rows' \in Seq(Rows)
  BY <1>2, <1>3, OneByOne DEF PhotoInv
<1>5. Alike(rows, rows')
  BY <1>2 DEF Alike, Grown
<1>6. \A j \in DOMAIN rows : Concerned(rows'[j]) =>
        Concerned(rows[j]) /\ rows'[j].review = rows[j].review
  BY <1>2
<1>7. \A j \in DOMAIN rows : rows'[j].active /\ ~rows'[j].answered =>
        ~rows[j].answered /\ (Put(rows[j]) => Put(rows'[j]))
  BY <1>2
<1> QED
  BY <1>1, <1>4, <1>5, <1>6, <1>7, Aside

LEMMA UserHolds == ASSUME PhotoInv, User PROVE PhotoInv'
<1> PICK i \in DOMAIN rows : (\E f \in Fields : Correct(i, f)) \/ Remove(i) \/ Resolve(i)
  BY DEF User
<1>1. rows[i] \in Rows
  BY RowTyped DEF PhotoInv
<1>2. ASSUME NEW f \in Fields, Correct(i, f) PROVE PhotoInv'
  <2> PICK b : b = [rows[i].by EXCEPT ![f] = "user"]
    OBVIOUS
  <2> PICK v : v = rows[i].verified \cup {f}
    OBVIOUS
  <2> PICK s : s = [rows[i] EXCEPT !.by = b, !.verified = v, !.review = FALSE, !.why = {}]
    OBVIOUS
  <2>1. Edit(i, s)
    BY <1>2 DEF Correct
  <2>2. b \in [Fields -> Sources] /\ v \in SUBSET Fields
    BY <1>1 DEF Rows, Sources
  <2>3. /\ s \in Rows /\ Same(rows[i], s) /\ s.why = {} /\ s.state = rows[i].state
        /\ s.dup = rows[i].dup
    BY <1>1, <2>2 DEF Rows, Same
  <2> QED
    BY <2>1, <2>3, Edits DEF Same, Concerned, Put
<1>3. CASE Remove(i)
  <2> PICK s : s = [rows[i] EXCEPT !.active = FALSE]
    OBVIOUS
  <2>1. Edit(i, s)
    BY <1>3 DEF Remove
  <2>2. /\ s \in Rows /\ s.piece = rows[i].piece /\ ~s.active /\ s.cut = rows[i].cut
        /\ s.emb = rows[i].emb /\ s.why = rows[i].why /\ s.review = rows[i].review
    BY <1>1 DEF Rows
  <2> QED
    BY <2>1, <2>2, Edits DEF Concerned
<1>4. CASE Resolve(i)
  <2> PICK s : s = [rows[i] EXCEPT !.state = "matted", !.dup = FALSE, !.answered = TRUE]
    OBVIOUS
  <2> PICK t : t = [rows[i] EXCEPT !.active = FALSE, !.answered = TRUE]
    OBVIOUS
  <2>1. Edit(i, s) \/ Edit(i, t)
    BY <1>4 DEF Resolve
  <2>2. /\ s \in Rows /\ s.piece = rows[i].piece /\ s.active = rows[i].active
        /\ s.cut = rows[i].cut /\ s.answered
        /\ s.emb = rows[i].emb /\ s.why = rows[i].why /\ s.review = rows[i].review
    BY <1>1 DEF Rows
  <2>3. /\ t \in Rows /\ t.piece = rows[i].piece /\ ~t.active /\ t.cut = rows[i].cut
        /\ t.emb = rows[i].emb /\ t.why = rows[i].why /\ t.review = rows[i].review
    BY <1>1 DEF Rows
  <2>4. CASE Edit(i, s)
    BY <2>2, <2>4, Edits DEF Concerned
  <2>5. CASE Edit(i, t)
    BY <2>3, <2>5, Edits DEF Concerned
  <2> QED
    BY <2>1, <2>4, <2>5
<1> QED
  BY <1>2, <1>3, <1>4

LEMMA PhotoInit == Init => PhotoInv
<1> SUFFICES ASSUME Init PROVE PhotoInv
  OBVIOUS
<1>1. /\ photo \in Photos /\ rows = <<NewRow(Primary)>> /\ job = 0 /\ ended = "no"
      /\ pc = "ready" /\ held = NoRecords /\ scratch = NoRecords /\ crashes = 0
  BY DEF Init, Photos
<1>2. NewRow(Primary) \in Rows /\ NewRow(Primary).piece = Primary /\ ~NewRow(Primary).emb
      /\ NewRow(Primary).why = {}
  BY DEF NewRow, Rows, Pieces, Sources, Fields
<1> PICK r : r = NewRow(Primary)
  OBVIOUS
<1>3. rows \in Seq(Rows) /\ Len(rows) = 1 /\ rows[1] = r /\ DOMAIN rows = {1}
  BY <1>1, <1>2
<1>4. PhotoTyped /\ StageTyped
  BY <1>1, <1>3, NothingRecorded DEF PhotoTyped, StageTyped
<1>5. Counted
  <2>1. ~Past(SEGMENT)
    BY <1>1 DEF Past, SEGMENT
  <2>2. \A p \in Extra : Of(rows, p) = {}
    BY <1>2, <1>3, PiecesAssumption DEF Of
  <2>3. \A p \in Extra : Cardinality(Of(rows, p)) = 0
    BY <2>2, FS_EmptySet
  <2> QED
    BY <1>1, <1>2, <1>3, <2>1, <2>3 DEF Counted, Repeats
<1>6. Covered /\ Whole
  BY <1>1, <1>3 DEF Covered, Whole, Past, SEGMENT, MATTE, EMBED
<1>7. Compared
  BY <1>1, <1>2, <1>3 DEF Compared, Past, DEDUPE
<1>8. Flagged
  BY <1>1, <1>2, <1>3 DEF Flagged, Concerned
<1> QED
  BY <1>4, <1>5, <1>6, <1>7, <1>8 DEF PhotoInv

LEMMA PhotoInductive == Spec => []PhotoInv
<1>1. ASSUME PhotoInv, [Next]_vars PROVE PhotoInv'
  <2>1. CASE LoseIntermediate \/ UNCHANGED vars
    <3>1. /\ photo' = photo /\ rows' = rows /\ job' = job /\ scratch' = scratch
          /\ crashes' = crashes /\ held' = held /\ pc' = pc /\ ended' = ended
      BY <2>1 DEF LoseIntermediate, vars, pipeline, bounds
    <3>2. Alike(rows, rows')
      BY <3>1 DEF Alike, Grown
    <3> QED
      BY <1>1, <3>1, <3>2, Aside DEF PhotoInv, PhotoTyped
  <2> QED
    BY <1>1, <2>1, ReadsKeep, WorkHolds, AdvanceKeeps, MarkHolds, StageFailsKeeps, CrashKeeps,
       UserHolds DEF Next
<1> QED
  BY <1>1, PhotoInit, PTL DEF Spec

\* No field the user wrote and verified has another writer afterwards.
UsersStay == \A i \in DOMAIN rows : \A f \in rows[i].verified :
               rows[i].by[f] = "user" => rows'[i].by[f] = "user"

LEMMA SameWriters ==
  ASSUME \A i \in DOMAIN rows : rows'[i].by = rows[i].by
  PROVE  UsersStay
BY DEF UsersStay

LEMMA FlagWriters == ASSUME NEW r \in Rows PROVE Flag(r, "tags", TRUE).by = r.by
BY DEF Flag, Because, Rows

LEMMA WorkKeepsUsers ==
  ASSUME PhotoInv, Work, job >= CLASSIFY
  PROVE  UsersStay
<1> USE DEF CLASSIFY
<1>1. ~Validate /\ ~Sanitise /\ ~WriteModerate /\ ~WriteSegment /\ ~WriteMatte /\ ~WriteClassify
  <2>1. /\ ~At(VALIDATE, "ready") /\ ~At(SANITISE, "ready") /\ ~At(MODERATE, "read")
        /\ ~At(SEGMENT, "read") /\ ~At(MATTE, "read") /\ ~At(CLASSIFY, "read")
    BY DEF At, PhotoInv, StageTyped, VALIDATE, SANITISE, MODERATE, SEGMENT, MATTE
  <2>2. ~Validate /\ ~Sanitise /\ ~WriteModerate
    BY <2>1 DEF Validate, Sanitise, WriteModerate
  <2>3. ~WriteSegment /\ ~WriteMatte
    BY <2>1 DEF WriteSegment, WriteMatte
  <2>4. ~WriteClassify
    BY <2>1 DEF WriteClassify
  <2> QED
    BY <2>2, <2>3, <2>4
<1>2. \A i \in DOMAIN rows : rows[i] \in Rows
  BY RowTyped DEF PhotoInv
<1>3. CASE TagRefused \/ TagUnusable
  <2>1. \A i \in DOMAIN rows : rows'[i] = rows[i] \/ rows'[i] = Flag(rows[i], "tags", TRUE)
    BY <1>3 DEF TagRefused, TagUnusable, Write
  <2> QED
    BY <1>2, <2>1, FlagWriters, SameWriters
<1>4. CASE WriteTag
  BY <1>4, Tagged DEF UsersStay
<1>5. CASE WriteEmbed
  <2>1. \A i \in DOMAIN rows : rows'[i] = rows[i]
          \/ rows'[i] = [rows[i] EXCEPT !.emb = TRUE, !.state = "embedded"]
    BY <1>5 DEF WriteEmbed, Write
  <2>2. \A i \in DOMAIN rows : rows'[i].by = rows[i].by
    BY <1>2, <2>1, ZenonT(30) DEF Rows
  <2> QED
    BY <2>2, SameWriters
<1>6. CASE WriteDedupe
  <2>1. \A i \in DOMAIN rows : rows'[i] = rows[i]
          \/ rows'[i] = [rows[i] EXCEPT !.dup = Proposed(i),
                           !.state = IF Proposed(i) THEN "duplicate_suspect" ELSE "deduped"]
    BY <1>6 DEF WriteDedupe, Write
  <2>2. \A i \in DOMAIN rows : rows'[i].by = rows[i].by
    BY <1>2, <2>1, ZenonT(30) DEF Rows
  <2> QED
    BY <2>2, SameWriters
<1>7. CASE Persist
  <2>1. \A i \in DOMAIN rows : rows'[i] = rows[i] \/ rows'[i] = [rows[i] EXCEPT !.state = "matted"]
    BY <1>7 DEF Persist
  <2>2. \A i \in DOMAIN rows : rows'[i].by = rows[i].by
    BY <1>2, <2>1 DEF Rows
  <2> QED
    BY <2>2, SameWriters
<1> QED
  BY <1>1, <1>3, <1>4, <1>5, <1>6, <1>7 DEF Work

LEMMA UserKeepsUsers == ASSUME PhotoInv, User PROVE UsersStay
<1> PICK i \in DOMAIN rows : (\E f \in Fields : Correct(i, f)) \/ Remove(i) \/ Resolve(i)
  BY DEF User
<1>1. rows[i] \in Rows
  BY RowTyped DEF PhotoInv
<1>2. ASSUME NEW r, Edit(i, r), \A g \in Fields : rows[i].by[g] = "user" => r.by[g] = "user"
      PROVE  UsersStay
  <2>1. rows' = [rows EXCEPT ![i] = r]
    BY <1>2 DEF Edit
  <2>2. rows[i].verified \subseteq Fields
    BY <1>1 DEF Rows
  <2> QED
    BY <1>2, <2>1, <2>2 DEF UsersStay
<1>3. ASSUME NEW f \in Fields, Correct(i, f) PROVE UsersStay
  <2> PICK b : b = [rows[i].by EXCEPT ![f] = "user"]
    OBVIOUS
  <2> PICK s : s = [rows[i] EXCEPT !.by = b, !.verified = rows[i].verified \cup {f},
                                   !.review = FALSE, !.why = {}]
    OBVIOUS
  <2>1. Edit(i, s)
    BY <1>3 DEF Correct
  <2>2. \A g \in Fields : rows[i].by[g] = "user" => b[g] = "user"
    BY <1>1 DEF Rows
  <2>3. s.by = b
    BY <1>1 DEF Rows
  <2>4. \A g \in Fields : rows[i].by[g] = "user" => s.by[g] = "user"
    BY <2>2, <2>3
  <2> HIDE <2>2, <2>3
  <2> QED
    BY <1>2, <2>1, <2>4
<1>4. CASE Remove(i)
  <2>1. [rows[i] EXCEPT !.active = FALSE].by = rows[i].by
    BY <1>1 DEF Rows
  <2> QED
    BY <1>2, <1>4, <2>1 DEF Remove
<1>5. CASE Resolve(i)
  <2> PICK s : s = [rows[i] EXCEPT !.state = "matted", !.dup = FALSE, !.answered = TRUE]
    OBVIOUS
  <2> PICK t : t = [rows[i] EXCEPT !.active = FALSE, !.answered = TRUE]
    OBVIOUS
  <2>1. Edit(i, s) \/ Edit(i, t)
    BY <1>5 DEF Resolve
  <2>2. s.by = rows[i].by /\ t.by = rows[i].by
    BY <1>1 DEF Rows
  <2> QED
    BY <1>2, <2>1, <2>2
<1> QED
  BY <1>3, <1>4, <1>5

LEMMA MarkKeepsUsers == ASSUME PhotoInv, Mark PROVE UsersStay
<1>1. \A i \in DOMAIN rows : rows'[i] = rows[i] \/ rows'[i] = [rows[i] EXCEPT !.state = ended]
  BY DEF Mark
<1>2. \A i \in DOMAIN rows : rows'[i].by = rows[i].by
  BY <1>1, RowTyped DEF PhotoInv, Rows
<1> QED
  BY <1>2, SameWriters

LEMMA OthersKeepUsers ==
  ASSUME Read \/ Advance \/ StageFails \/ Crash \/ LoseIntermediate \/ UNCHANGED vars
  PROVE  UsersStay
<1>1. rows' = rows
  <2>1. Read => rows' = rows
    BY DEF Read, ReadModerate, ReadSegment, ReadMatte, ReadClassify, ReadTag, ReadEmbed,
           ReadDedupe
  <2> QED
    BY <2>1 DEF Advance, StageFails, Crash, LoseIntermediate, vars
<1> QED
  BY <1>1, SameWriters

(* From classify on nothing the stages write undoes a correction: a field  *)
(* the user has written and verified stays his through tag, embed, dedupe, *)
(* persist and every repeat of them (tag.py, _keep_if_verified), for any   *)
(* photo and any number of edits, crashes and faults.                      *)
THEOREM CorrectionsAreKept == Spec => CorrectionsKept
<1>1. PhotoInv /\ [Next]_vars => (job >= CLASSIFY => UsersStay)
  BY WorkKeepsUsers, UserKeepsUsers, MarkKeepsUsers, OthersKeepUsers DEF Next
<1>2. PhotoInv /\ [Next]_vars =>
        [\A i \in DOMAIN rows : job >= CLASSIFY =>
           \A f \in rows[i].verified : rows[i].by[f] = "user" => rows'[i].by[f] = "user"]_vars
  BY <1>1 DEF UsersStay
<1> QED
  BY PhotoInductive, <1>2, PTL DEF Spec, CorrectionsKept

(* However often its stages are repeated, and from whatever records, a     *)
(* photo that completes has for each of its garments a row with a cutout   *)
(* and an embedding or one the user took out; and of one garment there are *)
(* no more rows than one and one for each worker lost (segment.py inserts  *)
(* the secondary garments afresh).                                         *)
THEOREM SplitsAreWhole == Spec => []SplitIsWhole
<1>1. ASSUME PhotoInv PROVE SplitIsWhole
  <2>1. Complete => job = 10
    BY <1>1 DEF PhotoInv, StageTyped, Complete
  <2>2. Complete => CoversMade(photo.shows, rows)
    BY <1>1, <2>1 DEF PhotoInv, Covered, Past, EMBED
  <2>3. ASSUME NEW p \in Pieces PROVE Cardinality(Of(rows, p)) <= 1 + crashes
    <3>1. crashes \in Nat /\ Cardinality(Of(rows, p)) \in Nat
      BY <1>1, OfFinite DEF PhotoInv, PhotoTyped
    <3>2. CASE p = Primary
      <4>1. Of(rows, p) = {1}
        BY <1>1, <3>2, PiecesAssumption DEF Of, PhotoInv, PhotoTyped, Counted, Repeats
      <4>2. Cardinality(Of(rows, p)) = 1
        BY <4>1, FS_Singleton
      <4> QED
        BY <3>1, <4>2
    <3>3. CASE p \in Extra
      BY <1>1, <3>1, <3>3 DEF PhotoInv, Counted, Repeats
    <3> QED
      BY <3>2, <3>3 DEF Pieces
  <2>4. Complete /\ crashes = 0 => \A i \in Active : rows[i].cut /\ rows[i].emb
    BY <1>1, <2>1 DEF PhotoInv, Whole, Past, MATTE, EMBED, Active
  <2> QED
    BY <2>2, <2>3, <2>4 DEF SplitIsWhole, CoversMade, Of
<1> QED
  BY PhotoInductive, <1>1, PTL

(* What a stage finds wrong reaches the user: a photo that completes puts  *)
(* every garment known by its picture, and if no worker was lost every one *)
(* known by its embedding, as a duplicate question; and what matte,        *)
(* classify or tag flagged stays under review until the user has looked.   *)
THEOREM FlagsAreNotLost == Spec => []FlagsReachTheUser
<1>1. ASSUME PhotoInv PROVE FlagsReachTheUser
  <2>1. Complete => \A i \in DOMAIN rows :
          Made(rows[i]) /\ ~rows[i].answered /\ Twin(rows[i], crashes) => Put(rows[i])
    <3>1. Complete => job = 10 /\ ended = "no"
      BY <1>1 DEF PhotoInv, StageTyped, Complete
    <3> QED
      BY <1>1, <3>1 DEF PhotoInv, Compared, Past, DEDUPE
  <2>2. Complete => \A i \in Active :
          /\ rows[i].cut /\ rows[i].emb /\ ~rows[i].answered
          /\ rows[i].piece \in HashTwins \/ (rows[i].piece \in VectorTwins /\ crashes = 0)
          => rows[i].state = "duplicate_suspect" /\ rows[i].dup
    BY <2>1 DEF Made, Twin, Put, Active
  <2>3. \A i \in DOMAIN rows :
          "cutout" \in rows[i].why \/ "colour" \in rows[i].why \/ "tags" \in rows[i].why
          => rows[i].review
    BY <1>1 DEF PhotoInv, Flagged, Concerned
  <2> QED
    BY <2>2, <2>3 DEF FlagsReachTheUser
<1> QED
  BY PhotoInductive, <1>1, PTL
================================================================================
