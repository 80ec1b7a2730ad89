------------------------------- MODULE Wardrobe --------------------------------
(***************************************************************************)
(* The wardrobe as several requests change it at once: the wear log        *)
(* (stylist_api/routers/wear.py), the removal of a garment (garments.py),  *)
(* the duplicate questions the dedupe stage asks (stages/dedupe.py) and    *)
(* the answers to them (duplicates.py).                                    *)
(*                                                                         *)
(* Every request is one Postgres transaction under READ COMMITTED: each    *)
(* of its statements sees what is committed when it starts, and what the   *)
(* transaction itself has done.  A statement that meets a wear_log key     *)
(* another transaction has inserted or deleted waits for it; that is a     *)
(* guard here.  The last statement of a transaction is one step with its   *)
(* COMMIT, except in unlog_wear, whose COMMIT comes after the response.    *)
(***************************************************************************)
EXTENDS Integers, FiniteSets

CONSTANTS Garments,      \* rows of one user's garments
          Articles,      \* the things they show ...
          Shows,         \* ... and which of them a row shows
          Days,
          Worn,          \* the wear log to begin with
          Clients,       \* requests (and dedupe jobs) in flight
          None,
          MaxRequests    \* bound: requests begun

ASSUME ShowsAssumption ==
  /\ Shows \in [Garments -> Articles]
  /\ \A a \in Articles : \E g \in Garments : Shows[g] = a
ASSUME WornAssumption == Worn \subseteq Garments \X Days
ASSUME NoneAssumption == None \notin Garments
ASSUME BoundAssumption == MaxRequests \in Nat

VARIABLES active,        \* garments.is_active
          question,      \* state = duplicate_suspect, and duplicate_of
          deduped,       \* rows whose ingest job has passed the dedupe stage
          wears,         \* committed rows of wear_log
          tx,            \* the transaction each client has open
          begun,         \* requests begun so far
          acked,         \* wearings the user was told are logged
          undone,        \* wearings the user took back: article and day
          unseen,        \* ... and those committed too late for a merge to see
          removed,       \* articles the user removed a row of
          crossed        \* a row came into question, or was merged away, while
                         \* a dedupe job held it as the candidate of another

rows == <<active, question, deduped, wears>>
told == <<acked, undone, unseen, removed, crossed>>
vars == <<rows, tx, begun, told>>

Wears == Garments \X Days
Alike(g, h) == Shows[g] = Shows[h]
Fact(w) == <<Shows[w[1]], w[2]>>

Ops == {"log", "unlog", "same", "different", "remove", "dedupe"}

\* An open transaction: what it is for, the garment and the day, the statement
\* it has behind it, what it read (duplicate_of), and its uncommitted rows.
Closed == [op |-> "none", garment |-> None, day |-> None, at |-> "closed",
           orig |-> None, ins |-> {}, del |-> {}]

Init ==
  /\ active = Garments
  /\ \E asked \in SUBSET Garments :
       question \in {q \in [Garments -> Garments \cup {None}] :
                       \A g \in Garments :
                         IF g \in asked THEN q[g] \in Garments \ asked ELSE q[g] = None}
       /\ deduped = asked
  /\ wears = Worn
  /\ tx = [c \in Clients |-> Closed]
  /\ begun = 0
  /\ acked = wears
  /\ undone = {} /\ unseen = {} /\ removed = {}
  /\ crossed = FALSE
--------------------------------------------------------------------------------
(* Transactions. *)

Open(c, op) == tx[c].op = op
At(c, op, statement) == Open(c, op) /\ tx[c].at = statement

Begin(c, op, g, d, orig) ==
  /\ tx[c] = Closed /\ begun < MaxRequests
  /\ begun' = begun + 1
  /\ tx' = [tx EXCEPT ![c] = [op |-> op, garment |-> g, day |-> d, at |-> "read",
                              orig |-> orig, ins |-> {}, del |-> {}]]
  /\ UNCHANGED <<rows, told>>

Done(c, statement, ins, del) ==
  /\ tx' = [tx EXCEPT ![c].at = statement, ![c].ins = @ \cup ins, ![c].del = @ \cup del]
  /\ begun' = begun

\* A dedupe job has read the row and is about to name it in a question.
Candidate(g) == \E o \in Clients : At(o, "dedupe", "read") /\ tx[o].orig = g

\* Rows another transaction has inserted or deleted and not committed.
Held(c) == UNION {tx[o].ins \cup tx[o].del : o \in Clients \ {c}}
Free(c, keys) == keys \cap Held(c) = {}

\* Rows of wear_log the client's next statement sees.
Visible(c) == (wears \ tx[c].del) \cup tx[c].ins

\* The rows a merge deletes without having copied them: they became visible
\* between its INSERT ... SELECT and its DELETE.
Slipped(new) ==
  {w \in new : \E o \in Clients : At(o, "same", "copied") /\ tx[o].garment = w[1]}

Commit(c) ==
  /\ wears' = (wears \ tx[c].del) \cup tx[c].ins
  /\ unseen' = unseen \cup {Fact(w) : w \in Slipped(tx[c].ins \ wears)}
  /\ tx' = [tx EXCEPT ![c] = Closed]
  /\ begun' = begun
--------------------------------------------------------------------------------
(* POST /garments/{id}/wear *)

LogWear(c, g, d) == g \in active /\ Begin(c, "log", g, d, None)

\* INSERT ... ON CONFLICT (garment_id, worn_on) DO NOTHING
InsertWear(c) ==
  /\ At(c, "log", "read")
  /\ LET w == <<tx[c].garment, tx[c].day>>
     IN  Free(c, {w}) /\ Done(c, "inserted", {w} \ wears, {})
  /\ UNCHANGED <<rows, told>>

LogCommit(c) ==
  /\ At(c, "log", "inserted")
  /\ acked' = acked \cup {<<tx[c].garment, tx[c].day>>}
  /\ Commit(c)
  /\ UNCHANGED <<active, question, deduped, undone, removed, crossed>>

(* DELETE /garments/{id}/wear/{day}: answered before it is committed. *)

UnlogWear(c, g, d) == g \in active /\ Begin(c, "unlog", g, d, None)

DeleteWear(c) ==
  /\ At(c, "unlog", "read")
  /\ LET w == <<tx[c].garment, tx[c].day>>
     IN  /\ w \notin UNION {tx[o].del : o \in Clients \ {c}}
         /\ Done(c, "deleted", {}, {w} \cap wears)
         /\ undone' = undone \cup {Fact(w)}
  /\ UNCHANGED <<rows, acked, unseen, removed, crossed>>

UnlogCommit(c) ==
  /\ At(c, "unlog", "deleted")
  /\ Commit(c)
  /\ UNCHANGED <<active, question, deduped, acked, undone, removed, crossed>>

(* DELETE /garments/{id} *)

Remove(c, g) == g \in active /\ Begin(c, "remove", g, None, None)

RemoveCommit(c) ==
  /\ At(c, "remove", "read")
  /\ active' = active \ {tx[c].garment}
  /\ removed' = removed \cup {Shows[tx[c].garment]}
  /\ Commit(c)
  /\ UNCHANGED <<question, deduped, acked, undone, crossed>>
--------------------------------------------------------------------------------
(* POST /garments/{id}/duplicate-resolution.  The SELECT locks nothing and *)
(* what it found is not looked at again.  The user answers truthfully, but  *)
(* may answer twice.                                                       *)

Answer(c, g, answer) ==
  /\ g \in active /\ question[g] # None
  /\ answer = "same" <=> Alike(g, question[g])
  /\ Begin(c, answer, g, None, question[g])

DifferentCommit(c) ==
  /\ At(c, "different", "read")
  /\ question' = [question EXCEPT ![tx[c].garment] = None]
  /\ Commit(c)
  /\ UNCHANGED <<active, deduped, acked, undone, removed, crossed>>

\* INSERT ... SELECT of the duplicate's wearings onto the original, ON CONFLICT
\* DO NOTHING.
CopyAllOrNone(c) ==
  /\ At(c, "same", "read")
  /\ LET copies == {<<tx[c].orig, w[2]>> : w \in {v \in Visible(c) : v[1] = tx[c].garment}}
     IN  /\ Free(c, copies)
         /\ Done(c, "copied", IF copies \cap wears = {} THEN copies ELSE {}, {})
  /\ UNCHANGED <<rows, told>>

CopyEverything(c) ==
  /\ At(c, "same", "read")
  /\ LET copies == {<<tx[c].orig, w[2]>> : w \in Visible(c)}
     IN  Free(c, copies) /\ Done(c, "copied", copies \ wears, {})
  /\ UNCHANGED <<rows, told>>

Copy(c) ==
  /\ At(c, "same", "read")
  /\ LET copies == {<<tx[c].orig, w[2]>> : w \in {v \in Visible(c) : v[1] = tx[c].garment}}
     IN  Free(c, copies) /\ Done(c, "copied", copies \ wears, {})
  /\ UNCHANGED <<rows, told>>

\* DELETE FROM wear_log WHERE garment_id = the duplicate
Clear(c) ==
  /\ At(c, "same", "copied")
  /\ LET own == {w \in Visible(c) : w[1] = tx[c].garment}
     IN  /\ own \cap UNION {tx[o].del : o \in Clients \ {c}} = {}
         /\ Done(c, "cleared", {}, own)
  /\ UNCHANGED <<rows, told>>

MergeCommit(c) ==
  /\ At(c, "same", "cleared")
  /\ active' = active \ {tx[c].garment}
  /\ crossed' = (crossed \/ Candidate(tx[c].garment))
  /\ Commit(c)
  /\ UNCHANGED <<question, deduped, acked, undone, removed>>
--------------------------------------------------------------------------------
(* The dedupe stage of a garment's job: it looks for a candidate in one    *)
(* transaction and writes the question in another, without a second look.  *)

Candidates(g) == {h \in active \ {g} : question[h] = None}

\* A look-alike may be missed, and a stranger may be taken for one.
FindDuplicate(c, g) ==
  /\ g \notin deduped
  /\ \A o \in Clients : ~(Open(o, "dedupe") /\ tx[o].garment = g)
  /\ \E found \in Candidates(g) \cup {None} : Begin(c, "dedupe", g, None, found)

WriteQuestion(c) ==
  /\ At(c, "dedupe", "read")
  /\ question' = [question EXCEPT ![tx[c].garment] = tx[c].orig]
  /\ deduped' = deduped \cup {tx[c].garment}
  /\ crossed' = (crossed \/ (tx[c].orig # None /\ Candidate(tx[c].garment)))
  /\ Commit(c)
  /\ UNCHANGED <<active, acked, undone, removed>>
--------------------------------------------------------------------------------
Request(c) ==
  \E g \in Garments :
    \/ \E d \in Days : LogWear(c, g, d) \/ UnlogWear(c, g, d)
    \/ Remove(c, g)
    \/ Answer(c, g, "same") \/ Answer(c, g, "different")
    \/ FindDuplicate(c, g)

Statement(c) ==
  \/ InsertWear(c) \/ LogCommit(c)
  \/ DeleteWear(c) \/ UnlogCommit(c)
  \/ RemoveCommit(c)
  \/ DifferentCommit(c)
  \/ Copy(c) \/ Clear(c) \/ MergeCommit(c)
  \/ WriteQuestion(c)

Next == \E c \in Clients : Request(c) \/ Statement(c)

Spec == Init /\ [][Next]_vars
--------------------------------------------------------------------------------
Transactions ==
  [op : Ops \cup {"none"}, garment : Garments \cup {None}, day : Days \cup {None},
   at : {"closed", "read", "inserted", "deleted", "copied", "cleared"},
   orig : Garments \cup {None}, ins : SUBSET Wears, del : SUBSET Wears]

TypeOK ==
  /\ active \subseteq Garments
  /\ question \in [Garments -> Garments \cup {None}]
  /\ \A g \in Garments : question[g] # g
  /\ deduped \subseteq Garments
  /\ wears \subseteq Wears /\ acked \subseteq Wears
  /\ tx \in [Clients -> Transactions]
  /\ begun \in 0..MaxRequests
  /\ undone \subseteq Articles \X Days /\ unseen \subseteq Articles \X Days
  /\ removed \subseteq Articles /\ crossed \in BOOLEAN

Counted(fact) == \E w \in wears : Fact(w) = fact

(* Answering questions loses nothing.  A wearing the user was told is      *)
(* logged stays on some row of the same article, through merges in any     *)
(* order and answers given twice, until the user takes it back             *)
(* (duplicates.py, "the wear rows are reparented instead of dropped"), and *)
(* unless a row of the article was removed, one stays active.  There are   *)
(* two exceptions: a wearing committed between a merge's INSERT ... SELECT *)
(* and its DELETE, and two rows that are merged into each other because    *)
(* their dedupe jobs crossed.                                              *)
AnswersLoseNothing ==
  /\ \A w \in acked : Counted(Fact(w)) \/ Fact(w) \in undone \cup unseen \/ crossed
  /\ \A a \in Articles : a \in removed \/ crossed \/ \E g \in active : Shows[g] = a

(* The wear log of a row only ever holds days logged on a row of the same  *)
(* article: a merge moves the duplicate's own wearings and no one else's.  *)
WearsNeverMix ==
  \A w \in wears : Fact(w) \in {Fact(v) : v \in acked}

================================================================================
