---------------------------- MODULE WardrobeProofs ----------------------------
(***************************************************************************)
(* Proofs about Wardrobe for every set of rows, articles, days and         *)
(* requests in flight.  Every action begins a transaction, adds to it or   *)
(* commits it, so one lemma for each of the three shapes says what of the  *)
(* inductive invariant it needs, and the actions only have to supply it.   *)
(***************************************************************************)
EXTENDS Wardrobe, TLAPS

\* The wearings the user was told of, as facts; a client's own wearing.
Told == {Fact(v) : v \in acked}
Own(c) == <<tx[c].garment, tx[c].day>>

\* An open transaction is about a row; a wearing has a day.
Subjects ==
  \A c \in Clients :
    /\ tx[c].op # "none" => tx[c].garment \in Garments
    /\ tx[c].op \in {"log", "unlog"} => tx[c].day \in Days

\* What was read at the start of a transaction still holds: the rows of a merge
\* show one article, and no dedupe job suspects a row of being itself.
Readings ==
  \A c \in Clients :
    /\ tx[c].op = "same" =>
         tx[c].orig \in Garments /\ Alike(tx[c].garment, tx[c].orig)
    /\ tx[c].op = "dedupe" => tx[c].orig # tx[c].garment

\* Nobody has inserted a wearing the user was not told of, except the wearing
\* a request is about to tell of.
Inserts ==
  \A c \in Clients : \A w \in tx[c].ins :
    Fact(w) \in Told \/ (tx[c].op = "log" /\ w = Own(c))

IInv == TypeOK /\ Subjects /\ Readings /\ Inserts /\ WearsNeverMix

LEMMA InitInv == Init => IInv
<1> SUFFICES ASSUME Init PROVE IInv
  OBVIOUS
<1>1. TypeOK
  <2>1. question \in [Garments -> Garments \cup {None}] /\ \A g \in Garments : question[g] # g
    BY NoneAssumption DEF Init
  <2>2. tx \in [Clients -> Transactions]
    BY DEF Init, Closed, Transactions
  <2>3. active \subseteq Garments /\ deduped \subseteq Garments /\ wears \subseteq Wears
        /\ acked \subseteq Wears
    BY WornAssumption DEF Init, Wears
  <2>4. begun \in 0..MaxRequests
    BY BoundAssumption DEF Init
  <2>5. undone = {} /\ unseen = {} /\ removed = {} /\ crossed = FALSE
    BY DEF Init
  <2> QED
    BY <2>1, <2>2, <2>3, <2>4, <2>5 DEF TypeOK
<1>2. Subjects /\ Readings /\ Inserts
  BY DEF Init, Closed, Subjects, Readings, Inserts
<1>3. WearsNeverMix
  BY DEF Init, WearsNeverMix
<1> QED
  BY <1>1, <1>2, <1>3 DEF IInv
--------------------------------------------------------------------------------
LEMMA BeginKeeps ==
  ASSUME IInv, NEW c \in Clients, NEW op \in Ops, NEW g \in Garments,
         NEW d \in Days \cup {None}, NEW orig \in Garments \cup {None},
         Begin(c, op, g, d, orig),
         op \in {"log", "unlog"} => d \in Days,
         op = "same" => orig \in Garments /\ Alike(g, orig),
         op = "dedupe" => orig # g
  PROVE  IInv'
<1> DEFINE new == [op |-> op, garment |-> g, day |-> d, at |-> "read",
                   orig |-> orig, ins |-> {}, del |-> {}]
<1>1. tx' = [tx EXCEPT ![c] = new] /\ UNCHANGED <<rows, told>>
  BY DEF Begin
<1>2. tx \in [Clients -> Transactions] /\ new \in Transactions
  BY DEF IInv, TypeOK, Transactions
<1>3. \A o \in Clients : tx'[o] = IF o = c THEN new ELSE tx[o]
  BY <1>1, <1>2
<1>4. TypeOK'
  <2>1. tx' \in [Clients -> Transactions]
    BY <1>1, <1>2
  <2>2. begun' \in 0..MaxRequests
    BY BoundAssumption DEF IInv, TypeOK, Begin
  <2> QED
    BY <1>1, <2>1, <2>2 DEF IInv, TypeOK, rows, told
<1>5. Subjects' /\ Readings'
  BY <1>3 DEF IInv, Subjects, Readings, Alike
<1>6. Inserts' /\ WearsNeverMix'
  BY <1>1, <1>3 DEF IInv, Inserts, WearsNeverMix, Told, Own, rows, told
<1> QED
  BY <1>4, <1>5, <1>6 DEF IInv

LEMMA DoneKeeps ==
  ASSUME IInv, NEW c \in Clients, tx[c].op # "none",
         NEW at \in {"inserted", "deleted", "copied", "cleared"},
         NEW ins \in SUBSET Wears, NEW del \in SUBSET Wears,
         Done(c, at, ins, del),
         UNCHANGED <<rows, acked, unseen, removed, crossed>>,
         undone' \subseteq Articles \X Days,
         \A w \in ins : Fact(w) \in Told \/ (tx[c].op = "log" /\ w = Own(c))
  PROVE  IInv'
<1>1. tx \in [Clients -> Transactions] /\ tx[c] \in Transactions
  BY DEF IInv, TypeOK
<1> DEFINE new == [tx[c] EXCEPT !.at = at, !.ins = @ \cup ins, !.del = @ \cup del]
<1>2. tx' = [tx EXCEPT ![c] = new]
  BY <1>1 DEF Done, Transactions
<1>3. /\ new \in Transactions
      /\ new.op = tx[c].op /\ new.garment = tx[c].garment /\ new.day = tx[c].day
      /\ new.orig = tx[c].orig /\ new.ins = tx[c].ins \cup ins
  BY <1>1 DEF Transactions
<1> HIDE DEF new
<1>4. \A o \in Clients : tx'[o] = IF o = c THEN new ELSE tx[o]
  BY <1>1, <1>2
<1>5. TypeOK'
  <2>1. tx' \in [Clients -> Transactions]
    BY <1>1, <1>2, <1>3
  <2> QED
    BY <2>1 DEF IInv, TypeOK, rows, Done
<1>6. Subjects' /\ Readings'
  BY <1>3, <1>4 DEF IInv, Subjects, Readings, Alike
<1>7. Inserts'
  <2>1. Told' = Told
    BY DEF Told
  <2> SUFFICES ASSUME NEW o \in Clients, NEW w \in tx'[o].ins
               PROVE  Fact(w) \in Told \/ (tx'[o].op = "log" /\ w = Own(o)')
    BY <2>1 DEF Inserts
  <2>2. CASE o # c
    BY <2>2, <1>4 DEF IInv, Inserts, Own
  <2>3. CASE o = c
    BY <2>3, <1>3, <1>4 DEF IInv, Inserts, Own
  <2> QED
    BY <2>2, <2>3
<1>8. WearsNeverMix'
  BY DEF IInv, WearsNeverMix, rows
<1> QED
  BY <1>5, <1>6, <1>7, <1>8 DEF IInv

LEMMA FactTyped ==
  ASSUME NEW w \in Wears
  PROVE  Fact(w) \in Articles \X Days
BY ShowsAssumption DEF Fact, Wears

LEMMA CommitKeeps ==
  ASSUME IInv, NEW c \in Clients, Commit(c),
         active' \subseteq Garments, deduped' \subseteq Garments,
         question' \in [Garments -> Garments \cup {None}],
         \A g \in Garments : question'[g] # g,
         undone' \subseteq Articles \X Days, removed' \subseteq Articles,
         crossed' \in BOOLEAN,
         acked \subseteq acked', acked' \subseteq Wears,
         tx[c].op = "log" => Own(c) \in acked'
  PROVE  IInv'
<1>1. tx \in [Clients -> Transactions] /\ tx[c] \in Transactions
  BY DEF IInv, TypeOK
<1>2. tx[c].ins \subseteq Wears /\ wears \subseteq Wears
  BY <1>1 DEF Transactions, IInv, TypeOK
<1>3. Closed \in Transactions
  BY DEF Closed, Transactions
<1>4. tx' = [tx EXCEPT ![c] = Closed] /\ begun' = begun
      /\ wears' = (wears \ tx[c].del) \cup tx[c].ins
  BY DEF Commit
<1>5. \A o \in Clients : tx'[o] = IF o = c THEN Closed ELSE tx[o]
  BY <1>1, <1>4
<1>6. unseen' \subseteq Articles \X Days
  <2>1. Slipped(tx[c].ins \ wears) \subseteq Wears
    BY <1>2 DEF Slipped
  <2>2. unseen' = unseen \cup {Fact(w) : w \in Slipped(tx[c].ins \ wears)}
    BY DEF Commit
  <2>3. unseen \subseteq Articles \X Days
    BY DEF IInv, TypeOK
  <2>4. {Fact(w) : w \in Slipped(tx[c].ins \ wears)} \subseteq Articles \X Days
    BY <2>1, FactTyped
  <2> QED
    BY <2>2, <2>3, <2>4
<1>7. TypeOK'
  <2>1. tx' \in [Clients -> Transactions]
    BY <1>1, <1>3, <1>4
  <2>2. wears' \subseteq Wears
    BY <1>2, <1>4
  <2> QED
    BY <2>1, <2>2, <1>4, <1>6 DEF IInv, TypeOK
<1>8. Subjects' /\ Readings'
  BY <1>5 DEF IInv, Subjects, Readings, Alike, Closed
<1>9. Told \subseteq Told'
  BY DEF Told
<1>10. Inserts'
  <2> SUFFICES ASSUME NEW o \in Clients, NEW w \in tx'[o].ins
               PROVE  Fact(w) \in Told' \/ (tx'[o].op = "log" /\ w = Own(o)')
    BY DEF Inserts
  <2>1. o # c /\ tx'[o] = tx[o]
    BY <1>5 DEF Closed
  <2> QED
    BY <2>1, <1>9 DEF IInv, Inserts, Own
<1>11. WearsNeverMix'
  <2> SUFFICES ASSUME NEW w \in wears' PROVE Fact(w) \in Told'
    BY DEF WearsNeverMix, Told
  <2>1. CASE w \in wears
    BY <2>1, <1>9 DEF IInv, WearsNeverMix, Told
  <2>2. CASE w \in tx[c].ins
    <3>1. CASE Fact(w) \in Told
      BY <3>1, <1>9
    <3>2. CASE tx[c].op = "log" /\ w = Own(c)
      BY <3>2 DEF Told
    <3> QED
      BY <2>2, <3>1, <3>2 DEF IInv, Inserts
  <2> QED
    BY <2>1, <2>2, <1>4
<1> QED
  BY <1>7, <1>8, <1>10, <1>11 DEF IInv
--------------------------------------------------------------------------------
LEMMA RequestKeeps ==
  ASSUME IInv, NEW c \in Clients, Request(c)
  PROVE  IInv'
<1> PICK g \in Garments :
      \/ \E d \in Days : LogWear(c, g, d) \/ UnlogWear(c, g, d)
      \/ Remove(c, g)
      \/ Answer(c, g, "same") \/ Answer(c, g, "different")
      \/ FindDuplicate(c, g)
  BY DEF Request
<1>1. ASSUME NEW d \in Days, LogWear(c, g, d) \/ UnlogWear(c, g, d)
      PROVE  IInv'
  BY <1>1, BeginKeeps DEF LogWear, UnlogWear, Ops
<1>2. CASE Remove(c, g)
  BY <1>2, BeginKeeps DEF Remove, Ops
<1>3. ASSUME NEW op \in {"same", "different"}, Answer(c, g, op)
      PROVE  IInv'
  <2>1. question[g] \in Garments
    BY <1>3 DEF Answer, IInv, TypeOK
  <2> QED
    BY <1>3, <2>1, BeginKeeps DEF Answer, Ops
<1>4. CASE FindDuplicate(c, g)
  <2> PICK found \in Candidates(g) \cup {None} : Begin(c, "dedupe", g, None, found)
    BY <1>4 DEF FindDuplicate
  <2>1. found \in Garments \cup {None} /\ found # g
    BY NoneAssumption DEF Candidates, IInv, TypeOK
  <2> QED
    BY <2>1, BeginKeeps DEF Ops
<1> QED
  BY <1>1, <1>2, <1>3, <1>4

LEMMA StatementKeeps ==
  ASSUME IInv, NEW c \in Clients, Statement(c)
  PROVE  IInv'
<1> USE DEF At, Open
<1>a. tx[c] \in Transactions
  BY DEF IInv, TypeOK
<1>b. tx[c].op # "none" => tx[c].garment \in Garments
  BY DEF IInv, Subjects
<1>c. tx[c].op \in {"log", "unlog"} => Own(c) \in Wears
  BY <1>b DEF IInv, Subjects, Own, Wears
<1>d. /\ active \subseteq Garments /\ deduped \subseteq Garments
      /\ question \in [Garments -> Garments \cup {None}]
      /\ \A g \in Garments : question[g] # g
      /\ undone \subseteq Articles \X Days /\ removed \subseteq Articles
      /\ crossed \in BOOLEAN /\ acked \subseteq Wears /\ wears \subseteq Wears
  BY DEF IInv, TypeOK
<1>1. CASE InsertWear(c)
  BY <1>1, <1>c, <1>d, DoneKeeps DEF InsertWear, Own, told
<1>2. CASE LogCommit(c)
  <2>1. acked' = acked \cup {Own(c)} /\ Own(c) \in Wears
    BY <1>2, <1>c DEF LogCommit, Own
  <2> QED
    BY <1>2, <1>d, <2>1, CommitKeeps DEF LogCommit
<1>3. CASE DeleteWear(c)
  <2>1. Fact(Own(c)) \in Articles \X Days
    BY <1>3, <1>c, FactTyped DEF DeleteWear
  <2>2. undone' \subseteq Articles \X Days
    BY <1>3, <1>d, <2>1 DEF DeleteWear, Own
  <2> QED
    BY <1>3, <1>c, <1>d, <2>2, DoneKeeps DEF DeleteWear, Own
<1>4. CASE UnlogCommit(c)
  BY <1>4, <1>d, CommitKeeps DEF UnlogCommit
<1>5. CASE RemoveCommit(c)
  <2>1. Shows[tx[c].garment] \in Articles
    BY <1>5, <1>b, ShowsAssumption DEF RemoveCommit
  <2> QED
    BY <1>5, <1>d, <2>1, CommitKeeps DEF RemoveCommit
<1>6. CASE DifferentCommit(c)
  <2>1. question' \in [Garments -> Garments \cup {None}] /\ \A g \in Garments : question'[g] # g
    BY <1>6, <1>d, NoneAssumption DEF DifferentCommit
  <2> QED
    BY <1>6, <1>d, <2>1, CommitKeeps DEF DifferentCommit
<1>7. CASE Copy(c)
  <2> DEFINE copies == {<<tx[c].orig, w[2]>> : w \in {v \in Visible(c) : v[1] = tx[c].garment}}
  <2>1. tx[c].op = "same" /\ Done(c, "copied", copies \ wears, {}) /\ UNCHANGED <<rows, told>>
    BY <1>7 DEF Copy
  <2>2. Visible(c) \subseteq Wears /\ \A v \in Visible(c) : Fact(v) \in Told
    BY <2>1, <1>a, <1>d DEF Visible, Transactions, IInv, Inserts, WearsNeverMix, Told
  <2>3. tx[c].orig \in Garments /\ Shows[tx[c].garment] = Shows[tx[c].orig]
    BY <2>1 DEF IInv, Readings, Alike
  <2>4. ASSUME NEW w \in copies PROVE w \in Wears /\ Fact(w) \in Told
    <3> PICK v \in Visible(c) : v[1] = tx[c].garment /\ w = <<tx[c].orig, v[2]>>
      OBVIOUS
    <3>1. v \in Wears /\ Fact(v) \in Told
      BY <2>2
    <3>2. w \in Wears /\ w[1] = tx[c].orig /\ w[2] = v[2]
      BY <3>1, <2>3 DEF Wears
    <3>3. Fact(w) = Fact(v)
      BY <3>2, <2>3 DEF Fact
    <3> QED
      BY <3>1, <3>2, <3>3
  <2> HIDE DEF copies
  <2> QED
    BY <2>1, <2>4, <1>d, DoneKeeps DEF told
<1>8. CASE Clear(c)
  <2> DEFINE own == {w \in Visible(c) : w[1] = tx[c].garment}
  <2>1. own \subseteq Wears
    BY <1>a, <1>d DEF Visible, Transactions
  <2>2. tx[c].op = "same" /\ Done(c, "cleared", {}, own) /\ UNCHANGED <<rows, told>>
    BY <1>8 DEF Clear
  <2> HIDE DEF own
  <2> QED
    BY <2>1, <2>2, <1>d, DoneKeeps DEF told
<1>9. CASE MergeCommit(c)
  <2>1. crossed' \in BOOLEAN
    BY <1>9, <1>d DEF MergeCommit
  <2> QED
    BY <1>9, <1>d, <2>1, CommitKeeps DEF MergeCommit
<1>10. CASE WriteQuestion(c)
  <2>1. tx[c].orig \in Garments \cup {None} /\ tx[c].orig # tx[c].garment
        /\ tx[c].garment \in Garments
    BY <1>10, <1>a, <1>b DEF WriteQuestion, Transactions, IInv, Readings
  <2>2. question' \in [Garments -> Garments \cup {None}] /\ \A g \in Garments : question'[g] # g
    BY <1>10, <1>d, <2>1 DEF WriteQuestion
  <2>3. crossed' \in BOOLEAN
    BY <1>10, <1>d DEF WriteQuestion
  <2> QED
    BY <1>10, <1>d, <2>1, <2>2, <2>3, CommitKeeps DEF WriteQuestion
<1> QED
  BY <1>1, <1>2, <1>3, <1>4, <1>5, <1>6, <1>7, <1>8, <1>9, <1>10 DEF Statement

LEMMA StutterKeeps == IInv /\ UNCHANGED vars => IInv'
BY DEF IInv, TypeOK, Subjects, Readings, Inserts, WearsNeverMix, Told, Own, vars, rows, told,
       Transactions

LEMMA Inductive == Spec => []IInv
<1>1. IInv /\ [Next]_vars => IInv'
  BY RequestKeeps, StatementKeeps, StutterKeeps DEF Next
<1> QED
  BY InitInv, <1>1, PTL DEF Spec

(* Whatever requests overlap, the state of the wardrobe stays well typed;  *)
(* in particular no row is ever asked about as a duplicate of itself.      *)
THEOREM TypeCorrect == Spec => []TypeOK
<1>1. IInv => TypeOK
  BY DEF IInv
<1> QED
  BY Inductive, <1>1, PTL

(* For any wardrobe and any number of overlapping requests, a merge moves  *)
(* wearings between rows of one article only (duplicates.py, _resolve): a  *)
(* row never shows a day no row of its article was logged on.              *)
THEOREM WearsStayWithTheArticle == Spec => []WearsNeverMix
<1>1. IInv => WearsNeverMix
  BY DEF IInv
<1> QED
  BY Inductive, <1>1, PTL

-----------------------------------------------------------------------------
(* No wearing and no article is lost.                                      *)

\* A row is asked about once: the answers know the question they answer.
Asked ==
  /\ \A g \in Garments : question[g] # None => g \in deduped
  /\ \A c \in Clients :
       /\ tx[c].op = "dedupe" => tx[c].garment \notin deduped
       /\ tx[c].op \in {"same", "different"} => tx[c].garment \in deduped
       /\ tx[c].op = "same" => question[tx[c].garment] = tx[c].orig
       /\ tx[c].op = "different" =>
            /\ question[tx[c].garment] \in {None, tx[c].orig}
            /\ tx[c].orig \in Garments /\ ~Alike(tx[c].garment, tx[c].orig)
  /\ \A c, o \in Clients :
       tx[c].op = "dedupe" /\ tx[o].op = "dedupe" /\ tx[c].garment = tx[o].garment => c = o

\* What the statements of a transaction have written so far.
Written ==
  \A c \in Clients :
    /\ tx[c].op = "dedupe" => tx[c].at = "read"
    /\ tx[c].at = "read" => tx[c].ins = {} /\ tx[c].del = {}
    /\ tx[c].op = "unlog" => tx[c].ins = {} /\ \A w \in tx[c].del : Fact(w) \in undone
    /\ tx[c].op \notin {"unlog", "same"} => tx[c].del = {}
    /\ tx[c].op = "same" =>
         /\ tx[c].at # "cleared" => tx[c].del = {}
         /\ \A w \in tx[c].ins : w[1] = tx[c].orig
         /\ \A w \in tx[c].del : w[1] = tx[c].garment

\* Who a job is about to name is no duplicate itself, and there.
Named ==
  \A c \in Clients :
    tx[c].op = "dedupe" /\ tx[c].orig # None =>
      question[tx[c].orig] = None /\ (tx[c].orig \in active \/ Shows[tx[c].orig] \in removed)

\* No answer takes the last row of an article away: one is no duplicate of a like.
Rooted ==
  \A a \in Articles :
    \/ a \in removed
    \/ \E g \in active : Shows[g] = a /\ (question[g] = None \/ ~Alike(g, question[g]))

Ranks == [Garments -> Nat]

\* Questions form no cycle: the rows merged into are of higher rank.
Ranked(rank) ==
  \A g \in Garments :
    question[g] # None /\ Alike(g, question[g]) => rank[g] < rank[question[g]]

Gone(fact) == fact \in undone \cup unseen

\* What a merge deletes is also on a row of higher rank, or it will be.
Covers(c, w, rank) ==
  \E v \in wears \cup tx[c].ins : Fact(v) = Fact(w) /\ rank[w[1]] < rank[v[1]]
Covered(rank) ==
  \A c \in Clients :
    tx[c].op = "same" =>
      /\ tx[c].at = "copied" => \A w \in wears :
           w[1] = tx[c].garment => Gone(Fact(w)) \/ Covers(c, w, rank)
      /\ tx[c].at = "cleared" => \A w \in tx[c].del : Gone(Fact(w)) \/ Covers(c, w, rank)

\* The wearings that were told of, and those that are about to be without a row
\* of their own.
Kept(w) == Gone(Fact(w)) \/ Counted(Fact(w))
AllKept ==
  /\ \A w \in acked : Kept(w)
  /\ \A c \in Clients :
       tx[c].op = "log" /\ tx[c].at = "inserted" => Own(c) \in tx[c].ins \/ Kept(Own(c))

LoseInv ==
  /\ IInv /\ Asked /\ Written
  /\ crossed \/ (Named /\ Rooted /\ AllKept /\ \E rank \in Ranks : Ranked(rank) /\ Covered(rank))

LEMMA TxStep ==
  ASSUME IInv, NEW c \in Clients, NEW r, tx' = [tx EXCEPT ![c] = r]
  PROVE  \A o \in Clients : tx'[o] = IF o = c THEN r ELSE tx[o]
BY DEF IInv, TypeOK

\* A request reads the row, and the question it answers.
LEMMA RequestFacts ==
  ASSUME IInv, NEW c \in Clients, Request(c)
  PROVE  /\ tx[c] = Closed /\ UNCHANGED <<rows, told>>
         /\ \A o \in Clients : o # c => tx'[o] = tx[o]
         /\ tx'[c].op \in Ops /\ tx'[c].garment \in Garments /\ tx'[c].at = "read"
         /\ tx'[c].ins = {} /\ tx'[c].del = {}
         /\ tx'[c].op \in {"same", "different"} =>
              /\ question[tx'[c].garment] # None /\ tx'[c].orig = question[tx'[c].garment]
              /\ tx'[c].op = "same" <=> Alike(tx'[c].garment, tx'[c].orig)
         /\ tx'[c].op = "dedupe" =>
              /\ tx'[c].garment \notin deduped
              /\ \A o \in Clients : tx[o].op = "dedupe" => tx[o].garment # tx'[c].garment
              /\ tx'[c].orig \in Candidates(tx'[c].garment) \cup {None}
<1>0. \A op, g, d, orig :
        Begin(c, op, g, d, orig) =>
          /\ tx[c] = Closed /\ UNCHANGED <<rows, told>>
          /\ \A o \in Clients : o # c => tx'[o] = tx[o]
          /\ tx'[c].op = op /\ tx'[c].garment = g /\ tx'[c].at = "read" /\ tx'[c].orig = orig
          /\ tx'[c].ins = {} /\ tx'[c].del = {}
  BY DEF Begin, IInv, TypeOK
<1>1. PICK g \in Garments :
        \/ \E d \in Days : LogWear(c, g, d) \/ UnlogWear(c, g, d)
        \/ Remove(c, g)
        \/ Answer(c, g, "same") \/ Answer(c, g, "different")
        \/ FindDuplicate(c, g)
  BY DEF Request
<1>2. ASSUME NEW d \in Days, LogWear(c, g, d) \/ UnlogWear(c, g, d)
      PROVE  \E op \in {"log", "unlog"} : Begin(c, op, g, d, None)
  BY <1>2 DEF LogWear, UnlogWear
<1>3. CASE \E d \in Days : LogWear(c, g, d) \/ UnlogWear(c, g, d)
  BY <1>0, <1>2, <1>3 DEF Ops
<1>4. CASE Remove(c, g)
  BY <1>0, <1>4 DEF Remove, Ops
<1>5. ASSUME NEW op \in {"same", "different"}, Answer(c, g, op)
      PROVE  /\ question[g] # None /\ (op = "same" <=> Alike(g, question[g]))
             /\ Begin(c, op, g, None, question[g])
  BY <1>5 DEF Answer
<1>6. CASE Answer(c, g, "same") \/ Answer(c, g, "different")
  BY <1>0, <1>5, <1>6 DEF Ops
<1>7. CASE FindDuplicate(c, g)
  <2>1. PICK found \in Candidates(g) \cup {None} : Begin(c, "dedupe", g, None, found)
    BY <1>7 DEF FindDuplicate
  <2>2. g \notin deduped /\ \A o \in Clients : tx[o].op = "dedupe" => tx[o].garment # g
    BY <1>7 DEF FindDuplicate, Open
  <2> QED
    BY <1>0, <2>1, <2>2 DEF Ops
<1> QED
  BY <1>1, <1>3, <1>4, <1>6, <1>7

\* A statement goes on with the transaction, or commits it.
LEMMA StatementFacts ==
  ASSUME IInv, NEW c \in Clients, Statement(c)
  PROVE  /\ \A o \in Clients : o # c => tx'[o] = tx[o]
         /\ acked \subseteq acked' /\ undone \subseteq undone' /\ unseen \subseteq unseen'
         /\ removed \subseteq removed' /\ deduped \subseteq deduped'
         /\ (crossed => crossed')
         /\ \/ /\ tx[c].op \in {"log", "unlog", "same"}
               /\ tx'[c].op = tx[c].op /\ tx'[c].garment = tx[c].garment
               /\ tx'[c].day = tx[c].day /\ tx'[c].orig = tx[c].orig /\ tx'[c].at # "read"
               /\ UNCHANGED <<rows, removed, crossed, acked, unseen>>
            \/ /\ tx'[c] = Closed /\ wears' = (wears \ tx[c].del) \cup tx[c].ins
               /\ unseen' = unseen \cup {Fact(w) : w \in Slipped(tx[c].ins \ wears)}
               /\ undone' = undone
<1> USE DEF At, Open
<1>1. tx[c] \in Transactions /\ tx \in [Clients -> Transactions]
  BY DEF IInv, TypeOK
<1>2. ASSUME NEW at, NEW ins, NEW del, Done(c, at, ins, del)
      PROVE  /\ \A o \in Clients : o # c => tx'[o] = tx[o]
             /\ tx'[c].op = tx[c].op /\ tx'[c].garment = tx[c].garment
             /\ tx'[c].day = tx[c].day /\ tx'[c].orig = tx[c].orig /\ tx'[c].at = at
             /\ tx'[c].ins = tx[c].ins \cup ins /\ tx'[c].del = tx[c].del \cup del
  BY <1>1, <1>2 DEF Done, Transactions
<1>3. Commit(c) => /\ \A o \in Clients : o # c => tx'[o] = tx[o]
                   /\ tx'[c] = Closed /\ wears' = (wears \ tx[c].del) \cup tx[c].ins
                   /\ unseen' = unseen \cup {Fact(w) : w \in Slipped(tx[c].ins \ wears)}
  BY <1>1 DEF Commit
<1>4. CASE InsertWear(c)
  BY <1>2, <1>4 DEF InsertWear, rows, told
<1>5. CASE DeleteWear(c)
  BY <1>2, <1>5 DEF DeleteWear, rows, told
<1>6. CASE Copy(c)
  BY <1>2, <1>6 DEF Copy, rows, told
<1>7. CASE Clear(c)
  BY <1>2, <1>7 DEF Clear, rows, told
<1>8. CASE LogCommit(c)
  BY <1>3, <1>8 DEF LogCommit
<1>9. CASE UnlogCommit(c) \/ RemoveCommit(c) \/ DifferentCommit(c) \/ MergeCommit(c) \/ WriteQuestion(c)
  <2>1. /\ Commit(c) /\ UNCHANGED <<acked, undone>>
        /\ removed \subseteq removed' /\ deduped \subseteq deduped'
    BY <1>9 DEF UnlogCommit, RemoveCommit, DifferentCommit, MergeCommit, WriteQuestion
  <2>2. crossed => crossed'
    <3>1. CASE MergeCommit(c)
      BY <3>1 DEF MergeCommit
    <3>2. CASE WriteQuestion(c)
      BY <3>2 DEF WriteQuestion
    <3>3. CASE UnlogCommit(c) \/ RemoveCommit(c) \/ DifferentCommit(c)
      BY <3>3 DEF UnlogCommit, RemoveCommit, DifferentCommit
    <3> QED
      BY <1>9, <3>1, <3>2, <3>3
  <2> QED
    BY <1>3, <2>1, <2>2
<1> QED
  BY <1>4, <1>5, <1>6, <1>7, <1>8, <1>9 DEF Statement

\* Who writes the rows.
LEMMA RowFacts ==
  ASSUME IInv, NEW c \in Clients, Statement(c)
  PROVE  /\ \/ question' = question
            \/ /\ tx[c].op = "different" /\ question' = [question EXCEPT ![tx[c].garment] = None]
               /\ UNCHANGED <<deduped, active, crossed>>
            \/ /\ tx[c].op = "dedupe" /\ tx[c].at = "read" /\ tx'[c] = Closed
               /\ question' = [question EXCEPT ![tx[c].garment] = tx[c].orig]
               /\ deduped' = deduped \cup {tx[c].garment} /\ active' = active
               /\ crossed' = (crossed \/ (tx[c].orig # None /\ Candidate(tx[c].garment)))
         /\ \/ active' = active
            \/ /\ tx[c].op = "remove" /\ active' = active \ {tx[c].garment}
               /\ removed' = removed \cup {Shows[tx[c].garment]} /\ UNCHANGED <<question, crossed>>
            \/ /\ tx[c].op = "same" /\ tx[c].at = "cleared" /\ active' = active \ {tx[c].garment}
               /\ crossed' = (crossed \/ Candidate(tx[c].garment))
               /\ UNCHANGED <<question, removed>>
         /\ deduped' = deduped \/ (tx[c].op = "dedupe" /\ deduped' = deduped \cup {tx[c].garment})
         /\ tx[c].op \in Ops /\ tx[c].garment \in Garments
<1> USE DEF At, Open
<1>1. \A at, ins, del : Done(c, at, ins, del) => TRUE
  OBVIOUS
<1>2. tx[c].op \in Ops => tx[c].garment \in Garments
  BY DEF IInv, Subjects, Ops
<1>3. CASE InsertWear(c) \/ DeleteWear(c) \/ Copy(c) \/ Clear(c)
  BY <1>2, <1>3 DEF InsertWear, DeleteWear, Copy, Clear, rows, Ops
<1>4. CASE LogCommit(c) \/ UnlogCommit(c)
  BY <1>2, <1>4 DEF LogCommit, UnlogCommit, Ops
<1>5. CASE RemoveCommit(c)
  BY <1>2, <1>5 DEF RemoveCommit, Ops
<1>6. CASE DifferentCommit(c)
  BY <1>2, <1>6 DEF DifferentCommit, Ops
<1>7. CASE MergeCommit(c)
  BY <1>2, <1>7 DEF MergeCommit, Ops
<1>8. CASE WriteQuestion(c)
  <2>1. tx'[c] = Closed
    BY <1>8 DEF WriteQuestion, Commit, IInv, TypeOK
  <2> QED
    BY <1>2, <1>8, <2>1 DEF WriteQuestion, Ops
<1> QED
  BY <1>3, <1>4, <1>5, <1>6, <1>7, <1>8 DEF Statement

LEMMA AskedKept ==
  ASSUME IInv, Asked, NEW c \in Clients, Request(c) \/ Statement(c)
  PROVE  Asked'
<1>0. /\ question \in [Garments -> Garments \cup {None}] /\ None \notin Garments
      /\ \A g \in Garments : question[g] # None => question[g] \in Garments
  BY NoneAssumption DEF IInv, TypeOK
<1>1. CASE Request(c)
  <2>1. UNCHANGED <<question, deduped>> /\ \A o \in Clients : o # c => tx'[o] = tx[o]
    BY <1>1, RequestFacts DEF rows
  <2>2. /\ tx'[c].op = "dedupe" => tx'[c].garment \notin deduped
        /\ tx'[c].op \in {"same", "different"} => tx'[c].garment \in deduped
        /\ tx'[c].op = "same" => question[tx'[c].garment] = tx'[c].orig
        /\ tx'[c].op = "different" =>
            /\ question[tx'[c].garment] \in {None, tx'[c].orig}
            /\ tx'[c].orig \in Garments /\ ~Alike(tx'[c].garment, tx'[c].orig)
    BY <1>0, <1>1, RequestFacts DEF Asked
  <2>3. \A o \in Clients : tx'[c].op = "dedupe" /\ tx[o].op = "dedupe" =>
                             tx[o].garment # tx'[c].garment
    BY <1>1, RequestFacts
  <2> QED
    BY <2>1, <2>2, <2>3 DEF Asked, Alike
<1>2. CASE Statement(c)
  <2>1. /\ \A o \in Clients : o # c => tx'[o] = tx[o]
        /\ \/ tx'[c] = Closed
           \/ /\ tx[c].op \in {"log", "unlog", "same"}
              /\ tx'[c].op = tx[c].op /\ tx'[c].garment = tx[c].garment /\ tx'[c].orig = tx[c].orig
              /\ UNCHANGED rows
    BY <1>2, StatementFacts
  <2>2. tx[c].op \in Ops /\ tx[c].garment \in Garments
    BY <1>2, RowFacts
  <2>3. CASE UNCHANGED <<question, deduped>>
    BY <2>1, <2>3 DEF Asked, Closed, Alike
  <2>4. CASE tx[c].op = "different" /\ question' = [question EXCEPT ![tx[c].garment] = None]
             /\ deduped' = deduped
    <3>1. tx'[c] = Closed
      BY <2>1, <2>4
    <3>2. question[tx[c].garment] \in {None, tx[c].orig} /\ ~Alike(tx[c].garment, tx[c].orig)
      BY <2>4 DEF Asked
    <3>3. ASSUME NEW o \in Clients, tx[o].op = "same" PROVE tx[o].garment # tx[c].garment
      <4>1. tx[o].orig \in Garments /\ Alike(tx[o].garment, tx[o].orig) /\ question[tx[o].garment] = tx[o].orig
        BY <3>3 DEF IInv, Readings, Asked
      <4> QED
        BY <1>0, <3>2, <4>1
    <3>4. \A g \in Garments : question'[g] = IF g = tx[c].garment THEN None ELSE question[g]
      BY <1>0, <2>4
    <3>5. \A o \in Clients : tx[o].op \in {"same", "different"} => tx[o].garment \in Garments
      BY DEF IInv, Subjects
    <3> QED
      BY <2>1, <2>4, <3>1, <3>3, <3>4, <3>5 DEF Asked, Closed, Alike
  <2>5. CASE /\ tx[c].op = "dedupe" /\ tx'[c] = Closed
             /\ question' \in {question, [question EXCEPT ![tx[c].garment] = tx[c].orig]}
             /\ deduped' = deduped \cup {tx[c].garment}
    <3>1. tx[c].garment \notin deduped
      BY <2>5 DEF Asked
    <3>2. \A g \in Garments : g # tx[c].garment => question'[g] = question[g]
      BY <1>0, <2>5
    <3>3. \A o \in Clients : tx[o].op \in {"same", "different"} =>
            tx[o].garment \in Garments /\ tx[o].garment # tx[c].garment
      BY <3>1 DEF IInv, Subjects, Asked
    <3>4. \A o \in Clients : tx[o].op = "dedupe" /\ o # c => tx[o].garment # tx[c].garment
      BY <2>5 DEF Asked
    <3> QED
      BY <2>1, <2>5, <3>2, <3>3, <3>4 DEF Asked, Closed, Alike
  <2> QED
    BY <1>2, <2>1, <2>3, <2>4, <2>5, RowFacts
<1> QED
  BY <1>1, <1>2

LEMMA WrittenKept ==
  ASSUME IInv, Written, NEW c \in Clients, Request(c) \/ Statement(c)
  PROVE  Written'
<1> USE DEF At, Open
<1>0. tx[c] \in Transactions /\ tx \in [Clients -> Transactions]
  BY DEF IInv, TypeOK
<1>1. CASE Request(c)
  <2>1. /\ \A o \in Clients : o # c => tx'[o] = tx[o]
        /\ undone' = undone /\ tx'[c].at = "read" /\ tx'[c].ins = {} /\ tx'[c].del = {}
    BY <1>1, RequestFacts DEF told
  <2> QED
    BY <2>1 DEF Written
<1>2. ASSUME Statement(c),
             /\ tx'[c].op = "dedupe" => tx'[c].at = "read"
             /\ tx'[c].at = "read" => tx'[c].ins = {} /\ tx'[c].del = {}
             /\ tx'[c].op = "unlog" => tx'[c].ins = {} /\ \A w \in tx'[c].del : Fact(w) \in undone'
             /\ tx'[c].op \notin {"unlog", "same"} => tx'[c].del = {}
             /\ tx'[c].op = "same" =>
                  /\ tx'[c].at # "cleared" => tx'[c].del = {}
                  /\ \A w \in tx'[c].ins : w[1] = tx'[c].orig
                  /\ \A w \in tx'[c].del : w[1] = tx'[c].garment
      PROVE  Written'
  <2>1. undone \subseteq undone' /\ \A o \in Clients : o # c => tx'[o] = tx[o]
    BY <1>2, StatementFacts
  <2> QED
    BY <1>2, <2>1 DEF Written
<1>3. ASSUME NEW at, NEW ins, NEW del, Done(c, at, ins, del)
      PROVE  /\ tx'[c].op = tx[c].op /\ tx'[c].garment = tx[c].garment
             /\ tx'[c].orig = tx[c].orig /\ tx'[c].at = at
             /\ tx'[c].ins = tx[c].ins \cup ins /\ tx'[c].del = tx[c].del \cup del
  BY <1>0, <1>3 DEF Done, Transactions
<1>4. CASE InsertWear(c)
  <2>1. Statement(c) /\ tx[c].op = "log" /\ tx[c].del = {}
    BY <1>4 DEF InsertWear, Statement, Written
  <2>2. /\ tx'[c].op = "log" /\ tx'[c].at = "inserted" /\ tx'[c].del = {}
    BY <1>3, <1>4, <2>1 DEF InsertWear
  <2> QED
    BY <1>2, <2>1, <2>2
<1>5. CASE DeleteWear(c)
  <2> DEFINE w == <<tx[c].garment, tx[c].day>>
  <2>1. Statement(c) /\ tx[c].op = "unlog" /\ tx[c].ins = {} /\ tx[c].del = {}
    BY <1>5 DEF DeleteWear, Statement, Written
  <2>2. /\ tx'[c].op = "unlog" /\ tx'[c].at = "deleted" /\ tx'[c].ins = {}
        /\ tx'[c].del = {w} \cap wears /\ Fact(w) \in undone'
    BY <1>3, <1>5, <2>1 DEF DeleteWear
  <2> QED
    BY <1>2, <2>1, <2>2
<1>6. CASE Copy(c)
  <2> DEFINE copies == {<<tx[c].orig, w[2]>> : w \in {v \in Visible(c) : v[1] = tx[c].garment}}
  <2>1. Statement(c) /\ tx[c].op = "same" /\ tx[c].ins = {} /\ tx[c].del = {}
    BY <1>6 DEF Copy, Statement, Written
  <2>2. /\ tx'[c].op = "same" /\ tx'[c].at = "copied" /\ tx'[c].orig = tx[c].orig
        /\ tx'[c].ins = copies \ wears /\ tx'[c].del = {}
    BY <1>3, <1>6, <2>1 DEF Copy
  <2>3. \A w \in copies : w[1] = tx[c].orig
    OBVIOUS
  <2> QED
    BY <1>2, <2>1, <2>2, <2>3
<1>7. CASE Clear(c)
  <2>1. /\ Statement(c) /\ tx[c].op = "same" /\ tx[c].del = {}
        /\ \A w \in tx[c].ins : w[1] = tx[c].orig
    BY <1>7 DEF Clear, Statement, Written
  <2>2. PICK own : own = {w \in Visible(c) : w[1] = tx[c].garment}
    OBVIOUS
  <2>3. Done(c, "cleared", {}, own)
    BY <1>7, <2>2 DEF Clear
  <2>4. \A w \in own : w[1] = tx[c].garment
    BY <2>2
  <2> HIDE <2>2
  <2>5. /\ tx'[c].op = "same" /\ tx'[c].at = "cleared" /\ tx'[c].orig = tx[c].orig
        /\ tx'[c].garment = tx[c].garment
        /\ tx'[c].ins = tx[c].ins \cup {} /\ tx'[c].del = tx[c].del \cup own
    BY <1>3, <2>1, <2>3
  <2>6. tx'[c].ins = tx[c].ins /\ tx'[c].del = own
    BY <2>1, <2>5
  <2> QED
    BY <1>2, <2>1, <2>4, <2>5, <2>6
<1>8. CASE LogCommit(c) \/ UnlogCommit(c) \/ RemoveCommit(c) \/ DifferentCommit(c)
           \/ MergeCommit(c) \/ WriteQuestion(c)
  <2>1. Statement(c) /\ Commit(c)
    BY <1>8 DEF Statement, LogCommit, UnlogCommit, RemoveCommit, DifferentCommit, MergeCommit,
       WriteQuestion
  <2>2. tx'[c] = Closed
    BY <1>0, <2>1 DEF Commit
  <2> QED
    BY <1>2, <2>1, <2>2 DEF Closed
<1> QED
  BY <1>1, <1>4, <1>5, <1>6, <1>7, <1>8 DEF Statement

LEMMA NamedKept ==
  ASSUME IInv, Written, Named, ~crossed', NEW c \in Clients, Request(c) \/ Statement(c)
  PROVE  Named'
<1>0. question \in [Garments -> Garments \cup {None}] /\ active \subseteq Garments
      /\ tx \in [Clients -> Transactions]
  BY DEF IInv, TypeOK
<1>1. CASE Request(c)
  <2>1. /\ UNCHANGED <<question, active, removed>> /\ \A o \in Clients : o # c => tx'[o] = tx[o]
        /\ tx'[c].op = "dedupe" => tx'[c].orig \in Candidates(tx'[c].garment) \cup {None}
    BY <1>1, RequestFacts DEF rows, told
  <2> QED
    BY <2>1 DEF Named, Candidates
<1>2. CASE Statement(c)
  <2> SUFFICES ASSUME NEW o \in Clients, tx'[o].op = "dedupe", tx'[o].orig # None
               PROVE  /\ question'[tx'[o].orig] = None
                      /\ tx'[o].orig \in active' \/ Shows[tx'[o].orig] \in removed'
    BY DEF Named
  <2>1. o # c /\ tx'[o] = tx[o]
    <3>1. \/ tx[c].op \in {"log", "unlog", "same"} /\ tx'[c].op = tx[c].op
          \/ tx'[c] = Closed
      BY <1>2, StatementFacts
    <3>2. tx'[c].op # "dedupe"
      BY <3>1 DEF Closed
    <3> QED
      BY <1>2, <3>2, StatementFacts
  <2>2. PICK x \in Garments : x = tx[o].orig
    BY <1>0, <2>1 DEF Transactions
  <2>3. /\ question[x] = None /\ (x \in active \/ Shows[x] \in removed)
        /\ tx[o].op = "dedupe" /\ tx[o].at = "read"
    BY <2>1, <2>2 DEF Named, Written
  <2>4. tx[c].garment = x => Candidate(tx[c].garment)
    BY <2>2, <2>3 DEF Candidate, At, Open
  <2>5. removed \subseteq removed'
    BY <1>2, StatementFacts
  <2>6. question'[x] = None
    <3>1. \/ question' = question \/ question' = [question EXCEPT ![tx[c].garment] = None]
          \/ /\ question' = [question EXCEPT ![tx[c].garment] = tx[c].orig]
             /\ tx[c].orig # None => ~Candidate(tx[c].garment)
      BY <1>2, RowFacts
    <3> QED
      BY <1>0, <2>3, <2>4, <3>1
  <2>7. x \in active' \/ Shows[x] \in removed'
    <3>1. \/ active' = active
          \/ active' = active \ {tx[c].garment} /\ removed' = removed \cup {Shows[tx[c].garment]}
          \/ active' = active \ {tx[c].garment} /\ ~Candidate(tx[c].garment)
      BY <1>2, RowFacts
    <3> QED
      BY <2>3, <2>4, <2>5, <3>1
  <2> QED
    BY <2>1, <2>2, <2>6, <2>7
<1> QED
  BY <1>1, <1>2

LEMMA RootedKept ==
  ASSUME IInv, Asked, Named, Rooted, ~crossed', NEW c \in Clients, Request(c) \/ Statement(c)
  PROVE  Rooted'
<1>0. question \in [Garments -> Garments \cup {None}] /\ active \subseteq Garments
      /\ None \notin Garments /\ tx \in [Clients -> Transactions]
  BY NoneAssumption DEF IInv, TypeOK
<1>1. CASE Request(c)
  BY <1>1, RequestFacts DEF Rooted, rows, told
<1>2. CASE Statement(c)
  <2> SUFFICES ASSUME NEW a \in Articles, a \notin removed'
               PROVE  \E g \in active' : Shows[g] = a /\ (question'[g] = None \/ ~Alike(g, question'[g]))
    BY DEF Rooted, Alike
  <2>1. removed \subseteq removed'
    BY <1>2, StatementFacts
  <2>2. PICK g \in active : Shows[g] = a /\ (question[g] = None \/ ~Alike(g, question[g]))
    BY <2>1 DEF Rooted
  <2>3. g \in active'
    <3>1. CASE active' = active
      BY <2>2, <3>1
    <3>2. CASE active' = active \ {tx[c].garment} /\ removed' = removed \cup {Shows[tx[c].garment]}
      BY <2>2, <3>2
    <3>3. CASE tx[c].op = "same" /\ active' = active \ {tx[c].garment}
      <4>1. /\ question[tx[c].garment] = tx[c].orig /\ tx[c].orig \in Garments
            /\ Alike(tx[c].garment, tx[c].orig)
        BY <3>3 DEF IInv, Readings, Asked
      <4> QED
        BY <1>0, <2>2, <3>3, <4>1
    <3> QED
      BY <1>2, <3>1, <3>2, <3>3, RowFacts
  <2>4. CASE question' = question \/ question' = [question EXCEPT ![tx[c].garment] = None]
    BY <1>0, <2>2, <2>3, <2>4
  <2>5. CASE /\ tx[c].op = "dedupe" /\ question' = [question EXCEPT ![tx[c].garment] = tx[c].orig]
             /\ active' = active
    <3>1. CASE g # tx[c].garment
      BY <1>0, <2>2, <2>3, <2>5, <3>1
    <3>2. CASE g = tx[c].garment /\ (tx[c].orig = None \/ ~Alike(g, tx[c].orig))
      BY <1>0, <2>2, <2>3, <2>5, <3>2
    <3>3. CASE g = tx[c].garment /\ tx[c].orig # None /\ Alike(g, tx[c].orig)
      <4>1. /\ question[tx[c].orig] = None /\ (tx[c].orig \in active \/ Shows[tx[c].orig] \in removed)
            /\ tx[c].orig # g
        BY <2>5, <3>3 DEF Named, IInv, Readings
      <4>2. Shows[tx[c].orig] = a
        BY <2>2, <3>3 DEF Alike
      <4>3. tx[c].orig \in active' /\ question'[tx[c].orig] = None
        BY <1>0, <2>1, <2>5, <3>3, <4>1, <4>2
      <4> QED
        BY <4>2, <4>3
    <3> QED
      BY <3>1, <3>2, <3>3
  <2> QED
    BY <1>2, <2>4, <2>5, RowFacts
<1> QED
  BY <1>1, <1>2

\* A row of wear_log that goes leaves another one, of the same rank or higher.
LEMMA FactStays ==
  ASSUME IInv, Written, NEW rank \in Ranks, Covered(rank), NEW c \in Clients, Statement(c),
         NEW v \in wears
  PROVE  Gone(Fact(v))' \/ \E u \in wears' : Fact(u) = Fact(v) /\ rank[v[1]] <= rank[u[1]]
<1>0. /\ wears \subseteq Wears /\ tx[c].ins \subseteq Wears
      /\ \A u \in Wears : rank[u[1]] \in Nat
  BY DEF IInv, TypeOK, Transactions, Wears, Ranks
<1>1. CASE v \in wears'
  BY <1>0, <1>1
<1>2. CASE v \notin wears'
  <2>1. wears' = (wears \ tx[c].del) \cup tx[c].ins /\ v \in tx[c].del
    BY <1>2, StatementFacts DEF rows
  <2>2. undone \subseteq undone' /\ unseen \subseteq unseen'
    BY StatementFacts
  <2>3. CASE Gone(Fact(v))
    BY <2>2, <2>3 DEF Gone
  <2>4. CASE ~Gone(Fact(v))
    <3>1. tx[c].op = "same" /\ tx[c].at = "cleared"
      BY <2>1, <2>4 DEF Written, Gone
    <3>2. PICK u \in wears \cup tx[c].ins : Fact(u) = Fact(v) /\ rank[v[1]] < rank[u[1]]
      BY <2>1, <2>4, <3>1 DEF Covered, Covers
    <3>3. u[1] # v[1]
      BY <1>0, <3>2
    <3>4. u \notin tx[c].del
      BY <2>1, <3>1, <3>3 DEF Written
    <3>5. u \in wears' /\ u \in Wears
      BY <1>0, <2>1, <3>4
    <3> QED
      BY <1>0, <3>2, <3>5
  <2> QED
    BY <2>3, <2>4
<1> QED
  BY <1>1, <1>2

\* The merges of others keep what covers their rows.
LEMMA OthersCovered ==
  ASSUME IInv, Written, NEW rank \in Ranks, Covered(rank), NEW c \in Clients, Statement(c),
         NEW o \in Clients, o # c, tx[o].op = "same"
  PROVE  /\ tx[o].at = "copied" => \A w \in wears' :
              w[1] = tx[o].garment => Gone(Fact(w))' \/ Covers(o, w, rank)'
         /\ tx[o].at = "cleared" => \A w \in tx[o].del : Gone(Fact(w))' \/ Covers(o, w, rank)'
<1>0. /\ wears \subseteq Wears /\ wears' \subseteq Wears
      /\ tx[o].ins \subseteq Wears /\ tx[o].del \subseteq Wears
      /\ \A u \in Wears : rank[u[1]] \in Nat
  <2>1. TypeOK'
    BY StatementKeeps DEF IInv
  <2> QED
    BY <2>1 DEF IInv, TypeOK, Transactions, Wears, Ranks
<1>1. tx'[o] = tx[o] /\ undone \subseteq undone' /\ unseen \subseteq unseen'
  BY StatementFacts
<1>2. ASSUME NEW w \in Wears, Gone(Fact(w)) \/ Covers(o, w, rank)
      PROVE  Gone(Fact(w))' \/ Covers(o, w, rank)'
  <2>1. CASE Gone(Fact(w))
    BY <1>1, <2>1 DEF Gone
  <2>2. ASSUME NEW v \in tx[o].ins, Fact(v) = Fact(w), rank[w[1]] < rank[v[1]]
        PROVE  Covers(o, w, rank)'
    BY <1>1, <2>2 DEF Covers
  <2>3. ASSUME NEW v \in wears, Fact(v) = Fact(w), rank[w[1]] < rank[v[1]]
        PROVE  Gone(Fact(w))' \/ Covers(o, w, rank)'
    <3>1. CASE Gone(Fact(v))'
      BY <2>3, <3>1 DEF Gone, Fact
    <3>2. ASSUME NEW u \in wears', Fact(u) = Fact(v), rank[v[1]] <= rank[u[1]]
          PROVE  Covers(o, w, rank)'
      <4>1. rank[w[1]] < rank[u[1]]
        BY <1>0, <2>3, <3>2
      <4> QED
        BY <2>3, <3>2, <4>1 DEF Covers, Fact
    <3> QED
      BY <3>1, <3>2, FactStays
  <2> QED
    BY <1>2, <2>1, <2>2, <2>3 DEF Covers
<1>3. ASSUME tx[o].at = "copied", NEW w \in wears', w[1] = tx[o].garment
      PROVE  Gone(Fact(w))' \/ Covers(o, w, rank)'
  <2>1. CASE w \in wears
    <3>1. Gone(Fact(w)) \/ Covers(o, w, rank)
      BY <1>3, <2>1 DEF Covered
    <3> QED
      BY <1>0, <1>2, <3>1
  <2>2. CASE w \notin wears
    <3>1. /\ w \in tx[c].ins \ wears
          /\ unseen' = unseen \cup {Fact(u) : u \in Slipped(tx[c].ins \ wears)}
      BY <1>3, <2>2, StatementFacts DEF rows
    <3>2. w \in Slipped(tx[c].ins \ wears)
      BY <1>3, <3>1 DEF Slipped, At, Open
    <3>3. Fact(w) \in unseen'
      BY <3>1, <3>2
    <3> QED
      BY <3>3 DEF Gone, Fact
  <2> QED
    BY <2>1, <2>2
<1>4. ASSUME tx[o].at = "cleared", NEW w \in tx[o].del
      PROVE  Gone(Fact(w))' \/ Covers(o, w, rank)'
  BY <1>0, <1>2, <1>4 DEF Covered
<1> QED
  BY <1>3, <1>4

\* A row that is no duplicate can be ranked above any other.
LEMMA Raised ==
  ASSUME IInv, Asked, Written, NEW rank \in Ranks, Ranked(rank), Covered(rank),
         NEW r \in Garments, NEW x \in Garments, r # x, question[x] = None
  PROVE  \E higher \in Ranks : Ranked(higher) /\ Covered(higher) /\ higher[r] < higher[x]
<1> DEFINE higher == [rank EXCEPT ![x] = rank[x] + rank[r] + 1]
<1>0. /\ question \in [Garments -> Garments \cup {None}] /\ None \notin Garments
      /\ wears \subseteq Wears
      /\ \A c \in Clients : tx[c].ins \subseteq Wears /\ tx[c].del \subseteq Wears
  BY NoneAssumption DEF IInv, TypeOK, Transactions
<1>1. \A g \in Garments : rank[g] \in Nat
  BY DEF Ranks
<1>2. higher \in Ranks
  BY <1>1 DEF Ranks
<1>3. \A g \in Garments : higher[g] = IF g = x THEN rank[x] + rank[r] + 1 ELSE rank[g]
  BY DEF Ranks
<1> HIDE DEF higher
<1>4. \A g \in Garments : rank[g] <= higher[g] /\ higher[g] \in Nat
  BY <1>1, <1>3
<1>5. higher[r] < higher[x]
  BY <1>1, <1>3
<1>6. ASSUME NEW g \in Garments, NEW h \in Garments, g # x, rank[g] < rank[h]
      PROVE  higher[g] < higher[h]
  <2>1. higher[g] = rank[g] /\ rank[h] <= higher[h]
    BY <1>3, <1>4, <1>6
  <2> QED
    BY <1>1, <1>4, <1>6, <2>1
<1>7. Ranked(higher)
  <2> SUFFICES ASSUME NEW g \in Garments, question[g] # None, Alike(g, question[g])
               PROVE  higher[g] < higher[question[g]]
    BY DEF Ranked
  <2>1. question[g] \in Garments /\ g # x /\ rank[g] < rank[question[g]]
    BY <1>0 DEF Ranked
  <2> QED
    BY <1>6, <2>1
<1>8. ASSUME NEW c \in Clients, NEW w \in Wears, tx[c].op = "same", w[1] = tx[c].garment,
             Covers(c, w, rank)
      PROVE  Covers(c, w, higher)
  <2>1. PICK v \in wears \cup tx[c].ins : Fact(v) = Fact(w) /\ rank[w[1]] < rank[v[1]]
    BY <1>8 DEF Covers
  <2>2. v[1] \in Garments /\ w[1] \in Garments
    BY <1>0 DEF Wears
  <2>3. tx[c].orig \in Garments /\ question[tx[c].garment] = tx[c].orig
    BY <1>8 DEF IInv, Readings, Asked
  <2>4. w[1] # x
    BY <1>0, <1>8, <2>3
  <2>5. higher[w[1]] < higher[v[1]]
    BY <1>6, <2>1, <2>2, <2>4
  <2> QED
    BY <2>1, <2>5 DEF Covers
<1>9. Covered(higher)
  BY <1>0, <1>8 DEF Covered, Written
<1> QED
  BY <1>2, <1>5, <1>7, <1>9

\* A question is only written above a row of lower rank.
LEMMA RankedKept ==
  ASSUME IInv, NEW rank \in Ranks, Ranked(rank), NEW c \in Clients, Statement(c),
         tx[c].op = "dedupe" /\ tx[c].orig # None => rank[tx[c].garment] < rank[tx[c].orig]
  PROVE  Ranked(rank)'
<1>0. question \in [Garments -> Garments \cup {None}] /\ None \notin Garments
  BY NoneAssumption DEF IInv, TypeOK
<1>1. CASE question' = question
  BY <1>1 DEF Ranked, Alike
<1>2. CASE question' = [question EXCEPT ![tx[c].garment] = None]
  <2>1. \A g \in Garments : question'[g] \in {None, question[g]}
    BY <1>0, <1>2
  <2> QED
    BY <2>1 DEF Ranked, Alike
<1>3. CASE tx[c].op = "dedupe" /\ question' = [question EXCEPT ![tx[c].garment] = tx[c].orig]
  <2>1. \A g \in Garments :
          question'[g] = question[g] \/ (g = tx[c].garment /\ question'[g] = tx[c].orig)
    BY <1>0, <1>3
  <2> QED
    BY <1>3, <2>1 DEF Ranked, Alike
<1> QED
  BY <1>1, <1>2, <1>3, RowFacts

\* A merge copies a row's wearings to a row of higher rank, before it deletes them.
LEMMA CoveredKept ==
  ASSUME IInv, Asked, Written, NEW rank \in Ranks, Ranked(rank), Covered(rank),
         NEW c \in Clients, Statement(c)
  PROVE  Covered(rank)'
<1> USE DEF At, Open
<1>0. /\ tx[c] \in Transactions /\ tx \in [Clients -> Transactions] /\ wears \subseteq Wears
      /\ \A g \in Garments : question[g] # g
  BY DEF IInv, TypeOK
<1>1. ASSUME NEW o \in Clients, o # c, tx'[o].op = "same"
      PROVE  /\ tx'[o].at = "copied" => \A w \in wears' :
                   w[1] = tx'[o].garment => Gone(Fact(w))' \/ Covers(o, w, rank)'
             /\ tx'[o].at = "cleared" => \A w \in tx'[o].del : Gone(Fact(w))' \/ Covers(o, w, rank)'
  <2>1. tx'[o] = tx[o]
    BY <1>1, StatementFacts
  <2> QED
    BY <1>1, <2>1, OthersCovered
<1>2. ASSUME tx'[c].op = "same"
      PROVE  /\ tx'[c].at = "copied" => \A w \in wears' :
                   w[1] = tx'[c].garment => Gone(Fact(w))' \/ Covers(c, w, rank)'
             /\ tx'[c].at = "cleared" => \A w \in tx'[c].del : Gone(Fact(w))' \/ Covers(c, w, rank)'
  <2>1. tx[c].op = "same"
    <3>1. tx'[c].op = tx[c].op \/ tx'[c] = Closed
      BY StatementFacts
    <3> QED
      BY <1>2, <3>1 DEF Closed
  <2>2. /\ tx[c].orig \in Garments /\ Shows[tx[c].orig] = Shows[tx[c].garment]
        /\ tx[c].garment \in Garments
        /\ tx[c].orig # tx[c].garment /\ rank[tx[c].garment] < rank[tx[c].orig]
    <3>1. /\ tx[c].orig \in Garments /\ Alike(tx[c].garment, tx[c].orig)
          /\ tx[c].garment \in Garments
      BY <2>1 DEF IInv, Readings, Subjects
    <3>2. question[tx[c].garment] = tx[c].orig
      BY <2>1 DEF Asked
    <3>3. question[tx[c].garment] # None
      BY <3>1, <3>2, NoneAssumption
    <3> QED
      BY <1>0, <3>1, <3>2, <3>3 DEF Ranked, Alike
  <2>3. ASSUME NEW at, NEW ins, NEW del, Done(c, at, ins, del)
        PROVE  /\ tx'[c].garment = tx[c].garment /\ tx'[c].at = at
               /\ tx'[c].ins = tx[c].ins \cup ins /\ tx'[c].del = tx[c].del \cup del
    BY <1>0, <2>3 DEF Done, Transactions
  <2>4. CASE Copy(c)
    <3>1. PICK copies : copies = {<<tx[c].orig, w[2]>> : w \in {v \in Visible(c) : v[1] = tx[c].garment}}
      OBVIOUS
    <3>2. Done(c, "copied", copies \ wears, {}) /\ UNCHANGED <<rows, told>> /\ tx[c].at = "read"
      BY <2>4, <3>1 DEF Copy
    <3>3. tx[c].del = {} /\ tx[c].ins = {}
      BY <3>2 DEF Written
    <3>4. ASSUME NEW w \in wears, w[1] = tx[c].garment
          PROVE  <<tx[c].orig, w[2]>> \in copies
      BY <3>1, <3>3, <3>4 DEF Visible
    <3> HIDE <3>1
    <3>5. /\ tx'[c].garment = tx[c].garment /\ tx'[c].at = "copied"
          /\ tx'[c].ins = tx[c].ins \cup (copies \ wears)
      BY <2>3, <3>2
    <3>6. ASSUME NEW w \in wears, w[1] = tx[c].garment
          PROVE  Covers(c, w, rank)'
      <4> DEFINE v == <<tx[c].orig, w[2]>>
      <4>1. v \in copies
        BY <3>4, <3>6
      <4>2. v \in wears' \cup tx'[c].ins
        BY <3>2, <3>5, <4>1 DEF rows
      <4>3. Fact(v) = Fact(w) /\ rank[w[1]] < rank[v[1]]
        BY <2>2, <3>6 DEF Fact
      <4> QED
        BY <4>2, <4>3 DEF Covers, Fact
    <3> QED
      BY <3>2, <3>5, <3>6 DEF rows
  <2>5. CASE Clear(c)
    <3>1. PICK own : own = {w \in Visible(c) : w[1] = tx[c].garment}
      OBVIOUS
    <3>2. Done(c, "cleared", {}, own) /\ UNCHANGED <<rows, told>> /\ tx[c].at = "copied"
      BY <2>5, <3>1 DEF Clear
    <3>3. tx[c].del = {} /\ \A w \in tx[c].ins : w[1] = tx[c].orig
      BY <2>1, <3>2 DEF Written
    <3>4. \A w \in own : w \in wears /\ w[1] = tx[c].garment
      BY <2>2, <3>1, <3>3 DEF Visible
    <3> HIDE <3>1
    <3>5. /\ tx'[c].at = "cleared"
          /\ tx'[c].ins = tx[c].ins \cup {} /\ tx'[c].del = tx[c].del \cup own
      BY <2>3, <3>2
    <3>6. tx'[c].ins = tx[c].ins /\ tx'[c].del = own
      BY <3>3, <3>5
    <3>7. \A w \in own : Gone(Fact(w)) \/ Covers(c, w, rank)
      BY <2>1, <3>2, <3>4 DEF Covered
    <3>8. \A w \in own : Gone(Fact(w))' \/ Covers(c, w, rank)'
      BY <3>2, <3>6, <3>7 DEF Gone, Covers, Fact, rows, told
    <3> QED
      BY <3>5, <3>6, <3>8
  <2>6. CASE InsertWear(c) \/ DeleteWear(c)
    BY <2>1, <2>6 DEF InsertWear, DeleteWear
  <2>7. CASE LogCommit(c) \/ UnlogCommit(c) \/ RemoveCommit(c) \/ DifferentCommit(c)
             \/ MergeCommit(c) \/ WriteQuestion(c)
    <3>1. Commit(c)
      BY <2>7 DEF LogCommit, UnlogCommit, RemoveCommit, DifferentCommit, MergeCommit,
         WriteQuestion
    <3>2. tx'[c] = Closed
      BY <1>0, <3>1 DEF Commit
    <3> QED
      BY <1>2, <3>2 DEF Closed
  <2> QED
    BY <2>4, <2>5, <2>6, <2>7 DEF Statement
<1> QED
  BY <1>1, <1>2 DEF Covered

LEMMA RanksKept ==
  ASSUME IInv, Asked, Written, Named, NEW rank \in Ranks, Ranked(rank), Covered(rank),
         NEW c \in Clients, Request(c) \/ Statement(c)
  PROVE  \E next \in Ranks : Ranked(next)' /\ Covered(next)'
<1>1. CASE Request(c)
  <2>1. /\ UNCHANGED <<question, wears, undone, unseen>> /\ tx'[c].at = "read"
        /\ \A o \in Clients : o # c => tx'[o] = tx[o]
    BY <1>1, RequestFacts DEF rows, told
  <2>2. Ranked(rank)'
    BY <2>1 DEF Ranked, Alike
  <2>3. Covered(rank)'
    BY <2>1 DEF Covered, Covers, Gone, Fact
  <2> QED
    BY <2>2, <2>3
<1>2. CASE Statement(c) /\ ~(tx[c].op = "dedupe" /\ tx[c].orig # None)
  BY <1>2, RankedKept, CoveredKept
<1>3. CASE Statement(c) /\ tx[c].op = "dedupe" /\ tx[c].orig # None
  <2>1. /\ tx[c].garment \in Garments /\ tx[c].orig \in Garments
        /\ tx[c].garment # tx[c].orig /\ question[tx[c].orig] = None
    BY <1>3 DEF IInv, TypeOK, Transactions, Subjects, Readings, Named
  <2>2. PICK higher \in Ranks :
          Ranked(higher) /\ Covered(higher) /\ higher[tx[c].garment] < higher[tx[c].orig]
    BY <2>1, Raised
  <2> QED
    BY <1>3, <2>2, RankedKept, CoveredKept
<1> QED
  BY <1>1, <1>2, <1>3

LEMMA KeptStays ==
  ASSUME IInv, Written, NEW rank \in Ranks, Covered(rank), NEW c \in Clients, Statement(c),
         NEW w, Kept(w)
  PROVE  Kept(w)'
<1>1. undone \subseteq undone' /\ unseen \subseteq unseen'
  BY StatementFacts
<1>2. CASE Gone(Fact(w))
  BY <1>1, <1>2 DEF Kept, Gone, Fact
<1>3. CASE Counted(Fact(w))
  <2>1. PICK v \in wears : Fact(v) = Fact(w)
    BY <1>3 DEF Counted
  <2>2. Gone(Fact(v))' \/ \E u \in wears' : Fact(u) = Fact(v)
    BY FactStays
  <2> QED
    BY <2>1, <2>2 DEF Kept, Gone, Counted, Fact
<1> QED
  BY <1>2, <1>3 DEF Kept

\* A wearing told of has a row: the one it found, or the one it committed.
LEMMA AllKeptStays ==
  ASSUME IInv, Written, AllKept, NEW rank \in Ranks, Covered(rank),
         NEW c \in Clients, Request(c) \/ Statement(c)
  PROVE  AllKept'
<1> USE DEF At, Open
<1>0. tx[c] \in Transactions /\ tx \in [Clients -> Transactions]
  BY DEF IInv, TypeOK
<1>1. CASE Request(c)
  <2>1. /\ UNCHANGED <<wears, undone, unseen, acked>> /\ tx'[c].at = "read"
        /\ \A o \in Clients : o # c => tx'[o] = tx[o]
    BY <1>1, RequestFacts DEF rows, told
  <2> QED
    BY <2>1 DEF AllKept, Kept, Gone, Counted, Fact, Own
<1>2. CASE Statement(c)
  <2>1. \A o \in Clients : o # c => tx'[o] = tx[o]
    BY <1>2, StatementFacts
  <2>2. ASSUME NEW o \in Clients, o # c, tx'[o].op = "log", tx'[o].at = "inserted"
        PROVE  Own(o)' \in tx'[o].ins \/ Kept(Own(o))'
    <3>1. tx'[o] = tx[o]
      BY <2>1, <2>2
    <3>2. PICK w : w = Own(o)
      OBVIOUS
    <3>3. Own(o)' = w
      BY <3>1, <3>2 DEF Own
    <3>4. w \in tx[o].ins \/ Kept(w)
      BY <2>2, <3>1, <3>2 DEF AllKept
    <3>5. w \in tx'[o].ins \/ Kept(w)'
      BY <1>2, <3>1, <3>4, KeptStays
    <3> QED
      BY <3>3, <3>5 DEF Kept, Fact
  <2>3. ASSUME tx'[c].op = "log", tx'[c].at = "inserted"
        PROVE  Own(c)' \in tx'[c].ins \/ Kept(Own(c))'
    <3>1. CASE InsertWear(c)
      <4>1. PICK w : w = Own(c)
        OBVIOUS
      <4>2. Done(c, "inserted", {w} \ wears, {}) /\ UNCHANGED <<rows, told>>
        BY <3>1, <4>1 DEF InsertWear, Own
      <4>3. Own(c)' = w /\ tx'[c].ins = tx[c].ins \cup ({w} \ wears)
        BY <1>0, <4>1, <4>2 DEF Done, Transactions, Own
      <4>4. w \in tx'[c].ins \/ w \in wears'
        BY <4>2, <4>3 DEF rows
      <4> QED
        BY <4>3, <4>4 DEF Kept, Counted, Fact
    <3>2. CASE DeleteWear(c) \/ Copy(c) \/ Clear(c)
      <4>1. tx[c].op \in {"unlog", "same"} /\ UNCHANGED rows
        BY <3>2 DEF DeleteWear, Copy, Clear
      <4>2. tx'[c].op = tx[c].op \/ tx'[c] = Closed
        BY <1>2, StatementFacts
      <4> QED
        BY <2>3, <4>1, <4>2 DEF Closed
    <3>3. CASE LogCommit(c) \/ UnlogCommit(c) \/ RemoveCommit(c) \/ DifferentCommit(c)
               \/ MergeCommit(c) \/ WriteQuestion(c)
      <4>1. Commit(c)
        BY <3>3 DEF LogCommit, UnlogCommit, RemoveCommit, DifferentCommit, MergeCommit,
           WriteQuestion
      <4>2. tx'[c] = Closed
        BY <1>0, <4>1 DEF Commit
      <4> QED
        BY <2>3, <4>2 DEF Closed
    <3> QED
      BY <1>2, <3>1, <3>2, <3>3 DEF Statement
  <2>4. ASSUME NEW w \in acked PROVE Kept(w)'
    BY <1>2, KeptStays DEF AllKept
  <2>5. ASSUME NEW w \in acked', w \notin acked
        PROVE  Kept(w)'
    <3>1. LogCommit(c) /\ w = Own(c)
      BY <1>2, <2>5 DEF Statement, InsertWear, LogCommit, DeleteWear, UnlogCommit, RemoveCommit,
         DifferentCommit, Copy, Clear, MergeCommit, WriteQuestion, Own, told
    <3>2. tx[c].op = "log" /\ tx[c].at = "inserted" /\ wears' = (wears \ tx[c].del) \cup tx[c].ins
      BY <3>1 DEF LogCommit, Commit
    <3>3. CASE w \in tx[c].ins
      BY <3>2, <3>3 DEF Kept, Counted, Fact
    <3>4. CASE Kept(w)
      BY <1>2, <3>4, KeptStays
    <3> QED
      BY <3>1, <3>2, <3>3, <3>4 DEF AllKept
  <2> QED
    BY <2>2, <2>3, <2>4, <2>5 DEF AllKept
<1> QED
  BY <1>1, <1>2

LEMMA InitLose == Init => LoseInv
<1> SUFFICES ASSUME Init PROVE LoseInv
  OBVIOUS
<1>0. IInv
  BY InitInv
<1>1. PICK asked \in SUBSET Garments :
        /\ deduped = asked
        /\ \A g \in Garments :
             IF g \in asked THEN question[g] \in Garments \ asked ELSE question[g] = None
  BY DEF Init
<1>2. active = Garments /\ acked = wears /\ \A c \in Clients : tx[c] = Closed
  BY DEF Init
<1>3. Asked
  BY <1>1, <1>2 DEF Asked, Closed
<1>4. Written /\ Named
  BY <1>2 DEF Written, Named, Closed
<1>5. Rooted
  <2> SUFFICES ASSUME NEW a \in Articles
               PROVE  \E g \in active : Shows[g] = a /\ (question[g] = None \/ ~Alike(g, question[g]))
    BY DEF Rooted
  <2>1. PICK g \in Garments : Shows[g] = a
    BY ShowsAssumption
  <2>2. CASE question[g] = None \/ ~Alike(g, question[g])
    BY <1>2, <2>1, <2>2
  <2>3. CASE question[g] # None /\ Alike(g, question[g])
    <3>1. question[g] \in Garments \ asked
      BY <1>1, <2>3
    <3>2. question[question[g]] = None /\ Shows[question[g]] = a
      BY <1>1, <2>1, <2>3, <3>1 DEF Alike
    <3> QED
      BY <1>2, <3>1, <3>2
  <2> QED
    BY <2>2, <2>3
<1>6. AllKept
  BY <1>2 DEF AllKept, Kept, Counted, Closed
<1>7. \E rank \in Ranks : Ranked(rank) /\ Covered(rank)
  <2> DEFINE rank == [g \in Garments |-> IF question[g] = None THEN 1 ELSE 0]
  <2>1. rank \in Ranks
    BY DEF Ranks
  <2>2. Ranked(rank)
    <3>1. \A g \in Garments : question[g] # None => question[g] \in Garments /\ question[question[g]] = None
      BY <1>1
    <3> QED
      BY <3>1 DEF Ranked
  <2>3. Covered(rank)
    BY <1>2 DEF Covered, Closed
  <2> QED
    BY <2>1, <2>2, <2>3
<1> QED
  BY <1>0, <1>3, <1>4, <1>5, <1>6, <1>7 DEF LoseInv

LEMMA LoseKept ==
  ASSUME LoseInv, NEW c \in Clients, Request(c) \/ Statement(c)
  PROVE  LoseInv'
<1>1. IInv /\ Asked /\ Written
  BY DEF LoseInv
<1>2. IInv' /\ Asked' /\ Written'
  BY <1>1, RequestKeeps, StatementKeeps, AskedKept, WrittenKept
<1>3. CASE crossed'
  BY <1>2, <1>3 DEF LoseInv
<1>4. CASE ~crossed'
  <2>1. crossed => crossed'
    <3>1. CASE Request(c)
      BY <1>1, <3>1, RequestFacts DEF told
    <3>2. CASE Statement(c)
      BY <1>1, <3>2, StatementFacts
    <3> QED
      BY <3>1, <3>2
  <2>2. Named /\ Rooted /\ AllKept /\ \E rank \in Ranks : Ranked(rank) /\ Covered(rank)
    BY <1>4, <2>1 DEF LoseInv
  <2>3. PICK rank \in Ranks : Ranked(rank) /\ Covered(rank)
    BY <2>2
  <2>4. Named'
    BY <1>1, <1>4, <2>2, NamedKept
  <2>5. Rooted'
    BY <1>1, <1>4, <2>2, RootedKept
  <2>6. AllKept'
    BY <1>1, <2>2, <2>3, AllKeptStays
  <2>7. \E next \in Ranks : Ranked(next)' /\ Covered(next)'
    BY <1>1, <2>2, <2>3, RanksKept
  <2>8. (\E rank_1 \in Ranks : Ranked(rank_1) /\ Covered(rank_1))'
    BY <2>7 DEF Ranks
  <2> QED
    BY <1>2, <2>4, <2>5, <2>6, <2>8 DEF LoseInv
<1> QED
  BY <1>3, <1>4

LEMMA LoseInductive == Spec => []LoseInv
<1>1. LoseInv /\ UNCHANGED vars => LoseInv'
  <2> SUFFICES ASSUME LoseInv, UNCHANGED vars PROVE LoseInv'
    OBVIOUS
  <2>1. IInv'
    BY StutterKeeps DEF LoseInv
  <2>2. Asked' /\ Written'
    BY DEF LoseInv, Asked, Written, Alike, Fact, vars, rows, told
  <2>3. CASE crossed
    BY <2>1, <2>2, <2>3 DEF LoseInv, vars, told
  <2>4. CASE ~crossed
    <3>1. Named' /\ Rooted' /\ AllKept'
      BY <2>4 DEF LoseInv, Named, Rooted, AllKept, Kept, Gone, Counted, Own, Fact, Alike,
         vars, rows, told
    <3>2. PICK rank \in Ranks : Ranked(rank) /\ Covered(rank)
      BY <2>4 DEF LoseInv
    <3>3. Ranked(rank)' /\ Covered(rank)'
      BY <3>2 DEF Ranked, Covered, Covers, Gone, Fact, Alike, vars, rows, told
    <3>4. (\E rank_1 \in Ranks : Ranked(rank_1) /\ Covered(rank_1))'
      BY <3>3 DEF Ranks
    <3> QED
      BY <2>1, <2>2, <3>1, <3>4 DEF LoseInv
  <2> QED
    BY <2>3, <2>4
<1>2. LoseInv /\ [Next]_vars => LoseInv'
  BY <1>1, LoseKept DEF Next
<1> QED
  BY InitLose, <1>2, PTL DEF Spec

(* Whatever requests and dedupe jobs overlap, and in any number: a wearing *)
(* the user was told is logged keeps a row of its article until the user   *)
(* takes it back, and an article none of whose rows was removed keeps an   *)
(* active row.  The two exceptions are those the property names: a wearing *)
(* committed between a merge's INSERT ... SELECT and its DELETE, and two   *)
(* dedupe jobs that crossed (duplicates.py, _resolve; stages/dedupe.py).   *)
THEOREM AnswersAlwaysLoseNothing == Spec => []AnswersLoseNothing
<1>1. LoseInv => AnswersLoseNothing
  <2> SUFFICES ASSUME LoseInv, ~crossed PROVE AnswersLoseNothing
    BY DEF AnswersLoseNothing
  <2>1. Rooted /\ AllKept
    BY DEF LoseInv
  <2> QED
    BY <2>1 DEF AnswersLoseNothing, Rooted, AllKept, Kept, Gone
<1> QED
  BY LoseInductive, <1>1, PTL
================================================================================
