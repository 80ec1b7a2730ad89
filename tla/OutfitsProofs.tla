----------------------------- MODULE OutfitsProofs ------------------------------
(***************************************************************************)
(* Proofs about Outfits, for any wardrobe, outfits, scores and limits, and *)
(* any number of nightly runs, recomputes, requests, reactions, changes    *)
(* and faults: a hash that was handed out resolves, no answer holds what   *)
(* could not be worn all along, and an answer is as full as it can be.     *)
(***************************************************************************)
EXTENDS Outfits, FiniteSetTheorems, TLAPS

TxSet == [at : {"idle", "begun", "pruned", "storing"}, seen : Nat, todo : Seq(Sets),
          wrote : SUBSET Sets, dropped : SUBSET Sets]
AskSet == [at : {"idle", "generate", "hydrate", "persist", "rehydrate", "answered"},
           limit : Nat \ {0}, rows : Seq(Sets),
           from : {"none", "live", "materialised", "refilled", "unstored"},
           kept : SUBSET Sets, bad : SUBSET Garments, lost : SUBSET Sets, calm : BOOLEAN]

OutfitTyped ==
  /\ stored \in [Sets -> Nat \cup {None}] /\ style \in 0..MaxReactions
  /\ tx \in [Writers -> TxSet] /\ asked \in [Requests -> AskSet]
  /\ owed \subseteq Sets /\ gone \subseteq Sets

\* What is not usable is known to have been lost, and only that is pruned or
\* forgiven.
GoneSound ==
  /\ \A o \in Sets : ~(o \subseteq Usable) => o \in gone
  /\ \A w \in Writers : tx[w].dropped \subseteq gone
  /\ owed \cap gone = {}

\* The rows of a request have their place in the table, unless they are lost.
Standing(rows, table, lost) == \A o \in Members(rows) : table[o] # None \/ o \in lost

\* The rows are all a wardrobe has of such outfits, or as many as were asked for.
Full(rows, limit, all) ==
  IsInjective(rows) /\ Members(rows) \subseteq all /\ Len(rows) = AtMost(limit, all)

\* AnswersWhatItCan, of one answer.
Enough(a, all) ==
  LET shown == Cardinality(a.kept)
  IN  \/ shown >= a.limit
      \/ shown >= Cardinality(all)
      \/ a.from = "materialised" /\ shown > 0 /\ shown >= Len(a.rows)

\* What a request has in hand at each of its steps, given its transaction t.
AskSound(a, t) ==
  /\ a.at = "hydrate" => a.from = "materialised" /\ a.rows # <<>> /\ IsInjective(a.rows)
  /\ a.at = "persist" => Members(a.rows) \subseteq t.wrote \cup Members(t.todo)
  /\ a.at = "answered" => \A o \in a.kept : o \cap a.bad = {}

\* ... what that has to do with the table and the wardrobe.
AskCurrent(a, table, out, wear, all) ==
  /\ a.at = "hydrate" \/ (a.at = "rehydrate" /\ a.from # "unstored") =>
       Standing(a.rows, table, out \cup a.lost)
  /\ a.bad \cap wear = {}
  /\ a.at \in {"persist", "rehydrate"} /\ a.calm => Full(a.rows, a.limit, all)
  /\ a.at = "answered" /\ a.calm => Enough(a, all)

Current(a) == AskCurrent(a, stored, gone, active \ resting, Candidates(Wearable))

OutfitInv ==
  /\ OutfitTyped /\ GoneSound /\ HashesResolve
  /\ \A q \in Requests : AskSound(asked[q], tx[q]) /\ Current(asked[q])

--------------------------------------------------------------------------------
(* Listings and shares of them. *)

LEMMA SetsFinite == IsFiniteSet(Sets) /\ \A S \in SUBSET Sets : IsFiniteSet(S) /\ Cardinality(S) \in Nat
<1>1. IsFiniteSet(SUBSET Garments)
  BY GarmentsAssumption, FS_SUBSET
<1>2. IsFiniteSet(Sets)
  BY <1>1, SetsAssumption, FS_Subset
<1> QED
  BY <1>2, FS_Subset, FS_CardinalityType

\* A listing of outfits is a sequence of them without repetition.
LEMMA ListingsAre ==
  ASSUME NEW S \in SUBSET Sets, NEW n \in Nat, NEW rows \in Listings(n, S)
  PROVE  /\ rows \in Seq(Sets) /\ Members(rows) \subseteq S /\ IsInjective(rows)
         /\ Len(rows) = AtMost(n, S)
<1>1. Cardinality(S) \in Nat
  BY SetsFinite
<1>2. AtMost(n, S) \in Nat
  BY <1>1 DEF AtMost
<1> DEFINE m == AtMost(n, S)
<1>3. rows \in [1..m -> S] /\ IsInjective(rows)
  BY DEF Listings
<1> HIDE DEF m
<1>4. m \in Nat
  BY <1>2 DEF m
<1>5. rows \in Seq(S) /\ Len(rows) = m /\ DOMAIN rows = 1..m
  BY <1>3, <1>4
<1> QED
  BY <1>3, <1>5 DEF Members, m

LEMMA StoredListings ==
  ASSUME NEW n \in Nat, NEW rows \in TopStored(stored, n)
  PROVE  /\ rows \in Seq(Sets) /\ IsInjective(rows)
         /\ \A o \in Members(rows) : stored[o] # None
<1> DEFINE S == {o \in Sets : stored[o] # None}
<1>1. rows \in Listings(n, S)
  BY DEF TopStored, Top
<1> QED
  BY <1>1, ListingsAre

LEMMA SuggestedListings ==
  ASSUME NEW version, NEW pool, NEW n \in Nat, NEW rows \in Suggest(version, pool, n)
  PROVE  rows \in Seq(Sets) /\ Full(rows, n, Candidates(pool))
<1>1. rows \in Listings(n, Candidates(pool)) /\ Candidates(pool) \in SUBSET Sets
  BY DEF Suggest, Diversify, Candidates
<1> QED
  BY <1>1, ListingsAre DEF Full

\* What stands at so many places of a listing.
LEMMA PlacesCount ==
  ASSUME NEW rows \in Seq(Sets), IsInjective(rows), NEW P \in SUBSET DOMAIN rows
  PROVE  Cardinality({rows[i] : i \in P}) = Cardinality(P) /\ Cardinality(P) \in Nat
         /\ Cardinality(DOMAIN rows) = Len(rows)
<1>0. DOMAIN rows = 1..Len(rows) /\ Len(rows) \in Nat
  OBVIOUS
<1>1. IsFiniteSet(DOMAIN rows) /\ Cardinality(DOMAIN rows) = Len(rows)
  <2>1. IsFiniteSet(1..Len(rows)) /\ Cardinality(1..Len(rows)) = Len(rows)
    <3> DEFINE k == Len(rows)
    <3> HIDE DEF k
    <3>1. k \in Nat
      BY <1>0 DEF k
    <3>2. IsFiniteSet(1..k) /\ Cardinality(1..k) = IF 1 > k THEN 0 ELSE k - 1 + 1
      BY <3>1, FS_Interval
    <3>3. Cardinality(1..k) = k
      BY <3>1, <3>2
    <3> QED
      BY <3>2, <3>3 DEF k
  <2> QED
    BY <1>0, <2>1
<1>2. IsFiniteSet(P) /\ Cardinality(P) \in Nat
  BY <1>1, FS_Subset, FS_CardinalityType
<1> DEFINE T == {rows[i] : i \in P}
           f == [i \in P |-> rows[i]]
<1>3. f \in Surjection(P, T)
  BY DEF Surjection
<1>4. f \in Injection(P, T)
  BY DEF Injection, IsInjective
<1>5. Cardinality(T) = Cardinality(P)
  <2> HIDE DEF T, f
  <2> QED
    BY <1>2, <1>3, <1>4, FS_Surjection
<1> QED
  BY <1>1, <1>2, <1>5

LEMMA MembersCount ==
  ASSUME NEW rows \in Seq(Sets), IsInjective(rows)
  PROVE  Cardinality(Members(rows)) = Len(rows)
BY PlacesCount DEF Members

LEMMA TailMembers ==
  ASSUME NEW todo \in Seq(Sets), todo # <<>>
  PROVE  Tail(todo) \in Seq(Sets) /\ Head(todo) \in Sets
         /\ Members(todo) = {Head(todo)} \cup Members(Tail(todo))
<1>1. /\ Tail(todo) \in Seq(Sets) /\ Head(todo) \in Sets /\ Head(todo) = todo[1]
      /\ DOMAIN todo = 1..Len(todo) /\ DOMAIN Tail(todo) = 1..(Len(todo) - 1)
      /\ \A i \in 1..(Len(todo) - 1) : Tail(todo)[i] = todo[i + 1]
      /\ Len(todo) \in Nat \ {0}
  OBVIOUS
<1>2. \A i \in 1..Len(todo) : i = 1 \/ (i - 1 \in 1..(Len(todo) - 1) /\ (i - 1) + 1 = i)
  BY <1>1
<1>3. \A i \in 1..(Len(todo) - 1) : i + 1 \in 1..Len(todo)
  BY <1>1
<1>4. \A o : o \in Members(todo) <=> \E i \in 1..Len(todo) : o = todo[i]
  BY <1>1 DEF Members
<1>5. \A o : o \in Members(Tail(todo)) <=> \E i \in 1..(Len(todo) - 1) : o = todo[i + 1]
  BY <1>1 DEF Members
<1>6. ASSUME NEW i \in 1..Len(todo)
      PROVE  todo[i] = Head(todo) \/ todo[i] \in Members(Tail(todo))
  BY <1>1, <1>2, <1>5
<1>7. ASSUME NEW i \in 1..(Len(todo) - 1) PROVE todo[i + 1] \in Members(todo)
  BY <1>3, <1>4
<1> QED
  BY <1>1, <1>4, <1>5, <1>6, <1>7

--------------------------------------------------------------------------------
LEMMA InitInv == Init => OutfitInv
<1> SUFFICES ASSUME Init PROVE OutfitInv
  OBVIOUS
<1>1. OutfitTyped
  BY BoundsAssumption DEF Init, OutfitTyped, TxSet, AskSet, Idle, Asleep
<1>2. GoneSound /\ HashesResolve
  BY DEF Init, GoneSound, HashesResolve, Idle, Writers
<1>3. \A q \in Requests : AskSound(asked[q], tx[q]) /\ Current(asked[q])
  BY DEF Init, Asleep, AskSound, Current, AskCurrent
<1> QED
  BY <1>1, <1>2, <1>3 DEF OutfitInv

LEMMA Sorts ==
  /\ Replicas \subseteq Writers /\ Jobs \subseteq Writers /\ Requests \subseteq Writers
  /\ \A r \in Replicas \cup Jobs : r \notin Requests
BY WritersAssumption DEF Writers

\* The table has what it had, or that is lost, and what a request has in hand
\* stays as it was.
TableKept == \A o \in Sets : stored[o] # None => stored'[o] # None \/ o \in gone

LEMMA OthersKeep ==
  ASSUME OutfitInv, TableKept, UNCHANGED <<wardrobe, gone>>,
         NEW q \in Requests, asked'[q] = asked[q], tx'[q] = tx[q]
  PROVE  AskSound(asked[q], tx[q])' /\ Current(asked[q])'
<1>1. AskSound(asked[q], tx[q])'
  BY DEF OutfitInv
<1>2. /\ active' = active /\ resting' = resting /\ gone' = gone
      /\ Candidates(Wearable)' = Candidates(Wearable)
  BY DEF wardrobe, Candidates, Wearable, Usable
<1>3. Members(asked[q].rows) \subseteq Sets
  BY DEF OutfitInv, OutfitTyped, AskSet, Members
<1>4. Standing(asked[q].rows, stored, gone \cup asked[q].lost)
        => Standing(asked[q].rows, stored', gone \cup asked[q].lost)
  BY <1>3 DEF Standing, TableKept
<1>5. Current(asked[q])
  BY DEF OutfitInv
<1> QED
  BY <1>1, <1>2, <1>4, <1>5 DEF Current, AskCurrent

\* A step of a writer that leaves the table alone.
LEMMA TxAlone ==
  ASSUME OutfitInv, UNCHANGED <<wardrobe, stored, asked, ghosts>>, style' \in 0..MaxReactions,
         NEW w \in Writers, NEW t \in TxSet, tx' = [tx EXCEPT ![w] = t], t.dropped \subseteq gone,
         w \in Requests => AskSound(asked[w], t)
  PROVE  OutfitInv'
<1>1. tx' \in [Writers -> TxSet] /\ \A v \in Writers : tx'[v] = IF v = w THEN t ELSE tx[v]
  BY DEF OutfitInv, OutfitTyped
<1>2. owed' = owed /\ gone' = gone /\ Usable' = Usable
  BY DEF ghosts, wardrobe, Usable
<1>3. OutfitTyped'
  BY <1>1, <1>2 DEF OutfitInv, OutfitTyped
<1>4. GoneSound' /\ HashesResolve'
  BY <1>1, <1>2 DEF OutfitInv, GoneSound, HashesResolve
<1>5. ASSUME NEW q \in Requests PROVE AskSound(asked[q], tx[q])' /\ Current(asked[q])'
  <2>1. TableKept /\ asked'[q] = asked[q]
    BY DEF TableKept
  <2>2. CASE q # w
    BY <1>1, <1>2, <2>1, <2>2, OthersKeep, Sorts
  <2>3. CASE q = w
    <3>1. AskSound(asked[q], tx[q])'
      BY <1>1, <2>3
    <3>2. Candidates(Wearable)' = Candidates(Wearable) /\ active' = active /\ resting' = resting
      BY DEF Candidates, Wearable, Usable, wardrobe
    <3> QED
      BY <1>2, <3>1, <3>2 DEF OutfitInv, Current
  <2> QED
    BY <2>2, <2>3
<1> QED
  BY <1>3, <1>4, <1>5 DEF OutfitInv

LEMMA IdleTx ==
  /\ Idle \in TxSet /\ Idle.dropped = {}
  /\ \A at \in {"idle", "begun", "storing"} :
       [Idle EXCEPT !.at = at] \in TxSet /\ [Idle EXCEPT !.at = at].dropped = {}
<1>1. <<>> \in Seq(Sets)
  OBVIOUS
<1>2. Idle \in TxSet /\ Idle.dropped = {}
  BY <1>1 DEF Idle, TxSet
<1>3. ASSUME NEW at \in {"idle", "begun", "storing"}
      PROVE  [Idle EXCEPT !.at = at] \in TxSet /\ [Idle EXCEPT !.at = at].dropped = {}
  <2> HIDE DEF Idle
  <2> QED
    BY <1>2 DEF TxSet
<1> QED
  BY <1>2, <1>3

--------------------------------------------------------------------------------
(* Writers. *)

LEMMA PruneKeeps == ASSUME OutfitInv, NEW w \in Replicas \cup Jobs, Prune(w) PROVE OutfitInv'
<1> DEFINE stale == {o \in Sets : stored[o] # None /\ ~(o \subseteq Usable)}
           t == [tx[w] EXCEPT !.dropped = stale, !.at = "pruned"]
<1>1. tx[w] \in TxSet /\ w \in Writers /\ w \notin Requests
  BY Sorts DEF OutfitInv, OutfitTyped
<1>2. stale \subseteq gone /\ stale \subseteq Sets
  BY DEF OutfitInv, GoneSound
<1>3. t \in TxSet /\ t.dropped = stale
  <2> HIDE DEF stale
  <2> QED
    BY <1>1, <1>2 DEF TxSet
<1>4. tx' = [tx EXCEPT ![w] = t]
  BY <1>1 DEF Prune, OutfitInv, OutfitTyped
<1>5. UNCHANGED <<wardrobe, stored, asked, ghosts>> /\ style' \in 0..MaxReactions
  BY DEF Prune, OutfitInv, OutfitTyped
<1> HIDE DEF stale, t
<1> QED
  BY <1>1, <1>2, <1>3, <1>4, <1>5, TxAlone

LEMMA GenerateKeeps == ASSUME OutfitInv, NEW w \in Replicas \cup Jobs, Generate(w) PROVE OutfitInv'
<1>1. tx[w] \in TxSet /\ w \in Writers /\ w \notin Requests /\ tx[w].dropped \subseteq gone
      /\ style \in Nat
  BY Sorts, BoundsAssumption DEF OutfitInv, OutfitTyped, GoneSound
<1>2. PICK rows \in Suggest(style, Wearable, Keep) :
        tx' = [tx EXCEPT ![w].seen = style, ![w].todo = rows, ![w].at = "storing"]
  BY DEF Generate
<1>3. rows \in Seq(Sets)
  BY SuggestedListings, BoundsAssumption
<1> DEFINE t == [tx[w] EXCEPT !.seen = style, !.todo = rows, !.at = "storing"]
<1>4. t \in TxSet /\ t.dropped = tx[w].dropped
  BY <1>1, <1>3 DEF TxSet
<1>5. tx' = [tx EXCEPT ![w] = t]
  BY <1>1, <1>2 DEF OutfitInv, OutfitTyped
<1>6. UNCHANGED <<wardrobe, stored, asked, ghosts>> /\ style' \in 0..MaxReactions
  BY DEF Generate, OutfitInv, OutfitTyped
<1> HIDE DEF t
<1> QED
  BY <1>1, <1>4, <1>5, <1>6, TxAlone

LEMMA UpsertKeeps == ASSUME OutfitInv, NEW w \in Writers, Upsert(w) PROVE OutfitInv'
<1> DEFINE todo == tx[w].todo
           t == [tx[w] EXCEPT !.wrote = @ \cup {Head(todo)}, !.todo = Tail(todo)]
<1>1. tx[w] \in TxSet /\ tx[w].dropped \subseteq gone
  BY DEF OutfitInv, OutfitTyped, GoneSound
<1>2. todo \in Seq(Sets) /\ todo # <<>>
  BY <1>1 DEF Upsert, TxSet
<1>3. Tail(todo) \in Seq(Sets) /\ Head(todo) \in Sets
      /\ Members(todo) = {Head(todo)} \cup Members(Tail(todo))
  BY <1>2, TailMembers
<1>4. /\ t \in TxSet /\ t.dropped = tx[w].dropped
      /\ t.wrote = tx[w].wrote \cup {Head(todo)} /\ t.todo = Tail(todo)
  BY <1>1, <1>3 DEF TxSet
<1>5. tx' = [tx EXCEPT ![w] = t]
  BY <1>1 DEF Upsert, OutfitInv, OutfitTyped
<1>6. UNCHANGED <<wardrobe, stored, asked, ghosts>> /\ style' \in 0..MaxReactions
  BY DEF Upsert, OutfitInv, OutfitTyped
<1>7. w \in Requests => AskSound(asked[w], t)
  <2> HIDE DEF t
  <2> QED
    BY <1>3, <1>4 DEF OutfitInv, AskSound
<1> HIDE DEF t
<1> QED
  BY <1>1, <1>4, <1>5, <1>6, <1>7, TxAlone

\* A run begins, or ends without a trace.
LEMMA TxRestarts ==
  ASSUME OutfitInv, NEW w \in Replicas \cup Jobs, NEW at \in {"idle", "begun"},
         tx' = [tx EXCEPT ![w] = [Idle EXCEPT !.at = at]],
         UNCHANGED <<wardrobe, stored, style, asked, ghosts>>
  PROVE  OutfitInv'
<1> DEFINE t == [Idle EXCEPT !.at = at]
<1>1. t \in TxSet /\ t.dropped = {}
  BY IdleTx
<1>2. w \in Writers /\ w \notin Requests /\ style' \in 0..MaxReactions
  BY Sorts DEF OutfitInv, OutfitTyped
<1> HIDE DEF t
<1>3. tx' = [tx EXCEPT ![w] = t]
  BY DEF t
<1> QED
  BY <1>1, <1>2, <1>3, TxAlone

LEMMA RollBack == ASSUME NEW w, RolledBack(w)
                  PROVE  tx' = [tx EXCEPT ![w] = [Idle EXCEPT !.at = "idle"]] /\ stored' = stored
BY DEF RolledBack, Idle

\* A committed transaction leaves its rows, and takes out only what is lost.
LEMMA CommitFacts ==
  ASSUME OutfitInv, NEW w \in Writers, Committed(w), UNCHANGED <<wardrobe, style, ghosts>>
  PROVE  /\ stored' \in [Sets -> Nat \cup {None}] /\ TableKept
         /\ \A o \in tx[w].wrote : o \in Sets /\ stored'[o] # None
         /\ tx' \in [Writers -> TxSet] /\ \A v \in Writers : v # w => tx'[v] = tx[v]
         /\ GoneSound' /\ HashesResolve'
<1>1. /\ tx[w] \in TxSet /\ tx[w].seen \in Nat /\ tx[w].wrote \subseteq Sets
      /\ tx[w].dropped \subseteq gone /\ tx[w].seen # None
  BY NoneAssumption DEF OutfitInv, OutfitTyped, TxSet, GoneSound
<1>2. \A o \in Sets : stored'[o] = IF o \in tx[w].wrote THEN tx[w].seen
                                   ELSE IF o \in tx[w].dropped THEN None ELSE stored[o]
  BY DEF Committed, Seen
<1>3. stored' \in [Sets -> Nat \cup {None}]
  BY <1>1 DEF Committed, Seen, OutfitInv, OutfitTyped
<1>4. tx' = [tx EXCEPT ![w] = Idle]
  BY DEF Committed
<1>5. tx' \in [Writers -> TxSet] /\ \A v \in Writers : tx'[v] = IF v = w THEN Idle ELSE tx[v]
  BY <1>4, IdleTx DEF OutfitInv, OutfitTyped
<1>6. TableKept
  BY <1>1, <1>2 DEF TableKept
<1>7. owed' = owed /\ gone' = gone /\ Usable' = Usable /\ owed \subseteq Sets /\ owed \cap gone = {}
  BY DEF OutfitInv, OutfitTyped, GoneSound, ghosts, wardrobe, Usable
<1>8. HashesResolve'
  BY <1>6, <1>7 DEF OutfitInv, HashesResolve, TableKept
<1>9. GoneSound'
  BY <1>5, <1>7, IdleTx DEF OutfitInv, GoneSound
<1> QED
  BY <1>1, <1>2, <1>3, <1>5, <1>6, <1>8, <1>9

LEMMA RunCommits ==
  ASSUME OutfitInv, NEW w \in Replicas \cup Jobs, Committed(w),
         UNCHANGED <<wardrobe, style, asked, ghosts>>
  PROVE  OutfitInv'
<1>1. w \in Writers /\ w \notin Requests
  BY Sorts
<1>2. OutfitTyped'
  BY <1>1, CommitFacts DEF OutfitInv, OutfitTyped, ghosts
<1>3. ASSUME NEW q \in Requests PROVE AskSound(asked[q], tx[q])' /\ Current(asked[q])'
  <2>1. tx'[q] = tx[q] /\ asked'[q] = asked[q] /\ TableKept /\ gone' = gone
    BY <1>1, CommitFacts, Sorts DEF ghosts
  <2> QED
    BY <2>1, OthersKeep
<1> QED
  BY <1>1, <1>2, <1>3, CommitFacts DEF OutfitInv

LEMMA NightKeeps ==
  ASSUME OutfitInv, NEW r \in Replicas,
         Night(r) \/ ListTenantsFails(r) \/ NightFails(r) \/ RestartWorker(r)
  PROVE  OutfitInv'
<1>1. CASE AcquireLock(r)
  BY <1>1, TxRestarts DEF AcquireLock, Open
<1>2. CASE Writing(r)
  BY <1>2, PruneKeeps, GenerateKeeps, UpsertKeeps, Sorts DEF Writing
<1>3. CASE NightCommit(r)
  BY <1>3, RunCommits DEF NightCommit
<1>4. CASE ListTenantsFails(r) \/ NightFails(r) \/ RestartWorker(r)
  <2>1. RolledBack(r) /\ UNCHANGED <<wardrobe, style, asked, ghosts>>
    BY <1>4 DEF ListTenantsFails, NightFails, RestartWorker
  <2> QED
    BY <2>1, RollBack, TxRestarts
<1> QED
  BY <1>1, <1>2, <1>3, <1>4 DEF Night

LEMMA InvalidationKeeps == ASSUME OutfitInv, NEW j \in Jobs, Invalidation(j) PROVE OutfitInv'
<1>1. CASE Invalidate(j)
  BY <1>1, TxRestarts DEF Invalidate, Open
<1>2. CASE Writing(j)
  BY <1>2, PruneKeeps, GenerateKeeps, UpsertKeeps, Sorts DEF Writing
<1>3. CASE InvalidateCommit(j)
  BY <1>3, RunCommits DEF InvalidateCommit
<1>4. CASE InvalidateFails(j)
  BY <1>4, RollBack, TxRestarts DEF InvalidateFails
<1> QED
  BY <1>1, <1>2, <1>3, <1>4 DEF Invalidation

--------------------------------------------------------------------------------
(* Reactions and changes of garments. *)

LEMMA ReactKeeps == ASSUME OutfitInv, React PROVE OutfitInv'
<1>1. /\ UNCHANGED <<wardrobe, stored, tx, asked, ghosts>>
      /\ owed' = owed /\ gone' = gone /\ Usable' = Usable /\ style' \in 0..MaxReactions
  BY BoundsAssumption DEF React, ghosts, wardrobe, Usable, OutfitInv, OutfitTyped
<1>2. OutfitTyped' /\ GoneSound' /\ HashesResolve'
  BY <1>1 DEF OutfitInv, OutfitTyped, GoneSound, HashesResolve
<1>3. ASSUME NEW q \in Requests PROVE AskSound(asked[q], tx[q])' /\ Current(asked[q])'
  <2>1. TableKept
    BY <1>1 DEF TableKept
  <2> QED
    BY <1>1, <2>1, OthersKeep
<1> QED
  BY <1>2, <1>3 DEF OutfitInv

\* Whatever changes is no longer charged with, and ends the calm.
LEMMA ChangeKeeps ==
  ASSUME OutfitInv, NEW a, NEW h, NEW r, NEW deleted \in SUBSET Sets, Change(a, h, r, deleted)
  PROVE  OutfitInv'
<1>1. /\ active' = a /\ hidden' = h /\ resting' = r /\ UNCHANGED <<style, tx>>
      /\ stored' = [o \in Sets |-> IF o \in deleted THEN None ELSE stored[o]]
      /\ gone' = gone \cup {o \in Sets : ~(o \subseteq a \ h)}
      /\ owed' = owed \ (gone' \cup deleted)
      /\ asked' = [q \in Requests |-> [asked[q] EXCEPT
           !.bad = @ \ (a \ r), !.lost = @ \cup deleted, !.calm = asked[q].at = "idle"]]
  BY DEF Change
<1>2. Usable' = a \ h
  BY <1>1 DEF Usable
<1>3. GoneSound' /\ HashesResolve' /\ owed' \subseteq Sets /\ gone' \subseteq Sets
  BY <1>1, <1>2 DEF OutfitInv, OutfitTyped, GoneSound, HashesResolve
<1>4. ASSUME NEW q \in Requests
      PROVE  /\ asked'[q] \in AskSet /\ asked'[q].bad = asked[q].bad \ (a \ r)
             /\ asked'[q].at = asked[q].at /\ asked'[q].rows = asked[q].rows
             /\ asked'[q].from = asked[q].from /\ asked'[q].kept = asked[q].kept
             /\ asked'[q].lost = asked[q].lost \cup deleted
             /\ asked[q].at # "idle" => ~asked'[q].calm
  <2>1. asked[q] \in AskSet
    BY DEF OutfitInv, OutfitTyped
  <2>2. CASE asked[q].at = "idle"
    <3>1. (asked[q].at = "idle") = TRUE
      BY <2>2
    <3>2. asked'[q] = [asked[q] EXCEPT
           !.bad = @ \ (a \ r), !.lost = @ \cup deleted, !.calm = TRUE]
      BY <1>1, <3>1
    <3>3. /\ asked[q].bad \ (a \ r) \subseteq Garments
          /\ asked[q].lost \cup deleted \subseteq Sets
      BY <2>1 DEF AskSet
    <3> DEFINE before == asked[q]
               after == asked'[q]
    <3> HIDE DEF before, after
    <3>4. before \in AskSet /\ after = [before EXCEPT
           !.bad = @ \ (a \ r), !.lost = @ \cup deleted, !.calm = TRUE]
      BY <2>1, <3>2 DEF before, after
    <3>5. after \in AskSet
      BY <3>3, <3>4 DEF AskSet, before
    <3>6. /\ after.bad = before.bad \ (a \ r) /\ after.lost = before.lost \cup deleted
          /\ after.at = before.at /\ after.rows = before.rows
          /\ after.from = before.from /\ after.kept = before.kept
          /\ after.calm = TRUE
      BY <3>4 DEF AskSet
    <3> QED
      BY <2>2, <3>5, <3>6 DEF before, after
  <2>3. CASE asked[q].at # "idle"
    <3>1. (asked[q].at = "idle") = FALSE
      BY <2>3
    <3>2. asked'[q] = [asked[q] EXCEPT
           !.bad = @ \ (a \ r), !.lost = @ \cup deleted, !.calm = FALSE]
      BY <1>1, <3>1
    <3>3. /\ asked[q].bad \ (a \ r) \subseteq Garments
          /\ asked[q].lost \cup deleted \subseteq Sets
      BY <2>1 DEF AskSet
    <3> DEFINE before == asked[q]
               after == asked'[q]
    <3> HIDE DEF before, after
    <3>4. before \in AskSet /\ after = [before EXCEPT
           !.bad = @ \ (a \ r), !.lost = @ \cup deleted, !.calm = FALSE]
      BY <2>1, <3>2 DEF before, after
    <3>5. after \in AskSet
      BY <3>3, <3>4 DEF AskSet, before
    <3>6. /\ after.bad = before.bad \ (a \ r) /\ after.lost = before.lost \cup deleted
          /\ after.at = before.at /\ after.rows = before.rows
          /\ after.from = before.from /\ after.kept = before.kept
          /\ after.calm = FALSE
      BY <3>4 DEF AskSet
    <3> QED
      BY <2>3, <3>5, <3>6 DEF before, after
  <2> QED
    BY <2>2, <2>3
<1>5. asked' \in [Requests -> AskSet]
  <2>1. asked' = [q \in Requests |-> asked'[q]]
    BY <1>1
  <2> QED
    BY <1>4, <2>1
<1>6. OutfitTyped'
  BY <1>1, <1>3, <1>5 DEF OutfitInv, OutfitTyped
<1>7. ASSUME NEW q \in Requests PROVE AskSound(asked[q], tx[q])' /\ Current(asked[q])'
  <2>1. AskSound(asked[q], tx[q]) /\ Current(asked[q])
    BY DEF OutfitInv
  <2>2. AskSound(asked[q], tx[q])'
    BY <1>1, <1>4, <2>1 DEF AskSound
  <2>3. Standing(asked[q].rows, stored, gone \cup asked[q].lost)
          => Standing(asked[q].rows, stored', gone' \cup asked'[q].lost)
    <3>1. Members(asked[q].rows) \subseteq Sets
      BY DEF OutfitInv, OutfitTyped, AskSet, Members
    <3> QED
      BY <1>1, <1>4, <3>1 DEF Standing
  <2>4. asked'[q].bad \cap (active' \ resting') = {}
    BY <1>1, <1>4, <2>1
  <2>5. Current(asked[q])'
    BY <1>4, <2>1, <2>3, <2>4 DEF Current, AskCurrent
  <2> QED
    BY <2>2, <2>5
<1> QED
  BY <1>3, <1>6, <1>7 DEF OutfitInv

--------------------------------------------------------------------------------
(* Requests. *)

LEMMA AskMoves ==
  ASSUME OutfitInv, NEW q \in Requests, NEW a \in AskSet, asked' = [asked EXCEPT ![q] = a],
         UNCHANGED <<wardrobe, style, gone>>, TableKept, stored' \in [Sets -> Nat \cup {None}],
         tx' \in [Writers -> TxSet], \A v \in Writers : v # q => tx'[v] = tx[v],
         GoneSound', HashesResolve', owed' \subseteq Sets, AskSound(a, tx'[q]),
         AskCurrent(a, stored', gone, active \ resting, Candidates(Wearable))
  PROVE  OutfitInv'
<1>1. asked' \in [Requests -> AskSet] /\ \A p \in Requests : asked'[p] = IF p = q THEN a ELSE asked[p]
  BY DEF OutfitInv, OutfitTyped
<1>2. OutfitTyped'
  BY <1>1 DEF OutfitInv, OutfitTyped
<1>3. ASSUME NEW p \in Requests PROVE AskSound(asked[p], tx[p])' /\ Current(asked[p])'
  <2>1. CASE p # q
    <3>1. tx'[p] = tx[p] /\ asked'[p] = asked[p]
      BY <1>1, <2>1, Sorts
    <3> QED
      BY <3>1, OthersKeep
  <2>2. CASE p = q
    <3>1. asked'[p] = a
      BY <1>1, <2>2
    <3>2. AskSound(asked[p], tx[p])'
      BY <2>2, <3>1
    <3>3. /\ active' = active /\ resting' = resting /\ gone' = gone
          /\ Candidates(Wearable)' = Candidates(Wearable)
      BY DEF wardrobe, Candidates, Wearable, Usable
    <3> QED
      BY <3>1, <3>2, <3>3 DEF Current
  <2> QED
    BY <2>1, <2>2
<1> QED
  BY <1>2, <1>3 DEF OutfitInv

\* ... with its transaction and the table as they were.
LEMMA AskAlone ==
  ASSUME OutfitInv, NEW q \in Requests, NEW a \in AskSet, asked' = [asked EXCEPT ![q] = a],
         UNCHANGED <<wardrobe, style, gone, stored, tx>>,
         NEW N \in SUBSET Sets, owed' = owed \cup N,
         \A o \in N : o \notin gone /\ stored[o] # None, AskSound(a, tx[q]),
         AskCurrent(a, stored, gone, active \ resting, Candidates(Wearable))
  PROVE  OutfitInv'
<1>1. TableKept
  BY DEF TableKept
<1>2. Usable' = Usable
  BY DEF Usable, wardrobe
<1>3. GoneSound' /\ HashesResolve' /\ owed' \subseteq Sets
  BY <1>2 DEF OutfitInv, OutfitTyped, GoneSound, HashesResolve
<1> QED
  BY <1>1, <1>3, AskMoves DEF OutfitInv, OutfitTyped

LEMMA AskMovesOn ==
  ASSUME OutfitInv, NEW q \in Requests, NEW a \in AskSet, asked' = [asked EXCEPT ![q] = a],
         UNCHANGED <<wardrobe, style, gone, stored, tx>>, owed' = owed, AskSound(a, tx[q]),
         AskCurrent(a, stored, gone, active \ resting, Candidates(Wearable))
  PROVE  OutfitInv'
<1>1. PICK N \in SUBSET Sets : N = {}
  OBVIOUS
<1>2. owed' = owed \cup N /\ \A o \in N : o \notin gone /\ stored[o] # None
  BY <1>1
<1> QED
  BY <1>2, AskAlone

LEMMA GetSuggestionsKeeps ==
  ASSUME OutfitInv, NEW q \in Requests, GetSuggestions(q)
  PROVE  OutfitInv'
<1>1. PICK n \in Limits, live \in BOOLEAN :
        \E rows \in IF live THEN {<<>>} ELSE TopStored(stored, Overfetch * n) :
          asked' = [asked EXCEPT ![q] =
            [at |-> IF rows = <<>> THEN "generate" ELSE "hydrate", limit |-> n, rows |-> rows,
             from |-> IF rows = <<>> THEN "live" ELSE "materialised",
             kept |-> {}, bad |-> Garments \ (active \ resting), lost |-> {}, calm |-> TRUE]]
  BY DEF GetSuggestions
<1>2. PICK rows \in IF live THEN {<<>>} ELSE TopStored(stored, Overfetch * n) :
        asked' = [asked EXCEPT ![q] =
            [at |-> IF rows = <<>> THEN "generate" ELSE "hydrate", limit |-> n, rows |-> rows,
             from |-> IF rows = <<>> THEN "live" ELSE "materialised",
             kept |-> {}, bad |-> Garments \ (active \ resting), lost |-> {}, calm |-> TRUE]]
  BY <1>1
<1>3. n \in Nat \ {0} /\ Overfetch * n \in Nat
  BY BoundsAssumption
<1>4. rows \in Seq(Sets) /\ IsInjective(rows) /\ \A o \in Members(rows) : stored[o] # None
  <2>1. CASE rows = <<>>
    BY <2>1 DEF IsInjective, Members
  <2>2. CASE rows # <<>>
    <3>1. rows \in TopStored(stored, Overfetch * n)
      BY <1>2, <2>2
    <3> QED
      BY <1>3, <3>1, StoredListings
  <2> QED
    BY <2>1, <2>2
<1> DEFINE a == [at |-> IF rows = <<>> THEN "generate" ELSE "hydrate", limit |-> n, rows |-> rows,
                 from |-> IF rows = <<>> THEN "live" ELSE "materialised",
                 kept |-> {}, bad |-> Garments \ (active \ resting), lost |-> {}, calm |-> TRUE]
<1>5. a \in AskSet
  BY <1>3, <1>4 DEF AskSet
<1>6. AskSound(a, tx[q])
  BY <1>4 DEF AskSound
<1>7. AskCurrent(a, stored, gone, active \ resting, Candidates(Wearable))
  BY <1>4 DEF AskCurrent, Standing
<1>8. asked' = [asked EXCEPT ![q] = a]
  BY <1>2
<1>9. UNCHANGED <<wardrobe, style, gone, stored, tx>> /\ owed' = owed
  BY DEF GetSuggestions, ghosts
<1> HIDE DEF a
<1> QED
  BY <1>5, <1>6, <1>7, <1>8, <1>9, AskMovesOn

\* What a reply takes: it holds only what may be worn, all of it is stored but for
\* an unstored answer, and it is as full as it can be while nothing changes.
LEMMA ReplyKeeps ==
  ASSUME OutfitInv, NEW q \in Requests, NEW outfits \in SUBSET Sets, Reply(q, outfits),
         \A o \in outfits : Served(o),
         asked[q].from # "unstored" => \A o \in outfits : stored[o] # None \/ o \in gone \cup asked[q].lost,
         asked[q].calm =>
           Enough([asked[q] EXCEPT !.at = "answered", !.kept = outfits], Candidates(Wearable)),
         UNCHANGED <<wardrobe, style, gone, stored, tx>>
  PROVE  OutfitInv'
<1> DEFINE a == [asked[q] EXCEPT !.at = "answered", !.kept = outfits]
           N == {o \in outfits \ (gone \cup asked[q].lost) : asked[q].from # "unstored"}
<1>1. asked[q] \in AskSet /\ Current(asked[q])
  BY DEF OutfitInv, OutfitTyped
<1>2. a \in AskSet /\ a.at = "answered" /\ a.kept = outfits /\ a.bad = asked[q].bad
      /\ a.calm = asked[q].calm
  BY <1>1 DEF AskSet
<1>3. asked' = [asked EXCEPT ![q] = a] /\ owed' = owed \cup N
  BY DEF Reply, OutfitInv, OutfitTyped
<1>4. N \in SUBSET Sets /\ \A o \in N : o \notin gone /\ stored[o] # None
  OBVIOUS
<1>5. asked[q].bad \cap (active \ resting) = {}
  BY <1>1 DEF Current, AskCurrent
<1>6. AskSound(a, tx[q])
  <2> HIDE DEF a
  <2> QED
    BY <1>2, <1>5 DEF AskSound, Served
<1>7. AskCurrent(a, stored, gone, active \ resting, Candidates(Wearable))
  <2>1. a.calm => Enough(a, Candidates(Wearable))
    BY <1>2
  <2> HIDE DEF a
  <2> QED
    BY <1>2, <1>5, <2>1 DEF AskCurrent
<1> HIDE DEF a, N
<1> QED
  BY <1>2, <1>3, <1>4, <1>6, <1>7, AskAlone


LEMMA HydrateKeeps == ASSUME OutfitInv, NEW q \in Requests, Hydrate(q) PROVE OutfitInv'
<1> DEFINE rows == asked[q].rows
           limit == asked[q].limit
           kept == Kept(q)
<1>1. /\ asked[q] \in AskSet /\ asked[q].at = "hydrate"
      /\ AskSound(asked[q], tx[q]) /\ Current(asked[q])
      /\ UNCHANGED <<wardrobe, style, gone, stored, tx>>
  BY DEF Hydrate, OutfitInv, OutfitTyped
<1>2. /\ rows \in Seq(Sets) /\ limit \in Nat \ {0} /\ IsInjective(rows) /\ rows # <<>>
      /\ asked[q].from = "materialised" /\ Standing(rows, stored, gone \cup asked[q].lost)
      /\ asked[q].bad \cap (active \ resting) = {}
  BY <1>1 DEF AskSet, AskSound, Current, AskCurrent
<1>3. CASE TooFew(q)
  <2> DEFINE a == [asked[q] EXCEPT !.at = "generate", !.from = "refilled"]
  <2>1. asked' = [asked EXCEPT ![q] = a] /\ owed' = owed
    BY <1>3 DEF Hydrate, Refill, OutfitInv, OutfitTyped
  <2>2. a \in AskSet /\ a.at = "generate" /\ a.bad = asked[q].bad
    BY <1>1 DEF AskSet
  <2> HIDE DEF a
  <2>3. AskSound(a, tx[q]) /\ AskCurrent(a, stored, gone, active \ resting, Candidates(Wearable))
    BY <1>2, <2>2 DEF AskSound, AskCurrent
  <2> QED
    BY <1>1, <2>1, <2>2, <2>3, AskMovesOn
<1>4. CASE ~TooFew(q)
  <2>1. PICK first \in Shown(q, kept) : Reply(q, {rows[i] : i \in first})
    BY <1>4 DEF Hydrate, ReplyWith
  <2> DEFINE outfits == {rows[i] : i \in first}
  <2>2. /\ first \in SUBSET DOMAIN rows /\ kept \in SUBSET DOMAIN rows
        /\ Cardinality(first) = AtMost(limit, kept)
        /\ \A i \in first : Served(rows[i])
    BY DEF Shown, Kept
  <2>3. outfits \in SUBSET Sets /\ \A o \in outfits :
          Served(o) /\ (stored[o] # None \/ o \in gone \cup asked[q].lost)
    <3>1. \A i \in first : rows[i] \in Sets /\ rows[i] \in Members(rows)
      BY <1>2, <2>2 DEF Members
    <3> QED
      BY <1>2, <2>2, <3>1 DEF Standing
  <2> DEFINE a == [asked[q] EXCEPT !.at = "answered", !.kept = outfits]
  <2>4. Enough(a, Candidates(Wearable))
    <3>1. /\ Cardinality(outfits) = Cardinality(first) /\ Cardinality(first) \in Nat
          /\ Cardinality(kept) \in Nat /\ Cardinality(DOMAIN rows) = Len(rows)
      BY <1>2, <2>2, PlacesCount
    <3>2. Cardinality(first) = IF limit < Cardinality(kept) THEN limit ELSE Cardinality(kept)
      BY <2>2 DEF AtMost
    <3>3. Cardinality(kept) >= limit \/ kept = DOMAIN rows
      BY <1>2, <1>4, <3>1 DEF TooFew
    <3>4. Len(rows) \in Nat /\ Len(rows) > 0
      BY <1>2
    <3>5. /\ a.limit = limit /\ a.from = "materialised" /\ a.kept = outfits /\ a.rows = rows
      BY <1>1, <1>2, <2>3 DEF AskSet
    <3>6. CASE Cardinality(kept) >= limit
      <4>1. Cardinality(first) = limit
        BY <1>2, <3>1, <3>2, <3>6
      <4> HIDE DEF a, outfits, rows, limit, kept
      <4> QED
        BY <1>2, <3>1, <3>5, <4>1 DEF Enough
    <3>7. CASE ~(Cardinality(kept) >= limit)
      <4>1. Cardinality(first) = Len(rows)
        BY <1>2, <3>1, <3>2, <3>3, <3>7
      <4> HIDE DEF a, outfits, rows, limit, kept
      <4> QED
        BY <3>1, <3>4, <3>5, <4>1 DEF Enough
    <3> QED
      BY <3>6, <3>7
  <2> HIDE DEF outfits
  <2>5. Reply(q, outfits)
    BY <2>1 DEF outfits
  <2> QED
    BY <1>1, <2>3, <2>4, <2>5, ReplyKeeps
<1> QED
  BY <1>3, <1>4

LEMMA GenerateLiveKeeps == ASSUME OutfitInv, NEW q \in Requests, GenerateLive(q) PROVE OutfitInv'
<1> DEFINE pool == Candidates(Wearable)
<1>0. asked[q] \in AskSet /\ Current(asked[q]) /\ style \in Nat
  BY BoundsAssumption DEF OutfitInv, OutfitTyped
<1>1. /\ asked[q] \in AskSet /\ asked[q].at = "generate" /\ asked[q].limit \in Nat \ {0}
      /\ asked[q].bad \cap (active \ resting) = {} /\ style \in Nat
      /\ UNCHANGED <<wardrobe, style, gone, stored>>
  <2>1. asked[q].bad \cap (active \ resting) = {}
    BY <1>0 DEF Current, AskCurrent
  <2> QED
    BY <1>0, <2>1 DEF GenerateLive, AskSet
<1>2. PICK rows \in Suggest(style, Wearable, asked[q].limit) :
        IF rows = <<>>
        THEN Reply(q, {}) /\ tx' = tx
        ELSE /\ asked' = [asked EXCEPT ![q].at = "persist", ![q].rows = rows]
             /\ owed' = owed
             /\ tx' = [tx EXCEPT ![q] =
                  [Idle EXCEPT !.at = "storing", !.seen = style, !.todo = rows]]
  BY DEF GenerateLive
<1>3. rows \in Seq(Sets) /\ Full(rows, asked[q].limit, pool)
  BY <1>1, SuggestedListings
<1>4. CASE rows = <<>>
  <2>1. Reply(q, {}) /\ tx' = tx
    BY <1>2, <1>4
  <2>2. Cardinality(pool) = 0
    <3>1. Len(rows) = 0
      BY <1>4
    <3>2. Cardinality(pool) \in Nat
      BY SetsFinite DEF Candidates
    <3> HIDE DEF pool
    <3> QED
      BY <1>1, <1>3, <3>1, <3>2 DEF Full, AtMost
  <2> DEFINE a == [asked[q] EXCEPT !.at = "answered", !.kept = {}]
  <2>3. a.kept = {}
    BY <1>1 DEF AskSet
  <2>4. Enough(a, pool)
    <3> HIDE DEF a, pool
    <3> QED
      BY <2>2, <2>3, FS_EmptySet DEF Enough
  <2>5. PICK N \in SUBSET Sets : N = {}
    OBVIOUS
  <2>6. Enough([asked[q] EXCEPT !.at = "answered", !.kept = N], Candidates(Wearable))
    BY <2>4, <2>5
  <2>7. Reply(q, N) /\ \A o \in N : Served(o) /\ (stored[o] # None \/ o \in gone \cup asked[q].lost)
    BY <2>1, <2>5
  <2> QED
    BY <1>1, <2>1, <2>6, <2>7, ReplyKeeps
<1>5. CASE rows # <<>>
  <2> DEFINE a == [asked[q] EXCEPT !.at = "persist", !.rows = rows]
             t == [Idle EXCEPT !.at = "storing", !.seen = style, !.todo = rows]
  <2>1. asked' = [asked EXCEPT ![q] = a] /\ owed' = owed /\ tx' = [tx EXCEPT ![q] = t]
    BY <1>2, <1>5 DEF OutfitInv, OutfitTyped
  <2>2. /\ a \in AskSet /\ a.at = "persist" /\ a.rows = rows /\ a.bad = asked[q].bad
        /\ a.limit = asked[q].limit
    BY <1>1, <1>3 DEF AskSet
  <2>3. t \in TxSet /\ t.dropped = {} /\ t.todo = rows
    <3>1. Idle \in TxSet /\ Idle.dropped = {}
      BY IdleTx
    <3> HIDE DEF Idle
    <3> QED
      BY <1>1, <1>3, <3>1 DEF TxSet
  <2> HIDE DEF a, t
  <2>4. tx' \in [Writers -> TxSet] /\ \A v \in Writers : tx'[v] = IF v = q THEN t ELSE tx[v]
    BY <2>1, <2>3 DEF OutfitInv, OutfitTyped
  <2>5. AskSound(a, tx'[q]) /\ AskCurrent(a, stored', gone, active \ resting, Candidates(Wearable))
    BY <1>1, <1>3, <2>2, <2>3, <2>4, Sorts DEF AskSound, AskCurrent
  <2>6. TableKept /\ stored' \in [Sets -> Nat \cup {None}] /\ gone' = gone
    BY <1>1 DEF TableKept, OutfitInv, OutfitTyped
  <2>7. GoneSound' /\ HashesResolve' /\ owed' \subseteq Sets
    <3>1. Usable' = Usable
      BY <1>1 DEF Usable, wardrobe
    <3> QED
      BY <1>1, <2>1, <2>3, <2>4, <3>1 DEF OutfitInv, OutfitTyped, GoneSound, HashesResolve
  <2> QED
    BY <1>1, <2>1, <2>2, <2>4, <2>5, <2>6, <2>7, AskMoves
<1> QED
  BY <1>4, <1>5


LEMMA PersistKeeps ==
  ASSUME OutfitInv, NEW q \in Requests, PersistLiveOutfits(q) \/ PersistFails(q)
  PROVE  OutfitInv'
<1> DEFINE a == asked[q]
<1>1. /\ a \in AskSet /\ a.at = "persist" /\ Members(a.rows) \subseteq tx[q].wrote \cup Members(tx[q].todo)
      /\ AskSound(a, tx[q]) /\ Current(a)
      /\ UNCHANGED <<wardrobe, style, ghosts>> /\ owed' = owed /\ gone' = gone
  BY DEF PersistLiveOutfits, PersistFails, OutfitInv, OutfitTyped, AskSound, ghosts
<1>2. \A from \in {a.from, "unstored"} : \A lost \in {a.lost, {}} :
        LET b == [a EXCEPT !.at = "rehydrate", !.from = from, !.lost = lost]
        IN  /\ b \in AskSet /\ b.at = "rehydrate" /\ b.from = from /\ b.rows = a.rows
            /\ b.lost = lost
            /\ b.bad = a.bad /\ b.calm = a.calm /\ b.limit = a.limit
  <2> HIDE DEF a
  <2> QED
    BY <1>1 DEF AskSet
<1>3. a.calm => Full(a.rows, a.limit, Candidates(Wearable))
  BY <1>1 DEF Current, AskCurrent
<1>4. a.bad \cap (active \ resting) = {}
  BY <1>1 DEF Current, AskCurrent
<1>5. CASE PersistLiveOutfits(q)
  <2> DEFINE b == [a EXCEPT !.at = "rehydrate", !.from = a.from, !.lost = {}]
  <2>1. asked' = [asked EXCEPT ![q] = b] /\ Committed(q) /\ Stored(q) /\ q \in Writers
    <3>1. b = [a EXCEPT !.at = "rehydrate", !.lost = {}]
      BY <1>1 DEF AskSet
    <3> QED
      BY <1>5, <3>1, Sorts DEF PersistLiveOutfits, OutfitInv, OutfitTyped
  <2>2. /\ stored' \in [Sets -> Nat \cup {None}] /\ TableKept
        /\ \A o \in tx[q].wrote : o \in Sets /\ stored'[o] # None
        /\ tx' \in [Writers -> TxSet] /\ \A v \in Writers : v # q => tx'[v] = tx[v]
        /\ GoneSound' /\ HashesResolve'
    BY <1>1, <2>1, CommitFacts
  <2>3. Members(tx[q].todo) = {}
    BY <2>1 DEF Stored, Members
  <2>4. Standing(a.rows, stored', gone)
    BY <1>1, <2>2, <2>3 DEF Standing
  <2>5. /\ b \in AskSet /\ b.at = "rehydrate" /\ b.rows = a.rows /\ b.lost = {}
        /\ b.bad = a.bad /\ b.calm = a.calm /\ b.limit = a.limit
    BY <1>2
  <2>6. owed' \subseteq Sets
    BY <1>1 DEF OutfitInv, OutfitTyped
  <2> HIDE DEF b, a
  <2>7. Standing(b.rows, stored', gone \cup b.lost)
    BY <2>4, <2>5 DEF Standing
  <2>8. AskSound(b, tx'[q]) /\ AskCurrent(b, stored', gone, active \ resting, Candidates(Wearable))
    BY <1>3, <1>4, <2>5, <2>7 DEF AskSound, AskCurrent
  <2> QED
    BY <1>1, <2>1, <2>2, <2>5, <2>6, <2>8, AskMoves
<1>6. CASE PersistFails(q)
  <2> DEFINE b == [a EXCEPT !.at = "rehydrate", !.from = "unstored", !.lost = a.lost]
  <2>1. /\ asked' = [asked EXCEPT ![q] = b] /\ tx' = [tx EXCEPT ![q] = Idle] /\ stored' = stored
        /\ q \in Writers
    <3>1. b = [a EXCEPT !.at = "rehydrate", !.from = "unstored"]
      BY <1>1 DEF AskSet
    <3> QED
      BY <1>6, <3>1, Sorts DEF PersistFails, RolledBack, OutfitInv, OutfitTyped
  <2>2. tx' \in [Writers -> TxSet] /\ \A v \in Writers : tx'[v] = IF v = q THEN Idle ELSE tx[v]
    BY <2>1, IdleTx DEF OutfitInv, OutfitTyped
  <2>3. TableKept /\ stored' \in [Sets -> Nat \cup {None}] /\ owed' \subseteq Sets
    BY <1>1, <2>1 DEF TableKept, OutfitInv, OutfitTyped
  <2>4. GoneSound' /\ HashesResolve'
    <3>1. Usable' = Usable
      BY <1>1 DEF Usable, wardrobe
    <3> QED
      BY <1>1, <2>1, <2>2, <3>1, IdleTx DEF OutfitInv, GoneSound, HashesResolve
  <2>5. /\ b \in AskSet /\ b.at = "rehydrate" /\ b.from = "unstored" /\ b.rows = a.rows
        /\ b.bad = a.bad /\ b.calm = a.calm /\ b.limit = a.limit
    BY <1>2
  <2> HIDE DEF b, a
  <2>6. AskSound(b, tx'[q]) /\ AskCurrent(b, stored', gone, active \ resting, Candidates(Wearable))
    BY <1>3, <1>4, <2>5 DEF AskSound, AskCurrent
  <2> QED
    BY <1>1, <2>1, <2>2, <2>3, <2>4, <2>5, <2>6, AskMoves
<1> QED
  BY <1>5, <1>6

LEMMA RehydrateKeeps == ASSUME OutfitInv, NEW q \in Requests, RehydrateLive(q) PROVE OutfitInv'
<1> DEFINE a == asked[q]
           outfits == {o \in Members(a.rows) : Served(o)}
           b == [a EXCEPT !.at = "answered", !.kept = outfits]
<1>1. /\ a \in AskSet /\ a.at = "rehydrate" /\ Current(a) /\ Reply(q, outfits)
      /\ UNCHANGED <<wardrobe, style, gone, stored, tx>>
  BY DEF RehydrateLive, OutfitInv, OutfitTyped
<1>2. outfits \in SUBSET Sets /\ \A o \in outfits : Served(o)
  BY <1>1 DEF AskSet, Members
<1>3. a.from # "unstored" => \A o \in outfits : stored[o] # None \/ o \in gone \cup a.lost
  BY <1>1 DEF Current, AskCurrent, Standing
<1>4. ASSUME a.calm PROVE Enough(b, Candidates(Wearable))
  <2> DEFINE pool == Candidates(Wearable)
  <2>1. IsInjective(a.rows) /\ Members(a.rows) \subseteq pool /\ Len(a.rows) = AtMost(a.limit, pool)
    BY <1>1, <1>4 DEF Current, AskCurrent, Full
  <2>2. \A o \in pool : Served(o)
    BY DEF Candidates, Served, Wearable, Usable
  <2>3. outfits = Members(a.rows)
    BY <2>1, <2>2
  <2>4. Cardinality(outfits) = Len(a.rows)
    BY <1>1, <2>1, <2>3, MembersCount DEF AskSet
  <2>5. Cardinality(pool) \in Nat
    BY SetsFinite DEF Candidates
  <2>6. b.kept = outfits /\ b.limit = a.limit /\ a.limit \in Nat
    BY <1>1 DEF AskSet
  <2> HIDE DEF outfits, b, pool
  <2> QED
    BY <2>1, <2>4, <2>5, <2>6 DEF Enough, AtMost, pool
<1> HIDE DEF outfits
<1> QED
  BY <1>1, <1>2, <1>3, <1>4, ReplyKeeps

LEMMA DeliverKeeps == ASSUME OutfitInv, NEW q \in Requests, Deliver(q) PROVE OutfitInv'
<1>1. Asleep \in AskSet /\ Asleep.at = "idle" /\ Asleep.bad = {}
  BY DEF Asleep, AskSet
<1>2. /\ asked' = [asked EXCEPT ![q] = Asleep] /\ owed' = owed
      /\ UNCHANGED <<wardrobe, style, gone, stored, tx>>
  BY DEF Deliver, ghosts
<1>3. /\ AskSound(Asleep, tx[q])
      /\ AskCurrent(Asleep, stored, gone, active \ resting, Candidates(Wearable))
  BY <1>1 DEF AskSound, AskCurrent
<1> QED
  BY <1>1, <1>2, <1>3, AskMovesOn

LEMMA RequestKeeps ==
  ASSUME OutfitInv, NEW q \in Requests, GetSuggestions(q) \/ Request(q)
  PROVE  OutfitInv'
<1>1. CASE GetSuggestions(q)
  BY <1>1, GetSuggestionsKeeps
<1>2. CASE Hydrate(q)
  BY <1>2, HydrateKeeps
<1>3. CASE GenerateLive(q)
  BY <1>3, GenerateLiveKeeps
<1>4. CASE Upsert(q)
  BY <1>4, UpsertKeeps, Sorts
<1>5. CASE PersistLiveOutfits(q) \/ PersistFails(q)
  BY <1>5, PersistKeeps
<1>6. CASE RehydrateLive(q)
  BY <1>6, RehydrateKeeps
<1>7. CASE Deliver(q)
  BY <1>7, DeliverKeeps
<1> QED
  BY <1>1, <1>2, <1>3, <1>4, <1>5, <1>6, <1>7 DEF Request

LEMMA NextInv == ASSUME OutfitInv, [Next]_vars PROVE OutfitInv'
<1>1. CASE UNCHANGED vars
  <2>1. UNCHANGED <<wardrobe, stored, style, tx, asked, ghosts>> /\ owed' = owed /\ gone' = gone
        /\ Usable' = Usable
    BY <1>1 DEF vars, ghosts, wardrobe, Usable
  <2>2. OutfitTyped' /\ GoneSound' /\ HashesResolve'
    BY <2>1 DEF OutfitInv, OutfitTyped, GoneSound, HashesResolve
  <2>3. TableKept
    BY <2>1 DEF TableKept
  <2>4. ASSUME NEW q \in Requests PROVE AskSound(asked[q], tx[q])' /\ Current(asked[q])'
    BY <2>1, <2>3, OthersKeep
  <2> QED
    BY <2>2, <2>4 DEF OutfitInv
<1>2. ASSUME NEW r \in Replicas,
             Night(r) \/ ListTenantsFails(r) \/ NightFails(r) \/ RestartWorker(r)
      PROVE  OutfitInv'
  BY <1>2, NightKeeps
<1>3. ASSUME NEW j \in Jobs, Invalidation(j) PROVE OutfitInv'
  BY <1>3, InvalidationKeeps
<1>4. ASSUME NEW q \in Requests, GetSuggestions(q) \/ Request(q) PROVE OutfitInv'
  BY <1>4, RequestKeeps
<1>5. ASSUME NEW g \in Garments, ChangeGarment(g) PROVE OutfitInv'
  <2>1. RowsNaming(g) \in SUBSET Sets /\ {} \in SUBSET Sets
    BY DEF RowsNaming
  <2> QED
    BY <1>5, <2>1, ChangeKeeps DEF ChangeGarment, RemoveGarment, CorrectField
<1> QED
  BY <1>1, <1>2, <1>3, <1>4, <1>5, ReactKeeps DEF Next

LEMMA OutfitsSound == Spec => []OutfitInv
<1>1. OutfitInv /\ [Next]_vars => OutfitInv'
  BY NextInv
<1> QED
  BY <1>1, InitInv, PTL DEF Spec

(* The hash of an outfit that a request answered with is in the table      *)
(* (suggestions.py, _persist_live_outfits), through nights, recomputes,    *)
(* live generations, removals, corrections, lost locks and deadlocks at    *)
(* any moment, unless one of its garments became unusable since, the user  *)
(* removed or corrected one, which deletes the row (garments.py,           *)
(* corrections.py), or its own persist failed.                             *)
THEOREM HashesAlwaysResolve == Spec => []HashesResolve
<1>1. OutfitInv => HashesResolve
  BY DEF OutfitInv
<1> QED
  BY <1>1, OutfitsSound, PTL

(* No answer holds a garment that could not be worn all the while the      *)
(* request ran, however old the rows it was made from (_hydrate).          *)
THEOREM UnwearableIsNeverServed == Spec => []NeverServedUnwearable
<1>1. OutfitInv => NeverServedUnwearable
  BY DEF OutfitInv, AskSound, NeverServedUnwearable
<1> QED
  BY <1>1, OutfitsSound, PTL

(* An answer during which no garment changed is as long as was asked for,  *)
(* holds all the wardrobe allows, or serves all the rows there were.       *)
THEOREM AnswersAreFull == Spec => []AnswersWhatItCan
<1>1. OutfitInv => AnswersWhatItCan
  BY DEF OutfitInv, Current, AskCurrent, Enough, AnswersWhatItCan
<1> QED
  BY <1>1, OutfitsSound, PTL
================================================================================
