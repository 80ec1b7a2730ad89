-------------------------------- MODULE Learning -------------------------------
(* What a reaction teaches: the event log, the style vector folded from it, the
   counters of the bandit's arms, and the script that folds the log again.  Each
   reaction is one READ COMMITTED transaction; every writer writes back what it
   computed from an earlier SELECT. *)
EXTENDS Naturals, Sequences, FiniteSets

CONSTANTS
  Reactions,     \* calls of POST /outfits/feedback
  Worn,          \* [Reactions -> SUBSET garments], the outfit reacted to
  Code,          \* [Reactions -> dress codes], most common in the outfit: its arm
  Verdict,       \* [Reactions -> {"like", "dislike", "saved"}]
  Embedded,      \* garments that have an embedding from the start
  MaxRebuilds,
  Rebuild,       \* the script, as a writer beside others
  Unheld         \* no transaction

ASSUME ReactionsAssumption ==
  IsFiniteSet(Reactions) /\ Rebuild \notin Reactions /\ Unheld \notin Reactions

VARIABLES
  wearable,      \* garments that are active
  embedded,      \* garments whose embedding is stored
  begun,         \* reactions in the order their transactions began (created_at)
  logged,        \* reactions whose rows are committed
  vector,        \* user_style_vector: the folds it is the result of, in order
  arms,          \* bandit_arm: [liked, disliked] per dress code
  reacting,      \* the transaction of each reaction
  vectorLock,    \* the transaction that has written the vector's row
  armLock,       \* the transaction that has written an arm's row
  rebuilding,    \* what the script has folded and not yet written
  rebuilds,
  together       \* ghost: writers that overlapped

learningVars == <<wearable, embedded, begun, logged, vector, arms, reacting,
                  vectorLock, armLock, rebuilding, rebuilds, together>>

Taught == UNION {Worn[e] : e \in Reactions}
Arms == {Code[e] : e \in Reactions}
Votes(e) == Verdict[e] \in {"like", "dislike"}

LearningInit ==
  /\ wearable = Taught /\ embedded = Embedded
  /\ begun = <<>> /\ logged = {} /\ vector = <<>>
  /\ arms = [k \in Arms |-> [liked |-> 0, disliked |-> 0]]
  /\ reacting = [e \in Reactions |->
                   [at |-> "idle", seen |-> {}, fold |-> <<>>,
                    count |-> [liked |-> 0, disliked |-> 0]]]
  /\ vectorLock = Unheld /\ armLock = [k \in Arms |-> Unheld]
  /\ rebuilding = <<>> /\ rebuilds = 0 /\ together = {}

Open == {e \in Reactions : reacting[e].at \in {"load", "save", "arm", "count", "commit"}}
Writers == Open \cup (IF rebuilding = <<>> THEN {} ELSE {Rebuild})

--------------------------------------------------------------------------------
\* The garments are read with their embeddings (404 unless all are active) and
\* the event is inserted; created_at is the start of the transaction.
RecordEvent(e) ==
  /\ reacting[e].at = "idle" /\ Worn[e] \subseteq wearable
  /\ begun' = Append(begun, e)
  /\ reacting' = [reacting EXCEPT ![e].at = "load", ![e].seen = Worn[e] \cap embedded]
  /\ together' = together \cup {{e, w} : w \in Writers}
  /\ UNCHANGED <<wearable, embedded, logged, vector, arms, vectorLock, armLock,
                 rebuilding, rebuilds>>

\* _load_style; an outfit without a single embedding has nothing to fold.
LoadStyle(e) ==
  /\ reacting[e].at = "load"
  /\ reacting' = [reacting EXCEPT
       ![e].at = IF reacting[e].seen = {} THEN "arm" ELSE "save",
       ![e].fold = IF reacting[e].seen = {} THEN <<>>
                   ELSE Append(vector, <<e, reacting[e].seen>>)]
  /\ UNCHANGED <<wearable, embedded, begun, logged, vector, arms, vectorLock,
                 armLock, rebuilding, rebuilds, together>>

SaveUnlocked(e) ==
  /\ reacting[e].at = "save"
  /\ reacting' = [reacting EXCEPT ![e].at = "arm"]
  /\ UNCHANGED <<wearable, embedded, begun, logged, vector, arms, vectorLock,
                 armLock, rebuilding, rebuilds, together>>

\* _save_style: the upsert waits for whoever has written the row, and then
\* writes what was folded from the value read before.
SaveStyle(e) ==
  /\ reacting[e].at = "save" /\ vectorLock = Unheld
  /\ vectorLock' = e
  /\ reacting' = [reacting EXCEPT ![e].at = "arm"]
  /\ UNCHANGED <<wearable, embedded, begun, logged, vector, arms, armLock,
                 rebuilding, rebuilds, together>>

Counted(e, count) ==
  IF Verdict[e] = "like" THEN [count EXCEPT !.liked = @ + 1]
                         ELSE [count EXCEPT !.disliked = @ + 1]

\* _update_bandit_arm reads the counters; without evidence it writes nothing.
ReadArm(e) ==
  /\ reacting[e].at = "arm"
  /\ reacting' = [reacting EXCEPT
       ![e].at = IF Votes(e) THEN "count" ELSE "commit",
       ![e].count = Counted(e, arms[Code[e]])]
  /\ UNCHANGED <<wearable, embedded, begun, logged, vector, arms, vectorLock,
                 armLock, rebuilding, rebuilds, together>>

WriteArm(e) ==
  /\ reacting[e].at = "count" /\ armLock[Code[e]] = Unheld
  /\ armLock' = [armLock EXCEPT ![Code[e]] = e]
  /\ reacting' = [reacting EXCEPT ![e].at = "commit"]
  /\ UNCHANGED <<wearable, embedded, begun, logged, vector, arms, vectorLock,
                 rebuilding, rebuilds, together>>

Unlock(e) ==
  /\ vectorLock' = IF vectorLock = e THEN Unheld ELSE vectorLock
  /\ armLock' = [k \in Arms |-> IF armLock[k] = e THEN Unheld ELSE armLock[k]]

CommitReaction(e) ==
  /\ reacting[e].at = "commit"
  /\ logged' = logged \cup {e}
  /\ vector' = IF reacting[e].seen = {} THEN vector ELSE reacting[e].fold
  /\ arms' = IF Votes(e) THEN [arms EXCEPT ![Code[e]] = reacting[e].count] ELSE arms
  /\ reacting' = [reacting EXCEPT ![e].at = "done"]
  /\ Unlock(e)
  /\ UNCHANGED <<wearable, embedded, begun, rebuilding, rebuilds, together>>

\* The connection or the process is lost: nothing of the reaction remains.
RollBack(e) ==
  /\ e \in Open
  /\ reacting' = [reacting EXCEPT ![e].at = "lost"]
  /\ Unlock(e)
  /\ UNCHANGED <<wearable, embedded, begun, logged, vector, arms, rebuilding,
                 rebuilds, together>>

--------------------------------------------------------------------------------
\* The n-th of some places, in their order.
Nth(places, n) == CHOOSE i \in {j \in places : Cardinality({k \in places : k <= j}) = n} : TRUE

\* The log in its order, folded with what is seen of each outfit; an event of whose
\* outfit nothing is seen is skipped.
Folded(seen) ==
  LET places == {i \in DOMAIN begun : begun[i] \in logged /\ seen[begun[i]] # {}}
  IN  [n \in 1..Cardinality(places) |-> <<begun[Nth(places, n)], seen[begun[Nth(places, n)]]>>]

ReplayActive == Folded([e \in Reactions |-> Worn[e] \cap embedded \cap wearable])

\* replay_tenant: the log by created_at, with the embeddings garments have now,
\* removed garments included.
Replay == Folded([e \in Reactions |-> Worn[e] \cap embedded])

StartRebuild ==
  /\ rebuilding = <<>> /\ rebuilds < MaxRebuilds /\ Replay # <<>>
  /\ rebuilds' = rebuilds + 1
  /\ rebuilding' = Replay
  /\ together' = together \cup {{Rebuild, e} : e \in Open}
  /\ UNCHANGED <<wearable, embedded, begun, logged, vector, arms, reacting,
                 vectorLock, armLock>>

\* persist, a transaction of its own.
PersistRebuild ==
  /\ rebuilding # <<>> /\ vectorLock = Unheld
  /\ vector' = rebuilding /\ rebuilding' = <<>>
  /\ UNCHANGED <<wearable, embedded, begun, logged, arms, reacting, vectorLock,
                 armLock, rebuilds, together>>

\* --check writes nothing, and neither does a script that dies.
DropRebuild ==
  /\ rebuilding # <<>> /\ rebuilding' = <<>>
  /\ UNCHANGED <<wearable, embedded, begun, logged, vector, arms, reacting,
                 vectorLock, armLock, rebuilds, together>>

\* The ingest job stores an embedding late; a garment is removed.
EmbedLate(g) ==
  /\ g \notin embedded /\ embedded' = embedded \cup {g}
  /\ UNCHANGED <<wearable, begun, logged, vector, arms, reacting, vectorLock,
                 armLock, rebuilding, rebuilds, together>>

TakeAway(g) ==
  /\ g \in wearable /\ wearable' = wearable \ {g}
  /\ UNCHANGED <<embedded, begun, logged, vector, arms, reacting, vectorLock,
                 armLock, rebuilding, rebuilds, together>>

LearningNext ==
  \/ \E e \in Reactions :
       \/ RecordEvent(e) \/ LoadStyle(e) \/ SaveStyle(e) \/ ReadArm(e)
       \/ WriteArm(e) \/ CommitReaction(e) \/ RollBack(e)
  \/ StartRebuild \/ PersistRebuild \/ DropRebuild
  \/ \E g \in Taught : EmbedLate(g) \/ TakeAway(g)

LearningSpec == LearningInit /\ [][LearningNext]_learningVars

--------------------------------------------------------------------------------
Beside(e) == \E w \in Reactions \cup {Rebuild} : w # e /\ {e, w} \in together

Voters(k, v) == {e \in logged : Code[e] = k /\ Verdict[e] = v}

(* "The live handler and the rebuild script, in the same order, so the two    *)
(* cannot drift" (style.py, apply_event), as far as it goes.  No reaction is    *)
(* folded twice, or without its row in the log (feedback.py, record_feedback). *)
(* One is missing from the vector only if nothing of its outfit was embedded   *)
(* when it came in, or if its transaction ran beside another writer of the     *)
(* vector, the script included.  Without such overlaps, and with no embedding  *)
(* that came late, the vector is the replay of the log.  A vote is missing     *)
(* from its arm only if one of two overlapping votes on it left the vector     *)
(* alone: the vector's row lock, taken before the counters are read, is what   *)
(* keeps the others apart.                                                     *)
LearningSound ==
  /\ \A i, j \in DOMAIN vector : vector[i][1] = vector[j][1] => i = j
  /\ \A i \in DOMAIN vector : vector[i][1] \in logged
  /\ \A e \in logged : \/ \E i \in DOMAIN vector : vector[i][1] = e
                       \/ reacting[e].seen = {}
                       \/ Beside(e)
  /\ /\ together = {}
     /\ \A e \in logged : reacting[e].seen = Worn[e] \cap embedded
     => vector = Replay
  /\ \A k \in Arms :
       \/ /\ arms[k].liked = Cardinality(Voters(k, "like"))
          /\ arms[k].disliked = Cardinality(Voters(k, "dislike"))
       \/ \E e, f \in Voters(k, "like") \cup Voters(k, "dislike") :
            e # f /\ {e, f} \in together /\ reacting[e].seen = {}
================================================================================
