----------------------- MODULE IngestPipelineProofs -----------------------
(* Proofs about IngestPipeline, for every value of its constants.          *)
EXTENDS IngestPipeline, FiniteSetTheorems, TLAPS

\* The steps the actions are written with.
USE DEF TakeEntry, BeginWith, RecordWaitAnd, TakeRound, Enqueue, CompleteAs, ParkThen

TypeInv == TypeOK /\ Working

\* Stages whose turn it is are stages, unless the job is complete.
LEMMA NextStageType ==
  ASSUME NEW st \in States, st # N
  PROVE  NextStage(st) \in Stages
BY StageAssumption DEF NextStage, Stages, States, OffRamps, REJECTED, QUARANTINED,
   NEEDS_REVIEW, DEGRADED_TAGGED, DUPLICATE_SUSPECT

LEMMA StagesAreStates == Stages \subseteq States /\ 0 \in States /\ N \in States
BY StageAssumption DEF Stages, States

LEMMA BusySlot ==
  ASSUME TypeOK, NEW s \in Slots, run[s].pc # "idle"
  PROVE  /\ run[s] \in Busy
         /\ run[s].job \in Jobs /\ run[s].round \in Nat /\ run[s].cur \in States
         /\ run[s].att \in Nat /\ run[s].before \in Nat /\ run[s].inproc \in Nat
         /\ run[s].delay \in Nat /\ run[s].off \in OffRamps /\ run[s].target \in Nat
BY DEF TypeOK, Busy, Idle

\* The stage a slot is at.
LEMMA SlotStage ==
  ASSUME TypeInv, NEW s \in Slots, run[s].pc # "idle", run[s].pc # "return"
  PROVE  StageOf(s) \in Stages
BY BusySlot, NextStageType DEF TypeInv, Working, Ready, StageOf

\* A slot that takes on a record of Busy leaves the others as they are.
LEMMA SlotStep ==
  ASSUME TypeInv, NEW s \in Slots, NEW r \in Busy, r.pc = "return" \/ r.cur # N,
         run' = [run EXCEPT ![s] = r]
  PROVE  run' \in [Slots -> Busy \cup {Idle}] /\ Working'
BY DEF TypeInv, TypeOK, Working, Ready, Busy

LEMMA SlotIdle ==
  ASSUME TypeInv, NEW s \in Slots, run' = [run EXCEPT ![s] = Idle]
  PROVE  run' \in [Slots -> Busy \cup {Idle}] /\ Working'
BY DEF TypeInv, TypeOK, Working, Ready, Busy, Idle

LEMMA InitType == Init => TypeInv
BY StagesAreStates DEF Init, TypeInv, TypeOK, Working, Ready, Idle

LEMMA NextType == TypeInv /\ [Next]_vars => TypeInv'
<1> SUFFICES ASSUME TypeInv, [Next]_vars PROVE TypeInv'
  OBVIOUS
<1> USE DEF row, queue, history
<1>1. ASSUME NEW j \in Jobs, Deliver(j) PROVE TypeInv'
  BY <1>1 DEF Deliver, TypeInv, TypeOK, Working, Ready
<1>2. ASSUME NEW s \in Slots, NEW e \in queued, Skip(s, e[1], e[2]) PROVE TypeInv'
  BY <1>2 DEF Skip, TypeInv, TypeOK, Working, Ready
<1>3. ASSUME NEW s \in Slots, NEW e \in queued, Start(s, e[1], e[2]) PROVE TypeInv'
  <2> DEFINE r == [pc |-> "begin", job |-> e[1], round |-> e[2], cur |-> state[e[1]],
                   att |-> 0, before |-> 0, inproc |-> 0, delay |-> 0,
                   off |-> REJECTED, target |-> 0]
  <2>1. e[1] \in Jobs /\ e[2] \in Nat
    BY DEF TypeInv, TypeOK
  <2>2. r \in Busy /\ r.cur # N
    BY <1>3, <2>1 DEF Busy, PCs, OffRamps, TypeInv, TypeOK, Start, TerminalStates
  <2>3. run' = [run EXCEPT ![s] = r]
    BY <1>3 DEF Start
  <2> HIDE DEF r
  <2> QED
    BY <1>3, <2>2, <2>3, SlotStep DEF Start, TypeInv, TypeOK
<1>4. ASSUME NEW s \in Slots, Crash(s) PROVE TypeInv'
  <2>1. Entry(s) \in Jobs \X Nat
    BY <1>4, BusySlot DEF Crash, TypeInv, Entry
  <2>2. crashes' \in Nat
    BY <1>4 DEF Crash, TypeInv, TypeOK
  <2>3. redelivered' \subseteq Jobs
    BY <1>4, BusySlot DEF Crash, TypeInv, TypeOK
  <2> QED
    BY <1>4, <2>1, <2>2, <2>3, SlotIdle DEF Crash, TypeInv, TypeOK
<1>5. ASSUME NEW s \in Slots, Abort(s) PROVE TypeInv'
  <2>1. Entry(s) \in Jobs \X Nat
    BY <1>5, BusySlot DEF Abort, TypeInv, Entry
  <2>2. aborts' \in Nat
    BY <1>5 DEF Abort, TypeInv, TypeOK
  <2> QED
    BY <1>5, <2>1, <2>2, SlotIdle DEF Abort, Release, TypeInv, TypeOK
<1>6. ASSUME NEW s \in Slots, BeginStage(s) PROVE TypeInv'
  <2>1. StageOf(s) \in Stages
    BY <1>6, SlotStage DEF BeginStage
  <2>2. attempts[run[s].job][StageOf(s)] \in Nat /\ waited[run[s].job] \in Nat
    BY <1>6, <2>1, BusySlot DEF BeginStage, TypeInv, TypeOK
  <2> DEFINE r == [run[s] EXCEPT
          !.pc = IF attempts[run[s].job][StageOf(s)] < Limit(StageOf(s))
                   THEN "stage" ELSE "dlq",
          !.att = attempts[run[s].job][StageOf(s)],
          !.before = waited[run[s].job], !.inproc = 0]
  <2>3. r \in Busy /\ r.cur # N
    BY <1>6, <2>2, BusySlot DEF BeginStage, Busy, PCs, TypeInv, Working, Ready
  <2>4. run' = [run EXCEPT ![s] = r]
    BY <1>6 DEF BeginStage, TypeInv, TypeOK
  <2> HIDE DEF r
  <2> QED
    BY <1>6, <2>3, <2>4, SlotStep DEF BeginStage, TypeInv, TypeOK
<1>7. ASSUME NEW s \in Slots, StageSucceeds(s) PROVE TypeInv'
  <2> DEFINE r == [run[s] EXCEPT !.pc = "ok"]
  <2>1. r \in Busy /\ r.cur # N
    BY <1>7, BusySlot DEF StageSucceeds, Busy, PCs, TypeInv, Working, Ready
  <2>2. run' = [run EXCEPT ![s] = r]
    BY <1>7 DEF StageSucceeds, Goto, TypeInv, TypeOK
  <2> HIDE DEF r
  <2> QED
    BY <1>7, <2>1, <2>2, SlotStep DEF StageSucceeds, TypeInv, TypeOK
<1>8. ASSUME NEW s \in Slots, StageTerminal(s) PROVE TypeInv'
  <2>1. StageOf(s) \in Stages
    BY <1>8, SlotStage DEF StageTerminal
  <2>2. PICK t \in Terminates[StageOf(s)] :
          run' = [run EXCEPT ![s] = [run[s] EXCEPT !.pc = "park", !.off = t]]
    BY <1>8 DEF StageTerminal, TypeInv, TypeOK
  <2> DEFINE r == [run[s] EXCEPT !.pc = "park", !.off = t]
  <2>3. t \in OffRamps
    BY <2>1, StageAssumption
  <2>4. r \in Busy /\ r.cur # N
    BY <1>8, <2>3, BusySlot DEF StageTerminal, Busy, PCs, TypeInv, Working, Ready
  <2>5. run' = [run EXCEPT ![s] = r]
    BY <2>2
  <2> HIDE DEF r
  <2> QED
    BY <1>8, <2>4, <2>5, SlotStep DEF StageTerminal, TypeInv, TypeOK
<1>9. ASSUME NEW s \in Slots, StageFails(s) PROVE TypeInv'
  <2> DEFINE r == [run[s] EXCEPT !.pc = "failed"]
  <2>1. r \in Busy /\ r.cur # N
    BY <1>9, BusySlot DEF StageFails, Busy, PCs, TypeInv, Working, Ready
  <2>2. run' = [run EXCEPT ![s] = r]
    BY <1>9 DEF StageFails, Goto, TypeInv, TypeOK
  <2>3. StageOf(s) \in Stages /\ run[s].job \in Jobs
    BY <1>9, SlotStage, BusySlot DEF StageFails, TypeInv
  <2>4. failed' \in [Jobs -> [Stages -> Nat]]
    BY <1>9, <2>3 DEF StageFails, TypeInv, TypeOK
  <2> HIDE DEF r
  <2> QED
    BY <1>9, <2>1, <2>2, <2>4, SlotStep DEF StageFails, TypeInv, TypeOK
<1>10. ASSUME NEW s \in Slots, RecordAttempt(s) PROVE TypeInv'
  <2> DEFINE a == run[s].att + 1
             r == [run[s] EXCEPT !.att = a,
                     !.pc = IF a < Limit(StageOf(s)) THEN "stage" ELSE "dlq"]
  <2>5. run[s].pc = "failed"
    BY <1>10 DEF RecordAttempt
  <2>6. run[s] \in Busy /\ run[s].cur # N /\ a \in Nat
    BY <2>5, BusySlot DEF TypeInv, Working, Ready
  <2>1. r \in Busy /\ r.cur # N /\ a \in Nat
    BY <2>6 DEF Busy, PCs
  <2>2. run' = [run EXCEPT ![s] = r]
    BY <1>10 DEF RecordAttempt, TypeInv, TypeOK
  <2>3. attempts' = [attempts EXCEPT ![run[s].job][StageOf(s)] = a]
    BY <1>10 DEF RecordAttempt
  <2> HIDE DEF r, a
  <2>4. attempts' \in [Jobs -> [Stages -> Nat]]
    BY <2>1, <2>3 DEF TypeInv, TypeOK
  <2> QED
    BY <1>10, <2>1, <2>2, <2>4, SlotStep DEF RecordAttempt, TypeInv, TypeOK
<1>11. ASSUME NEW s \in Slots, StageUnavailable(s) PROVE TypeInv'
  <2> DEFINE total == run[s].before + run[s].inproc
  <2>3. run[s].pc = "stage"
    BY <1>11 DEF StageUnavailable
  <2>0. run[s] \in Busy /\ run[s].cur # N /\ total \in Nat
    BY <2>3, BusySlot DEF TypeInv, Working, Ready
  <2>1. CASE run' = [run EXCEPT ![s].pc = "dlq"] /\ UNCHANGED spent
    <3> DEFINE r == [run[s] EXCEPT !.pc = "dlq"]
    <3>1. r \in Busy /\ r.cur # N
      BY <2>0 DEF Busy, PCs
    <3>2. run' = [run EXCEPT ![s] = r]
      BY <2>1
    <3> HIDE DEF r
    <3> QED
      BY <1>11, <2>1, <3>1, <3>2, SlotStep DEF StageUnavailable, TypeInv, TypeOK
  <2>2. ASSUME total < Budget, NEW d \in Delays, NEW w,
               w = IF d <= Budget - total THEN d ELSE Budget - total,
               \/ /\ run' = [run EXCEPT ![s].inproc = @ + w]
                  /\ spent' = [spent EXCEPT ![run[s].job] = @ + w]
               \/ /\ run' = [run EXCEPT ![s] = [@ EXCEPT !.pc = "wait", !.delay = w]]
                  /\ UNCHANGED spent
        PROVE TypeInv'
    <3>1. w \in Nat
      BY <2>0, <2>2, BudgetAssumption
    <3>2. spent' \in [Jobs -> Nat]
      BY <2>2, <3>1 DEF TypeInv, TypeOK
    <3>3. PICK r \in Busy : r.cur # N /\ run' = [run EXCEPT ![s] = r]
      <4>1. CASE run' = [run EXCEPT ![s].inproc = @ + w]
        <5>1. [run[s] EXCEPT !.inproc = @ + w] \in Busy
          BY <2>0, <3>1 DEF Busy
        <5> QED
          BY <2>0, <4>1, <5>1 DEF TypeInv, TypeOK, Busy
      <4>2. CASE run' = [run EXCEPT ![s] = [@ EXCEPT !.pc = "wait", !.delay = w]]
        <5>1. [run[s] EXCEPT !.pc = "wait", !.delay = w] \in Busy
          BY <2>0, <3>1 DEF Busy, PCs
        <5> QED
          BY <2>0, <4>2, <5>1 DEF TypeInv, TypeOK, Busy
      <4> QED
        BY <2>2, <4>1, <4>2
    <3> QED
      BY <1>11, <3>2, <3>3, SlotStep DEF StageUnavailable, TypeInv, TypeOK
  <2> QED
    BY <1>11, <2>1, <2>2 DEF StageUnavailable, Goto
<1>12. ASSUME NEW s \in Slots, RecordWait(s) PROVE TypeInv'
  <2> DEFINE r == [run[s] EXCEPT !.pc = "count"]
  <2>1. r \in Busy /\ r.cur # N
    BY <1>12, BusySlot DEF RecordWait, Busy, PCs, TypeInv, Working, Ready
  <2>2. run' = [run EXCEPT ![s] = r]
    BY <1>12 DEF RecordWait, Goto, TypeInv, TypeOK
  <2>3. /\ waited' \in [Jobs -> Nat]
        /\ deferrals' \in [Jobs -> Nat]
        /\ spent' \in [Jobs -> Nat]
    BY <1>12, BusySlot DEF RecordWait, TypeInv, TypeOK
  <2> HIDE DEF r
  <2> QED
    BY <1>12, <2>1, <2>2, <2>3, SlotStep DEF RecordWait, TypeInv, TypeOK
<1>13. ASSUME NEW s \in Slots, ReadRound(s) PROVE TypeInv'
  <2> DEFINE r == [run[s] EXCEPT !.pc = "enqueue", !.target = deferrals[run[s].job]]
  <2>1. r \in Busy /\ r.cur # N
    BY <1>13, BusySlot DEF ReadRound, Busy, PCs, TypeInv, TypeOK, Working, Ready
  <2>2. run' = [run EXCEPT ![s] = r]
    BY <1>13 DEF ReadRound, TypeInv, TypeOK
  <2> HIDE DEF r
  <2> QED
    BY <1>13, <2>1, <2>2, SlotStep DEF ReadRound, TypeInv, TypeOK
<1>14. ASSUME NEW s \in Slots, Requeue(s) PROVE TypeInv'
  <2> DEFINE r == [run[s] EXCEPT !.pc = "return"]
  <2>1. r \in Busy /\ r.pc = "return"
    BY <1>14, BusySlot DEF Requeue, Busy, PCs, TypeInv
  <2>2. run' = [run EXCEPT ![s] = r]
    BY <1>14 DEF Requeue, Goto, TypeInv, TypeOK
  <2>3. queued' \subseteq Jobs \X Nat
    BY <1>14, BusySlot DEF Requeue, TypeInv, TypeOK
  <2> HIDE DEF r
  <2> QED
    BY <1>14, <2>1, <2>2, <2>3, SlotStep DEF Requeue, TypeInv, TypeOK
<1>15. ASSUME NEW s \in Slots, Transition(s) PROVE TypeInv'
  <2> DEFINE i == StageOf(s)
             r == [run[s] EXCEPT !.cur = i, !.pc = IF i = N THEN "return" ELSE "begin"]
  <2>1. i \in Stages
    BY <1>15, SlotStage DEF Transition
  <2>2. r \in Busy /\ (r.pc = "return" \/ r.cur # N)
    BY <1>15, <2>1, BusySlot, StagesAreStates DEF Transition, Busy, PCs, TypeInv
  <2>3. run' = [run EXCEPT ![s] = r]
    BY <1>15 DEF Transition, TypeInv, TypeOK
  <2>4. state' \in [Jobs -> States]
    BY <1>15, <2>1, StagesAreStates DEF Transition, TypeInv, TypeOK
  <2> HIDE DEF r, i
  <2> QED
    BY <1>15, <2>2, <2>3, <2>4, SlotStep DEF Transition, TypeInv, TypeOK
<1>16. ASSUME NEW s \in Slots, Park(s) PROVE TypeInv'
  <2> DEFINE r == [run[s] EXCEPT !.pc = "mark"]
  <2>1. r \in Busy /\ r.cur # N
    BY <1>16, BusySlot DEF Park, Busy, PCs, TypeInv, Working, Ready
  <2>2. run' = [run EXCEPT ![s] = r]
    BY <1>16 DEF Park, Goto, TypeInv, TypeOK
  <2>3. state' \in [Jobs -> States]
    BY <1>16, BusySlot DEF Park, TypeInv, TypeOK, States
  <2> HIDE DEF r
  <2> QED
    BY <1>16, <2>1, <2>2, <2>3, SlotStep DEF Park, TypeInv, TypeOK
<1>17. ASSUME NEW s \in Slots, MarkGarment(s) PROVE TypeInv'
  <2> DEFINE r == [run[s] EXCEPT !.pc = "return"]
  <2>1. r \in Busy /\ r.pc = "return"
    BY <1>17, BusySlot DEF MarkGarment, Busy, PCs, TypeInv
  <2>2. run' = [run EXCEPT ![s] = r]
    BY <1>17 DEF MarkGarment, Goto, TypeInv, TypeOK
  <2>3. marked' \in [Jobs -> OffRamps \cup {0}]
    BY <1>17, BusySlot DEF MarkGarment, TypeInv, TypeOK
  <2> HIDE DEF r
  <2> QED
    BY <1>17, <2>1, <2>2, <2>3, SlotStep DEF MarkGarment, TypeInv, TypeOK
<1>18. ASSUME NEW s \in Slots, ToDlq(s) PROVE TypeInv'
  <2> DEFINE r == [run[s] EXCEPT !.pc = "return"]
  <2>1. r \in Busy /\ r.pc = "return"
    BY <1>18, BusySlot DEF ToDlq, Busy, PCs, TypeInv
  <2>2. run' = [run EXCEPT ![s] = r]
    BY <1>18 DEF ToDlq, Goto, TypeInv, TypeOK
  <2>3. dlq' \in [Jobs -> BOOLEAN]
    BY <1>18, BusySlot DEF ToDlq, TypeInv, TypeOK
  <2> HIDE DEF r
  <2> QED
    BY <1>18, <2>1, <2>2, <2>3, SlotStep DEF ToDlq, TypeInv, TypeOK
<1>19. ASSUME NEW s \in Slots, Return(s) PROVE TypeInv'
  <2>1. Entry(s) \in Jobs \X Nat
    BY <1>19, BusySlot DEF Return, TypeInv, Entry
  <2> QED
    BY <1>19, <2>1, SlotIdle DEF Return, Release, TypeInv, TypeOK
<1>20. CASE UNCHANGED vars
  BY <1>20 DEF vars, TypeInv, TypeOK, Working, Ready
<1> QED
  BY <1>1, <1>2, <1>3, <1>4, <1>5, <1>6, <1>7, <1>8, <1>9, <1>10, <1>11, <1>12,
     <1>13, <1>14, <1>15, <1>16, <1>17, <1>18, <1>19, <1>20
     DEF Next, Pick, RunStage, Bookkeep

\* Every reachable state is well typed.
THEOREM TypeCorrect == Spec => []TypeOK
<1>1. TypeInv => TypeOK
  BY DEF TypeInv
<1> QED
  BY <1>1, InitType, NextType, PTL DEF Spec

-----------------------------------------------------------------------------
(* No job is lost.  The inductive invariant adds to NoLostJob that the row *)
(* counts the rounds: every round known to arq is at most deferrals, so    *)
(* the round a slot is about to enqueue after _record_dependency_wait is   *)
(* new and enqueue_job cannot refuse it.                                   *)

LostInv == TypeInv /\ RoundsCounted /\ NoLostJob

\* Slot s moves on within its call.
Moves(s) ==
  /\ run[s].pc # "idle" /\ run'[s].pc # "idle"
  /\ run'[s].job = run[s].job /\ run'[s].round = run[s].round
  /\ \A t \in Slots \ {s} : run'[t] = run[t]

LEMMA KnownMoves ==
  ASSUME NEW s \in Slots, Moves(s), queued' = queued, finished' = finished
  PROVE  Known' = Known
<1>1. Ready' = Ready
  BY DEF Moves, Ready
<1>2. \A t \in Ready : Entry(t)' = Entry(t)
  BY DEF Moves, Ready, Entry
<1> QED
  BY <1>1, <1>2 DEF Known

\* A slot that is not involved goes on carrying the same jobs.
LEMMA OthersCarry ==
  ASSUME NEW s \in Slots, \A t \in Slots \ {s} : run'[t] = run[t], Known' = Known,
         NEW t \in Slots, t # s, NEW j \in Jobs, Carries(t, j),
         deferrals'[j] = deferrals[j]
  PROVE  Carries(t, j)'
BY DEF Carries

\* The slot goes on to a step that is not part of filing a round.
LEMMA MoveOn ==
  ASSUME LostInv, NEW s \in Slots, Moves(s), UNCHANGED <<queue, deferrals>>,
         run[s].pc \notin {"mark", "return"},
         run'[s].target = run[s].target,
         run'[s].pc \in PCs \ {"mark", "return", "count", "enqueue"},
         \A k \in Jobs \ {run[s].job} : Settled(k) => Settled(k)'
  PROVE  RoundsCounted' /\ NoLostJob'
<1> USE DEF queue
<1>1. Known' = Known
  BY KnownMoves
<1>2. RoundsCounted'
  BY <1>1 DEF LostInv, RoundsCounted, Ready, Moves
<1>3. ASSUME NEW j \in Jobs
      PROVE  \/ Settled(j)' \/ ~delivered'[j]
             \/ \E e \in queued' : e[1] = j
             \/ \E t \in Slots : Carries(t, j)'
  <2>1. CASE j = run[s].job
    BY <2>1 DEF Carries, Moves
  <2>2. CASE j # run[s].job
    <3>1. ASSUME NEW t \in Slots, Carries(t, j) PROVE Carries(t, j)'
      BY <1>1, <2>2, <3>1, OthersCarry DEF Carries, Moves
    <3> QED
      BY <2>2, <3>1 DEF LostInv, NoLostJob
  <2> QED
    BY <2>1, <2>2
<1> QED
  BY <1>2, <1>3 DEF NoLostJob

\* The slot puts its job to rest.
LEMMA MoveOff ==
  ASSUME LostInv, NEW s \in Slots, Moves(s), UNCHANGED <<queue, deferrals>>,
         run'[s].target = run[s].target, Settled(run[s].job)',
         \A k \in Jobs \ {run[s].job} : Settled(k) => Settled(k)'
  PROVE  RoundsCounted' /\ NoLostJob'
<1> USE DEF queue
<1>1. Known' = Known
  BY KnownMoves
<1>2. RoundsCounted'
  BY <1>1 DEF LostInv, RoundsCounted, Ready, Moves
<1>3. ASSUME NEW j \in Jobs, j # run[s].job, NEW t \in Slots, Carries(t, j)
      PROVE  Carries(t, j)'
  BY <1>1, <1>3, OthersCarry DEF Carries, Moves
<1>4. ASSUME NEW j \in Jobs, j # run[s].job
      PROVE  \/ Settled(j)' \/ ~delivered'[j]
             \/ \E e \in queued' : e[1] = j
             \/ \E t \in Slots : Carries(t, j)'
  BY <1>3, <1>4 DEF LostInv, NoLostJob
<1> QED
  BY <1>2, <1>4 DEF NoLostJob, Moves

\* The slot gives its call up; Known stays what it was.
LEMMA GiveUp ==
  ASSUME LostInv, NEW s \in Slots, run[s].pc # "idle",
         run' = [run EXCEPT ![s] = Idle], UNCHANGED <<state, dlq, deferrals, delivered>>,
         \/ queued' = queued \cup {Entry(s)} /\ finished' = finished
         \/ /\ queued' = queued /\ finished' = finished \cup {Entry(s)}
            /\ run[s].pc \in {"mark", "return"}
  PROVE  RoundsCounted' /\ NoLostJob'
<1>1. Ready' = Ready \ {s} /\ \A t \in Slots \ {s} : run'[t] = run[t]
  BY DEF Ready, Idle, LostInv, TypeInv, TypeOK
<1>2. Known' = Known
  <2>1. \A t \in Ready \ {s} : Entry(t)' = Entry(t)
    BY <1>1 DEF Entry, Ready
  <2>2. s \in Ready
    BY DEF Ready
  <2> QED
    BY <1>1, <2>1, <2>2 DEF Known
<1>3. RoundsCounted'
  BY <1>1, <1>2 DEF LostInv, RoundsCounted, Ready
<1>4. ASSUME NEW j \in Jobs, NEW t \in Slots, Carries(t, j), t # s PROVE Carries(t, j)'
  BY <1>1, <1>2, <1>4, OthersCarry
<1>5. ASSUME NEW j \in Jobs, Carries(s, j) PROVE \E e \in queued' : e[1] = j
  <2>1. run[s].pc \notin {"mark", "return"} /\ run[s].job = j
    BY <1>5 DEF Carries
  <2>2. Entry(s) \in queued' /\ Entry(s)[1] = j
    BY <2>1 DEF Entry
  <2> QED
    BY <2>2
<1> QED
  BY <1>3, <1>4, <1>5 DEF LostInv, NoLostJob, Settled

LEMMA InitLost == Init => LostInv
BY InitType DEF Init, LostInv, RoundsCounted, NoLostJob, Known, Ready, Idle

\* MaxAborts = 0: nothing escapes ingest_photo but arq's own cancellation.
LEMMA NextLost == MaxAborts = 0 /\ LostInv /\ [Next]_vars => LostInv'
<1> SUFFICES ASSUME MaxAborts = 0, LostInv, [Next]_vars
             PROVE  RoundsCounted' /\ NoLostJob'
  BY NextType DEF LostInv
<1> USE DEF row, queue, history
<1>t. TypeInv /\ TypeInv'
  BY NextType DEF LostInv
<1>1. ASSUME NEW j \in Jobs, Deliver(j) PROVE RoundsCounted' /\ NoLostJob'
  <2>1. Known' = Known \cup {<<j, 0>>}
    BY <1>1 DEF Deliver, Known, Ready, Entry
  <2>2. RoundsCounted'
    BY <1>1, <1>t, <2>1 DEF Deliver, LostInv, RoundsCounted, Ready, TypeInv, TypeOK
  <2>3. ASSUME NEW k \in Jobs, k # j, NEW t \in Slots, Carries(t, k) PROVE Carries(t, k)'
    BY <1>1, <2>1, <2>3 DEF Deliver, Carries
  <2>4. ASSUME NEW k \in Jobs, k # j
        PROVE  \/ Settled(k)' \/ ~delivered'[k]
               \/ \E e \in queued' : e[1] = k
               \/ \E t \in Slots : Carries(t, k)'
    BY <1>1, <1>t, <2>3, <2>4 DEF Deliver, LostInv, NoLostJob, Settled, TypeInv, TypeOK
  <2>5. \E e \in queued' : e[1] = j
    <3>1. <<j, 0>> \in queued' /\ <<j, 0>>[1] = j
      BY <1>1 DEF Deliver
    <3> QED
      BY <3>1
  <2> QED
    BY <2>2, <2>4, <2>5 DEF NoLostJob
<1>2. ASSUME NEW s \in Slots, NEW e \in queued, Skip(s, e[1], e[2])
      PROVE  RoundsCounted' /\ NoLostJob'
  <2>1. e = <<e[1], e[2]>> /\ e[1] \in Jobs
    BY <1>t DEF TypeInv, TypeOK
  <2>2. Known' = Known
    BY <1>2, <2>1 DEF Skip, Known, Ready, Entry
  <2>3. RoundsCounted'
    BY <1>2, <2>2 DEF Skip, LostInv, RoundsCounted, Ready
  <2>4. \A t \in Slots, k \in Jobs : Carries(t, k) => Carries(t, k)'
    BY <1>2, <2>2 DEF Skip, Carries
  <2>5. ASSUME NEW k \in Jobs
        PROVE  \/ Settled(k)' \/ ~delivered'[k]
               \/ \E f \in queued' : f[1] = k
               \/ \E t \in Slots : Carries(t, k)'
    BY <1>2, <2>1, <2>4 DEF Skip, LostInv, NoLostJob, Settled
  <2> QED
    BY <2>3, <2>5 DEF NoLostJob
<1>3. ASSUME NEW s \in Slots, NEW e \in queued, Start(s, e[1], e[2])
      PROVE  RoundsCounted' /\ NoLostJob'
  <2>1. e = <<e[1], e[2]>> /\ e[1] \in Jobs
    BY <1>t DEF TypeInv, TypeOK
  <2>2. /\ run'[s].pc = "begin" /\ run'[s].job = e[1] /\ run'[s].round = e[2]
        /\ run'[s].target = 0
        /\ \A t \in Slots \ {s} : run'[t] = run[t]
    BY <1>3, <1>t DEF Start, TypeInv, TypeOK
  <2>3. Ready' = Ready \cup {s} /\ s \notin Ready
    BY <1>3, <2>2 DEF Ready, Start, Idle
  <2>4. Known' = Known
    <3>1. Entry(s)' = e /\ \A t \in Ready : Entry(t)' = Entry(t)
      BY <2>1, <2>2, <2>3 DEF Entry, Ready
    <3> QED
      BY <1>3, <2>1, <2>3, <3>1 DEF Known, Start
  <2>5. RoundsCounted'
    BY <1>3, <1>t, <2>1, <2>2, <2>3, <2>4
       DEF Start, LostInv, RoundsCounted, Ready, TypeInv, TypeOK
  <2>6. ASSUME NEW t \in Slots, NEW k \in Jobs, Carries(t, k) PROVE Carries(t, k)'
    <3>1. t # s
      BY <1>3, <2>6 DEF Start, Carries, Idle, PCs
    <3> QED
      BY <1>3, <2>2, <2>4, <2>6, <3>1, OthersCarry DEF Start
  <2>7. Carries(s, e[1])'
    BY <2>2 DEF Carries, PCs
  <2>8. ASSUME NEW k \in Jobs
        PROVE  \/ Settled(k)' \/ ~delivered'[k]
               \/ \E f \in queued' : f[1] = k
               \/ \E t \in Slots : Carries(t, k)'
    BY <1>3, <2>1, <2>6, <2>7 DEF Start, LostInv, NoLostJob, Settled
  <2> QED
    BY <2>5, <2>8 DEF NoLostJob
<1>4. ASSUME NEW s \in Slots, Crash(s) PROVE RoundsCounted' /\ NoLostJob'
  BY <1>4, GiveUp DEF Crash
<1>5. ASSUME NEW s \in Slots, Abort(s) PROVE FALSE
  BY <1>5, <1>t DEF Abort, TypeInv, TypeOK
<1>6. ASSUME NEW s \in Slots,
             BeginStage(s) \/ StageSucceeds(s) \/ StageTerminal(s) \/ StageFails(s)
      PROVE  RoundsCounted' /\ NoLostJob'
  <2>1. /\ Moves(s) /\ run'[s].target = run[s].target
        /\ run[s].pc \in {"begin", "stage"}
        /\ run'[s].pc \in {"stage", "dlq", "ok", "park", "failed"}
    <3>1. run[s].pc \in {"begin", "stage"}
      BY <1>6 DEF BeginStage, StageSucceeds, StageTerminal, StageFails
    <3>2. run[s] \in Busy
      BY <1>t, <3>1, BusySlot DEF TypeInv
    <3>3. CASE BeginStage(s)
      BY <1>t, <3>2, <3>3 DEF BeginStage, Moves, TypeInv, TypeOK, Busy
    <3>4. CASE StageSucceeds(s) \/ StageFails(s)
      BY <1>t, <3>2, <3>4 DEF StageSucceeds, StageFails, Goto, Moves, TypeInv, TypeOK, Busy
    <3>5. CASE StageTerminal(s)
      BY <1>t, <3>2, <3>5 DEF StageTerminal, Moves, TypeInv, TypeOK, Busy
    <3> QED
      BY <1>6, <3>1, <3>3, <3>4, <3>5
  <2>2. UNCHANGED <<state, dlq, deferrals, delivered, queued, finished>>
    BY <1>6 DEF BeginStage, StageSucceeds, StageTerminal, StageFails
  <2> QED
    BY <2>1, <2>2, MoveOn DEF PCs, Settled
<1>7. ASSUME NEW s \in Slots, RecordAttempt(s) PROVE RoundsCounted' /\ NoLostJob'
  <2>1. /\ Moves(s) /\ run'[s].target = run[s].target
        /\ run[s].pc = "failed" /\ run'[s].pc \in {"stage", "dlq"}
    <3>1. run[s].pc = "failed"
      BY <1>7 DEF RecordAttempt
    <3>2. run[s] \in Busy
      BY <1>t, <3>1, BusySlot DEF TypeInv
    <3> QED
      BY <1>7, <1>t, <3>1, <3>2 DEF RecordAttempt, Moves, TypeInv, TypeOK, Busy
  <2>2. UNCHANGED <<state, dlq, deferrals, delivered, queued, finished>>
    BY <1>7 DEF RecordAttempt
  <2> QED
    BY <2>1, <2>2, MoveOn DEF PCs, Settled
<1>8. ASSUME NEW s \in Slots, StageUnavailable(s) PROVE RoundsCounted' /\ NoLostJob'
  <2>1. run[s].pc = "stage" /\ run[s] \in Busy
    BY <1>8, <1>t, BusySlot DEF StageUnavailable, TypeInv
  <2>2. \/ run' = [run EXCEPT ![s].pc = "dlq"]
        \/ \E w : run' = [run EXCEPT ![s].inproc = @ + w]
        \/ \E w : run' = [run EXCEPT ![s] = [@ EXCEPT !.pc = "wait", !.delay = w]]
    BY <1>8 DEF StageUnavailable, Goto
  <2>3. /\ Moves(s) /\ run'[s].target = run[s].target
        /\ run'[s].pc \in {"stage", "dlq", "wait"}
    <3>1. CASE run' = [run EXCEPT ![s].pc = "dlq"]
      BY <1>t, <2>1, <3>1 DEF Moves, TypeInv, TypeOK, Busy
    <3>2. ASSUME NEW w, run' = [run EXCEPT ![s].inproc = @ + w]
          PROVE  Moves(s) /\ run'[s].target = run[s].target /\ run'[s].pc = "stage"
      BY <1>t, <2>1, <3>2 DEF Moves, TypeInv, TypeOK, Busy
    <3>3. ASSUME NEW w, run' = [run EXCEPT ![s] = [@ EXCEPT !.pc = "wait", !.delay = w]]
          PROVE  Moves(s) /\ run'[s].target = run[s].target /\ run'[s].pc = "wait"
      BY <1>t, <2>1, <3>3 DEF Moves, TypeInv, TypeOK, Busy
    <3> QED
      BY <2>2, <3>1, <3>2, <3>3
  <2>4. UNCHANGED <<state, dlq, deferrals, delivered, queued, finished>>
    BY <1>8 DEF StageUnavailable
  <2> QED
    BY <2>1, <2>3, <2>4, MoveOn DEF PCs, Settled
<1>9. ASSUME NEW s \in Slots, RecordWait(s) PROVE RoundsCounted' /\ NoLostJob'
  <2> DEFINE j == run[s].job
  <2>1. run[s].pc = "wait" /\ run[s] \in Busy /\ j \in Jobs
    BY <1>9, <1>t, BusySlot DEF RecordWait, TypeInv
  <2>2. Moves(s) /\ run'[s].pc = "count" /\ run'[s].target = run[s].target
    BY <1>9, <1>t, <2>1 DEF RecordWait, Goto, Moves, TypeInv, TypeOK, Busy
  <2>3. Known' = Known
    BY <1>9, <2>2, KnownMoves DEF RecordWait
  <2>4. /\ deferrals'[j] = deferrals[j] + 1 /\ deferrals[j] \in Nat
        /\ \A k \in Jobs \ {j} : deferrals'[k] = deferrals[k]
        /\ \A k \in Jobs : deferrals[k] \in Nat /\ deferrals[k] <= deferrals'[k]
    BY <1>9, <1>t, <2>1 DEF RecordWait, TypeInv, TypeOK
  <2>5. Known \subseteq Jobs \X Nat /\ \A t \in Ready : run[t].target \in Nat /\ run[t].job \in Jobs
    BY <1>t, BusySlot DEF Known, Ready, Entry, TypeInv, TypeOK
  <2>6. RoundsCounted'
    <3>1. ASSUME NEW e \in Known PROVE e[2] <= deferrals'[e[1]]
      BY <2>4, <2>5 DEF LostInv, RoundsCounted
    <3>2. ASSUME NEW t \in Ready' PROVE run'[t].target <= deferrals'[run'[t].job]
      <4>1. t \in Ready /\ run'[t].target = run[t].target /\ run'[t].job = run[t].job
        BY <2>2 DEF Moves, Ready
      <4> QED
        BY <2>4, <2>5, <4>1 DEF LostInv, RoundsCounted
    <3> QED
      BY <2>3, <3>1, <3>2 DEF RoundsCounted
  <2>7. Carries(s, j)'
    <3>1. <<j, deferrals'[j]>> \notin Known
      <4>1. ASSUME <<j, deferrals'[j]>> \in Known PROVE deferrals'[j] <= deferrals[j]
        BY <4>1 DEF LostInv, RoundsCounted
      <4> QED
        BY <2>4, <4>1
    <3> QED
      BY <2>2, <2>3, <3>1 DEF Carries, Moves, PCs
  <2>8. ASSUME NEW k \in Jobs, k # j, NEW t \in Slots, Carries(t, k) PROVE Carries(t, k)'
    <3>1. t # s
      BY <2>8 DEF Carries
    <3> QED
      BY <2>2, <2>3, <2>4, <2>8, <3>1, OthersCarry DEF Moves
  <2>9. ASSUME NEW k \in Jobs, k # j
        PROVE  \/ Settled(k)' \/ ~delivered'[k]
               \/ \E e \in queued' : e[1] = k
               \/ \E t \in Slots : Carries(t, k)'
    BY <1>9, <2>8, <2>9 DEF RecordWait, LostInv, NoLostJob, Settled
  <2> QED
    BY <2>2, <2>6, <2>7, <2>9 DEF NoLostJob, Moves
<1>10. ASSUME NEW s \in Slots, ReadRound(s) PROVE RoundsCounted' /\ NoLostJob'
  <2> DEFINE j == run[s].job
  <2>1. run[s].pc = "count" /\ run[s] \in Busy /\ j \in Jobs
    BY <1>10, <1>t, BusySlot DEF ReadRound, TypeInv
  <2>2. Moves(s) /\ run'[s].pc = "enqueue" /\ run'[s].target = deferrals[j]
    BY <1>10, <1>t, <2>1 DEF ReadRound, Moves, TypeInv, TypeOK, Busy
  <2>3. Known' = Known
    BY <1>10, <2>2, KnownMoves DEF ReadRound
  <2>4. RoundsCounted'
    <3>1. ASSUME NEW t \in Ready' PROVE run'[t].target <= deferrals[run'[t].job]
      <4>1. CASE t = s
        BY <1>t, <2>1, <2>2, <4>1 DEF Moves, TypeInv, TypeOK
      <4>2. CASE t # s
        BY <2>2, <4>2 DEF Moves, Ready, LostInv, RoundsCounted
      <4> QED
        BY <4>1, <4>2
    <3> QED
      BY <1>10, <2>3, <3>1 DEF ReadRound, LostInv, RoundsCounted
  <2>5. ASSUME NEW t \in Slots, NEW k \in Jobs, Carries(t, k) PROVE Carries(t, k)'
    <3>1. CASE t = s
      BY <2>1, <2>2, <2>3, <2>5, <3>1 DEF Carries, Moves, PCs
    <3>2. CASE t # s
      BY <1>10, <2>2, <2>3, <2>5, <3>2, OthersCarry DEF Moves, ReadRound
    <3> QED
      BY <3>1, <3>2
  <2>6. UNCHANGED <<state, dlq, delivered, queued>>
    BY <1>10 DEF ReadRound
  <2> QED
    BY <2>4, <2>5, <2>6 DEF LostInv, NoLostJob, Settled
<1>11. ASSUME NEW s \in Slots, Requeue(s) PROVE RoundsCounted' /\ NoLostJob'
  <2> DEFINE j == run[s].job
             e == <<j, run[s].target>>
  <2>1. run[s].pc = "enqueue" /\ run[s] \in Busy /\ j \in Jobs
    BY <1>11, <1>t, BusySlot DEF Requeue, TypeInv
  <2>2. Moves(s) /\ run'[s].pc = "return" /\ run'[s].target = run[s].target
    BY <1>11, <1>t, <2>1 DEF Requeue, Goto, Moves, TypeInv, TypeOK, Busy
  <2>3. Known' = Known \cup {e}
    <3>1. Ready' = Ready /\ \A t \in Ready : Entry(t)' = Entry(t)
      BY <2>2 DEF Moves, Ready, Entry
    <3> QED
      BY <1>11, <3>1 DEF Known, Requeue
  <2>4. UNCHANGED <<state, dlq, deferrals, delivered, finished>>
    BY <1>11 DEF Requeue
  <2>5. RoundsCounted'
    <3>1. e[2] <= deferrals[e[1]]
      BY <2>1 DEF LostInv, RoundsCounted, Ready
    <3>2. \A t \in Ready' : t \in Ready /\ run'[t].target = run[t].target
                            /\ run'[t].job = run[t].job
      BY <2>2 DEF Moves, Ready
    <3> QED
      BY <2>3, <2>4, <3>1, <3>2 DEF LostInv, RoundsCounted
  <2>6. (\E f \in queued' : f[1] = j) \/ ~Carries(s, j)
    <3>1. CASE e \in Known
      BY <2>1, <3>1 DEF Carries
    <3>2. CASE e \notin Known
      <4>1. e \in queued' /\ e[1] = j
        BY <1>11, <3>2 DEF Requeue
      <4> QED
        BY <4>1
    <3> QED
      BY <3>1, <3>2
  <2>7. ASSUME NEW k \in Jobs, NEW t \in Slots, Carries(t, k), t # s,
               ~\E f \in queued' : f[1] = k
        PROVE  Carries(t, k)'
    <3>1. CASE e \in Known
      <4>1. Known' = Known
        BY <2>3, <3>1
      <4> QED
        BY <2>2, <2>4, <2>7, <4>1, OthersCarry DEF Moves
    <3>2. CASE e \notin Known
      <4>1. e \in queued' /\ e[1] = j
        BY <1>11, <3>2 DEF Requeue
      <4>2. k # j
        BY <2>7, <4>1
      <4> QED
        BY <2>2, <2>3, <2>4, <2>7, <4>2 DEF Moves, Carries
    <3> QED
      BY <3>1, <3>2
  <2>8. \A k \in Jobs : Carries(s, k) => k = j
    BY DEF Carries
  <2>9. queued \subseteq queued'
    BY <1>11 DEF Requeue
  <2>10. ASSUME NEW k \in Jobs
         PROVE  \/ Settled(k)' \/ ~delivered'[k]
                \/ \E f \in queued' : f[1] = k
                \/ \E t \in Slots : Carries(t, k)'
    BY <2>4, <2>6, <2>7, <2>8, <2>9 DEF LostInv, NoLostJob, Settled
  <2> QED
    BY <2>5, <2>10 DEF NoLostJob
<1>12. ASSUME NEW s \in Slots, Transition(s) PROVE RoundsCounted' /\ NoLostJob'
  <2>1. run[s].pc = "ok" /\ run[s] \in Busy
    BY <1>12, <1>t, BusySlot DEF Transition, TypeInv
  <2>2. /\ Moves(s) /\ run'[s].target = run[s].target
        /\ run'[s].pc = IF StageOf(s) = N THEN "return" ELSE "begin"
    BY <1>12, <1>t, <2>1 DEF Transition, Moves, TypeInv, TypeOK, Busy
  <2>3. /\ UNCHANGED <<dlq, deferrals, delivered, queued, finished>>
        /\ state' = [state EXCEPT ![run[s].job] = StageOf(s)]
    BY <1>12 DEF Transition
  <2>4. \A k \in Jobs \ {run[s].job} : Settled(k) => Settled(k)'
    BY <1>t, <2>3 DEF Settled, TypeInv, TypeOK
  <2>5. CASE StageOf(s) = N
    <3>1. Settled(run[s].job)'
      BY <1>t, <2>1, <2>2, <2>3, <2>5
         DEF Settled, Moves, TerminalStates, TypeInv, TypeOK, Busy
    <3> QED
      BY <2>2, <2>3, <2>4, <3>1, MoveOff
  <2>6. CASE StageOf(s) # N
    BY <2>1, <2>2, <2>3, <2>4, <2>6, MoveOn DEF PCs
  <2> QED
    BY <2>5, <2>6
<1>13. ASSUME NEW s \in Slots, Park(s) PROVE RoundsCounted' /\ NoLostJob'
  <2>1. run[s].pc = "park" /\ run[s] \in Busy
    BY <1>13, <1>t, BusySlot DEF Park, TypeInv
  <2>2. Moves(s) /\ run'[s].target = run[s].target
    BY <1>13, <1>t, <2>1 DEF Park, Goto, Moves, TypeInv, TypeOK, Busy
  <2>3. /\ UNCHANGED <<dlq, deferrals, delivered, queued, finished>>
        /\ state' = [state EXCEPT ![run[s].job] = run[s].off]
    BY <1>13 DEF Park
  <2>4. \A k \in Jobs \ {run[s].job} : Settled(k) => Settled(k)'
    BY <1>t, <2>3 DEF Settled, TypeInv, TypeOK
  <2>5. Settled(run[s].job)'
    BY <1>t, <2>1, <2>2, <2>3 DEF Settled, Moves, TerminalStates, TypeInv, TypeOK, Busy
  <2> QED
    BY <2>2, <2>3, <2>4, <2>5, MoveOff
<1>14. ASSUME NEW s \in Slots, MarkGarment(s) PROVE RoundsCounted' /\ NoLostJob'
  <2>1. run[s].pc = "mark" /\ run[s] \in Busy
    BY <1>14, <1>t, BusySlot DEF MarkGarment, TypeInv
  <2>2. Moves(s) /\ run'[s].target = run[s].target
    BY <1>14, <1>t, <2>1 DEF MarkGarment, Goto, Moves, TypeInv, TypeOK, Busy
  <2>3. UNCHANGED <<state, dlq, deferrals, delivered, queued, finished>>
    BY <1>14 DEF MarkGarment
  <2>4. Known' = Known
    BY <2>2, <2>3, KnownMoves
  <2>5. RoundsCounted'
    BY <2>2, <2>3, <2>4 DEF Moves, Ready, LostInv, RoundsCounted
  <2>6. ASSUME NEW k \in Jobs, NEW t \in Slots, Carries(t, k) PROVE Carries(t, k)'
    <3>1. t # s
      BY <2>1, <2>6 DEF Carries
    <3> QED
      BY <2>2, <2>3, <2>4, <2>6, <3>1, OthersCarry DEF Moves
  <2> QED
    BY <2>3, <2>5, <2>6 DEF LostInv, NoLostJob, Settled
<1>15. ASSUME NEW s \in Slots, ToDlq(s) PROVE RoundsCounted' /\ NoLostJob'
  <2>1. run[s].pc = "dlq" /\ run[s] \in Busy
    BY <1>15, <1>t, BusySlot DEF ToDlq, TypeInv
  <2>2. Moves(s) /\ run'[s].target = run[s].target
    BY <1>15, <1>t, <2>1 DEF ToDlq, Goto, Moves, TypeInv, TypeOK, Busy
  <2>3. /\ UNCHANGED <<state, deferrals, delivered, queued, finished>>
        /\ dlq' = [dlq EXCEPT ![run[s].job] = TRUE]
    BY <1>15 DEF ToDlq
  <2>4. \A k \in Jobs \ {run[s].job} : Settled(k) => Settled(k)'
    BY <1>t, <2>3 DEF Settled, TypeInv, TypeOK
  <2>5. Settled(run[s].job)'
    BY <1>t, <2>1, <2>2, <2>3 DEF Settled, Moves, TypeInv, TypeOK, Busy
  <2> QED
    BY <2>2, <2>3, <2>4, <2>5, MoveOff
<1>16. ASSUME NEW s \in Slots, Return(s) PROVE RoundsCounted' /\ NoLostJob'
  BY <1>16, GiveUp DEF Return, Release
<1>17. CASE UNCHANGED vars
  <2>1. Known' = Known
    BY <1>17 DEF vars, Known, Ready, Entry
  <2>2. RoundsCounted'
    BY <1>17, <2>1 DEF vars, LostInv, RoundsCounted, Ready
  <2>3. \A t \in Slots, k \in Jobs : Carries(t, k) => Carries(t, k)'
    BY <1>17, <2>1 DEF vars, Carries
  <2> QED
    BY <1>17, <2>2, <2>3 DEF vars, LostInv, NoLostJob, Settled
<1> QED
  BY <1>1, <1>2, <1>3, <1>4, <1>5, <1>6, <1>7, <1>8, <1>9, <1>10, <1>11, <1>12,
     <1>13, <1>14, <1>15, <1>16, <1>17 DEF Next, Pick, RunStage, Bookkeep

\* Unless an exception escapes ingest_photo, no crash, shutdown, deferral or
\* duplicate entry makes a delivered job fall out of the queue unsettled.
THEOREM JobsAreNotLost == MaxAborts = 0 => (Spec => []NoLostJob)
<1>1. LostInv => NoLostJob
  BY DEF LostInv
<1>2. SUFFICES ASSUME MaxAborts = 0 PROVE Spec => []NoLostJob
  OBVIOUS
<1>3. LostInv /\ [Next]_vars => LostInv'
  BY <1>2, NextLost
<1> QED
  BY <1>1, <1>3, InitLost, PTL DEF Spec

-----------------------------------------------------------------------------
(* What a call does within a slot, as far as the job row and the queue see *)
(* it.                                                                     *)

\* A slot whose call has something left to do.
Live(s) == run[s].pc \notin {"idle", "return"}

Inside == {"begin", "stage", "failed", "wait", "count"}

CallStep(s) ==
  \/ /\ run[s].pc \in Inside
     /\ run'[s].pc \in PCs \ {"mark", "return"} /\ run'[s].cur = run[s].cur
     /\ run'[s].pc = "park" => run[s].pc = "stage" /\ run'[s].off \in Terminates[StageOf(s)]
     /\ UNCHANGED <<state, dlq, marked, queued>>
  \/ /\ run[s].pc = "enqueue" /\ run'[s].pc = "return"
     /\ queued' \in {queued, queued \cup {<<run[s].job, run[s].target>>}}
     /\ UNCHANGED <<state, dlq, marked>>
  \/ /\ run[s].pc = "ok" /\ run'[s].cur = StageOf(s)
     /\ run'[s].pc = IF StageOf(s) = N THEN "return" ELSE "begin"
     /\ state' = [state EXCEPT ![run[s].job] = StageOf(s)]
     /\ UNCHANGED <<dlq, marked, queued>>
  \/ /\ run[s].pc = "park" /\ run'[s].pc = "mark" /\ run'[s].off = run[s].off
     /\ state' = [state EXCEPT ![run[s].job] = run[s].off]
     /\ UNCHANGED <<dlq, marked, queued>>
  \/ /\ run[s].pc = "mark" /\ run'[s].pc = "return"
     /\ marked' = [marked EXCEPT ![run[s].job] = run[s].off]
     /\ UNCHANGED <<state, dlq, queued>>
  \/ /\ run[s].pc = "dlq" /\ run'[s].pc = "return"
     /\ dlq' = [dlq EXCEPT ![run[s].job] = TRUE]
     /\ UNCHANGED <<state, marked, queued>>

LEMMA CallSteps ==
  ASSUME TypeInv, NEW s \in Slots, RunStage(s) \/ Bookkeep(s), ~Return(s)
  PROVE  /\ Live(s) /\ Moves(s) /\ CallStep(s)
         /\ UNCHANGED <<delivered, finished, crashes, aborts, redelivered>>
<1> USE DEF row, queue, history
<1>2. ASSUME Live(s) PROVE run[s] \in Busy
  BY <1>2, BusySlot DEF Live, TypeInv
<1>3. CASE BeginStage(s)
  <2>1. Live(s) /\ run[s].pc = "begin"
    BY <1>3 DEF BeginStage, Live
  <2> DEFINE r == [run[s] EXCEPT
          !.pc = IF attempts[run[s].job][StageOf(s)] < Limit(StageOf(s))
                   THEN "stage" ELSE "dlq",
          !.att = attempts[run[s].job][StageOf(s)],
          !.before = waited[run[s].job], !.inproc = 0]
  <2>2. run' = [run EXCEPT ![s] = r]
    BY <1>3 DEF BeginStage, TypeInv, TypeOK
  <2>3. r.pc \in {"stage", "dlq"} /\ r.job = run[s].job /\ r.round = run[s].round
        /\ r.cur = run[s].cur
    BY <1>2, <2>1 DEF Busy
  <2> HIDE DEF r
  <2>4. Moves(s) /\ run'[s] = r
    BY <2>1, <2>2, <2>3 DEF Moves, Live, TypeInv, TypeOK, PCs
  <2> QED
    BY <1>3, <2>1, <2>3, <2>4 DEF BeginStage, CallStep, Inside, PCs
<1>4. CASE StageSucceeds(s) \/ StageFails(s)
  <2>1. Live(s) /\ run[s].pc = "stage"
    BY <1>4 DEF StageSucceeds, StageFails, Live
  <2>2. PICK p \in {"ok", "failed"} : run' = [run EXCEPT ![s].pc = p]
    BY <1>4 DEF StageSucceeds, StageFails, Goto
  <2> DEFINE r == [run[s] EXCEPT !.pc = p]
  <2>3. run' = [run EXCEPT ![s] = r]
    BY <2>2
  <2>4. r.pc = p /\ r.job = run[s].job /\ r.round = run[s].round /\ r.cur = run[s].cur
    BY <1>2, <2>1 DEF Busy
  <2> HIDE DEF r
  <2>5. Moves(s) /\ run'[s] = r
    BY <2>1, <2>3, <2>4 DEF Moves, Live, TypeInv, TypeOK, PCs
  <2> QED
    BY <1>4, <2>1, <2>4, <2>5 DEF StageSucceeds, StageFails, CallStep, Inside, PCs
<1>5. CASE StageTerminal(s)
  <2>1. Live(s) /\ run[s].pc = "stage"
    BY <1>5 DEF StageTerminal, Live
  <2>2. PICK t \in Terminates[StageOf(s)] :
          run' = [run EXCEPT ![s] = [run[s] EXCEPT !.pc = "park", !.off = t]]
    BY <1>5 DEF StageTerminal, TypeInv, TypeOK
  <2> DEFINE r == [run[s] EXCEPT !.pc = "park", !.off = t]
  <2>3. r.pc = "park" /\ r.job = run[s].job /\ r.round = run[s].round /\ r.cur = run[s].cur
        /\ r.off = t
    BY <1>2, <2>1 DEF Busy
  <2>4. run' = [run EXCEPT ![s] = r]
    BY <2>2
  <2> HIDE DEF r
  <2>5. Moves(s) /\ run'[s] = r
    BY <2>1, <2>3, <2>4 DEF Moves, Live, TypeInv, TypeOK, PCs
  <2> QED
    BY <1>5, <2>1, <2>3, <2>5 DEF StageTerminal, CallStep, Inside, PCs
<1>6. CASE RecordAttempt(s)
  <2>1. Live(s) /\ run[s].pc = "failed"
    BY <1>6 DEF RecordAttempt, Live
  <2> DEFINE a == run[s].att + 1
             r == [run[s] EXCEPT !.att = a,
                     !.pc = IF a < Limit(StageOf(s)) THEN "stage" ELSE "dlq"]
  <2>2. run' = [run EXCEPT ![s] = r]
    BY <1>6 DEF RecordAttempt, TypeInv, TypeOK
  <2>3. r.pc \in {"stage", "dlq"} /\ r.job = run[s].job /\ r.round = run[s].round
        /\ r.cur = run[s].cur
    BY <1>2, <2>1 DEF Busy
  <2> HIDE DEF r
  <2>4. Moves(s) /\ run'[s] = r
    BY <2>1, <2>2, <2>3 DEF Moves, Live, TypeInv, TypeOK, PCs
  <2> QED
    BY <1>6, <2>1, <2>3, <2>4 DEF RecordAttempt, CallStep, Inside, PCs
<1>7. CASE StageUnavailable(s)
  <2>1. Live(s) /\ run[s].pc = "stage"
    BY <1>7 DEF StageUnavailable, Live
  <2>2. \/ run' = [run EXCEPT ![s].pc = "dlq"]
        \/ \E w : run' = [run EXCEPT ![s].inproc = @ + w]
        \/ \E w : run' = [run EXCEPT ![s] = [@ EXCEPT !.pc = "wait", !.delay = w]]
    BY <1>7 DEF StageUnavailable, Goto
  <2>3. PICK r : /\ run' = [run EXCEPT ![s] = r] /\ r.pc \in {"dlq", "stage", "wait"}
                 /\ r.job = run[s].job /\ r.round = run[s].round /\ r.cur = run[s].cur
    <3>1. CASE run' = [run EXCEPT ![s].pc = "dlq"]
      <4> DEFINE q == [run[s] EXCEPT !.pc = "dlq"]
      <4>1. run' = [run EXCEPT ![s] = q]
        BY <3>1
      <4>2. q.pc = "dlq" /\ q.job = run[s].job /\ q.round = run[s].round /\ q.cur = run[s].cur
        BY <1>2, <2>1 DEF Busy
      <4> QED
        BY <4>1, <4>2
    <3>2. ASSUME NEW w, run' = [run EXCEPT ![s].inproc = @ + w]
          PROVE  \E q : /\ run' = [run EXCEPT ![s] = q] /\ q.pc = "stage"
                        /\ q.job = run[s].job /\ q.round = run[s].round /\ q.cur = run[s].cur
      <4> DEFINE q == [run[s] EXCEPT !.inproc = @ + w]
      <4>1. run' = [run EXCEPT ![s] = q]
        BY <3>2
      <4>2. q.pc = "stage" /\ q.job = run[s].job /\ q.round = run[s].round /\ q.cur = run[s].cur
        BY <1>2, <2>1 DEF Busy
      <4> QED
        BY <4>1, <4>2
    <3>3. ASSUME NEW w, run' = [run EXCEPT ![s] = [@ EXCEPT !.pc = "wait", !.delay = w]]
          PROVE  \E q : /\ run' = [run EXCEPT ![s] = q] /\ q.pc = "wait"
                        /\ q.job = run[s].job /\ q.round = run[s].round /\ q.cur = run[s].cur
      <4> DEFINE q == [run[s] EXCEPT !.pc = "wait", !.delay = w]
      <4>1. run' = [run EXCEPT ![s] = q]
        BY <3>3
      <4>2. q.pc = "wait" /\ q.job = run[s].job /\ q.round = run[s].round /\ q.cur = run[s].cur
        BY <1>2, <2>1 DEF Busy
      <4> QED
        BY <4>1, <4>2
    <3> QED
      BY <2>2, <3>1, <3>2, <3>3
  <2>4. Moves(s) /\ run'[s] = r
    BY <2>1, <2>3 DEF Moves, Live, TypeInv, TypeOK, PCs
  <2> QED
    BY <1>7, <2>1, <2>3, <2>4 DEF StageUnavailable, CallStep, Inside, PCs
<1>8. CASE RecordWait(s)
  <2>1. Live(s) /\ run[s].pc = "wait"
    BY <1>8 DEF RecordWait, Live
  <2> DEFINE r == [run[s] EXCEPT !.pc = "count"]
  <2>2. run' = [run EXCEPT ![s] = r]
    BY <1>8 DEF RecordWait, Goto
  <2>3. r.pc = "count" /\ r.job = run[s].job /\ r.round = run[s].round /\ r.cur = run[s].cur
    BY <1>2, <2>1 DEF Busy
  <2> HIDE DEF r
  <2>4. Moves(s) /\ run'[s] = r
    BY <2>1, <2>2, <2>3 DEF Moves, Live, TypeInv, TypeOK, PCs
  <2> QED
    BY <1>8, <2>1, <2>3, <2>4 DEF RecordWait, CallStep, Inside, PCs
<1>9. CASE ReadRound(s)
  <2>1. Live(s) /\ run[s].pc = "count"
    BY <1>9 DEF ReadRound, Live
  <2> DEFINE r == [run[s] EXCEPT !.pc = "enqueue", !.target = deferrals[run[s].job]]
  <2>2. run' = [run EXCEPT ![s] = r]
    BY <1>9 DEF ReadRound, TypeInv, TypeOK
  <2>3. r.pc = "enqueue" /\ r.job = run[s].job /\ r.round = run[s].round /\ r.cur = run[s].cur
    BY <1>2, <2>1 DEF Busy
  <2> HIDE DEF r
  <2>4. Moves(s) /\ run'[s] = r
    BY <2>1, <2>2, <2>3 DEF Moves, Live, TypeInv, TypeOK, PCs
  <2> QED
    BY <1>9, <2>1, <2>3, <2>4 DEF ReadRound, CallStep, Inside, PCs
<1>10. CASE Transition(s)
  <2>1. Live(s) /\ run[s].pc = "ok"
    BY <1>10 DEF Transition, Live
  <2> DEFINE i == StageOf(s)
             r == [run[s] EXCEPT !.cur = i, !.pc = IF i = N THEN "return" ELSE "begin"]
  <2>2. run' = [run EXCEPT ![s] = r]
    BY <1>10 DEF Transition, TypeInv, TypeOK
  <2>3. r.pc = (IF i = N THEN "return" ELSE "begin") /\ r.job = run[s].job
        /\ r.round = run[s].round /\ r.cur = i
    BY <1>2, <2>1 DEF Busy
  <2> HIDE DEF r, i
  <2>4. Moves(s) /\ run'[s] = r
    BY <2>1, <2>2, <2>3 DEF Moves, Live, TypeInv, TypeOK, PCs
  <2> QED
    BY <1>10, <2>1, <2>3, <2>4 DEF Transition, CallStep, i
<1>11. CASE Requeue(s) \/ Park(s) \/ MarkGarment(s) \/ ToDlq(s)
  <2>1. Live(s)
    BY <1>11 DEF Requeue, Park, MarkGarment, ToDlq, Live
  <2>2. PICK p \in {"mark", "return"} :
          run' = [run EXCEPT ![s].pc = p] /\ (p = "mark" <=> run[s].pc = "park")
    BY <1>11 DEF Requeue, Park, MarkGarment, ToDlq, Goto
  <2> DEFINE r == [run[s] EXCEPT !.pc = p]
  <2>3. run' = [run EXCEPT ![s] = r]
    BY <2>2
  <2>4. r.pc = p /\ r.job = run[s].job /\ r.round = run[s].round /\ r.off = run[s].off
    BY <1>2, <2>1 DEF Busy
  <2> HIDE DEF r
  <2>5. Moves(s) /\ run'[s] = r
    BY <2>1, <2>3, <2>4 DEF Moves, Live, TypeInv, TypeOK, PCs
  <2> QED
    BY <1>11, <2>1, <2>2, <2>4, <2>5 DEF Requeue, Park, MarkGarment, ToDlq, CallStep
<1> QED
  BY <1>3, <1>4, <1>5, <1>6, <1>7, <1>8, <1>9, <1>10, <1>11 DEF RunStage, Bookkeep

-----------------------------------------------------------------------------
(* Without crashes a job is in one place: the queue, or one slot that has  *)
(* something left to do.                                                   *)

OnePlace ==
  /\ \A e, f \in queued : e[1] = f[1] => e = f
  /\ \A s, t \in Slots : Live(s) /\ Live(t) /\ run[s].job = run[t].job => s = t
  /\ \A e \in queued, s \in Slots : Live(s) => run[s].job # e[1]
  /\ \A e \in queued : delivered[e[1]]
  /\ \A s \in Slots : Live(s) => delivered[run[s].job]

PlaceInv == TypeInv /\ (crashes = 0 => OnePlace)

LEMMA StartFacts ==
  ASSUME TypeInv, NEW s \in Slots, NEW e \in queued, Start(s, e[1], e[2])
  PROVE  /\ e = <<e[1], e[2]>> /\ e[1] \in Jobs
         /\ ~dlq[e[1]] /\ state[e[1]] \notin TerminalStates
         /\ run'[s].pc = "begin" /\ run'[s].job = e[1] /\ run'[s].cur = state[e[1]]
         /\ \A t \in Slots \ {s} : run'[t] = run[t]
         /\ ~Live(s) /\ queued' = queued \ {e}
         /\ UNCHANGED <<state, dlq, marked, delivered, crashes, aborts, redelivered>>
<1>1. e = <<e[1], e[2]>> /\ e[1] \in Jobs
  BY DEF TypeInv, TypeOK
<1>2. /\ run'[s].pc = "begin" /\ run'[s].job = e[1] /\ run'[s].cur = state[e[1]]
      /\ \A t \in Slots \ {s} : run'[t] = run[t]
  BY DEF Start, TypeInv, TypeOK
<1>3. ~Live(s)
  BY DEF Start, Live, Idle
<1>4. queued' = queued \ {e}
  BY <1>1 DEF Start
<1> QED
  BY <1>1, <1>2, <1>3, <1>4 DEF Start, row, history

LEMMA NextOnePlace ==
  ASSUME TypeInv, OnePlace, [Next]_vars, crashes' = 0
  PROVE  OnePlace'
<1> USE DEF row, queue, history
<1>1. ASSUME NEW j \in Jobs, Deliver(j) PROVE OnePlace'
  <2>1. \A e \in queued' : e \in queued \/ e[1] = j
    BY <1>1 DEF Deliver
  <2>2. \A e \in queued : e[1] # j
    BY <1>1 DEF Deliver, OnePlace
  <2>3. \A e \in queued' : e[1] = j => e = <<j, 0>>
    BY <1>1, <2>2 DEF Deliver
  <2>4. \A s \in Slots : Live(s) => run[s].job # j
    BY <1>1 DEF Deliver, OnePlace
  <2>5. run' = run /\ delivered' = [delivered EXCEPT ![j] = TRUE] /\ delivered \in [Jobs -> BOOLEAN]
    BY <1>1 DEF Deliver, TypeInv, TypeOK
  <2>6. \A s \in Slots : Live(s)' <=> Live(s)
    BY <2>5 DEF Live
  <2>7. \A e \in queued : e[1] \in Jobs
    BY DEF TypeInv, TypeOK
  <2>8. \A s \in Slots : Live(s) => run[s].job \in Jobs
    BY BusySlot DEF Live, TypeInv
  <2> QED
    BY <2>1, <2>2, <2>3, <2>4, <2>5, <2>6, <2>7, <2>8 DEF OnePlace
<1>2. ASSUME NEW s \in Slots, NEW e \in queued, Skip(s, e[1], e[2]) PROVE OnePlace'
  BY <1>2 DEF Skip, OnePlace, Live
<1>3. ASSUME NEW s \in Slots, NEW e \in queued, Start(s, e[1], e[2]) PROVE OnePlace'
  <2>2. /\ run'[s].pc = "begin" /\ run'[s].job = e[1]
        /\ \A t \in Slots \ {s} : run'[t] = run[t]
        /\ queued' = queued \ {e} /\ delivered' = delivered /\ ~Live(s)
    BY <1>3, StartFacts
  <2>3. \A t \in Slots : Live(t)' <=> Live(t) \/ t = s
    BY <2>2 DEF Live
  <2>4. \A f \in queued' : f \in queued /\ f[1] # e[1]
    BY <2>2 DEF OnePlace
  <2> QED
    BY <2>2, <2>3, <2>4 DEF OnePlace
<1>4. ASSUME NEW s \in Slots, Crash(s) PROVE FALSE
  BY <1>4 DEF Crash, TypeInv, TypeOK
<1>5. ASSUME NEW s \in Slots, Abort(s) \/ Return(s) PROVE OnePlace'
  <2>1. /\ run' = [run EXCEPT ![s] = Idle] /\ UNCHANGED <<delivered, queued>>
    BY <1>5 DEF Abort, Return, Release
  <2>2. \A t \in Slots : Live(t)' => Live(t) /\ run'[t] = run[t]
    BY <2>1 DEF Live, Idle, TypeInv, TypeOK
  <2> QED
    BY <2>1, <2>2 DEF OnePlace
<1>6. ASSUME NEW s \in Slots, RunStage(s) \/ Bookkeep(s), ~Return(s) PROVE OnePlace'
  <2>1. Live(s) /\ Moves(s) /\ CallStep(s) /\ delivered' = delivered
    BY <1>6, CallSteps
  <2>2. \A t \in Slots : Live(t)' => Live(t) /\ run'[t].job = run[t].job
    BY <2>1 DEF Moves, Live
  <2>3. CASE queued' = queued
    BY <2>1, <2>2, <2>3 DEF OnePlace
  <2>4. CASE queued' # queued
    <3>1. /\ queued' = queued \cup {<<run[s].job, run[s].target>>} /\ ~Live(s)'
      BY <2>1, <2>4 DEF CallStep, Live
    <3>2. \A t \in Slots : Live(t)' => run[t].job # run[s].job
      BY <2>1, <2>2, <3>1 DEF OnePlace
    <3>3. \A e \in queued : e[1] # run[s].job
      BY <2>1 DEF OnePlace
    <3>4. \A e \in queued' : e \in queued \/ (e = <<run[s].job, run[s].target>> /\ e[1] = run[s].job)
      BY <3>1
    <3>5. delivered'[run[s].job]
      BY <2>1 DEF OnePlace
    <3> QED
      BY <2>1, <2>2, <3>2, <3>3, <3>4, <3>5 DEF OnePlace
  <2> QED
    BY <2>3, <2>4
<1>7. CASE UNCHANGED vars
  BY <1>7 DEF vars, OnePlace, Live
<1> QED
  BY <1>1, <1>2, <1>3, <1>4, <1>5, <1>6, <1>7 DEF Next, Pick

LEMMA CrashesGrow == TypeInv /\ [Next]_vars => crashes \in Nat /\ aborts \in Nat
                       /\ crashes' >= crashes /\ aborts' >= aborts
<1> SUFFICES ASSUME TypeInv, [Next]_vars
             PROVE  crashes \in Nat /\ aborts \in Nat /\ crashes' >= crashes /\ aborts' >= aborts
  OBVIOUS
<1> USE DEF row, queue, history
<1>1. crashes \in Nat /\ aborts \in Nat
  BY DEF TypeInv, TypeOK
<1>2. ASSUME NEW s \in Slots, RunStage(s) \/ Bookkeep(s), ~Return(s)
      PROVE  UNCHANGED <<crashes, aborts>>
  BY <1>2, CallSteps
<1>3. crashes' >= crashes /\ aborts' >= aborts
  <2>1. ASSUME NEW s \in Slots, Crash(s)
        PROVE  crashes' = crashes + 1 /\ aborts' = aborts
    BY <2>1 DEF Crash
  <2>2. ASSUME NEW s \in Slots, Abort(s)
        PROVE  crashes' = crashes /\ aborts' = aborts + 1
    BY <2>2 DEF Abort
  <2>3. ASSUME NEW s \in Slots, Pick(s) \/ Return(s) PROVE UNCHANGED <<crashes, aborts>>
    BY <2>3 DEF Pick, Skip, Start, Return
  <2>4. ASSUME NEW j \in Jobs, Deliver(j) PROVE UNCHANGED <<crashes, aborts>>
    BY <2>4 DEF Deliver
  <2>5. CASE UNCHANGED vars
    BY <1>1, <2>5 DEF vars
  <2> QED
    BY <1>1, <1>2, <2>1, <2>2, <2>3, <2>4, <2>5 DEF Next
<1> QED
  BY <1>1, <1>3

LEMMA InitPlace == Init => PlaceInv
BY InitType DEF Init, PlaceInv, OnePlace, Live, Idle

LEMMA NextPlace == PlaceInv /\ [Next]_vars => PlaceInv'
<1> SUFFICES ASSUME PlaceInv, [Next]_vars, crashes' = 0 PROVE OnePlace'
  BY NextType DEF PlaceInv
<1>1. crashes = 0 /\ TypeInv
  BY CrashesGrow DEF PlaceInv
<1> QED
  BY <1>1, NextOnePlace DEF PlaceInv

\* What is in arq's hands has been delivered.
Handed ==
  /\ \A e \in queued : delivered[e[1]]
  /\ \A s \in Slots : run[s].pc # "idle" => delivered[run[s].job]

LEMMA InitHanded == Init => Handed
BY DEF Init, Handed, Idle

LEMMA NextHanded == TypeInv /\ Handed /\ [Next]_vars => Handed'
<1> SUFFICES ASSUME TypeInv, Handed, [Next]_vars PROVE Handed'
  OBVIOUS
<1> USE DEF row, queue, history
<1>1. ASSUME NEW j \in Jobs, Deliver(j) PROVE Handed'
  <2>1. /\ \A k \in Jobs : delivered[k] => delivered'[k]
        /\ delivered'[j] /\ run' = run /\ queued' = queued \cup {<<j, 0>>}
    BY <1>1 DEF Deliver, TypeInv, TypeOK
  <2>2. /\ \A e \in queued : e[1] \in Jobs
        /\ \A s \in Slots : run[s].pc # "idle" => run[s].job \in Jobs
    BY BusySlot DEF TypeInv, TypeOK
  <2> QED
    BY <2>1, <2>2 DEF Handed
<1>2. ASSUME NEW s \in Slots, NEW e \in queued, Skip(s, e[1], e[2]) PROVE Handed'
  BY <1>2 DEF Skip, Handed
<1>3. ASSUME NEW s \in Slots, NEW e \in queued, Start(s, e[1], e[2]) PROVE Handed'
  <2>1. /\ run'[s].job = e[1] /\ \A t \in Slots \ {s} : run'[t] = run[t]
        /\ queued' = queued \ {e} /\ delivered' = delivered
    BY <1>3, StartFacts
  <2> QED
    BY <2>1 DEF Handed
<1>4. ASSUME NEW s \in Slots, Crash(s) \/ Abort(s) \/ Return(s) PROVE Handed'
  <2>1. /\ run[s].pc # "idle" /\ run' = [run EXCEPT ![s] = Idle] /\ delivered' = delivered
        /\ \A e \in queued' : e \in queued \/ e = Entry(s)
    BY <1>4 DEF Crash, Abort, Return, Release, Idle
  <2>2. \A t \in Slots : run'[t].pc # "idle" => run'[t] = run[t]
    BY <2>1 DEF Idle, TypeInv, TypeOK
  <2> QED
    BY <2>1, <2>2 DEF Handed, Entry
<1>5. ASSUME NEW s \in Slots, RunStage(s) \/ Bookkeep(s), ~Return(s) PROVE Handed'
  <2>1. /\ run[s].pc # "idle" /\ run'[s].job = run[s].job /\ delivered' = delivered
        /\ \A t \in Slots \ {s} : run'[t] = run[t]
    BY <1>5, CallSteps DEF Live, Moves
  <2>2. queued' = queued \/ queued' = queued \cup {<<run[s].job, run[s].target>>}
    BY <1>5, CallSteps DEF CallStep
  <2>3. \A t \in Slots : run'[t].pc # "idle" => run[t].pc # "idle" /\ run'[t].job = run[t].job
    BY <2>1
  <2>4. \A e \in queued' : e \in queued \/ e[1] = run[s].job
    BY <2>2
  <2> QED
    BY <2>1, <2>3, <2>4 DEF Handed
<1>6. CASE UNCHANGED vars
  BY <1>6 DEF vars, Handed
<1> QED
  BY <1>1, <1>2, <1>3, <1>4, <1>5, <1>6 DEF Next, Pick

-----------------------------------------------------------------------------
(* The lifecycle.  As long as a job is open and not redelivered, it is in   *)
(* one place: not yet delivered, one entry of the queue, or one slot, which *)
(* knows the row.  A crash puts the slot's entry back in the place of the   *)
(* slot; only one that comes after the call's last write leaves two.        *)

Unfinished(j) == ~dlq[j] /\ state[j] \in 0..(N - 1)

At(s, j) == Live(s) /\ run[s].job = j

OneWay(j) ==
  IF Unfinished(j)
  THEN /\ \A e, f \in queued : e[1] = j /\ f[1] = j => e = f
       /\ \A s, t \in Slots : At(s, j) /\ At(t, j) => s = t
       /\ \A e \in queued, s \in Slots : e[1] = j => ~At(s, j)
       /\ \A s \in Slots : At(s, j) => run[s].pc # "mark" /\ run[s].cur = state[j]
  ELSE /\ \A s \in Slots : At(s, j) => run[s].pc = "mark"
       /\ state[j] = DEGRADED_TAGGED /\ ~dlq[j] => \A e \in queued : e[1] # j

Fresh(j) == ~delivered[j] => state[j] = 0 /\ ~dlq[j]

WayInv ==
  /\ TypeInv /\ Handed
  /\ \A j \in Jobs : Fresh(j)
  /\ \A j \in Jobs \ redelivered : OneWay(j)

LEMMA StatesSplit ==
  /\ States = 0..N \cup OffRamps /\ (0..N) \cap OffRamps = {}
  /\ TerminalStates = {N} \cup (OffRamps \ {DEGRADED_TAGGED}) /\ DEGRADED_TAGGED \in OffRamps
  /\ N \in Nat /\ N # 0
BY StageAssumption DEF States, TerminalStates, OffRamps, REJECTED, QUARANTINED, NEEDS_REVIEW,
   DEGRADED_TAGGED, DUPLICATE_SUSPECT

LEMMA Finished ==
  ASSUME TypeInv, NEW j \in Jobs
  PROVE  /\ ~Unfinished(j) => dlq[j] \/ state[j] = N \/ state[j] \in OffRamps
         /\ dlq[j] \/ state[j] \in TerminalStates => ~Unfinished(j)
         /\ ~dlq[j] /\ state[j] \notin TerminalStates => Unfinished(j) \/ state[j] = DEGRADED_TAGGED
         /\ state[j] = DEGRADED_TAGGED => ~Unfinished(j)
<1>1. state[j] \in States /\ dlq[j] \in BOOLEAN
  BY DEF TypeInv, TypeOK
<1>2. 0..N = 0..(N - 1) \cup {N} /\ N \notin 0..(N - 1)
  BY StatesSplit
<1> QED
  BY <1>1, <1>2, StatesSplit DEF Unfinished

LEMMA InitWay == Init => WayInv
<1> SUFFICES ASSUME Init PROVE WayInv
  OBVIOUS
<1>1. TypeInv /\ Handed
  BY InitType, InitHanded
<1>2. ASSUME NEW j \in Jobs PROVE Fresh(j) /\ OneWay(j)
  <2>1. \A s \in Slots : ~At(s, j)
    BY DEF Init, At, Live, Idle
  <2>2. queued = {} /\ state[j] = 0 /\ dlq[j] = FALSE
    BY <1>2 DEF Init
  <2> QED
    BY <2>1, <2>2 DEF Fresh, OneWay, DEGRADED_TAGGED
<1> QED
  BY <1>1, <1>2 DEF WayInv

\* A job nothing happens to.
LEMMA WayKept ==
  ASSUME NEW j \in Jobs, OneWay(j), state'[j] = state[j], dlq'[j] = dlq[j],
         \A e \in queued' : e[1] = j => e \in queued,
         \A s \in Slots : At(s, j)' => At(s, j) /\ run'[s] = run[s]
  PROVE  OneWay(j)'
BY DEF OneWay, Unfinished

LEMMA OthersWay ==
  ASSUME WayInv, TypeInv', NEW s \in Slots, NEW j \in Jobs, NEW k \in Jobs \ redelivered, k # j,
         state'[k] = state[k], dlq'[k] = dlq[k],
         \A t \in Slots \ {s} : run'[t] = run[t],
         run'[s].pc = "idle" \/ run'[s].job = j,
         \A e \in queued' : e \in queued \/ e[1] = j
  PROVE  OneWay(k)'
<1>1. \A t \in Slots : At(t, k)' => t # s
  BY DEF At, Live
<1>2. \A t \in Slots : At(t, k)' => At(t, k) /\ run'[t] = run[t]
  BY <1>1 DEF At, Live
<1> QED
  BY <1>2, WayKept DEF WayInv

LEMMA DeliverWay ==
  ASSUME WayInv, TypeInv', Handed', NEW j \in Jobs, Deliver(j)
  PROVE  WayInv' /\ UNCHANGED Lifecycle!vars
<1>1. /\ UNCHANGED <<state, dlq, run, redelivered>> /\ ~delivered[j]
      /\ \A k \in Jobs : delivered[k] => delivered'[k]
      /\ \A e \in queued' : e \in queued \/ e = <<j, 0>>
  BY DEF Deliver, row, history, WayInv, TypeInv, TypeOK
<1>2. (\A e \in queued : e[1] # j) /\ (\A s \in Slots : ~At(s, j))
  BY <1>1 DEF WayInv, Handed, At, Live
<1>3. state[j] = 0 /\ ~dlq[j]
  BY <1>1 DEF WayInv, Fresh
<1>4. \A s \in Slots, k \in Jobs : At(s, k)' <=> At(s, k)
  BY <1>1 DEF At, Live
<1>5. j \notin redelivered => OneWay(j)'
  <2>1. 0 \in 0..(N - 1) /\ 0 # DEGRADED_TAGGED
    BY StatesSplit DEF DEGRADED_TAGGED
  <2> QED
    BY <1>1, <1>2, <1>3, <1>4, <2>1 DEF OneWay, Unfinished
<1>6. ASSUME NEW k \in Jobs \ redelivered, k # j PROVE OneWay(k)'
  BY <1>1, <1>4, <1>6, WayKept DEF WayInv
<1> QED
  BY <1>1, <1>5, <1>6 DEF WayInv, Fresh, Lifecycle!vars

LEMMA SkipWay ==
  ASSUME WayInv, TypeInv', Handed', NEW s \in Slots, NEW e \in queued, Skip(s, e[1], e[2])
  PROVE  WayInv' /\ UNCHANGED Lifecycle!vars
<1>1. UNCHANGED <<state, dlq, run, delivered, redelivered>> /\ \A f \in queued' : f \in queued
  BY DEF Skip, row, history
<1>2. ASSUME NEW k \in Jobs \ redelivered PROVE OneWay(k)'
  BY <1>1, <1>2, WayKept DEF WayInv, At, Live
<1> QED
  BY <1>1, <1>2 DEF WayInv, Fresh, Lifecycle!vars

LEMMA StartWay ==
  ASSUME WayInv, TypeInv', Handed', NEW s \in Slots, NEW e \in queued, Start(s, e[1], e[2])
  PROVE  WayInv' /\ UNCHANGED Lifecycle!vars
<1> DEFINE j == e[1]
<1>1. /\ j \in Jobs /\ ~dlq[j] /\ state[j] \notin TerminalStates
      /\ run'[s].pc = "begin" /\ run'[s].job = j /\ run'[s].cur = state[j]
      /\ \A t \in Slots \ {s} : run'[t] = run[t]
      /\ ~Live(s) /\ queued' = queued \ {e}
      /\ UNCHANGED <<state, dlq, delivered, redelivered>>
  BY StartFacts DEF WayInv
<1>2. ASSUME j \notin redelivered PROVE OneWay(j)'
  <2>1. OneWay(j) /\ Unfinished(j)
    BY <1>1, <1>2, Finished DEF WayInv, OneWay
  <2>2. (\A f \in queued : f[1] = j => f = e) /\ \A t \in Slots : ~At(t, j)
    BY <2>1 DEF OneWay
  <2>3. (\A f \in queued' : f[1] # j) /\ \A t \in Slots : At(t, j)' => t = s
    BY <1>1, <2>2 DEF At, Live
  <2>4. Unfinished(j)'
    BY <1>1, <2>1 DEF Unfinished
  <2> QED
    BY <1>1, <2>3, <2>4 DEF OneWay
<1>3. ASSUME NEW k \in Jobs \ redelivered, k # j PROVE OneWay(k)'
  BY <1>1, <1>3, OthersWay
<1> QED
  BY <1>1, <1>2, <1>3 DEF WayInv, Fresh, Lifecycle!vars

LEMMA CrashWay ==
  ASSUME WayInv, TypeInv', Handed', NEW s \in Slots, Crash(s)
  PROVE  WayInv' /\ [Lifecycle!Next]_(Lifecycle!vars)
<1>0. run[s].job \in Jobs
  BY BusySlot DEF Crash, WayInv, TypeInv
<1> PICK j \in Jobs : run[s].job = j
  BY <1>0
<1>1. /\ run[s].pc # "idle" /\ UNCHANGED <<state, dlq, delivered>>
      /\ queued' = queued \cup {Entry(s)} /\ run' = [run EXCEPT ![s] = Idle]
      /\ redelivered' = IF CutAtTheEnd(s) THEN redelivered \cup {j} ELSE redelivered
  BY DEF Crash, row
<1>2. /\ j \in Jobs /\ Entry(s)[1] = j /\ run'[s].pc = "idle"
      /\ \A t \in Slots \ {s} : run'[t] = run[t]
  BY <1>1, BusySlot DEF WayInv, TypeInv, TypeOK, Entry, Idle
<1>3. ASSUME j \notin redelivered' PROVE OneWay(j)'
  <2>1. OneWay(j) /\ ~CutAtTheEnd(s)
    BY <1>1, <1>2, <1>3 DEF WayInv
  <2>2. \A t \in Slots : At(t, j)' => t # s /\ At(t, j) /\ run'[t] = run[t]
    BY <1>2 DEF At, Live
  <2>3. CASE Unfinished(j)
    <3>1. run[s].pc \notin {"mark", "return"}
      BY <2>1, <2>3, <1>2, Finished DEF CutAtTheEnd, WayInv
    <3>2. At(s, j)
      BY <1>1, <3>1 DEF At, Live
    <3>3. (\A e \in queued : e[1] # j) /\ \A t \in Slots : At(t, j) => t = s
      BY <2>1, <2>3, <3>2 DEF OneWay
    <3>4. (\A t \in Slots : ~At(t, j)') /\ \A e \in queued' : e[1] = j => e = Entry(s)
      BY <1>1, <2>2, <3>3
    <3>5. Unfinished(j)'
      BY <1>1, <2>3 DEF Unfinished
    <3> QED
      BY <3>4, <3>5 DEF OneWay
  <2>4. CASE ~Unfinished(j)
    <3>1. run[s].pc \in {"mark", "return"}
      BY <1>1, <2>1, <2>4 DEF OneWay, At, Live
    <3>2. ~(state[j] = DEGRADED_TAGGED /\ ~dlq[j])
      BY <2>1, <3>1, StatesSplit DEF CutAtTheEnd
    <3>3. ~Unfinished(j)'
      BY <1>1, <2>4 DEF Unfinished
    <3> QED
      BY <1>1, <2>1, <2>2, <2>4, <3>2, <3>3 DEF OneWay
  <2> QED
    BY <2>3, <2>4
<1>4. ASSUME NEW k \in Jobs \ redelivered, k # j PROVE OneWay(k)'
  BY <1>1, <1>2, <1>4, OthersWay
<1>5. WayInv'
  BY <1>1, <1>3, <1>4 DEF WayInv, Fresh
<1>6. [Lifecycle!Next]_(Lifecycle!vars)
  <2>1. CASE CutAtTheEnd(s)
    <3>1. ~dlq[j] /\ state[j] \in 0..(N - 1) \cup {DEGRADED_TAGGED}
      BY <1>2, <2>1, Finished DEF CutAtTheEnd, WayInv, Unfinished
    <3> QED
      BY <1>1, <1>2, <2>1, <3>1 DEF Lifecycle!Next, Lifecycle!Redeliver
  <2> QED
    BY <1>1, <2>1 DEF Lifecycle!vars
<1> QED
  BY <1>5, <1>6

LEMMA LeaveWay ==
  ASSUME WayInv, TypeInv', Handed', NEW s \in Slots, Abort(s) \/ Return(s)
  PROVE  WayInv' /\ UNCHANGED Lifecycle!vars
<1>1. /\ run' = [run EXCEPT ![s] = Idle]
      /\ UNCHANGED <<state, dlq, delivered, queued, redelivered>>
  BY DEF Abort, Return, Release, row, history
<1>2. \A t \in Slots, k \in Jobs : At(t, k)' => At(t, k) /\ run'[t] = run[t]
  BY <1>1 DEF At, Live, Idle, WayInv, TypeInv, TypeOK
<1>3. ASSUME NEW k \in Jobs \ redelivered PROVE OneWay(k)'
  BY <1>1, <1>2, <1>3, WayKept DEF WayInv
<1> QED
  BY <1>1, <1>3 DEF WayInv, Fresh, Lifecycle!vars

\* A step of a call of a job that is not redelivered.
LEMMA CallWay ==
  ASSUME WayInv, TypeInv', NEW s \in Slots, RunStage(s) \/ Bookkeep(s), ~Return(s),
         NEW j \in Jobs \ redelivered, run[s].job = j
  PROVE  OneWay(j)' /\ (UNCHANGED <<state, dlq>> \/ Lifecycle!Writes(j))
<1>1. Live(s) /\ Moves(s) /\ CallStep(s) /\ redelivered' = redelivered
  BY CallSteps DEF WayInv
<1>2. /\ OneWay(j) /\ At(s, j) /\ run'[s].job = j
      /\ \A t \in Slots : t # s => run'[t] = run[t] /\ (At(t, j)' <=> At(t, j))
  BY <1>1 DEF WayInv, At, Live, Moves
<1>3. state \in [Jobs -> States] /\ dlq \in [Jobs -> BOOLEAN] /\ TypeInv
  BY DEF WayInv, TypeInv, TypeOK
<1>4. CASE ~Unfinished(j)
  <2>1. run[s].pc = "mark"
    BY <1>2, <1>4 DEF OneWay
  <2>2. run'[s].pc = "return" /\ UNCHANGED <<state, dlq, queued>>
    BY <1>1, <2>1 DEF CallStep, Inside
  <2>3. ~Unfinished(j)' /\ ~At(s, j)'
    BY <1>4, <2>2 DEF Unfinished, At, Live
  <2>4. OneWay(j)'
    BY <1>2, <1>4, <2>2, <2>3 DEF OneWay
  <2> QED
    BY <2>2, <2>4
<1>5. CASE Unfinished(j)
  <2>1. /\ run[s].pc # "mark" /\ run[s].cur = state[j] /\ ~dlq[j] /\ state[j] \in 0..(N - 1)
        /\ \A e \in queued : e[1] # j
        /\ \A t \in Slots : At(t, j) => t = s
    BY <1>2, <1>5 DEF OneWay, Unfinished
  <2>2. \A t \in Slots : At(t, j)' => t = s
    BY <1>2, <2>1
  <2>3. CASE run[s].pc \in Inside
    <3>1. /\ run'[s].cur = run[s].cur /\ UNCHANGED <<state, dlq, queued>>
          /\ run'[s].pc # "mark"
      BY <1>1, <2>3 DEF CallStep, Inside
    <3>2. Unfinished(j)'
      BY <1>5, <3>1 DEF Unfinished
    <3>3. OneWay(j)'
      BY <2>1, <2>2, <3>1, <3>2 DEF OneWay
    <3> QED
      BY <3>1, <3>3
  <2>4. CASE run[s].pc = "enqueue"
    <3>1. /\ run'[s].pc = "return" /\ UNCHANGED <<state, dlq>>
          /\ queued' \in {queued, queued \cup {<<j, run[s].target>>}}
      BY <1>1, <2>4 DEF CallStep, Inside
    <3>2. (\A t \in Slots : ~At(t, j)') /\ \A e \in queued' : e[1] = j => e = <<j, run[s].target>>
      BY <2>1, <2>2, <3>1 DEF At, Live
    <3>3. Unfinished(j)'
      BY <1>5, <3>1 DEF Unfinished
    <3>4. OneWay(j)'
      BY <3>2, <3>3 DEF OneWay
    <3> QED
      BY <3>1, <3>4
  <2>5. CASE run[s].pc = "ok"
    <3> DEFINE i == StageOf(s)
    <3>1. /\ run'[s].cur = i /\ run'[s].pc = (IF i = N THEN "return" ELSE "begin")
          /\ state' = [state EXCEPT ![j] = i] /\ UNCHANGED <<dlq, queued>>
      BY <1>1, <2>5 DEF CallStep, Inside
    <3>2. i = state[j] + 1
      BY <2>1, StatesSplit DEF StageOf, NextStage
    <3>3. state'[j] = i /\ i \in 1..N /\ (i # N => i \in 0..(N - 1)) /\ i # DEGRADED_TAGGED
      BY <1>1, <1>3, <2>1, <3>1, <3>2, StatesSplit
    <3>4. Lifecycle!Writes(j)
      <4>1. state' = [state EXCEPT ![j] = state[j] + 1]
        BY <3>1, <3>2
      <4> QED
        BY <1>1, <2>1, <3>1, <4>1 DEF Lifecycle!Writes, Lifecycle!Advance, Lifecycle!Open
    <3> HIDE DEF i
    <3>5. CASE i = N
      <4>1. ~Unfinished(j)' /\ \A t \in Slots : ~At(t, j)'
        BY <2>2, <3>1, <3>3, <3>5, StatesSplit DEF Unfinished, At, Live
      <4> QED
        BY <3>3, <3>4, <4>1 DEF OneWay
    <3>6. CASE i # N
      <4>1. Unfinished(j)'
        BY <2>1, <3>1, <3>3, <3>6 DEF Unfinished
      <4>2. OneWay(j)'
        BY <2>1, <2>2, <3>1, <3>3, <3>6, <4>1 DEF OneWay
      <4> QED
        BY <3>4, <4>2
    <3> QED
      BY <3>5, <3>6
  <2>6. CASE run[s].pc = "park"
    <3>1. /\ run'[s].pc = "mark" /\ state' = [state EXCEPT ![j] = run[s].off]
          /\ UNCHANGED <<dlq, queued>>
      BY <1>1, <2>6 DEF CallStep, Inside
    <3>2. run[s].off \in OffRamps /\ state'[j] = run[s].off
      BY <1>1, <1>3, <2>6, <3>1, BusySlot DEF TypeInv
    <3>3. Lifecycle!Writes(j)
      BY <1>1, <2>1, <3>1, <3>2 DEF Lifecycle!Writes, Lifecycle!Divert, Lifecycle!Open
    <3>4. ~Unfinished(j)'
      <4>1. 0..(N - 1) \subseteq 0..N
        BY StatesSplit
      <4> QED
        BY <3>2, <4>1, StatesSplit DEF Unfinished
    <3>5. OneWay(j)'
      BY <2>1, <2>2, <3>1, <3>4 DEF OneWay
    <3> QED
      BY <3>3, <3>5
  <2>7. CASE run[s].pc = "dlq"
    <3>1. run'[s].pc = "return" /\ dlq' = [dlq EXCEPT ![j] = TRUE] /\ UNCHANGED <<state, queued>>
      BY <1>1, <2>7 DEF CallStep, Inside
    <3>2. Lifecycle!Writes(j)
      BY <1>1, <2>1, <3>1 DEF Lifecycle!Writes, Lifecycle!Bury, Lifecycle!Open
    <3>3. dlq'[j] /\ ~Unfinished(j)' /\ \A t \in Slots : ~At(t, j)'
      BY <1>1, <1>3, <2>2, <3>1 DEF Unfinished, At, Live
    <3>4. OneWay(j)'
      BY <3>3 DEF OneWay
    <3> QED
      BY <3>2, <3>4
  <2> QED
    BY <1>1, <2>1, <2>3, <2>4, <2>5, <2>6, <2>7 DEF CallStep
<1> QED
  BY <1>4, <1>5

\* A call of a redelivered job writes what it has to, whatever the row holds.
LEMMA CallOverwrites ==
  ASSUME TypeInv, NEW s \in Slots, RunStage(s) \/ Bookkeep(s), ~Return(s),
         NEW j \in redelivered, run[s].job = j
  PROVE  UNCHANGED <<state, dlq>> \/ Lifecycle!Writes(j)
<1>1. Live(s) /\ CallStep(s) /\ redelivered' = redelivered
  BY CallSteps
<1>2. run[s].off \in OffRamps /\ StageOf(s) \in Stages
  BY <1>1, BusySlot, SlotStage DEF TypeInv, Live
<1>3. \/ UNCHANGED <<state, dlq>>
      \/ (\E st \in 1..N \cup OffRamps : state' = [state EXCEPT ![j] = st]) /\ dlq' = dlq
      \/ dlq' = [dlq EXCEPT ![j] = TRUE] /\ state' = state
  BY <1>1, <1>2 DEF CallStep, Stages
<1> QED
  BY <1>1, <1>3 DEF Lifecycle!Writes, Lifecycle!Overwrite

LEMMA NextWay ==
  ASSUME WayInv, [Next]_vars
  PROVE  WayInv' /\ [Lifecycle!Next]_(Lifecycle!vars)
<1>1. TypeInv' /\ Handed'
  BY NextType, NextHanded DEF WayInv
<1>2. ASSUME NEW s \in Slots, RunStage(s) \/ Bookkeep(s), ~Return(s)
      PROVE  WayInv' /\ [Lifecycle!Next]_(Lifecycle!vars)
  <2>0. Live(s) /\ run[s].job \in Jobs
    BY <1>2, CallSteps, BusySlot DEF WayInv, TypeInv, Live
  <2> PICK j \in Jobs : run[s].job = j
    BY <2>0
  <2>1. Live(s) /\ Moves(s) /\ CallStep(s) /\ UNCHANGED <<delivered, redelivered>>
    BY <1>2, CallSteps DEF WayInv
  <2>2. UNCHANGED <<state, dlq>> \/ Lifecycle!Writes(j)
    BY <1>1, <1>2, CallWay, CallOverwrites DEF WayInv
  <2>3. /\ \A k \in Jobs : k # j => state'[k] = state[k] /\ dlq'[k] = dlq[k]
        /\ \A e \in queued' : e \in queued \/ e[1] = j
        /\ run'[s].job = j /\ \A t \in Slots \ {s} : run'[t] = run[t]
    BY <2>1 DEF CallStep, Moves, WayInv, TypeInv, TypeOK
  <2>4. ASSUME NEW k \in Jobs \ redelivered PROVE OneWay(k)'
    BY <1>1, <1>2, <2>1, <2>3, <2>4, CallWay, OthersWay
  <2>5. \A k \in Jobs : Fresh(k)'
    <3>1. delivered[j]
      BY <2>1 DEF WayInv, Handed, Live
    <3> QED
      BY <2>1, <2>3, <3>1 DEF WayInv, Fresh
  <2> QED
    BY <1>1, <2>1, <2>2, <2>4, <2>5 DEF WayInv, Lifecycle!Next, Lifecycle!vars
<1>3. CASE UNCHANGED vars
  <2>1. UNCHANGED <<state, dlq, run, delivered, queued, redelivered>>
    BY <1>3 DEF vars, row, queue, history
  <2>2. ASSUME NEW k \in Jobs \ redelivered PROVE OneWay(k)'
    BY <2>1, <2>2, WayKept DEF WayInv, At, Live
  <2> QED
    BY <1>1, <2>1, <2>2 DEF WayInv, Fresh, Lifecycle!vars
<1> QED
  BY <1>1, <1>2, <1>3, DeliverWay, SkipWay, StartWay, CrashWay, LeaveWay DEF Next, Pick

(* The job rows implement the abstract lifecycle, with any number of slots,  *)
(* crashes, deferrals and off-ramps: stages complete one by one in order     *)
(* (_transition), an end is final (load_job, TERMINAL_STATES), and the row   *)
(* may go back only of a job whose queue entry was run again after its call  *)
(* had written its last: one that had been deferred, which two calls may     *)
(* then drive at once, or one at DEGRADED_TAGGED, which load_job does not    *)
(* take for terminal.  No write has a guard: it is one call at a time that   *)
(* the proof is about.                                                       *)
THEOREM JobsKeepTheLifecycle == Spec => LifecycleSafe
<1>1. Init => Lifecycle!Init
  BY DEF Init, Lifecycle!Init
<1>2. WayInv /\ [Next]_vars => WayInv' /\ [Lifecycle!Next]_(Lifecycle!vars)
  BY NextWay
<1> QED
  BY <1>1, <1>2, InitWay, PTL DEF Spec, LifecycleSafe, Lifecycle!Spec

-----------------------------------------------------------------------------
(* One call at a time.  Two calls of one job at once, or one that starts    *)
(* again from DEGRADED_TAGGED, could take the row back and spend what it    *)
(* has left: neither happens as long as no worker dies, nor where there is  *)
(* one slot and no stage ends in DEGRADED_TAGGED.                           *)

RunsApart ==
  \/ MaxCrashes = 0
  \/ /\ \A s, t \in Slots : s = t
     /\ \A i \in Stages : DEGRADED_TAGGED \notin Terminates[i]

InStep ==
  \A s \in Slots : Live(s) /\ run[s].pc # "mark" =>
    /\ run[s].cur = state[run[s].job] /\ ~dlq[run[s].job]
    /\ state[run[s].job] \in 0..(N - 1)

DegradedRests ==
  /\ \A j \in Jobs : state[j] = DEGRADED_TAGGED => delivered[j] /\ \A e \in queued : e[1] # j
  /\ \A s \in Slots : run[s].pc = "park" => \E i \in Stages : run[s].off \in Terminates[i]
  /\ MaxCrashes # 0 => \A j \in Jobs : state[j] # DEGRADED_TAGGED

LifeInv == PlaceInv /\ crashes <= MaxCrashes /\ InStep /\ DegradedRests

LEMMA Apart ==
  ASSUME RunsApart, LifeInv, NEW s \in Slots, NEW t \in Slots, Live(s), Live(t),
         run[s].job = run[t].job
  PROVE  s = t
<1>1. CASE MaxCrashes = 0
  <2>1. crashes = 0
    BY <1>1 DEF LifeInv, PlaceInv, TypeInv, TypeOK
  <2> QED
    BY <2>1 DEF LifeInv, PlaceInv, OnePlace
<1> QED
  BY <1>1 DEF RunsApart

LEMMA InitLife == Init => LifeInv
<1> SUFFICES ASSUME Init PROVE LifeInv
  OBVIOUS
<1>1. 0 # DEGRADED_TAGGED
  BY DEF DEGRADED_TAGGED
<1> QED
  BY <1>1, InitPlace, BoundAssumption DEF Init, LifeInv, InStep, DegradedRests, Live, Idle

LEMMA NextLife ==
  ASSUME RunsApart, LifeInv, [Next]_vars
  PROVE  LifeInv'
<1> USE DEF row, queue, history
<1>p. TypeInv /\ TypeInv' /\ PlaceInv'
  BY NextPlace, NextType DEF LifeInv, PlaceInv
<1>0. \A s \in Slots : Live(s) => run[s].job \in Jobs
  BY <1>p, BusySlot DEF Live, TypeInv
<1> SUFFICES crashes' <= MaxCrashes /\ InStep' /\ DegradedRests'
  BY <1>p DEF LifeInv
<1>1. ASSUME NEW j \in Jobs, Deliver(j)
      PROVE  crashes' <= MaxCrashes /\ InStep' /\ DegradedRests'
  <2>1. /\ UNCHANGED <<state, dlq, run, crashes>>
        /\ \A k \in Jobs : delivered[k] => delivered'[k]
        /\ \A e \in queued' : e \in queued \/ e[1] = j
    BY <1>1, <1>p DEF Deliver, TypeInv, TypeOK
  <2>2. state[j] # DEGRADED_TAGGED
    BY <1>1 DEF Deliver, LifeInv, DegradedRests
  <2> QED
    BY <2>1, <2>2 DEF LifeInv, InStep, DegradedRests, Live
<1>2. ASSUME NEW s \in Slots, NEW e \in queued, Skip(s, e[1], e[2])
      PROVE  crashes' <= MaxCrashes /\ InStep' /\ DegradedRests'
  BY <1>2 DEF Skip, LifeInv, InStep, DegradedRests, Live
<1>3. ASSUME NEW s \in Slots, NEW e \in queued, Start(s, e[1], e[2])
      PROVE  crashes' <= MaxCrashes /\ InStep' /\ DegradedRests'
  <2>1. /\ e[1] \in Jobs /\ ~dlq[e[1]] /\ state[e[1]] \notin TerminalStates
        /\ run'[s].pc = "begin" /\ run'[s].job = e[1] /\ run'[s].cur = state[e[1]]
        /\ \A t \in Slots \ {s} : run'[t] = run[t]
        /\ ~Live(s) /\ queued' = queued \ {e}
        /\ UNCHANGED <<state, dlq, delivered, crashes>>
    BY <1>3, <1>p, StartFacts
  <2>2. state[e[1]] # DEGRADED_TAGGED
    BY <2>1 DEF LifeInv, DegradedRests
  <2>3. state[e[1]] \in 0..(N - 1)
    <3>1. state[e[1]] \in 0..N /\ state[e[1]] # N
      BY <1>p, <2>1, <2>2, StatesSplit DEF TypeInv, TypeOK
    <3> QED
      BY <3>1, StatesSplit
  <2>4. \A t \in Slots : t # s => (Live(t)' <=> Live(t))
    BY <2>1 DEF Live
  <2>5. InStep'
    BY <2>1, <2>3, <2>4 DEF LifeInv, InStep
  <2>6. DegradedRests'
    BY <2>1 DEF LifeInv, DegradedRests
  <2> QED
    BY <2>1, <2>5, <2>6 DEF LifeInv
<1>4. ASSUME NEW s \in Slots, Crash(s)
      PROVE  crashes' <= MaxCrashes /\ InStep' /\ DegradedRests'
  <2>1. /\ crashes < MaxCrashes /\ crashes' = crashes + 1 /\ queued' = queued \cup {Entry(s)}
        /\ run' = [run EXCEPT ![s] = Idle] /\ UNCHANGED <<state, dlq, delivered>>
        /\ crashes \in Nat /\ MaxCrashes \in Nat
    BY <1>4, <1>p, BoundAssumption DEF Crash, TypeInv, TypeOK
  <2>2. MaxCrashes # 0
    BY <2>1
  <2>3. \A t \in Slots : (Live(t)' => Live(t)) /\ run'[t] \in {run[t], Idle}
                         /\ (Live(t)' => run'[t] = run[t])
    BY <1>p, <2>1 DEF Live, Idle, TypeInv, TypeOK
  <2>4. InStep'
    BY <2>1, <2>3 DEF LifeInv, InStep
  <2>5. DegradedRests'
    BY <2>1, <2>2, <2>3 DEF LifeInv, DegradedRests, Idle
  <2> QED
    BY <2>1, <2>4, <2>5
<1>5. ASSUME NEW s \in Slots, Abort(s) \/ Return(s)
      PROVE  crashes' <= MaxCrashes /\ InStep' /\ DegradedRests'
  <2>1. /\ run' = [run EXCEPT ![s] = Idle] /\ UNCHANGED <<state, dlq, delivered, queued, crashes>>
    BY <1>5 DEF Abort, Return, Release
  <2>2. \A t \in Slots : (Live(t)' => Live(t)) /\ run'[t] \in {run[t], Idle}
                         /\ (Live(t)' => run'[t] = run[t])
    BY <1>p, <2>1 DEF Live, Idle, TypeInv, TypeOK
  <2>3. InStep'
    BY <2>1, <2>2 DEF LifeInv, InStep
  <2>4. DegradedRests'
    BY <2>1, <2>2 DEF LifeInv, DegradedRests, Idle
  <2> QED
    BY <2>1, <2>3, <2>4 DEF LifeInv
<1>6. ASSUME NEW s \in Slots, RunStage(s) \/ Bookkeep(s), ~Return(s)
      PROVE  crashes' <= MaxCrashes /\ InStep' /\ DegradedRests'
  <2> DEFINE j == run[s].job
  <2>1. Live(s) /\ Moves(s) /\ CallStep(s) /\ UNCHANGED <<delivered, crashes>> /\ j \in Jobs
    BY <1>0, <1>6, <1>p, CallSteps
  <2>2. \A t \in Slots : t # s => run'[t] = run[t] /\ (Live(t)' <=> Live(t))
                                  /\ (Live(t) => run[t].job # j)
    BY <2>1, Apart DEF Moves, Live
  <2>3. /\ run'[s].job = j
        /\ run[s].pc # "mark" => /\ run[s].cur = state[j] /\ ~dlq[j]
                                 /\ state[j] \in 0..(N - 1)
    BY <2>1 DEF Moves, LifeInv, InStep
  <2>4. \A k \in Jobs : k # j => state'[k] = state[k] /\ dlq'[k] = dlq[k]
    BY <1>p, <2>1 DEF CallStep, TypeInv, TypeOK
  <2>5. state \in [Jobs -> States] /\ dlq \in [Jobs -> BOOLEAN]
    BY <1>p DEF TypeInv, TypeOK
  <2>6. ASSUME NEW t \in Slots, t # s, Live(t)', run'[t].pc # "mark"
        PROVE  /\ run'[t].cur = state'[run'[t].job] /\ ~dlq'[run'[t].job]
               /\ state'[run'[t].job] \in 0..(N - 1)
    <3>1. Live(t) /\ run'[t] = run[t] /\ run[t].job # j /\ run[t].job \in Jobs
      BY <1>0, <2>2, <2>6
    <3> QED
      BY <2>4, <2>6, <3>1 DEF LifeInv, InStep
  <2>7. ASSUME NEW t \in Slots, t # s, run'[t].pc = "park"
        PROVE  \E i \in Stages : run'[t].off \in Terminates[i]
    BY <2>2, <2>7 DEF LifeInv, DegradedRests
  <2>8. ASSUME NEW k \in Jobs, k # j
        PROVE  /\ state'[k] = DEGRADED_TAGGED => delivered'[k] /\ \A e \in queued' : e[1] # k
               /\ MaxCrashes # 0 => state'[k] # DEGRADED_TAGGED
    <3>1. \A e \in queued' : e \in queued \/ e[1] = j
      BY <2>1 DEF CallStep
    <3> QED
      BY <2>1, <2>4, <2>8, <3>1 DEF LifeInv, DegradedRests
  <2> DEFINE Good ==
        /\ Live(s)' /\ run'[s].pc # "mark" =>
             /\ run'[s].cur = state'[j] /\ ~dlq'[j] /\ state'[j] \in 0..(N - 1)
        /\ run'[s].pc = "park" => \E i \in Stages : run'[s].off \in Terminates[i]
        /\ state'[j] = DEGRADED_TAGGED => delivered'[j] /\ \A e \in queued' : e[1] # j
        /\ MaxCrashes # 0 => state'[j] # DEGRADED_TAGGED
  <2>9. ASSUME run[s].pc \in Inside PROVE Good
    <3>1. /\ run'[s].cur = run[s].cur /\ UNCHANGED <<state, dlq, queued>>
          /\ run[s].pc # "mark" /\ run'[s].pc # "return"
          /\ run'[s].pc = "park" => run[s].pc = "stage" /\ run'[s].off \in Terminates[StageOf(s)]
      BY <2>1, <2>9 DEF CallStep, Inside
    <3>2. state[j] # DEGRADED_TAGGED
      BY <2>3, <3>1, StatesSplit
    <3>3. run'[s].pc = "park" => StageOf(s) \in Stages
      BY <1>p, <3>1, SlotStage
    <3>4. Good
      BY <2>3, <3>1, <3>2, <3>3 DEF Good
    <3> QED
      BY <3>1, <3>4
  <2>10. ASSUME run[s].pc = "enqueue" PROVE Good
    <3>1. run'[s].pc = "return" /\ UNCHANGED <<state, dlq>>
      BY <2>1, <2>10 DEF CallStep, Inside
    <3>2. state[j] # DEGRADED_TAGGED
      BY <2>3, <2>10, StatesSplit
    <3>3. Good
      BY <3>1, <3>2 DEF Good, Live
    <3> QED
      BY <3>1, <3>3
  <2>11. ASSUME run[s].pc = "ok" PROVE Good
    <3> DEFINE i == StageOf(s)
    <3>1. /\ run'[s].cur = i /\ run'[s].pc = (IF i = N THEN "return" ELSE "begin")
          /\ state' = [state EXCEPT ![j] = i] /\ dlq' = dlq
      BY <2>1, <2>11 DEF CallStep, Inside
    <3>2. i = state[j] + 1 /\ ~dlq[j] /\ state[j] \in 0..(N - 1)
      BY <2>3, <2>11, StatesSplit DEF StageOf, NextStage
    <3>3. state'[j] = i /\ i \in 1..N
      BY <2>1, <2>5, <3>1, <3>2, StatesSplit
    <3>4. i # N => i \in 0..(N - 1)
      BY <3>3, StatesSplit
    <3>5. i # DEGRADED_TAGGED
      BY <3>3, StatesSplit
    <3>7. Good
      <4> HIDE DEF i
      <4> QED
        BY <3>1, <3>2, <3>3, <3>4, <3>5 DEF Good, Live
    <3> QED
      BY <3>7
  <2>12. ASSUME run[s].pc = "park" PROVE Good
    <3>1. /\ run'[s].pc = "mark" /\ state' = [state EXCEPT ![j] = run[s].off]
          /\ UNCHANGED <<dlq, queued>>
      BY <2>1, <2>12 DEF CallStep, Inside
    <3>2. run[s].off \in OffRamps /\ ~dlq[j] /\ state[j] \in 0..(N - 1) /\ state'[j] = run[s].off
      BY <1>p, <2>1, <2>3, <2>5, <2>12, <3>1, BusySlot DEF TypeInv
    <3>4. MaxCrashes = 0 => delivered[j] /\ \A e \in queued : e[1] # j
      <4>1. MaxCrashes = 0 => crashes = 0
        BY <1>p DEF LifeInv, TypeInv, TypeOK
      <4> QED
        BY <2>1, <4>1 DEF LifeInv, PlaceInv, OnePlace
    <3>5. MaxCrashes # 0 => run[s].off # DEGRADED_TAGGED
      BY <2>12 DEF RunsApart, LifeInv, DegradedRests
    <3>6. Good
      BY <2>1, <3>1, <3>2, <3>4, <3>5 DEF Good
    <3> QED
      BY <3>6
  <2>13. ASSUME run[s].pc = "mark" PROVE Good
    <3>1. run'[s].pc = "return" /\ UNCHANGED <<state, dlq, queued>>
      BY <2>1, <2>13 DEF CallStep, Inside
    <3>2. Good
      BY <2>1, <3>1 DEF Good, Live, LifeInv, DegradedRests
    <3> QED
      BY <3>2
  <2>14. ASSUME run[s].pc = "dlq" PROVE Good
    <3>1. run'[s].pc = "return" /\ dlq' = [dlq EXCEPT ![j] = TRUE] /\ UNCHANGED <<state, queued>>
      BY <2>1, <2>14 DEF CallStep, Inside
    <3>3. state[j] # DEGRADED_TAGGED
      BY <2>3, <2>14, StatesSplit
    <3>4. Good
      BY <3>1, <3>3 DEF Good, Live
    <3> QED
      BY <3>4
  <2>15. Good
    <3> HIDE DEF Good
    <3> QED
      BY <2>1, <2>9, <2>10, <2>11, <2>12, <2>13, <2>14 DEF CallStep
  <2>16. InStep' /\ DegradedRests'
    BY <2>3, <2>6, <2>7, <2>8, <2>15 DEF InStep, DegradedRests, Good
  <2> QED
    BY <2>1, <2>16 DEF LifeInv
<1>7. CASE UNCHANGED vars
  BY <1>7 DEF vars, LifeInv, InStep, DegradedRests, Live
<1> QED
  BY <1>1, <1>2, <1>3, <1>4, <1>5, <1>6, <1>7 DEF Next, Pick

-----------------------------------------------------------------------------
(* Retries and waits.                                                      *)

\* Where a job is: its entries in the queue, and the call that works on it.
Entries(j) == {e \in queued : e[1] = j}
Calls(j) == {s \in Slots : Live(s) /\ run[s].job = j}
Chances(j) == Cardinality(Entries(j)) + (IF Calls(j) = {} THEN 0 ELSE 1)

\* Every crash gave a job one more chance, or took a count that was not written.
Slack(j) == 1 + crashes - Chances(j)

\* What a call has raised, or waited for, and not yet written.
Charging == {"stage", "failed", "ok", "wait", "park", "dlq"}
Charge(s) == IF run[s].pc \in Charging THEN run[s].inproc ELSE 0
Charged(j) == IF Calls(j) = {} THEN 0 ELSE Charge(CHOOSE s \in Calls(j) : TRUE)
Raised(j, i) == IF \E s \in Calls(j) : run[s].pc = "failed" /\ StageOf(s) = i THEN 1 ELSE 0

\* Waits in the slots that n stages and crashes account for.
Allow(n) == InProcess * n
Done(j) == Cardinality({i \in Dependent : i <= state[j]})

TriesSound(j) ==
  /\ Slack(j) >= 0
  /\ \A i \in Stages :
       /\ attempts[j][i] <= Limit(i)
       /\ failed[j][i] <= attempts[j][i] + Slack(j) + Raised(j, i)
       /\ attempts[j][i] = Limit(i) => failed[j][i] <= Limit(i) + crashes

WaitsSound(j) ==
  /\ waited[j] <= Budget
  /\ spent[j] <= waited[j] + Allow(Cardinality(Dependent) + crashes)
  /\ state[j] >= 0 => spent[j] <= waited[j] + Allow(Done(j) + Slack(j)) + Charged(j)

Untouched(j) ==
  ~delivered[j] =>
    /\ Entries(j) = {} /\ Calls(j) = {} /\ spent[j] = 0
    /\ \A i \in Stages : failed[j][i] = 0

\* A call knows the row it has read: nobody else writes it meanwhile.
CallSound(s) ==
  LET j == run[s].job
      i == StageOf(s)
  IN  /\ run[s].inproc <= InProcess
      /\ run[s].pc \in {"stage", "failed"} => run[s].att = attempts[j][i] /\ run[s].att < Limit(i)
      /\ run[s].pc \in {"stage", "failed", "wait"} => run[s].before = waited[j]
      /\ run[s].pc = "wait" => run[s].before + run[s].inproc + run[s].delay <= Budget
      /\ run[s].pc \in Charging /\ run[s].inproc > 0 => i \in Dependent

CountInv ==
  /\ LifeInv /\ IsFiniteSet(queued)
  /\ \A s \in Slots : Live(s) => CallSound(s)
  /\ \A j \in Jobs : TriesSound(j) /\ WaitsSound(j) /\ Untouched(j)

LEMMA AllowGrows ==
  /\ \A n \in Int : Allow(n) \in Int /\ Allow(n + 1) = Allow(n) + InProcess
  /\ \A m, n \in Int : m <= n => Allow(m) <= Allow(n)
  /\ \A n \in Nat : Allow(n) >= 0
  /\ InProcess \in Nat
<1>1. InProcess \in Nat
  BY BudgetAssumption
<1>2. \A n \in Int : Allow(n) \in Int /\ Allow(n + 1) = Allow(n) + InProcess
  BY <1>1 DEF Allow
<1>3. ASSUME NEW m \in Int, NEW n \in Int, m <= n PROVE Allow(m) <= Allow(n)
  <2>1. \A k \in Nat : InProcess * k >= 0
    BY <1>1
  <2>2. n - m \in Nat
    BY <1>3
  <2>3. InProcess * (n - m) >= 0
    BY <2>1, <2>2
  <2>4. InProcess * (n - m) = InProcess * n - InProcess * m
    BY <1>1
  <2> QED
    BY <1>1, <2>3, <2>4 DEF Allow
<1>4. \A n \in Nat : Allow(n) >= 0
  BY <1>1 DEF Allow
<1> QED
  BY <1>1, <1>2, <1>3, <1>4

LEMMA DependentFinite == IsFiniteSet(Dependent) /\ Cardinality(Dependent) \in Nat
<1>1. IsFiniteSet(1..N)
  BY FS_Interval, StageAssumption
<1>2. IsFiniteSet(Dependent)
  BY <1>1, FS_Subset, StageAssumption DEF Stages
<1> QED
  BY <1>2, FS_CardinalityType

\* The waiting stages a job has behind it.
LEMMA DoneCounts ==
  ASSUME NEW n \in Int
  PROVE  LET S(k) == {i \in Dependent : i <= k}
         IN  /\ Cardinality(S(n)) \in Nat /\ Cardinality(S(n)) <= Cardinality(Dependent)
             /\ Cardinality(S(n + 1)) \in Nat /\ Cardinality(S(n)) <= Cardinality(S(n + 1))
             /\ n + 1 \in Dependent => Cardinality(S(n + 1)) = Cardinality(S(n)) + 1
<1> DEFINE S(k) == {i \in Dependent : i <= k}
<1>0. Dependent \subseteq Int
  BY StageAssumption DEF Stages
<1>1. \A k : S(k) \in SUBSET Dependent
  OBVIOUS
<1>2. \A k : IsFiniteSet(S(k)) /\ Cardinality(S(k)) <= Cardinality(Dependent)
  BY <1>1, DependentFinite, FS_Subset
<1>3. \A k : Cardinality(S(k)) \in Nat
  BY <1>2, FS_CardinalityType
<1>4. S(n) \subseteq S(n + 1)
  <2>1. \A i \in Int : i <= n => i <= n + 1
    OBVIOUS
  <2> QED
    BY <1>0, <2>1
<1>5. Cardinality(S(n)) <= Cardinality(S(n + 1))
  BY <1>2, <1>4, FS_Subset
<1>6. ASSUME n + 1 \in Dependent PROVE Cardinality(S(n + 1)) = Cardinality(S(n)) + 1
  <2>1. S(n + 1) = S(n) \cup {n + 1} /\ n + 1 \notin S(n)
    <3>1. \A i \in Int : i <= n + 1 <=> i <= n \/ i = n + 1
      OBVIOUS
    <3>2. ~(n + 1 <= n)
      OBVIOUS
    <3> QED
      BY <1>0, <1>6, <3>1, <3>2
  <2> HIDE DEF S
  <2>2. Cardinality(S(n) \cup {n + 1}) = Cardinality(S(n)) + 1
    BY <1>2, <2>1, FS_AddElement
  <2> QED
    BY <2>1, <2>2
<1> QED
  BY <1>2, <1>3, <1>5, <1>6

LEMMA CountTypes ==
  ASSUME TypeInv, IsFiniteSet(queued), NEW j \in Jobs
  PROVE  /\ IsFiniteSet(Entries(j)) /\ Cardinality(Entries(j)) \in Nat
         /\ Chances(j) \in Nat /\ Slack(j) \in Int
         /\ \A s \in Slots : Live(s) => Charge(s) \in Nat
         /\ Charged(j) \in Nat /\ \A i : Raised(j, i) \in {0, 1}
         /\ Done(j) \in Nat /\ crashes \in Nat
<1>1. IsFiniteSet(Entries(j))
  BY FS_Subset DEF Entries
<1>2. Cardinality(Entries(j)) \in Nat
  BY <1>1, FS_CardinalityType
<1>3. crashes \in Nat /\ state[j] \in Int
  BY SMTT(40) DEF TypeInv, TypeOK, States, OffRamps, REJECTED, QUARANTINED, NEEDS_REVIEW,
     DEGRADED_TAGGED, DUPLICATE_SUSPECT
<1>4. \A s \in Slots : Live(s) => Charge(s) \in Nat
  BY BusySlot DEF Live, TypeInv, Charge
<1>5. Charged(j) \in Nat
  BY <1>4 DEF Charged, Calls
<1>6. Done(j) \in Nat
  BY <1>3, DoneCounts DEF Done
<1> QED
  BY <1>1, <1>2, <1>3, <1>4, <1>5, <1>6 DEF Chances, Slack, Raised

LEMMA CountTyped ==
  TypeInv /\ IsFiniteSet(queued) =>
    \A k \in Jobs :
      /\ Cardinality(Entries(k)) \in Nat /\ Slack(k) \in Int
      /\ Charged(k) \in Nat /\ \A i : Raised(k, i) \in {0, 1}
      /\ Done(k) \in Nat /\ crashes \in Nat
BY CountTypes

LEMMA CountTypedThen ==
  TypeInv' /\ IsFiniteSet(queued)' =>
    \A k \in Jobs :
      /\ Cardinality(Entries(k)') \in Nat /\ Slack(k)' \in Int
      /\ Charged(k)' \in Nat /\ \A i : Raised(k, i)' \in {0, 1}
      /\ Done(k)' \in Nat /\ crashes' \in Nat
<1>1. (TypeInv /\ IsFiniteSet(queued) =>
    \A k \in Jobs :
      /\ Cardinality(Entries(k)) \in Nat /\ Slack(k) \in Int
      /\ Charged(k) \in Nat /\ \A i : Raised(k, i) \in {0, 1}
      /\ Done(k) \in Nat /\ crashes \in Nat)'
  BY CountTyped, PTL
<1> QED
  BY <1>1

LEMMA OneCall ==
  RunsApart /\ LifeInv =>
    \A t \in Slots, k \in Jobs : Live(t) /\ run[t].job = k =>
      /\ Calls(k) = {t} /\ Charged(k) = Charge(t)
      /\ Chances(k) = Cardinality(Entries(k)) + 1
      /\ \A i : Raised(k, i) = IF run[t].pc = "failed" /\ StageOf(t) = i THEN 1 ELSE 0
<1> SUFFICES ASSUME RunsApart, LifeInv, NEW t \in Slots, NEW k \in Jobs, Live(t), run[t].job = k
             PROVE  /\ Calls(k) = {t} /\ Charged(k) = Charge(t)
                    /\ Chances(k) = Cardinality(Entries(k)) + 1
                    /\ \A i : Raised(k, i) =
                                IF run[t].pc = "failed" /\ StageOf(t) = i THEN 1 ELSE 0
  OBVIOUS
<1>1. Calls(k) = {t}
  BY Apart DEF Calls
<1> QED
  BY <1>1 DEF Charged, Chances, Raised

LEMMA OneCallThen ==
  RunsApart /\ LifeInv' =>
    \A t \in Slots, k \in Jobs : Live(t)' /\ run'[t].job = k =>
      /\ Calls(k)' = {t} /\ Charged(k)' = Charge(t)'
      /\ Chances(k)' = Cardinality(Entries(k)') + 1
      /\ \A i : Raised(k, i)' = IF run'[t].pc = "failed" /\ StageOf(t)' = i THEN 1 ELSE 0
<1>1. (RunsApart /\ LifeInv =>
    \A t \in Slots, k \in Jobs : Live(t) /\ run[t].job = k =>
      /\ Calls(k) = {t} /\ Charged(k) = Charge(t)
      /\ Chances(k) = Cardinality(Entries(k)) + 1
      /\ \A i : Raised(k, i) = IF run[t].pc = "failed" /\ StageOf(t) = i THEN 1 ELSE 0)'
  BY OneCall, PTL
<1> QED
  BY <1>1

LEMMA NoCall ==
  TypeInv /\ IsFiniteSet(queued) =>
    \A k \in Jobs : Calls(k) = {} =>
      Charged(k) = 0 /\ Chances(k) = Cardinality(Entries(k)) /\ \A i : Raised(k, i) = 0
BY CountTypes DEF Charged, Chances, Raised

LEMMA NoCallThen ==
  TypeInv' /\ IsFiniteSet(queued)' =>
    \A k \in Jobs : Calls(k)' = {} =>
      Charged(k)' = 0 /\ Chances(k)' = Cardinality(Entries(k)') /\ \A i : Raised(k, i)' = 0
<1>1. (TypeInv /\ IsFiniteSet(queued) =>
    \A k \in Jobs : Calls(k) = {} =>
      Charged(k) = 0 /\ Chances(k) = Cardinality(Entries(k)) /\ \A i : Raised(k, i) = 0)'
  BY NoCall, PTL
<1> QED
  BY <1>1

\* What was raised or waited for and is not in the row grows with the slack only.
LEMMA TriesKeep ==
  ASSUME CountInv, LifeInv', IsFiniteSet(queued)', NEW j \in Jobs,
         attempts'[j] = attempts[j], failed'[j] = failed[j], crashes' >= crashes,
         \/ /\ Slack(j)' >= Slack(j)
            /\ \A i \in Stages : Raised(j, i)' >= Raised(j, i)
         \/ Slack(j)' >= Slack(j) + 1
  PROVE  TriesSound(j)'
<1>1. /\ Slack(j) \in Int /\ \A i : Raised(j, i) \in {0, 1} /\ crashes \in Nat
  BY CountTypes DEF CountInv, LifeInv, PlaceInv
<1>2. /\ Slack(j)' \in Int /\ \A i : Raised(j, i)' \in {0, 1} /\ crashes' \in Nat
  BY CountTypedThen DEF LifeInv, PlaceInv
<1>3. TriesSound(j)
  BY DEF CountInv
<1>4. attempts[j] \in [Stages -> Nat] /\ failed[j] \in [Stages -> Nat] /\ MaxAttempts \in Nat
  BY BudgetAssumption DEF CountInv, LifeInv, PlaceInv, TypeInv, TypeOK
<1>5. ASSUME NEW i \in Stages
      PROVE  failed'[j][i] <= attempts'[j][i] + Slack(j)' + Raised(j, i)'
  <2>1. failed[j][i] <= attempts[j][i] + Slack(j) + Raised(j, i)
    BY <1>3 DEF TriesSound
  <2> QED
    BY <1>1, <1>2, <1>4, <2>1
<1>6. ASSUME NEW i \in Stages
      PROVE  /\ attempts'[j][i] <= Limit(i)
             /\ attempts'[j][i] = Limit(i) => failed'[j][i] <= Limit(i) + crashes'
  <2>1. Limit(i) \in Nat
    BY <1>4 DEF Limit
  <2>2. /\ attempts[j][i] <= Limit(i)
        /\ attempts[j][i] = Limit(i) => failed[j][i] <= Limit(i) + crashes
    BY <1>3 DEF TriesSound
  <2> QED
    BY <1>1, <1>2, <1>4, <2>1, <2>2
<1>7. Slack(j)' >= 0
  BY <1>1, <1>2, <1>3 DEF TriesSound
<1> QED
  BY <1>5, <1>6, <1>7 DEF TriesSound, Limit

LEMMA WaitsKeep ==
  ASSUME CountInv, LifeInv', IsFiniteSet(queued)', NEW j \in Jobs,
         waited'[j] = waited[j], spent'[j] = spent[j], crashes' >= crashes,
         state'[j] >= 0 =>
           /\ state[j] >= 0
           /\ \/ /\ Done(j)' + Slack(j)' >= Done(j) + Slack(j)
                 /\ Charged(j)' >= Charged(j)
              \/ /\ Done(j)' + Slack(j)' >= Done(j) + Slack(j) + 1
                 /\ Charged(j) <= InProcess
  PROVE  WaitsSound(j)'
<1>1. Slack(j) \in Int /\ Charged(j) \in Nat /\ Done(j) \in Nat /\ crashes \in Nat
  BY CountTypes DEF CountInv, LifeInv, PlaceInv
<1>2. Slack(j)' \in Int /\ Charged(j)' \in Nat /\ Done(j)' \in Nat /\ crashes' \in Nat
  BY CountTypedThen DEF LifeInv, PlaceInv
<1>3. WaitsSound(j)
  BY DEF CountInv
<1>4. waited[j] \in Nat /\ spent[j] \in Nat /\ Budget \in Nat
  BY BudgetAssumption DEF CountInv, LifeInv, PlaceInv, TypeInv, TypeOK
<1> DEFINE D == Cardinality(Dependent)
<1>5. spent'[j] <= waited'[j] + Allow(D + crashes')
  <2>0. D \in Nat
    BY DependentFinite
  <2>1. spent[j] <= waited[j] + Allow(D + crashes)
    BY <1>3 DEF WaitsSound
  <2>2. Allow(D + crashes) <= Allow(D + crashes') /\ Allow(D + crashes) \in Int
        /\ Allow(D + crashes') \in Int
    <3>1. D + crashes \in Int /\ D + crashes' \in Int /\ D + crashes <= D + crashes'
      BY <1>1, <1>2, <2>0
    <3> QED
      BY <3>1, AllowGrows
  <2> HIDE DEF D
  <2> QED
    BY <1>4, <2>1, <2>2
<1>6. ASSUME state'[j] >= 0
      PROVE  spent'[j] <= waited'[j] + Allow(Done(j)' + Slack(j)') + Charged(j)'
  <2> DEFINE a == Done(j) + Slack(j)
             b == Done(j)' + Slack(j)'
  <2>0. a \in Int /\ b \in Int /\ Allow(a) \in Int /\ Allow(b) \in Int /\ InProcess \in Nat
    <3>1. a \in Int /\ b \in Int
      BY <1>1, <1>2
    <3> QED
      BY <3>1, AllowGrows
  <2>1. spent[j] <= waited[j] + Allow(a) + Charged(j)
    BY <1>3, <1>6 DEF WaitsSound
  <2>2. CASE b >= a /\ Charged(j)' >= Charged(j)
    <3>1. Allow(a) <= Allow(b)
      BY <2>0, <2>2, AllowGrows
    <3> HIDE DEF a, b
    <3>2. spent'[j] <= waited'[j] + Allow(b) + Charged(j)'
      BY <1>1, <1>2, <1>4, <2>0, <2>1, <2>2, <3>1
    <3> QED
      BY <3>2 DEF b
  <2>3. CASE b >= a + 1 /\ Charged(j) <= InProcess
    <3>1. Allow(a + 1) <= Allow(b) /\ Allow(a + 1) = Allow(a) + InProcess
      BY <2>0, <2>3, AllowGrows
    <3> HIDE DEF a, b
    <3>2. spent'[j] <= waited'[j] + Allow(b) + Charged(j)'
      BY <1>1, <1>2, <1>4, <2>0, <2>1, <2>3, <3>1
    <3> QED
      BY <3>2 DEF b
  <2> QED
    BY <1>6, <2>2, <2>3
<1> QED
  BY <1>3, <1>5, <1>6 DEF WaitsSound

\* What a step on one job leaves alone.
Alone(s, j) ==
  /\ \A t \in Slots \ {s} : run'[t] = run[t]
  /\ Live(s) => run[s].job = j
  /\ Live(s)' => run'[s].job = j
  /\ \A e : e[1] # j => (e \in queued' <=> e \in queued)
  /\ crashes' >= crashes
  /\ \A k \in Jobs \ {j} :
       /\ attempts'[k] = attempts[k] /\ failed'[k] = failed[k] /\ waited'[k] = waited[k]
       /\ spent'[k] = spent[k] /\ state'[k] = state[k] /\ delivered'[k] = delivered[k]

\* A job that a step does not touch stays sound.
LEMMA JobAlone ==
  ASSUME CountInv, LifeInv', IsFiniteSet(queued)', NEW k \in Jobs,
         \A t \in Slots : Live(t) /\ run[t].job = k => run'[t] = run[t],
         \A t \in Slots : Live(t)' /\ run'[t].job = k => run'[t] = run[t],
         \A e : e[1] = k => (e \in queued' <=> e \in queued), crashes' >= crashes,
         attempts'[k] = attempts[k], failed'[k] = failed[k], waited'[k] = waited[k],
         spent'[k] = spent[k], state'[k] = state[k], delivered'[k] = delivered[k]
  PROVE  TriesSound(k)' /\ WaitsSound(k)' /\ Untouched(k)'
<1>2. Calls(k)' = Calls(k)
  BY DEF Calls, Live
<1>3. Entries(k)' = Entries(k)
  BY DEF Entries
<1>4. ASSUME NEW t \in Calls(k)
      PROVE  Charge(t)' = Charge(t) /\ StageOf(t)' = StageOf(t) /\ run'[t] = run[t]
  <2>1. run'[t] = run[t]
    BY <1>4 DEF Calls
  <2> QED
    BY <2>1 DEF Charge, StageOf
<1>5. Charged(k)' = Charged(k)
  <2>1. CASE Calls(k) = {}
    BY <1>2, <2>1 DEF Charged
  <2>2. CASE Calls(k) # {}
    <3>1. PICK t \in Calls(k) : t = CHOOSE u \in Calls(k) : TRUE
      BY <2>2
    <3>2. Charged(k)' = Charge(t)' /\ Charged(k) = Charge(t)
      BY <1>2, <2>2, <3>1 DEF Charged
    <3> QED
      BY <1>4, <3>1, <3>2
  <2> QED
    BY <2>1, <2>2
<1>6. \A i : Raised(k, i)' = Raised(k, i)
  BY <1>2, <1>4 DEF Raised
<1>7. /\ Chances(k)' = Chances(k) /\ Chances(k) \in Nat /\ crashes \in Nat /\ crashes' \in Nat
      /\ Slack(k) \in Int /\ Charged(k) \in Nat /\ \A i : Raised(k, i) \in {0, 1}
  <2>1. Chances(k)' = Chances(k)
    BY <1>2, <1>3 DEF Chances
  <2>2. /\ Chances(k) \in Nat /\ crashes \in Nat
        /\ Slack(k) \in Int /\ Charged(k) \in Nat /\ \A i : Raised(k, i) \in {0, 1}
    BY CountTypes DEF CountInv, LifeInv, PlaceInv
  <2>3. crashes' \in Nat
    BY DEF LifeInv, PlaceInv, TypeInv, TypeOK
  <2> QED
    BY <2>1, <2>2, <2>3
<1>8. crashes' >= crashes /\ Slack(k)' >= Slack(k)
  BY <1>7 DEF Slack
<1>9. Done(k)' = Done(k) /\ Done(k) \in Nat
  <2>1. Done(k) \in Nat
    BY CountTypes DEF CountInv, LifeInv, PlaceInv
  <2> QED
    BY <2>1 DEF Done
<1>11. TriesSound(k)'
  <2>1. \A i \in Stages : Raised(k, i)' >= Raised(k, i)
    BY <1>6, <1>7
  <2> QED
    BY <1>8, <2>1, TriesKeep
<1>12. WaitsSound(k)'
  <2>1. Done(k)' + Slack(k)' >= Done(k) + Slack(k) /\ Charged(k)' >= Charged(k)
    <3>1. Slack(k)' \in Int
      BY CountTypedThen DEF LifeInv, PlaceInv
    <3> QED
      BY <1>5, <1>7, <1>8, <1>9, <3>1
  <2> QED
    BY <1>8, <2>1, WaitsKeep
<1>13. Untouched(k)'
  <2>1. Untouched(k)
    BY DEF CountInv
  <2> QED
    BY <1>2, <1>3, <2>1 DEF Untouched
<1> QED
  BY <1>11, <1>12, <1>13

LEMMA OtherJobs ==
  ASSUME CountInv, LifeInv', IsFiniteSet(queued)', NEW s \in Slots, NEW j \in Jobs,
         Alone(s, j), NEW k \in Jobs, k # j
  PROVE  TriesSound(k)' /\ WaitsSound(k)' /\ Untouched(k)'
<1>1. /\ \A t \in Slots : Live(t) /\ run[t].job = k => run'[t] = run[t]
      /\ \A t \in Slots : Live(t)' /\ run'[t].job = k => run'[t] = run[t]
  BY DEF Alone, Live
<1>2. /\ \A e : e[1] = k => (e \in queued' <=> e \in queued)
      /\ crashes' >= crashes
      /\ attempts'[k] = attempts[k] /\ failed'[k] = failed[k] /\ waited'[k] = waited[k]
      /\ spent'[k] = spent[k] /\ state'[k] = state[k] /\ delivered'[k] = delivered[k]
  BY DEF Alone
<1> QED
  BY <1>1, <1>2, JobAlone

\* A step on one job keeps the invariant if it keeps it for that job and its call.
LEMMA StepKeeps ==
  ASSUME RunsApart, CountInv, LifeInv', IsFiniteSet(queued)', NEW s \in Slots, NEW j \in Jobs,
         Alone(s, j), ~Live(s) => attempts'[j] = attempts[j] /\ waited'[j] = waited[j],
         Live(s)' => CallSound(s)',
         TriesSound(j)', WaitsSound(j)', Untouched(j)'
  PROVE  CountInv'
<1>1. ASSUME NEW t \in Slots, Live(t)' PROVE CallSound(t)'
  <2>1. CASE t = s
    BY <1>1, <2>1
  <2>2. CASE t # s
    <3>1. run'[t] = run[t] /\ Live(t)
      BY <1>1, <2>2 DEF Alone, Live
    <3>2. run[t].job \in Jobs /\ CallSound(t)
      BY <3>1, BusySlot DEF CountInv, LifeInv, PlaceInv, TypeInv, Live
    <3>3. attempts'[run[t].job] = attempts[run[t].job] /\ waited'[run[t].job] = waited[run[t].job]
      <4>1. CASE run[t].job # j
        BY <3>2, <4>1 DEF Alone
      <4>2. CASE run[t].job = j
        <5>1. ~Live(s)
          BY <2>2, <3>1, <4>2, Apart DEF Alone, CountInv
        <5> QED
          BY <4>2, <5>1
      <4> QED
        BY <4>1, <4>2
    <3>4. StageOf(t)' = StageOf(t)
      BY <3>1 DEF StageOf
    <3> QED
      BY <3>1, <3>2, <3>3, <3>4 DEF CallSound
  <2> QED
    BY <2>1, <2>2
<1>2. \A k \in Jobs : TriesSound(k)' /\ WaitsSound(k)' /\ Untouched(k)'
  BY OtherJobs
<1> QED
  BY <1>1, <1>2 DEF CountInv

\* The call goes on: the job has as many chances as before.
LEMMA CallGoesOn ==
  ASSUME RunsApart, CountInv, LifeInv', IsFiniteSet(queued)', NEW s \in Slots, NEW j \in Jobs,
         Live(s), run[s].job = j, Live(s)', run'[s].job = j,
         queued' = queued, crashes' = crashes
  PROVE  /\ Slack(j)' = Slack(j) /\ Slack(j) \in Int /\ Slack(j) >= 0 /\ Slack(j) <= crashes
         /\ Charged(j) = Charge(s) /\ Charged(j)' = Charge(s)'
         /\ \A i : Raised(j, i) = IF run[s].pc = "failed" /\ StageOf(s) = i THEN 1 ELSE 0
         /\ \A i : Raised(j, i)' = IF run'[s].pc = "failed" /\ StageOf(s)' = i THEN 1 ELSE 0
<1>1. /\ Chances(j) = Cardinality(Entries(j)) + 1 /\ Charged(j) = Charge(s)
      /\ \A i : Raised(j, i) = IF run[s].pc = "failed" /\ StageOf(s) = i THEN 1 ELSE 0
  BY OneCall DEF CountInv
<1>2. /\ Chances(j)' = Cardinality(Entries(j)') + 1 /\ Charged(j)' = Charge(s)'
      /\ \A i : Raised(j, i)' = IF run'[s].pc = "failed" /\ StageOf(s)' = i THEN 1 ELSE 0
  BY OneCallThen
<1>3. Entries(j)' = Entries(j)
  BY DEF Entries
<1>4. Cardinality(Entries(j)) \in Nat /\ crashes \in Nat /\ Slack(j) \in Int
  BY CountTypes DEF CountInv, LifeInv, PlaceInv
<1>5. Slack(j) >= 0
  BY DEF CountInv, TriesSound
<1>6. Slack(j)' = Slack(j) /\ Slack(j) <= crashes
  BY <1>1, <1>2, <1>3, <1>4 DEF Slack
<1> QED
  BY <1>1, <1>2, <1>4, <1>5, <1>6

\* At most one entry is added to the queue.
Adds(e) == queued' \in {queued, queued \cup {e}}

\* The call ends: the job has a chance less, or what was in the slot is in the queue.
LEMMA CallEnds ==
  ASSUME RunsApart, CountInv, LifeInv', IsFiniteSet(queued)', NEW s \in Slots, NEW j \in Jobs,
         Live(s), run[s].job = j, ~Live(s)', Alone(s, j), crashes' \in {crashes, crashes + 1},
         NEW e, Adds(e)
  PROVE  /\ Charged(j) = Charge(s) /\ Charged(j)' = 0 /\ \A i : Raised(j, i)' = 0
         /\ \A i : Raised(j, i) = IF run[s].pc = "failed" /\ StageOf(s) = i THEN 1 ELSE 0
         /\ Slack(j)' >= Slack(j) + (crashes' - crashes)
         /\ queued' = queued => Slack(j)' >= Slack(j) + 1
         /\ Slack(j) \in Int /\ Slack(j)' \in Int
<1>0. TypeInv /\ TypeInv' /\ IsFiniteSet(queued)
  BY DEF CountInv, LifeInv, PlaceInv
<1>1. /\ Calls(j) = {s} /\ Chances(j) = Cardinality(Entries(j)) + 1 /\ Charged(j) = Charge(s)
      /\ \A i : Raised(j, i) = IF run[s].pc = "failed" /\ StageOf(s) = i THEN 1 ELSE 0
  BY OneCall DEF CountInv
<1>2. Calls(j)' = {}
  <2>1. \A t \in Slots : Live(t)' /\ run'[t].job = j => t # s /\ Live(t) /\ run[t].job = j
    BY DEF Alone, Live
  <2> QED
    BY <1>1, <2>1 DEF Calls
<1>3. Charged(j)' = 0 /\ Chances(j)' = Cardinality(Entries(j)') /\ \A i : Raised(j, i)' = 0
  BY <1>0, <1>2, NoCallThen
<1>4. /\ IsFiniteSet(Entries(j)) /\ Cardinality(Entries(j)) \in Nat /\ crashes \in Nat
      /\ Slack(j) \in Int
  BY <1>0, CountTypes
<1>5. Cardinality(Entries(j)') \in Nat /\ Slack(j)' \in Int
  BY <1>0, CountTypedThen
<1>6. Cardinality(Entries(j)') <= Cardinality(Entries(j)) + 1
  <2>1. Entries(j)' \subseteq Entries(j) \cup {e}
    BY DEF Entries, Adds
  <2>2. IsFiniteSet(Entries(j) \cup {e}) /\ Cardinality(Entries(j) \cup {e}) <= Cardinality(Entries(j)) + 1
    <3>1. /\ IsFiniteSet(Entries(j) \cup {e})
          /\ \/ Cardinality(Entries(j) \cup {e}) = Cardinality(Entries(j))
             \/ Cardinality(Entries(j) \cup {e}) = Cardinality(Entries(j)) + 1
      BY <1>4, FS_AddElement
    <3> QED
      BY <1>4, <3>1
  <2>3. Cardinality(Entries(j) \cup {e}) \in Nat
    BY <2>2, FS_CardinalityType
  <2>4. Cardinality(Entries(j)') <= Cardinality(Entries(j) \cup {e})
    BY <2>1, <2>2, FS_Subset
  <2> QED
    BY <1>4, <1>5, <2>2, <2>3, <2>4
<1>7. queued' = queued => Entries(j)' = Entries(j)
  BY DEF Entries
<1> QED
  BY <1>1, <1>3, <1>4, <1>5, <1>6, <1>7 DEF Slack

LEMMA CallFacts ==
  ASSUME CountInv, NEW s \in Slots, Live(s)
  PROVE  /\ run[s] \in Busy /\ run[s].job \in Jobs /\ CallSound(s) /\ delivered[run[s].job]
         /\ run \in [Slots -> Busy \cup {Idle}] /\ queued \subseteq Jobs \X Nat
         /\ run[s].pc # "mark" =>
              /\ state[run[s].job] \in 0..(N - 1) /\ StageOf(s) = state[run[s].job] + 1
              /\ StageOf(s) \in Stages
<1>1. TypeInv
  BY DEF CountInv, LifeInv, PlaceInv
<1>2. run[s] \in Busy /\ run[s].job \in Jobs
  BY <1>1, BusySlot DEF Live, TypeInv
<1>3. delivered[run[s].job]
  BY <1>2 DEF CountInv, Untouched, Calls
<1>4. ASSUME run[s].pc # "mark"
      PROVE  /\ state[run[s].job] \in 0..(N - 1) /\ StageOf(s) = state[run[s].job] + 1
             /\ StageOf(s) \in Stages
  <2>1. run[s].cur = state[run[s].job] /\ state[run[s].job] \in 0..(N - 1)
    BY <1>4 DEF CountInv, LifeInv, InStep
  <2> QED
    BY <2>1, StageAssumption DEF StageOf, NextStage, Stages
<1> QED
  BY <1>1, <1>2, <1>3, <1>4 DEF CountInv, TypeInv, TypeOK

LEMMA GoesOn ==
  ASSUME RunsApart, CountInv, LifeInv', NEW s \in Slots, Live(s), NEW j \in Jobs, run[s].job = j,
         NEW r, run' = [run EXCEPT ![s] = r], r.job = j, r.pc \notin {"idle", "return"},
         UNCHANGED <<queued, crashes, delivered>>,
         \A k \in Jobs \ {j} :
           /\ attempts'[k] = attempts[k] /\ failed'[k] = failed[k] /\ waited'[k] = waited[k]
           /\ spent'[k] = spent[k] /\ state'[k] = state[k],
         CallSound(s)', TriesSound(j)', WaitsSound(j)'
  PROVE  CountInv'
<1>1. /\ run'[s] = r /\ \A t \in Slots \ {s} : run'[t] = run[t]
      /\ crashes' >= crashes
  BY DEF CountInv, LifeInv, PlaceInv, TypeInv, TypeOK
<1>2. Alone(s, j)
  BY <1>1 DEF Alone, Live
<1>3. Untouched(j)'
  BY CallFacts DEF Untouched
<1>4. IsFiniteSet(queued)'
  BY DEF CountInv
<1> QED
  BY <1>2, <1>3, <1>4, StepKeeps

\* Steps that leave all counts and the job's state alone.
LEMMA GoesOnQuietly ==
  ASSUME RunsApart, CountInv, LifeInv', NEW s \in Slots, Live(s), NEW r,
         run' = [run EXCEPT ![s] = r], r.job = run[s].job,
         r.pc \notin {"idle", "return", "failed"}, run[s].pc # "failed",
         r.cur = run[s].cur, UNCHANGED <<queued, crashes, delivered>>,
         UNCHANGED <<state, attempts, failed, waited, spent>>,
         Charge(s)' = Charge(s), CallSound(s)'
  PROVE  CountInv'
<1>1. PICK j \in Jobs : j = run[s].job
  BY CallFacts
<1>2. /\ run'[s] = r /\ IsFiniteSet(queued)' /\ crashes' >= crashes /\ Live(s)'
      /\ StageOf(s)' = StageOf(s)
  BY DEF CountInv, LifeInv, PlaceInv, TypeInv, TypeOK, Live, StageOf
<1>3. /\ Slack(j)' = Slack(j) /\ Slack(j) \in Int /\ Charged(j) = Charge(s)
      /\ Charged(j)' = Charge(s)' /\ \A i : Raised(j, i) = 0 /\ Raised(j, i)' = 0
  BY <1>1, <1>2, CallGoesOn
<1>4. Charged(j) \in Nat /\ Done(j) \in Nat /\ Done(j)' = Done(j)
  BY CountTypes DEF CountInv, LifeInv, PlaceInv, Done
<1>5. TriesSound(j)'
  <2>1. Slack(j)' >= Slack(j) /\ \A i \in Stages : Raised(j, i)' >= Raised(j, i)
    BY <1>3
  <2> QED
    BY <1>2, <2>1, TriesKeep
<1>6. WaitsSound(j)'
  <2>1. Done(j)' + Slack(j)' >= Done(j) + Slack(j) /\ Charged(j)' >= Charged(j)
    BY <1>3, <1>4
  <2> QED
    BY <1>2, <2>1, WaitsKeep
<1> QED
  BY <1>1, <1>5, <1>6, GoesOn

LEMMA BeginCounts ==
  ASSUME RunsApart, CountInv, LifeInv', NEW s \in Slots, BeginStage(s)
  PROVE  CountInv'
<1> DEFINE j == run[s].job
           i == StageOf(s)
           r == [run[s] EXCEPT !.pc = IF attempts[j][i] < Limit(i) THEN "stage" ELSE "dlq",
                               !.att = attempts[j][i], !.before = waited[j], !.inproc = 0]
<1>1. Live(s) /\ run[s].pc = "begin"
  BY DEF BeginStage, Live
<1>2. run[s] \in Busy /\ j \in Jobs /\ i \in Stages /\ run \in [Slots -> Busy \cup {Idle}]
      /\ attempts[j][i] \in Nat /\ waited[j] \in Nat
  BY <1>1, CallFacts DEF CountInv, LifeInv, PlaceInv, TypeInv, TypeOK
<1>3. run' = [run EXCEPT ![s] = r] /\ UNCHANGED <<row, queue, history>>
  BY <1>2 DEF BeginStage
<1>4. /\ r.pc = (IF attempts[j][i] < Limit(i) THEN "stage" ELSE "dlq")
      /\ r.job = j /\ r.cur = run[s].cur /\ r.att = attempts[j][i] /\ r.before = waited[j]
      /\ r.inproc = 0
  BY <1>2 DEF Busy
<1> HIDE DEF r
<1>5. run'[s] = r /\ StageOf(s)' = i
  BY <1>2, <1>3, <1>4 DEF StageOf
<1>6. Charge(s)' = Charge(s)
  BY <1>1, <1>4, <1>5 DEF Charge, Charging
<1>7. CallSound(s)'
  BY <1>3, <1>4, <1>5, BudgetAssumption DEF CallSound, row, Limit
<1> QED
  BY <1>1, <1>3, <1>4, <1>6, <1>7, GoesOnQuietly DEF row, queue, history

LEMMA OutcomeCounts ==
  ASSUME RunsApart, CountInv, LifeInv', NEW s \in Slots, StageSucceeds(s) \/ StageTerminal(s)
  PROVE  CountInv'
<1>1. Live(s) /\ run[s].pc = "stage"
  BY DEF StageSucceeds, StageTerminal, Live
<1>2. run[s] \in Busy /\ run \in [Slots -> Busy \cup {Idle}] /\ CallSound(s)
  BY <1>1, CallFacts
<1>3. PICK p \in {"ok", "park"}, t \in OffRamps : run' = [run EXCEPT ![s] = [run[s] EXCEPT !.pc = p, !.off = t]]
  <2>1. CASE StageSucceeds(s)
    <3> DEFINE q == [run[s] EXCEPT !.pc = "ok"]
               q2 == [run[s] EXCEPT !.pc = "ok", !.off = run[s].off]
    <3>1. q = q2 /\ run[s].off \in OffRamps
      BY <1>2 DEF Busy
    <3>2. run' = [run EXCEPT ![s] = q]
      BY <2>1 DEF StageSucceeds, Goto
    <3> QED
      BY <3>1, <3>2
  <2>2. CASE StageTerminal(s)
    <3>1. StageOf(s) \in Stages
      BY <1>1, CallFacts
    <3> QED
      BY <1>2, <2>2, <3>1, StageAssumption DEF StageTerminal
  <2> QED
    BY <2>1, <2>2
<1> DEFINE r == [run[s] EXCEPT !.pc = p, !.off = t]
<1>4. run' = [run EXCEPT ![s] = r] /\ UNCHANGED <<row, queue, history>>
  BY <1>3 DEF StageSucceeds, StageTerminal
<1>5. /\ r.pc = p /\ r.job = run[s].job /\ r.cur = run[s].cur /\ r.inproc = run[s].inproc
  BY <1>2 DEF Busy
<1> HIDE DEF r
<1>6. run'[s] = r /\ StageOf(s)' = StageOf(s)
  BY <1>2, <1>4, <1>5 DEF StageOf
<1>7. Charge(s)' = Charge(s)
  BY <1>1, <1>5, <1>6 DEF Charge, Charging
<1>8. CallSound(s)'
  BY <1>1, <1>2, <1>5, <1>6 DEF CallSound, Charging
<1> QED
  BY <1>1, <1>4, <1>5, <1>7, <1>8, GoesOnQuietly DEF row, queue, history

LEMMA FailCounts ==
  ASSUME RunsApart, CountInv, LifeInv', NEW s \in Slots, StageFails(s)
  PROVE  CountInv'
<1> DEFINE i == StageOf(s)
           r == [run[s] EXCEPT !.pc = "failed"]
<1>1. Live(s) /\ run[s].pc = "stage"
  BY DEF StageFails, Live
<1>2. /\ run[s] \in Busy /\ run \in [Slots -> Busy \cup {Idle}] /\ CallSound(s) /\ i \in Stages
      /\ run[s].job \in Jobs /\ IsFiniteSet(queued)
  BY <1>1, CallFacts DEF CountInv
<1>3. PICK j \in Jobs : j = run[s].job
  BY <1>2
<1>4. /\ run' = [run EXCEPT ![s] = r] /\ UNCHANGED <<row, queue, spent, crashes, aborts>>
      /\ failed' = [failed EXCEPT ![j][i] = @ + 1]
  BY <1>3 DEF StageFails, Goto
<1>5. r.pc = "failed" /\ r.job = j /\ r.cur = run[s].cur /\ r.inproc = run[s].inproc
      /\ r.att = run[s].att /\ r.before = run[s].before
  BY <1>2, <1>3 DEF Busy
<1> HIDE DEF r
<1>6. run'[s] = r /\ StageOf(s)' = i /\ Live(s)'
  BY <1>2, <1>4, <1>5 DEF StageOf, Live
<1>7. CallSound(s)'
  BY <1>1, <1>2, <1>3, <1>4, <1>5, <1>6 DEF CallSound, Charging, row, Limit
<1>8. /\ Slack(j)' = Slack(j) /\ Slack(j) \in Int /\ Slack(j) >= 0
      /\ Charged(j) = Charge(s) /\ Charged(j)' = Charge(s)'
      /\ \A k : Raised(j, k) = 0 /\ Raised(j, k)' = IF k = i THEN 1 ELSE 0
  <2>1. run[s].job = j /\ run'[s].job = j /\ queued' = queued /\ crashes' = crashes
    BY <1>3, <1>4, <1>5, <1>6 DEF queue
  <2>2. IsFiniteSet(queued)'
    BY <1>2, <2>1
  <2>3. /\ Slack(j)' = Slack(j) /\ Slack(j) \in Int /\ Slack(j) >= 0
        /\ Charged(j) = Charge(s) /\ Charged(j)' = Charge(s)'
        /\ \A k : Raised(j, k) = IF run[s].pc = "failed" /\ StageOf(s) = k THEN 1 ELSE 0
        /\ \A k : Raised(j, k)' = IF run'[s].pc = "failed" /\ StageOf(s)' = k THEN 1 ELSE 0
    BY <1>1, <1>6, <2>1, <2>2, CallGoesOn
  <2> QED
    BY <1>1, <1>5, <1>6, <2>3
<1>9. /\ failed \in [Jobs -> [Stages -> Nat]] /\ attempts \in [Jobs -> [Stages -> Nat]]
      /\ crashes \in Nat /\ MaxAttempts \in Nat
  BY BudgetAssumption DEF CountInv, LifeInv, PlaceInv, TypeInv, TypeOK
<1>10. TriesSound(j)'
  <2>1. failed'[j] = [failed[j] EXCEPT ![i] = failed[j][i] + 1] /\ attempts' = attempts /\ crashes' = crashes
    BY <1>4, <1>9 DEF row
  <2>2. attempts[j][i] < Limit(i)
    BY <1>1, <1>2, <1>3 DEF CallSound
  <2>3. ASSUME NEW k \in Stages
        PROVE  /\ attempts'[j][k] <= Limit(k)
               /\ failed'[j][k] <= attempts'[j][k] + Slack(j)' + Raised(j, k)'
               /\ attempts'[j][k] = Limit(k) => failed'[j][k] <= Limit(k) + crashes'
    <3>1. /\ attempts[j][k] <= Limit(k) /\ failed[j][k] <= attempts[j][k] + Slack(j) + Raised(j, k)
          /\ attempts[j][k] = Limit(k) => failed[j][k] <= Limit(k) + crashes
      BY DEF CountInv, TriesSound
    <3>2. Limit(k) \in Nat
      BY <1>9 DEF Limit
    <3>3. CASE k = i
      <4>1. failed'[j][k] = failed[j][k] + 1 /\ attempts[j][k] # Limit(k)
        BY <1>9, <2>1, <2>2, <3>2, <3>3
      <4> QED
        BY <1>8, <1>9, <2>1, <3>1, <3>2, <3>3, <4>1
    <3>4. CASE k # i
      <4>1. failed'[j][k] = failed[j][k]
        BY <1>9, <2>1, <3>4
      <4> QED
        BY <1>8, <1>9, <2>1, <3>1, <3>2, <3>4, <4>1
    <3> QED
      BY <3>3, <3>4
  <2> QED
    BY <1>8, <2>3 DEF TriesSound, Limit
<1>11. WaitsSound(j)'
  <2>1. Charge(s)' = Charge(s)
    BY <1>1, <1>5, <1>6 DEF Charge, Charging
  <2>2. /\ Charged(j) \in Nat /\ Done(j) \in Nat /\ Done(j)' = Done(j) /\ crashes' = crashes
        /\ crashes' >= crashes /\ IsFiniteSet(queued)'
    <3>1. state' = state /\ queued' = queued /\ crashes' = crashes
      BY <1>4 DEF row, queue
    <3>2. Charged(j) \in Nat /\ Done(j) \in Nat
      BY CountTypes DEF CountInv, LifeInv, PlaceInv
    <3> QED
      BY <1>2, <1>9, <3>1, <3>2 DEF Done
  <2>3. Done(j)' + Slack(j)' >= Done(j) + Slack(j) /\ Charged(j)' >= Charged(j)
    BY <1>8, <2>1, <2>2
  <2> QED
    BY <1>4, <2>2, <2>3, WaitsKeep DEF row
<1>12. \A k \in Jobs \ {j} : failed'[k] = failed[k]
  BY <1>4, <1>9
<1> QED
  BY <1>1, <1>3, <1>4, <1>5, <1>7, <1>10, <1>11, <1>12, GoesOn DEF row, queue

LEMMA AttemptCounts ==
  ASSUME RunsApart, CountInv, LifeInv', NEW s \in Slots, RecordAttempt(s)
  PROVE  CountInv'
<1> DEFINE i == StageOf(s)
           a == run[s].att + 1
           r == [run[s] EXCEPT !.att = a, !.pc = IF a < Limit(i) THEN "stage" ELSE "dlq"]
<1>1. Live(s) /\ run[s].pc = "failed"
  BY DEF RecordAttempt, Live
<1>2. /\ run[s] \in Busy /\ run \in [Slots -> Busy \cup {Idle}] /\ CallSound(s) /\ i \in Stages
      /\ run[s].job \in Jobs /\ IsFiniteSet(queued) /\ run[s].att \in Nat
  BY <1>1, CallFacts DEF CountInv, Busy
<1>3. PICK j \in Jobs : j = run[s].job
  BY <1>2
<1>4. /\ run' = [run EXCEPT ![s] = r] /\ UNCHANGED <<state, waited, queue, history>>
      /\ attempts' = [attempts EXCEPT ![j][i] = a]
  BY <1>2, <1>3 DEF RecordAttempt
<1>5. /\ r.pc = (IF a < Limit(i) THEN "stage" ELSE "dlq") /\ r.job = j /\ r.cur = run[s].cur
      /\ r.inproc = run[s].inproc /\ r.att = a /\ r.before = run[s].before
  BY <1>2, <1>3 DEF Busy
<1> HIDE DEF r
<1>6. run'[s] = r /\ StageOf(s)' = i /\ Live(s)'
  BY <1>2, <1>4, <1>5 DEF StageOf, Live
<1>7. /\ failed \in [Jobs -> [Stages -> Nat]] /\ attempts \in [Jobs -> [Stages -> Nat]]
      /\ crashes \in Nat /\ MaxAttempts \in Nat
  BY BudgetAssumption DEF CountInv, LifeInv, PlaceInv, TypeInv, TypeOK
<1>8. /\ attempts'[j] = [attempts[j] EXCEPT ![i] = a] /\ attempts'[j][i] = a
      /\ attempts[j][i] = run[s].att /\ run[s].att < Limit(i)
      /\ failed' = failed /\ crashes' = crashes
  BY <1>1, <1>2, <1>3, <1>4, <1>7 DEF CallSound, history
<1>9. CallSound(s)'
  <2>1. a < Limit(i) => r.pc = "stage"
    BY <1>5
  <2>2. r.pc \in {"stage", "dlq"} /\ (r.pc = "stage" => a < Limit(i))
    BY <1>5
  <2>3. run'[s].inproc > 0 => i \in Dependent
    BY <1>1, <1>2, <1>5, <1>6 DEF CallSound, Charging
  <2> QED
    BY <1>1, <1>2, <1>3, <1>4, <1>5, <1>6, <1>8, <2>2, <2>3 DEF CallSound, Limit
<1>10. /\ Slack(j)' = Slack(j) /\ Slack(j) \in Int /\ Slack(j) >= 0 /\ Slack(j) <= crashes
       /\ Charged(j) = Charge(s) /\ Charged(j)' = Charge(s)'
       /\ \A k : Raised(j, k)' = 0 /\ Raised(j, k) = IF k = i THEN 1 ELSE 0
  <2>1. run[s].job = j /\ run'[s].job = j /\ queued' = queued /\ crashes' = crashes
    BY <1>3, <1>4, <1>5, <1>6 DEF queue, history
  <2>2. IsFiniteSet(queued)'
    BY <1>2, <2>1
  <2>3. /\ Slack(j)' = Slack(j) /\ Slack(j) \in Int /\ Slack(j) >= 0 /\ Slack(j) <= crashes
        /\ Charged(j) = Charge(s) /\ Charged(j)' = Charge(s)'
        /\ \A k : Raised(j, k) = IF run[s].pc = "failed" /\ StageOf(s) = k THEN 1 ELSE 0
        /\ \A k : Raised(j, k)' = IF run'[s].pc = "failed" /\ StageOf(s)' = k THEN 1 ELSE 0
    BY <1>1, <1>6, <2>1, <2>2, CallGoesOn
  <2>4. run'[s].pc # "failed"
    BY <1>5, <1>6
  <2> QED
    BY <1>1, <2>3, <2>4
<1>11. TriesSound(j)'
  <2>1. ASSUME NEW k \in Stages
        PROVE  /\ attempts'[j][k] <= Limit(k)
               /\ failed'[j][k] <= attempts'[j][k] + Slack(j)' + Raised(j, k)'
               /\ attempts'[j][k] = Limit(k) => failed'[j][k] <= Limit(k) + crashes'
    <3>1. /\ attempts[j][k] <= Limit(k) /\ failed[j][k] <= attempts[j][k] + Slack(j) + Raised(j, k)
          /\ attempts[j][k] = Limit(k) => failed[j][k] <= Limit(k) + crashes
      BY DEF CountInv, TriesSound
    <3>2. Limit(k) \in Nat
      BY <1>7 DEF Limit
    <3>3. CASE k = i
      <4>1. attempts[j][k] = run[s].att /\ attempts'[j][k] = run[s].att + 1 /\ run[s].att < Limit(k)
        BY <1>8, <3>3
      <4>2. failed[j][k] <= run[s].att + Slack(j) + 1
        BY <1>10, <3>1, <3>3, <4>1
      <4> QED
        BY <1>2, <1>7, <1>8, <1>10, <3>2, <4>1, <4>2
    <3>4. CASE k # i
      <4>1. attempts'[j][k] = attempts[j][k]
        BY <1>7, <1>8, <3>4
      <4> QED
        BY <1>7, <1>8, <1>10, <3>1, <3>2, <3>4, <4>1
    <3> QED
      BY <3>3, <3>4
  <2> QED
    BY <1>10, <2>1 DEF TriesSound, Limit
<1>12. WaitsSound(j)'
  <2>1. Charge(s)' = Charge(s)
    BY <1>1, <1>5, <1>6 DEF Charge, Charging
  <2>2. /\ Charged(j) \in Nat /\ Done(j) \in Nat /\ Done(j)' = Done(j)
        /\ crashes' >= crashes /\ IsFiniteSet(queued)'
    <3>1. state' = state /\ queued' = queued /\ crashes' = crashes
      BY <1>4 DEF queue, history
    <3>2. Charged(j) \in Nat /\ Done(j) \in Nat
      BY CountTypes DEF CountInv, LifeInv, PlaceInv
    <3> QED
      BY <1>2, <1>7, <3>1, <3>2 DEF Done
  <2>3. Done(j)' + Slack(j)' >= Done(j) + Slack(j) /\ Charged(j)' >= Charged(j)
    BY <1>10, <2>1, <2>2
  <2> QED
    BY <1>4, <2>2, <2>3, WaitsKeep DEF history
<1>13. \A k \in Jobs \ {j} : attempts'[k] = attempts[k]
  BY <1>4, <1>7
<1> QED
  BY <1>1, <1>3, <1>4, <1>5, <1>9, <1>11, <1>12, <1>13, GoesOn DEF queue, history

\* No budget left, or none to spend: the call buries the job, or defers it.
LEMMA GiveUpCounts ==
  ASSUME RunsApart, CountInv, LifeInv', NEW s \in Slots, StageUnavailable(s),
         run'[s].pc \in {"dlq", "wait"}
  PROVE  CountInv'
<1>1. Live(s) /\ run[s].pc = "stage"
  BY DEF StageUnavailable, Live
<1>2. /\ run[s] \in Busy /\ run \in [Slots -> Busy \cup {Idle}] /\ CallSound(s)
      /\ run[s].before \in Nat /\ run[s].inproc \in Nat /\ Budget \in Nat
  BY <1>1, CallFacts, BudgetAssumption DEF Busy
<1>3. PICK p \in {"dlq", "wait"}, w \in Nat :
        /\ run' = [run EXCEPT ![s] = [run[s] EXCEPT !.pc = p, !.delay = w]]
        /\ p = "wait" => run[s].before + run[s].inproc + w <= Budget
        /\ UNCHANGED <<row, queue, history>>
  <2>1. CASE Goto(s, "dlq") /\ UNCHANGED spent
    <3> DEFINE q == [run[s] EXCEPT !.pc = "dlq"]
               q2 == [run[s] EXCEPT !.pc = "dlq", !.delay = run[s].delay]
    <3>1. q = q2 /\ run[s].delay \in Nat
      BY <1>2 DEF Busy
    <3>2. run' = [run EXCEPT ![s] = q]
      BY <2>1 DEF Goto
    <3> QED
      BY <2>1, <3>1, <3>2 DEF StageUnavailable, history
  <2>2. ASSUME NEW w \in Nat, run[s].before + run[s].inproc + w <= Budget,
               run' = [run EXCEPT ![s] = [run[s] EXCEPT !.pc = "wait", !.delay = w]], UNCHANGED spent
        PROVE  \E u \in Nat :
                 /\ run' = [run EXCEPT ![s] = [run[s] EXCEPT !.pc = "wait", !.delay = u]]
                 /\ run[s].before + run[s].inproc + u <= Budget
                 /\ UNCHANGED <<row, queue, history>>
    BY <2>2 DEF StageUnavailable, history
  <2>3. \/ Goto(s, "dlq") /\ UNCHANGED spent
        \/ \E d \in Delays :
             LET total == run[s].before + run[s].inproc
                 w == IF d <= Budget - total THEN d ELSE Budget - total
             IN  /\ total < Budget /\ UNCHANGED spent
                 /\ run' = [run EXCEPT ![s] = [run[s] EXCEPT !.pc = "wait", !.delay = w]]
    <3>1. ASSUME NEW w, run' = [run EXCEPT ![s].inproc = @ + w] PROVE FALSE
      <4>1. run'[s].pc = run[s].pc
        BY <1>2, <3>1 DEF Busy
      <4> QED
        BY <1>1, <4>1
    <3> QED
      BY <1>2, <3>1 DEF StageUnavailable
  <2>4. ASSUME NEW d \in Delays, run[s].before + run[s].inproc < Budget, UNCHANGED spent,
               run' = [run EXCEPT ![s] = [run[s] EXCEPT !.pc = "wait", !.delay =
                         IF d <= Budget - (run[s].before + run[s].inproc) THEN d
                         ELSE Budget - (run[s].before + run[s].inproc)]]
        PROVE  \E u \in Nat :
                 /\ run' = [run EXCEPT ![s] = [run[s] EXCEPT !.pc = "wait", !.delay = u]]
                 /\ run[s].before + run[s].inproc + u <= Budget
                 /\ UNCHANGED <<row, queue, history>>
    <3> DEFINE u == IF d <= Budget - (run[s].before + run[s].inproc) THEN d
                    ELSE Budget - (run[s].before + run[s].inproc)
    <3>1. u \in Nat /\ run[s].before + run[s].inproc + u <= Budget
      BY <1>2, <2>4, BudgetAssumption
    <3> QED
      BY <2>2, <2>4, <3>1
  <2> QED
    BY <2>1, <2>3, <2>4
<1> DEFINE r == [run[s] EXCEPT !.pc = p, !.delay = w]
<1>4. run' = [run EXCEPT ![s] = r] /\ UNCHANGED <<row, queue, history>>
  BY <1>3
<1>5. /\ r.pc = p /\ r.job = run[s].job /\ r.cur = run[s].cur /\ r.inproc = run[s].inproc
      /\ r.before = run[s].before /\ r.delay = w
  BY <1>2 DEF Busy
<1> HIDE DEF r
<1>6. run'[s] = r /\ StageOf(s)' = StageOf(s)
  BY <1>2, <1>4, <1>5 DEF StageOf
<1>7. Charge(s)' = Charge(s)
  BY <1>1, <1>5, <1>6 DEF Charge, Charging
<1>8. CallSound(s)'
  BY <1>1, <1>2, <1>3, <1>4, <1>5, <1>6 DEF CallSound, Charging, row
<1> QED
  BY <1>1, <1>4, <1>5, <1>7, <1>8, GoesOnQuietly DEF row, queue, history

\* A wait in the slot is within what a stage may wait in its slot.
LEMMA WaitCounts ==
  ASSUME RunsApart, CountInv, LifeInv', NEW s \in Slots, StageUnavailable(s),
         run'[s].pc = "stage"
  PROVE  CountInv'
<1> DEFINE i == StageOf(s)
<1>1. Live(s) /\ run[s].pc = "stage"
  BY DEF StageUnavailable, Live
<1>2. /\ run[s] \in Busy /\ run \in [Slots -> Busy \cup {Idle}] /\ CallSound(s) /\ i \in Stages
      /\ run[s].job \in Jobs /\ IsFiniteSet(queued)
      /\ run[s].before \in Nat /\ run[s].inproc \in Nat /\ Budget \in Nat
  BY <1>1, CallFacts, BudgetAssumption DEF Busy, CountInv
<1>3. PICK j \in Jobs : j = run[s].job
  BY <1>2
<1>4. PICK w \in Nat :
        /\ run' = [run EXCEPT ![s] = [run[s] EXCEPT !.inproc = run[s].inproc + w]]
        /\ spent' = [spent EXCEPT ![j] = spent[j] + w]
        /\ run[s].inproc + w <= InProcess
  <2>1. \A p \in {"dlq"} : run' # [run EXCEPT ![s].pc = p]
    BY <1>2 DEF Busy
  <2>2. \A d : run' # [run EXCEPT ![s] = [run[s] EXCEPT !.pc = "wait", !.delay = d]]
    BY <1>2 DEF Busy
  <2>3. PICK d \in Delays :
          LET total == run[s].before + run[s].inproc
              w == IF d <= Budget - total THEN d ELSE Budget - total
          IN  /\ total < Budget /\ run[s].inproc + w <= InProcess
              /\ run' = [run EXCEPT ![s].inproc = @ + w]
              /\ spent' = [spent EXCEPT ![run[s].job] = @ + w]
    BY <1>2, <2>1, <2>2 DEF StageUnavailable, Goto
  <2> DEFINE total == run[s].before + run[s].inproc
             w == IF d <= Budget - total THEN d ELSE Budget - total
  <2>4. w \in Nat
    BY <1>2, <2>3, BudgetAssumption
  <2>5. /\ run' = [run EXCEPT ![s] = [run[s] EXCEPT !.inproc = run[s].inproc + w]]
        /\ spent' = [spent EXCEPT ![j] = spent[j] + w] /\ run[s].inproc + w <= InProcess
    BY <1>2, <1>3, <2>3
  <2> HIDE DEF w
  <2> QED
    BY <2>4, <2>5
<1> DEFINE r == [run[s] EXCEPT !.inproc = run[s].inproc + w]
<1>5. run' = [run EXCEPT ![s] = r] /\ UNCHANGED <<row, queue, failed, crashes, aborts>>
  BY <1>4 DEF StageUnavailable
<1>6. /\ r.pc = "stage" /\ r.job = j /\ r.cur = run[s].cur /\ r.inproc = run[s].inproc + w
      /\ r.before = run[s].before /\ r.att = run[s].att /\ r.delay = run[s].delay
  BY <1>1, <1>2, <1>3 DEF Busy
<1> HIDE DEF r
<1>7. run'[s] = r /\ StageOf(s)' = i /\ Live(s)' /\ i \in Dependent
  BY <1>2, <1>5, <1>6 DEF StageOf, Live, StageUnavailable
<1>8. CallSound(s)'
  BY <1>1, <1>2, <1>4, <1>5, <1>6, <1>7 DEF CallSound, Charging, row, Limit
<1>9. /\ Slack(j)' = Slack(j) /\ Slack(j) \in Int /\ Slack(j) >= 0 /\ Slack(j) <= crashes
      /\ Charged(j) = run[s].inproc /\ Charged(j)' = run[s].inproc + w
      /\ \A k : Raised(j, k) = 0 /\ Raised(j, k)' = 0
  <2>1. run[s].job = j /\ run'[s].job = j /\ queued' = queued /\ crashes' = crashes
    BY <1>3, <1>5, <1>6, <1>7 DEF queue
  <2>2. IsFiniteSet(queued)'
    BY <1>2, <2>1
  <2>3. /\ Slack(j)' = Slack(j) /\ Slack(j) \in Int /\ Slack(j) >= 0 /\ Slack(j) <= crashes
        /\ Charged(j) = Charge(s) /\ Charged(j)' = Charge(s)'
        /\ \A k : Raised(j, k) = IF run[s].pc = "failed" /\ StageOf(s) = k THEN 1 ELSE 0
        /\ \A k : Raised(j, k)' = IF run'[s].pc = "failed" /\ StageOf(s)' = k THEN 1 ELSE 0
    BY <1>1, <1>7, <2>1, <2>2, CallGoesOn
  <2>4. Charge(s) = run[s].inproc /\ Charge(s)' = run[s].inproc + w
    BY <1>1, <1>6, <1>7 DEF Charge, Charging
  <2> QED
    BY <1>1, <1>6, <1>7, <2>3, <2>4
<1>10. /\ IsFiniteSet(queued)' /\ crashes' = crashes /\ crashes \in Nat /\ crashes' >= crashes
       /\ waited[j] \in Nat /\ spent \in [Jobs -> Nat]
       /\ UNCHANGED <<state, attempts, failed, waited, delivered>>
  BY <1>2, <1>5 DEF row, queue, CountInv, LifeInv, PlaceInv, TypeInv, TypeOK
<1>11. TriesSound(j)'
  <2>1. Slack(j)' >= Slack(j) /\ \A k \in Stages : Raised(j, k)' >= Raised(j, k)
    BY <1>9
  <2> QED
    BY <1>10, <2>1, TriesKeep
<1>12. WaitsSound(j)'
  <2> DEFINE D == Cardinality(Dependent)
             a == Done(j) + Slack(j)
  <2>1. /\ D \in Nat /\ Done(j) \in Nat /\ Done(j)' = Done(j)
    BY <1>10, DependentFinite, CountTypes DEF CountInv, LifeInv, PlaceInv, Done
  <2>2. Done(j) + 1 <= D
    <3>1. state[j] \in Int /\ i = state[j] + 1
      BY <1>1, <1>3, CallFacts
    <3> DEFINE S(n) == {k \in Dependent : k <= n}
    <3>2. Cardinality(S(state[j] + 1)) = Cardinality(S(state[j])) + 1
      BY <1>7, <3>1, DoneCounts
    <3>3. Cardinality(S(state[j] + 1)) <= D
      <4>1. PICK n \in Int : n = state[j] + 1
        BY <3>1
      <4>2. Cardinality(S(n)) <= D
        BY DoneCounts
      <4> QED
        BY <4>1, <4>2
    <3> QED
      BY <3>2, <3>3 DEF Done
  <2>3. a \in Int /\ a + 1 <= D + crashes /\ D + crashes \in Int
    BY <1>9, <1>10, <2>1, <2>2
  <2>4. /\ Allow(a) \in Int /\ Allow(a + 1) = Allow(a) + InProcess /\ InProcess \in Nat
        /\ Allow(D + crashes) \in Int
    <3> HIDE DEF a, D
    <3> QED
      BY <2>3, AllowGrows
  <2>5. Allow(a + 1) <= Allow(D + crashes)
    <3>1. a + 1 \in Int
      BY <2>3
    <3> HIDE DEF a, D
    <3> QED
      BY <2>3, <3>1, AllowGrows
  <2>6. state[j] >= 0 /\ waited[j] <= Budget /\ spent[j] <= waited[j] + Allow(a) + Charged(j)
    <3>1. state[j] >= 0
      BY <1>1, <1>3, CallFacts
    <3> QED
      BY <3>1 DEF CountInv, WaitsSound
  <2>7. spent'[j] = spent[j] + w
    BY <1>4, <1>10
  <2> HIDE DEF a
  <2>8. spent'[j] <= waited[j] + Allow(a) + Charged(j)'
    BY <1>2, <1>9, <1>10, <2>4, <2>6, <2>7
  <2> HIDE DEF D
  <2>9. spent'[j] <= waited[j] + Allow(D + crashes)
    BY <1>2, <1>4, <1>9, <1>10, <2>4, <2>5, <2>8, <2>7
  <2> QED
    BY <1>9, <1>10, <2>1, <2>6, <2>8, <2>9 DEF WaitsSound, a, D
<1>13. \A k \in Jobs \ {j} : spent'[k] = spent[k]
  BY <1>4, <1>10
<1> QED
  BY <1>1, <1>3, <1>5, <1>6, <1>8, <1>10, <1>11, <1>12, <1>13, GoesOn DEF queue

\* The deferral moves what the slot has waited for into the row.
LEMMA RecordCounts ==
  ASSUME RunsApart, CountInv, LifeInv', NEW s \in Slots, RecordWait(s)
  PROVE  CountInv'
<1> DEFINE r == [run[s] EXCEPT !.pc = "count"]
<1>1. Live(s) /\ run[s].pc = "wait"
  BY DEF RecordWait, Live
<1>2. /\ run[s] \in Busy /\ run \in [Slots -> Busy \cup {Idle}] /\ CallSound(s)
      /\ run[s].job \in Jobs /\ IsFiniteSet(queued)
      /\ run[s].before \in Nat /\ run[s].inproc \in Nat /\ run[s].delay \in Nat
  BY <1>1, CallFacts DEF Busy, CountInv
<1>3. PICK j \in Jobs : j = run[s].job
  BY <1>2
<1>4. /\ run' = [run EXCEPT ![s] = r]
      /\ waited' = [waited EXCEPT ![j] = run[s].before + run[s].inproc + run[s].delay]
      /\ spent' = [spent EXCEPT ![j] = spent[j] + run[s].delay]
      /\ UNCHANGED <<state, attempts, queue, failed, crashes, aborts>>
  BY <1>3 DEF RecordWait, Goto
<1>5. /\ r.pc = "count" /\ r.job = j /\ r.cur = run[s].cur /\ r.inproc = run[s].inproc
  BY <1>2, <1>3 DEF Busy
<1> HIDE DEF r
<1>6. run'[s] = r /\ StageOf(s)' = StageOf(s) /\ Live(s)'
  BY <1>2, <1>4, <1>5 DEF StageOf, Live
<1>7. CallSound(s)'
  BY <1>2, <1>5, <1>6 DEF CallSound, Charging
<1>8. /\ Slack(j)' = Slack(j) /\ Slack(j) \in Int /\ Slack(j) >= 0
      /\ Charged(j) = run[s].inproc /\ Charged(j)' = 0
      /\ \A k : Raised(j, k) = 0 /\ Raised(j, k)' = 0
  <2>1. run[s].job = j /\ run'[s].job = j /\ queued' = queued /\ crashes' = crashes
    BY <1>3, <1>4, <1>5, <1>6 DEF queue
  <2>2. IsFiniteSet(queued)'
    BY <1>2, <2>1
  <2>3. /\ Slack(j)' = Slack(j) /\ Slack(j) \in Int /\ Slack(j) >= 0
        /\ Charged(j) = Charge(s) /\ Charged(j)' = Charge(s)'
        /\ \A k : Raised(j, k) = IF run[s].pc = "failed" /\ StageOf(s) = k THEN 1 ELSE 0
        /\ \A k : Raised(j, k)' = IF run'[s].pc = "failed" /\ StageOf(s)' = k THEN 1 ELSE 0
    BY <1>1, <1>6, <2>1, <2>2, CallGoesOn
  <2>4. Charge(s) = run[s].inproc /\ Charge(s)' = 0
    BY <1>1, <1>5, <1>6 DEF Charge, Charging
  <2> QED
    BY <1>1, <1>5, <1>6, <2>3, <2>4
<1>9. /\ IsFiniteSet(queued)' /\ crashes' = crashes /\ crashes \in Nat /\ crashes' >= crashes
      /\ waited \in [Jobs -> Nat] /\ spent \in [Jobs -> Nat] /\ Budget \in Nat
      /\ UNCHANGED <<queued, state, attempts, failed, delivered>>
  BY <1>2, <1>4, BudgetAssumption DEF queue, CountInv, LifeInv, PlaceInv, TypeInv, TypeOK
<1>10. TriesSound(j)'
  <2>1. Slack(j)' >= Slack(j) /\ \A k \in Stages : Raised(j, k)' >= Raised(j, k)
    BY <1>8
  <2> QED
    BY <1>9, <2>1, TriesKeep
<1>11. WaitsSound(j)'
  <2> DEFINE D == Cardinality(Dependent)
             a == Done(j) + Slack(j)
  <2>1. D \in Nat /\ Done(j) \in Nat /\ Done(j)' = Done(j)
    BY <1>9, DependentFinite, CountTypes DEF CountInv, LifeInv, PlaceInv, Done
  <2>2. Allow(a) \in Int /\ Allow(D + crashes) \in Int
    <3>1. a \in Int /\ D + crashes \in Int
      BY <1>8, <1>9, <2>1
    <3> QED
      BY <3>1, AllowGrows
  <2>3. /\ spent[j] <= waited[j] + Allow(D + crashes)
        /\ state[j] >= 0 => spent[j] <= waited[j] + Allow(a) + Charged(j)
    BY DEF CountInv, WaitsSound
  <2>4. /\ run[s].before = waited[j] /\ spent'[j] = spent[j] + run[s].delay
        /\ waited'[j] = waited[j] + run[s].inproc + run[s].delay /\ waited'[j] <= Budget
    BY <1>1, <1>2, <1>3, <1>4, <1>9 DEF CallSound
  <2> HIDE DEF a, D
  <2>5. /\ spent'[j] <= waited'[j] + Allow(D + crashes)
        /\ state[j] >= 0 => spent'[j] <= waited'[j] + Allow(a) + Charged(j)'
    BY <1>2, <1>8, <1>9, <2>2, <2>3, <2>4
  <2> QED
    BY <1>8, <1>9, <2>1, <2>4, <2>5 DEF WaitsSound, a, D
<1>12. \A k \in Jobs \ {j} : spent'[k] = spent[k] /\ waited'[k] = waited[k]
  BY <1>4, <1>9
<1> QED
  BY <1>1, <1>3, <1>4, <1>5, <1>7, <1>9, <1>10, <1>11, <1>12, GoesOn DEF queue

LEMMA RoundCounts ==
  ASSUME RunsApart, CountInv, LifeInv', NEW s \in Slots, ReadRound(s)
  PROVE  CountInv'
<1> DEFINE r == [run[s] EXCEPT !.pc = "enqueue", !.target = deferrals[run[s].job]]
<1>1. Live(s) /\ run[s].pc = "count"
  BY DEF ReadRound, Live
<1>2. run[s] \in Busy /\ run \in [Slots -> Busy \cup {Idle}] /\ CallSound(s)
  BY <1>1, CallFacts
<1>3. run' = [run EXCEPT ![s] = r] /\ UNCHANGED <<row, queue, history>>
  BY <1>2 DEF ReadRound
<1>4. /\ r.pc = "enqueue" /\ r.job = run[s].job /\ r.cur = run[s].cur /\ r.inproc = run[s].inproc
  BY <1>2 DEF Busy
<1> HIDE DEF r
<1>5. run'[s] = r
  BY <1>2, <1>3
<1>6. Charge(s)' = Charge(s)
  BY <1>1, <1>4, <1>5 DEF Charge, Charging
<1>7. CallSound(s)'
  BY <1>2, <1>4, <1>5 DEF CallSound, Charging
<1> QED
  BY <1>1, <1>3, <1>4, <1>6, <1>7, GoesOnQuietly DEF row, queue, history

\* The next stage has its own wait in the slot.
LEMMA AdvanceCounts ==
  ASSUME RunsApart, CountInv, LifeInv', NEW s \in Slots, Transition(s), StageOf(s) # N
  PROVE  CountInv'
<1> DEFINE i == StageOf(s)
           r == [run[s] EXCEPT !.cur = i, !.pc = "begin"]
<1>1. Live(s) /\ run[s].pc = "ok"
  BY DEF Transition, Live
<1>2. /\ run[s] \in Busy /\ run \in [Slots -> Busy \cup {Idle}] /\ CallSound(s) /\ i \in Stages
      /\ run[s].job \in Jobs /\ IsFiniteSet(queued) /\ run[s].inproc \in Nat
  BY <1>1, CallFacts DEF Busy, CountInv
<1>3. PICK j \in Jobs : j = run[s].job
  BY <1>2
<1>4. /\ run' = [run EXCEPT ![s] = r] /\ state' = [state EXCEPT ![j] = i]
      /\ UNCHANGED <<attempts, waited, queue, history>>
  BY <1>2, <1>3 DEF Transition
<1>5. r.pc = "begin" /\ r.job = j /\ r.inproc = run[s].inproc
  BY <1>2, <1>3 DEF Busy
<1> HIDE DEF r
<1>6. run'[s] = r /\ Live(s)'
  BY <1>2, <1>4, <1>5 DEF Live
<1>7. CallSound(s)'
  BY <1>2, <1>5, <1>6 DEF CallSound, Charging
<1>8. /\ Slack(j)' = Slack(j) /\ Slack(j) \in Int
      /\ Charged(j) = run[s].inproc /\ Charged(j)' = 0
      /\ \A k : Raised(j, k) = 0 /\ Raised(j, k)' = 0
  <2>1. run[s].job = j /\ run'[s].job = j /\ queued' = queued /\ crashes' = crashes
    BY <1>3, <1>4, <1>5, <1>6 DEF queue, history
  <2>2. IsFiniteSet(queued)'
    BY <1>2, <2>1
  <2>3. /\ Slack(j)' = Slack(j) /\ Slack(j) \in Int
        /\ Charged(j) = Charge(s) /\ Charged(j)' = Charge(s)'
        /\ \A k : Raised(j, k) = IF run[s].pc = "failed" /\ StageOf(s) = k THEN 1 ELSE 0
        /\ \A k : Raised(j, k)' = IF run'[s].pc = "failed" /\ StageOf(s)' = k THEN 1 ELSE 0
    BY <1>1, <1>6, <2>1, <2>2, CallGoesOn
  <2>4. Charge(s) = run[s].inproc /\ Charge(s)' = 0
    BY <1>1, <1>5, <1>6 DEF Charge, Charging
  <2> QED
    BY <1>1, <1>5, <1>6, <2>3, <2>4
<1>9. /\ IsFiniteSet(queued)' /\ crashes' >= crashes /\ state \in [Jobs -> States]
      /\ UNCHANGED <<queued, crashes, attempts, failed, waited, spent, delivered>>
  BY <1>2, <1>4 DEF queue, history, CountInv, LifeInv, PlaceInv, TypeInv, TypeOK
<1>10. TriesSound(j)'
  <2>1. Slack(j)' >= Slack(j) /\ \A k \in Stages : Raised(j, k)' >= Raised(j, k)
    BY <1>8
  <2> QED
    BY <1>9, <2>1, TriesKeep
<1>11. WaitsSound(j)'
  <2>1. state[j] \in Int /\ state[j] >= 0 /\ state'[j] = state[j] + 1 /\ i = state[j] + 1
    BY <1>1, <1>3, <1>4, <1>9, CallFacts
  <2>2. /\ Done(j) \in Nat /\ Done(j)' \in Nat /\ Done(j)' >= Done(j)
        /\ i \in Dependent => Done(j)' = Done(j) + 1
    BY <2>1, DoneCounts DEF Done
  <2>3. run[s].inproc <= InProcess /\ (run[s].inproc > 0 => i \in Dependent)
    BY <1>1, <1>2 DEF CallSound, Charging
  <2>4. \/ Done(j)' + Slack(j)' >= Done(j) + Slack(j) /\ Charged(j)' >= Charged(j)
        \/ Done(j)' + Slack(j)' >= Done(j) + Slack(j) + 1 /\ Charged(j) <= InProcess
    BY <1>2, <1>8, <2>2, <2>3
  <2> QED
    BY <1>9, <2>1, <2>4, WaitsKeep
<1>12. \A k \in Jobs \ {j} : state'[k] = state[k]
  BY <1>4, <1>9
<1> QED
  BY <1>1, <1>3, <1>4, <1>5, <1>7, <1>9, <1>10, <1>11, <1>12, GoesOn

LEMMA ParkCounts ==
  ASSUME RunsApart, CountInv, LifeInv', NEW s \in Slots, Park(s)
  PROVE  CountInv'
<1> DEFINE r == [run[s] EXCEPT !.pc = "mark"]
<1>1. Live(s) /\ run[s].pc = "park"
  BY DEF Park, Live
<1>2. /\ run[s] \in Busy /\ run \in [Slots -> Busy \cup {Idle}] /\ CallSound(s)
      /\ run[s].job \in Jobs /\ IsFiniteSet(queued) /\ run[s].off \in OffRamps
  BY <1>1, CallFacts DEF Busy, CountInv
<1>3. PICK j \in Jobs : j = run[s].job
  BY <1>2
<1>4. /\ run' = [run EXCEPT ![s] = r] /\ state' = [state EXCEPT ![j] = run[s].off]
      /\ UNCHANGED <<attempts, waited, queue, history>>
  BY <1>3 DEF Park, Goto
<1>5. r.pc = "mark" /\ r.job = j /\ r.inproc = run[s].inproc /\ r.cur = run[s].cur
  BY <1>2, <1>3 DEF Busy
<1> HIDE DEF r
<1>6. run'[s] = r /\ Live(s)' /\ StageOf(s)' = StageOf(s)
  BY <1>2, <1>4, <1>5 DEF Live, StageOf
<1>7. CallSound(s)'
  BY <1>2, <1>5, <1>6 DEF CallSound, Charging
<1>8. /\ Slack(j)' = Slack(j) /\ Slack(j) \in Int
      /\ \A k : Raised(j, k) = 0 /\ Raised(j, k)' = 0
  <2>1. run[s].job = j /\ run'[s].job = j /\ queued' = queued /\ crashes' = crashes
    BY <1>3, <1>4, <1>5, <1>6 DEF queue, history
  <2>2. IsFiniteSet(queued)'
    BY <1>2, <2>1
  <2>3. /\ Slack(j)' = Slack(j) /\ Slack(j) \in Int
        /\ \A k : Raised(j, k) = IF run[s].pc = "failed" /\ StageOf(s) = k THEN 1 ELSE 0
        /\ \A k : Raised(j, k)' = IF run'[s].pc = "failed" /\ StageOf(s)' = k THEN 1 ELSE 0
    BY <1>1, <1>6, <2>1, <2>2, CallGoesOn
  <2> QED
    BY <1>1, <1>5, <1>6, <2>3
<1>9. /\ IsFiniteSet(queued)' /\ crashes' >= crashes /\ state \in [Jobs -> States]
      /\ UNCHANGED <<queued, crashes, attempts, failed, waited, spent, delivered>>
  BY <1>2, <1>4 DEF queue, history, CountInv, LifeInv, PlaceInv, TypeInv, TypeOK
<1>10. TriesSound(j)'
  <2>1. Slack(j)' >= Slack(j) /\ \A k \in Stages : Raised(j, k)' >= Raised(j, k)
    BY <1>8
  <2> QED
    BY <1>9, <2>1, TriesKeep
<1>11. WaitsSound(j)'
  <2>1. ~(state'[j] >= 0)
    BY <1>2, <1>4, <1>9 DEF OffRamps, REJECTED, QUARANTINED, NEEDS_REVIEW, DEGRADED_TAGGED,
       DUPLICATE_SUSPECT
  <2> QED
    BY <1>9, <2>1, WaitsKeep
<1>12. \A k \in Jobs \ {j} : state'[k] = state[k]
  BY <1>4, <1>9
<1> QED
  BY <1>1, <1>3, <1>4, <1>5, <1>7, <1>9, <1>10, <1>11, <1>12, GoesOn

\* The call is over, or cut short: what it had not written is covered by the
\* chance the job has lost, or by the crash.
LEMMA EndCounts ==
  ASSUME RunsApart, CountInv, LifeInv', IsFiniteSet(queued)', NEW s \in Slots, NEW j \in Jobs,
         Live(s), run[s].job = j, NEW r, run' = [run EXCEPT ![s] = r], r.pc \in {"idle", "return"},
         r.pc = "return" => r.job = j,
         crashes' \in {crashes, crashes + 1}, NEW e, e[1] = j, Adds(e),
         UNCHANGED <<attempts, failed, waited, spent, delivered>>,
         \A k \in Jobs \ {j} : state'[k] = state[k],
         state'[j] >= 0 => state[j] >= 0 /\ Done(j)' >= Done(j),
         \/ crashes' = crashes + 1 \/ queued' = queued
         \/ Charge(s) = 0 /\ run[s].pc # "failed"
  PROVE  CountInv'
<1>1. /\ run'[s] = r /\ ~Live(s)' /\ \A t \in Slots \ {s} : run'[t] = run[t]
      /\ crashes \in Nat /\ crashes' >= crashes
  BY DEF Live, CountInv, LifeInv, PlaceInv, TypeInv, TypeOK
<1>2. Alone(s, j)
  BY <1>1 DEF Alone, Adds
<1>3. /\ Charged(j) = Charge(s) /\ Charged(j)' = 0 /\ \A i : Raised(j, i)' = 0
      /\ \A i : Raised(j, i) = IF run[s].pc = "failed" /\ StageOf(s) = i THEN 1 ELSE 0
      /\ Slack(j)' >= Slack(j) + (crashes' - crashes)
      /\ queued' = queued => Slack(j)' >= Slack(j) + 1
      /\ Slack(j) \in Int /\ Slack(j)' \in Int
  BY <1>1, <1>2, CallEnds
<1>4. \/ Slack(j)' >= Slack(j) + 1
      \/ Slack(j)' >= Slack(j) /\ Charge(s) = 0 /\ run[s].pc # "failed"
  BY <1>1, <1>3
<1>5. TriesSound(j)'
  <2>1. \/ Slack(j)' >= Slack(j) + 1
        \/ Slack(j)' >= Slack(j) /\ \A i \in Stages : Raised(j, i)' >= Raised(j, i)
    BY <1>3, <1>4
  <2> QED
    BY <1>1, <2>1, TriesKeep
<1>6. WaitsSound(j)'
  <2>1. Charged(j) \in Nat /\ Charged(j) <= InProcess
    <3>1. run[s].inproc <= InProcess /\ run[s].inproc \in Nat /\ InProcess \in Nat
      BY CallFacts, BudgetAssumption DEF CallSound, Busy
    <3> QED
      BY <1>3, <3>1 DEF Charge
  <2>2. Done(j) \in Nat /\ Done(j)' \in Nat
    BY CountTyped, CountTypedThen DEF CountInv, LifeInv, PlaceInv
  <2>3. ASSUME state'[j] >= 0
        PROVE  /\ state[j] >= 0
               /\ \/ /\ Done(j)' + Slack(j)' >= Done(j) + Slack(j)
                     /\ Charged(j)' >= Charged(j)
                  \/ /\ Done(j)' + Slack(j)' >= Done(j) + Slack(j) + 1
                     /\ Charged(j) <= InProcess
    BY <1>3, <1>4, <2>1, <2>2, <2>3
  <2> QED
    BY <1>1, <2>3, WaitsKeep
<1>7. Untouched(j)'
  BY CallFacts DEF Untouched
<1> QED
  BY <1>1, <1>2, <1>5, <1>6, <1>7, StepKeeps

LEMMA FinishCounts ==
  ASSUME RunsApart, CountInv, LifeInv', NEW s \in Slots,
         \/ Requeue(s) \/ MarkGarment(s) \/ ToDlq(s)
         \/ Transition(s) /\ StageOf(s) = N
  PROVE  CountInv'
<1>1. Live(s)
  BY DEF Requeue, MarkGarment, ToDlq, Transition, Live
<1>2. /\ run[s] \in Busy /\ run \in [Slots -> Busy \cup {Idle}] /\ run[s].job \in Jobs
      /\ IsFiniteSet(queued) /\ state \in [Jobs -> States]
  BY <1>1, CallFacts DEF CountInv, LifeInv, PlaceInv, TypeInv, TypeOK
<1>3. PICK j \in Jobs : j = run[s].job
  BY <1>2
<1>4. CASE Requeue(s) \/ MarkGarment(s) \/ ToDlq(s)
  <2> DEFINE r == [run[s] EXCEPT !.pc = "return"]
  <2>1. /\ run' = [run EXCEPT ![s] = r] /\ UNCHANGED <<state, attempts, waited, delivered, history>>
        /\ queued' \in {queued, queued \cup {<<j, run[s].target>>}}
        /\ queued' = queued \/ run[s].pc = "enqueue"
    BY <1>3, <1>4 DEF Requeue, MarkGarment, ToDlq, Goto, queue, row
  <2>2. r.pc = "return" /\ r.job = j
    BY <1>2, <1>3 DEF Busy
  <2> HIDE DEF r
  <2>3. IsFiniteSet(queued)'
    <3>1. IsFiniteSet(queued \cup {<<j, run[s].target>>})
      BY <1>2, FS_AddElement
    <3> QED
      BY <1>2, <2>1, <3>1
  <2>4. run[s].pc = "enqueue" => Charge(s) = 0 /\ run[s].pc # "failed"
    BY DEF Charge, Charging
  <2>5. state'[j] >= 0 => state[j] >= 0 /\ Done(j)' >= Done(j)
    <3>1. Done(j) \in Nat /\ Done(j)' = Done(j)
      BY <2>1, CountTyped DEF CountInv, LifeInv, PlaceInv, Done
    <3> QED
      BY <2>1, <3>1
  <2> QED
    <3>1. /\ UNCHANGED <<attempts, failed, waited, spent, delivered>> /\ crashes' = crashes
          /\ r.pc \in {"idle", "return"} /\ run[s].job = j
          /\ \A k \in Jobs \ {j} : state'[k] = state[k]
      BY <1>3, <2>1, <2>2 DEF history
    <3>2. queued' = queued \/ (Charge(s) = 0 /\ run[s].pc # "failed")
      BY <2>1, <2>4
    <3>3. PICK e : e = <<j, run[s].target>>
      OBVIOUS
    <3>4. Adds(e) /\ e[1] = j
      BY <2>1, <3>3 DEF Adds
    <3> QED
      BY <1>1, <2>1, <2>2, <2>3, <2>5, <3>1, <3>2, <3>4, EndCounts
<1>5. CASE Transition(s) /\ StageOf(s) = N
  <2> DEFINE r == [run[s] EXCEPT !.cur = N, !.pc = "return"]
  <2>1. /\ run' = [run EXCEPT ![s] = r] /\ state' = [state EXCEPT ![j] = N]
        /\ UNCHANGED <<attempts, waited, queue, history>>
    BY <1>2, <1>3, <1>5 DEF Transition
  <2>2. r.pc = "return" /\ r.job = j
    BY <1>2, <1>3 DEF Busy
  <2> HIDE DEF r
  <2>3. state[j] \in Int /\ state[j] >= 0 /\ N = state[j] + 1 /\ state'[j] = N
    <3>1. run[s].pc = "ok"
      BY <1>5 DEF Transition
    <3>2. state[j] \in 0..(N - 1) /\ N = state[j] + 1
      BY <1>1, <1>3, <1>5, <3>1, CallFacts
    <3> QED
      BY <1>2, <2>1, <3>2
  <2>4. Done(j)' >= Done(j)
    BY <2>3, DoneCounts DEF Done
  <2>5. IsFiniteSet(queued)' /\ queued' = queued /\ crashes' = crashes
        /\ \A k \in Jobs \ {j} : state'[k] = state[k]
    BY <1>2, <2>1 DEF queue, history
  <2>6. UNCHANGED <<attempts, failed, waited, spent, delivered>>
    BY <2>1 DEF queue, history
  <2>7. PICK e : e = <<j, 0>>
    OBVIOUS
  <2>8. Adds(e) /\ e[1] = j
    BY <2>5, <2>7 DEF Adds
  <2> QED
    BY <1>1, <1>3, <2>1, <2>2, <2>3, <2>4, <2>5, <2>6, <2>8, EndCounts
<1> QED
  BY <1>4, <1>5

\* A call cut short, or one whose result arq files.
LEMMA LeaveCounts ==
  ASSUME RunsApart, CountInv, Handed, LifeInv', NEW s \in Slots,
         Crash(s) \/ Abort(s) \/ Return(s)
  PROVE  CountInv'
<1>0. TypeInv /\ TypeInv' /\ IsFiniteSet(queued)
  BY DEF CountInv, LifeInv, PlaceInv
<1>1. /\ run[s].pc # "idle" /\ run' = [run EXCEPT ![s] = Idle]
      /\ UNCHANGED <<row, delivered, failed, spent>>
      /\ \/ crashes' = crashes + 1 /\ queued' = queued \cup {Entry(s)}
         \/ crashes' = crashes /\ queued' = queued
  BY DEF Crash, Abort, Return, Release, history
<1>2. run[s] \in Busy /\ run[s].job \in Jobs /\ run \in [Slots -> Busy \cup {Idle}] /\ crashes \in Nat
  BY <1>0, <1>1, BusySlot DEF TypeInv, TypeOK
<1>3. PICK j \in Jobs : j = run[s].job
  BY <1>2
<1>4. PICK n : n = run[s].round
  OBVIOUS
<1>5. /\ Entry(s) = <<j, n>> /\ IsFiniteSet(queued)'
      /\ UNCHANGED <<attempts, failed, waited, spent, delivered, state>>
  <2>1. Entry(s) = <<j, n>> /\ UNCHANGED <<attempts, failed, waited, spent, delivered, state>>
    BY <1>1, <1>3, <1>4 DEF Entry, row
  <2> QED
    BY <1>0, <1>1, <2>1, FS_AddElement
<1>6. CASE Live(s)
  <2>1. Idle.pc = "idle"
    BY DEF Idle
  <2>2. state'[j] >= 0 => state[j] >= 0 /\ Done(j)' >= Done(j)
    <3>1. Done(j) \in Nat /\ Done(j)' = Done(j)
      BY <1>0, <1>5, CountTyped DEF Done
    <3> QED
      BY <1>5, <3>1
  <2>3. Adds(Entry(s)) /\ Entry(s)[1] = j /\ crashes' \in {crashes, crashes + 1}
    BY <1>1, <1>5 DEF Adds
  <2> QED
    <3>1. PICK r : r = Idle
      OBVIOUS
    <3>2. run' = [run EXCEPT ![s] = r] /\ r.pc \in {"idle", "return"} /\ r.pc # "return"
      BY <1>1, <2>1, <3>1
    <3>3. crashes' = crashes + 1 \/ queued' = queued
      BY <1>1
    <3>4. /\ UNCHANGED <<attempts, failed, waited, spent, delivered>>
          /\ IsFiniteSet(queued)' /\ \A k \in Jobs \ {j} : state'[k] = state[k]
      BY <1>5
    <3> QED
      BY <1>3, <1>6, <2>2, <2>3, <3>2, <3>3, <3>4, EndCounts
<1>7. CASE ~Live(s)
  <2>1. /\ run'[s] = Idle /\ \A t \in Slots \ {s} : run'[t] = run[t]
        /\ crashes' >= crashes /\ ~Live(s)'
    BY <1>1, <1>2 DEF Idle, Live
  <2>2. Alone(s, j)
    BY <1>1, <1>5, <1>7, <2>1 DEF Alone
  <2>3. Calls(j)' = Calls(j) /\ \A t \in Calls(j) : run'[t] = run[t]
    BY <1>7, <2>1 DEF Calls, Live
  <2>4. Charged(j)' = Charged(j) /\ \A i : Raised(j, i)' = Raised(j, i)
    <3>1. \A t \in Calls(j) : Charge(t)' = Charge(t) /\ StageOf(t)' = StageOf(t)
      BY <2>3 DEF Charge, StageOf
    <3>2. \A i : Raised(j, i)' = Raised(j, i)
      BY <2>3, <3>1 DEF Raised
    <3>3. Charged(j)' = Charged(j)
      <4>1. CASE Calls(j) = {}
        BY <2>3, <4>1 DEF Charged
      <4>2. CASE Calls(j) # {}
        <5>1. PICK t \in Calls(j) : t = CHOOSE u \in Calls(j) : TRUE
          BY <4>2
        <5>2. Charged(j)' = Charge(t)' /\ Charged(j) = Charge(t)
          BY <2>3, <4>2, <5>1 DEF Charged
        <5> QED
          BY <3>1, <5>1, <5>2
      <4> QED
        BY <4>1, <4>2
    <3> QED
      BY <3>2, <3>3
  <2>5. /\ Slack(j) \in Int /\ Charged(j) \in Nat /\ \A i : Raised(j, i) \in {0, 1}
        /\ Done(j) \in Nat /\ Done(j)' = Done(j) /\ Cardinality(Entries(j)) \in Nat
        /\ IsFiniteSet(Entries(j))
    BY <1>0, <1>5, CountTypes DEF Done
  <2>6. Slack(j)' \in Int /\ Cardinality(Entries(j)') \in Nat
    BY <1>0, <1>5, CountTypedThen
  <2>7. Slack(j)' >= Slack(j)
    <3>1. CASE queued' = queued /\ crashes' = crashes
      BY <2>3, <2>5, <3>1 DEF Slack, Chances, Entries
    <3>2. CASE queued' = queued \cup {<<j, n>>} /\ crashes' = crashes + 1
      <4>1. Entries(j)' = Entries(j) \cup {<<j, n>>}
        BY <3>2 DEF Entries
      <4>2. \/ Cardinality(Entries(j) \cup {<<j, n>>}) = Cardinality(Entries(j))
            \/ Cardinality(Entries(j) \cup {<<j, n>>}) = Cardinality(Entries(j)) + 1
        BY <2>5, FS_AddElement
      <4>3. Cardinality(Entries(j)') <= Cardinality(Entries(j)) + 1
        BY <2>5, <4>1, <4>2
      <4> QED
        BY <1>2, <2>3, <2>5, <2>6, <3>2, <4>3 DEF Slack, Chances
    <3> QED
      BY <1>1, <1>5, <3>1, <3>2
  <2>8. TriesSound(j)'
    <3>1. \A i \in Stages : Raised(j, i)' >= Raised(j, i)
      BY <2>4, <2>5
    <3> QED
      BY <1>5, <2>1, <2>7, <3>1, TriesKeep
  <2>9. WaitsSound(j)'
    <3>1. Done(j)' + Slack(j)' >= Done(j) + Slack(j) /\ Charged(j)' >= Charged(j)
      BY <2>4, <2>5, <2>6, <2>7
    <3> QED
      BY <1>5, <2>1, <3>1, WaitsKeep
  <2>10. Untouched(j)'
    <3>1. run[s].pc = "return" /\ delivered[j]
      BY <1>1, <1>3, <1>7 DEF Live, Handed
    <3> QED
      BY <1>5, <3>1 DEF Untouched
  <2> QED
    BY <1>5, <2>1, <2>2, <2>8, <2>9, <2>10, StepKeeps
<1> QED
  BY <1>6, <1>7

\* An entry leaves the queue: with Start its chance is the call's.
LEMMA TakenCounts ==
  ASSUME CountInv, NEW j \in Jobs, NEW e, e \in queued, e[1] = j, queued' = queued \ {e}
  PROVE  /\ IsFiniteSet(queued)' /\ Entries(j)' = Entries(j) \ {e} /\ e \in Entries(j)
         /\ Cardinality(Entries(j)') = Cardinality(Entries(j)) - 1
         /\ Cardinality(Entries(j)) \in Nat /\ delivered[j]
         /\ \A f : f[1] # j => (f \in queued' <=> f \in queued)
<1>1. e \in Entries(j) /\ Entries(j)' = Entries(j) \ {e}
  BY DEF Entries
<1>2. IsFiniteSet(Entries(j)) /\ Cardinality(Entries(j)) \in Nat
  BY CountTypes DEF CountInv, LifeInv, PlaceInv
<1>3. Cardinality(Entries(j) \ {e}) = Cardinality(Entries(j)) - 1
  BY <1>1, <1>2, FS_RemoveElement
<1>4. IsFiniteSet(queued \ {e})
  BY FS_Subset DEF CountInv
<1>5. delivered[j]
  BY <1>1 DEF CountInv, Untouched
<1> QED
  BY <1>1, <1>2, <1>3, <1>4, <1>5

LEMMA SkipCounts ==
  ASSUME RunsApart, CountInv, LifeInv', NEW s \in Slots, NEW e \in queued, Skip(s, e[1], e[2])
  PROVE  CountInv'
<1>0. e[1] \in Jobs /\ e = <<e[1], e[2]>>
  BY DEF CountInv, LifeInv, PlaceInv, TypeInv, TypeOK
<1>1. PICK j \in Jobs : j = e[1]
  BY <1>0
<1>2. /\ run[s] = Idle /\ queued' = queued \ {e} /\ run' = run
      /\ UNCHANGED <<state, attempts, waited, delivered, failed, spent, crashes>>
  BY <1>0 DEF Skip, row, history
<1>3. /\ IsFiniteSet(queued)' /\ Cardinality(Entries(j)') = Cardinality(Entries(j)) - 1
      /\ Cardinality(Entries(j)) \in Nat /\ delivered[j]
      /\ \A f : f[1] # j => (f \in queued' <=> f \in queued)
  BY <1>1, <1>2, TakenCounts
<1>4. /\ ~Live(s) /\ ~Live(s)' /\ crashes \in Nat /\ crashes' >= crashes
  BY <1>2 DEF Live, Idle, CountInv, LifeInv, PlaceInv, TypeInv, TypeOK
<1>5. Alone(s, j)
  BY <1>2, <1>3, <1>4 DEF Alone
<1>6. Calls(j)' = Calls(j)
  BY <1>2 DEF Calls, Live
<1>7. Slack(j)' >= Slack(j) + 1
  BY <1>2, <1>3, <1>4, <1>6 DEF Slack, Chances
<1>8. /\ Slack(j) \in Int /\ Slack(j)' \in Int /\ Done(j) \in Nat /\ Done(j)' = Done(j)
      /\ Charged(j) \in Nat /\ Charged(j)' = Charged(j)
  <2>1. /\ Slack(j) \in Int /\ Done(j) \in Nat /\ Done(j)' = Done(j) /\ Charged(j) \in Nat
    BY <1>2, CountTypes DEF CountInv, LifeInv, PlaceInv, Done
  <2>2. Slack(j)' \in Int
    BY <1>3, CountTypedThen DEF LifeInv, PlaceInv
  <2>3. Charged(j)' = Charged(j)
    BY <1>2, <1>6 DEF Charged, Charge
  <2> QED
    BY <2>1, <2>2, <2>3
<1>9. TriesSound(j)'
  BY <1>2, <1>3, <1>4, <1>7, TriesKeep
<1>10. WaitsSound(j)'
  <2>1. Done(j)' + Slack(j)' >= Done(j) + Slack(j) /\ Charged(j)' >= Charged(j)
    BY <1>7, <1>8
  <2> QED
    BY <1>2, <1>3, <1>4, <2>1, WaitsKeep
<1>11. Untouched(j)'
  BY <1>2, <1>3 DEF Untouched
<1> QED
  BY <1>2, <1>3, <1>4, <1>5, <1>9, <1>10, <1>11, StepKeeps

LEMMA StartCounts ==
  ASSUME RunsApart, CountInv, LifeInv', NEW s \in Slots, NEW e \in queued, Start(s, e[1], e[2])
  PROVE  CountInv'
<1>0. TypeInv /\ TypeInv' /\ e[1] \in Jobs /\ IsFiniteSet(queued)
  BY DEF CountInv, LifeInv, PlaceInv, TypeInv, TypeOK
<1>1. PICK j \in Jobs : j = e[1]
  BY <1>0
<1>2. /\ run'[s].pc = "begin" /\ run'[s].job = j /\ \A t \in Slots \ {s} : run'[t] = run[t]
      /\ ~Live(s) /\ queued' = queued \ {e}
  BY <1>0, <1>1, StartFacts
<1>3. /\ UNCHANGED <<state, attempts, waited, delivered, failed, spent, crashes>>
      /\ run'[s].inproc = 0
  BY <1>0 DEF Start, row, history, TypeInv, TypeOK
<1>4. /\ IsFiniteSet(queued)' /\ Cardinality(Entries(j)') = Cardinality(Entries(j)) - 1
      /\ Cardinality(Entries(j)) \in Nat /\ delivered[j]
      /\ \A f : f[1] # j => (f \in queued' <=> f \in queued)
  BY <1>1, <1>2, TakenCounts
<1>5. Live(s)' /\ crashes \in Nat /\ crashes' >= crashes
  BY <1>0, <1>2, <1>3 DEF Live, TypeInv, TypeOK
<1>6. Alone(s, j)
  BY <1>2, <1>3, <1>4, <1>5 DEF Alone
<1>7. Calls(j)' = {s} /\ Charged(j)' = Charge(s)' /\ Chances(j)' = Cardinality(Entries(j)') + 1
      /\ \A i : Raised(j, i)' = IF run'[s].pc = "failed" /\ StageOf(s)' = i THEN 1 ELSE 0
  BY <1>2, <1>5, OneCallThen
<1>8. Calls(j) = {}
  <2>1. \A t \in Slots : Live(t) /\ run[t].job = j => t # s /\ Live(t)' /\ run'[t].job = j
    BY <1>2 DEF Live
  <2>2. \A t \in Slots : Live(t)' /\ run'[t].job = j => t = s
    BY <1>7 DEF Calls
  <2> QED
    BY <2>1, <2>2 DEF Calls
<1>9. Charged(j) = 0 /\ Chances(j) = Cardinality(Entries(j)) /\ \A i : Raised(j, i) = 0
  BY <1>0, <1>8, NoCall
<1>10. Charged(j)' = 0 /\ \A i : Raised(j, i)' = 0
  BY <1>2, <1>3, <1>7 DEF Charge
<1>11. Slack(j)' = Slack(j) /\ Slack(j) \in Int
  BY <1>3, <1>4, <1>5, <1>7, <1>9 DEF Slack
<1>12. Done(j) \in Nat /\ Done(j)' = Done(j)
  BY <1>0, <1>3, CountTypes DEF Done
<1>13. TriesSound(j)'
  <2>1. Slack(j)' >= Slack(j) /\ \A i \in Stages : Raised(j, i)' >= Raised(j, i)
    BY <1>9, <1>10, <1>11
  <2> QED
    BY <1>3, <1>4, <1>5, <2>1, TriesKeep
<1>14. WaitsSound(j)'
  <2>1. Done(j)' + Slack(j)' >= Done(j) + Slack(j) /\ Charged(j)' >= Charged(j)
    BY <1>9, <1>10, <1>11, <1>12
  <2> QED
    BY <1>3, <1>4, <1>5, <2>1, WaitsKeep
<1>15. Untouched(j)'
  BY <1>3, <1>4 DEF Untouched
<1>16. CallSound(s)'
  <2>1. InProcess \in Nat
    BY BudgetAssumption
  <2> QED
    BY <1>2, <1>3, <2>1 DEF CallSound
<1> QED
  BY <1>2, <1>3, <1>4, <1>6, <1>13, <1>14, <1>15, <1>16, StepKeeps

\* Nothing has happened to a job that the relay has not handed over.
LEMMA DeliverCounts ==
  ASSUME RunsApart, CountInv, LifeInv', NEW j \in Jobs, Deliver(j)
  PROVE  CountInv'
<1>1. /\ ~delivered[j] /\ delivered' = [delivered EXCEPT ![j] = TRUE] /\ run' = run
      /\ queued' = queued \cup {<<j, 0>>}
      /\ UNCHANGED <<state, attempts, waited, failed, spent, crashes>>
  BY DEF Deliver, row, history
<1>2. /\ TypeInv /\ TypeInv' /\ IsFiniteSet(queued) /\ crashes \in Nat /\ crashes' >= crashes
      /\ delivered \in [Jobs -> BOOLEAN] /\ attempts \in [Jobs -> [Stages -> Nat]]
      /\ waited \in [Jobs -> Nat]
  BY <1>1 DEF CountInv, LifeInv, PlaceInv, TypeInv, TypeOK
<1>3. IsFiniteSet(queued)'
  BY <1>1, <1>2, FS_AddElement
<1>4. ASSUME NEW s \in Slots, Live(s)' PROVE CallSound(s)'
  <2>1. CallSound(s)
    BY <1>1, <1>4 DEF CountInv, Live
  <2> QED
    BY <1>1, <2>1 DEF CallSound, StageOf
<1>5. ASSUME NEW k \in Jobs, k # j
      PROVE  TriesSound(k)' /\ WaitsSound(k)' /\ Untouched(k)'
  <2>1. \A e : e[1] = k => (e \in queued' <=> e \in queued)
    BY <1>1, <1>5
  <2>2. delivered'[k] = delivered[k]
    BY <1>1, <1>2, <1>5
  <2> QED
    BY <1>1, <1>2, <1>3, <2>1, <2>2, JobAlone
<1>6. /\ Entries(j) = {} /\ Calls(j) = {} /\ spent[j] = 0
      /\ \A i \in Stages : failed[j][i] = 0
  BY <1>1 DEF CountInv, Untouched
<1>7. Entries(j)' = {<<j, 0>>} /\ Calls(j)' = {}
  BY <1>1, <1>6 DEF Entries, Calls, Live
<1>8. Slack(j)' = crashes' /\ Charged(j)' = 0 /\ \A i : Raised(j, i)' = 0
  <2>1. Charged(j)' = 0 /\ Chances(j)' = Cardinality(Entries(j)') /\ \A i : Raised(j, i)' = 0
    BY <1>2, <1>3, <1>7, NoCallThen
  <2>2. Cardinality({<<j, 0>>}) = 1
    BY FS_Singleton
  <2> QED
    BY <1>1, <1>2, <1>7, <2>1, <2>2 DEF Slack
<1>9. TriesSound(j)'
  <2>1. ASSUME NEW i \in Stages
        PROVE  /\ attempts'[j][i] <= Limit(i)
               /\ failed'[j][i] <= attempts'[j][i] + Slack(j)' + Raised(j, i)'
               /\ attempts'[j][i] = Limit(i) => failed'[j][i] <= Limit(i) + crashes'
    <3>1. attempts[j][i] <= Limit(i) /\ Limit(i) \in Nat
      BY BudgetAssumption DEF CountInv, TriesSound, Limit
    <3> QED
      BY <1>1, <1>2, <1>6, <1>8, <3>1
  <2> QED
    BY <1>1, <1>2, <1>8, <2>1 DEF TriesSound, Limit
<1>10. WaitsSound(j)'
  <2>1. Done(j)' \in Nat
    BY <1>2, <1>3, CountTypedThen
  <2>2. /\ Cardinality(Dependent) + crashes' \in Nat /\ Done(j)' + Slack(j)' \in Nat
    BY <1>1, <1>2, <1>8, <2>1, DependentFinite
  <2>3. /\ Allow(Cardinality(Dependent) + crashes') >= 0 /\ Allow(Done(j)' + Slack(j)') >= 0
        /\ Allow(Cardinality(Dependent) + crashes') \in Int /\ Allow(Done(j)' + Slack(j)') \in Int
    BY <2>2, AllowGrows
  <2>4. waited[j] <= Budget
    BY DEF CountInv, WaitsSound
  <2> QED
    BY <1>1, <1>2, <1>6, <1>8, <2>3, <2>4 DEF WaitsSound
<1>11. Untouched(j)'
  BY <1>1, <1>2 DEF Untouched
<1> QED
  BY <1>3, <1>4, <1>5, <1>9, <1>10, <1>11 DEF CountInv

LEMMA RestCounts ==
  ASSUME CountInv, LifeInv', UNCHANGED vars
  PROVE  CountInv'
<1>1. UNCHANGED <<state, attempts, waited, delivered, queued, run, failed, spent, crashes>>
  BY DEF vars, row, queue, history
<1>2. IsFiniteSet(queued)' /\ crashes' >= crashes
  BY <1>1 DEF CountInv, LifeInv, PlaceInv, TypeInv, TypeOK
<1>3. ASSUME NEW s \in Slots, Live(s)' PROVE CallSound(s)'
  <2>1. CallSound(s)
    BY <1>1, <1>3 DEF CountInv, Live
  <2> QED
    BY <1>1, <2>1 DEF CallSound, StageOf
<1>4. \A k \in Jobs : TriesSound(k)' /\ WaitsSound(k)' /\ Untouched(k)'
  BY <1>1, <1>2, JobAlone
<1> QED
  BY <1>2, <1>3, <1>4 DEF CountInv

LEMMA InitCounts == Init => CountInv
<1> SUFFICES ASSUME Init PROVE CountInv
  OBVIOUS
<1>1. LifeInv /\ TypeInv
  BY InitLife DEF LifeInv, PlaceInv
<1>2. IsFiniteSet(queued) /\ queued = {} /\ crashes = 0
  BY FS_EmptySet DEF Init
<1>3. ~\E s \in Slots : Live(s)
  BY DEF Init, Live, Idle
<1>4. ASSUME NEW j \in Jobs PROVE TriesSound(j) /\ WaitsSound(j) /\ Untouched(j)
  <2>1. Entries(j) = {} /\ Calls(j) = {}
    BY <1>2, <1>3 DEF Entries, Calls
  <2>2. Charged(j) = 0 /\ Chances(j) = 0 /\ \A i : Raised(j, i) = 0
    BY <1>1, <1>2, <2>1, NoCall, FS_EmptySet
  <2>3. Slack(j) = 1
    BY <1>2, <2>2 DEF Slack
  <2>4. /\ spent[j] = 0 /\ waited[j] = 0 /\ \A i \in Stages : attempts[j][i] = 0 /\ failed[j][i] = 0
        /\ Budget \in Nat /\ \A i : Limit(i) \in Nat \ {0}
    BY BudgetAssumption DEF Init, Limit
  <2>5. Done(j) \in Nat
    BY <1>1, <1>2, CountTypes
  <2>6. /\ Cardinality(Dependent) + crashes \in Nat /\ Done(j) + Slack(j) \in Nat
    BY <1>2, <2>3, <2>5, DependentFinite
  <2>7. /\ Allow(Cardinality(Dependent) + crashes) >= 0 /\ Allow(Done(j) + Slack(j)) >= 0
        /\ Allow(Cardinality(Dependent) + crashes) \in Int /\ Allow(Done(j) + Slack(j)) \in Int
    BY <2>6, AllowGrows
  <2>8. TriesSound(j)
    BY <1>2, <2>2, <2>3, <2>4 DEF TriesSound
  <2>9. WaitsSound(j)
    BY <2>2, <2>4, <2>7 DEF WaitsSound
  <2> QED
    BY <2>1, <2>4, <2>8, <2>9 DEF Untouched
<1> QED
  BY <1>1, <1>2, <1>3, <1>4 DEF CountInv


LEMMA NextCounts ==
  ASSUME RunsApart, CountInv, Handed, [Next]_vars
  PROVE  CountInv'
<1>1. LifeInv'
  BY NextLife DEF CountInv
<1>2. ASSUME NEW s \in Slots, StageUnavailable(s) PROVE CountInv'
  <2>1. run'[s].pc \in {"dlq", "wait", "stage"}
    <3>1. run[s].pc = "stage" /\ run[s] \in Busy /\ run \in [Slots -> Busy \cup {Idle}]
      BY <1>2, CallFacts DEF StageUnavailable, Live
    <3> QED
      BY <1>2, <3>1, ZenonT(30) DEF StageUnavailable, Goto, Busy
  <2> QED
    BY <1>1, <1>2, <2>1, GiveUpCounts, WaitCounts
<1>3. ASSUME NEW s \in Slots, RunStage(s) PROVE CountInv'
  BY <1>1, <1>2, <1>3, OutcomeCounts, FailCounts DEF RunStage
<1>4. ASSUME NEW s \in Slots, Bookkeep(s) PROVE CountInv'
  BY <1>1, <1>4, BeginCounts, AttemptCounts, RecordCounts, RoundCounts, AdvanceCounts,
     ParkCounts, FinishCounts, LeaveCounts DEF Bookkeep
<1>5. ASSUME NEW s \in Slots, Pick(s) PROVE CountInv'
  BY <1>1, <1>5, SkipCounts, StartCounts DEF Pick
<1> QED
  BY <1>1, <1>3, <1>4, <1>5, DeliverCounts, LeaveCounts, RestCounts DEF Next

LEMMA CountsBound == CountInv => RetriesBounded
<1> SUFFICES ASSUME CountInv, NEW j \in Jobs
             PROVE  /\ \A i \in Stages : failed[j][i] <= Limit(i) + crashes
                    /\ spent[j] <= Budget + InProcess * (Cardinality(Dependent) + crashes)
  BY DEF RetriesBounded
<1>1. /\ Chances(j) \in Nat /\ Slack(j) \in Int /\ crashes \in Nat
      /\ \A i : Raised(j, i) \in {0, 1} /\ Cardinality(Entries(j)) \in Nat
  BY CountTypes DEF CountInv, LifeInv, PlaceInv
<1>2. /\ attempts \in [Jobs -> [Stages -> Nat]] /\ failed \in [Jobs -> [Stages -> Nat]]
      /\ spent \in [Jobs -> Nat] /\ waited \in [Jobs -> Nat]
  BY DEF CountInv, LifeInv, PlaceInv, TypeInv, TypeOK
<1>3. ASSUME NEW i \in Stages PROVE failed[j][i] <= Limit(i) + crashes
  <2>1. Limit(i) \in Nat
    BY BudgetAssumption DEF Limit
  <2>2. /\ attempts[j][i] <= Limit(i)
        /\ failed[j][i] <= attempts[j][i] + Slack(j) + Raised(j, i)
        /\ attempts[j][i] = Limit(i) => failed[j][i] <= Limit(i) + crashes
    BY DEF CountInv, TriesSound
  <2>3. Slack(j) + Raised(j, i) <= 1 + crashes
    <3>1. Raised(j, i) = 1 => Chances(j) >= 1
      BY <1>1 DEF Raised, Chances
    <3> QED
      BY <1>1, <3>1 DEF Slack
  <2>4. /\ attempts[j][i] \in Nat /\ failed[j][i] \in Nat
        /\ Slack(j) \in Int /\ Raised(j, i) \in Int /\ crashes \in Nat
    BY <1>1, <1>2
  <2>5. CASE attempts[j][i] = Limit(i)
    BY <2>2, <2>5
  <2>6. CASE attempts[j][i] # Limit(i)
    <3>1. attempts[j][i] + 1 <= Limit(i)
      BY <2>1, <2>2, <2>4, <2>6
    <3> QED
      BY <2>1, <2>2, <2>3, <2>4, <3>1
  <2> QED
    BY <2>5, <2>6
<1>4. spent[j] <= Budget + InProcess * (Cardinality(Dependent) + crashes)
  <2>1. waited[j] <= Budget /\ spent[j] <= waited[j] + Allow(Cardinality(Dependent) + crashes)
    BY DEF CountInv, WaitsSound
  <2>2. Allow(Cardinality(Dependent) + crashes) \in Int
    BY <1>1, DependentFinite, AllowGrows
  <2>3. Budget \in Nat
    BY BudgetAssumption
  <2>4. spent[j] <= Budget + Allow(Cardinality(Dependent) + crashes)
    BY <1>2, <2>1, <2>2, <2>3
  <2> QED
    BY <2>4 DEF Allow
<1> QED
  BY <1>3, <1>4

(* A restart gives no fresh budget: over all the calls a job has had, a stage  *)
(* raises at most its limit of errors and one more for each crash, and the job *)
(* waits for its dependencies at most the budget in its row and, in the slots, *)
(* what the dependent stages and the crashed calls account for.  With two      *)
(* calls of one job at once each could spend what the row had left: that is    *)
(* why RunsApart is needed.                                                    *)
THEOREM RetriesStayBounded == RunsApart => (Spec => []RetriesBounded)
<1> SUFFICES ASSUME RunsApart PROVE Spec => []RetriesBounded
  OBVIOUS
<1>1. CountInv /\ Handed /\ [Next]_vars => CountInv' /\ Handed'
  BY NextCounts, NextHanded DEF CountInv, LifeInv, PlaceInv
<1> QED
  BY <1>1, InitCounts, InitHanded, CountsBound, PTL DEF Spec

================================================================================
