------------------------------ MODULE MCSettling ------------------------------
(* Three small instances beside each other, for what must come to rest in    *)
(* the end: the jobs of the ingest, the rows of the outbox and the outfits   *)
(* of one tenant.  Behaviours of a part leave the other two alone.           *)
EXTENDS IngestPipeline, OutboxRelay, TLC

CONSTANTS tee, shirt, jeans, Replicas, Requests, None

VARIABLES part,
          active, hidden, resting, stored, style, reactions, lock, leaked, tx,
          asked, owed, gone, changes, faults

\* Three stages: one that rejects, one that waits and fails and whose second
\* off-ramp is not terminal, one that is not retryable.
SmallTerminates == <<{REJECTED}, {NEEDS_REVIEW, DEGRADED_TAGGED}, {}>>

ThreeRows == 1..3
TwoHandled == {1, 3}   \* row 2 is a garment.merged or another unrouted type

MCGarments == {tee, shirt, jeans}
Casual == {tee, jeans}
Smart == {shirt, jeans}
Layered == {tee, shirt, jeans}

\* The user comes to like what the scorer put second; at first the two differ
\* by less than the column keeps.
Settling == INSTANCE Outfits WITH
  Garments <- MCGarments, Away <- {}, Apart <- {}, Basket <- {},
  Sets <- {Casual, Smart, Layered},
  Hash <- Casual :> 3 @@ Smart :> 2 @@ Layered :> 1,
  Score <- 0 :> (Layered :> 47 @@ Smart :> 42 @@ Casual :> 20)
        @@ 1 :> (Layered :> 15 @@ Smart :> 35 @@ Casual :> 12),
  Coarse <- 10, Penalty <- 1, Keep <- 2, Limits <- {2}, Overfetch <- 2,
  Jobs <- {}, MaxReactions <- 1, MaxChanges <- 1, MaxFaults <- 1,
  queue <- reactions

outfitVars == <<active, hidden, resting, stored, style, reactions, lock, leaked, tx,
                asked, owed, gone, changes, faults>>
all == <<part, vars, relayVars, outfitVars>>

MCInit == part \in {"job", "relay", "outfits"} /\ Init /\ RelayInit /\ Settling!Init

MCNext ==
  /\ part' = part
  /\ \/ part = "job" /\ Next /\ UNCHANGED <<relayVars, outfitVars>>
     \/ part = "relay" /\ RelayNext /\ UNCHANGED <<vars, outfitVars>>
     \/ part = "outfits" /\ Settling!Next /\ UNCHANGED <<vars, relayVars>>

\* The Fairness of each module, where its part is the one that moves.
MCFairness ==
  /\ \A j \in Jobs : WF_vars(part = "job" /\ Deliver(j))
  /\ \A s \in Slots :
       /\ WF_vars(part = "job" /\ Pick(s)) /\ WF_vars(part = "job" /\ RunStage(s))
       /\ WF_vars(part = "job" /\ Bookkeep(s))
  /\ \A r \in Relays : WF_relayVars(part = "relay" /\ Tick(r))
  /\ \A e \in Events : WF_relayVars(part = "relay" /\ Execute(e))
  /\ WF_outfitVars(part = "outfits" /\ \E r \in Replicas : leaked = None /\ Settling!AcquireLock(r))
  /\ \A r \in Replicas :
       /\ WF_outfitVars(part = "outfits" /\ (Settling!Writing(r) \/ Settling!NightCommit(r)))
       /\ SF_outfitVars(part = "outfits" /\ Settling!Writing(r))
       /\ WF_outfitVars(part = "outfits" /\ Settling!Circular(r) /\ Settling!NightFails(r))
  /\ \A q \in Requests :
       /\ WF_outfitVars(part = "outfits" /\ Settling!Request(q))
       /\ SF_outfitVars(part = "outfits" /\ Settling!Upsert(q))

MCSpec == MCInit /\ [][MCNext]_all /\ MCFairness

(* EventuallySettled of IngestPipeline.                                      *)
JobsSettle == <>[](part # "job") \/ EventuallySettled

(* OutfitsSettle of Outfits.                                                 *)
OutfitsSettle == <>[](part # "outfits") \/ Settling!OutfitsSettle

================================================================================
