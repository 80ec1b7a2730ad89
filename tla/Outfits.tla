-------------------------------- MODULE Outfits ---------------------------------
(***************************************************************************)
(* The materialised outfits of one tenant, for one occasion and warmth:    *)
(* the nightly precompute and the recompute after a reaction               *)
(* (stylist_worker/precompute.py), the reader that falls back to a live    *)
(* generation and stores it (stylist_api/routers/suggestions.py), and the  *)
(* generation itself (stylist_suggest/pipeline.py).                        *)
(*                                                                         *)
(* Writers are concurrent Postgres transactions under READ COMMITTED.  An  *)
(* upsert waits for a row another open transaction has written; writers    *)
(* that wait for each other in a circle are a deadlock, which Postgres     *)
(* resolves by aborting one of them.                                       *)
(***************************************************************************)
EXTENDS Integers, FiniteSets, Sequences, SequencesExt

CONSTANTS Garments,
          Away, Apart, Basket,   \* garments that may be archived, hidden or
                                 \* resting, to begin with
          Sets,            \* outfits the slot rules allow: sets of garments
          Hash,            \* garment_set_hash, by which ties are broken
          Score,           \* score of an outfit under each style vector
          Coarse,          \* steps of Score that NUMERIC(8,6) rounds together
          Penalty,         \* diversity.overlap_penalty
          Keep,            \* OUTFITS_PER_OCCASION
          Limits,          \* values of ?limit
          Overfetch,       \* STORED_OVERFETCH
          Replicas,        \* workers that run the nightly cron
          Jobs,            \* workers' slots for invalidate_precompute
          Requests,        \* GET /suggestions in flight
          None,
          MaxReactions, MaxChanges, MaxFaults  \* bounds

ASSUME SetsAssumption == Sets \subseteq SUBSET Garments
ASSUME GarmentsAssumption == IsFiniteSet(Garments)
ASSUME HashAssumption == Hash \in [Sets -> Nat] /\ IsInjective(Hash)
ASSUME ScoreAssumption == Score \in [0..MaxReactions -> [Sets -> Nat]]
ASSUME BoundsAssumption == /\ {Keep, Overfetch, MaxReactions} \subseteq Nat
                           /\ {MaxChanges, MaxFaults} \subseteq Nat
                           /\ Coarse \in Nat \ {0} /\ Limits \subseteq Nat \ {0}
ASSUME NoneAssumption == None \notin Nat \cup Replicas
ASSUME WritersAssumption ==
  /\ Requests \cap (Replicas \cup Jobs) = {} /\ Replicas \cap Jobs = {}

VARIABLES active,          \* garments.is_active
          hidden,          \* state rejected, quarantined or duplicate_suspect
          resting,         \* in the wash, worn lately, or under a `never`
          stored,          \* outfits: the style vector each row was scored with
          style,           \* events applied to user_style_vector
          queue,           \* feedback.recorded events not yet handled
          lock,            \* the replica whose run holds the advisory lock
          leaked,          \* the replica whose pool holds it with no run
          tx,              \* the writer's transaction
          asked,           \* the request's progress
          owed,            \* hashes handed out that have to resolve
          gone,            \* outfits a garment of which was ever unusable
          changes, faults

wardrobe == <<active, hidden, resting>>
ghosts == <<owed, gone>>
bounds == <<changes, faults>>
vars == <<wardrobe, stored, style, queue, lock, leaked, tx, asked, ghosts, bounds>>

Writers == Replicas \cup Jobs \cup Requests
Usable == active \ hidden
Wearable == Usable \ resting

Idle == [at |-> "idle", seen |-> 0, todo |-> <<>>, wrote |-> {}, dropped |-> {}]
Asleep == [at |-> "idle", limit |-> 1, rows |-> <<>>, from |-> "none",
           kept |-> {}, bad |-> {}, lost |-> {}, calm |-> TRUE]

Init ==
  /\ \/ active = Garments /\ hidden = {} /\ resting = {}
     \/ active = Garments /\ hidden = Apart /\ resting = Basket
     \/ active = Garments \ Away /\ hidden = {} /\ resting = {}
  /\ stored = [o \in Sets |-> None]
  /\ style = 0 /\ queue = {}
  /\ lock = None /\ leaked = None
  /\ tx = [w \in Writers |-> Idle]
  /\ asked = [q \in Requests |-> Asleep]
  /\ owed = {} /\ gone = {o \in Sets : ~(o \subseteq Usable)}
  /\ changes = 0 /\ faults = 0
--------------------------------------------------------------------------------
(* Generation. *)

Before(p, o, value) == value[p] > value[o] \/ (value[p] = value[o] /\ Hash[p] < Hash[o])

AtMost(n, S) == IF n < Cardinality(S) THEN n ELSE Cardinality(S)

\* What may be a listing of n members of S, and its i-th is the best that is left.
Listings(n, S) == {rows \in [1..AtMost(n, S) -> S] : IsInjective(rows)}
Leads(rows, i, S, value) == \A o \in S \ {rows[k] : k \in 1..i} : Before(rows[i], o, value)

\* ORDER BY value DESC, hash LIMIT n: there is one such listing.
Top(n, S, value) == {rows \in Listings(n, S) : \A i \in DOMAIN rows : Leads(rows, i, S, value)}

Members(s) == {s[i] : i \in DOMAIN s}

\* The largest share of an outfit that is in one of those chosen; 12 makes the
\* share of up to four garments whole.
Overlap(o, seen) ==
  LET shares == {(12 * Cardinality(o \cap seen[i])) \div Cardinality(o) : i \in DOMAIN seen}
  IN  IF shares = {} THEN 0 ELSE CHOOSE s \in shares : \A t \in shares : t <= s

\* The n best, each chosen after the overlap with those before it is charged.
Diversify(S, value, n) ==
  LET charged(chosen) == [o \in S |-> 12 * value[o] - Penalty * Overlap(o, chosen)]
  IN  {rows \in Listings(n, S) :
         \A i \in DOMAIN rows : Leads(rows, i, S, charged(SubSeq(rows, 1, i - 1)))}

Candidates(pool) == {o \in Sets : o # {} /\ o \subseteq pool}

Suggest(version, pool, n) == Diversify(Candidates(pool), Score[version], n)

\* The order of the readers: the score as the column rounds it, then the hash.
Column(rows) == [o \in Sets |-> IF rows[o] = None THEN 0 ELSE Score[rows[o]][o] \div Coarse]

TopStored(rows, n) == Top(n, {o \in Sets : rows[o] # None}, Column(rows))
--------------------------------------------------------------------------------
(* Transactions that write outfits. *)

Touched(w) == tx[w].wrote \cup tx[w].dropped
Locked(w) == UNION {Touched(v) : v \in Writers \ {w}}

\* The rows as the writer sees them: what is committed, under what it wrote.
Seen(w) ==
  [o \in Sets |-> IF o \in tx[w].wrote THEN tx[w].seen
                  ELSE IF o \in tx[w].dropped THEN None ELSE stored[o]]

Open(w, at) == tx' = [tx EXCEPT ![w] = [Idle EXCEPT !.at = at]]

PruneAll(w) ==
  /\ tx[w].at = "begun"
  /\ LET stale == {o \in Sets : stored[o] # None}
     IN  stale \cap Locked(w) = {} /\ tx' = [tx EXCEPT ![w].dropped = stale, ![w].at = "pruned"]
  /\ UNCHANGED <<wardrobe, stored, style, queue, lock, leaked, asked, ghosts, bounds>>

PruneNothing(w) ==
  /\ tx[w].at = "begun"
  /\ tx' = [tx EXCEPT ![w].at = "pruned"]
  /\ UNCHANGED <<wardrobe, stored, style, queue, lock, leaked, asked, ghosts, bounds>>

Prune(w) ==
  /\ tx[w].at = "begun"
  /\ LET stale == {o \in Sets : stored[o] # None /\ ~(o \subseteq Usable)}
     IN  stale \cap Locked(w) = {} /\ tx' = [tx EXCEPT ![w].dropped = stale, ![w].at = "pruned"]
  /\ UNCHANGED <<wardrobe, stored, style, queue, lock, leaked, asked, ghosts, bounds>>

\* load_style_vector, load_wardrobe and suggest
Generate(w) ==
  /\ tx[w].at = "pruned"
  /\ \E rows \in Suggest(style, Wearable, Keep) :
       tx' = [tx EXCEPT ![w].seen = style, ![w].todo = rows, ![w].at = "storing"]
  /\ UNCHANGED <<wardrobe, stored, style, queue, lock, leaked, asked, ghosts, bounds>>

\* INSERT ... ON CONFLICT (user_id, garment_set_hash, occasion, warmth_target)
Upsert(w) ==
  /\ tx[w].at = "storing" /\ tx[w].todo # <<>>
  /\ Head(tx[w].todo) \notin Locked(w)
  /\ tx' = [tx EXCEPT ![w].wrote = @ \cup {Head(tx[w].todo)}, ![w].todo = Tail(@)]
  /\ UNCHANGED <<wardrobe, stored, style, queue, lock, leaked, asked, ghosts, bounds>>

Blocks(v, w) == tx[w].todo # <<>> /\ Head(tx[w].todo) \in Touched(v)

Circular(w) ==
  \E v \in Writers \ {w} :
    \/ Blocks(v, w) /\ Blocks(w, v)
    \/ \E u \in Writers \ {v, w} : Blocks(v, w) /\ Blocks(u, v) /\ Blocks(w, u)

Stored(w) == tx[w].at = "storing" /\ tx[w].todo = <<>>

\* The victim of a circle, or of any other error, a circle with a deletion
\* of the user's own among them.
Fails(w) ==
  /\ tx[w] # Idle
  /\ \/ Circular(w) /\ faults' = faults
     \/ faults < MaxFaults /\ faults' = faults + 1

Committed(w) == stored' = Seen(w) /\ tx' = [tx EXCEPT ![w] = Idle]
RolledBack(w) == stored' = stored /\ tx' = [tx EXCEPT ![w] = Idle]
--------------------------------------------------------------------------------
(* nightly_precompute *)

ReleaseLock(r) == lock' = IF lock = r THEN None ELSE lock

\* A lock the pool of the same replica has kept is taken again if the run
\* happens to draw the same connection; else the run is skipped.
AcquireLock(r) ==
  /\ tx[r] = Idle /\ lock = None /\ leaked \in {None, r}
  /\ lock' = r /\ Open(r, "begun")
  /\ UNCHANGED <<wardrobe, stored, style, queue, leaked, asked, ghosts, bounds>>

\* The unlock is a statement of the transaction the failed one has aborted.
ListTenantsFails(r) ==
  /\ tx[r].at = "begun" /\ faults < MaxFaults
  /\ faults' = faults + 1
  /\ leaked' = r /\ ReleaseLock(r) /\ RolledBack(r)
  /\ UNCHANGED <<wardrobe, style, queue, asked, ghosts, changes>>

NightCommit(r) ==
  /\ Stored(r) /\ Committed(r) /\ ReleaseLock(r)
  /\ UNCHANGED <<wardrobe, style, queue, leaked, asked, ghosts, bounds>>

\* A tenant's failure is counted and the run goes on; the job's timeout ends
\* it.  Either way this tenant's transaction is rolled back and the lock freed.
NightFails(r) ==
  /\ Fails(r) /\ RolledBack(r) /\ ReleaseLock(r)
  /\ UNCHANGED <<wardrobe, style, queue, leaked, asked, ghosts, changes>>

\* Connections of a process that ends are closed, and their locks with them.
RestartWorker(r) ==
  /\ faults < MaxFaults /\ faults' = faults + 1
  /\ RolledBack(r) /\ ReleaseLock(r)
  /\ leaked' = IF leaked = r THEN None ELSE leaked
  /\ UNCHANGED <<wardrobe, style, queue, asked, ghosts, changes>>
--------------------------------------------------------------------------------
(* A reaction moves the style vector; its event recomputes the outfits. *)

React ==
  /\ style < MaxReactions
  /\ style' = style + 1 /\ queue' = queue \cup {style + 1}
  /\ UNCHANGED <<wardrobe, stored, lock, leaked, tx, asked, ghosts, bounds>>

Invalidate(j) ==
  /\ tx[j] = Idle
  /\ \E event \in queue : queue' = queue \ {event}
  /\ Open(j, "begun")
  /\ UNCHANGED <<wardrobe, stored, style, lock, leaked, asked, ghosts, bounds>>

InvalidateCommit(j) ==
  /\ Stored(j) /\ Committed(j)
  /\ UNCHANGED <<wardrobe, style, queue, lock, leaked, asked, ghosts, bounds>>

\* An exception ends the job for good: only a Retry is tried again.
InvalidateFails(j) ==
  /\ Fails(j) /\ RolledBack(j)
  /\ UNCHANGED <<wardrobe, style, queue, lock, leaked, asked, ghosts, changes>>
--------------------------------------------------------------------------------
(* GET /suggestions *)

Served(o) == o \subseteq active \ resting

Reply(q, outfits) ==
  /\ asked' = [asked EXCEPT ![q].at = "answered", ![q].kept = outfits]
  /\ owed' = owed \cup {o \in outfits \ (gone \cup asked[q].lost) : asked[q].from # "unstored"}

\* The stored rows are read, or there are none, or ?force_live.
GetSuggestions(q) ==
  /\ asked[q].at = "idle"
  /\ \E n \in Limits, live \in BOOLEAN :
       \E rows \in IF live THEN {<<>>} ELSE TopStored(stored, Overfetch * n) :
         asked' = [asked EXCEPT ![q] =
           [at |-> IF rows = <<>> THEN "generate" ELSE "hydrate", limit |-> n, rows |-> rows,
            from |-> IF rows = <<>> THEN "live" ELSE "materialised",
            kept |-> {}, bad |-> Garments \ (active \ resting), lost |-> {}, calm |-> TRUE]]
  /\ UNCHANGED <<wardrobe, stored, style, queue, lock, leaked, tx, ghosts, bounds>>

\* The first of some places of the rows, up to the limit.
Shown(q, places) ==
  {first \in SUBSET places :
     /\ Cardinality(first) = AtMost(asked[q].limit, places)
     /\ \A i \in first, j \in places \ first : i < j}

ReplyWith(q, places) ==
  \E first \in Shown(q, places) : Reply(q, {asked[q].rows[i] : i \in first})

Refill(q) ==
  asked' = [asked EXCEPT ![q].at = "generate", ![q].from = "refilled"] /\ owed' = owed

Kept(q) == {i \in DOMAIN asked[q].rows : Served(asked[q].rows[i])}

HydrateAnything(q) ==
  /\ asked[q].at = "hydrate"
  /\ ReplyWith(q, DOMAIN asked[q].rows)
  /\ UNCHANGED <<wardrobe, stored, style, queue, lock, leaked, tx, gone, bounds>>

HydrateShort(q) ==
  /\ asked[q].at = "hydrate"
  /\ IF Kept(q) = {} THEN Refill(q) ELSE ReplyWith(q, Kept(q))
  /\ UNCHANGED <<wardrobe, stored, style, queue, lock, leaked, tx, gone, bounds>>

\* Rows with a garment that cannot be worn today are dropped; if that leaves
\* too few the outfits are generated after all.
TooFew(q) ==
  \/ Kept(q) = {}
  \/ Cardinality(Kept(q)) < asked[q].limit /\ Kept(q) # DOMAIN asked[q].rows

Hydrate(q) ==
  /\ asked[q].at = "hydrate"
  /\ IF TooFew(q) THEN Refill(q) ELSE ReplyWith(q, Kept(q))
  /\ UNCHANGED <<wardrobe, stored, style, queue, lock, leaked, tx, gone, bounds>>

\* load_wardrobe, load_style_vector and suggest; the result is persisted in a
\* transaction of its own.
GenerateLive(q) ==
  /\ asked[q].at = "generate"
  /\ \E rows \in Suggest(style, Wearable, asked[q].limit) :
       IF rows = <<>>
       THEN Reply(q, {}) /\ tx' = tx
       ELSE /\ asked' = [asked EXCEPT ![q].at = "persist", ![q].rows = rows]
            /\ owed' = owed
            /\ tx' = [tx EXCEPT ![q] = [Idle EXCEPT !.at = "storing", !.seen = style, !.todo = rows]]
  /\ UNCHANGED <<wardrobe, stored, style, queue, lock, leaked, gone, bounds>>

PersistLiveOutfits(q) ==
  /\ asked[q].at = "persist" /\ Stored(q)
  /\ Committed(q)
  /\ asked' = [asked EXCEPT ![q].at = "rehydrate", ![q].lost = {}]
  /\ UNCHANGED <<wardrobe, style, queue, lock, leaked, ghosts, bounds>>

\* Logged and swallowed: the request goes on with outfits that are not stored.
PersistFails(q) ==
  /\ asked[q].at = "persist" /\ Fails(q)
  /\ RolledBack(q)
  /\ asked' = [asked EXCEPT ![q].at = "rehydrate", ![q].from = "unstored"]
  /\ UNCHANGED <<wardrobe, style, queue, lock, leaked, ghosts, changes>>

RehydrateLive(q) ==
  /\ asked[q].at = "rehydrate"
  /\ Reply(q, {o \in Members(asked[q].rows) : Served(o)})
  /\ UNCHANGED <<wardrobe, stored, style, queue, lock, leaked, tx, gone, bounds>>

Deliver(q) ==
  /\ asked[q].at = "answered"
  /\ asked' = [asked EXCEPT ![q] = Asleep]
  /\ UNCHANGED <<wardrobe, stored, style, queue, lock, leaked, tx, ghosts, bounds>>
--------------------------------------------------------------------------------
(* What the rest of the system does to the garments meanwhile: removal,     *)
(* correction and merge, an off-ramp or a duplicate question and its answer, *)
(* a purchase returned or brought back, the laundry basket, the wear log     *)
(* and preference facts.                                                     *)

\* A change, and the outfits deleted in the transaction that made it: of the
\* rows that are committed, once no writer holds them.
Change(a, h, r, deleted) ==
  /\ changes' = changes + 1
  /\ active' = a /\ hidden' = h /\ resting' = r
  /\ \A w \in Writers : deleted \cap Touched(w) = {}
  /\ stored' = [o \in Sets |-> IF o \in deleted THEN None ELSE stored[o]]
  /\ gone' = gone \cup {o \in Sets : ~(o \subseteq a \ h)}
  /\ owed' = owed \ (gone' \cup deleted)
  /\ asked' = [q \in Requests |-> [asked[q] EXCEPT
       !.bad = @ \ (a \ r), !.lost = @ \cup deleted, !.calm = asked[q].at = "idle"]]
  /\ UNCHANGED <<style, queue, lock, leaked, tx, faults>>

\* WHERE :gid = ANY(garment_ids)
RowsNaming(g) == {o \in Sets : g \in o /\ stored[o] # None}

RemoveGarment(g) == g \in active /\ Change(active \ {g}, hidden, resting, RowsNaming(g))

\* What the outfit rules and the scorer make of the corrected tags is left as it was.
CorrectField(g) == g \in active /\ Change(active, hidden, resting, RowsNaming(g))

ChangeGarment(g) ==
  /\ changes < MaxChanges
  /\ \/ RemoveGarment(g) \/ CorrectField(g)
     \/ g \in active /\ Change(active \ {g}, hidden \cup {g}, resting, {})
     \/ g \in active /\ Change(active \ {g}, hidden, resting, {})
     \/ g \notin active /\ Change(active \cup {g}, hidden, resting, {})
     \/ g \notin hidden /\ Change(active, hidden \cup {g}, resting, {})
     \/ g \in hidden /\ Change(active, hidden \ {g}, resting, {})
     \/ g \notin resting /\ Change(active, hidden, resting \cup {g}, {})
     \/ g \in resting /\ Change(active, hidden, resting \ {g}, {})
--------------------------------------------------------------------------------
Writing(w) == Prune(w) \/ Generate(w) \/ Upsert(w)

Night(r) == AcquireLock(r) \/ Writing(r) \/ NightCommit(r)

Invalidation(j) == Invalidate(j) \/ Writing(j) \/ InvalidateCommit(j) \/ InvalidateFails(j)

Request(q) ==
  \/ Hydrate(q) \/ GenerateLive(q) \/ Upsert(q) \/ PersistLiveOutfits(q) \/ PersistFails(q)
  \/ RehydrateLive(q) \/ Deliver(q)

Next ==
  \/ \E r \in Replicas : Night(r) \/ ListTenantsFails(r) \/ NightFails(r) \/ RestartWorker(r)
  \/ React
  \/ \E j \in Jobs : Invalidation(j)
  \/ \E q \in Requests : GetSuggestions(q) \/ Request(q)
  \/ \E g \in Garments : ChangeGarment(g)

Spec == Init /\ [][Next]_vars

\* The cron fires every night, a tenant's turn comes, Postgres breaks circles,
\* and a request that began is finished.  Nobody has to ask, react or restart.
Fairness ==
  /\ WF_vars(\E r \in Replicas : leaked = None /\ AcquireLock(r))
  /\ \A r \in Replicas :
       /\ WF_vars(Writing(r) \/ NightCommit(r)) /\ SF_vars(Writing(r))
       /\ WF_vars(Circular(r) /\ NightFails(r))
  /\ \A j \in Jobs : WF_vars(Invalidation(j)) /\ SF_vars(Writing(j))
  /\ \A q \in Requests : WF_vars(Request(q)) /\ SF_vars(Upsert(q))

FairSpec == Spec /\ Fairness
--------------------------------------------------------------------------------
TypeOK ==
  /\ active \subseteq Garments /\ hidden \subseteq Garments /\ resting \subseteq Garments
  /\ stored \in [Sets -> 0..style \cup {None}]
  /\ style \in 0..MaxReactions /\ queue \subseteq 1..style
  /\ lock \in Replicas \cup {None} /\ leaked \in Replicas \cup {None}
  /\ owed \subseteq Sets /\ gone \subseteq Sets
  /\ DOMAIN tx = Writers /\ \A w \in Writers : Touched(w) \subseteq Sets /\ tx[w].seen \in 0..style
  /\ DOMAIN asked = Requests /\ \A q \in Requests : asked[q].kept \subseteq Sets

(* "A hash the API hands out must be a hash the API can look up"           *)
(* (_persist_live_outfits): whatever prunes, recomputes and requests run   *)
(* at once, an outfit that was answered keeps its row, unless a garment of *)
(* it became unusable since, the user removed or corrected one after the   *)
(* row was read or stored (their transactions delete it), or its persist   *)
(* failed.                                                                 *)
HashesResolve == \A o \in owed : stored[o] # None

(* No answer holds a garment that was removed, in the wash or ruled out    *)
(* all the while the request ran, though the rows it was built from may be *)
(* a night old (_hydrate).                                                 *)
NeverServedUnwearable ==
  \A q \in Requests : asked[q].at = "answered" => \A o \in asked[q].kept : o \cap asked[q].bad = {}

(* If no garment changed while the request ran, the answer is as long as   *)
(* was asked, or holds every outfit the wardrobe allows, or serves all of  *)
(* the rows there were: an empty screen is for an empty wardrobe.          *)
AnswersWhatItCan ==
  \A q \in Requests :
    asked[q].at = "answered" /\ asked[q].calm =>
      LET shown == Cardinality(asked[q].kept)
      IN  \/ shown >= asked[q].limit
          \/ shown >= Cardinality(Candidates(Wearable))
          \/ asked[q].from = "materialised" /\ shown > 0 /\ shown >= Len(asked[q].rows)

(* In the end every outfit with a removed garment is off the table for     *)
(* good, though requests and recomputes that read the wardrobe earlier may *)
(* store it again, and the rows the scorer now chooses carry the scores of *)
(* the last reaction, whichever recompute came last: unless a run's failed *)
(* lookup of the tenants left the lock with the connection pool, after     *)
(* which no night need ever run.                                           *)
OutfitsSettle ==
  \/ /\ <>[](\A o \in Sets : stored[o] # None => o \subseteq active)
     /\ <>[](\A rows \in Suggest(style, Wearable, Keep) :
           \A o \in Members(rows) : stored[o] = style)
  \/ <>[](leaked # None)

================================================================================
