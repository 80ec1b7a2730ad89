---------------------------------- MODULE Ranking -------------------------------
(* How outfits are ordered and captioned: the reranker with its cache of captions
   (stylist_suggest/rerank.py), called by GET /suggestions, which takes any hit,
   and by the nightly job (_warm_rationales in stylist_worker/precompute.py),
   which fills the gaps; then the bandit (stylist_domain/bandit.py). *)
EXTENDS OutfitRules

CONSTANTS
  Scored,        \* stored outfits, in the scorer's order
  OccasionCode,  \* dress_code_target
  TopN,          \* RERANK_TOP_N, RATIONALES_PER_OCCASION
  Answers,       \* what the model may answer
  Night, Asks,   \* the nightly job, and requests
  Template,      \* TEMPLATE_RATIONALE
  MaxRemovals, MaxCacheFaults  \* bounds

\* No outfit is stored twice; an answer of the schema is a list of entries.
ASSUME RankingAssumption ==
  /\ Scored \in Seq(SUBSET Pieces) /\ TopN \in Nat /\ Night \notin Asks
  /\ \A i, j \in DOMAIN Scored : Scored[i] = Scored[j] => i = j
  /\ \A i \in DOMAIN Scored : IsFiniteSet(Scored[i])
  /\ Answers \subseteq {Malformed} \cup Seq([ids : Seq(Pieces), text : STRING, sure : Int])

VARIABLES
  owned,         \* active garments
  captions,      \* the cache: outfit -> the text the model gave it, or Template
  ranking,       \* [at, rows, there, order, shown, said, todo, repeated] per caller
  cacheFaults

rankingVars == <<owned, captions, ranking, cacheFaults>>

Callers == {Night} \cup Asks

Resting == [at |-> "idle", rows |-> <<>>, there |-> {}, order |-> <<>>, shown |-> <<>>,
            said |-> <<>>, todo |-> <<>>, repeated |-> {}]

Tuple(outfit) == SetToSeq(outfit)
Shortest(a, b) == IF a < b THEN a ELSE b
TopOf(rows) == SubSeq(rows, 1, Shortest(TopN, Len(rows)))
RestOf(rows) == SubSeq(rows, Len(TopOf(rows)) + 1, Len(rows))
Text(of, kind) == [of |-> of, kind |-> kind]
Plain(outfit) == Text(outfit, "plain")

RankingInit ==
  /\ owned = UNION ToSet(Scored)
  /\ captions = [o \in ToSet(Scored) |-> Template]
  /\ ranking = [c \in Callers |-> Resting]
  /\ cacheFaults = 0

\* The stored rows, checked against today's garments.
ReadRows(c) ==
  /\ ranking[c].at = "idle"
  /\ LET rows == Where(Scored, {i \in DOMAIN Scored : Renderable(Scored[i], owned, OccasionCode)})
         own == Where(Scored, {i \in DOMAIN Scored : Scored[i] \subseteq owned})
     IN  ranking' = [ranking EXCEPT ![c] =
           [Resting EXCEPT !.at = IF rows = <<>> THEN "idle" ELSE "look", !.there = owned,
                           !.rows = IF c = Night THEN TopOf(own) ELSE rows]]
  /\ UNCHANGED <<owned, captions, cacheFaults>>

Deterministic(c) ==
  [ranking[c] EXCEPT !.at = "ranked", !.order = ranking[c].rows,
                     !.said = [o \in ToSet(ranking[c].rows) |-> Template]]

FromCache(c, hits) ==
  [ranking[c] EXCEPT !.at = "ranked", !.order = ranking[c].rows,
     !.said = [o \in ToSet(ranking[c].rows) |-> IF o \in hits THEN captions[o] ELSE Template]]

Enough(c, hits) == hits # {} /\ (c # Night \/ hits = ToSet(TopOf(ranking[c].rows)))

\* The captions of the top are looked up until the cache fails.  A request without
\* a key of the tenant has no gateway; the nightly job leaves such a tenant alone.
LookUpCaptions(c) ==
  /\ ranking[c].at = "look"
  /\ \E n \in 0..Len(TopOf(ranking[c].rows)), configured \in {TRUE, c = Night} :
       LET hits == {o \in ToSet(SubSeq(ranking[c].rows, 1, n)) : captions[o] # Template}
           failed == n < Len(TopOf(ranking[c].rows))
       IN  /\ failed => cacheFaults < MaxCacheFaults
           /\ cacheFaults' = cacheFaults + (IF failed THEN 1 ELSE 0)
           /\ ranking' = [ranking EXCEPT ![c] =
                IF Enough(c, hits) THEN FromCache(c, hits)
                ELSE IF configured THEN [@ EXCEPT !.at = "call"] ELSE Deterministic(c)]
  /\ UNCHANGED <<owned, captions>>

Entries(order) == [k \in DOMAIN order |-> order[k].ids]

\* The accepted order, what the model is unsure of, what it left out, and what it
\* was not sent.  A caption belongs to the outfit of exactly these ids.
OrderingWithout(verdict, rows) ==
  Entries(verdict.order) \o Entries(verdict.demoted)
    \o [k \in DOMAIN RestOf(rows) |-> Tuple(RestOf(rows)[k])]

Returned(verdict) == Entries(verdict.order) \o Entries(verdict.demoted)

Ordering(verdict, rows) ==
  LET returned == Returned(verdict)
      top == TopOf(rows)
      omitted == Where(top, {i \in DOMAIN top : Tuple(top[i]) \notin ToSet(returned)})
  IN  returned \o [k \in DOMAIN omitted |-> Tuple(omitted[k])]
        \o [k \in DOMAIN RestOf(rows) |-> Tuple(RestOf(rows)[k])]

\* The ids that an accepted answer lists more than once: nothing looks for them.
NamedTwice(verdict) ==
  LET returned == Returned(verdict)
  IN  {returned[i] : i \in {k \in DOMAIN returned :
         \E l \in DOMAIN returned : l # k /\ returned[l] = returned[k]}}

\* The last text of an outfit counts.
TextFor(order, ids) ==
  LET named == {k \in DOMAIN order : order[k].ids = ids}
      last == CHOOSE k \in named : \A l \in named : l <= k
  IN  IF named = {} THEN Template ELSE Text(ToSet(ids), order[last].text)

Ranked(c, verdict) ==
  LET rows == ranking[c].rows
      all == Ordering(verdict, rows)
      ordering == Where(all, {k \in DOMAIN all : \E o \in ToSet(rows) : all[k] = Tuple(o)})
  IN  [ranking[c] EXCEPT
         !.order = [k \in DOMAIN ordering |-> ToSet(ordering[k])],
         !.said = [o \in ToSet(rows) |-> TextFor(verdict.order, Tuple(o))],
         !.todo = SetToSeq({<<ToSet(ids), TextFor(verdict.order, ids)>> :
                             ids \in ToSet(Entries(verdict.order))}),
         !.repeated = {ToSet(ids) : ids \in NamedTwice(verdict)},
         !.at = "write"]

\* One call, no retry: the gateway is down or late, or the answer is validated
\* against the garments as they were read before the call.
CallModel(c, answer) ==
  /\ ranking[c].at = "call"
  /\ LET there == ranking[c].there
         verdict == Validate(answer, ToSet(TopOf(ranking[c].rows)), there, there, 50)
     IN  ranking' = [ranking EXCEPT ![c] =
           IF verdict.rule = "accepted" THEN Ranked(c, verdict) ELSE Deterministic(c)]
  /\ UNCHANGED <<owned, captions, cacheFaults>>

GatewayFails(c) ==
  /\ ranking[c].at = "call"
  /\ ranking' = [ranking EXCEPT ![c] = Deterministic(c)]
  /\ UNCHANGED <<owned, captions, cacheFaults>>

WriteCaption(c) ==
  /\ ranking[c].at = "write" /\ ranking[c].todo # <<>>
  /\ captions' = [captions EXCEPT ![ranking[c].todo[1][1]] = ranking[c].todo[1][2]]
  /\ ranking' = [ranking EXCEPT ![c].todo = Tail(@)]
  /\ UNCHANGED <<owned, cacheFaults>>

EndWriting(c) ==
  /\ ranking[c].at = "write" /\ ranking[c].todo = <<>>
  /\ ranking' = [ranking EXCEPT ![c].at = "ranked"]
  /\ UNCHANGED <<owned, captions, cacheFaults>>

\* The captions still to be written are given up.
CacheFails(c) ==
  /\ ranking[c].at = "write" /\ ranking[c].todo # <<>> /\ cacheFaults < MaxCacheFaults
  /\ cacheFaults' = cacheFaults + 1
  /\ ranking' = [ranking EXCEPT ![c].at = "ranked", ![c].todo = <<>>]
  /\ UNCHANGED <<owned, captions>>

--------------------------------------------------------------------------------
\* round(count * 0.15), halves to the even number
ExploreSlots(count) ==
  LET whole == (15 * count) \div 100
      part == (15 * count) % 100
  IN  IF part > 50 \/ (part = 50 /\ whole % 2 = 1) THEN whole + 1 ELSE whole

\* Positions from 1; the first is never one of them.
Explored(count) ==
  LET slots == ExploreSlots(count)
  IN  {Shortest(count, (i * count) \div slots + 2) : i \in 0..slots - 1}

\* Every order the bandit may serve, by the places of the ranking: at an explored
\* position a draw picks any of what is left, elsewhere the next best is taken.
Reorderings(ranked) ==
  LET count == Len(ranked)
      draws == {pick \in SetToSeqs(1..count) :
                 \A k \in (1..count) \ Explored(count) : \A l \in k + 1..count : pick[k] < pick[l]}
  IN  {[k \in 1..count |-> ranked[pick[k]]] : pick \in draws}

ShowOutfits(c) ==
  /\ ranking[c].at = "ranked"
  /\ \E shown \in IF c = Night THEN {<<>>} ELSE Reorderings(ranking[c].order) :
       ranking' = [ranking EXCEPT ![c] = IF c = Night THEN Resting
                                         ELSE [@ EXCEPT !.at = "shown", !.shown = shown]]
  /\ UNCHANGED <<owned, captions, cacheFaults>>

CloseRequest(c) ==
  /\ ranking[c].at = "shown"
  /\ ranking' = [ranking EXCEPT ![c] = Resting]
  /\ UNCHANGED <<owned, captions, cacheFaults>>

\* RATIONALE_TTL_SECONDS, or the cache evicts.
ExpireCaption(o) ==
  /\ captions[o] # Template
  /\ captions' = [captions EXCEPT ![o] = Template]
  /\ UNCHANGED <<owned, ranking, cacheFaults>>

Dispose(g) ==
  /\ g \in owned /\ Cardinality(UNION ToSet(Scored) \ owned) < MaxRemovals
  /\ owned' = owned \ {g}
  /\ UNCHANGED <<captions, ranking, cacheFaults>>

Ranks(c) ==
  \/ ReadRows(c) \/ LookUpCaptions(c) \/ (\E answer \in Answers : CallModel(c, answer))
  \/ WriteCaption(c) \/ EndWriting(c) \/ ShowOutfits(c) \/ CloseRequest(c)

RankingNext ==
  \/ \E c \in Callers : Ranks(c) \/ GatewayFails(c) \/ CacheFails(c)
  \/ \E o \in ToSet(Scored) : ExpireCaption(o)
  \/ \E g \in owned : Dispose(g)

RankingSpec == RankingInit /\ [][RankingNext]_rankingVars

--------------------------------------------------------------------------------
(* Whatever the model answers, the caches do and the bandit draws: the outfits *)
(* that were fit to serve are all ranked; one stands in the list twice only    *)
(* when the accepted answer named that very outfit twice (rerank.py:353 does   *)
(* not look); the ones the model was not sent come below those it was.  The    *)
(* bandit shows the same list: the best stays first, and what it did not draw  *)
(* keeps its order (rerank.py, bandit.py).                                     *)
RankingLosesNothing ==
  \A c \in Asks : ranking[c].at \in {"write", "ranked", "shown"} =>
    LET order == ranking[c].order
        rows == ranking[c].rows
        shown == ranking[c].shown
        place(o) == CHOOSE i \in DOMAIN order : order[i] = o
    IN  /\ ToSet(order) = ToSet(rows)
        /\ \A i, j \in DOMAIN order :
             order[i] = order[j] => i = j \/ order[i] \in ranking[c].repeated
        /\ \A i, j \in DOMAIN order :
             order[i] \in ToSet(RestOf(rows)) /\ order[j] \in ToSet(TopOf(rows)) => j < i
        /\ ranking[c].at = "shown" =>
             /\ ToSet(shown) = ToSet(rows) /\ Len(shown) = Len(order) /\ shown[1] = order[1]
             /\ \A i, j \in DOMAIN shown \ Explored(Len(shown)) :
                  i < j /\ {shown[i], shown[j]} \cap ranking[c].repeated = {} =>
                    place(shown[i]) < place(shown[j])

(* "Demoted outfits keep their place in the list but fall BELOW everything the *)
(* scorer ranked deterministically" (validator.py:239-241): of the list made   *)
(* from an accepted answer, no outfit the model was unsure of stands above one *)
(* that the model did not rank.                                                *)
DemotedFallBelow ==
  \A c \in Callers : ranking[c].at = "call" =>
    \A answer \in Answers :
      LET there == ranking[c].there
          verdict == Validate(answer, ToSet(TopOf(ranking[c].rows)), there, there, 50)
          list == Ordering(verdict, ranking[c].rows)
      IN  verdict.rule = "accepted" =>
            \A i, j \in DOMAIN list :
              /\ list[i] \in ToSet(Entries(verdict.demoted))
              /\ list[j] \notin ToSet(Returned(verdict))
              => j < i

(* A caption that is cached or shown is the template, or words about this very *)
(* outfit that passed every check of the validator (validator.py).             *)
CaptionsChecked ==
  /\ \A o \in DOMAIN captions : captions[o] \in {Template, Plain(o)}
  /\ \A c \in Callers : \A o \in DOMAIN ranking[c].said :
       ranking[c].said[o] \in {Template, Plain(o)}
================================================================================
