---------------------------------- MODULE Scoring -------------------------------
(* The score of an outfit (stylist_domain/scoring.py, config/scoring.yaml), in
   thousandths.  Colour distances, cosines, days and logarithms are tables of the
   instance; everything decided from them is here. *)
EXTENDS Pool, InOrder

CONSTANTS
  Colour,        \* primary colour of a piece, or Unset
  Neutrals,      \* colours of the neutral family
  Distance,      \* CIEDE2000 of two colours
  Bold,          \* pieces with a bold pattern
  Worn,          \* days since a piece was worn, or Unset
  Damped         \* 1 / (1 + log(1 + count)) of a wear count

ASSUME ScoringAssumption ==
  /\ \A g, h \in Pieces :
       Unset \notin {Colour[g], Colour[h]} => Distance[{Colour[g], Colour[h]}] \in Nat
  /\ \A g \in Pieces : Worn[g] \in Nat \cup {Unset} /\ Damped[WearCount[g]] \in 0..1000
  /\ Unset \notin Int

Most(S) == CHOOSE x \in S : \A y \in S : y <= x
Least(S) == CHOOSE x \in S : \A y \in S : x <= y
Cut(x) == IF x < 0 THEN 0 ELSE IF x > 1000 THEN 1000 ELSE x
Total(S, value(_)) ==
  LET order == SetToSeq(S) IN SumTo([k \in 1..Cardinality(S) |-> value(order[k])], Cardinality(S))
Mean(S, value(_)) == Total(S, value) \div Cardinality(S)

Sub(value, informative) == [value |-> value, informative |-> informative]

Chromatic(outfit) == {g \in outfit : Colour[g] \notin Neutrals \cup {Unset}}

\* Alike or far apart is meant; in between, at worst half way, is an accident.
PairScore(d) ==
  IF d < 10 THEN 1000 ELSE IF d > 25 THEN 850
  ELSE 1000 - (700 * (150 - Apart(20 * d, 350))) \div 150

ColourHarmony(outfit) ==
  LET chromatic == Chromatic(outfit)
      pairs == {p \in SUBSET chromatic : Cardinality(p) = 2}
      score(p) == LET a == CHOOSE g \in p : TRUE
                      b == CHOOSE g \in p : g # a
                  IN  PairScore(Distance[{Colour[a], Colour[b]}])
  IN  IF \A g \in outfit : Colour[g] = Unset THEN Sub(500, FALSE)
      ELSE IF Cardinality(chromatic) <= 1 THEN Sub(1000, TRUE)
           ELSE Sub(Cut(Mean(pairs, score)), TRUE)

Levels(outfit, level) == {level[g] : g \in {h \in outfit : level[h] # Unset}}
Known(outfit, level) == {g \in outfit : level[g] # Unset}

\* All tagged alike is no signal: mock or unset tags.
Alike(outfit, level) ==
  Cardinality(Levels(outfit, level)) = 1 /\ Cardinality(Known(outfit, level)) > 1

FormalityCoherence(outfit, target) ==
  LET known == Known(outfit, Formality)
      levels == Levels(outfit, Formality)
      mean == Mean(known, LAMBDA g : 1000 * Formality[g])
  IN  IF known = {} THEN Sub(500, FALSE)
      ELSE IF Alike(outfit, Formality)
           THEN Sub(Cut(1000 - 250 * Apart(Most(levels), target)), FALSE)
           ELSE Sub(Cut(((1000 - 250 * (Most(levels) - Least(levels)))
                         + (1000 - Apart(mean, 1000 * target) \div 4)) \div 2), TRUE)

\* The warmest piece decides how warm an outfit is.
WeatherFit(outfit, target) ==
  LET levels == Levels(outfit, Warmth)
      off == Apart(Most(levels), target)
  IN  IF levels = {} THEN Sub(500, FALSE)
      ELSE IF Alike(outfit, Warmth) THEN Sub(Cut(1000 - 250 * off), FALSE)
           ELSE Sub(IF off <= 1 THEN 1000 ELSE Cut(1000 - 250 * (off - 1)), TRUE)

\* A taste is [cosine, events]: none until there were ten reactions.
StyleAffinity(taste) ==
  IF taste.events < 10 THEN Sub(0, FALSE) ELSE Sub(IF taste.cosine < 0 THEN 0 ELSE taste.cosine, TRUE)

Novelty(outfit) ==
  LET recency(g) == IF Worn[g] = Unset THEN 1000 ELSE Cut((1000 * Worn[g]) \div 14)
  IN  Sub(Cut((600 * Mean(outfit, recency)
               + 400 * Mean(outfit, LAMBDA g : Damped[WearCount[g]])) \div 1000),
          \E g \in outfit : Worn[g] # Unset \/ WearCount[g] > 0)

\* trends: strength of the published kinds.
TrendAlignment(outfit, trends) ==
  LET strength(g) == IF Kind[g] \in DOMAIN trends THEN trends[Kind[g]] ELSE 0
  IN  Sub(Cut(Mean(outfit, strength)), \E g \in outfit : strength(g) > 0)

\* The soft rules that are broken, as what each leaves of the score.
Penalties(outfit) ==
  {p \in {<<"hues", 75>>, <<"bold", 70>>, <<"spread", 65>>} :
    CASE p[1] = "hues" -> Cardinality(Chromatic(outfit)) > 2
      [] p[1] = "bold" -> Cardinality(outfit \cap Bold) > 2
      [] p[1] = "spread" -> LET levels == Levels(outfit, Formality)
                            IN  levels # {} /\ Most(levels) - Least(levels) > 2}

\* What a rule leaves, in hundredths.
Left(outfit, rule, share) == IF <<rule, share>> \in Penalties(outfit) THEN share ELSE 100

PenaltiesSubtracted(outfit) ==
  1000 - 12 * (300 - Left(outfit, "hues", 75) - Left(outfit, "bold", 70)
                   - Left(outfit, "spread", 65))

\* Multiplied, so that none of them can turn the score negative.
HardPenalty(outfit) ==
  (Left(outfit, "hues", 75) * Left(outfit, "bold", 70) * Left(outfit, "spread", 65)) \div 1000

Weights == <<30, 20, 15, 20, 10, 5>>

Share == 0..1000     \* of a part
Whole == 100000      \* of a total, in hundred-thousandths

ScoreOutfit(outfit, day, taste, trends) ==
  LET subs == <<ColourHarmony(outfit), FormalityCoherence(outfit, day.formality),
                WeatherFit(outfit, day.warmth), StyleAffinity(taste), Novelty(outfit),
                TrendAlignment(outfit, trends)>>
      weighted == SumTo([i \in 1..6 |-> Weights[i] * subs[i].value], 6)
  IN  [subs |-> subs,
       total |-> IF Legal(outfit) THEN (weighted * HardPenalty(outfit)) \div 1000 ELSE 0,
       informative |-> SumTo([i \in 1..6 |-> IF subs[i].informative THEN Weights[i] ELSE 0], 6)]

--------------------------------------------------------------------------------
(* The score is a share: every part and the total lie between nothing and all. *)
(* An outfit that keeps the rules outranks every one that breaks one, however  *)
(* many soft rules it breaks; and a taste that is an accident, or a dislike,   *)
(* moves nothing, nor does a trend nobody wears (scoring.py).                  *)
ScoreIsAShare(outfit, day, taste, trends, score) ==
  /\ \A i \in DOMAIN score.subs : score.subs[i].value \in Share
  /\ 0 <= score.total /\ score.total <= Whole /\ score.informative \in 0..100
  /\ Legal(outfit) <=> score.total > 0
  /\ taste.events < 10 \/ taste.cosine < 0 =>
       score.total = ScoreOutfit(outfit, day, [cosine |-> 0, events |-> 0], trends).total
  /\ {Kind[g] : g \in outfit} \cap DOMAIN trends = {} =>
       score.total = ScoreOutfit(outfit, day, taste, <<>>).total
================================================================================
