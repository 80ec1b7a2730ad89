----------------------------------- MODULE Pool ---------------------------------
(* The wardrobe of one occasion and the outfits that are tried on it
   (stylist_suggest/pipeline.py): hard filters, `avoids` facts, the rescue of
   slots the weather emptied, what the user is told, anchors and combinations. *)
EXTENDS OutfitRules

CONSTANTS
  Warmth, Formality,  \* levels of a piece, or Unset
  Unset,
  WearCount,
  PoorWhenWet,        \* pieces of a material that rain rules out
  AnchorCount, ExplorationAnchors, PerSlot, PerOptional, MaxCandidates

ASSUME PoolAssumption ==
  /\ {AnchorCount, PerSlot, MaxCandidates} \subseteq Nat \ {0}
  /\ ExplorationAnchors \in 0..AnchorCount /\ PerOptional \in Nat
  /\ {Warmth, Formality} \subseteq [Pieces -> Int \cup {Unset}]
  /\ WearCount \in [Pieces -> Nat]

WarmthTolerance == 1
WarmthRelaxed == 99
OptionalSlots == AtMostOne \cup {r[1] : r \in Ranges}
BaseSlots == UNION BaseStructures

\* A day is [code, warmth, wet, formality, out, never, avoids]: the occasion's
\* targets, pieces that are in the wash or were just worn, and the kinds that
\* preference facts rule out or advise against.
Apart(a, b) == IF a > b THEN a - b ELSE b - a

\* POOL_SQL
Fits(g, day, slack, rain) ==
  /\ g \notin day.out /\ Kind[g] \notin day.never
  /\ Warmth[g] = Unset \/ Apart(Warmth[g], day.warmth) <= slack
  /\ Wears[g] \in Accepts[day.code] \cup {day.code, Untagged}
  /\ ~(rain /\ g \in PoorWhenWet)

PoolOf(wardrobe, day, slack, rain) == {g \in wardrobe : Fits(g, day, slack, rain)}

Note(about, slot) == <<about, slot>>

\* _apply_avoids: a slot the facts would empty keeps all it has.
Avoided(pool, day) == {g \in pool : Kind[g] \in day.avoids}
Relaxed(pool, day) ==
  {slot \in {Slot[g] : g \in pool} : In(pool, slot) \subseteq Avoided(pool, day)}
ApplyAvoids(pool, day) ==
  {g \in pool : g \notin Avoided(pool, day) \/ Slot[g] \in Relaxed(pool, day)}

CompleteBases(pool) == {base \in BaseStructures : \A slot \in base : In(pool, slot) # {}}

\* Preferred slots that are empty, and, if no base is complete, base slots.
ToRescue(pool) ==
  {slot \in PreferredSlots \cup (IF CompleteBases(pool) = {} THEN BaseSlots ELSE {}) :
    In(pool, slot) = {}}

\* _rescue_required_slots: any warmth; failing that, and in rain, any material.
Dry(wardrobe, day, slot) == In(PoolOf(wardrobe, day, WarmthRelaxed, day.wet), slot)
Damp(wardrobe, day, slot) ==
  IF day.wet /\ Dry(wardrobe, day, slot) = {}
  THEN In(PoolOf(wardrobe, day, WarmthRelaxed, FALSE), slot) ELSE {}

RescuedBarely(wardrobe, day, pool) ==
  pool \cup UNION {Dry(wardrobe, day, slot) : slot \in ToRescue(pool)}

Rescued(wardrobe, day, pool) ==
  pool \cup UNION {Dry(wardrobe, day, slot) \cup Damp(wardrobe, day, slot) :
                    slot \in ToRescue(pool)}

RescueNotes(wardrobe, day, pool) ==
  {Note("any warmth", slot) : slot \in {s \in ToRescue(pool) : Dry(wardrobe, day, s) # {}}}
  \cup {Note("wet material", slot) : slot \in {s \in ToRescue(pool) : Damp(wardrobe, day, s) # {}}}

AvoidNotes(pool, day) ==
  {Note("avoids relaxed", slot) : slot \in Relaxed(pool, day)}
  \cup (IF ApplyAvoids(pool, day) # pool THEN {Note("avoids applied", "any")} ELSE {})

\* _base_structure_note: nothing at all, or the fewest slots that are missing.
BaseNote(pool) ==
  LET missing(base) == {slot \in base : In(pool, slot) = {}}
      fewest == CHOOSE base \in BaseStructures : \A other \in BaseStructures :
                  Cardinality(missing(base)) <= Cardinality(missing(other))
  IN  IF CompleteBases(pool) # {} THEN {}
      ELSE IF \A slot \in BaseSlots : In(pool, slot) = {} THEN {Note("nothing", "any")}
           ELSE {Note("add", slot) : slot \in missing(fewest)}

PreferredNotes(pool) ==
  {Note("without", slot) : slot \in {s \in PreferredSlots : In(pool, s) = {}}}

LoadWardrobe(wardrobe, day) ==
  LET matched == PoolOf(wardrobe, day, WarmthTolerance, day.wet)
      wanted == ApplyAvoids(matched, day)
      pool == Rescued(wardrobe, day, wanted)
  IN  [pool |-> pool, blocking |-> BaseNote(pool),
       notes |-> AvoidNotes(matched, day) \cup RescueNotes(wardrobe, day, wanted)
                   \cup BaseNote(pool) \cup PreferredNotes(pool)]

--------------------------------------------------------------------------------
\* The queries have no order of their own: some fixed order stands for it.
FirstOf(S, n) ==
  LET order == SetToSeq(S) IN ToSet(SubSeq(order, 1, IF n < Len(order) THEN n ELSE Len(order)))

Best(S, n, Better(_, _)) ==
  {g \in S : Cardinality({h \in S \ {g} : Better(h, g)}) < n}

\* _pick_anchors: garments of the base slots near the occasion's formality, and
\* then the least worn.
PickAnchors(pool, day) ==
  LET items == {g \in pool : Slot[g] \in BaseSlots}
      rank == SetToSeq(items)
      place(g) == CHOOSE i \in DOMAIN rank : rank[i] = g
      off(g) == IF Formality[g] = Unset THEN 2 ELSE Apart(Formality[g], day.formality)
      near(h, g) == off(h) < off(g) \/ (off(h) = off(g) /\ place(h) < place(g))
      rare(h, g) == WearCount[h] < WearCount[g]
                      \/ (WearCount[h] = WearCount[g] /\ place(h) < place(g))
      plausible == Best(items, AnchorCount - ExplorationAnchors, near)
  IN  plausible \cup Best(items \ plausible, AnchorCount - Cardinality(plausible), rare)

\* The ways to choose one garment of each slot: sets of garments.
Products(pool, slots) ==
  LET options == [slot \in slots |-> FirstOf(In(pool, slot), PerSlot)]
  IN  IF slots = {} THEN {{}}
      ELSE {{pick[slot] : slot \in slots} :
              pick \in {p \in [slots -> UNION {options[s] : s \in slots}] :
                         \A slot \in slots : p[slot] \in options[slot]}}

Extras(pool) ==
  {{}} \cup {{g} : g \in UNION {FirstOf(In(pool, slot), PerOptional) : slot \in OptionalSlots}}

\* The slots to fill around an anchor; with none to fill it is passed over.
Around(anchor, base, pool) ==
  (base \ {Slot[anchor]}) \cup {slot \in PreferredSlots : In(pool, slot) # {}}

Combinations(anchor, base, pool) ==
  IF Around(anchor, base, pool) = {} \/ \E s \in base \ {Slot[anchor]} : In(pool, s) = {}
  THEN {}
  ELSE {{anchor} \cup rest \cup extra :
         rest \in Products(pool, Around(anchor, base, pool)), extra \in Extras(pool)}

CandidatesUnchecked(pool, day) ==
  UNION {UNION {Combinations(anchor, base, pool) :
                 base \in {b \in BaseStructures : Slot[anchor] \in b}} :
         anchor \in PickAnchors(pool, day)}

GenerateCandidates(pool, day) ==
  LET tried == UNION {UNION {Combinations(anchor, base, pool) :
                              base \in {b \in BaseStructures : Slot[anchor] \in b}} :
                      anchor \in PickAnchors(pool, day)}
  IN  FirstOf({outfit \in tried : Legal(outfit)}, MaxCandidates)

--------------------------------------------------------------------------------
\* A garment that some outfit can be built around, and kinds with rules of their own.
CanAnchor(g, pool) ==
  \E base \in CompleteBases(pool) : Slot[g] \in base /\ Around(g, base, pool) # {}
SpecialKinds == LowerEquivalent \cup NeedsTop \cup UNION ForbiddenPairs

(* "Relaxing beats emptying" (pipeline.py): a preference, the warmth or the    *)
(* rain never leave the user without a base or without shoes that the wardrobe *)
(* could supply, and when they are set aside for a slot the user is told; what *)
(* is in the wash, was just worn, or was ruled out with `never` stays out all  *)
(* the same; no combination that breaks a rule is tried, and some is tried     *)
(* unless garments nothing goes with take every place of an anchor.            *)
RelaxingBeatsEmptying(wardrobe, day, result, tried) ==
  LET able == PoolOf(wardrobe, day, WarmthRelaxed, FALSE)
      wanted == ApplyAvoids(PoolOf(wardrobe, day, WarmthTolerance, day.wet), day)
  IN  /\ result.pool \subseteq able
      /\ CompleteBases(able) # {} <=> result.blocking = {}
      /\ \A slot \in PreferredSlots : In(able, slot) # {} <=> In(result.pool, slot) # {}
      /\ \A g \in result.pool \ wanted :
           \E n \in result.notes : n[1] \in {"any warmth", "wet material"} /\ n[2] = Slot[g]
      /\ \A g \in result.pool : Kind[g] \in day.avoids =>
           \E n \in result.notes :
             n[1] \in {"avoids relaxed", "any warmth", "wet material"} /\ n[2] = Slot[g]
      /\ \A outfit \in tried : Legal(outfit) /\ outfit \subseteq result.pool
      /\ /\ \E g \in result.pool : CanAnchor(g, result.pool)
         /\ Cardinality({g \in result.pool : Slot[g] \in BaseSlots /\ ~CanAnchor(g, result.pool)})
              < AnchorCount
         /\ \A g \in result.pool : Kind[g] \notin SpecialKinds
         => tried # {}

(* "A preferred slot is a note, not a failure.  The outfits below are real and *)
(* wearable" (pipeline.py:367): a pool that blocks nothing yields an outfit.   *)
NoteIsNoFailure(result, tried) ==
  result.blocking = {} => tried # {}
================================================================================
