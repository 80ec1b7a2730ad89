--------------------------------- MODULE Splitting ------------------------------
(* Which masks of a photo become garments (stylist_domain/split.py).  A mask is
   [label, slot, area, box]: area in thousandths of the frame, box
   <<x1, y1, x2, y2>>; an index of the caller's list is its identity. *)
EXTENDS InOrder, SequencesExt

CONSTANT NoSlot

DrapeClasses == {"Skirt", "Dress", "Scarf"}      \* DRAPE_AMBIGUOUS_CLASSES
Shoes == {"Left-shoe", "Right-shoe"}
MinArea == 20                                    \* MIN_AREA_PCT
WornSkin == 5                                    \* WORN_SKIN_THRESHOLD

Smaller(a, b) == IF a < b THEN a ELSE b
Larger(a, b) == IF a < b THEN b ELSE a

Pixels(box) == (box[3] - box[1]) * (box[4] - box[2])

Common(a, b) ==
  LET wide == Smaller(a[3], b[3]) - Larger(a[1], b[1])
      high == Smaller(a[4], b[4]) - Larger(a[2], b[2])
  IN  IF wide <= 0 \/ high <= 0 THEN 0 ELSE wide * high

\* iou(a, b) > part / 10
OverlapMore(a, b, part) ==
  10 * Common(a, b) > part * (Pixels(a) + Pixels(b) - Common(a, b))

UnionBox(boxes) ==
  LET least(k) == CHOOSE x \in {b[k] : b \in boxes} : \A b \in boxes : x <= b[k]
      most(k) == CHOOSE x \in {b[k] : b \in boxes} : \A b \in boxes : x >= b[k]
  IN  <<least(1), least(2), most(3), most(4)>>

\* The indices in S, largest mask first; the sort is stable.
BySize(S, area) ==
  Ordered(S, {p \in S \X S : \/ area[p[1]] > area[p[2]]
                             \/ area[p[1]] = area[p[2]] /\ p[1] < p[2]})

Ambiguous(masks, kept) ==
  \E i, j \in kept : /\ i < j /\ {masks[i].label, masks[j].label} \subseteq DrapeClasses
                     /\ OverlapMore(masks[i].box, masks[j].box, 3)

Kept(masks) ==
  {i \in DOMAIN masks : masks[i].area >= MinArea /\ masks[i].slot # NoSlot}

Areas(masks) == [i \in DOMAIN masks |-> masks[i].area]

\* One by one, a mask that repeats the region of one that is taken is dropped.
TakenOf(masks, order, n) ==
  LET repeats(i, S) == \E s \in S : OverlapMore(masks[i].box, masks[s].box, 5)
      taken[k \in 0..n] ==
        IF k = 0 THEN {}
        ELSE taken[k - 1] \cup (IF repeats(order[k], taken[k - 1]) THEN {} ELSE {order[k]})
  IN  taken[n]

SurvivorsInOrder(masks, kept) == TakenOf(masks, Increasing(kept), Cardinality(kept))

\* Largest first.
Survivors(masks, kept) == TakenOf(masks, BySize(kept, Areas(masks)), Cardinality(kept))

Candidate(slot, area, box, members, component) ==
  [slot |-> slot, area |-> area, box |-> box, masks |-> members, component |-> component]

Single(masks, i) == Candidate(masks[i].slot, masks[i].area, masks[i].box, {i}, 0)

Shod(masks, S) == {i \in S : masks[i].label \in Shoes}

\* The shoes are one garment.
Pair(masks, shoes) ==
  LET listed == BySize(shoes, Areas(masks))
      n == Cardinality(shoes)
  IN  Candidate(masks[listed[1]].slot, SumTo([k \in 1..n |-> masks[listed[k]].area], n),
                UnionBox({masks[i].box : i \in shoes}), shoes, 0)

\* _merge_pairs: what survived, the largest garment first.
MergePairs(masks, S) ==
  LET shoes == Shod(masks, S)
      others == BySize(S \ shoes, Areas(masks))
      found == [k \in DOMAIN others |-> Single(masks, others[k])]
               \o (IF shoes = {} THEN <<>> ELSE <<Pair(masks, shoes)>>)
      ranked == BySize(DOMAIN found, Areas(found))
  IN  [k \in DOMAIN ranked |-> found[ranked[k]]]

Review(worn) == [outcome |-> "needs_review", candidates |-> <<>>, worn |-> worn]
Found(candidates, worn) == [outcome |-> "ok", candidates |-> candidates, worn |-> worn]

\* A photo of clothes on nobody: the labels are guesses, the components count.
FlatLay(components) ==
  IF components = <<>>
  THEN Found(<<Candidate(NoSlot, 1000, <<0, 0, 0, 0>>, {}, 0)>>, FALSE)
  ELSE Found([k \in DOMAIN components |->
                Candidate(NoSlot, components[k].area, components[k].box, {}, k)], FALSE)

SplitMasks(masks, skin, components) ==
  IF skin < WornSkin THEN FlatLay(components)
  ELSE IF Kept(masks) = {} \/ Ambiguous(masks, Kept(masks)) THEN Review(TRUE)
       ELSE Found(MergePairs(masks, Survivors(masks, Kept(masks))), TRUE)

--------------------------------------------------------------------------------
MaskSets(result) == {result.candidates[k].masks : k \in DOMAIN result.candidates}

Reversed(masks) == [i \in DOMAIN masks |-> masks[Len(masks) + 1 - i]]

Garments(masks, result) ==
  {<<c.slot, c.area, c.box, {masks[i] : i \in c.masks}>> : c \in ToSet(result.candidates)}

(* No phantom and no lost garment: a mask goes into one garment at most; a     *)
(* garment mask that goes into none repeats the region of a larger one that    *)
(* does; no two garments claim one region, and there is one pair of shoes; a   *)
(* mask under the floor changes nothing; and the answer does not depend on the *)
(* order in which the model reports masks of different sizes.                  *)
GarmentsAreReal(masks, skin, components, result) ==
  /\ \A j, k \in DOMAIN result.candidates :
       j # k => /\ result.candidates[j].masks \cap result.candidates[k].masks = {}
                /\ \A i \in result.candidates[j].masks, h \in result.candidates[k].masks :
                     ~OverlapMore(masks[i].box, masks[h].box, 5)
  /\ result.worn /\ result.outcome = "ok" =>
       /\ \A i \in Kept(masks) \ UNION MaskSets(result) :
            \E s \in UNION MaskSets(result) :
              masks[s].area >= masks[i].area /\ OverlapMore(masks[i].box, masks[s].box, 5)
       /\ UNION MaskSets(result) \subseteq Kept(masks)
       /\ \A S \in MaskSets(result) :
            (\E i \in S : masks[i].label \in Shoes)
              => \A h \in UNION MaskSets(result) : masks[h].label \in Shoes <=> h \in S
  /\ ~result.worn =>
       /\ Len(result.candidates) = Larger(1, Len(components))
       /\ \A c \in ToSet(result.candidates) : c.slot = NoSlot /\ c.masks = {}
  /\ LET clean == Where(masks, {i \in DOMAIN masks : masks[i].area >= MinArea})
     IN  Garments(clean, SplitMasks(clean, skin, components)) = Garments(masks, result)
  /\ (\A i, j \in DOMAIN masks : i # j => masks[i].area # masks[j].area) =>
       Garments(Reversed(masks), SplitMasks(Reversed(masks), skin, components))
         = Garments(masks, result)
================================================================================
