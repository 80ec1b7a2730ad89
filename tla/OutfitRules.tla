-------------------------------- MODULE OutfitRules -----------------------------
(* What may be shown as an outfit: the slot rules of config/taxonomy.yaml as
   stylist_domain/slots.py evaluates them, the checks a stored outfit passes
   before it is served (_hydrate in stylist_api/routers/suggestions.py), and the
   validator of a model's ranking (stylist_domain/validator.py).  An outfit is a
   set of garments. *)
EXTENDS Integers, Sequences, FiniteSets, SequencesExt, InOrder

CONSTANTS
  Pieces,        \* garments of the tenant, and ids that are nobody's
  Slot, Kind,    \* slot and subcategory of a piece
  Wears,         \* its dress code, or Untagged
  Accepts        \* dress_code_compatibility: codes an occasion's code accepts

ASSUME TagsAssumption == {Slot, Kind, Wears} \subseteq [Pieces -> STRING]

Untagged == "untagged"

LowerEquivalent == {"saree", "half_saree"}
NeedsTop == {"saree", "half_saree", "lehenga_skirt"}
BaseStructures == {{"upper_base", "lower"}, {"full_body"}}
PreferredSlots == {"feet"}
AtMostOne == {"upper_layer", "head", "bag"}
Ranges == {<<"accessory", 5>>, <<"drape", 2>>}
ForbiddenPairs ==
  {{"dhoti", "boots_knee"}, {"saree", "cargo_pants"}, {"gown_ball", "sneakers"},
   {"track_pants", "heels_stiletto"}, {"sherwani", "denim_shorts"}}

In(outfit, slot) == {g \in outfit : Slot[g] = slot}
Has(outfit, slot) == Cardinality(In(outfit, slot))
Kinds(outfit) == {Kind[g] : g \in outfit}

\* A saree covers the lower body, in addition to what is in `lower`.
Covers(outfit, slot) ==
  Has(outfit, slot) +
    IF slot = "lower" THEN Cardinality({g \in outfit : Kind[g] \in LowerEquivalent}) ELSE 0

Complete(outfit) == {base \in BaseStructures : \A slot \in base : Covers(outfit, slot) = 1}

\* evaluate(), as the names of the rules that are broken.
Violations(outfit) ==
  {r \in {"base", "preferred", "single", "range", "requires", "pair"} :
    CASE r = "base" -> Cardinality(Complete(outfit)) # 1
      [] r = "preferred" -> \E slot \in PreferredSlots : Has(outfit, slot) > 1
      [] r = "single" -> \E slot \in AtMostOne : Has(outfit, slot) > 1
      [] r = "range" -> \E s \in Ranges : Has(outfit, s[1]) > s[2]
      [] r = "requires" -> Kinds(outfit) \cap NeedsTop # {} /\ In(outfit, "upper_base") = {}
      [] r = "pair" -> \E pair \in ForbiddenPairs : pair \subseteq Kinds(outfit)}

Legal(outfit) == Violations(outfit) = {}

\* _hydrate: every garment is still there, the rules hold of today's tags, and no
\* garment is of a code the occasion does not accept.  An untagged one passes.
Renderable(outfit, there, code) ==
  /\ outfit \subseteq there
  /\ Legal(outfit)
  /\ \A g \in outfit : Wears[g] \in Accepts[code] \cup {code, Untagged}

--------------------------------------------------------------------------------
(* The answer of a model: a sequence of [ids, text, sure], ids a sequence of
   pieces, text "plain", "long", "url", "price" or "body", sure a percentage; or
   an answer that is not of the schema. *)
Malformed == <<[ids |-> <<>>]>>

Rejected(rule) == [rule |-> rule, order |-> <<>>, demoted |-> <<>>]

Ids(entry) == ToSet(entry.ids)

\* sorted(ids) is that of an outfit sent: no id is missing, new or repeated.
WasSent(entry, sent) ==
  Ids(entry) \in sent /\ Len(entry.ids) = Cardinality(Ids(entry))

Validate(answer, sent, active, tagged, sureEnough) ==
  IF answer \in {Malformed, <<>>} \/ \E e \in ToSet(answer) : e.ids = <<>>
  THEN Rejected("schema")
  ELSE LET entries == ToSet(answer)
       IN  IF \E e \in entries : ~(Ids(e) \subseteq UNION sent) THEN Rejected("unknown_id")
           ELSE IF \E e \in entries : ~WasSent(e, sent) THEN Rejected("unknown_outfit")
           ELSE IF \E e \in entries : ~(Ids(e) \subseteq active) THEN Rejected("inactive")
           ELSE IF \E e \in entries : ~(Ids(e) \subseteq tagged /\ Legal(Ids(e)))
                THEN Rejected("slot_illegal")
           ELSE IF \E e \in entries : e.text # "plain" THEN Rejected("rationale")
           ELSE [rule |-> "accepted",
                 order |-> Where(answer, {k \in DOMAIN answer : answer[k].sure >= sureEnough}),
                 demoted |-> Where(answer, {k \in DOMAIN answer : answer[k].sure < sureEnough})]
================================================================================
