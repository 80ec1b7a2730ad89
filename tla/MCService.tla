--------------------------------- MODULE MCService -----------------------------
(* What a user is shown: captions and order (Ranking), orders of the shop (Shop),
   each as a state machine, and one question at a time put to the pure parts:
   Splitting, Pool with the shop's offers, Scoring, Asking.  And what lets them in:
   accounts, a partner's keys, the links to Google, the stream over a job.  They
   share no state: one of them is looked at. *)
EXTENDS Ranking, Shop, Scoring, Splitting, Asking, Access, GoogleLinks, JobWatch, TLC

VARIABLES part, ask, answer
pureVars == <<ask, answer>>
vars == <<part, pureVars, rankingVars, shopVars, accountVars, keyVars, linkVars, watchVars>>

CONSTANTS tee, sherwani, jeans, shorts, dress, boots, sandals,  \* owned
          sneakers, trousers, gown, theirs                   \* of the shop, or of nobody

Wardrobe == {tee, sherwani, jeans, shorts, dress, boots, sandals}

Row(kind, slot, wears, warmth, formality, colour, worn) ==
  [kind |-> kind, slot |-> slot, wears |-> wears, warmth |-> warmth, formality |-> formality,
   colour |-> colour, worn |-> worn]

Tags ==
  tee :> Row("t_shirt", "upper_base", "casual", 1, 1, "red", 3)
  @@ sherwani :> Row("sherwani", "upper_base", "festive_ethnic", 4, 4, "green", Unset)
  @@ jeans :> Row("jeans", "lower", Untagged, 3, 2, "navy", 20)
  @@ shorts :> Row("denim_shorts", "lower", Untagged, 1, 1, "white", 1)
  @@ dress :> Row("day_dress", "full_body", "casual", 2, 3, "pink", Unset)
  @@ boots :> Row("boots_knee", "feet", "casual", 4, 2, "white", 7)
  @@ sandals :> Row("sandals", "feet", "casual", Unset, Unset, Unset, 2)
  @@ sneakers :> Row("sneakers", "feet", "casual", 2, 1, "white", Unset)
  @@ trousers :> Row("chinos", "lower", "smart_casual", 2, 3, "navy", Unset)
  @@ gown :> Row("gown", "full_body", "formal_ethnic", 3, 5, "red", Unset)
  @@ theirs :> Row("sneakers", "feet", "casual", 2, 1, "white", Unset)

MCPieces == DOMAIN Tags
Tagged(field(_)) == [g \in DOMAIN Tags |-> field(Tags[g])]
MCSlot == Tagged(LAMBDA t : t.slot)
MCKind == Tagged(LAMBDA t : t.kind)
MCWears == Tagged(LAMBDA t : t.wears)
MCWarmth == Tagged(LAMBDA t : t.warmth)
MCFormality == Tagged(LAMBDA t : t.formality)
MCColour == Tagged(LAMBDA t : t.colour)
MCWorn == Tagged(LAMBDA t : t.worn)
MCWearCount == Tagged(LAMBDA t : IF t.worn = Unset THEN 0 ELSE 1)
MCAccepts ==
  "casual" :> {"casual", "smart_casual", "activewear"}
  @@ "festive_ethnic" :> {"festive_ethnic", "formal_ethnic"}
MCPoorWhenWet == {sherwani, sandals}
MCNeutrals == {"white", "navy"}
Hues(a, b) == IF a = b THEN 0 ELSE IF {a, b} = {"red", "pink"} THEN 17 ELSE 40
MCDistance ==
  LET colours == {"red", "green", "pink", "white", "navy"}
  IN  [pair \in {{a, b} : a, b \in colours} |->
         LET a == CHOOSE x \in pair : TRUE
             b == CHOOSE x \in pair : pair = {a, x}
         IN  Hues(a, b)]
MCBold == {tee, dress, boots}
MCDamped == 0 :> 1000 @@ 1 :> 591

\* Ranking.
MCScored ==
  <<{tee, jeans}, {shorts, tee}, {tee, jeans, sneakers}, {tee, boots}, {dress, sneakers}>>
Says(ids, text, sure) == [ids |-> ids, text |-> text, sure |-> sure]
Fine(o) == Says(SetToSeq(o), "plain", 90)
Unsure(o) == Says(SetToSeq(o), "plain", 30)
First == {tee, jeans}
Second == {shorts, tee}
MCAnswers ==
  {<<>>, Malformed, <<Fine(First), Fine({dress, sneakers})>>, <<Fine(Second), Fine(First)>>,
   <<Fine(Second)>>, <<Fine(First), Fine(First)>>, <<Unsure(First), Fine(Second)>>,
   <<Says(Reverse(SetToSeq(Second)), "plain", 90)>>, <<Fine(Second), Fine({tee, theirs})>>,
   <<Fine(First), Fine({tee, shorts, jeans})>>, <<Says(SetToSeq(Second), "body", 90)>>}

\* Shop.
MCPrice == sneakers :> 3 @@ trousers :> 2 @@ gown :> 9
MCGender == sneakers :> Unset @@ trousers :> "men" @@ gown :> "women"
MCBuys == "o1" :> sneakers @@ "o2" :> sneakers

\* Asking.
MCOccasions ==
  "casual_outing" :> [formality |-> 1, code |-> "casual"]
  @@ "office_casual" :> [formality |-> 2, code |-> "smart_casual"]
  @@ "party_night" :> [formality |-> 3, code |-> "smart_casual"]
  @@ "festival_day" :> [formality |-> 4, code |-> "festive_ethnic"]
Phrase(phrase, occasion) == [phrase |-> phrase, occasion |-> occasion]
MCLexicon ==
  <<Phrase("office", "office_casual"), Phrase("office party", "party_night"),
    Phrase("puja", "festival_day"), Phrase("show", "party_night")>>
Rule(phrase, occasion, sure) == [phrase |-> phrase, occasion |-> occasion, sure |-> sure]
MCRules ==
  {Rule("standup", "office_casual", 70), Rule("puja", "festival_day", 80),
   Rule("show", "festival_day", 50), Rule("brunch", "casual_outing", 90),
   Rule("show", "party_night", 60)}
MCHolidays == <<Phrase("diwali", "festival_day"), Phrase("new year", "party_night")>>
MCLength == "office" :> 6 @@ "office party" :> 12 @@ "puja" :> 4 @@ "show" :> 4 @@ "do" :> 2

--------------------------------------------------------------------------------
Day0 == [code |-> "casual", warmth |-> 2, wet |-> FALSE, formality |-> 1, out |-> {},
         never |-> {}, avoids |-> {}]
Days ==
  {[Day0 EXCEPT !.warmth = w, !.wet = wet] : w \in {1, 2, 5}, wet \in BOOLEAN}
  \cup {[Day0 EXCEPT !.code = "festive_ethnic", !.formality = 4, !.wet = wet] : wet \in BOOLEAN}
  \cup {[Day0 EXCEPT !.out = {jeans}, !.avoids = {"t_shirt"}],
        [Day0 EXCEPT !.never = {"sneakers"}, !.avoids = {"sandals", "denim_shorts"}, !.wet = TRUE],
        [Day0 EXCEPT !.out = {boots, sandals}, !.never = {"day_dress"}]}

Outfits == {o \in SUBSET Wardrobe : Cardinality(o) \in 1..4}
Tastes == {[cosine |-> c, events |-> n] : c \in {-300, 0, 800}, n \in {9, 10}}
Trends == {<<>>, "sherwani" :> 900, ("jeans" :> 1000) @@ ("t_shirt" :> 400)}

LabelSets ==
  {<<<<"Skirt", "lower">>, <<"Dress", "full_body">>, <<"Upper-clothes", "upper_base">>>>,
   <<<<"Left-shoe", "feet">>, <<"Right-shoe", "feet">>, <<"Upper-clothes", "upper_base">>>>,
   <<<<"Left-shoe", "feet">>, <<"Skirt", "lower">>, <<"Face", NoSlot>>>>}
Boxes == {<<0, 0, 2, 2>>, <<1, 0, 3, 2>>, <<0, 0, 2, 1>>, <<0, 0, 3, 2>>}
Masks ==
  {[i \in 1..3 |-> [label |-> labels[i][1], slot |-> labels[i][2], area |-> area[i], box |-> box[i]]] :
     labels \in LabelSets, area \in [1..3 -> {10, 20, 50}], box \in [1..3 -> Boxes]}
Component(area) == [area |-> area, box |-> <<0, 0, 1, 1>>]

\* A text that says "office party" says "office".
Messages ==
  {m \in SUBSET {"office", "office party", "puja", "show", "do", "cold", "rain"} :
     "office party" \in m => "office" \in m}
OwnName(phrase, occasion, formality, code) ==
  [phrase |-> phrase, occasion |-> occasion, formality |-> formality, code |-> code]
OwnNames ==
  {<<>>, <<OwnName("do", "party_night", 4, None), OwnName("office party", "festival_day", None, "black_tie")>>}
Model(occasion, sure, alternatives) ==
  [occasion |-> occasion, sure |-> sure, alternatives |-> alternatives]
Replies ==
  {None, Model("party_night", 60, <<>>), Model("party_night", 59, <<"party_night", "office_casual">>),
   Model("party_night", None, <<>>), Model("unknown", 90, <<"festival_day", "moon_walk">>),
   Model("moon_walk", 99, <<"festival_day">>)}
Forecast(feels, rain) == [feels |-> feels, rain |-> rain, wind |-> 10]
Skies ==
  {[home |-> home, cached |-> cached, provider |-> provider] :
     home \in BOOLEAN, cached \in {None, Forecast(None, 0), Forecast(12, 50)},
     provider \in {None, Forecast(31, 0)}}
WhatIsFound ==
  {[outfits |-> TRUE, blocking |-> <<>>], [outfits |-> FALSE, blocking |-> <<>>],
   [outfits |-> FALSE, blocking |-> <<"add">>]}
Titles == {{"standup"}, {"puja", "brunch"}, {"show"}, {"dentist"}}
Diaries ==
  {[link |-> link, titles |-> titles] :
     link \in {"connected", "reauth_required"},
     titles \in {<<>>} \cup [1..1 -> Titles] \cup [1..2 -> Titles]}
HolidayNames == {None, <<>>, <<{"bank"}>>, <<{"bank"}, {"diwali", "new year"}>>, <<{"new year"}>>}
Tables ==
  {[dated |-> d, recurring |-> r] : d \in {None, "festival_day"}, r \in {None, "office_casual"}}

ASSUME AskedAssumption ==
  /\ Wardrobe \subseteq Pieces /\ IsFiniteSet(Wardrobe)
  /\ \A day \in Days :
       /\ {day.warmth, day.formality} \subseteq Int
       /\ day.out \cap Catalogue = {}
  /\ \A taste \in Tastes : taste.events \in Nat /\ taste.cosine \in Int /\ taste.cosine <= 1000
  /\ \A trends \in Trends : \A kind \in DOMAIN trends : trends[kind] \in Share
  /\ OwnNames \subseteq Seq(Customs) /\ Replies \subseteq {None} \cup ModelAnswers
  /\ \A owns \in OwnNames : \A i \in DOMAIN owns : Length[owns[i].phrase] \in Nat
  /\ HolidayNames \subseteq {None} \cup Seq(SUBSET STRING)
  /\ LET there == {None} \cup KnownOccasions
     IN  Tables \subseteq [dated : there, recurring : there]
  /\ LET reports == {None} \cup Payloads
     IN  Skies \subseteq [home : BOOLEAN, cached : reports, provider : reports]

Nothing == [asked |-> FALSE]

AsksOf(kind, S) == {[kind |-> kind, of |-> x] : x \in S}

Init ==
  /\ part \in {"ranking", "shop", "accounts", "partner", "links", "watch", "pure"}
  /\ RankingInit /\ ShopInit /\ KeysInit /\ LinksInit /\ WatchInit /\ answer = Nothing
  /\ AccountsInit /\ (partners => part = "accounts")
  /\ \/ part # "pure" /\ ask = Nothing
     \/ /\ part = "pure"
        /\ \/ ask \in AsksOf("pool", (SUBSET Wardrobe) \X Days \X {"women", "everyone"})
           \/ ask \in AsksOf("score", Outfits \X {1, 3} \X Tastes \X Trends)
           \/ ask \in AsksOf("split", Masks \X {10} \X {<<>>})
           \/ ask \in AsksOf("split", {CHOOSE m \in Masks : TRUE} \X {0}
                                  \X {<<>>, <<Component(40)>>, <<Component(40), Component(30)>>})
           \/ ask \in AsksOf("chat", Messages \X OwnNames \X Replies \X
                                  {s \in Skies : s.home /\ s.cached = None} \X WhatIsFound \X {None, "fine", "yours"})
           \/ ask \in AsksOf("day", {None, "party_night", "moon_walk"} \X Diaries \X HolidayNames \X Tables)
           \/ ask \in AsksOf("weather", Skies \X {0, 25})

DayOf(formality) == [Day0 EXCEPT !.formality = formality]

Asked(kind) == part = "pure" /\ answer = Nothing /\ ask.kind = kind

AnswerAsk ==
  /\ \/ /\ Asked("pool")
        /\ LET loaded == LoadWardrobe(ask.of[1], ask.of[2])
           IN  answer' = [loaded |-> loaded, tried |-> GenerateCandidates(loaded.pool, ask.of[2])]
     \/ Asked("score") /\ answer' = ScoreOutfit(ask.of[1], DayOf(ask.of[2]), ask.of[3], ask.of[4])
     \/ Asked("split") /\ answer' = SplitMasks(ask.of[1], ask.of[2], ask.of[3])
     \/ Asked("chat") /\ answer' = Chat(ask.of[1], ask.of[2], ask.of[3], ask.of[4], ask.of[5], ask.of[6])
     \/ Asked("day") /\ answer' = ResolveOccasion(ask.of[1], ask.of[2], ask.of[3], ask.of[4])
     \/ Asked("weather") /\ answer' = ResolveWeather(None, 0, ask.of[2], ask.of[1])
  /\ UNCHANGED <<part, ask, rankingVars, shopVars, accountVars, keyVars, linkVars, watchVars>>

Next ==
  \/ /\ part = "ranking" /\ RankingNext
     /\ UNCHANGED <<part, pureVars, shopVars, accountVars, keyVars, linkVars, watchVars>>
  \/ /\ part = "shop" /\ ShopNext
     /\ UNCHANGED <<part, pureVars, rankingVars, accountVars, keyVars, linkVars, watchVars>>
  \/ /\ part = "accounts" /\ AccountsNext
     /\ UNCHANGED <<part, pureVars, rankingVars, shopVars, keyVars, linkVars, watchVars>>
  \/ /\ part = "partner" /\ KeysNext
     /\ UNCHANGED <<part, pureVars, rankingVars, shopVars, accountVars, linkVars, watchVars>>
  \/ /\ part = "links" /\ LinksNext
     /\ UNCHANGED <<part, pureVars, rankingVars, shopVars, accountVars, keyVars, watchVars>>
  \/ /\ part = "watch" /\ WatchNext
     /\ UNCHANGED <<part, pureVars, rankingVars, shopVars, accountVars, keyVars, linkVars>>
  \/ AnswerAsk

Spec == Init /\ [][Next]_vars

--------------------------------------------------------------------------------
Answered(kind) == part = "pure" /\ answer # Nothing /\ ask.kind = kind

(* GarmentsAreReal of every photo asked about (split.py). *)
GarmentsReal ==
  Answered("split") => GarmentsAreReal(ask.of[1], ask.of[2], ask.of[3], answer)

(* Of every wardrobe and day: relaxing beats emptying (pipeline.py), and the shop *)
(* offers what mends the gap it names (gaps.py, shop.py).                         *)
WardrobeServes ==
  Answered("pool") =>
    /\ RelaxingBeatsEmptying(ask.of[1], ask.of[2], answer.loaded, answer.tried)
    /\ OffersFillTheGap(ask.of[1], ask.of[2], ask.of[3])

(* From the score to the screen: the score is a share that a broken rule voids    *)
(* (scoring.py), no outfit is lost or passed over between the scorer and the      *)
(* user, none is listed twice but one the accepted answer itself named twice, and *)
(* no caption is shown that was not checked (rerank.py, bandit.py).  Where the    *)
(* unsure ones stand is DemotedFallBelow.                                         *)
RankingSound ==
  /\ RankingLosesNothing /\ CaptionsChecked
  /\ Answered("score") =>
       ScoreIsAShare(ask.of[1], DayOf(ask.of[2]), ask.of[3], ask.of[4], answer)

(* Of every message, diary and sky: nobody is dressed for an occasion they did    *)
(* not name or for a day that is not theirs, and who says nothing of the weather  *)
(* is dressed for the forecast (chat.py, calendar.py, suggestions.py,             *)
(* context.py).                                                                   *)
OccasionJustified ==
  /\ Answered("chat") =>
       /\ NobodyDressedByGuess(ask.of[1], ask.of[2], ask.of[3], answer)
       /\ DressedForTheSky(ask.of[1], ask.of[4], answer)
  /\ Answered("day") => ask.of[1] # None \/ DayIsJustified(ask.of[2], ask.of[3], ask.of[4], answer)
  /\ Answered("weather") => WeatherIsMonotone(ask.of[1], ask.of[2])

(* Of every message: a temperature is called the user's only when they gave one   *)
(* (chat.py:347-355).                                                             *)
TemperatureIsTold == Answered("chat") => TemperatureIsTheUsers(ask.of[1], answer)
================================================================================
