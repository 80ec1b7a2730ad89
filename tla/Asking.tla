----------------------------------- MODULE Asking -------------------------------
(* What an outfit is asked for: the occasion, from the user's words (chat.py,
   intent.py, intent_llm.py), their diary (calendar.py), the date
   (observances.py) or a default, and the weather, and the targets that follow
   from both (suggestions.py, context.py).  A text is the set of phrases that
   stand in it as whole words. *)
EXTENDS InOrder, SequencesExt

CONSTANTS
  Occasions,     \* taxonomy.yaml: occasion -> [formality, code]
  Lexicon,       \* intent.py: sequence of [phrase, occasion]
  Rules,         \* calendar_rules.yaml: set of [phrase, occasion, sure]
  Holidays,      \* observances.yaml: sequence of [phrase, occasion]
  Length,        \* of a phrase
  None

KnownOccasions == DOMAIN Occasions
DefaultOccasion == "casual_outing"
HolidayDefault == "festival_day"
LexiconEntries == [phrase : STRING, occasion : KnownOccasions]
\* Names of the user's own; what a model may answer; a date; what a weather provider tells.
Customs == [phrase : STRING, occasion : KnownOccasions,
            formality : Nat \cup {None}, code : STRING \cup {None}]
ModelAnswers == [occasion : STRING, sure : Nat \cup {None}, alternatives : Seq(STRING)]
PublicDays == [occasion : KnownOccasions, guess : BOOLEAN]
Payloads == [feels : Int \cup {None}, rain : Nat, wind : Nat]
Sources == {"user-stated", "placeholder-no-location", "placeholder-provider-down",
            "forecast", "forecast-cached"}
Weathers == [feels : Int, rain : Nat, wind : Nat, source : Sources]

\* The rules are checked against the taxonomy at load, the lexicon and the table of
\* observances by tests.
ASSUME AskingAssumption ==
  /\ {DefaultOccasion, HolidayDefault} \subseteq KnownOccasions
  /\ \A o \in KnownOccasions : Occasions[o].formality \in Nat
  /\ {Lexicon, Holidays} \subseteq Seq(LexiconEntries)
  /\ \A i \in DOMAIN Lexicon : Length[Lexicon[i].phrase] \in Nat
  /\ IsFiniteSet(Rules)
  /\ Rules \subseteq [phrase : STRING, occasion : KnownOccasions, sure : Nat]
  /\ None \notin KnownOccasions /\ None \notin LexiconEntries /\ None \notin Customs
  /\ None \notin Rules /\ None \notin PublicDays /\ None \notin Weathers /\ None \notin Int
Floor == 60                       \* confidence_floor, MIN_CONFIDENCE

OneOf(S) == IF S = {} THEN None ELSE CHOOSE x \in S : TRUE

\* The longest phrase said, among equals the first of the file.
LongestSaid(entries, text) ==
  OneOf({entries[i] : i \in {j \in DOMAIN entries :
    /\ entries[j].phrase \in text
    /\ \A k \in DOMAIN entries : entries[k].phrase \in text =>
         \/ Length[entries[k].phrase] < Length[entries[j].phrase]
         \/ Length[entries[k].phrase] = Length[entries[j].phrase] /\ k >= j}})

FirstSaid(entries, text) ==
  OneOf({entries[i] : i \in {j \in DOMAIN entries :
    entries[j].phrase \in text /\ \A k \in 1..j - 1 : entries[k].phrase \notin text}})

--------------------------------------------------------------------------------
\* parse(): the weather words of a message.
Stated(message) == message \cap {"cold", "hot", "rain"} # {}
StatedFeels(message) == IF "cold" \in message THEN 12 ELSE IF "hot" \in message THEN 36 ELSE 26
StatedRain(message) == IF "rain" \in message THEN 80 ELSE 0

\* An answer without an apparent temperature is none; a cached one that cannot
\* be read is fetched again.
Usable(payload) == payload # None /\ payload.feels # None

Told(payload, by) ==
  [feels |-> payload.feels, rain |-> payload.rain, wind |-> payload.wind, source |-> by]

Fetch(cached, provider) ==
  IF Usable(cached) THEN Told(cached, "forecast-cached")
  ELSE IF Usable(provider) THEN Told(provider, "forecast") ELSE None

\* sky: [home, cached, provider]
ResolveWeather(feels, rain, wind, sky) ==
  LET forecast == Fetch(sky.cached, sky.provider)
      placeholder(why) == [feels |-> 26, rain |-> rain, wind |-> wind, source |-> why]
  IN  IF feels # None
      THEN [feels |-> feels, rain |-> rain, wind |-> wind, source |-> "user-stated"]
      ELSE IF ~sky.home THEN placeholder("placeholder-no-location")
      ELSE IF forecast = None THEN placeholder("placeholder-provider-down")
      ELSE [feels |-> forecast.feels, rain |-> IF rain > 0 THEN rain ELSE forecast.rain,
            wind |-> IF wind > 0 THEN wind ELSE forecast.wind, source |-> forecast.source]

\* warmth_for_feels_like: the warmest level whose ceiling is not below.
Ceilings == <<34, 30, 26, 21, 16>>
WarmthFor(feels) == Cardinality({n \in 2..5 : Ceilings[n] >= feels}) + 1

ResolveContext(occasion, weather) ==
  LET windy == weather.wind >= 25 /\ WarmthFor(weather.feels) < 5
  IN  [occasion |-> occasion, formality |-> Occasions[occasion].formality,
       code |-> Occasions[occasion].code,
       warmth |-> WarmthFor(weather.feels) + (IF windy THEN 1 ELSE 0),
       windy |-> windy, wet |-> weather.rain >= 40, source |-> weather.source]

\* A custom occasion's own formality and dress code replace the targets.
Nudged(context, own) ==
  [context EXCEPT !.formality = IF own = None \/ own.formality = None THEN @ ELSE own.formality,
                  !.code = IF own = None \/ own.code = None THEN @ ELSE own.code]

--------------------------------------------------------------------------------
\* classify(): every rule that a title of today says.
Matches(titles) == {r \in Rules : \E t \in DOMAIN titles : r.phrase \in titles[t]}
Formal(rule) == Occasions[rule.occasion].formality

\* The dressiest of the confident ones, then the surest.
Classify(titles) ==
  LET sure == {r \in Matches(titles) : r.sure >= Floor}
  IN  OneOf({r \in sure : \A q \in sure :
               Formal(q) < Formal(r) \/ (Formal(q) = Formal(r) /\ q.sure <= r.sure)})

\* GET /calendar/today: a diary is [link, titles]; one that is not connected, whose
\* grant is dead or that does not answer says nothing.
FromDiary(diary) == IF diary.link = "connected" THEN Classify(diary.titles) ELSE None

\* occasion_for_holiday_name
HolidayOccasion(name) == FirstSaid(Holidays, name)

\* names: the public holidays of today, or None without a key or an answer.
FromHolidays(names, table) ==
  LET recognised == {i \in DOMAIN names : HolidayOccasion(names[i]) # None}
      first == CHOOSE i \in recognised : \A j \in recognised : i <= j
  IN  IF names # None /\ names # <<>>
      THEN IF recognised = {} THEN [occasion |-> HolidayDefault, guess |-> TRUE]
           ELSE [occasion |-> HolidayOccasion(names[first]).occasion, guess |-> FALSE]
      ELSE IF table.dated # None THEN [occasion |-> table.dated, guess |-> FALSE]
      ELSE IF table.recurring # None THEN [occasion |-> table.recurring, guess |-> FALSE]
      ELSE None

\* GET /suggestions: what was asked, else the diary, else the date, else a default.
Day(occasion, source, guess) == [occasion |-> occasion, source |-> source, guess |-> guess]

ResolveOccasion(asked, diary, names, table) ==
  LET own == FromDiary(diary)
      public == FromHolidays(names, table)
  IN  IF asked # None
      THEN IF asked \in KnownOccasions THEN Day(asked, "requested", FALSE) ELSE Day(None, "400", FALSE)
      ELSE IF own # None THEN Day(own.occasion, "calendar", FALSE)
      ELSE IF public # None THEN Day(public.occasion, "observance", public.guess)
      ELSE Day(DefaultOccasion, "default", FALSE)

--------------------------------------------------------------------------------
GuessTrusting(answer) ==
  IF answer.occasion \notin KnownOccasions THEN None
  ELSE [occasion |-> answer.occasion, sure |-> IF answer.sure = None THEN 100 ELSE answer.sure,
        others |-> <<>>]

\* validate(), after parse_answer(): an invented occasion is no answer, an unknown
\* alternative is left out; a reply that breaks off before its confidence has none.
Guess(answer) ==
  IF answer.occasion \notin KnownOccasions \cup {"unknown"} THEN None
  ELSE LET occasion == IF answer.occasion = "unknown" THEN None ELSE answer.occasion
           known == {i \in DOMAIN answer.alternatives :
                       answer.alternatives[i] \in KnownOccasions \ {occasion}}
           others == Where(answer.alternatives, known)
       IN  [occasion |-> occasion, sure |-> IF answer.sure = None THEN 0 ELSE answer.sure,
            others |-> SubSeq(others, 1, IF Len(others) < 2 THEN Len(others) ELSE 2)]

\* Without a key, a gateway or an answer in time and shape, the user is asked.
ClassifyMessage(answer) == IF answer = None THEN None ELSE Guess(answer)

Confident(guess) == guess # None /\ guess.occasion # None /\ guess.sure >= Floor

Proposed(guess) ==
  IF guess = None THEN <<>>
  ELSE (IF guess.occasion = None THEN <<>> ELSE <<guess.occasion>>) \o guess.others

AskBack(options) == [asks |-> TRUE, options |-> options, by |-> "nobody", occasion |-> None, own |-> None]
Takes(occasion, by, own) ==
  [asks |-> FALSE, options |-> <<>>, by |-> by, occasion |-> occasion, own |-> own]

\* The longest of one's own names the message holds.
CustomMatch(message, owns) == LongestSaid(owns, message)

\* A name of one's own beats the lexicon, the lexicon beats the model.
Understand(message, owns, answer) ==
  LET own == CustomMatch(message, owns)
      word == LongestSaid(Lexicon, message)
      guess == ClassifyMessage(answer)
  IN  IF own # None THEN Takes(own.occasion, "own", own)
      ELSE IF word # None THEN Takes(word.occasion, "lexicon", None)
      ELSE IF Confident(guess) THEN Takes(guess.occasion, "model", None)
      ELSE AskBack(Proposed(guess))

\* shortfall.validate(): one sentence that does not speak of what the user owns.
Advice(sentence) == IF sentence = "fine" THEN sentence ELSE None

Advise(sentence) == IF sentence = None THEN None ELSE Advice(sentence)

ChatReply(heard, context, gap, advice) ==
  [asks |-> heard.asks, options |-> heard.options, by |-> heard.by, occasion |-> heard.occasion,
   context |-> context, gap |-> gap, advice |-> advice]

\* The default passed on as if it had been said.
FeelsAlways(message) == StatedFeels(message)

\* None unless something was said about the weather.
FeelsGiven(message) == IF Stated(message) THEN StatedFeels(message) ELSE None

\* POST /chat.  found: whether /suggestions found outfits, and what blocks it.
Chat(message, owns, answer, sky, found, sentence) ==
  LET heard == Understand(message, owns, answer)
  IN  IF heard.asks THEN ChatReply(heard, None, None, None)
      ELSE ChatReply(heard,
             Nudged(ResolveContext(heard.occasion,
                      ResolveWeather(FeelsGiven(message), StatedRain(message), 0, sky)), heard.own),
             IF found.outfits THEN None
             ELSE IF found.blocking = <<>> THEN "not enough" ELSE found.blocking[1],
             IF found.outfits THEN None ELSE Advise(sentence))

--------------------------------------------------------------------------------
(* Nobody is dressed for an occasion they did not name: the chat takes one only *)
(* from a name of the user's own, a known phrase (the longest said, whatever    *)
(* shorter one it holds) or a model that said it was sure, and otherwise asks,  *)
(* offering only occasions there are.  Without a wish, the user's diary beats   *)
(* the date and the date the default, a doubtful diary counts for nothing, and  *)
(* with several events no sure one is dressier than the one dressed for.        *)
NobodyDressedByGuess(message, owns, answer, reply) ==
  /\ reply.asks <=> reply.occasion = None
  /\ reply.asks => /\ ToSet(reply.options) \subseteq KnownOccasions /\ Len(reply.options) <= 3
                   /\ reply.options # <<>> => answer # None
  /\ ~reply.asks =>
       /\ reply.occasion \in KnownOccasions
       /\ reply.by = "model" => answer.sure # None /\ answer.sure >= Floor
       /\ reply.by # "own" => \A o \in ToSet(owns) : o.phrase \notin message
       /\ reply.by = "model" => \A e \in ToSet(Lexicon) : e.phrase \notin message
       /\ \A e \in ToSet(IF reply.by = "own" THEN owns ELSE Lexicon) :
            reply.by # "model" /\ e.phrase \in message /\ e.occasion # reply.occasion =>
              \E f \in ToSet(IF reply.by = "own" THEN owns ELSE Lexicon) :
                /\ f.phrase \in message /\ f.occasion = reply.occasion
                /\ Length[f.phrase] >= Length[e.phrase]

DayIsJustified(diary, names, table, day) ==
  LET sure == {r \in Matches(diary.titles) : diary.link = "connected" /\ r.sure >= Floor}
  IN  /\ day.occasion \in KnownOccasions
      /\ day.source = "calendar" <=> sure # {}
      /\ sure # {} => /\ \E r \in sure : r.occasion = day.occasion
                      /\ \A r \in sure : Formal(r) <= Occasions[day.occasion].formality
      /\ day.source = "default" => table = [dated |-> None, recurring |-> None]
      /\ day.guess => \A i \in DOMAIN names : HolidayOccasion(names[i]) = None

(* Colder, windier or wetter never dresses lighter: the warmth target falls as  *)
(* the temperature rises, wind raises it by one step at most, and a forecast    *)
(* that is cached, missing or broken changes only where the number comes from.  *)
WeatherIsMonotone(sky, wind) ==
  /\ \A a, b \in 5..40 : a <= b => WarmthFor(b) <= WarmthFor(a)
  /\ \A feels \in {None} \cup 10..36 : \A rain \in {0, 80} :
       LET weather == ResolveWeather(feels, rain, wind, sky)
           context == ResolveContext(DefaultOccasion, weather)
           calm == ResolveContext(DefaultOccasion, [weather EXCEPT !.wind = 0])
       IN  /\ context.warmth - calm.warmth \in {0, 1} /\ context.warmth \in 1..5
           /\ rain > 0 => context.wet
           /\ feels # None => weather.source = "user-stated" /\ weather.feels = feels
           /\ Usable(sky.cached) /\ feels = None /\ sky.home => weather.feels = sky.cached.feels
           /\ WarmthFor(weather.feels) = 5 \/ Ceilings[WarmthFor(weather.feels) + 1] < weather.feels

(* The reply is dressed for the sky: who says nothing of the weather gets the  *)
(* forecast, named as one, and a placeholder only when there is none; rain the  *)
(* user speaks of is never forgotten; who says cold is dressed for cold.  What  *)
(* a message says of the weather besides its temperature may still replace the  *)
(* forecast's temperature: TemperatureIsTheUsers (chat.py, context.py).         *)
DressedForTheSky(message, sky, reply) ==
  LET context == reply.context
      told == IF sky.home THEN Fetch(sky.cached, sky.provider) ELSE None
  IN  ~reply.asks =>
        /\ "rain" \in message => context.wet
        /\ "cold" \in message => context.warmth >= WarmthFor(12)
        /\ ~Stated(message) /\ told = None =>
             context.source \in {"placeholder-no-location", "placeholder-provider-down"}
        /\ ~Stated(message) /\ told # None =>
             /\ context.source = told.source /\ (context.wet <=> told.rain >= 40)
             /\ context.warmth - WarmthFor(told.feels) \in {0, 1}

(* "None UNLESS THE USER ACTUALLY SAID SOMETHING ABOUT THE WEATHER ... so the    *)
(* forecast for the user's own city was fetched, then ignored, and the response *)
(* reported `user-stated` for a temperature the user never stated"              *)
(* (chat.py:347-355): a temperature is called the user's only when they gave    *)
(* one.                                                                         *)
TemperatureIsTheUsers(message, reply) ==
  ~reply.asks /\ reply.context.source = "user-stated" => message \cap {"cold", "hot"} # {}
================================================================================
