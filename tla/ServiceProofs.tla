------------------------------ MODULE ServiceProofs -----------------------------
(* Proofs about what a user is shown and what lets them in: what they are asked and
   dressed for, what their wardrobe serves, the garments of a photo, the score and
   the order of outfits, the shop, accounts and partner keys, the links to Google,
   the stream over a job.  Any number of products, orders, callers, outfits, masks,
   sessions, keys and streams.  What a sum or a loop gives is proved of the first
   place where it would not (LeastNat). *)
EXTENDS MCService, WellFoundedInduction, SequenceTheorems, FiniteSetTheorems, TLAPS

--------------------------------------------------------------------------------
(* Sequences by what stands at each place; messages, days and weather. *)
LEMMA LeastNat ==
  ASSUME NEW T \in SUBSET Nat, T # {} PROVE \E m \in T : \A k \in T : m <= k
<1>1. PICK m \in T : \A k \in T : ~(<<k, m>> \in OpToRel(<, Nat))
  BY NatLessThanWellFounded, WFMin
<1>2. \A k \in T : ~(k < m)
  BY <1>1 DEF OpToRel
<1> QED
  BY <1>2

LEMMA SegmentFinite == ASSUME NEW n \in Nat PROVE IsFiniteSet(1..n)
<1>1. 1 \in Int /\ n \in Int
  OBVIOUS
<1> QED
  BY <1>1, FS_Interval

StrictOrder(S, before) ==
  /\ \A i \in S : <<i, i>> \notin before
  /\ \A i, j, k \in S : <<i, j>> \in before /\ <<j, k>> \in before => <<i, k>> \in before
  /\ \A i, j \in S : i # j => <<i, j>> \in before \/ <<j, i>> \in before

Preceding(S, before, i) == {j \in S : <<j, i>> \in before}

LEMMA FewerBefore ==
  ASSUME NEW S, NEW before, IsFiniteSet(S), StrictOrder(S, before),
         NEW i \in S
  PROVE  /\ Cardinality(Preceding(S, before, i)) \in 0..Cardinality(S) - 1
         /\ \A j \in S : <<i, j>> \in before =>
              Cardinality(Preceding(S, before, i)) < Cardinality(Preceding(S, before, j))
<1>1. \A k \in S : IsFiniteSet(Preceding(S, before, k)) /\ Cardinality(Preceding(S, before, k)) \in Nat
  BY FS_Subset, FS_CardinalityType DEF Preceding
<1>2. \A T \in SUBSET S : Preceding(S, before, i) \subseteq T /\ i \in T
        => Cardinality(Preceding(S, before, i)) < Cardinality(T)
  <2> SUFFICES ASSUME NEW T \in SUBSET S, Preceding(S, before, i) \subseteq T, i \in T
               PROVE  Cardinality(Preceding(S, before, i)) < Cardinality(T)
    OBVIOUS
  <2>1. i \notin Preceding(S, before, i)
    BY DEF Preceding, StrictOrder
  <2>2. IsFiniteSet(T) /\ Cardinality(T) \in Nat
    BY FS_Subset, FS_CardinalityType
  <2>3. /\ Cardinality(Preceding(S, before, i)) <= Cardinality(T)
        /\ Cardinality(T) = Cardinality(Preceding(S, before, i)) => T = Preceding(S, before, i)
    BY <2>2, FS_Subset
  <2> QED
    BY <1>1, <2>1, <2>2, <2>3
<1>3. Cardinality(Preceding(S, before, i)) < Cardinality(S) /\ Cardinality(S) \in Nat
  BY <1>2, FS_CardinalityType DEF Preceding
<1>4. ASSUME NEW j \in S, <<i, j>> \in before
      PROVE  Cardinality(Preceding(S, before, i)) < Cardinality(Preceding(S, before, j))
  <2>1. Preceding(S, before, i) \subseteq Preceding(S, before, j) /\ i \in Preceding(S, before, j)
    BY <1>4 DEF Preceding, StrictOrder
  <2>2. Preceding(S, before, j) \in SUBSET S
    BY DEF Preceding
  <2> QED
    BY <1>2, <2>1, <2>2
<1> QED
  BY <1>1, <1>3, <1>4

\* Every place is taken once: a member has as many before it as its place says.
LEMMA OrderedPlaces ==
  ASSUME NEW S, NEW before, IsFiniteSet(S), StrictOrder(S, before)
  PROVE  /\ Ordered(S, before) \in Bijection(1..Cardinality(S), S)
         /\ \A k, l \in 1..Cardinality(S) :
              k < l <=> <<Ordered(S, before)[k], Ordered(S, before)[l]>> \in before
<1> DEFINE n == Cardinality(S)
           rank == [i \in S |-> Cardinality(Preceding(S, before, i))]
<1>1. n \in Nat
  BY FS_CardinalityType
<1>2. \A i, j \in S : <<i, j>> \in before => rank[i] < rank[j]
  BY FewerBefore
<1>3. rank \in [S -> 0..n - 1]
  BY FewerBefore
<1>4. \A i, j \in S : rank[i] = rank[j] => i = j
  <2> SUFFICES ASSUME NEW i \in S, NEW j \in S, rank[i] = rank[j], i # j PROVE FALSE
    OBVIOUS
  <2>1. rank[i] < rank[j] \/ rank[j] < rank[i]
    BY <1>2 DEF StrictOrder
  <2>2. rank[i] \in Int /\ rank[j] \in Int
    BY <1>3
  <2> HIDE DEF rank
  <2> QED
    BY <2>1, <2>2
<1>5. rank \in Injection(S, 0..n - 1)
  BY <1>3, <1>4 DEF Injection, IsInjective
<1>6. IsFiniteSet(0..n - 1) /\ Cardinality(0..n - 1) = n
  <2> DEFINE l == 0 m == n - 1
  <2>1. l \in Int /\ m \in Int
    BY <1>1
  <2> HIDE DEF l, m
  <2>2. IsFiniteSet(l..m) /\ Cardinality(l..m) = IF l > m THEN 0 ELSE m - l + 1
    BY <2>1, FS_Interval
  <2> QED
    BY <2>1, <2>2, <1>1 DEF l, m
<1>7. rank \in Surjection(S, 0..n - 1)
  <2> HIDE DEF rank, n
  <2> QED
    BY <1>5, <1>6, FS_Injection DEF n
<1> DEFINE at == Ordered(S, before)
<1>8. \A k \in 1..n : at[k] \in S /\ rank[at[k]] = k - 1
  <2> SUFFICES ASSUME NEW k \in 1..n PROVE at[k] \in S /\ rank[at[k]] = k - 1
    OBVIOUS
  <2>1. PICK i \in S : rank[i] = k - 1
    <3>1. k - 1 \in 0..n - 1
      BY <1>1
    <3> HIDE DEF rank
    <3> QED
      BY <3>1, <1>7 DEF Surjection
  <2>2. at[k] = CHOOSE j \in S : Cardinality({h \in S : <<h, j>> \in before}) = k - 1
    BY DEF Ordered
  <2>3. \A j \in S : rank[j] = Cardinality({h \in S : <<h, j>> \in before})
    BY DEF Preceding
  <2>4. \E j \in S : Cardinality({h \in S : <<h, j>> \in before}) = k - 1
    BY <2>1, <2>3
  <2>5. at[k] \in S /\ Cardinality({h \in S : <<h, at[k]>> \in before}) = k - 1
    <3> HIDE DEF at, rank
    <3> QED
      BY <2>2, <2>4
  <2> HIDE DEF at, rank
  <2> QED
    BY <2>3, <2>5
<1>9. DOMAIN at = 1..n
  BY DEF Ordered
<1>10. at \in [1..n -> S]
  <2> DEFINE pick(k) == CHOOSE i \in S : Cardinality({j \in S : <<j, i>> \in before}) = k - 1
  <2>1. at = [k \in 1..n |-> pick(k)]
    BY DEF Ordered
  <2> HIDE DEF at, n, pick, rank
  <2> QED
    BY <2>1, <1>8
<1> HIDE DEF at, rank, n
<1>11. \A i \in S : \E k \in 1..n : at[k] = i
  <2> TAKE i \in S
  <2>1. rank[i] \in 0..n - 1
    BY <1>3
  <2>2. rank[i] + 1 \in 1..n /\ (rank[i] + 1) - 1 = rank[i]
    BY <2>1, <1>1
  <2>3. rank[at[rank[i] + 1]] = rank[i] /\ at[rank[i] + 1] \in S
    BY <2>2, <1>8
  <2> QED
    BY <2>2, <2>3, <1>4
<1>12. \A k, l \in 1..n : at[k] = at[l] => k = l
  <2> TAKE k, l \in 1..n
  <2>1. rank[at[k]] = k - 1 /\ rank[at[l]] = l - 1
    BY <1>8
  <2> QED
    BY <2>1, <1>1
<1>13. at \in Bijection(1..n, S)
  BY <1>10, <1>11, <1>12 DEF Bijection, Injection, Surjection, IsInjective
<1>14. \A k, l \in 1..n : k < l <=> <<at[k], at[l]>> \in before
  <2> TAKE k, l \in 1..n
  <2>1. at[k] \in S /\ at[l] \in S /\ rank[at[k]] = k - 1 /\ rank[at[l]] = l - 1
    BY <1>8
  <2>2. <<at[k], at[l]>> \in before => k - 1 < l - 1
    BY <2>1, <1>2
  <2>3. <<at[l], at[k]>> \in before => l - 1 < k - 1
    BY <2>1, <1>2
  <2>4. k < l => at[k] # at[l]
    BY <1>12
  <2>5. at[k] # at[l] => <<at[k], at[l]>> \in before \/ <<at[l], at[k]>> \in before
    BY <2>1 DEF StrictOrder
  <2> QED
    BY <2>2, <2>3, <2>4, <2>5, <1>1
<1> QED
  BY <1>13, <1>14 DEF at, n

\* What stands at some indices of a sequence, in its order.
LEMMA IncreasingPlaces ==
  ASSUME NEW I \in SUBSET Nat, IsFiniteSet(I)
  PROVE  /\ Cardinality(I) \in Nat
         /\ Increasing(I) \in Bijection(1..Cardinality(I), I)
         /\ \A k, l \in 1..Cardinality(I) : k < l <=> Increasing(I)[k] < Increasing(I)[l]
<1> DEFINE less == {p \in I \X I : p[1] < p[2]}
<1>1. \A i, j \in I : <<i, j>> \in less <=> i < j
  OBVIOUS
<1>2. StrictOrder(I, less)
  BY <1>1 DEF StrictOrder
<1> HIDE DEF less
<1>3. /\ Ordered(I, less) \in Bijection(1..Cardinality(I), I)
      /\ \A k, l \in 1..Cardinality(I) :
           k < l <=> <<Ordered(I, less)[k], Ordered(I, less)[l]>> \in less
  BY <1>2, OrderedPlaces
<1>4. Increasing(I) = Ordered(I, less)
  BY DEF Increasing, less
<1>5. \A k \in 1..Cardinality(I) : Increasing(I)[k] \in I
  BY <1>3, <1>4 DEF Bijection, Injection
<1>6. Cardinality(I) \in Nat
  BY FS_CardinalityType
<1> QED
  BY <1>1, <1>3, <1>4, <1>5, <1>6

LEMMA WhereHolds ==
  ASSUME NEW s, NEW n \in Nat, DOMAIN s = 1..n, NEW I \in SUBSET (1..n)
  PROVE  /\ Cardinality(I) \in Nat /\ DOMAIN Where(s, I) = 1..Cardinality(I)
         /\ \A k \in 1..Cardinality(I) : \E i \in I : Where(s, I)[k] = s[i]
         /\ \A i \in I : \E k \in 1..Cardinality(I) : Where(s, I)[k] = s[i]
<1>1. IsFiniteSet(1..n)
  BY FS_Interval
<1>0. IsFiniteSet(I) /\ I \in SUBSET Nat
  <2> DEFINE N == 1..n
  <2>1. \A i \in N : i \in Nat
    OBVIOUS
  <2>2. I \in SUBSET N /\ IsFiniteSet(N)
    BY <1>1
  <2> HIDE DEF N
  <2> QED
    BY <2>1, <2>2, FS_Subset
<1>2. /\ Cardinality(I) \in Nat
      /\ Increasing(I) \in Bijection(1..Cardinality(I), I)
  BY <1>0, IncreasingPlaces
<1>3. \A k \in 1..Cardinality(I) : Where(s, I)[k] = s[Increasing(I)[k]]
  BY DEF Where
<1> QED
  BY <1>2, <1>3 DEF Where, Bijection, Injection, Surjection

\* A finite set has a first member.
LEMMA FirstThere ==
  ASSUME NEW S, S # {}, NEW before, IsFiniteSet(S), StrictOrder(S, before)
  PROVE  \E i \in S : \A j \in S : j = i \/ <<i, j>> \in before
<1> DEFINE at == Ordered(S, before) n == Cardinality(S)
<1>1. n \in Nat /\ n # 0
  BY FS_CardinalityType, FS_EmptySet
<1>2. /\ at \in Bijection(1..n, S)
      /\ \A k, l \in 1..n : k < l <=> <<at[k], at[l]>> \in before
  BY OrderedPlaces
<1> HIDE DEF at, n
<1>3. 1 \in 1..n /\ at[1] \in S
  BY <1>1, <1>2 DEF Bijection, Injection
<1>4. ASSUME NEW j \in S PROVE j = at[1] \/ <<at[1], j>> \in before
  <2>1. PICK k \in 1..n : at[k] = j
    BY <1>2 DEF Bijection, Surjection
  <2>2. k = 1 \/ 1 < k
    BY <1>1
  <2> QED
    BY <2>1, <2>2, <1>2, <1>3
<1> QED
  BY <1>3, <1>4

\* Numbers attached to a finite set have a greatest.
LEMMA GreatestThere ==
  ASSUME NEW S, S # {}, IsFiniteSet(S), NEW value \in [S -> Int]
  PROVE  \E i \in S : \A j \in S : value[j] <= value[i]
<1> DEFINE V == {value[i] : i \in S} above == {p \in V \X V : p[1] > p[2]}
<1>1. V # {} /\ V \subseteq Int
  OBVIOUS
<1>2. IsFiniteSet(V)
  <2>1. value \in Surjection(S, V)
    BY DEF Surjection
  <2> HIDE DEF V
  <2> QED
    BY <2>1, FS_Surjection
<1>3. \A a, b \in V : <<a, b>> \in above <=> a > b
  OBVIOUS
<1>5. \A v \in V : \E i \in S : v = value[i]
  OBVIOUS
<1>6. \A i \in S : value[i] \in V
  OBVIOUS
<1> HIDE DEF V, above
<1>4. StrictOrder(V, above)
  BY <1>1, <1>3 DEF StrictOrder
<1>7. \E v \in V : \A w \in V : w = v \/ <<v, w>> \in above
  <2>1. V # {}
    BY <1>1
  <2> QED
    BY <2>1, <1>2, <1>4, FirstThere
<1>8. PICK v \in V : \A w \in V : w = v \/ <<v, w>> \in above
  BY <1>7
<1>9. \A w \in V : w <= v
  <2> TAKE w \in V
  <2>1. v \in Int /\ w \in Int
    BY <1>1
  <2>2. w = v \/ v > w
    BY <1>3, <1>8
  <2> QED
    BY <2>1, <2>2
<1> QED
  BY <1>5, <1>6, <1>9

--------------------------------------------------------------------------------
LEMMA OneOfThem == ASSUME NEW S PROVE S # {} => OneOf(S) \in S
BY DEF OneOf

\* The longest phrase said is found if any is said.
LEMMA LongestIsSaid ==
  ASSUME NEW entries, NEW n \in Nat, DOMAIN entries = 1..n, NEW text,
         \A i \in 1..n : Length[entries[i].phrase] \in Nat /\ entries[i] # None
  PROVE  /\ LongestSaid(entries, text) = None <=> \A i \in 1..n : entries[i].phrase \notin text
         /\ LongestSaid(entries, text) # None =>
              \E j \in 1..n :
                /\ LongestSaid(entries, text) = entries[j] /\ entries[j].phrase \in text
                /\ \A k \in 1..n : entries[k].phrase \in text =>
                     Length[entries[k].phrase] <= Length[entries[j].phrase]
<1> DEFINE word == {i \in 1..n : entries[i].phrase \in text}
           size(i) == Length[entries[i].phrase]
           before == {p \in word \X word : \/ size(p[2]) < size(p[1])
                                           \/ size(p[1]) = size(p[2]) /\ p[1] < p[2]}
           best == {entries[i] : i \in {j \in DOMAIN entries :
                     /\ entries[j].phrase \in text
                     /\ \A k \in DOMAIN entries : entries[k].phrase \in text =>
                          \/ size(k) < size(j)
                          \/ size(k) = size(j) /\ k >= j}}
<1>1. LongestSaid(entries, text) = OneOf(best)
  BY DEF LongestSaid
<1>2. \A e \in best : \E j \in 1..n : e = entries[j] /\ entries[j].phrase \in text
                        /\ \A k \in 1..n : entries[k].phrase \in text => size(k) <= size(j)
  OBVIOUS
<1>3. \A i, j \in word : <<i, j>> \in before <=> \/ size(j) < size(i)
                                                 \/ size(i) = size(j) /\ i < j
  OBVIOUS
<1>4. \A i \in word : size(i) \in Nat /\ i \in Nat
  OBVIOUS
<1>5. IsFiniteSet(word)
  <2>1. IsFiniteSet(1..n) /\ word \in SUBSET (1..n)
    BY FS_Interval
  <2> HIDE DEF word
  <2> DEFINE N == 1..n
  <2>2. IsFiniteSet(N) /\ word \in SUBSET N
    BY <2>1
  <2> HIDE DEF N
  <2> QED
    BY <2>2, FS_Subset
<1>6. word # {} => best # {}
  <2> SUFFICES ASSUME word # {} PROVE best # {}
    OBVIOUS
  <2>1. StrictOrder(word, before)
    <3> HIDE DEF word, before, size
    <3> QED
      BY <1>3, <1>4 DEF StrictOrder
  <2>2. PICK i \in word : \A j \in word : j = i \/ <<i, j>> \in before
    <3> HIDE DEF word, before, size
    <3> QED
      BY <2>1, <1>5, FirstThere
  <2>3. \A k \in word : size(k) < size(i) \/ (size(k) = size(i) /\ k >= i)
    <3> HIDE DEF word, before, size
    <3> TAKE k \in word
    <3>0. k = i \/ <<i, k>> \in before
      BY <2>2
    <3>1. k = i \/ size(k) < size(i) \/ (size(i) = size(k) /\ i < k)
      BY <3>0, <1>3
    <3> QED
      BY <3>1, <1>4
  <2>4. entries[i] \in best
    BY <2>3
  <2> QED
    BY <2>4
<1>7. best # {} => OneOf(best) \in best
  BY OneOfThem
<1>8. best = {} => OneOf(best) = None
  BY DEF OneOf
<1>9. None \notin best
  OBVIOUS
<1>10. word = {} <=> \A i \in 1..n : entries[i].phrase \notin text
  OBVIOUS
<1>11. word = {} => best = {}
  OBVIOUS
<1> HIDE DEF word, best
<1> QED
  BY <1>1, <1>2, <1>6, <1>7, <1>8, <1>9, <1>10, <1>11 DEF size

LEMMA LexiconIsThere ==
  \E n \in Nat : /\ DOMAIN Lexicon = 1..n
                 /\ \A i \in 1..n : /\ Lexicon[i] \in LexiconEntries /\ Lexicon[i] # None
                                    /\ Length[Lexicon[i].phrase] \in Nat
<1>1. Lexicon \in Seq(LexiconEntries) /\ None \notin LexiconEntries
  BY AskingAssumption
<1>2. Len(Lexicon) \in Nat /\ DOMAIN Lexicon = 1..Len(Lexicon)
  BY <1>1
<1>3. \A i \in 1..Len(Lexicon) : Lexicon[i] \in LexiconEntries
  BY <1>1
<1>4. \A i \in DOMAIN Lexicon : Length[Lexicon[i].phrase] \in Nat
  BY AskingAssumption
<1> QED
  BY <1>1, <1>2, <1>3, <1>4

\* What is left of a model's answer: known occasions, and a confidence it gave.
LEMMA GuessIsKnown ==
  ASSUME NEW says \in ModelAnswers, Guess(says) # None
  PROVE  /\ Guess(says).occasion \in KnownOccasions \cup {None}
         /\ Guess(says).sure \in Nat
         /\ Guess(says).sure # 0 => says.sure # None /\ says.sure = Guess(says).sure
         /\ Guess(says).others \in Seq(KnownOccasions)
         /\ Len(Guess(says).others) <= 2
<1> DEFINE occasion == IF says.occasion = "unknown" THEN None ELSE says.occasion
           alternatives == says.alternatives
           valid == {i \in DOMAIN alternatives : alternatives[i] \in KnownOccasions \ {occasion}}
           others == Where(alternatives, valid)
           last == IF Len(others) < 2 THEN Len(others) ELSE 2
<1>1. /\ says.occasion \in KnownOccasions \cup {"unknown"}
      /\ Guess(says).occasion = occasion
      /\ Guess(says).sure = IF says.sure = None THEN 0 ELSE says.sure
      /\ Guess(says).others = SubSeq(others, 1, last)
  BY DEF Guess
<1>2. alternatives \in Seq(STRING) /\ says.sure \in Nat \cup {None}
  BY DEF ModelAnswers
<1>3. Len(alternatives) \in Nat /\ DOMAIN alternatives = 1..Len(alternatives)
  BY <1>2
<1>4. valid \in SUBSET (1..Len(alternatives))
  BY <1>3
<1>5. \A i \in valid : alternatives[i] \in KnownOccasions
  OBVIOUS
<1>6. occasion \in KnownOccasions \cup {None}
  BY <1>1
<1> HIDE DEF valid, alternatives, occasion
<1>7. /\ Cardinality(valid) \in Nat /\ DOMAIN others = 1..Cardinality(valid)
      /\ \A k \in 1..Cardinality(valid) : \E i \in valid : others[k] = alternatives[i]
  BY <1>3, <1>4, WhereHolds
<1>8. \A k \in 1..Cardinality(valid) : others[k] \in KnownOccasions
  BY <1>5, <1>7
<1>9. Len(others) = Cardinality(valid)
  BY <1>7 DEF Where
<1> HIDE DEF others
<1>10. last \in Nat /\ last <= 2 /\ \A i \in 1..last : others[i] \in KnownOccasions
  BY <1>7, <1>8, <1>9
<1> HIDE DEF last
<1>11. /\ SubSeq(others, 1, last) \in Seq(KnownOccasions)
       /\ Len(SubSeq(others, 1, last)) = IF 1 <= last THEN last - 1 + 1 ELSE 0
  BY <1>10, SubSeqProperties
<1> QED
  BY <1>1, <1>2, <1>6, <1>10, <1>11, AskingAssumption

LEMMA MembersAre == ASSUME NEW S, NEW s \in Seq(S) PROVE ToSet(s) \subseteq S
BY DEF ToSet

\* What is offered when the user is asked back.
LEMMA ProposedAreKnown ==
  ASSUME NEW says \in ModelAnswers \cup {None}
  PROVE  /\ ToSet(Proposed(ClassifyMessage(says))) \subseteq KnownOccasions
         /\ Len(Proposed(ClassifyMessage(says))) <= 3
         /\ Proposed(ClassifyMessage(says)) # <<>> => says # None
<1> DEFINE guess == ClassifyMessage(says)
<1>1. CASE guess = None
  <2>1. Proposed(guess) = <<>>
    BY <1>1 DEF Proposed
  <2>2. ToSet(<<>>) = {} /\ Len(<<>>) = 0
    BY DEF ToSet
  <2> QED
    BY <2>1, <2>2
<1>2. CASE guess # None
  <2>1. says # None /\ guess = Guess(says)
    BY <1>2 DEF ClassifyMessage
  <2>2. /\ guess.occasion \in KnownOccasions \cup {None}
        /\ guess.others \in Seq(KnownOccasions) /\ Len(guess.others) <= 2
    BY <1>2, <2>1, GuessIsKnown
  <2> DEFINE first == IF guess.occasion = None THEN <<>> ELSE <<guess.occasion>>
             others == guess.others
  <2>3. first \in Seq(KnownOccasions) /\ Len(first) <= 1
    BY <2>2
  <2>4. Proposed(guess) = first \o others
    BY <1>2 DEF Proposed
  <2> HIDE DEF first, others, guess
  <2>5. others \in Seq(KnownOccasions) /\ Len(others) <= 2
    BY <2>2 DEF others
  <2>6. first \o others \in Seq(KnownOccasions) /\ Len(first \o others) = Len(first) + Len(others)
    BY <2>3, <2>5, ConcatProperties
  <2>7. Len(first) \in Nat /\ Len(others) \in Nat
    BY <2>3, <2>5
  <2>8. Proposed(guess) \in Seq(KnownOccasions) /\ Len(Proposed(guess)) <= 3
    BY <2>3, <2>4, <2>5, <2>6, <2>7
  <2>9. ToSet(Proposed(guess)) \subseteq KnownOccasions
    BY <2>8, MembersAre
  <2> QED
    BY <2>1, <2>8, <2>9 DEF guess
<1> QED
  BY <1>1, <1>2

\* Nobody is dressed by a guess, whatever is said and whatever the model answers.
LEMMA ChatDressesNobodyByGuess ==
  ASSUME NEW message, NEW owns \in Seq(Customs),
         \A i \in DOMAIN owns : Length[owns[i].phrase] \in Nat,
         NEW says \in ModelAnswers \cup {None}, NEW sky, NEW found, NEW sentence
  PROVE  NobodyDressedByGuess(message, owns, says,
                              Chat(message, owns, says, sky, found, sentence))
<1> DEFINE understood == Understand(message, owns, says)
           reply == Chat(message, owns, says, sky, found, sentence)
           own == CustomMatch(message, owns)
           word == LongestSaid(Lexicon, message)
           guess == ClassifyMessage(says)
<1>1. /\ reply.asks = understood.asks /\ reply.options = understood.options
      /\ reply.by = understood.by /\ reply.occasion = understood.occasion
  BY DEF Chat, ChatReply, FeelsGiven
<1>2. /\ own # None => understood = Takes(own.occasion, "own", own)
      /\ own = None /\ word # None => understood = Takes(word.occasion, "lexicon", None)
      /\ own = None /\ word = None /\ Confident(guess) =>
           understood = Takes(guess.occasion, "model", None)
      /\ own = None /\ word = None /\ ~Confident(guess) => understood = AskBack(Proposed(guess))
  BY DEF Understand
<1>3. Len(owns) \in Nat /\ DOMAIN owns = 1..Len(owns) /\ \A i \in 1..Len(owns) : owns[i] \in Customs
  OBVIOUS
<1>4. \A i \in 1..Len(owns) : /\ owns[i] # None /\ owns[i].occasion \in KnownOccasions
                              /\ Length[owns[i].phrase] \in Nat
  BY <1>3, AskingAssumption DEF Customs
<1>5. /\ own = None <=> \A i \in 1..Len(owns) : owns[i].phrase \notin message
      /\ own # None =>
           \E j \in 1..Len(owns) :
             /\ own = owns[j] /\ owns[j].phrase \in message
             /\ \A k \in 1..Len(owns) : owns[k].phrase \in message =>
                  Length[owns[k].phrase] <= Length[owns[j].phrase]
  <2>1. PICK n \in Nat : n = Len(owns)
    BY <1>3, Zenon
  <2>2. DOMAIN owns = 1..n /\ \A i \in 1..n : Length[owns[i].phrase] \in Nat /\ owns[i] # None
    BY <1>3, <1>4, <2>1
  <2>3. own = LongestSaid(owns, message)
    BY DEF CustomMatch
  <2> HIDE DEF own
  <2>4. own = None <=> \A i \in 1..n : owns[i].phrase \notin message
    BY <2>2, <2>3, LongestIsSaid
  <2>5. own # None =>
          \E j \in 1..n :
            /\ own = owns[j] /\ owns[j].phrase \in message
            /\ \A k \in 1..n : owns[k].phrase \in message =>
                 Length[owns[k].phrase] <= Length[owns[j].phrase]
    BY <2>2, <2>3, LongestIsSaid
  <2> QED
    BY <2>1, <2>4, <2>5
<1>6. PICK n \in Nat : /\ DOMAIN Lexicon = 1..n
                       /\ \A i \in 1..n : /\ Lexicon[i] \in LexiconEntries /\ Lexicon[i] # None
                                          /\ Length[Lexicon[i].phrase] \in Nat
  BY LexiconIsThere
<1>7. /\ word = None <=> \A i \in 1..n : Lexicon[i].phrase \notin message
      /\ word # None =>
           \E j \in 1..n :
             /\ word = Lexicon[j] /\ Lexicon[j].phrase \in message
             /\ \A k \in 1..n : Lexicon[k].phrase \in message =>
                  Length[Lexicon[k].phrase] <= Length[Lexicon[j].phrase]
  <2>1. n \in Nat /\ DOMAIN Lexicon = 1..n
    BY <1>6, Zenon
  <2>2. \A i \in 1..n : Length[Lexicon[i].phrase] \in Nat /\ Lexicon[i] # None
    BY <1>6, Zenon
  <2>3. /\ word = None <=> \A i \in 1..n : Lexicon[i].phrase \notin message
        /\ word # None =>
             \E j \in 1..n :
               /\ word = Lexicon[j] /\ Lexicon[j].phrase \in message
               /\ \A k \in 1..n : Lexicon[k].phrase \in message =>
                    Length[Lexicon[k].phrase] <= Length[Lexicon[j].phrase]
    BY <2>1, <2>2, LongestIsSaid
  <2> QED
    BY <2>3, Zenon
<1>8. \A i \in 1..n : Lexicon[i].occasion \in KnownOccasions
  BY <1>6 DEF LexiconEntries
<1>9. \A o : o \in ToSet(owns) <=> \E i \in 1..Len(owns) : o = owns[i]
  BY <1>3 DEF ToSet
<1>10. \A e : e \in ToSet(Lexicon) <=> \E i \in 1..n : e = Lexicon[i]
  BY <1>6 DEF ToSet
<1>11. None \notin KnownOccasions
  BY AskingAssumption
<1> SUFFICES NobodyDressedByGuess(message, owns, says, reply)
  OBVIOUS
<1> HIDE DEF understood, reply, own, word, guess
<1> DEFINE Justified ==
      /\ reply.occasion \in KnownOccasions
      /\ reply.by = "model" => says.sure # None /\ says.sure >= Floor
      /\ reply.by # "own" => \A o \in ToSet(owns) : o.phrase \notin message
      /\ reply.by = "model" => \A e \in ToSet(Lexicon) : e.phrase \notin message
      /\ \A e \in ToSet(IF reply.by = "own" THEN owns ELSE Lexicon) :
           reply.by # "model" /\ e.phrase \in message /\ e.occasion # reply.occasion =>
             \E f \in ToSet(IF reply.by = "own" THEN owns ELSE Lexicon) :
               /\ f.phrase \in message /\ f.occasion = reply.occasion
               /\ Length[f.phrase] >= Length[e.phrase]
<1>12. CASE own # None
  <2>1. /\ reply.asks = FALSE /\ reply.occasion = own.occasion /\ reply.by = "own"
    BY <1>1, <1>2, <1>12 DEF Takes
  <2>2. PICK j \in 1..Len(owns) : /\ own = owns[j] /\ owns[j].phrase \in message
                                  /\ \A k \in 1..Len(owns) : owns[k].phrase \in message =>
                                       Length[owns[k].phrase] <= Length[owns[j].phrase]
    BY <1>5, <1>12
  <2>3. reply.occasion \in KnownOccasions
    BY <1>4, <2>1, <2>2
  <2>4. ASSUME NEW e \in ToSet(owns), e.phrase \in message
        PROVE  \E f \in ToSet(owns) : /\ f.phrase \in message /\ f.occasion = reply.occasion
                                      /\ Length[f.phrase] >= Length[e.phrase]
    <3>1. PICK k \in 1..Len(owns) : e = owns[k]
      BY <1>9
    <3>2. Length[owns[k].phrase] <= Length[owns[j].phrase]
      BY <2>2, <2>4, <3>1
    <3>3. Length[owns[j].phrase] >= Length[e.phrase]
      BY <1>4, <3>1, <3>2
    <3> QED
      BY <1>9, <2>1, <2>2, <3>3
  <2>5. Justified
    BY <2>1, <2>3, <2>4
  <2> QED
    BY <2>1, <2>3, <2>5, <1>11 DEF NobodyDressedByGuess
<1>13. CASE own = None /\ word # None
  <2>1. /\ reply.asks = FALSE /\ reply.occasion = word.occasion /\ reply.by = "lexicon"
    BY <1>1, <1>2, <1>13 DEF Takes
  <2>2. PICK j \in 1..n : /\ word = Lexicon[j] /\ Lexicon[j].phrase \in message
                          /\ \A k \in 1..n : Lexicon[k].phrase \in message =>
                               Length[Lexicon[k].phrase] <= Length[Lexicon[j].phrase]
    BY <1>7, <1>13
  <2>3. reply.occasion \in KnownOccasions
    BY <1>8, <2>1, <2>2
  <2>4. ASSUME NEW e \in ToSet(Lexicon), e.phrase \in message
        PROVE  \E f \in ToSet(Lexicon) : /\ f.phrase \in message /\ f.occasion = reply.occasion
                                         /\ Length[f.phrase] >= Length[e.phrase]
    <3>1. PICK k \in 1..n : e = Lexicon[k]
      BY <1>10
    <3>2. Length[Lexicon[k].phrase] <= Length[Lexicon[j].phrase]
      BY <2>2, <2>4, <3>1
    <3>3. Length[Lexicon[j].phrase] >= Length[e.phrase]
      BY <1>6, <3>1, <3>2
    <3> QED
      BY <1>10, <2>1, <2>2, <3>3
  <2>5. \A o \in ToSet(owns) : o.phrase \notin message
    BY <1>5, <1>9, <1>13
  <2>6. Justified
    BY <2>1, <2>3, <2>4, <2>5
  <2> QED
    BY <2>1, <2>3, <2>6, <1>11 DEF NobodyDressedByGuess
<1>14. CASE own = None /\ word = None /\ Confident(guess)
  <2>1. /\ reply.asks = FALSE /\ reply.occasion = guess.occasion /\ reply.by = "model"
    BY <1>1, <1>2, <1>14 DEF Takes
  <2>2. says \in ModelAnswers /\ guess = Guess(says) /\ guess # None
        /\ guess.occasion # None /\ guess.sure >= 60
    BY <1>14 DEF Confident, ClassifyMessage, guess, Floor
  <2>3. guess.occasion \in KnownOccasions \cup {None} /\ guess.sure \in Nat
        /\ (guess.sure # 0 => says.sure # None /\ says.sure = guess.sure)
    BY <2>2, GuessIsKnown
  <2>4. says.sure # None /\ says.sure >= Floor
    BY <2>2, <2>3 DEF Floor
  <2>5. \A o \in ToSet(owns) : o.phrase \notin message
    BY <1>5, <1>9, <1>14
  <2>6. \A e \in ToSet(Lexicon) : e.phrase \notin message
    BY <1>7, <1>10, <1>14
  <2>7. Justified
    BY <2>1, <2>2, <2>3, <2>4, <2>5, <2>6
  <2> QED
    BY <2>1, <2>2, <2>7 DEF NobodyDressedByGuess
<1>15. CASE own = None /\ word = None /\ ~Confident(guess)
  <2>1. /\ reply.asks = TRUE /\ reply.occasion = None /\ reply.options = Proposed(guess)
    BY <1>1, <1>2, <1>15 DEF AskBack
  <2> QED
    BY <2>1, ProposedAreKnown DEF NobodyDressedByGuess, guess
<1> QED
  BY <1>12, <1>13, <1>14, <1>15

\* The members of a finite set that no other surpasses, first by one number, then
\* by another.
LEMMA DressiestThere ==
  ASSUME NEW S, S # {}, IsFiniteSet(S), NEW first \in [S -> Int], NEW second \in [S -> Int]
  PROVE  \E r \in S : \A q \in S :
           first[q] < first[r] \/ (first[q] = first[r] /\ second[q] <= second[r])
<1>1. PICK m \in S : \A q \in S : first[q] <= first[m]
  BY GreatestThere
<1> DEFINE T == {q \in S : first[q] = first[m]}
           value == [q \in T |-> second[q]]
<1>2. T # {} /\ T \in SUBSET S /\ value \in [T -> Int]
  OBVIOUS
<1>3. IsFiniteSet(T)
  BY <1>2, FS_Subset
<1>4. \A q \in S : q \in T <=> first[q] = first[m]
  OBVIOUS
<1>5. \A q \in T : value[q] = second[q]
  OBVIOUS
<1> HIDE DEF T, value
<1>6. \E r \in T : \A q \in T : value[q] <= value[r]
  BY <1>2, <1>3, GreatestThere
<1>7. PICK r \in T : \A q \in T : value[q] <= value[r]
  BY <1>6
<1>8. r \in S /\ first[r] = first[m]
  BY <1>2, <1>4
<1>9. ASSUME NEW q \in S
      PROVE  first[q] < first[r] \/ (first[q] = first[r] /\ second[q] <= second[r])
  <2>1. CASE q \in T
    BY <2>1, <1>4, <1>5, <1>7, <1>8
  <2>2. CASE q \notin T
    BY <2>2, <1>1, <1>4, <1>8
  <2> QED
    BY <2>1, <2>2
<1> QED
  BY <1>8, <1>9

--------------------------------------------------------------------------------
\* The diary decides exactly when a rule it matches is sure.
LEMMA DiaryDecides ==
  ASSUME NEW diary
  PROVE  LET sure == {r \in Matches(diary.titles) : diary.link = "connected" /\ r.sure >= Floor}
             own == FromDiary(diary)
         IN  /\ own = None <=> sure = {}
             /\ sure # {} => own \in sure /\ \A r \in sure : Formal(r) <= Formal(own)
<1> DEFINE sure == {r \in Matches(diary.titles) : diary.link = "connected" /\ r.sure >= Floor}
           own == FromDiary(diary)
           confident == {r \in Matches(diary.titles) : r.sure >= Floor}
           best == {r \in confident : \A q \in confident :
                     Formal(q) < Formal(r) \/ (Formal(q) = Formal(r) /\ q.sure <= r.sure)}
<1>1. confident \subseteq Rules /\ None \notin confident
  BY AskingAssumption DEF Matches
<1>2. IsFiniteSet(confident)
  BY <1>1, AskingAssumption, FS_Subset
<1>3. \A r \in confident : Formal(r) \in Nat /\ r.sure \in Nat
  BY <1>1, AskingAssumption DEF Formal
<1>4. own = IF diary.link = "connected" THEN OneOf(best) ELSE None
  BY DEF FromDiary, Classify
<1>5. sure = IF diary.link = "connected" THEN confident ELSE {}
  OBVIOUS
<1>6. best \subseteq confident /\ \A r \in best, q \in confident : Formal(q) <= Formal(r)
  BY <1>3
<1>7. confident # {} => best # {}
  <2> SUFFICES ASSUME confident # {} PROVE best # {}
    OBVIOUS
  <2> DEFINE first == [r \in confident |-> Formal(r)] second == [r \in confident |-> r.sure]
  <2>1. first \in [confident -> Int] /\ second \in [confident -> Int]
    BY <1>3
  <2>2. \A r \in confident : first[r] = Formal(r) /\ second[r] = r.sure
    OBVIOUS
  <2> HIDE DEF first, second, confident
  <2>3. \E r \in confident : \A q \in confident :
          first[q] < first[r] \/ (first[q] = first[r] /\ second[q] <= second[r])
    BY <2>1, <1>2, DressiestThere
  <2> QED
    BY <2>2, <2>3
<1>8. best # {} => OneOf(best) \in best
  BY OneOfThem
<1>9. best = {} => OneOf(best) = None
  BY DEF OneOf
<1> HIDE DEF sure, own, confident, best
<1>10. (own = None <=> sure = {}) /\ (sure # {} => own \in sure /\ \A r \in sure : Formal(r) <= Formal(own))
  BY <1>1, <1>4, <1>5, <1>6, <1>7, <1>8, <1>9
<1> QED
  BY <1>10 DEF sure, own

\* A holiday that is recognised has an occasion there is.
LEMMA HolidayIsKnown ==
  ASSUME NEW name, HolidayOccasion(name) # None
  PROVE  HolidayOccasion(name).occasion \in KnownOccasions
<1> DEFINE found == {Holidays[i] : i \in {j \in DOMAIN Holidays :
               Holidays[j].phrase \in name /\ \A k \in 1..j - 1 : Holidays[k].phrase \notin name}}
<1>1. HolidayOccasion(name) = OneOf(found)
  BY DEF HolidayOccasion, FirstSaid
<1>2. found \subseteq LexiconEntries
  BY AskingAssumption
<1> HIDE DEF found
<1>3. found # {}
  BY <1>1 DEF OneOf
<1> QED
  BY <1>1, <1>2, <1>3, OneOfThem DEF LexiconEntries

LEMMA PublicIsKnown ==
  ASSUME NEW names \in Seq(SUBSET STRING) \cup {None},
         NEW table \in [dated : KnownOccasions \cup {None}, recurring : KnownOccasions \cup {None}]
  PROVE  /\ \/ FromHolidays(names, table) \in PublicDays
            \/ /\ FromHolidays(names, table) = None
               /\ table.dated = None /\ table.recurring = None
         /\ FromHolidays(names, table) # None /\ FromHolidays(names, table).guess =>
              names # None /\ \A i \in DOMAIN names : HolidayOccasion(names[i]) = None
<1> DEFINE recognised == {i \in DOMAIN names : HolidayOccasion(names[i]) # None}
           first == CHOOSE i \in recognised : \A j \in recognised : i <= j
           public == FromHolidays(names, table)
<1>1. CASE names # None /\ names # <<>> /\ recognised = {}
  <2>1. public = [occasion |-> HolidayDefault, guess |-> TRUE]
    BY <1>1 DEF FromHolidays
  <2>2. \A i \in DOMAIN names : HolidayOccasion(names[i]) = None
    BY <1>1
  <2> QED
    BY <1>1, <2>1, <2>2, AskingAssumption DEF PublicDays
<1>2. CASE names # None /\ names # <<>> /\ recognised # {}
  <2>1. recognised \in SUBSET Nat
    <3>1. names \in Seq(SUBSET STRING)
      BY <1>2
    <3> QED
      BY <3>1
  <2>2. \E i \in recognised : \A j \in recognised : i <= j
    <3> HIDE DEF recognised
    <3> QED
      BY <2>1, <1>2, LeastNat
  <2>3. first \in recognised
    <3> HIDE DEF recognised
    <3> QED
      BY <2>2
  <2>4. HolidayOccasion(names[first]).occasion \in KnownOccasions
    <3> HIDE DEF first
    <3> QED
      BY <2>3, HolidayIsKnown
  <2>5. public = [occasion |-> HolidayOccasion(names[first]).occasion, guess |-> FALSE]
    BY <1>2 DEF FromHolidays
  <2> HIDE DEF first
  <2> QED
    BY <2>4, <2>5 DEF PublicDays
<1>3. CASE ~(names # None /\ names # <<>>)
  <2>1. public = IF table.dated # None THEN [occasion |-> table.dated, guess |-> FALSE]
                 ELSE IF table.recurring # None THEN [occasion |-> table.recurring, guess |-> FALSE]
                 ELSE None
    BY <1>3 DEF FromHolidays
  <2> QED
    BY <2>1 DEF PublicDays
<1> QED
  BY <1>1, <1>2, <1>3

\* The day that is dressed for is the diary's, the date's, or nobody's.
LEMMA TheDayIsJustified ==
  ASSUME NEW diary, NEW names \in Seq(SUBSET STRING) \cup {None},
         NEW table \in [dated : KnownOccasions \cup {None}, recurring : KnownOccasions \cup {None}]
  PROVE  DayIsJustified(diary, names, table, ResolveOccasion(None, diary, names, table))
<1> DEFINE sure == {r \in Matches(diary.titles) : diary.link = "connected" /\ r.sure >= Floor}
           own == FromDiary(diary)
           public == FromHolidays(names, table)
           day == ResolveOccasion(None, diary, names, table)
<1>1. /\ own = None <=> sure = {}
      /\ sure # {} => own \in sure /\ \A r \in sure : Formal(r) <= Formal(own)
  BY DiaryDecides
<1>2. \A r \in sure : r.occasion \in KnownOccasions
  BY AskingAssumption DEF Matches
<1>3. /\ own # None => day = Day(own.occasion, "calendar", FALSE)
      /\ own = None /\ public # None => day = Day(public.occasion, "observance", public.guess)
      /\ own = None /\ public = None => day = Day(DefaultOccasion, "default", FALSE)
  BY DEF ResolveOccasion
<1>4. public = None => table.dated = None /\ table.recurring = None
  BY PublicIsKnown, AskingAssumption
<1>5. table = [dated |-> table.dated, recurring |-> table.recurring]
  OBVIOUS
<1> SUFFICES
      /\ day.occasion \in KnownOccasions
      /\ day.source = "calendar" <=> sure # {}
      /\ sure # {} => /\ \E r \in sure : r.occasion = day.occasion
                      /\ \A r \in sure : Formal(r) <= Occasions[day.occasion].formality
      /\ day.source = "default" => table = [dated |-> None, recurring |-> None]
      /\ day.guess => \A i \in DOMAIN names : HolidayOccasion(names[i]) = None
  BY DEF DayIsJustified
<1> HIDE DEF sure, own, public, day
<1>6. CASE own # None
  <2>1. day.occasion = own.occasion /\ day.source = "calendar" /\ day.guess = FALSE
    BY <1>3, <1>6 DEF Day
  <2>2. sure # {} /\ own \in sure /\ \A r \in sure : Formal(r) <= Formal(own)
    BY <1>1, <1>6
  <2> QED
    BY <2>1, <2>2, <1>2 DEF Formal
<1>7. CASE own = None /\ public # None
  <2>1. /\ day.occasion = public.occasion /\ day.source = "observance"
        /\ day.guess = public.guess /\ sure = {}
    BY <1>1, <1>3, <1>7 DEF Day
  <2>2. /\ public.occasion \in KnownOccasions
        /\ public.guess => \A i \in DOMAIN names : HolidayOccasion(names[i]) = None
    BY <1>7, PublicIsKnown DEF public, PublicDays
  <2> QED
    BY <2>1, <2>2
<1>8. CASE own = None /\ public = None
  <2>1. /\ day.occasion = DefaultOccasion /\ day.source = "default"
        /\ day.guess = FALSE /\ sure = {}
    BY <1>1, <1>3, <1>8 DEF Day
  <2> QED
    BY <2>1, <1>4, <1>5, <1>8, AskingAssumption
<1> QED
  BY <1>6, <1>7, <1>8

WeatherSkies ==
  [home : BOOLEAN, cached : Payloads \cup {None}, provider : Payloads \cup {None}]

LEMMA SmallSets ==
  /\ Cardinality({}) = 0 /\ Cardinality({2}) = 1 /\ Cardinality({2, 3}) = 2
  /\ Cardinality({2, 3, 4}) = 3 /\ Cardinality({2, 3, 4, 5}) = 4
<1>1. IsFiniteSet({}) /\ Cardinality({}) = 0
  BY FS_EmptySet
<1>2. IsFiniteSet({2}) /\ Cardinality({2}) = 1
  BY FS_Singleton
<1>3. {2, 3} = {2} \cup {3} /\ 3 \notin {2}
  OBVIOUS
<1>4. IsFiniteSet({2, 3}) /\ Cardinality({2, 3}) = 2
  BY <1>2, <1>3, FS_AddElement
<1>5. {2, 3, 4} = {2, 3} \cup {4} /\ 4 \notin {2, 3}
  OBVIOUS
<1>6. IsFiniteSet({2, 3, 4}) /\ Cardinality({2, 3, 4}) = 3
  BY <1>4, <1>5, FS_AddElement
<1>7. {2, 3, 4, 5} = {2, 3, 4} \cup {5} /\ 5 \notin {2, 3, 4}
  OBVIOUS
<1>8. IsFiniteSet({2, 3, 4, 5}) /\ Cardinality({2, 3, 4, 5}) = 4
  BY <1>6, <1>7, FS_AddElement
<1> QED
  BY <1>1, <1>2, <1>4, <1>6, <1>8

\* What the level of warmth says in degrees.
LEMMA WarmthInDegrees ==
  ASSUME NEW feels \in Int
  PROVE  WarmthFor(feels) = IF feels > 30 THEN 1 ELSE IF feels > 26 THEN 2
                            ELSE IF feels > 21 THEN 3 ELSE IF feels > 16 THEN 4 ELSE 5
<1> DEFINE levels == {n \in 2..5 : Ceilings[n] >= feels}
<1>1. Ceilings[2] = 30 /\ Ceilings[3] = 26 /\ Ceilings[4] = 21 /\ Ceilings[5] = 16
  BY DEF Ceilings
<1>2. \A n : n \in 2..5 <=> n \in {2, 3, 4, 5}
  OBVIOUS
<1>3. levels = IF feels > 30 THEN {} ELSE IF feels > 26 THEN {2}
               ELSE IF feels > 21 THEN {2, 3} ELSE IF feels > 16 THEN {2, 3, 4} ELSE {2, 3, 4, 5}
  <2>1. \A n : n \in levels <=> (n = 2 /\ 30 >= feels) \/ (n = 3 /\ 26 >= feels)
                                  \/ (n = 4 /\ 21 >= feels) \/ (n = 5 /\ 16 >= feels)
    BY <1>1, <1>2
  <2> HIDE DEF levels
  <2>2. CASE feels > 30
    BY <2>1, <2>2
  <2>3. CASE feels <= 30 /\ feels > 26
    BY <2>1, <2>3
  <2>4. CASE feels <= 26 /\ feels > 21
    BY <2>1, <2>4
  <2>5. CASE feels <= 21 /\ feels > 16
    BY <2>1, <2>5
  <2>6. CASE feels <= 16
    BY <2>1, <2>6
  <2> QED
    BY <2>2, <2>3, <2>4, <2>5, <2>6
<1>4. WarmthFor(feels) = Cardinality(levels) + 1
  BY DEF WarmthFor
<1> HIDE DEF levels
<1> QED
  BY <1>3, <1>4, SmallSets

\* What is told of the weather.
LEMMA FetchTells ==
  ASSUME NEW cached \in Payloads \cup {None}, NEW provider \in Payloads \cup {None}
  PROVE  /\ Fetch(cached, provider) = None \/ Fetch(cached, provider) \in Weathers
         /\ Usable(cached) => /\ Fetch(cached, provider) \in Weathers
                              /\ Fetch(cached, provider).feels = cached.feels
         /\ Fetch(cached, provider) # None => Fetch(cached, provider).source # "user-stated"
<1>2. CASE Usable(cached)
  <2>1. Fetch(cached, provider) = Told(cached, "forecast-cached")
    BY <1>2 DEF Fetch
  <2>2. /\ Told(cached, "forecast-cached") \in Weathers
        /\ Told(cached, "forecast-cached").feels = cached.feels
        /\ Told(cached, "forecast-cached").source = "forecast-cached"
    BY <1>2 DEF Usable, Told, Weathers, Sources, Payloads
  <2> QED
    BY <2>1, <2>2
<1>3. CASE ~Usable(cached) /\ Usable(provider)
  <2>1. Fetch(cached, provider) = Told(provider, "forecast")
    BY <1>3 DEF Fetch
  <2>2. /\ Told(provider, "forecast") \in Weathers
        /\ Told(provider, "forecast").source = "forecast"
    BY <1>3 DEF Usable, Told, Weathers, Sources, Payloads
  <2> QED
    BY <2>1, <2>2, <1>3
<1>4. CASE ~Usable(cached) /\ ~Usable(provider)
  BY <1>4 DEF Fetch
<1> QED
  BY <1>2, <1>3, <1>4

LEMMA ResolvedWeather ==
  ASSUME NEW sky \in WeatherSkies, NEW wind \in Nat, NEW rain \in Nat, NEW feels \in Int \cup {None}
  PROVE  LET weather == ResolveWeather(feels, rain, wind, sky)
         IN  /\ weather \in Weathers
             /\ rain > 0 => weather.rain = rain
             /\ feels # None => weather.source = "user-stated" /\ weather.feels = feels
             /\ feels = None => weather.source # "user-stated"
             /\ Usable(sky.cached) /\ feels = None /\ sky.home => weather.feels = sky.cached.feels
<1> DEFINE weather == ResolveWeather(feels, rain, wind, sky)
           forecast == Fetch(sky.cached, sky.provider)
<1>1. /\ sky.home \in BOOLEAN /\ sky.cached \in Payloads \cup {None}
      /\ sky.provider \in Payloads \cup {None}
  BY DEF WeatherSkies
<1>2. /\ forecast = None \/ forecast \in Weathers
      /\ Usable(sky.cached) => forecast \in Weathers /\ forecast.feels = sky.cached.feels
      /\ forecast # None => forecast.source # "user-stated"
  BY <1>1, FetchTells
<1>3. None \notin Int
  BY AskingAssumption
<1> SUFFICES
      /\ weather \in Weathers
      /\ rain > 0 => weather.rain = rain
      /\ feels # None => weather.source = "user-stated" /\ weather.feels = feels
      /\ feels = None => weather.source # "user-stated"
      /\ Usable(sky.cached) /\ feels = None /\ sky.home => weather.feels = sky.cached.feels
  OBVIOUS
<1>4. CASE feels # None
  <2>1. weather = [feels |-> feels, rain |-> rain, wind |-> wind, source |-> "user-stated"]
    BY <1>4 DEF ResolveWeather
  <2> HIDE DEF weather
  <2> QED
    BY <2>1, <1>4 DEF Weathers, Sources
<1>5. CASE feels = None /\ ~sky.home
  <2>1. weather = [feels |-> 26, rain |-> rain, wind |-> wind, source |-> "placeholder-no-location"]
    BY <1>5 DEF ResolveWeather
  <2> HIDE DEF weather
  <2> QED
    BY <2>1, <1>5 DEF Weathers, Sources
<1>6. CASE feels = None /\ sky.home /\ forecast = None
  <2>1. weather = [feels |-> 26, rain |-> rain, wind |-> wind, source |-> "placeholder-provider-down"]
    BY <1>6 DEF ResolveWeather
  <2>2. ~Usable(sky.cached)
    BY <1>1, <1>2, <1>6, AskingAssumption
  <2> HIDE DEF weather
  <2> QED
    BY <2>1, <2>2, <1>6 DEF Weathers, Sources
<1>7. CASE feels = None /\ sky.home /\ forecast # None
  <2>1. weather = [feels |-> forecast.feels, rain |-> IF rain > 0 THEN rain ELSE forecast.rain,
                   wind |-> IF wind > 0 THEN wind ELSE forecast.wind, source |-> forecast.source]
    BY <1>7 DEF ResolveWeather
  <2>2. forecast \in Weathers
    BY <1>2, <1>7
  <2> HIDE DEF forecast, weather
  <2>3. /\ weather \in Weathers /\ weather.feels = forecast.feels
        /\ weather.source = forecast.source /\ (rain > 0 => weather.rain = rain)
    BY <2>1, <2>2 DEF Weathers, Sources
  <2> QED
    BY <2>3, <1>2, <1>7
<1> QED
  BY <1>4, <1>5, <1>6, <1>7

\* Colder, windier or wetter never dresses lighter, on any scale of degrees.
LEMMA WeatherDressesNoLighter ==
  ASSUME NEW sky \in WeatherSkies, NEW wind \in Nat PROVE WeatherIsMonotone(sky, wind)
<1>1. \A a, b \in 5..40 : a <= b => WarmthFor(b) <= WarmthFor(a)
  BY WarmthInDegrees
<1>2. ASSUME NEW feels \in {None} \cup 10..36, NEW rain \in {0, 80}
      PROVE  LET weather == ResolveWeather(feels, rain, wind, sky)
                 context == ResolveContext(DefaultOccasion, weather)
                 calm == ResolveContext(DefaultOccasion, [weather EXCEPT !.wind = 0])
             IN  /\ context.warmth - calm.warmth \in {0, 1} /\ context.warmth \in 1..5
                 /\ rain > 0 => context.wet
                 /\ feels # None => weather.source = "user-stated" /\ weather.feels = feels
                 /\ Usable(sky.cached) /\ feels = None /\ sky.home => weather.feels = sky.cached.feels
                 /\ WarmthFor(weather.feels) = 5 \/ Ceilings[WarmthFor(weather.feels) + 1] < weather.feels
  <2> DEFINE weather == ResolveWeather(feels, rain, wind, sky)
             still == [weather EXCEPT !.wind = 0]
             context == ResolveContext(DefaultOccasion, weather)
             calm == ResolveContext(DefaultOccasion, still)
             warmth == WarmthFor(weather.feels)
  <2>1. feels \in Int \cup {None} /\ rain \in Nat
    OBVIOUS
  <2>2. /\ weather \in Weathers
        /\ rain > 0 => weather.rain = rain
        /\ feels # None => weather.source = "user-stated" /\ weather.feels = feels
        /\ Usable(sky.cached) /\ feels = None /\ sky.home => weather.feels = sky.cached.feels
    BY <2>1, ResolvedWeather
  <2> HIDE DEF weather
  <2>3. weather.feels \in Int /\ weather.wind \in Nat /\ weather.rain \in Nat
    BY <2>2 DEF Weathers, Sources
  <2>4. still.feels = weather.feels /\ still.wind = 0 /\ still.rain = weather.rain
    BY <2>2 DEF Weathers, Sources
  <2> HIDE DEF still
  <2>5. warmth = IF weather.feels > 30 THEN 1 ELSE IF weather.feels > 26 THEN 2
                 ELSE IF weather.feels > 21 THEN 3 ELSE IF weather.feels > 16 THEN 4 ELSE 5
    BY <2>3, WarmthInDegrees
  <2>6. /\ context.warmth = warmth + (IF weather.wind >= 25 /\ warmth < 5 THEN 1 ELSE 0)
        /\ context.wet <=> weather.rain >= 40
    BY DEF ResolveContext
  <2>7. calm.warmth = warmth
    <3>1. calm.warmth = warmth + (IF still.wind >= 25 /\ warmth < 5 THEN 1 ELSE 0)
      BY <2>4 DEF ResolveContext
    <3> HIDE DEF warmth, calm
    <3>2. warmth \in Int
      BY <2>5
    <3>3. still.wind >= 25 <=> FALSE
      BY <2>4
    <3> QED
      BY <3>1, <3>2, <3>3
  <2>8. warmth = 5 \/ Ceilings[warmth + 1] < weather.feels
    <3>1. Ceilings[2] = 30 /\ Ceilings[3] = 26 /\ Ceilings[4] = 21 /\ Ceilings[5] = 16
      BY DEF Ceilings
    <3> HIDE DEF warmth
    <3>2. /\ warmth = 1 => weather.feels > 30 /\ warmth + 1 = 2
          /\ warmth = 2 => weather.feels > 26 /\ warmth + 1 = 3
          /\ warmth = 3 => weather.feels > 21 /\ warmth + 1 = 4
          /\ warmth = 4 => weather.feels > 16 /\ warmth + 1 = 5
          /\ warmth \in 1..5
      BY <2>3, <2>5
    <3> QED
      BY <3>1, <3>2, <2>3
  <2> HIDE DEF warmth, context, calm
  <2>9. context.warmth - calm.warmth \in {0, 1} /\ context.warmth \in 1..5
    BY <2>5, <2>6, <2>7
  <2>10. rain > 0 => context.wet
    BY <2>2, <2>6
  <2> QED
    BY <2>2, <2>8, <2>9, <2>10 DEF weather, context, calm, warmth, still
<1> QED
  BY <1>1, <1>2 DEF WeatherIsMonotone

\* A reply is dressed for the weather told of.
LEMMA ChatFollowsTheSky ==
  ASSUME NEW message, NEW owns, NEW says, NEW sky \in WeatherSkies, NEW found, NEW sentence
  PROVE  DressedForTheSky(message, sky, Chat(message, owns, says, sky, found, sentence))
<1> DEFINE reply == Chat(message, owns, says, sky, found, sentence)
           taken == Understand(message, owns, says)
           feels == IF Stated(message) THEN StatedFeels(message) ELSE None
           rain == StatedRain(message)
           weather == ResolveWeather(feels, rain, 0, sky)
           bare == ResolveContext(taken.occasion, weather)
           sure == IF sky.home THEN Fetch(sky.cached, sky.provider) ELSE None
<1> SUFFICES ASSUME ~reply.asks PROVE DressedForTheSky(message, sky, reply)
  BY DEF DressedForTheSky
<1>1. reply.context = Nudged(bare, taken.own)
  BY DEF Chat, ChatReply, FeelsGiven
<1>2. /\ bare.source = weather.source /\ (bare.wet <=> weather.rain >= 40)
      /\ bare.warmth = WarmthFor(weather.feels)
           + (IF weather.wind >= 25 /\ WarmthFor(weather.feels) < 5 THEN 1 ELSE 0)
  BY DEF ResolveContext
<1>3. reply.context.source = bare.source /\ reply.context.wet = bare.wet
      /\ reply.context.warmth = bare.warmth
  <2>1. DOMAIN bare = {"occasion", "formality", "code", "warmth", "windy", "wet", "source"}
    BY DEF ResolveContext
  <2> HIDE DEF bare, reply
  <2> QED
    BY <1>1, <2>1 DEF Nudged
<1>4. rain \in Nat /\ feels \in Int \cup {None} /\ ("rain" \in message => rain = 80)
      /\ ("cold" \in message => feels = 12) /\ (Stated(message) => feels \in Int)
      /\ (~Stated(message) => feels = None /\ rain = 0)
  BY DEF StatedRain, StatedFeels, Stated
<1>5. None \notin Int
  BY AskingAssumption
<1> HIDE DEF reply, taken, bare, feels, rain
<1>6. /\ weather \in Weathers /\ (rain > 0 => weather.rain = rain)
      /\ feels # None => weather.feels = feels
  BY <1>4, ResolvedWeather
<1>7. feels = None => IF sure = None
                      THEN weather.source \in {"placeholder-no-location", "placeholder-provider-down"}
                      ELSE /\ weather.feels = sure.feels /\ weather.source = sure.source
                           /\ weather.rain = IF rain > 0 THEN rain ELSE sure.rain
  BY DEF ResolveWeather
<1>8. sure = None \/ sure \in Weathers
  BY FetchTells DEF WeatherSkies
<1> HIDE DEF weather, sure
<1>9. weather.feels \in Int /\ (sure # None => sure.feels \in Int)
  BY <1>6, <1>8 DEF Weathers
<1>10. \A x \in Int : WarmthFor(x) \in Int
  BY WarmthInDegrees
<1>11. "rain" \in message => reply.context.wet
  BY <1>2, <1>3, <1>4, <1>6
<1>12. "cold" \in message => reply.context.warmth >= WarmthFor(12)
  BY <1>2, <1>3, <1>4, <1>5, <1>6, <1>9, <1>10
<1>13. ASSUME ~Stated(message), sure = None
       PROVE  reply.context.source \in {"placeholder-no-location", "placeholder-provider-down"}
  BY <1>2, <1>3, <1>4, <1>7, <1>13
<1>14. ASSUME ~Stated(message), sure # None
       PROVE  /\ reply.context.source = sure.source /\ (reply.context.wet <=> sure.rain >= 40)
              /\ reply.context.warmth - WarmthFor(sure.feels) \in {0, 1}
  <2>1. /\ weather.feels = sure.feels /\ weather.source = sure.source /\ weather.rain = sure.rain
    BY <1>4, <1>7, <1>14
  <2> QED
    BY <1>2, <1>3, <1>9, <1>10, <1>14, <2>1
<1> QED
  BY <1>11, <1>12, <1>13, <1>14 DEF DressedForTheSky, sure

\* What is asked of the pure parts, and that an answer is the answer to it.
AskedOfChat ==
  ask.kind = "chat" =>
    /\ ask.of[2] \in Seq(Customs)
    /\ \A i \in DOMAIN ask.of[2] : Length[ask.of[2][i].phrase] \in Nat
    /\ ask.of[3] \in ModelAnswers \cup {None} /\ ask.of[4] \in WeatherSkies
    /\ answer # Nothing =>
         answer = Chat(ask.of[1], ask.of[2], ask.of[3], ask.of[4], ask.of[5], ask.of[6])

AskedOfDay ==
  ask.kind = "day" =>
    /\ ask.of[3] \in Seq(SUBSET STRING) \cup {None}
    /\ ask.of[4] \in [dated : KnownOccasions \cup {None}, recurring : KnownOccasions \cup {None}]
    /\ answer # Nothing => answer = ResolveOccasion(ask.of[1], ask.of[2], ask.of[3], ask.of[4])

AskedOfWeather == ask.kind = "weather" => ask.of[1] \in WeatherSkies /\ ask.of[2] \in Nat

AskedOfPool ==
  ask.kind = "pool" =>
    /\ ask.of[1] \in SUBSET Wardrobe /\ ask.of[2] \in Days
    /\ answer # Nothing =>
         LET loaded == LoadWardrobe(ask.of[1], ask.of[2])
         IN  answer = [loaded |-> loaded, tried |-> GenerateCandidates(loaded.pool, ask.of[2])]

AskedOfScore ==
  ask.kind = "score" =>
    /\ ask.of[1] \in Outfits /\ ask.of[2] \in {1, 3} /\ ask.of[3] \in Tastes /\ ask.of[4] \in Trends
    /\ answer # Nothing =>
         answer = ScoreOutfit(ask.of[1], DayOf(ask.of[2]), ask.of[3], ask.of[4])

PureInv ==
  part = "pure" => AskedOfChat /\ AskedOfDay /\ AskedOfWeather /\ AskedOfPool /\ AskedOfScore

LEMMA PureInitInv == Init => PureInv
<1> SUFFICES ASSUME Init, part = "pure" 
             PROVE  AskedOfChat /\ AskedOfDay /\ AskedOfWeather /\ AskedOfPool /\ AskedOfScore
  BY DEF PureInv
<1>1. answer = Nothing
  BY DEF Init
<1>2. CASE ask.kind = "chat"
  <2>1. ask.of \in Messages \X OwnNames \X Replies \X
                     {s \in Skies : s.home /\ s.cached = None} \X WhatIsFound \X {None, "fine", "yours"}
    BY <1>2 DEF Init, AsksOf
  <2>2. ask.of[2] \in OwnNames /\ ask.of[3] \in Replies /\ ask.of[4] \in Skies
    BY <2>1
  <2>3. ask.of[4] \in WeatherSkies
    BY <2>2, AskedAssumption DEF WeatherSkies
  <2> QED
    BY <1>1, <1>2, <2>2, <2>3, AskedAssumption DEF AskedOfChat, AskedOfDay, AskedOfWeather, AskedOfPool, AskedOfScore
<1>3. CASE ask.kind = "day"
  <2>1. ask.of \in {None, "party_night", "moon_walk"} \X Diaries \X HolidayNames \X Tables
    BY <1>3 DEF Init, AsksOf
  <2>2. ask.of[3] \in HolidayNames /\ ask.of[4] \in Tables
    BY <2>1
  <2>3. ask.of[4] \in [dated : {None} \cup KnownOccasions, recurring : {None} \cup KnownOccasions]
    BY <2>2, AskedAssumption
  <2>4. ask.of[4] \in [dated : KnownOccasions \cup {None}, recurring : KnownOccasions \cup {None}]
    BY <2>3
  <2> QED
    BY <1>1, <1>3, <2>2, <2>4, AskedAssumption DEF AskedOfChat, AskedOfDay, AskedOfWeather, AskedOfPool, AskedOfScore
<1>4. CASE ask.kind = "weather"
  <2>1. ask.of \in Skies \X {0, 25}
    BY <1>4 DEF Init, AsksOf
  <2>2. ask.of[1] \in Skies /\ ask.of[2] \in Nat
    BY <2>1
  <2>3. ask.of[1] \in [home : BOOLEAN, cached : {None} \cup Payloads, provider : {None} \cup Payloads]
    BY <2>2, AskedAssumption
  <2>4. ask.of[1] \in WeatherSkies
    BY <2>3 DEF WeatherSkies
  <2> QED
    BY <1>4, <2>2, <2>4 DEF AskedOfChat, AskedOfDay, AskedOfWeather, AskedOfPool, AskedOfScore
<1>5. CASE ask.kind = "pool"
  <2>1. ask.of \in (SUBSET Wardrobe) \X Days \X {"women", "everyone"}
    BY <1>5 DEF Init, AsksOf
  <2>2. ask.of[1] \in SUBSET Wardrobe /\ ask.of[2] \in Days
    BY <2>1
  <2> QED
    BY <1>1, <1>5, <2>2 DEF AskedOfChat, AskedOfDay, AskedOfWeather, AskedOfPool, AskedOfScore
<1>6. CASE ask.kind = "score"
  <2>1. ask.of \in Outfits \X {1, 3} \X Tastes \X Trends
    BY <1>6 DEF Init, AsksOf
  <2>2. ask.of[1] \in Outfits /\ ask.of[2] \in {1, 3} /\ ask.of[3] \in Tastes /\ ask.of[4] \in Trends
    BY <2>1
  <2> QED
    BY <1>1, <1>6, <2>2 DEF AskedOfChat, AskedOfDay, AskedOfWeather, AskedOfPool, AskedOfScore
<1>7. CASE ask.kind \notin {"chat", "day", "weather", "pool", "score"}
  BY <1>7 DEF AskedOfChat, AskedOfDay, AskedOfWeather, AskedOfPool, AskedOfScore
<1> QED
  BY <1>2, <1>3, <1>4, <1>5, <1>6, <1>7

LEMMA PureStep == PureInv /\ [Next]_vars => PureInv'
<1> SUFFICES ASSUME PureInv, [Next]_vars, part' = "pure"
             PROVE  AskedOfChat' /\ AskedOfDay' /\ AskedOfWeather' /\ AskedOfPool' /\ AskedOfScore'
  BY DEF PureInv
<1>1. CASE AnswerAsk
  <2>1. part = "pure" /\ answer = Nothing /\ ask' = ask
    BY <1>1 DEF AnswerAsk, Asked
  <2>2. AskedOfChat /\ AskedOfDay /\ AskedOfWeather /\ AskedOfPool /\ AskedOfScore
    BY <2>1 DEF PureInv
  <2>3. ask.kind = "chat" =>
          answer' = Chat(ask.of[1], ask.of[2], ask.of[3], ask.of[4], ask.of[5], ask.of[6])
    BY <1>1 DEF AnswerAsk, Asked
  <2>4. ask.kind = "day" => answer' = ResolveOccasion(ask.of[1], ask.of[2], ask.of[3], ask.of[4])
    BY <1>1 DEF AnswerAsk, Asked
  <2>5. ask.kind = "pool" =>
          LET loaded == LoadWardrobe(ask.of[1], ask.of[2])
          IN  answer' = [loaded |-> loaded, tried |-> GenerateCandidates(loaded.pool, ask.of[2])]
    BY <1>1 DEF AnswerAsk, Asked
  <2>6. ask.kind = "score" =>
          answer' = ScoreOutfit(ask.of[1], DayOf(ask.of[2]), ask.of[3], ask.of[4])
    BY <1>1 DEF AnswerAsk, Asked
  <2> QED
    BY <2>1, <2>2, <2>3, <2>4, <2>5, <2>6 DEF AskedOfChat, AskedOfDay, AskedOfWeather, AskedOfPool, AskedOfScore
<1>2. CASE UNCHANGED <<part, ask, answer>>
  BY <1>2 DEF PureInv, AskedOfChat, AskedOfDay, AskedOfWeather, AskedOfPool, AskedOfScore
<1>3. AnswerAsk \/ UNCHANGED <<part, ask, answer>>
  BY DEF Next, vars, pureVars
<1> QED
  BY <1>1, <1>2, <1>3

LEMMA PureInvJustifies == PureInv => OccasionJustified
<1> SUFFICES ASSUME PureInv, part = "pure", answer # Nothing PROVE OccasionJustified
  BY DEF OccasionJustified, Answered
<1>1. AskedOfChat /\ AskedOfDay /\ AskedOfWeather
  BY DEF PureInv
<1>2. Answered("chat") => /\ NobodyDressedByGuess(ask.of[1], ask.of[2], ask.of[3], answer)
                          /\ DressedForTheSky(ask.of[1], ask.of[4], answer)
  <2> SUFFICES ASSUME ask.kind = "chat"
               PROVE  /\ NobodyDressedByGuess(ask.of[1], ask.of[2], ask.of[3], answer)
                      /\ DressedForTheSky(ask.of[1], ask.of[4], answer)
    BY DEF Answered
  <2> QED
    BY <1>1, ChatDressesNobodyByGuess, ChatFollowsTheSky DEF AskedOfChat
<1>3. Answered("day") => ask.of[1] # None \/ DayIsJustified(ask.of[2], ask.of[3], ask.of[4], answer)
  <2> SUFFICES ASSUME ask.kind = "day", ask.of[1] = None
               PROVE  DayIsJustified(ask.of[2], ask.of[3], ask.of[4], answer)
    BY DEF Answered
  <2> QED
    BY <1>1, TheDayIsJustified DEF AskedOfDay
<1>4. Answered("weather") => WeatherIsMonotone(ask.of[1], ask.of[2])
  BY <1>1, WeatherDressesNoLighter DEF Answered, AskedOfWeather
<1> QED
  BY <1>2, <1>3, <1>4 DEF OccasionJustified

(* Of every message, diary and sky, whatever the tables, the words said and the   *)
(* answers of the model: nobody is dressed for an occasion they did not name or   *)
(* for a day that is not theirs, and who says nothing of the weather is dressed   *)
(* for the forecast (chat.py, calendar.py, suggestions.py, context.py).  It does  *)
(* not say that a temperature called the user's is one they gave: that is false   *)
(* (TemperatureIsTold).                                                           *)
THEOREM NobodyIsDressedByGuess == Spec => []OccasionJustified
<1>1. Spec => []PureInv
  BY PureInitInv, PureStep, PTL DEF Spec
<1> QED
  BY <1>1, PureInvJustifies, PTL

--------------------------------------------------------------------------------
(* The pool of a day, the gaps and the offers of the shop. *)
\* The levels that a day asks for are numbers.
IsDay(day) == day.warmth \in Int /\ day.formality \in Int

Able(wardrobe, day) == PoolOf(wardrobe, day, WarmthRelaxed, FALSE)
Matched(wardrobe, day) == PoolOf(wardrobe, day, WarmthTolerance, day.wet)
Wanted(wardrobe, day) == ApplyAvoids(Matched(wardrobe, day), day)
Loaded(wardrobe, day) == Rescued(wardrobe, day, Wanted(wardrobe, day))

LEMMA LoadedIs ==
  ASSUME NEW wardrobe, NEW day
  PROVE  /\ LoadWardrobe(wardrobe, day).pool = Loaded(wardrobe, day)
         /\ LoadWardrobe(wardrobe, day).blocking = BaseNote(Loaded(wardrobe, day))
         /\ AvoidNotes(Matched(wardrobe, day), day)
              \cup RescueNotes(wardrobe, day, Wanted(wardrobe, day))
              \subseteq LoadWardrobe(wardrobe, day).notes
BY DEF LoadWardrobe, Loaded, Wanted, Matched

\* What fits a day fits it the more, the less is asked of it.
LEMMA RelaxedFits ==
  ASSUME NEW g \in Pieces, NEW day, IsDay(day)
  PROVE  /\ \A rain : Fits(g, day, WarmthTolerance, rain) => Fits(g, day, WarmthRelaxed, rain)
         /\ \A slack, rain : Fits(g, day, slack, rain) => Fits(g, day, slack, FALSE)
<1>1. Warmth[g] \in Int \cup {Unset}
  BY PoolAssumption
<1>2. Warmth[g] \in Int => Apart(Warmth[g], day.warmth) \in Int
  BY DEF Apart, IsDay
<1> QED
  BY <1>1, <1>2 DEF Fits, WarmthTolerance, WarmthRelaxed

LEMMA PoolsNest ==
  ASSUME NEW wardrobe \in SUBSET Pieces, NEW day, IsDay(day)
  PROVE  /\ Matched(wardrobe, day) \subseteq Able(wardrobe, day)
         /\ Able(wardrobe, day) \subseteq wardrobe
         /\ \A slot : Dry(wardrobe, day, slot) \subseteq In(Able(wardrobe, day), slot)
         /\ \A slot : Damp(wardrobe, day, slot) \subseteq In(Able(wardrobe, day), slot)
<1>1. \A g \in wardrobe : g \in Matched(wardrobe, day) => g \in Able(wardrobe, day)
  BY RelaxedFits DEF Matched, Able, PoolOf
<1>2. Matched(wardrobe, day) \subseteq wardrobe /\ Able(wardrobe, day) \subseteq wardrobe
  BY DEF Matched, Able, PoolOf
<1>3. \A slot : Dry(wardrobe, day, slot) \subseteq In(Able(wardrobe, day), slot)
  BY RelaxedFits DEF Dry, In, Able, PoolOf
<1>4. \A slot : Damp(wardrobe, day, slot) \subseteq In(Able(wardrobe, day), slot)
  BY DEF Damp, In, Able, PoolOf
<1> QED
  BY <1>1, <1>2, <1>3, <1>4

\* Advice of the user never empties a slot.
LEMMA AvoidsEmptyNoSlot ==
  ASSUME NEW pool, NEW day, NEW slot
  PROVE  /\ ApplyAvoids(pool, day) \subseteq pool
         /\ In(pool, slot) # {} => In(ApplyAvoids(pool, day), slot) # {}
<1>1. ApplyAvoids(pool, day) \subseteq pool
  BY DEF ApplyAvoids
<1>2. ASSUME In(pool, slot) # {} PROVE In(ApplyAvoids(pool, day), slot) # {}
  <2>1. CASE slot \in Relaxed(pool, day)
    <3>1. PICK g \in pool : Slot[g] = slot
      BY <1>2 DEF In
    <3> QED
      BY <2>1, <3>1 DEF ApplyAvoids, In
  <2>2. CASE slot \notin Relaxed(pool, day)
    <3>1. slot \in {Slot[g] : g \in pool}
      BY <1>2 DEF In
    <3>2. PICK g \in In(pool, slot) : g \notin Avoided(pool, day)
      BY <2>2, <3>1 DEF Relaxed
    <3> QED
      BY <3>2 DEF ApplyAvoids, In
  <2> QED
    BY <2>1, <2>2
<1> QED
  BY <1>1, <1>2

LEMMA RescuedBetween ==
  ASSUME NEW wardrobe \in SUBSET Pieces, NEW day, IsDay(day)
  PROVE  /\ Wanted(wardrobe, day) \subseteq Loaded(wardrobe, day)
         /\ Loaded(wardrobe, day) \subseteq Able(wardrobe, day)
<1>1. Wanted(wardrobe, day) \subseteq Able(wardrobe, day)
  BY PoolsNest, AvoidsEmptyNoSlot DEF Wanted
<1>2. \A slot : /\ Dry(wardrobe, day, slot) \subseteq Able(wardrobe, day)
                /\ Damp(wardrobe, day, slot) \subseteq Able(wardrobe, day)
  BY PoolsNest DEF In
<1> QED
  BY <1>1, <1>2 DEF Loaded, Rescued

\* A slot that is to be rescued is empty only if the wardrobe has nothing for it.
LEMMA RescueFills ==
  ASSUME NEW wardrobe \in SUBSET Pieces, NEW day, IsDay(day),
         NEW slot \in ToRescue(Wanted(wardrobe, day)), In(Able(wardrobe, day), slot) # {}
  PROVE  In(Loaded(wardrobe, day), slot) # {}
<1>1. Dry(wardrobe, day, slot) # {} \/ Damp(wardrobe, day, slot) # {}
  <2>1. CASE day.wet
    BY <2>1 DEF Damp, Able
  <2>2. CASE ~day.wet
    <3>1. \A g \in wardrobe :
            Fits(g, day, WarmthRelaxed, FALSE) => Fits(g, day, WarmthRelaxed, day.wet)
      BY <2>2 DEF Fits
    <3> QED
      BY <3>1 DEF Dry, Able, PoolOf, In
  <2> QED
    BY <2>1, <2>2
<1>2. \A g \in Dry(wardrobe, day, slot) \cup Damp(wardrobe, day, slot) :
        g \in Loaded(wardrobe, day) /\ Slot[g] = slot
  <2>1. Dry(wardrobe, day, slot) \cup Damp(wardrobe, day, slot) \subseteq Loaded(wardrobe, day)
    BY DEF Loaded, Rescued
  <2>2. \A g \in Dry(wardrobe, day, slot) : Slot[g] = slot
    BY DEF Dry, In
  <2>3. \A g \in Damp(wardrobe, day, slot) : Slot[g] = slot
    BY DEF Damp, In
  <2> QED
    BY <2>1, <2>2, <2>3, Zenon
<1> QED
  BY <1>1, <1>2 DEF In

\* Shoes, and a base, are there whenever the wardrobe could supply them.
LEMMA NothingIsEmptied ==
  ASSUME NEW wardrobe \in SUBSET Pieces, NEW day, IsDay(day)
  PROVE  /\ \A slot \in PreferredSlots :
              In(Able(wardrobe, day), slot) # {} <=> In(Loaded(wardrobe, day), slot) # {}
         /\ CompleteBases(Able(wardrobe, day)) # {} <=> CompleteBases(Loaded(wardrobe, day)) # {}
<1> DEFINE A == Able(wardrobe, day) D == Wanted(wardrobe, day) P == Loaded(wardrobe, day)
<1>1. D \subseteq P /\ P \subseteq A
  BY RescuedBetween
<1>2. \A slot \in ToRescue(D) : In(A, slot) # {} => In(P, slot) # {}
  BY RescueFills
<1> HIDE DEF A, D, P
<1>3. \A slot : /\ In(D, slot) # {} => In(P, slot) # {}
                /\ In(P, slot) # {} => In(A, slot) # {}
  BY <1>1 DEF In
<1>4. \A slot \in PreferredSlots : In(A, slot) # {} <=> In(P, slot) # {}
  BY <1>2, <1>3 DEF ToRescue
<1>5. CompleteBases(P) # {} => CompleteBases(A) # {}
  BY <1>3 DEF CompleteBases
<1>6. ASSUME CompleteBases(A) # {} PROVE CompleteBases(P) # {}
  <2>1. CASE CompleteBases(D) # {}
    BY <2>1, <1>3 DEF CompleteBases
  <2>2. CASE CompleteBases(D) = {}
    <3>1. PICK base \in BaseStructures : \A slot \in base : In(A, slot) # {}
      BY <1>6 DEF CompleteBases
    <3>2. ASSUME NEW slot \in base PROVE In(P, slot) # {}
      <4>1. slot \in BaseSlots
        BY DEF BaseSlots
      <4>2. In(D, slot) = {} => slot \in ToRescue(D)
        BY <2>2, <4>1 DEF ToRescue
      <4> QED
        BY <1>2, <1>3, <3>1, <4>2
    <3> QED
      BY <3>2 DEF CompleteBases
  <2> QED
    BY <2>1, <2>2
<1> QED
  BY <1>4, <1>5, <1>6 DEF A, P

LEMMA BasesAre ==
  /\ BaseSlots = {"upper_base", "lower", "full_body"}
  /\ \A base \in BaseStructures : base # {} /\ base \subseteq BaseSlots
BY DEF BaseSlots, BaseStructures

\* Something is named as missing exactly if no base is complete.
LEMMA BlockingIsNoBase ==
  ASSUME NEW pool PROVE BaseNote(pool) = {} <=> CompleteBases(pool) # {}
<1> DEFINE missing(base) == {slot \in base : In(pool, slot) = {}}
           fewest == CHOOSE base \in BaseStructures : \A other \in BaseStructures :
                       Cardinality(missing(base)) <= Cardinality(missing(other))
<1>1. CompleteBases(pool) # {} => BaseNote(pool) = {}
  BY DEF BaseNote
<1>2. ASSUME CompleteBases(pool) = {} PROVE BaseNote(pool) # {}
  <2>1. \A base \in BaseStructures : missing(base) # {}
    BY <1>2 DEF CompleteBases
  <2>2. fewest \in BaseStructures
    <3>1. \A base \in BaseStructures : Cardinality(missing(base)) \in Nat
      <4>1. IsFiniteSet({"upper_base", "lower"}) /\ IsFiniteSet({"full_body"})
        <5>1. IsFiniteSet({"upper_base"}) /\ IsFiniteSet({"lower"}) /\ IsFiniteSet({"full_body"})
          BY FS_Singleton
        <5>2. {"upper_base", "lower"} = {"upper_base"} \cup {"lower"}
          OBVIOUS
        <5> QED
          BY <5>1, <5>2, FS_Union
      <4> TAKE base \in BaseStructures
      <4>2. IsFiniteSet(base)
        BY <4>1 DEF BaseStructures
      <4>3. missing(base) \in SUBSET base
        OBVIOUS
      <4> HIDE DEF missing
      <4> QED
        BY <4>2, <4>3, FS_Subset, FS_CardinalityType
    <3> DEFINE two == {"upper_base", "lower"} one == {"full_body"}
    <3>2. BaseStructures = {two, one}
      BY DEF BaseStructures
    <3> HIDE DEF missing, two, one
    <3>3. \/ Cardinality(missing(two)) <= Cardinality(missing(one))
          \/ Cardinality(missing(one)) <= Cardinality(missing(two))
      BY <3>1, <3>2
    <3>4. \E base \in BaseStructures : \A other \in BaseStructures :
            Cardinality(missing(base)) <= Cardinality(missing(other))
      BY <3>1, <3>2, <3>3
    <3> QED
      BY <3>4
  <2>3. missing(fewest) # {}
    <3> HIDE DEF missing, fewest
    <3> QED
      BY <2>1, <2>2
  <2>4. BaseNote(pool) = IF \A slot \in BaseSlots : In(pool, slot) = {} THEN {Note("nothing", "any")}
                         ELSE {Note("add", slot) : slot \in missing(fewest)}
    BY <1>2 DEF BaseNote
  <2> HIDE DEF missing, fewest
  <2>5. PICK slot \in missing(fewest) : TRUE
    BY <2>3
  <2>6. Note("add", slot) \in {Note("add", s) : s \in missing(fewest)}
    BY <2>5
  <2> QED
    BY <2>4, <2>6
<1> QED
  BY <1>1, <1>2

\* Whatever was set aside for a slot, the user is told of it.
LEMMA TheUserIsTold ==
  ASSUME NEW wardrobe, NEW day
  PROVE  LET result == LoadWardrobe(wardrobe, day)
             wanted == Wanted(wardrobe, day)
         IN  /\ \A g \in result.pool \ wanted :
                  \E n \in result.notes : n[1] \in {"any warmth", "wet material"} /\ n[2] = Slot[g]
             /\ \A g \in result.pool : Kind[g] \in day.avoids =>
                  \E n \in result.notes :
                    n[1] \in {"avoids relaxed", "any warmth", "wet material"} /\ n[2] = Slot[g]
<1> DEFINE result == LoadWardrobe(wardrobe, day)
           M == Matched(wardrobe, day)
           D == Wanted(wardrobe, day)
           P == Loaded(wardrobe, day)
<1>1. /\ result.pool = P
      /\ AvoidNotes(M, day) \cup RescueNotes(wardrobe, day, D) \subseteq result.notes
  BY LoadedIs
<1>3. ASSUME NEW g \in P, g \notin D
      PROVE  \E n \in result.notes : n[1] \in {"any warmth", "wet material"} /\ n[2] = Slot[g]
  <2>1. PICK slot \in ToRescue(D) : g \in Dry(wardrobe, day, slot) \cup Damp(wardrobe, day, slot)
    BY <1>3 DEF Loaded, Rescued
  <2>2. Slot[g] = slot
    BY <2>1 DEF Dry, Damp, In
  <2>3. CASE g \in Dry(wardrobe, day, slot)
    <3>1. Note("any warmth", slot) \in RescueNotes(wardrobe, day, D)
      BY <2>1, <2>3 DEF RescueNotes
    <3>2. Note("any warmth", slot) \in result.notes
      BY <1>1, <3>1
    <3>3. Note("any warmth", slot)[1] = "any warmth" /\ Note("any warmth", slot)[2] = slot
      BY DEF Note
    <3> HIDE DEF result, P, D, M
    <3> QED
      BY <2>2, <3>2, <3>3
  <2>4. CASE g \in Damp(wardrobe, day, slot)
    <3>1. Note("wet material", slot) \in RescueNotes(wardrobe, day, D)
      BY <2>1, <2>4 DEF RescueNotes
    <3>2. Note("wet material", slot) \in result.notes
      BY <1>1, <3>1
    <3>3. Note("wet material", slot)[1] = "wet material" /\ Note("wet material", slot)[2] = slot
      BY DEF Note
    <3> HIDE DEF result, P, D, M
    <3> QED
      BY <2>2, <3>2, <3>3
  <2> QED
    BY <2>1, <2>3, <2>4
<1>4. ASSUME NEW g \in D, Kind[g] \in day.avoids
      PROVE  \E n \in result.notes : n[1] = "avoids relaxed" /\ n[2] = Slot[g]
  <2>1. g \in M /\ (g \notin Avoided(M, day) \/ Slot[g] \in Relaxed(M, day))
    BY DEF Wanted, ApplyAvoids
  <2>2. g \in Avoided(M, day)
    BY <1>4, <2>1 DEF Avoided
  <2>3. Note("avoids relaxed", Slot[g]) \in AvoidNotes(M, day)
    BY <2>1, <2>2 DEF AvoidNotes
  <2>4. Note("avoids relaxed", Slot[g]) \in result.notes
    BY <1>1, <2>3
  <2>5. Note("avoids relaxed", Slot[g])[1] = "avoids relaxed"
        /\ Note("avoids relaxed", Slot[g])[2] = Slot[g]
    BY DEF Note
  <2> HIDE DEF result, P, D, M
  <2> QED
    BY <2>4, <2>5
<1> HIDE DEF result, D, P
<1>5. \A g \in result.pool \ D :
        \E n \in result.notes : n[1] \in {"any warmth", "wet material"} /\ n[2] = Slot[g]
  BY <1>1, <1>3
<1>6. ASSUME NEW g \in result.pool, Kind[g] \in day.avoids
      PROVE  \E n \in result.notes :
               n[1] \in {"avoids relaxed", "any warmth", "wet material"} /\ n[2] = Slot[g]
  <2>1. CASE g \in D
    BY <2>1, <1>4, <1>6
  <2>2. CASE g \notin D
    BY <2>2, <1>5
  <2> QED
    BY <2>1, <2>2
<1> QED
  BY <1>5, <1>6 DEF result, D

--------------------------------------------------------------------------------
\* SetToSeq lists every member once.
LEMMA SetToSeqLists ==
  ASSUME NEW S, IsFiniteSet(S)
  PROVE  /\ SetToSeq(S) \in Bijection(1..Cardinality(S), S)
         /\ DOMAIN SetToSeq(S) = 1..Cardinality(S) /\ Len(SetToSeq(S)) = Cardinality(S)
         /\ Cardinality(S) \in Nat
<1> DEFINE n == Cardinality(S)
<1>1. n \in Nat /\ Bijection(1..n, S) # {}
  BY FS_CardinalityType DEF ExistsBijection
<1> HIDE DEF n
<1>2. \E f \in [1..n -> S] : IsInjective(f)
  BY <1>1 DEF Bijection, Injection
<1>3. SetToSeq(S) = CHOOSE f \in [1..n -> S] : IsInjective(f)
  BY DEF SetToSeq, n
<1>4. SetToSeq(S) \in [1..n -> S] /\ IsInjective(SetToSeq(S))
  BY <1>2, <1>3
<1>5. SetToSeq(S) \in Injection(1..n, S)
  BY <1>4 DEF Injection
<1>6. IsFiniteSet(1..n) /\ Cardinality(1..n) = n
  <2> DEFINE l == 1
  <2>1. l \in Int /\ n \in Int
    BY <1>1
  <2> HIDE DEF l
  <2>2. IsFiniteSet(l..n) /\ Cardinality(l..n) = IF l > n THEN 0 ELSE n - l + 1
    BY <2>1, FS_Interval
  <2> QED
    BY <2>1, <2>2, <1>1 DEF l
<1>7. SetToSeq(S) \in Surjection(1..n, S)
  BY <1>5, <1>6, FS_Injection DEF n
<1>8. SetToSeq(S) \in Bijection(1..n, S)
  BY <1>5, <1>7 DEF Bijection
<1>9. DOMAIN SetToSeq(S) = 1..n /\ Len(SetToSeq(S)) = n
  BY <1>1, <1>4
<1> QED
  BY <1>1, <1>8, <1>9 DEF n

LEMMA FirstOfAre ==
  ASSUME NEW S, IsFiniteSet(S), NEW n \in Nat
  PROVE  /\ FirstOf(S, n) \subseteq S
         /\ S # {} /\ n # 0 => FirstOf(S, n) # {}
<1> DEFINE order == SetToSeq(S)
           m == IF n < Len(order) THEN n ELSE Len(order)
<1>1. /\ order \in Bijection(1..Cardinality(S), S) /\ Len(order) = Cardinality(S)
      /\ Cardinality(S) \in Nat
  BY SetToSeqLists
<1>2. FirstOf(S, n) = ToSet(SubSeq(order, 1, m))
  BY DEF FirstOf
<1>3. order \in Seq(S)
  BY <1>1 DEF Bijection, Injection
<1>4. m \in 0..Len(order)
  BY <1>1
<1>5. S # {} => Cardinality(S) # 0
  BY FS_EmptySet
<1>6. S # {} /\ n # 0 => m # 0
  BY <1>1, <1>5
<1> HIDE DEF order, m
<1>7. \A i \in 1..m : order[i] \in S
  BY <1>1, <1>3, <1>4
<1>8. SubSeq(order, 1, m) \in Seq(S) /\ Len(SubSeq(order, 1, m)) = IF 1 <= m THEN m - 1 + 1 ELSE 0
  BY <1>1, <1>4, <1>7, SubSeqProperties
<1>9. FirstOf(S, n) \subseteq S
  BY <1>2, <1>8, MembersAre
<1>10. ASSUME m # 0 PROVE FirstOf(S, n) # {}
  <2>1. 1 \in DOMAIN SubSeq(order, 1, m)
    BY <1>1, <1>4, <1>8, <1>10
  <2> QED
    BY <1>2, <2>1 DEF ToSet
<1> QED
  BY <1>6, <1>9, <1>10

LEMMA CombinationsAreOfThePool ==
  ASSUME NEW pool, IsFiniteSet(pool), NEW anchor \in pool, NEW base
  PROVE  Combinations(anchor, base, pool) \subseteq SUBSET pool
<1> DEFINE around == Around(anchor, base, pool)
<1>1. \A slot : \A n \in Nat : FirstOf(In(pool, slot), n) \subseteq pool
  <2> TAKE slot
  <2> TAKE n \in Nat
  <2>1. In(pool, slot) \in SUBSET pool
    BY DEF In
  <2>2. IsFiniteSet(In(pool, slot))
    BY <2>1, FS_Subset
  <2> QED
    BY <2>1, <2>2, FirstOfAre
<1>2. PerSlot \in Nat /\ PerOptional \in Nat
  BY PoolAssumption
<1>3. \A rest \in Products(pool, around) : rest \subseteq pool
  <2> SUFFICES ASSUME NEW rest \in Products(pool, around) PROVE rest \subseteq pool
    OBVIOUS
  <2> HIDE DEF around
  <2>1. CASE around = {}
    BY <2>1 DEF Products
  <2>2. CASE around # {}
    <3> DEFINE options == [slot \in around |-> FirstOf(In(pool, slot), PerSlot)]
               picks == {p \in [around -> UNION {options[s] : s \in around}] :
                          \A slot \in around : p[slot] \in options[slot]}
    <3>1. \E pick \in picks : rest = {pick[slot] : slot \in around}
      BY <2>2 DEF Products
    <3>2. PICK pick \in picks : rest = {pick[slot] : slot \in around}
      BY <3>1
    <3>3. \A slot \in around : pick[slot] \in FirstOf(In(pool, slot), PerSlot)
      OBVIOUS
    <3>4. \A slot \in around : pick[slot] \in pool
      BY <1>1, <1>2, <3>3
    <3> QED
      BY <3>2, <3>4
  <2> QED
    BY <2>1, <2>2
<1>4. \A extra \in Extras(pool) : extra \subseteq pool
  <2>1. UNION {FirstOf(In(pool, slot), PerOptional) : slot \in OptionalSlots} \subseteq pool
    BY <1>1, <1>2
  <2> QED
    BY <2>1 DEF Extras
<1> HIDE DEF around
<1>5. Combinations(anchor, base, pool) = {}
      \/ Combinations(anchor, base, pool) =
           {{anchor} \cup rest \cup extra : rest \in Products(pool, around), extra \in Extras(pool)}
  BY DEF Combinations, around
<1>6. {{anchor} \cup rest \cup extra : rest \in Products(pool, around), extra \in Extras(pool)}
        \subseteq SUBSET pool
  BY <1>3, <1>4
<1> QED
  BY <1>5, <1>6

LEMMA AnchorsAreOfThePool ==
  ASSUME NEW pool, NEW day
  PROVE  PickAnchors(pool, day) \subseteq {g \in pool : Slot[g] \in BaseSlots}
BY DEF PickAnchors, Best

\* What is tried, before the rules.
Tries(pool, day) ==
  UNION {UNION {Combinations(anchor, base, pool) :
                 base \in {b \in BaseStructures : Slot[anchor] \in b}} :
         anchor \in PickAnchors(pool, day)}

LEMMA TriesAre ==
  ASSUME NEW pool, NEW day, IsFiniteSet(pool)
  PROVE  /\ GenerateCandidates(pool, day) =
              FirstOf({outfit \in Tries(pool, day) : Legal(outfit)}, MaxCandidates)
         /\ \A outfit \in Tries(pool, day) : outfit \subseteq pool
         /\ IsFiniteSet({outfit \in Tries(pool, day) : Legal(outfit)})
<1>1. GenerateCandidates(pool, day) =
        FirstOf({outfit \in Tries(pool, day) : Legal(outfit)}, MaxCandidates)
  BY DEF GenerateCandidates, Tries
<1>2. \A outfit \in Tries(pool, day) : outfit \subseteq pool
  <2> SUFFICES ASSUME NEW outfit \in Tries(pool, day) PROVE outfit \subseteq pool
    OBVIOUS
  <2>1. PICK anchor \in PickAnchors(pool, day) :
          outfit \in UNION {Combinations(anchor, base, pool) :
                             base \in {b \in BaseStructures : Slot[anchor] \in b}}
    BY DEF Tries
  <2>2. PICK base : outfit \in Combinations(anchor, base, pool)
    BY <2>1
  <2>3. anchor \in pool
    BY AnchorsAreOfThePool
  <2> QED
    BY <2>2, <2>3, CombinationsAreOfThePool
<1>3. IsFiniteSet(SUBSET pool)
  BY FS_SUBSET
<1>4. {outfit \in Tries(pool, day) : Legal(outfit)} \in SUBSET SUBSET pool
  BY <1>2
<1>5. IsFiniteSet({outfit \in Tries(pool, day) : Legal(outfit)})
  BY <1>3, <1>4, FS_Subset
<1> QED
  BY <1>1, <1>2, <1>5

LEMMA TriedAreLegal ==
  ASSUME NEW pool, NEW day, IsFiniteSet(pool)
  PROVE  /\ \A outfit \in GenerateCandidates(pool, day) : Legal(outfit) /\ outfit \subseteq pool
         /\ (\E outfit \in Tries(pool, day) : Legal(outfit)) => GenerateCandidates(pool, day) # {}
<1> DEFINE legal == {outfit \in Tries(pool, day) : Legal(outfit)}
<1>1. MaxCandidates \in Nat /\ MaxCandidates # 0
  BY PoolAssumption
<1>2. IsFiniteSet(legal) /\ GenerateCandidates(pool, day) = FirstOf(legal, MaxCandidates)
  BY TriesAre
<1>3. \A outfit \in legal : Legal(outfit) /\ outfit \subseteq pool
  BY TriesAre
<1>4. (\E outfit \in Tries(pool, day) : Legal(outfit)) => legal # {}
  OBVIOUS
<1> HIDE DEF legal
<1> QED
  BY <1>1, <1>2, <1>3, <1>4, FirstOfAre

\* The first n of an order; those that a number puts first, by the place among equals.
Top(S, n, before) == {g \in S : Cardinality({h \in S \ {g} : <<h, g>> \in before}) < n}

ByValue(S, value, place) ==
  {p \in S \X S : \/ value[p[1]] < value[p[2]]
                  \/ value[p[1]] = value[p[2]] /\ place[p[1]] < place[p[2]]}

LEMMA ByValueOrders ==
  ASSUME NEW S, NEW T \in SUBSET S, NEW value \in [S -> Int], NEW place \in [S -> Int],
         \A g, h \in S : place[g] = place[h] => g = h
  PROVE  StrictOrder(T, ByValue(S, value, place))
<1>1. \A g, h \in S : <<g, h>> \in ByValue(S, value, place) <=>
        \/ value[g] < value[h]
        \/ value[g] = value[h] /\ place[g] < place[h]
  BY DEF ByValue
<1>2. \A g \in S : value[g] \in Int /\ place[g] \in Int
  OBVIOUS
<1>3. \A g \in T : <<g, g>> \notin ByValue(S, value, place)
  BY <1>1, <1>2
<1>4. \A g, h, i \in T : <<g, h>> \in ByValue(S, value, place) /\ <<h, i>> \in ByValue(S, value, place)
        => <<g, i>> \in ByValue(S, value, place)
  <2> TAKE g, h, i \in T
  <2> QED
    BY <1>1, <1>2
<1>5. \A g, h \in T : g # h =>
        <<g, h>> \in ByValue(S, value, place) \/ <<h, g>> \in ByValue(S, value, place)
  <2> TAKE g, h \in T
  <2>1. g # h => place[g] # place[h]
    OBVIOUS
  <2> QED
    BY <1>1, <1>2, <2>1
<1> QED
  BY <1>3, <1>4, <1>5 DEF StrictOrder

LEMMA IntervalHas ==
  ASSUME NEW n \in Nat PROVE IsFiniteSet(1..n) /\ Cardinality(1..n) = n
<1> DEFINE l == 1
<1>1. l \in Int /\ n \in Int
  OBVIOUS
<1> HIDE DEF l
<1>2. IsFiniteSet(l..n) /\ Cardinality(l..n) = IF l > n THEN 0 ELSE n - l + 1
  BY <1>1, FS_Interval
<1> QED
  BY <1>1, <1>2 DEF l

\* As many are at the top as are asked for, or all there are.
LEMMA TopHas ==
  ASSUME NEW S, IsFiniteSet(S), NEW before, StrictOrder(S, before), NEW n \in Nat
  PROVE  /\ Top(S, n, before) \subseteq S /\ IsFiniteSet(Top(S, n, before))
         /\ Cardinality(Top(S, n, before)) = IF n < Cardinality(S) THEN n ELSE Cardinality(S)
<1> DEFINE all == Cardinality(S)
           m == IF n < all THEN n ELSE all
           at == Ordered(S, before)
           T == Top(S, n, before)
<1>1. all \in Nat /\ m \in Nat /\ m <= all /\ m <= n
  BY FS_CardinalityType
<1>2. at \in Bijection(1..all, S)
      /\ \A k, l \in 1..all : k < l <=> <<at[k], at[l]>> \in before
  BY OrderedPlaces
<1>3. T \subseteq S /\ IsFiniteSet(T)
  <2>1. T \in SUBSET S
    BY DEF Top
  <2> HIDE DEF T
  <2> QED
    BY <2>1, FS_Subset
<1> HIDE DEF at
<1>4. ASSUME NEW k \in 1..all
      PROVE  Cardinality({h \in S \ {at[k]} : <<h, at[k]>> \in before}) = k - 1
  <2> DEFINE first == 1..(k - 1)
             those == {h \in S \ {at[k]} : <<h, at[k]>> \in before}
             f == [l \in first |-> at[l]]
  <2>1. k \in Nat /\ k - 1 \in Nat /\ \A l : l \in first <=> l \in 1..all /\ l < k
    BY <1>1
  <2>2. IsFiniteSet(first) /\ Cardinality(first) = k - 1
    BY <2>1, IntervalHas
  <2>3. \A l \in first : f[l] = at[l]
    OBVIOUS
  <2>4. \A h : h \in those <=> h \in S /\ h # at[k] /\ <<h, at[k]>> \in before
    OBVIOUS
  <2>5. f = [l \in first |-> at[l]]
    OBVIOUS
  <2> HIDE DEF first, those, f
  <2>6. \A l \in first : at[l] \in those
    <3> TAKE l \in first
    <3>1. l \in 1..all /\ l < k
      BY <2>1
    <3>2. at[l] \in S /\ <<at[l], at[k]>> \in before
      BY <1>2, <3>1 DEF Bijection, Injection
    <3>3. at[l] # at[k]
      BY <1>1, <1>2, <3>1 DEF Bijection, Injection, IsInjective
    <3> QED
      BY <2>4, <3>2, <3>3
  <2>7. f \in [first -> those]
    BY <2>5, <2>6
  <2>8. \A i, l \in first : f[i] = f[l] => i = l
    BY <2>1, <2>3, <1>2 DEF Bijection, Injection, IsInjective
  <2>9. \A h \in those : \E l \in first : f[l] = h
    <3> TAKE h \in those
    <3>1. PICK l \in 1..all : at[l] = h
      BY <2>4, <1>2 DEF Bijection, Surjection
    <3>2. l < k
      BY <2>4, <3>1, <1>2
    <3> QED
      BY <2>1, <2>3, <3>1, <3>2
  <2>10. f \in Bijection(first, those)
    BY <2>7, <2>8, <2>9 DEF Bijection, Injection, Surjection, IsInjective
  <2>11. ExistsBijection(first, those)
    BY <2>10 DEF ExistsBijection
  <2>12. Cardinality(those) = k - 1
    BY <2>2, <2>11, FS_Bijection
  <2> QED
    BY <2>12 DEF those
<1>5. \A k \in 1..all : at[k] \in T <=> k <= n
  <2> TAKE k \in 1..all
  <2>1. at[k] \in S
    BY <1>2 DEF Bijection, Injection
  <2>2. Cardinality({h \in S \ {at[k]} : <<h, at[k]>> \in before}) = k - 1
    BY <1>4
  <2>3. at[k] \in T <=> Cardinality({h \in S \ {at[k]} : <<h, at[k]>> \in before}) < n
    BY <2>1 DEF Top
  <2>4. at[k] \in T <=> k - 1 < n
    BY <2>2, <2>3
  <2> HIDE DEF T
  <2> QED
    BY <2>4, <1>1
<1> DEFINE N == 1..m f == [k \in N |-> at[k]]
<1>6. IsFiniteSet(N) /\ Cardinality(N) = m
  BY <1>1, IntervalHas
<1>7. \A k : k \in N <=> k \in 1..all /\ k <= n
  BY <1>1
<1>8. f = [k \in N |-> at[k]]
  OBVIOUS
<1> HIDE DEF T, N, f, m, all
<1>9. f \in [N -> T]
  BY <1>5, <1>7, <1>8
<1>10. \A i, k \in N : f[i] = f[k] => i = k
  BY <1>2, <1>7, <1>8 DEF Bijection, Injection, IsInjective
<1>11. \A g \in T : \E k \in N : f[k] = g
  <2> TAKE g \in T
  <2>1. PICK k \in 1..all : at[k] = g
    BY <1>2, <1>3 DEF Bijection, Surjection
  <2> QED
    BY <2>1, <1>5, <1>7, <1>8
<1>12. ExistsBijection(N, T)
  BY <1>9, <1>10, <1>11 DEF ExistsBijection, Bijection, Injection, Surjection, IsInjective
<1>13. Cardinality(T) = m
  BY <1>6, <1>12, FS_Bijection
<1> QED
  BY <1>3, <1>13 DEF T, m, all

--------------------------------------------------------------------------------
\* Anchors are taken until there are AnchorCount, or no more garments to take.
LEMMA AnchorsHave ==
  ASSUME NEW pool \in SUBSET Pieces, IsFiniteSet(pool), NEW day, IsDay(day)
  PROVE  LET items == {g \in pool : Slot[g] \in BaseSlots}
         IN  /\ IsFiniteSet(PickAnchors(pool, day)) /\ PickAnchors(pool, day) \subseteq items
             /\ PickAnchors(pool, day) = items \/ Cardinality(PickAnchors(pool, day)) >= AnchorCount
<1> DEFINE items == {g \in pool : Slot[g] \in BaseSlots}
           rank == SetToSeq(items)
           at(g) == CHOOSE i \in DOMAIN rank : rank[i] = g
           off(g) == IF Formality[g] = Unset THEN 2 ELSE Apart(Formality[g], day.formality)
           place == [g \in items |-> at(g)]
           offs == [g \in items |-> off(g)]
           worn == [g \in items |-> WearCount[g]]
           near == ByValue(items, offs, place)
           rare == ByValue(items, worn, place)
           some == AnchorCount - ExplorationAnchors
           plausible == Top(items, some, near)
           left == items \ plausible
           more == AnchorCount - Cardinality(plausible)
<1>1. items \in SUBSET pool
  OBVIOUS
<1>2. IsFiniteSet(items)
  BY <1>1, FS_Subset
<1>3. /\ rank \in Bijection(1..Cardinality(items), items)
      /\ DOMAIN rank = 1..Cardinality(items) /\ Cardinality(items) \in Nat
  <2> HIDE DEF items
  <2> QED
    BY <1>2, SetToSeqLists
<1>4. \A g \in items : at(g) \in 1..Cardinality(items) /\ rank[at(g)] = g
  <2> TAKE g \in items
  <2>1. \E i \in DOMAIN rank : rank[i] = g
    BY <1>3 DEF Bijection, Surjection
  <2> HIDE DEF rank, items
  <2> QED
    BY <2>1, <1>3
<1>5. place \in [items -> Int] /\ \A g, h \in items : place[g] = place[h] => g = h
  <2> HIDE DEF items, rank, at
  <2> QED
    BY <1>3, <1>4
<1>6. offs \in [items -> Int] /\ worn \in [items -> Int]
  <2>1. \A g \in items : g \in Pieces /\ WearCount[g] \in Nat /\ Formality[g] \in Int \cup {Unset}
    BY <1>1, PoolAssumption
  <2>2. \A g \in items : off(g) \in Int
    BY <2>1 DEF Apart, IsDay
  <2> HIDE DEF items, off
  <2> QED
    BY <2>1, <2>2
<1>7. AnchorCount \in Nat /\ some \in Nat /\ some <= AnchorCount
  BY PoolAssumption
<1>8. PickAnchors(pool, day) = plausible \cup Top(left, more, rare)
  <2>1. \A g, h \in items : <<h, g>> \in near <=>
          (off(h) < off(g) \/ (off(h) = off(g) /\ at(h) < at(g)))
    <3> HIDE DEF items, off, at
    <3> QED
      BY DEF ByValue
  <2>2. \A g, h \in items : <<h, g>> \in rare <=>
          (WearCount[h] < WearCount[g] \/ (WearCount[h] = WearCount[g] /\ at(h) < at(g)))
    <3> HIDE DEF items, off, at
    <3> QED
      BY DEF ByValue
  <2> DEFINE nearer(h, g) == off(h) < off(g) \/ (off(h) = off(g) /\ at(h) < at(g))
             rarer(h, g) == WearCount[h] < WearCount[g]
                              \/ (WearCount[h] = WearCount[g] /\ at(h) < at(g))
             best == {g \in items : Cardinality({h \in items \ {g} : nearer(h, g)}) < some}
             rest == items \ best
             also == {g \in rest : Cardinality({h \in rest \ {g} : rarer(h, g)})
                                      < AnchorCount - Cardinality(best)}
  <2>3. PickAnchors(pool, day) = best \cup also
    BY DEF PickAnchors, Best
  <2>4. best = plausible
    <3>1. \A g \in items : {h \in items \ {g} : nearer(h, g)} = {h \in items \ {g} : <<h, g>> \in near}
      <4> HIDE DEF items, near, nearer
      <4>1. \A g, h \in items : <<h, g>> \in near <=> nearer(h, g)
        BY <2>1 DEF nearer
      <4> QED
        BY <4>1
    <3> HIDE DEF items, near, nearer, some
    <3> QED
      BY <3>1 DEF Top
  <2>5. also = Top(left, more, rare)
    <3>1. \A g, h \in items : <<h, g>> \in rare <=> rarer(h, g)
      BY <2>2
    <3>2. rest = left
      BY <2>4
    <3>3. left \subseteq items
      OBVIOUS
    <3> HIDE DEF items, rare, rarer, best, plausible, some, left
    <3>4. \A g \in left : {h \in left \ {g} : rarer(h, g)} = {h \in left \ {g} : <<h, g>> \in rare}
      BY <3>1, <3>3
    <3> HIDE DEF rest
    <3> QED
      BY <2>4, <3>2, <3>4 DEF Top
  <2> HIDE DEF best, also, plausible, left, more
  <2> QED
    BY <2>3, <2>4, <2>5
<1>9. StrictOrder(items, near) /\ StrictOrder(left, rare)
  <2>1. left \in SUBSET items /\ items \in SUBSET items
    OBVIOUS
  <2> HIDE DEF items, left, place, offs, worn
  <2> QED
    BY <2>1, <1>5, <1>6, ByValueOrders
<1> HIDE DEF items, near, rare, some
<1>10. /\ plausible \subseteq items /\ IsFiniteSet(plausible)
       /\ Cardinality(plausible) = IF some < Cardinality(items) THEN some ELSE Cardinality(items)
  BY <1>2, <1>7, <1>9, TopHas
<1>11. Cardinality(items) \in Nat
  BY <1>2, FS_CardinalityType
<1> HIDE DEF plausible
<1>12. Cardinality(plausible) \in Nat /\ more \in Nat
  BY <1>7, <1>10, <1>11
<1>13. /\ left \in SUBSET items /\ IsFiniteSet(left)
       /\ left \cap plausible = {} /\ items = left \cup plausible
  <2>1. left \in SUBSET items
    OBVIOUS
  <2> QED
    BY <1>2, <1>10, <2>1, FS_Subset
<1>14. Cardinality(left) \in Nat
  BY <1>13, FS_CardinalityType
<1> HIDE DEF left, more
<1> DEFINE explored == Top(left, more, rare)
<1>15. /\ explored \subseteq left /\ IsFiniteSet(explored)
       /\ Cardinality(explored) = IF more < Cardinality(left) THEN more ELSE Cardinality(left)
  BY <1>9, <1>12, <1>13, TopHas
<1> HIDE DEF explored
<1>16. /\ plausible \cap explored = {} /\ PickAnchors(pool, day) = plausible \cup explored
  BY <1>8, <1>13, <1>15 DEF explored
<1>17. /\ IsFiniteSet(plausible \cup explored)
       /\ Cardinality(plausible \cup explored) = Cardinality(plausible) + Cardinality(explored)
  <2>1. Cardinality(plausible \cup explored)
          = Cardinality(plausible) + Cardinality(explored) - Cardinality(plausible \cap explored)
    BY <1>10, <1>15, FS_Union
  <2>2. Cardinality(plausible \cap explored) = 0
    BY <1>16, FS_EmptySet
  <2>3. Cardinality(explored) \in Nat
    BY <1>15, FS_CardinalityType
  <2>4. IsFiniteSet(plausible \cup explored)
    BY <1>10, <1>15, FS_Union
  <2>5. Cardinality(plausible \cup explored) = Cardinality(plausible) + Cardinality(explored)
    BY <1>12, <2>1, <2>2, <2>3
  <2> QED
    BY <2>4, <2>5
<1>18. CASE more < Cardinality(left)
  <2>1. Cardinality(explored) = AnchorCount - Cardinality(plausible)
    BY <1>15, <1>18 DEF more
  <2>2. Cardinality(PickAnchors(pool, day)) = AnchorCount
    BY <1>7, <1>12, <1>16, <1>17, <2>1
  <2> QED
    BY <1>7, <1>10, <1>13, <1>15, <1>16, <1>17, <2>2 DEF items
<1>19. CASE ~(more < Cardinality(left))
  <2>1. explored = left
    BY <1>13, <1>15, <1>19, FS_Subset
  <2> QED
    BY <1>10, <1>13, <1>15, <1>16, <1>17, <2>1 DEF items
<1> QED
  BY <1>18, <1>19

\* One garment for each slot of a base, shoes or none, and nothing with a rule of
\* its own: such an outfit is legal.
LEMMA PlainIsLegal ==
  ASSUME NEW base \in BaseStructures, NEW outfit,
         \A g \in outfit : Slot[g] \in base \cup PreferredSlots /\ Kind[g] \notin SpecialKinds,
         \A g, h \in outfit : Slot[g] = Slot[h] => g = h,
         \A slot \in base : In(outfit, slot) # {}
  PROVE  Legal(outfit)
<1>1. \A slot : In(outfit, slot) = {} \/ \E g : In(outfit, slot) = {g}
  <2> TAKE slot
  <2> SUFFICES ASSUME NEW g \in In(outfit, slot) PROVE In(outfit, slot) = {g}
    OBVIOUS
  <2> QED
    BY DEF In
<1>2. \A slot : /\ Has(outfit, slot) \in {0, 1}
                /\ In(outfit, slot) # {} => Has(outfit, slot) = 1
                /\ In(outfit, slot) = {} => Has(outfit, slot) = 0
  <2> TAKE slot
  <2>1. CASE In(outfit, slot) = {}
    BY <2>1, FS_EmptySet DEF Has
  <2>2. CASE In(outfit, slot) # {}
    <3>1. PICK g : In(outfit, slot) = {g}
      BY <1>1, <2>2
    <3> QED
      BY <2>2, <3>1, FS_Singleton DEF Has
  <2> QED
    BY <2>1, <2>2
<1>3. \A slot : slot \notin base \cup PreferredSlots => Has(outfit, slot) = 0
  <2> TAKE slot
  <2>1. slot \notin base \cup PreferredSlots => In(outfit, slot) = {}
    BY DEF In
  <2> QED
    BY <2>1, <1>2
<1>4. \A slot : Covers(outfit, slot) = Has(outfit, slot)
  <2> TAKE slot
  <2>1. {g \in outfit : Kind[g] \in LowerEquivalent} = {}
    BY DEF SpecialKinds
  <2>2. Cardinality({}) = 0
    BY FS_EmptySet
  <2> QED
    BY <1>2, <2>1, <2>2 DEF Covers
<1>5. base \in Complete(outfit)
  BY <1>2, <1>4 DEF Complete
<1>6. \A other \in BaseStructures : other # base =>
        \E slot \in other : slot \notin base \cup PreferredSlots
  <2>1. CASE base = {"upper_base", "lower"}
    BY <2>1 DEF BaseStructures, PreferredSlots
  <2>2. CASE base = {"full_body"}
    BY <2>2 DEF BaseStructures, PreferredSlots
  <2> QED
    BY <2>1, <2>2 DEF BaseStructures
<1>7. Complete(outfit) = {base}
  <2>1. ASSUME NEW other \in Complete(outfit), other # base PROVE FALSE
    <3>1. other \in BaseStructures /\ \A slot \in other : Covers(outfit, slot) = 1
      BY DEF Complete
    <3>2. PICK slot \in other : slot \notin base \cup PreferredSlots
      BY <1>6, <2>1, <3>1
    <3> QED
      BY <1>3, <1>4, <3>1, <3>2
  <2> QED
    BY <1>5, <2>1
<1>8. Cardinality(Complete(outfit)) = 1
  BY <1>7, FS_Singleton
<1>9. \A slot \in PreferredSlots \cup AtMostOne : ~(Has(outfit, slot) > 1)
  BY <1>2
<1>10. \A s \in Ranges : ~(Has(outfit, s[1]) > s[2])
  <2> TAKE s \in Ranges
  <2>1. s[2] \in {2, 5}
    BY DEF Ranges
  <2> QED
    BY <1>2, <2>1
<1>11. Kinds(outfit) \cap NeedsTop = {}
  BY DEF Kinds, SpecialKinds
<1>12. \A pair \in ForbiddenPairs : ~(pair \subseteq Kinds(outfit))
  <2> TAKE pair \in ForbiddenPairs
  <2>1. pair # {}
    BY DEF ForbiddenPairs
  <2>2. pair \subseteq SpecialKinds
    BY DEF SpecialKinds
  <2> QED
    BY <2>1, <2>2 DEF Kinds
<1>13. \A r \in {"base", "preferred", "single", "range", "requires", "pair"} : r \notin Violations(outfit)
  BY <1>8, <1>9, <1>10, <1>11, <1>12 DEF Violations
<1>14. Violations(outfit) \subseteq {"base", "preferred", "single", "range", "requires", "pair"}
  BY DEF Violations
<1> QED
  BY <1>13, <1>14 DEF Legal

\* Around a garment that can be an anchor there is an outfit to try, and it is legal.
LEMMA SomeOutfitIsTried ==
  ASSUME NEW pool \in SUBSET Pieces, IsFiniteSet(pool), NEW day, IsDay(day),
         \E g \in pool : CanAnchor(g, pool),
         Cardinality({g \in pool : Slot[g] \in BaseSlots /\ ~CanAnchor(g, pool)}) < AnchorCount,
         \A g \in pool : Kind[g] \notin SpecialKinds
  PROVE  \E outfit \in Tries(pool, day) : Legal(outfit)
<1> DEFINE items == {g \in pool : Slot[g] \in BaseSlots}
           lonely == {g \in pool : Slot[g] \in BaseSlots /\ ~CanAnchor(g, pool)}
           anchors == PickAnchors(pool, day)
<1>1. IsFiniteSet(anchors) /\ anchors \subseteq items
      /\ (anchors = items \/ Cardinality(anchors) >= AnchorCount)
  BY AnchorsHave
<1>2. \A g \in pool : CanAnchor(g, pool) => g \in items
  BY BasesAre DEF CanAnchor, CompleteBases
<1>3. PICK anchor \in anchors : CanAnchor(anchor, pool)
  <2> SUFFICES ASSUME \A g \in anchors : ~CanAnchor(g, pool) PROVE FALSE
    OBVIOUS
  <2>1. anchors \in SUBSET lonely
    BY <1>1
  <2>2. lonely \in SUBSET pool
    OBVIOUS
  <2>3. anchors # items
    BY <1>2
  <2> HIDE DEF anchors, lonely, items
  <2>4. IsFiniteSet(lonely)
    BY <2>2, FS_Subset
  <2>5. Cardinality(anchors) <= Cardinality(lonely)
    BY <2>1, <2>4, FS_Subset
  <2>6. Cardinality(anchors) \in Nat /\ Cardinality(lonely) \in Nat /\ AnchorCount \in Nat
    BY <1>1, <2>4, FS_CardinalityType, PoolAssumption
  <2>7. Cardinality(lonely) < AnchorCount
    BY DEF lonely
  <2> QED
    BY <1>1, <2>3, <2>5, <2>6, <2>7
<1>4. anchor \in pool
  BY <1>1, <1>3
<1>5. PICK base \in CompleteBases(pool) : Slot[anchor] \in base /\ Around(anchor, base, pool) # {}
  BY <1>3 DEF CanAnchor
<1>6. base \in BaseStructures /\ \A slot \in base : In(pool, slot) # {}
  BY <1>5 DEF CompleteBases
<1> DEFINE around == Around(anchor, base, pool)
           options == [slot \in around |-> FirstOf(In(pool, slot), PerSlot)]
           pick == [slot \in around |-> CHOOSE g \in options[slot] : TRUE]
           rest == {pick[slot] : slot \in around}
           outfit == {anchor} \cup rest
<1>7. /\ \A slot \in around : In(pool, slot) # {} /\ slot # Slot[anchor]
      /\ base \ {Slot[anchor]} \subseteq around /\ around \subseteq base \cup PreferredSlots
  <2>1. Slot[anchor] \notin PreferredSlots
    BY <1>5, <1>6 DEF BaseStructures, PreferredSlots
  <2> QED
    BY <1>6, <2>1 DEF Around
<1>8. \A slot \in around : options[slot] # {} /\ options[slot] \subseteq In(pool, slot)
  <2> TAKE slot \in around
  <2>1. In(pool, slot) \in SUBSET pool /\ In(pool, slot) # {}
    BY <1>7 DEF In
  <2>2. IsFiniteSet(In(pool, slot))
    BY <2>1, FS_Subset
  <2>3. PerSlot \in Nat /\ PerSlot # 0
    BY PoolAssumption
  <2>4. options[slot] = FirstOf(In(pool, slot), PerSlot)
    OBVIOUS
  <2> HIDE DEF options, around
  <2> QED
    BY <2>1, <2>2, <2>3, <2>4, FirstOfAre
<1>9. \A slot \in around : pick[slot] \in options[slot]
  <2> TAKE slot \in around
  <2>1. pick[slot] = CHOOSE g \in options[slot] : TRUE
    OBVIOUS
  <2> HIDE DEF pick, options
  <2> QED
    BY <1>8, <2>1
<1>10. \A slot \in around : pick[slot] \in pool /\ Slot[pick[slot]] = slot
  <2> HIDE DEF pick, options, around
  <2> QED
    BY <1>8, <1>9 DEF In
<1>11. rest \in Products(pool, around)
  <2>1. pick \in [around -> UNION {options[s] : s \in around}]
    <3>1. pick = [slot \in around |-> pick[slot]]
      OBVIOUS
    <3>2. \A slot \in around : pick[slot] \in UNION {options[s] : s \in around}
      <4> HIDE DEF pick, options, around
      <4> QED
        BY <1>9
    <3> HIDE DEF pick, options, around
    <3> QED
      BY <3>1, <3>2
  <2>2. around # {}
    BY <1>5
  <2>3. Products(pool, around) =
          {{p[slot] : slot \in around} :
            p \in {q \in [around -> UNION {options[s] : s \in around}] :
                    \A slot \in around : q[slot] \in options[slot]}}
    <3> HIDE DEF pick, around
    <3> QED
      BY <2>2 DEF Products
  <2> HIDE DEF pick, options, around
  <2> QED
    BY <1>9, <2>1, <2>3
<1>12. outfit \in Combinations(anchor, base, pool)
  <2>1. {} \in Extras(pool) /\ outfit = {anchor} \cup rest \cup {}
    BY DEF Extras
  <2>2. Combinations(anchor, base, pool) =
          {{anchor} \cup r \cup extra : r \in Products(pool, around), extra \in Extras(pool)}
    <3>1. around # {} /\ \A s \in base \ {Slot[anchor]} : In(pool, s) # {}
      BY <1>5, <1>6
    <3> QED
      BY <3>1 DEF Combinations
  <2> HIDE DEF around, rest, outfit
  <2> QED
    BY <1>11, <2>1, <2>2
<1>13. outfit \in Tries(pool, day)
  <2>1. base \in {b \in BaseStructures : Slot[anchor] \in b}
    BY <1>5, <1>6
  <2> HIDE DEF outfit
  <2> QED
    BY <1>3, <1>12, <2>1 DEF Tries
<1>14. Legal(outfit)
  <2>1. \A g \in outfit : g = anchor \/ \E slot \in around : g = pick[slot] /\ Slot[g] = slot /\ g \in pool
    <3> HIDE DEF around, pick
    <3> QED
      BY <1>10
  <2>2. \A slot \in around : \E g \in outfit : Slot[g] = slot
    <3> HIDE DEF around, pick
    <3> QED
      BY <1>10
  <2>3. anchor \in outfit
    OBVIOUS
  <2> HIDE DEF outfit, around, pick, rest
  <2>4. \A g \in outfit : Slot[g] \in base \cup PreferredSlots /\ Kind[g] \notin SpecialKinds
    BY <1>4, <1>5, <1>7, <2>1
  <2>5. \A g, h \in outfit : Slot[g] = Slot[h] => g = h
    BY <1>7, <2>1
  <2>6. \A slot \in base : In(outfit, slot) # {}
    BY <1>7, <2>2, <2>3 DEF In
  <2> QED
    BY <1>6, <2>4, <2>5, <2>6, PlainIsLegal
<1> QED
  BY <1>13, <1>14

(* Relaxing beats emptying, of every finite wardrobe and every day. *)
LEMMA RelaxingAlwaysBeatsEmptying ==
  ASSUME NEW wardrobe \in SUBSET Pieces, IsFiniteSet(wardrobe), NEW day, IsDay(day)
  PROVE  LET result == LoadWardrobe(wardrobe, day)
         IN  RelaxingBeatsEmptying(wardrobe, day, result, GenerateCandidates(result.pool, day))
<1> DEFINE result == LoadWardrobe(wardrobe, day)
           able == Able(wardrobe, day)
           wanted == Wanted(wardrobe, day)
           tried == GenerateCandidates(result.pool, day)
<1>1. result.pool = Loaded(wardrobe, day) /\ result.blocking = BaseNote(Loaded(wardrobe, day))
  BY LoadedIs
<1>2. result.pool \subseteq able /\ able \subseteq wardrobe
  BY <1>1, RescuedBetween, PoolsNest
<1>3. CompleteBases(able) # {} <=> result.blocking = {}
  BY <1>1, NothingIsEmptied, BlockingIsNoBase
<1>4. \A slot \in PreferredSlots : In(able, slot) # {} <=> In(result.pool, slot) # {}
  BY <1>1, NothingIsEmptied
<1>5. /\ \A g \in result.pool \ wanted :
            \E n \in result.notes : n[1] \in {"any warmth", "wet material"} /\ n[2] = Slot[g]
      /\ \A g \in result.pool : Kind[g] \in day.avoids =>
            \E n \in result.notes :
              n[1] \in {"avoids relaxed", "any warmth", "wet material"} /\ n[2] = Slot[g]
  BY TheUserIsTold
<1>6. /\ able = PoolOf(wardrobe, day, WarmthRelaxed, FALSE)
      /\ wanted = ApplyAvoids(PoolOf(wardrobe, day, WarmthTolerance, day.wet), day)
  BY DEF Able, Wanted, Matched
<1> HIDE DEF result, able, wanted
<1>7. result.pool \in SUBSET Pieces /\ IsFiniteSet(result.pool)
  <2>1. result.pool \in SUBSET wardrobe
    BY <1>2
  <2> QED
    BY <2>1, FS_Subset
<1>8. \A outfit \in tried : Legal(outfit) /\ outfit \subseteq result.pool
  BY <1>7, TriedAreLegal
<1>9. /\ \E g \in result.pool : CanAnchor(g, result.pool)
      /\ Cardinality({g \in result.pool : Slot[g] \in BaseSlots /\ ~CanAnchor(g, result.pool)})
           < AnchorCount
      /\ \A g \in result.pool : Kind[g] \notin SpecialKinds
      => tried # {}
  BY <1>7, SomeOutfitIsTried, TriedAreLegal
<1> HIDE DEF tried
<1>10. RelaxingBeatsEmptying(wardrobe, day, result, tried)
  BY <1>2, <1>3, <1>4, <1>5, <1>6, <1>8, <1>9 DEF RelaxingBeatsEmptying
<1> QED
  BY <1>10 DEF tried, result

\* The gaps are of the pool, and blocking exactly if nothing can be worn.
LEMMA GapsAre ==
  ASSUME NEW pool
  PROVE  LET gaps == FindGaps(pool)
             slots == {g.slot : g \in gaps}
         IN  /\ (\E g \in gaps : g.severity = "blocking") <=> CompleteBases(pool) = {}
             /\ Cardinality(slots) = Cardinality(gaps)
             /\ \A slot \in slots : In(pool, slot) = {}
             /\ \A slot \in slots :
                  slot \in PreferredSlots \/ (slot \in BaseSlots /\ CompleteBases(pool) = {})
             /\ CompleteBases(pool) = {} =>
                  \A slot \in BaseSlots : In(pool, slot) = {} => slot \in slots
<1> DEFINE gaps == FindGaps(pool)
           slots == {g.slot : g \in gaps}
           blocking == IF CompleteBases(pool) = {} THEN {s \in BaseSlots : In(pool, s) = {}} ELSE {}
           lacking == {s \in PreferredSlots : In(pool, s) = {}}
           all == blocking \cup lacking
           f == [slot \in all |-> Gap(slot, IF slot \in blocking THEN "blocking" ELSE "incomplete")]
<1>1. gaps = {Gap(slot, "blocking") : slot \in blocking}
               \cup {Gap(slot, "incomplete") : slot \in lacking \ blocking}
  BY DEF FindGaps
<1>2. \A slot, severity : Gap(slot, severity).slot = slot /\ Gap(slot, severity).severity = severity
  BY DEF Gap
<1>3. IsFiniteSet(all)
  <2>1. IsFiniteSet({"upper_base"}) /\ IsFiniteSet({"lower"}) /\ IsFiniteSet({"full_body"})
        /\ IsFiniteSet({"feet"})
    BY FS_Singleton
  <2>2. IsFiniteSet(({"upper_base"} \cup {"lower"}) \cup ({"full_body"} \cup {"feet"}))
    <3>1. IsFiniteSet({"upper_base"} \cup {"lower"}) /\ IsFiniteSet({"full_body"} \cup {"feet"})
      BY <2>1, FS_Union
    <3> QED
      BY <3>1, FS_Union
  <2>3. all \in SUBSET (({"upper_base"} \cup {"lower"}) \cup ({"full_body"} \cup {"feet"}))
    BY BasesAre DEF PreferredSlots
  <2> HIDE DEF all
  <2> QED
    BY <2>2, <2>3, FS_Subset
<1>4. CompleteBases(pool) = {} => blocking # {}
  <2> SUFFICES ASSUME CompleteBases(pool) = {} PROVE blocking # {}
    OBVIOUS
  <2>1. PICK base \in BaseStructures : TRUE
    BY DEF BaseStructures
  <2>2. PICK slot \in base : In(pool, slot) = {}
    BY DEF CompleteBases
  <2>3. slot \in BaseSlots
    BY BasesAre
  <2> QED
    BY <2>2, <2>3
<1>5. \A slot \in all : In(pool, slot) = {} /\
        (slot \in PreferredSlots \/ (slot \in BaseSlots /\ CompleteBases(pool) = {}))
  OBVIOUS
<1>6. CompleteBases(pool) = {} => \A slot \in BaseSlots : In(pool, slot) = {} => slot \in blocking
  OBVIOUS
<1>7. CompleteBases(pool) # {} => blocking = {}
  OBVIOUS
<1> HIDE DEF gaps, blocking, lacking
<1>8. \A g : g \in gaps <=>
        (\E slot \in blocking : g = Gap(slot, "blocking"))
        \/ (\E slot \in lacking \ blocking : g = Gap(slot, "incomplete"))
  BY <1>1
<1>9. \A slot : slot \in slots <=> slot \in all
  <2> TAKE slot
  <2>1. ASSUME slot \in slots PROVE slot \in all
    <3>1. PICK g \in gaps : g.slot = slot
      BY <2>1
    <3> QED
      BY <1>2, <1>8, <3>1
  <2>2. ASSUME slot \in all PROVE slot \in slots
    <3>1. CASE slot \in blocking
      BY <1>2, <1>8, <3>1
    <3>2. CASE slot \notin blocking
      <4>1. Gap(slot, "incomplete") \in gaps
        BY <1>8, <2>2, <3>2
      <4> QED
        BY <1>2, <4>1
    <3> QED
      BY <3>1, <3>2
  <2> QED
    BY <2>1, <2>2
<1>10. \A slot \in all : f[slot] \in gaps /\ f[slot].slot = slot
  <2> TAKE slot \in all
  <2>1. f[slot] = Gap(slot, IF slot \in blocking THEN "blocking" ELSE "incomplete")
    OBVIOUS
  <2> HIDE DEF f
  <2> QED
    BY <2>1, <1>2, <1>8
<1>11. \A g \in gaps : \E slot \in all : f[slot] = g
  <2> TAKE g \in gaps
  <2>1. CASE \E slot \in blocking : g = Gap(slot, "blocking")
    BY <2>1
  <2>2. CASE \E slot \in lacking \ blocking : g = Gap(slot, "incomplete")
    BY <2>2
  <2> QED
    BY <1>8, <2>1, <2>2
<1>12. f = [slot \in all |-> f[slot]]
  OBVIOUS
<1> HIDE DEF f
<1>13. f \in [all -> gaps]
  <2> HIDE DEF all
  <2> QED
    BY <1>10, <1>12
<1>14. f \in Bijection(all, gaps)
  <2>1. \A s, t \in all : f[s] = f[t] => s = t
    BY <1>10
  <2> HIDE DEF all
  <2> QED
    BY <1>11, <1>13, <2>1 DEF Bijection, Injection, Surjection, IsInjective
<1>15. slots = all
  BY <1>9
<1>16. Cardinality(slots) = Cardinality(gaps)
  <2> HIDE DEF all, slots
  <2>1. ExistsBijection(all, gaps)
    BY <1>14 DEF ExistsBijection
  <2> QED
    BY <1>3, <1>15, <2>1, FS_Bijection
<1>17. (\E g \in gaps : g.severity = "blocking") <=> CompleteBases(pool) = {}
  <2>1. ASSUME NEW g \in gaps, g.severity = "blocking" PROVE blocking # {}
    BY <1>2, <1>8, <2>1
  <2>2. ASSUME NEW slot \in blocking PROVE \E g \in gaps : g.severity = "blocking"
    BY <1>2, <1>8
  <2> QED
    BY <1>4, <1>7, <2>1, <2>2
<1> HIDE DEF slots
<1>18. /\ \A slot \in slots : In(pool, slot) = {}
       /\ \A slot \in slots :
            slot \in PreferredSlots \/ (slot \in BaseSlots /\ CompleteBases(pool) = {})
       /\ CompleteBases(pool) = {} =>
            \A slot \in BaseSlots : In(pool, slot) = {} => slot \in slots
  BY <1>5, <1>6, <1>15
<1> QED
  BY <1>16, <1>17, <1>18 DEF gaps, slots

--------------------------------------------------------------------------------
LEMMA OffersSuit ==
  ASSUME NEW slot, NEW day, NEW dressesAs, NEW p \in Offers(slot, day, dressesAs)
  PROVE  p \in Catalogue /\ Suits(p, slot, day, dressesAs)
BY DEF Offers, Best

\* What suits, is not in use and not ruled out fits the day, whatever its material.
LEMMA SuitingFits ==
  ASSUME NEW p \in Pieces, NEW slot, NEW day, IsDay(day), NEW dressesAs,
         Suits(p, slot, day, dressesAs), p \notin day.out, Kind[p] \notin day.never
  PROVE  /\ Slot[p] = slot
         /\ Fits(p, day, WarmthTolerance, FALSE) /\ Fits(p, day, WarmthRelaxed, FALSE)
         /\ ~(day.wet /\ p \in PoorWhenWet) => Fits(p, day, WarmthTolerance, day.wet)
<1>1. /\ Slot[p] = slot /\ Wears[p] \in Accepts[day.code] \cup {day.code, Untagged}
      /\ Warmth[p] = Unset \/ Apart(Warmth[p], day.warmth) <= WarmthTolerance
  BY DEF Suits, WarmthTolerance
<1>2. Fits(p, day, WarmthTolerance, FALSE)
  BY <1>1 DEF Fits
<1>3. ~(day.wet /\ p \in PoorWhenWet) => Fits(p, day, WarmthTolerance, day.wet)
  BY <1>1 DEF Fits
<1> QED
  BY <1>1, <1>2, <1>3, RelaxedFits

\* A product that suits an empty slot is in the pool once it is bought.
LEMMA BoughtIsServed ==
  ASSUME NEW wardrobe \in SUBSET Pieces, NEW day, IsDay(day),
         NEW p \in Pieces, NEW dressesAs, Suits(p, Slot[p], day, dressesAs),
         p \notin day.out, Kind[p] \notin day.never,
         In(Loaded(wardrobe, day), Slot[p]) = {},
         \/ Slot[p] \in PreferredSlots
         \/ Slot[p] \in BaseSlots /\ CompleteBases(Loaded(wardrobe, day)) = {}
  PROVE  p \in Loaded(wardrobe \cup {p}, day)
<1> DEFINE more == wardrobe \cup {p}
           slot == Slot[p]
           M == Matched(wardrobe, day) MM == Matched(more, day)
           D == Wanted(wardrobe, day) DD == Wanted(more, day)
           P == Loaded(wardrobe, day) PP == Loaded(more, day)
<1>1. more \in SUBSET Pieces
  OBVIOUS
<1>2. D \subseteq P /\ DD \subseteq PP
  BY <1>1, RescuedBetween
<1>3. In(D, slot) = {}
  BY <1>2 DEF In
<1>4. In(M, slot) = {}
  BY <1>3, AvoidsEmptyNoSlot DEF Wanted
<1>5. /\ Fits(p, day, WarmthTolerance, FALSE) /\ Fits(p, day, WarmthRelaxed, FALSE)
      /\ ~(day.wet /\ p \in PoorWhenWet) => Fits(p, day, WarmthTolerance, day.wet)
  BY SuitingFits
<1>6. CASE day.wet /\ p \in PoorWhenWet
  <2>1. \A slack : ~Fits(p, day, slack, day.wet)
    BY <1>6 DEF Fits
  <2>2. MM = M
    BY <2>1 DEF Matched, PoolOf
  <2>3. DD = D
    BY <2>2 DEF Wanted
  <2>4. slot \in ToRescue(D)
    <3>1. CompleteBases(P) = {} => CompleteBases(D) = {}
      <4>1. \A s : In(D, s) # {} => In(P, s) # {}
        BY <1>2 DEF In
      <4> HIDE DEF D, P
      <4> QED
        BY <4>1 DEF CompleteBases
    <3> QED
      BY <1>3, <3>1 DEF ToRescue
  <2>5. Dry(wardrobe, day, slot) = {}
    <3>1. Dry(wardrobe, day, slot) \subseteq P
      BY <2>4 DEF Loaded, Rescued
    <3>2. \A g \in Dry(wardrobe, day, slot) : Slot[g] = slot
      BY DEF Dry, In
    <3> QED
      BY <3>1, <3>2 DEF In
  <2>6. Dry(more, day, slot) = {}
    BY <2>1, <2>5 DEF Dry, In, PoolOf
  <2>7. p \in Damp(more, day, slot)
    BY <1>5, <1>6, <2>6 DEF Damp, In, PoolOf
  <2>8. p \in Rescued(more, day, DD)
    <3>1. slot \in ToRescue(DD)
      BY <2>3, <2>4, Zenon
    <3>2. p \in Dry(more, day, slot) \cup Damp(more, day, slot)
      BY <2>7, Zenon
    <3> HIDE DEF DD, more, slot
    <3> QED
      BY <3>1, <3>2 DEF Rescued
  <2> QED
    BY <2>8 DEF Loaded
<1>7. CASE ~(day.wet /\ p \in PoorWhenWet)
  <2>1. p \in MM
    BY <1>5, <1>7 DEF Matched, PoolOf
  <2>2. In(MM, slot) = {p}
    BY <1>4, <2>1 DEF In, Matched, PoolOf
  <2>3. p \in DD
    <3>1. CASE p \notin Avoided(MM, day)
      BY <2>1, <3>1 DEF Wanted, ApplyAvoids
    <3>2. CASE p \in Avoided(MM, day)
      <4>1. slot \in Relaxed(MM, day)
        <5> HIDE DEF MM
        <5> QED
          BY <2>1, <2>2, <3>2 DEF Relaxed
      <4> QED
        BY <2>1, <4>1 DEF Wanted, ApplyAvoids
    <3> QED
      BY <3>1, <3>2
  <2> QED
    BY <1>2, <2>3
<1> QED
  BY <1>6, <1>7

(* The shop offers what mends the gap it names, of every wardrobe and every day *)
(* on which nothing of the catalogue is in use.                                 *)
LEMMA OffersAlwaysFillTheGap ==
  ASSUME NEW wardrobe \in SUBSET Pieces, NEW day, IsDay(day), day.out \cap Catalogue = {},
         NEW dressesAs
  PROVE  OffersFillTheGap(wardrobe, day, dressesAs)
<1> DEFINE before == LoadWardrobe(wardrobe, day)
           gaps == FindGaps(before.pool)
           slots == {g.slot : g \in gaps}
           welcome(slot) == {p \in Offers(slot, day, dressesAs) : Kind[p] \notin day.never}
           P == Loaded(wardrobe, day)
<1>1. before.pool = P /\ (before.blocking = {} <=> CompleteBases(P) # {})
  BY LoadedIs, BlockingIsNoBase
<1>2. /\ (\E g \in gaps : g.severity = "blocking") <=> CompleteBases(P) = {}
      /\ Cardinality(slots) = Cardinality(gaps)
      /\ \A slot \in slots : In(P, slot) = {}
      /\ \A slot \in slots : slot \in PreferredSlots \/ (slot \in BaseSlots /\ CompleteBases(P) = {})
      /\ CompleteBases(P) = {} => \A slot \in BaseSlots : In(P, slot) = {} => slot \in slots
  BY <1>1, GapsAre
<1>3. \A slot : \A p \in welcome(slot) :
        /\ p \in Pieces /\ Slot[p] = slot /\ Suits(p, slot, day, dressesAs)
        /\ p \notin day.out /\ Kind[p] \notin day.never
  <2> TAKE slot
  <2> TAKE p \in welcome(slot)
  <2>1. p \in Catalogue /\ Suits(p, slot, day, dressesAs) /\ Kind[p] \notin day.never
    BY OffersSuit
  <2>2. Slot[p] = slot
    BY <2>1 DEF Suits
  <2> QED
    BY <2>1, <2>2, CatalogueAssumption
<1> HIDE DEF before, gaps, slots, welcome, P
<1>4. \A slot \in slots : \A p \in welcome(slot) :
        p \in LoadWardrobe(wardrobe \cup {p}, day).pool
  <2> TAKE slot \in slots
  <2> TAKE p \in welcome(slot)
  <2>1. p \in Loaded(wardrobe \cup {p}, day)
    BY <1>2, <1>3, BoughtIsServed DEF P
  <2> QED
    BY <2>1, LoadedIs
<1>5. ASSUME NEW base \in BaseStructures, before.blocking # {},
             \A slot \in base \cap slots : welcome(slot) # {}
      PROVE  LET bought == {CHOOSE p \in welcome(slot) : TRUE : slot \in base \cap slots}
             IN  LoadWardrobe(wardrobe \cup bought, day).blocking = {}
  <2> DEFINE pick(slot) == CHOOSE p \in welcome(slot) : TRUE
             bought == {pick(slot) : slot \in base \cap slots}
             more == wardrobe \cup bought
  <2>1. \A slot \in base \cap slots : pick(slot) \in welcome(slot)
    BY <1>5
  <2> HIDE DEF pick
  <2>2. more \in SUBSET Pieces
    BY <1>3, <2>1
  <2>3. ASSUME NEW slot \in base PROVE In(Able(more, day), slot) # {}
    <3>1. CASE slot \in slots
      <4>1. pick(slot) \in welcome(slot) /\ pick(slot) \in more
        BY <2>1, <3>1
      <4>2. Slot[pick(slot)] = slot /\ Fits(pick(slot), day, WarmthRelaxed, FALSE)
        BY <1>3, <4>1, SuitingFits
      <4> QED
        BY <4>1, <4>2 DEF Able, PoolOf, In
    <3>2. CASE slot \notin slots
      <4>1. CompleteBases(P) = {} /\ slot \in BaseSlots
        BY <1>1, <1>5, BasesAre
      <4>2. PICK g \in P : Slot[g] = slot
        BY <1>2, <3>2, <4>1 DEF In
      <4>3. g \in Able(wardrobe, day)
        BY <4>2, RescuedBetween DEF P
      <4>4. g \in Able(more, day)
        BY <4>3 DEF Able, PoolOf
      <4> QED
        BY <4>2, <4>4 DEF In
    <3> QED
      BY <3>1, <3>2
  <2> HIDE DEF more
  <2>4. CompleteBases(Able(more, day)) # {}
    BY <2>3 DEF CompleteBases
  <2>5. LoadWardrobe(more, day).blocking = {}
    <3>1. CompleteBases(Loaded(more, day)) # {}
      BY <1>3, <2>2, <2>4, NothingIsEmptied, Zenon
    <3>2. BaseNote(Loaded(more, day)) = {}
      BY <3>1, BlockingIsNoBase, Zenon
    <3> QED
      BY <3>2, LoadedIs, Zenon
  <2> QED
    BY <2>5 DEF more, pick
<1>6. (\E g \in gaps : g.severity = "blocking") <=> before.blocking # {}
  BY <1>1, <1>2
<1>7. \A slot \in slots : In(before.pool, slot) = {}
  BY <1>1, <1>2
<1>8. OffersFillTheGap(wardrobe, day, dressesAs)
  <2>1. OffersFillTheGap(wardrobe, day, dressesAs) <=>
      /\ (\E g \in gaps : g.severity = "blocking") <=> before.blocking # {}
      /\ Cardinality(slots) = Cardinality(gaps)
      /\ \A slot \in slots : In(before.pool, slot) = {}
      /\ \A slot \in slots : \A p \in welcome(slot) :
           p \in LoadWardrobe(wardrobe \cup {p}, day).pool
      /\ \A base \in BaseStructures :
           before.blocking # {} /\ (\A slot \in base \cap slots : welcome(slot) # {}) =>
             LET bought == {CHOOSE p \in welcome(slot) : TRUE : slot \in base \cap slots}
             IN  LoadWardrobe(wardrobe \cup bought, day).blocking = {}
    BY DEF OffersFillTheGap, before, gaps, slots, welcome
  <2> QED
    BY <2>1, <1>2, <1>4, <1>5, <1>6, <1>7
<1> QED
  BY <1>8

\* A running total.
Runs(upto, value, n) ==
  upto = [k \in 0..n |-> IF k = 0 THEN 0 ELSE upto[k - 1] + value[k]]

LEMMA SomethingRuns ==
  ASSUME NEW n \in Nat, NEW value \in [1..n -> Int]
  PROVE  \E upto \in [0..n -> Int] : Runs(upto, value, n)
<1> DEFINE Fails == {m \in 0..n : ~ \E f \in [0..m -> Int] :
                       f[0] = 0 /\ \A k \in 1..m : f[k] = f[k - 1] + value[k]}
<1>1. Fails = {}
  <2> SUFFICES ASSUME Fails # {} PROVE FALSE
    OBVIOUS
  <2>1. Fails \in SUBSET Nat
    OBVIOUS
  <2>2. PICK m \in Fails : \A k \in Fails : m <= k
    <3> HIDE DEF Fails
    <3> QED
      BY <2>1, LeastNat
  <2>3. m \in 0..n /\ m # 0
    <3>1. ASSUME m = 0 PROVE FALSE
      <4> DEFINE f == [k \in 0..m |-> 0]
      <4>1. f \in [0..m -> Int] /\ f[0] = 0 /\ \A k \in 1..m : f[k] = f[k - 1] + value[k]
        BY <3>1
      <4> QED
        BY <4>1
    <3> QED
      BY <3>1
  <2>4. m - 1 \in 0..n /\ m - 1 \notin Fails
    <3>1. m - 1 \in 0..n /\ ~(m <= m - 1)
      BY <2>3
    <3> QED
      BY <2>2, <3>1
  <2>5. PICK f \in [0..(m - 1) -> Int] :
          f[0] = 0 /\ \A k \in 1..(m - 1) : f[k] = f[k - 1] + value[k]
    BY <2>4
  <2> DEFINE g == [k \in 0..m |-> IF k = m THEN f[m - 1] + value[m] ELSE f[k]]
  <2>6. \A k \in 0..m : k # m => k \in 0..(m - 1) /\ g[k] = f[k]
    BY <2>3
  <2>7. g[m] = f[m - 1] + value[m] /\ g[m] \in Int
    BY <2>3, <2>5
  <2>8. g \in [0..m -> Int]
    BY <2>3, <2>5
  <2>9. g[0] = 0
    BY <2>3, <2>5
  <2>10. \A k \in 1..m : g[k] = g[k - 1] + value[k]
    <3> TAKE k \in 1..m
    <3>1. k - 1 \in 0..m /\ k - 1 # m /\ k \in 0..m
      BY <2>3
    <3>2. g[k - 1] = f[k - 1]
      BY <2>6, <3>1
    <3>3. CASE k = m
      BY <2>7, <3>2, <3>3
    <3>4. CASE k # m
      <4>1. k \in 1..(m - 1) /\ g[k] = f[k]
        BY <2>3, <2>6, <3>1, <3>4
      <4> HIDE DEF g
      <4> QED
        BY <2>5, <3>2, <4>1
    <3> QED
      BY <3>3, <3>4
  <2> QED
    BY <2>2, <2>8, <2>9, <2>10
<1>2. PICK f \in [0..n -> Int] : f[0] = 0 /\ \A k \in 1..n : f[k] = f[k - 1] + value[k]
  <2>1. n \in 0..n
    OBVIOUS
  <2> QED
    BY <1>1, <2>1
<1>3. Runs(f, value, n)
  <2>1. f = [k \in 0..n |-> f[k]]
    OBVIOUS
  <2>2. \A k \in 0..n : f[k] = IF k = 0 THEN 0 ELSE f[k - 1] + value[k]
    BY <1>2
  <2> QED
    BY <2>1, <2>2 DEF Runs
<1> QED
  BY <1>3

LEMMA SumRuns ==
  ASSUME NEW n \in Nat, NEW value \in [1..n -> Int]
  PROVE  \E upto : /\ SumTo(value, n) = upto[n] /\ upto[0] = 0
                   /\ \A k \in 1..n : upto[k] = upto[k - 1] + value[k]
<1> DEFINE run == CHOOSE upto : upto = [k \in 0..n |-> IF k = 0 THEN 0 ELSE upto[k - 1] + value[k]]
<1>1. SumTo(value, n) = run[n]
  BY DEF SumTo
<1>2. run = [k \in 0..n |-> IF k = 0 THEN 0 ELSE run[k - 1] + value[k]]
  <2>1. \E upto : upto = [k \in 0..n |-> IF k = 0 THEN 0 ELSE upto[k - 1] + value[k]]
    BY SomethingRuns DEF Runs
  <2> QED
    BY <2>1
<1> HIDE DEF run
<1>3. run[0] = 0 /\ \A k \in 1..n : run[k] = run[k - 1] + value[k]
  BY <1>2
<1> QED
  BY <1>1, <1>3

\* Sums of numbers that lie between bounds.
LEMMA SumIsBetween ==
  ASSUME NEW n \in Nat, NEW value \in [1..n -> Int]
  PROVE  /\ SumTo(value, n) \in Int
         /\ (\A k \in 1..n : value[k] >= 0) => SumTo(value, n) >= 0
         /\ (\A k \in 1..n : value[k] <= 1000) => SumTo(value, n) <= 1000 * n
         /\ (\A k \in 1..n : value[k] >= 300) => SumTo(value, n) >= 300 * n
<1> PICK upto : /\ SumTo(value, n) = upto[n] /\ upto[0] = 0
                /\ \A k \in 1..n : upto[k] = upto[k - 1] + value[k]
  BY SumRuns
<1> DEFINE Good(m) ==
      /\ upto[m] \in Int
      /\ (\A k \in 1..n : value[k] >= 0) => upto[m] >= 0
      /\ (\A k \in 1..n : value[k] <= 1000) => upto[m] <= 1000 * m
      /\ (\A k \in 1..n : value[k] >= 300) => upto[m] >= 300 * m
    Bad == {m \in 0..n : ~Good(m)}
<1>1. Bad = {}
  <2> SUFFICES ASSUME Bad # {} PROVE FALSE
    OBVIOUS
  <2>1. Bad \in SUBSET Nat
    OBVIOUS
  <2>2. PICK m \in Bad : \A k \in Bad : m <= k
    <3> HIDE DEF Bad
    <3> QED
      BY <2>1, LeastNat
  <2>3. m \in 0..n /\ ~Good(m) /\ m # 0
    <3>1. Good(0)
      OBVIOUS
    <3> HIDE DEF Good
    <3> QED
      BY <3>1
  <2>4. Good(m - 1)
    <3>1. m - 1 \in 0..n /\ ~(m <= m - 1)
      BY <2>3
    <3> HIDE DEF Good
    <3> QED
      BY <2>2, <3>1
  <2>5. upto[m] = upto[m - 1] + value[m] /\ value[m] \in Int /\ m \in 1..n
    BY <2>3
  <2>6. Good(m)
    <3>1. upto[m - 1] \in Int /\ upto[m] \in Int /\ m \in Nat
      BY <2>3, <2>4, <2>5
    <3>2. ASSUME \A k \in 1..n : value[k] >= 0 PROVE upto[m] >= 0
      <4>1. upto[m - 1] >= 0 /\ value[m] >= 0
        BY <3>2, <2>4, <2>5
      <4> QED
        BY <4>1, <3>1, <2>5
    <3>3. ASSUME \A k \in 1..n : value[k] <= 1000 PROVE upto[m] <= 1000 * m
      <4>1. upto[m - 1] <= 1000 * (m - 1) /\ value[m] <= 1000
        BY <3>3, <2>4, <2>5
      <4> QED
        BY <4>1, <3>1, <2>5
    <3>4. ASSUME \A k \in 1..n : value[k] >= 300 PROVE upto[m] >= 300 * m
      <4>1. upto[m - 1] >= 300 * (m - 1) /\ value[m] >= 300
        BY <3>4, <2>4, <2>5
      <4> QED
        BY <4>1, <3>1, <2>5
    <3> QED
      BY <3>1, <3>2, <3>3, <3>4
  <2> QED
    BY <2>3, <2>6
<1>2. Good(n)
  <2>1. n \in 0..n
    OBVIOUS
  <2> HIDE DEF Good
  <2> QED
    BY <1>1, <2>1
<1> QED
  BY <1>2

LEMMA SumOfSix ==
  ASSUME NEW value \in [1..6 -> Int]
  PROVE  SumTo(value, 6) = value[1] + value[2] + value[3] + value[4] + value[5] + value[6]
<1>1. PICK upto : /\ SumTo(value, 6) = upto[6] /\ upto[0] = 0
                  /\ \A k \in 1..6 : upto[k] = upto[k - 1] + value[k]
  <2> DEFINE n == 6
  <2>1. n \in Nat /\ value \in [1..n -> Int]
    OBVIOUS
  <2> HIDE DEF n
  <2>2. \E upto : /\ SumTo(value, n) = upto[n] /\ upto[0] = 0
                 /\ \A k \in 1..n : upto[k] = upto[k - 1] + value[k]
    BY <2>1, SumRuns
  <2> QED
    BY <2>2 DEF n
<1>2. /\ upto[1] = upto[0] + value[1] /\ upto[2] = upto[1] + value[2] /\ upto[3] = upto[2] + value[3]
      /\ upto[4] = upto[3] + value[4] /\ upto[5] = upto[4] + value[5] /\ upto[6] = upto[5] + value[6]
  <2>1. upto[1] = upto[1 - 1] + value[1] /\ upto[2] = upto[2 - 1] + value[2]
    BY <1>1
  <2>2. upto[3] = upto[3 - 1] + value[3] /\ upto[4] = upto[4 - 1] + value[4]
    BY <1>1
  <2>3. upto[5] = upto[5 - 1] + value[5] /\ upto[6] = upto[6 - 1] + value[6]
    BY <1>1
  <2> QED
    BY <2>1, <2>2, <2>3
<1>3. \A i \in 1..6 : value[i] \in Int
  OBVIOUS
<1> QED
  BY <1>1, <1>2, <1>3

\* A mean lies between the bounds of what it is the mean of.
LEMMA Quotient ==
  ASSUME NEW a \in Int, NEW n \in Int, n > 0
  PROVE  /\ a \div n \in Int
         /\ a >= 0 => a \div n >= 0
         /\ a <= 1000 * n => a \div n <= 1000
         /\ a >= 300 * n => a \div n >= 300
  OBVIOUS

LEMMA PureInvServes == PureInv => WardrobeServes
<1> SUFFICES ASSUME PureInv, Answered("pool")
             PROVE  /\ RelaxingBeatsEmptying(ask.of[1], ask.of[2], answer.loaded, answer.tried)
                    /\ OffersFillTheGap(ask.of[1], ask.of[2], ask.of[3])
  BY DEF WardrobeServes
<1> DEFINE wardrobe == ask.of[1]
           day == ask.of[2]
           result == LoadWardrobe(wardrobe, day)
<1>1. /\ wardrobe \in SUBSET Wardrobe /\ day \in Days
      /\ answer = [loaded |-> result, tried |-> GenerateCandidates(result.pool, day)]
  BY DEF PureInv, Answered, AskedOfPool
<1>2. wardrobe \in SUBSET Pieces /\ IsFiniteSet(wardrobe)
  BY <1>1, AskedAssumption, FS_Subset
<1>3. IsDay(day) /\ day.out \cap Catalogue = {}
  BY <1>1, AskedAssumption DEF IsDay
<1> HIDE DEF wardrobe, day
<1>4. RelaxingBeatsEmptying(wardrobe, day, result, GenerateCandidates(result.pool, day))
  BY <1>2, <1>3, RelaxingAlwaysBeatsEmptying
<1>5. OffersFillTheGap(wardrobe, day, ask.of[3])
  BY <1>2, <1>3, OffersAlwaysFillTheGap
<1>6. answer.loaded = result /\ answer.tried = GenerateCandidates(result.pool, day)
  BY <1>1
<1> QED
  BY <1>4, <1>5, <1>6 DEF wardrobe, day

(* Of every wardrobe and day, whatever the pieces and the catalogue: relaxing     *)
(* beats emptying, what was set aside is told, an outfit is found where one can   *)
(* be (pipeline.py), and the shop offers what mends the gap it names (gaps.py,    *)
(* shop.py).                                                                      *)
THEOREM WhatTheWardrobeServes == Spec => []WardrobeServes
<1>1. Spec => []PureInv
  BY PureInitInv, PureStep, PTL DEF Spec
<1> QED
  BY <1>1, PureInvServes, PTL

--------------------------------------------------------------------------------
(* Ranking: the order, the callers, the captions. *)
Distinct(s) == \A i, j \in DOMAIN s : s[i] = s[j] => i = j

\* Of a filter: which places stay, and in which order.
LEMMA WhereIs ==
  ASSUME NEW S, NEW s \in Seq(S), NEW I \in SUBSET DOMAIN s
  PROVE  /\ Where(s, I) \in Seq(S) /\ DOMAIN Where(s, I) = 1..Cardinality(I)
         /\ \A k \in DOMAIN Where(s, I) : Increasing(I)[k] \in I /\ Where(s, I)[k] = s[Increasing(I)[k]]
         /\ \A i \in I : \E k \in DOMAIN Where(s, I) : Increasing(I)[k] = i
         /\ \A k, l \in DOMAIN Where(s, I) :
              /\ k < l <=> Increasing(I)[k] < Increasing(I)[l]
              /\ Increasing(I)[k] = Increasing(I)[l] => k = l
<1> DEFINE N == 1..Len(s)
           n == Cardinality(I)
           at == Increasing(I)
<1>1. DOMAIN s = N /\ Len(s) \in Nat /\ \A i \in N : s[i] \in S
  OBVIOUS
<1>2. IsFiniteSet(N)
  BY <1>1, FS_Interval
<1>3. \A i \in N : i \in Nat
  OBVIOUS
<1> HIDE DEF N
<1>4. I \in SUBSET N /\ IsFiniteSet(I) /\ I \in SUBSET Nat
  BY <1>1, <1>2, <1>3, FS_Subset
<1>5. /\ n \in Nat /\ at \in Bijection(1..n, I)
      /\ \A k, l \in 1..n : k < l <=> at[k] < at[l]
  BY <1>4, IncreasingPlaces
<1>6. Where(s, I) = [k \in 1..n |-> s[at[k]]]
  BY DEF Where
<1> HIDE DEF n, at
<1>7. /\ \A k \in 1..n : at[k] \in I
      /\ \A k, l \in 1..n : at[k] = at[l] => k = l
      /\ \A i \in I : \E k \in 1..n : at[k] = i
  BY <1>5 DEF Bijection, Injection, Surjection, IsInjective
<1>8. Where(s, I) \in Seq(S)
  <2>1. \A k \in 1..n : s[at[k]] \in S
    BY <1>1, <1>4, <1>7
  <2>2. Where(s, I) \in [1..n -> S]
    BY <1>6, <2>1
  <2> QED
    BY <1>5, <2>2
<1>9. DOMAIN Where(s, I) = 1..n
  BY <1>6
<1> QED
  BY <1>5, <1>6, <1>7, <1>8, <1>9 DEF n, at

LEMMA WhereContains ==
  ASSUME NEW S, NEW s \in Seq(S), NEW I \in SUBSET DOMAIN s
  PROVE  /\ ToSet(Where(s, I)) = {s[i] : i \in I}
         /\ Distinct(s) => Distinct(Where(s, I))
<1>1. /\ \A k \in DOMAIN Where(s, I) : Increasing(I)[k] \in I /\ Where(s, I)[k] = s[Increasing(I)[k]]
      /\ \A i \in I : \E k \in DOMAIN Where(s, I) : Increasing(I)[k] = i
      /\ \A k, l \in DOMAIN Where(s, I) : Increasing(I)[k] = Increasing(I)[l] => k = l
  BY WhereIs
<1>2. ToSet(Where(s, I)) = {s[i] : i \in I}
  BY <1>1 DEF ToSet
<1>3. ASSUME Distinct(s) PROVE Distinct(Where(s, I))
  <2> SUFFICES ASSUME NEW k \in DOMAIN Where(s, I), NEW l \in DOMAIN Where(s, I),
                      Where(s, I)[k] = Where(s, I)[l]
               PROVE  k = l
    BY DEF Distinct
  <2>1. Increasing(I)[k] \in DOMAIN s /\ Increasing(I)[l] \in DOMAIN s
    BY <1>1
  <2>2. s[Increasing(I)[k]] = s[Increasing(I)[l]]
    BY <1>1
  <2>3. Increasing(I)[k] = Increasing(I)[l]
    BY <1>3, <2>1, <2>2 DEF Distinct
  <2> QED
    BY <1>1, <2>3
<1> QED
  BY <1>2, <1>3

\* The rows that are sent to the model, and the rest.
LEMMA TopAndRest ==
  ASSUME NEW S, NEW rows \in Seq(S)
  PROVE  LET m == Len(TopOf(rows))
         IN  /\ TopOf(rows) \in Seq(S) /\ RestOf(rows) \in Seq(S)
             /\ m \in 0..Len(rows) /\ Len(RestOf(rows)) = Len(rows) - m
             /\ \A k \in 1..m : TopOf(rows)[k] = rows[k]
             /\ \A k \in 1..Len(rows) - m : RestOf(rows)[k] = rows[m + k]
<1> DEFINE n == Len(rows)
           cut == Shortest(TopN, n)
<1>1. n \in Nat /\ cut \in 0..n /\ \A i \in 1..n : rows[i] \in S
  BY RankingAssumption DEF Shortest
<1> HIDE DEF n, cut
<1>2. \A i \in 1..cut : rows[i] \in S
  BY <1>1
<1>3. TopOf(rows) = SubSeq(rows, 1, cut)
  BY DEF TopOf, cut, n
<1> DEFINE one == 1
<1>4. one \in Int /\ cut \in Int /\ \A i \in one..cut : rows[i] \in S
  BY <1>1, <1>2
<1>5. /\ SubSeq(rows, one, cut) \in Seq(S)
      /\ Len(SubSeq(rows, one, cut)) = IF one <= cut THEN cut - one + 1 ELSE 0
      /\ \A i \in 1..cut - one + 1 : SubSeq(rows, one, cut)[i] = rows[one + i - 1]
  <2> HIDE DEF one
  <2> QED
    BY <1>4, SubSeqProperties
<1>6. /\ TopOf(rows) \in Seq(S) /\ Len(TopOf(rows)) = cut
      /\ \A k \in 1..cut : TopOf(rows)[k] = rows[k]
  <2>1. cut - one + 1 = cut /\ \A i \in 1..cut : one + i - 1 = i
    BY <1>1
  <2> QED
    BY <1>1, <1>3, <1>5, <2>1
<1> DEFINE next == cut + 1
<1>7. next \in Int /\ n \in Int /\ \A i \in next..n : rows[i] \in S
  BY <1>1
<1>8. RestOf(rows) = SubSeq(rows, next, n)
  BY <1>6 DEF RestOf, n
<1>9. /\ SubSeq(rows, next, n) \in Seq(S)
      /\ Len(SubSeq(rows, next, n)) = IF next <= n THEN n - next + 1 ELSE 0
      /\ \A i \in 1..n - next + 1 : SubSeq(rows, next, n)[i] = rows[next + i - 1]
  <2> HIDE DEF next
  <2> QED
    BY <1>7, SubSeqProperties
<1>10. /\ RestOf(rows) \in Seq(S) /\ Len(RestOf(rows)) = n - cut
       /\ \A k \in 1..n - cut : RestOf(rows)[k] = rows[cut + k]
  <2>1. n - next + 1 = n - cut /\ \A i \in 1..n - cut : next + i - 1 = cut + i
    BY <1>1
  <2> QED
    BY <1>1, <1>8, <1>9, <2>1
<1> QED
  BY <1>1, <1>6, <1>10 DEF n

LEMMA TopApartFromRest ==
  ASSUME NEW S, NEW rows \in Seq(S), Distinct(rows)
  PROVE  /\ ToSet(rows) = ToSet(TopOf(rows)) \cup ToSet(RestOf(rows))
         /\ ToSet(TopOf(rows)) \cap ToSet(RestOf(rows)) = {}
         /\ \A i, j \in DOMAIN rows :
              rows[i] \in ToSet(RestOf(rows)) /\ rows[j] \in ToSet(TopOf(rows)) => j < i
<1> DEFINE m == Len(TopOf(rows))
           n == Len(rows)
<1>1. /\ TopOf(rows) \in Seq(S) /\ RestOf(rows) \in Seq(S)
      /\ m \in 0..n /\ Len(RestOf(rows)) = n - m /\ n \in Nat /\ DOMAIN rows = 1..n
      /\ \A k \in 1..m : TopOf(rows)[k] = rows[k]
      /\ \A k \in 1..n - m : RestOf(rows)[k] = rows[m + k]
  BY TopAndRest
<1>2. DOMAIN TopOf(rows) = 1..m /\ DOMAIN RestOf(rows) = 1..n - m
  BY <1>1
<1> HIDE DEF m, n
<1>3. ToSet(TopOf(rows)) = {rows[k] : k \in 1..m}
  BY <1>1, <1>2 DEF ToSet
<1>4. ToSet(RestOf(rows)) = {rows[k] : k \in m + 1..n}
  <2>1. ToSet(RestOf(rows)) = {rows[m + k] : k \in 1..n - m}
    BY <1>1, <1>2 DEF ToSet
  <2>2. \A k \in m + 1..n : k - m \in 1..n - m /\ m + (k - m) = k
    BY <1>1
  <2>3. \A k \in 1..n - m : m + k \in m + 1..n
    BY <1>1
  <2> QED
    BY <2>1, <2>2, <2>3
<1>5. \A i \in 1..n : rows[i] \in ToSet(TopOf(rows)) => i \in 1..m
  <2> TAKE i \in 1..n
  <2> SUFFICES ASSUME rows[i] \in ToSet(TopOf(rows)) PROVE i \in 1..m
    OBVIOUS
  <2>1. PICK k \in 1..m : rows[k] = rows[i]
    BY <1>3
  <2>2. k \in 1..n
    BY <1>1
  <2> QED
    BY <1>1, <2>1, <2>2 DEF Distinct
<1>6. \A i \in 1..n : rows[i] \in ToSet(RestOf(rows)) => i \in m + 1..n
  <2> TAKE i \in 1..n
  <2> SUFFICES ASSUME rows[i] \in ToSet(RestOf(rows)) PROVE i \in m + 1..n
    OBVIOUS
  <2>1. PICK k \in m + 1..n : rows[k] = rows[i]
    BY <1>4
  <2>2. k \in 1..n
    BY <1>1
  <2> QED
    BY <1>1, <2>1, <2>2 DEF Distinct
<1>7. ToSet(rows) = ToSet(TopOf(rows)) \cup ToSet(RestOf(rows))
  <2>1. ToSet(rows) = {rows[k] : k \in 1..n}
    BY <1>1 DEF ToSet
  <2>2. \A k \in 1..n : k \in 1..m \/ k \in m + 1..n
    BY <1>1
  <2>3. \A k \in (1..m) \cup (m + 1..n) : k \in 1..n
    BY <1>1
  <2> QED
    BY <1>3, <1>4, <2>1, <2>2, <2>3
<1>8. \A i, j \in 1..n :
        rows[i] \in ToSet(RestOf(rows)) /\ rows[j] \in ToSet(TopOf(rows)) => j < i
  <2> TAKE i, j \in 1..n
  <2> SUFFICES ASSUME rows[i] \in ToSet(RestOf(rows)), rows[j] \in ToSet(TopOf(rows)) PROVE j < i
    OBVIOUS
  <2>1. i \in m + 1..n /\ j \in 1..m
    BY <1>5, <1>6
  <2> QED
    BY <1>1, <2>1
<1>9. ToSet(TopOf(rows)) \cap ToSet(RestOf(rows)) = {}
  <2> SUFFICES ASSUME NEW x \in ToSet(TopOf(rows)), x \in ToSet(RestOf(rows)) PROVE FALSE
    OBVIOUS
  <2>1. PICK k \in 1..m : x = rows[k]
    BY <1>3
  <2>2. k \in 1..n
    BY <1>1
  <2>3. k \in m + 1..n
    BY <1>6, <2>1, <2>2
  <2> QED
    BY <1>1, <2>1, <2>3
<1> QED
  BY <1>1, <1>7, <1>8, <1>9

Stored == ToSet(Scored)
Listing == [ids : Seq(Pieces), text : STRING, sure : Int]

\* What is accepted: words about outfits that were sent, all of them checked.
LEMMA AcceptedIs ==
  ASSUME NEW sheet \in Answers, NEW sent, NEW there,
         Validate(sheet, sent, there, there, 50).rule = "accepted"
  PROVE  LET verdict == Validate(sheet, sent, there, there, 50)
         IN  /\ verdict.order \in Seq(Listing) /\ verdict.demoted \in Seq(Listing)
             /\ \A e \in ToSet(verdict.order) \cup ToSet(verdict.demoted) :
                  Ids(e) \in sent /\ e.text = "plain"
<1> DEFINE verdict == Validate(sheet, sent, there, there, 50)
           high == {k \in DOMAIN sheet : sheet[k].sure >= 50}
           low == {k \in DOMAIN sheet : sheet[k].sure < 50}
<1>1. \A rule : Rejected(rule).rule = rule
  BY DEF Rejected
<1>2. verdict = [rule |-> "accepted", order |-> Where(sheet, high), demoted |-> Where(sheet, low)]
  BY <1>1 DEF Validate
<1>3. sheet # Malformed
  BY <1>1 DEF Validate
<1>4. sheet \in Seq(Listing)
  BY <1>3, RankingAssumption DEF Listing
<1>5. \A e \in ToSet(sheet) : Ids(e) \in sent /\ e.text = "plain"
  BY <1>1 DEF Validate, WasSent
<1>6. high \in SUBSET DOMAIN sheet /\ low \in SUBSET DOMAIN sheet
  OBVIOUS
<1> HIDE DEF high, low
<1>7. /\ Where(sheet, high) \in Seq(Listing) /\ ToSet(Where(sheet, high)) = {sheet[k] : k \in high}
      /\ Where(sheet, low) \in Seq(Listing) /\ ToSet(Where(sheet, low)) = {sheet[k] : k \in low}
  BY <1>4, <1>6, WhereIs, WhereContains
<1>8. ToSet(Where(sheet, high)) \subseteq ToSet(sheet) /\ ToSet(Where(sheet, low)) \subseteq ToSet(sheet)
  BY <1>6, <1>7 DEF ToSet
<1>9. verdict.order = Where(sheet, high) /\ verdict.demoted = Where(sheet, low)
  BY <1>2
<1> HIDE DEF verdict
<1> QED
  BY <1>5, <1>7, <1>8, <1>9 DEF verdict

LEMMA HighestThere ==
  ASSUME NEW n \in Nat, NEW T \in SUBSET (1..n), T # {}
  PROVE  T \subseteq Int /\ \E k \in T : \A l \in T : l <= k
<1> DEFINE N == 1..n
<1>1. IsFiniteSet(N) /\ \A k \in N : k \in Int
  BY FS_Interval
<1>2. T \in SUBSET N
  OBVIOUS
<1> HIDE DEF N
<1>3. IsFiniteSet(T) /\ T \subseteq Int
  BY <1>1, <1>2, FS_Subset
<1> DEFINE value == [k \in T |-> k]
<1>4. value \in [T -> Int]
  BY <1>3
<1>5. \E k \in T : \A l \in T : value[l] <= value[k]
  <2> HIDE DEF value
  <2> QED
    BY <1>3, <1>4, GreatestThere
<1> QED
  BY <1>3, <1>5

LEMMA TextIsChecked ==
  ASSUME NEW order \in Seq(Listing), \A e \in ToSet(order) : e.text = "plain", NEW ids
  PROVE  TextFor(order, ids) \in {Template, Plain(ToSet(ids))}
<1> DEFINE named == {k \in DOMAIN order : order[k].ids = ids}
           last == CHOOSE k \in named : \A l \in named : l <= k
<1>1. CASE named = {}
  BY <1>1 DEF TextFor
<1>2. CASE named # {}
  <2>1. Len(order) \in Nat /\ DOMAIN order = 1..Len(order)
    OBVIOUS
  <2>2. named \subseteq 1..Len(order)
    BY <2>1
  <2>3. \E k \in named : \A l \in named : l <= k
    <3> HIDE DEF named
    <3> QED
      BY <1>2, <2>1, <2>2, HighestThere
  <2>4. last \in named
    <3> HIDE DEF named
    <3> QED
      BY <2>3
  <2>5. order[last] \in ToSet(order)
    BY <2>4 DEF ToSet
  <2>6. TextFor(order, ids) = Text(ToSet(ids), order[last].text)
    BY <1>2 DEF TextFor
  <2> QED
    BY <2>5, <2>6 DEF Plain
<1> QED
  BY <1>1, <1>2

\* An outfit is known by its list.
LEMMA TupleIs ==
  ASSUME NEW o \in Stored
  PROVE  Tuple(o) \in Seq(Pieces) /\ ToSet(Tuple(o)) = o
<1>1. IsFiniteSet(o) /\ o \subseteq Pieces
  BY RankingAssumption DEF Stored, ToSet
<1>2. /\ SetToSeq(o) \in Bijection(1..Cardinality(o), o)
      /\ DOMAIN SetToSeq(o) = 1..Cardinality(o) /\ Cardinality(o) \in Nat
  BY <1>1, SetToSeqLists
<1>3. SetToSeq(o) \in [1..Cardinality(o) -> Pieces]
  BY <1>1, <1>2 DEF Bijection, Injection
<1>4. ToSet(SetToSeq(o)) = o
  BY <1>2 DEF ToSet, Bijection, Injection, Surjection
<1> QED
  BY <1>2, <1>3, <1>4 DEF Tuple

LEMMA TuplesAre ==
  ASSUME NEW s \in Seq(Stored)
  PROVE  LET t == [k \in DOMAIN s |-> Tuple(s[k])]
         IN  /\ t \in Seq(Seq(Pieces)) /\ Len(t) = Len(s)
             /\ \A k \in 1..Len(s) : t[k] = Tuple(s[k]) /\ ToSet(t[k]) = s[k]
             /\ Distinct(s) => Distinct(t)
<1> DEFINE t == [k \in DOMAIN s |-> Tuple(s[k])]
           n == Len(s)
<1>1. n \in Nat /\ DOMAIN s = 1..n /\ \A k \in 1..n : s[k] \in Stored
  OBVIOUS
<1>2. DOMAIN t = 1..n /\ \A k \in 1..n : t[k] = Tuple(s[k])
  BY <1>1
<1> HIDE DEF n
<1>3. \A k \in 1..n : t[k] \in Seq(Pieces) /\ ToSet(t[k]) = s[k]
  BY <1>1, <1>2, TupleIs
<1>4. t \in [1..n -> Seq(Pieces)]
  <2> DEFINE L == Seq(Pieces)
  <2>1. \A k \in 1..n : t[k] \in L
    BY <1>3
  <2>2. t = [k \in 1..n |-> t[k]]
    BY <1>1
  <2> HIDE DEF L, t
  <2>3. t \in [1..n -> L]
    BY <2>1, <2>2
  <2> QED
    BY <2>3 DEF L
<1> HIDE DEF t
<1>5. t \in Seq(Seq(Pieces)) /\ Len(t) = n
  <2> DEFINE L == Seq(Pieces)
  <2>1. t \in [1..n -> L]
    BY <1>4
  <2> HIDE DEF L
  <2>2. t \in Seq(L) /\ Len(t) = n
    BY <1>1, <2>1
  <2> QED
    BY <2>2 DEF L
<1>6. ASSUME Distinct(s) PROVE Distinct(t)
  <2> SUFFICES ASSUME NEW k \in 1..n, NEW l \in 1..n, t[k] = t[l] PROVE k = l
    BY <1>2 DEF Distinct
  <2>1. s[k] = s[l]
    BY <1>3
  <2> QED
    BY <1>1, <1>6, <2>1 DEF Distinct
<1> QED
  BY <1>2, <1>3, <1>5, <1>6 DEF t, n

\* Nothing is listed twice but members of T.
DistinctBut(s, T) == \A i, j \in DOMAIN s : s[i] = s[j] => i = j \/ s[i] \in T

SoundOrder(rows, ranked, twice) ==
  /\ ranked \in Seq(Stored) /\ rows # <<>> /\ ToSet(ranked) = ToSet(rows)
  /\ DistinctBut(ranked, twice)
  /\ \A i, j \in DOMAIN ranked :
       ranked[i] \in ToSet(RestOf(rows)) /\ ranked[j] \in ToSet(TopOf(rows)) => j < i

LEMMA RowsAreSound ==
  ASSUME NEW rows \in Seq(Stored), Distinct(rows), rows # <<>>, NEW twice
  PROVE  SoundOrder(rows, rows, twice)
BY TopApartFromRest DEF SoundOrder, Distinct, DistinctBut

LEMMA JoinedAre ==
  ASSUME NEW S, NEW s \in Seq(S), NEW t \in Seq(S), NEW T
  PROVE  /\ s \o t \in Seq(S) /\ Len(s \o t) = Len(s) + Len(t)
         /\ \A i \in 1..Len(s) : (s \o t)[i] = s[i]
         /\ \A i \in Len(s) + 1..Len(s) + Len(t) : (s \o t)[i] = t[i - Len(s)]
         /\ ToSet(s \o t) = ToSet(s) \cup ToSet(t)
         /\ DistinctBut(s, T) /\ DistinctBut(t, T) /\ ToSet(s) \cap ToSet(t) = {} =>
              DistinctBut(s \o t, T)
<1> DEFINE u == s \o t
           m == Len(s)
           n == Len(t)
<1>1. /\ u \in Seq(S) /\ Len(u) = m + n
      /\ \A i \in 1..m + n : u[i] = IF i <= m THEN s[i] ELSE t[i - m]
  BY ConcatProperties
<1>2. m \in Nat /\ n \in Nat /\ DOMAIN s = 1..m /\ DOMAIN t = 1..n
  OBVIOUS
<1>3. DOMAIN u = 1..m + n
  BY <1>1
<1> HIDE DEF u, m, n
<1>4. \A i \in 1..m : i \in 1..m + n /\ u[i] = s[i]
  BY <1>1, <1>2
<1>5. \A i \in m + 1..m + n : i \in 1..m + n /\ u[i] = t[i - m] /\ i - m \in 1..n
  BY <1>1, <1>2
<1>6. \A i \in 1..n : m + i \in m + 1..m + n /\ u[m + i] = t[i]
  BY <1>1, <1>2
<1>7. ToSet(u) = ToSet(s) \cup ToSet(t)
  <2>1. \A i \in 1..m + n : u[i] \in ToSet(s) \cup ToSet(t)
    <3> TAKE i \in 1..m + n
    <3>1. i \in 1..m \/ i \in m + 1..m + n
      BY <1>2
    <3> QED
      BY <1>2, <1>4, <1>5, <3>1 DEF ToSet
  <2>2. \A i \in 1..m : s[i] \in ToSet(u)
    BY <1>3, <1>4 DEF ToSet
  <2>3. \A i \in 1..n : t[i] \in ToSet(u)
    BY <1>3, <1>5, <1>6 DEF ToSet
  <2> QED
    BY <1>2, <1>3, <2>1, <2>2, <2>3 DEF ToSet
<1>8. ASSUME DistinctBut(s, T), DistinctBut(t, T), ToSet(s) \cap ToSet(t) = {} PROVE DistinctBut(u, T)
  <2>1. \A i \in 1..m, j \in m + 1..m + n : u[i] # u[j]
    <3> TAKE i \in 1..m, j \in m + 1..m + n
    <3>1. u[i] \in ToSet(s) /\ u[j] \in ToSet(t)
      BY <1>2, <1>4, <1>5 DEF ToSet
    <3> QED
      BY <3>1, <1>8
  <2>2. \A i, j \in 1..m : u[i] = u[j] => i = j \/ u[i] \in T
    BY <1>2, <1>4, <1>8 DEF DistinctBut
  <2>3. \A i, j \in m + 1..m + n : u[i] = u[j] => i = j \/ u[i] \in T
    <3> TAKE i, j \in m + 1..m + n
    <3> SUFFICES ASSUME u[i] = u[j], u[i] \notin T PROVE i = j
      OBVIOUS
    <3>1. i - m = j - m
      BY <1>2, <1>5, <1>8 DEF DistinctBut
    <3> QED
      BY <1>2, <3>1
  <2> SUFFICES ASSUME NEW i \in 1..m + n, NEW j \in 1..m + n, u[i] = u[j]
               PROVE  i = j \/ u[i] \in T
    BY <1>3 DEF DistinctBut
  <2>4. (i \in 1..m \/ i \in m + 1..m + n) /\ (j \in 1..m \/ j \in m + 1..m + n)
    BY <1>2
  <2> QED
    BY <2>1, <2>2, <2>3, <2>4
<1> QED
  BY <1>1, <1>4, <1>5, <1>7, <1>8 DEF u, m, n

Twice(verdict) == {ToSet(ids) : ids \in NamedTwice(verdict)}

Heeded(verdict, rows) ==
  LET all == Ordering(verdict, rows)
  IN  Where(all, {k \in DOMAIN all : \E o \in ToSet(rows) : all[k] = Tuple(o)})

LEMMA NamedAre ==
  ASSUME NEW s \in Seq(Listing)
  PROVE  /\ Entries(s) \in Seq(Seq(Pieces)) /\ Len(Entries(s)) = Len(s)
         /\ \A k \in 1..Len(s) : Entries(s)[k] = s[k].ids /\ s[k] \in ToSet(s)
         /\ ToSet(Entries(s)) = {e.ids : e \in ToSet(s)}
<1> DEFINE n == Len(s)
           L == Seq(Pieces)
<1>1. n \in Nat /\ DOMAIN s = 1..n /\ \A k \in 1..n : s[k].ids \in L
  <2>1. \A k \in 1..n : s[k] \in Listing
    OBVIOUS
  <2>2. \A e \in Listing : e.ids \in L
    BY DEF Listing
  <2>3. n \in Nat /\ DOMAIN s = 1..n
    OBVIOUS
  <2> HIDE DEF L, n
  <2> QED
    BY <2>1, <2>2, <2>3
<1>2. Entries(s) = [k \in 1..n |-> s[k].ids]
  BY <1>1 DEF Entries
<1> HIDE DEF n, L
<1>3. Entries(s) \in [1..n -> L] /\ DOMAIN Entries(s) = 1..n
  BY <1>1, <1>2
<1>4. Entries(s) \in Seq(L) /\ Len(Entries(s)) = n
  BY <1>1, <1>3
<1>5. \A k \in 1..n : Entries(s)[k] = s[k].ids /\ s[k] \in ToSet(s)
  BY <1>1, <1>2 DEF ToSet
<1>6. ToSet(Entries(s)) = {s[k].ids : k \in 1..n}
  BY <1>2, <1>3 DEF ToSet
<1>7. ToSet(s) = {s[k] : k \in 1..n}
  BY <1>1 DEF ToSet
<1> QED
  <2>1. {e.ids : e \in ToSet(s)} = {s[k].ids : k \in 1..n}
    BY <1>7
  <2>2. ToSet(Entries(s)) = {e.ids : e \in ToSet(s)}
    BY <1>6, <2>1, Zenon
  <2> QED
    BY <1>4, <1>5, <2>2, Zenon DEF n, L

\* The accepted order: of lists, none lost.
LEMMA OrderingIs ==
  ASSUME NEW rows \in Seq(Stored), Distinct(rows),
         NEW verdict, verdict.order \in Seq(Listing), verdict.demoted \in Seq(Listing),
         \A e \in ToSet(verdict.order) \cup ToSet(verdict.demoted) : Ids(e) \in ToSet(TopOf(rows))
  PROVE  LET all == Ordering(verdict, rows)
         IN  /\ all \in Seq(Seq(Pieces))
             /\ \A o \in ToSet(rows) : Tuple(o) \in ToSet(all)
             /\ \E m \in Nat : \A k \in DOMAIN all :
                  IF k <= m THEN ToSet(all[k]) \in ToSet(TopOf(rows))
                  ELSE ToSet(all[k]) \in ToSet(RestOf(rows))
             /\ DistinctBut(all, NamedTwice(verdict))
<1> DEFINE L == Seq(Pieces)
           top == TopOf(rows)
           rest == RestOf(rows)
           first == Entries(verdict.order)
           second == Entries(verdict.demoted)
           returned == first \o second
           out == {i \in DOMAIN top : Tuple(top[i]) \notin ToSet(returned)}
           omitted == Where(top, out)
           left == [k \in DOMAIN omitted |-> Tuple(omitted[k])]
           doubles == NamedTwice(verdict)
           unsent == [k \in DOMAIN rest |-> Tuple(rest[k])]
           head == returned \o left
           all == head \o unsent
<1>1. Ordering(verdict, rows) = all
  BY DEF Ordering, Returned
<1>2. top \in Seq(Stored) /\ rest \in Seq(Stored)
  BY TopAndRest
<1>3. /\ ToSet(rows) = ToSet(top) \cup ToSet(rest) /\ ToSet(top) \cap ToSet(rest) = {}
  BY TopApartFromRest
<1>4. Distinct(top) /\ Distinct(rest)
  <2> DEFINE m == Len(top) n == Len(rows)
  <2>1. /\ m \in 0..n /\ n \in Nat /\ DOMAIN rows = 1..n
        /\ DOMAIN top = 1..m /\ DOMAIN rest = 1..n - m
        /\ \A k \in 1..m : top[k] = rows[k]
        /\ \A k \in 1..n - m : rest[k] = rows[m + k]
    <3>1. /\ m \in 0..n /\ Len(rest) = n - m
          /\ \A k \in 1..m : top[k] = rows[k]
          /\ \A k \in 1..n - m : rest[k] = rows[m + k]
      BY TopAndRest
    <3>2. n \in Nat /\ DOMAIN rows = 1..n /\ DOMAIN top = 1..m /\ DOMAIN rest = 1..Len(rest)
      BY <1>2
    <3> QED
      BY <3>1, <3>2
  <2> HIDE DEF m, n, top, rest
  <2>2. \A k \in 1..m : k \in 1..n
    BY <2>1
  <2>3. \A k \in 1..n - m : m + k \in 1..n
    BY <2>1
  <2>4. Distinct(top)
    BY <2>1, <2>2 DEF Distinct
  <2>5. Distinct(rest)
    <3> SUFFICES ASSUME NEW i \in 1..n - m, NEW j \in 1..n - m, rest[i] = rest[j] PROVE i = j
      BY <2>1 DEF Distinct
    <3>1. m + i = m + j
      <4>1. m + i \in DOMAIN rows /\ m + j \in DOMAIN rows
        BY <2>1, <2>3, Zenon
      <4>2. rows[m + i] = rows[m + j]
        BY <2>1, Zenon
      <4> QED
        BY <4>1, <4>2, Zenon DEF Distinct
    <3> QED
      BY <2>1, <3>1
  <2> QED
    BY <2>4, <2>5
<1>5. /\ first \in Seq(L) /\ ToSet(first) = {e.ids : e \in ToSet(verdict.order)}
      /\ second \in Seq(L) /\ ToSet(second) = {e.ids : e \in ToSet(verdict.demoted)}
      /\ Len(first) = Len(verdict.order) /\ Len(second) = Len(verdict.demoted)
  BY NamedAre
<1> HIDE DEF top, rest, first, second
<1>6. /\ returned \in Seq(L) /\ ToSet(returned) = ToSet(first) \cup ToSet(second)
      /\ Len(returned) = Len(first) + Len(second)
  <2>1. first \in Seq(L) /\ second \in Seq(L)
    BY <1>5
  <2> HIDE DEF L
  <2>2. /\ first \o second \in Seq(L) /\ Len(first \o second) = Len(first) + Len(second)
        /\ ToSet(first \o second) = ToSet(first) \cup ToSet(second)
    BY <2>1, JoinedAre, SMTT(40)
  <2> QED
    BY <2>2
<1>7. /\ omitted \in Seq(Stored) /\ ToSet(omitted) = {top[i] : i \in out} /\ Distinct(omitted)
  <2>1. out \in SUBSET DOMAIN top
    OBVIOUS
  <2> HIDE DEF out
  <2> QED
    BY <2>1, <1>2, <1>4, WhereIs, WhereContains
<1>8. /\ left \in Seq(L) /\ Len(left) = Len(omitted) /\ Distinct(left)
      /\ \A k \in 1..Len(omitted) : left[k] = Tuple(omitted[k]) /\ ToSet(left[k]) = omitted[k]
  <2> HIDE DEF omitted, out, returned
  <2> QED
    BY <1>7, TuplesAre
<1>9. /\ unsent \in Seq(L) /\ Len(unsent) = Len(rest) /\ Distinct(unsent)
      /\ \A k \in 1..Len(rest) : unsent[k] = Tuple(rest[k]) /\ ToSet(unsent[k]) = rest[k]
  BY <1>2, <1>4, TuplesAre
<1>10. \A ids \in ToSet(returned) : ToSet(ids) \in ToSet(top)
  <2> SUFFICES ASSUME NEW ids \in ToSet(returned) PROVE ToSet(ids) \in ToSet(top)
    OBVIOUS
  <2>1. PICK e \in ToSet(verdict.order) \cup ToSet(verdict.demoted) : ids = e.ids
    BY <1>5, <1>6
  <2> QED
    BY <2>1 DEF Ids, top
<1>11. \A ids \in ToSet(left) : /\ ToSet(ids) \in ToSet(top) /\ ids \notin ToSet(returned)
  <2> SUFFICES ASSUME NEW ids \in ToSet(left)
               PROVE  ToSet(ids) \in ToSet(top) /\ ids \notin ToSet(returned)
    OBVIOUS
  <2>1. PICK k \in 1..Len(omitted) : ids = left[k]
    <3>1. DOMAIN left = 1..Len(left)
      BY <1>8
    <3> HIDE DEF left, omitted, returned
    <3> QED
      BY <1>8, <3>1 DEF ToSet
  <2>2. omitted[k] \in ToSet(omitted)
    <3>1. DOMAIN omitted = 1..Len(omitted)
      BY <1>7
    <3> HIDE DEF omitted, returned
    <3> QED
      BY <3>1 DEF ToSet
  <2>3. PICK i \in out : omitted[k] = top[i]
    <3> HIDE DEF omitted, out, returned
    <3> QED
      BY <1>7, <2>2
  <2>4. ids = Tuple(top[i]) /\ ToSet(ids) = top[i]
    <3> HIDE DEF left, omitted, out, returned
    <3> QED
      BY <1>8, <2>1, <2>3
  <2>5. i \in DOMAIN top /\ Tuple(top[i]) \notin ToSet(returned)
    BY <2>3
  <2> QED
    <3> HIDE DEF left, omitted, out, returned
    <3> QED
      BY <2>4, <2>5 DEF ToSet
<1>12. \A ids \in ToSet(unsent) : ToSet(ids) \in ToSet(rest)
  <2> SUFFICES ASSUME NEW ids \in ToSet(unsent) PROVE ToSet(ids) \in ToSet(rest)
    OBVIOUS
  <2>1. DOMAIN unsent = 1..Len(unsent) /\ DOMAIN rest = 1..Len(rest)
    BY <1>2, <1>9
  <2> HIDE DEF unsent
  <2>2. PICK k \in 1..Len(rest) : ids = unsent[k]
    BY <1>9, <2>1 DEF ToSet
  <2>3. ToSet(ids) = rest[k]
    BY <1>9, <2>2
  <2> QED
    BY <2>1, <2>3 DEF ToSet
<1>13. /\ head \in Seq(L) /\ ToSet(head) = ToSet(returned) \cup ToSet(left)
       /\ DistinctBut(returned, doubles) => DistinctBut(head, doubles)
  <2>1. ToSet(returned) \cap ToSet(left) = {}
    BY <1>11
  <2> HIDE DEF L, returned, left, doubles
  <2>2. DistinctBut(left, doubles)
    BY <1>8 DEF Distinct, DistinctBut
  <2> QED
    BY <1>6, <1>8, <2>1, <2>2, JoinedAre
<1>14. \A ids \in ToSet(head) : ToSet(ids) \in ToSet(top)
  BY <1>10, <1>11, <1>13
<1> HIDE DEF head, unsent, L
<1>15. /\ all \in Seq(L) /\ Len(all) = Len(head) + Len(unsent)
       /\ \A i \in 1..Len(head) : all[i] = head[i]
       /\ \A i \in Len(head) + 1..Len(head) + Len(unsent) : all[i] = unsent[i - Len(head)]
       /\ ToSet(all) = ToSet(head) \cup ToSet(unsent)
       /\ DistinctBut(returned, doubles) => DistinctBut(all, doubles)
  <2>1. ToSet(head) \cap ToSet(unsent) = {}
    BY <1>3, <1>12, <1>14
  <2>2. head \in Seq(L) /\ unsent \in Seq(L)
    BY <1>9, <1>13
  <2>3. /\ all \in Seq(L) /\ Len(all) = Len(head) + Len(unsent)
        /\ \A i \in 1..Len(head) : all[i] = head[i]
        /\ \A i \in Len(head) + 1..Len(head) + Len(unsent) : all[i] = unsent[i - Len(head)]
        /\ ToSet(all) = ToSet(head) \cup ToSet(unsent)
        /\ DistinctBut(head, doubles) /\ DistinctBut(unsent, doubles)
           /\ ToSet(head) \cap ToSet(unsent) = {} => DistinctBut(all, doubles)
    BY <2>2, JoinedAre
  <2> HIDE DEF all, doubles
  <2>4. DistinctBut(unsent, doubles)
    BY <1>9 DEF Distinct, DistinctBut
  <2> QED
    BY <1>13, <2>1, <2>3, <2>4
<1>16. \A o \in ToSet(rows) : Tuple(o) \in ToSet(all)
  <2> SUFFICES ASSUME NEW o \in ToSet(rows) PROVE Tuple(o) \in ToSet(head) \cup ToSet(unsent)
    BY <1>15
  <2>1. CASE o \in ToSet(rest)
    <3>1. DOMAIN unsent = 1..Len(unsent) /\ DOMAIN rest = 1..Len(rest)
      BY <1>2, <1>9
    <3>2. PICK k \in 1..Len(rest) : rest[k] = o
      BY <2>1, <3>1 DEF ToSet
    <3>3. unsent[k] = Tuple(o) /\ k \in DOMAIN unsent
      BY <1>9, <3>1, <3>2
    <3> QED
      BY <3>3 DEF ToSet
  <2>2. CASE o \in ToSet(top)
    <3>1. PICK i \in DOMAIN top : top[i] = o
      BY <2>2 DEF ToSet
    <3>2. CASE Tuple(o) \in ToSet(returned)
      BY <1>13, <3>2
    <3>3. CASE Tuple(o) \notin ToSet(returned)
      <4>1. o \in ToSet(omitted)
        <5>1. i \in out
          BY <3>1, <3>3
        <5> HIDE DEF omitted, out, returned
        <5> QED
          BY <1>7, <3>1, <5>1
      <4>2. DOMAIN omitted = 1..Len(omitted) /\ DOMAIN left = 1..Len(left)
        BY <1>7, <1>8
      <4> HIDE DEF omitted, left, returned
      <4>3. PICK k \in 1..Len(omitted) : omitted[k] = o
        BY <4>1, <4>2 DEF ToSet
      <4>4. left[k] = Tuple(o) /\ k \in DOMAIN left
        BY <1>8, <4>2, <4>3
      <4> QED
        BY <1>13, <4>4 DEF ToSet
    <3> QED
      BY <3>2, <3>3
  <2> QED
    BY <1>3, <2>1, <2>2
<1>17. \A k \in DOMAIN all : IF k <= Len(head) THEN ToSet(all[k]) \in ToSet(top)
                             ELSE ToSet(all[k]) \in ToSet(rest)
  <2>1. /\ Len(head) \in Nat /\ DOMAIN head = 1..Len(head)
        /\ Len(unsent) \in Nat /\ DOMAIN unsent = 1..Len(unsent)
        /\ DOMAIN all = 1..Len(head) + Len(unsent)
    BY <1>9, <1>13, <1>15
  <2> HIDE DEF all
  <2> TAKE k \in DOMAIN all
  <2>2. CASE k <= Len(head)
    <3>1. k \in 1..Len(head)
      BY <2>1, <2>2
    <3>2. all[k] \in ToSet(head)
      BY <1>15, <2>1, <3>1 DEF ToSet
    <3> QED
      BY <1>14, <2>2, <3>2
  <2>3. CASE ~(k <= Len(head))
    <3>1. k \in Len(head) + 1..Len(head) + Len(unsent) /\ k - Len(head) \in 1..Len(unsent)
      BY <2>1, <2>3
    <3>2. all[k] \in ToSet(unsent)
      BY <1>15, <2>1, <3>1 DEF ToSet
    <3> QED
      BY <1>12, <2>3, <3>2
  <2> QED
    BY <2>2, <2>3
<1>18. DistinctBut(returned, doubles)
  <2>1. doubles = {returned[i] : i \in {k \in DOMAIN returned :
                                  \E l \in DOMAIN returned : l # k /\ returned[l] = returned[k]}}
    BY DEF NamedTwice, Returned, first, second
  <2> HIDE DEF doubles, returned
  <2> QED
    BY <2>1 DEF DistinctBut
<1>19. Len(head) \in Nat
  BY <1>13
<1> QED
  BY <1>1, <1>15, <1>16, <1>17, <1>18, <1>19 DEF L, top, rest

LEMMA KeptIsSound ==
  ASSUME NEW rows \in Seq(Stored), Distinct(rows), rows # <<>>,
         NEW verdict, verdict.order \in Seq(Listing), verdict.demoted \in Seq(Listing),
         \A e \in ToSet(verdict.order) \cup ToSet(verdict.demoted) : Ids(e) \in ToSet(TopOf(rows))
  PROVE  LET kept == Heeded(verdict, rows)
         IN  SoundOrder(rows, [k \in DOMAIN kept |-> ToSet(kept[k])], Twice(verdict))
<1> DEFINE L == Seq(Pieces)
           all == Ordering(verdict, rows)
           I == {k \in DOMAIN all : \E o \in ToSet(rows) : all[k] = Tuple(o)}
           at == Increasing(I)
           kept == Where(all, I)
           ranked == [k \in DOMAIN kept |-> ToSet(kept[k])]
<1>0. Heeded(verdict, rows) = kept
  BY DEF Heeded
<1>1. /\ all \in Seq(L)
      /\ \A o \in ToSet(rows) : Tuple(o) \in ToSet(all)
      /\ \E m \in Nat : \A k \in DOMAIN all :
           IF k <= m THEN ToSet(all[k]) \in ToSet(TopOf(rows))
           ELSE ToSet(all[k]) \in ToSet(RestOf(rows))
      /\ DistinctBut(all, NamedTwice(verdict))
  BY OrderingIs
<1>2. I \in SUBSET DOMAIN all
  OBVIOUS
<1>3. /\ kept \in Seq(L) /\ DOMAIN kept = 1..Cardinality(I)
      /\ \A k \in DOMAIN kept : at[k] \in I /\ kept[k] = all[at[k]]
      /\ \A i \in I : \E k \in DOMAIN kept : at[k] = i
      /\ \A k, l \in DOMAIN kept : k < l <=> at[k] < at[l]
      /\ \A k, l \in DOMAIN kept : at[k] = at[l] => k = l
  <2> HIDE DEF I, all, L
  <2> QED
    BY <1>1, <1>2, WhereIs, SMTT(60)
<1>4. \A o \in ToSet(rows) : o \in Stored
  BY DEF ToSet
<1>5. \A k \in DOMAIN kept : \E o \in ToSet(rows) : kept[k] = Tuple(o) /\ ToSet(kept[k]) = o
  <2> SUFFICES ASSUME NEW k \in DOMAIN kept
               PROVE  \E o \in ToSet(rows) : kept[k] = Tuple(o) /\ ToSet(kept[k]) = o
    OBVIOUS
  <2>1. at[k] \in I /\ kept[k] = all[at[k]]
    <3> HIDE DEF kept, I, at, all
    <3> QED
      BY <1>3
  <2>2. PICK o \in ToSet(rows) : all[at[k]] = Tuple(o)
    <3> HIDE DEF kept, at, all
    <3> QED
      BY <2>1
  <2> HIDE DEF kept, I, at, all
  <2>3. o \in Stored
    BY <1>4
  <2> QED
    BY <2>1, <2>2, <2>3, TupleIs
<1>6. \A o \in ToSet(rows) : \E k \in DOMAIN kept : kept[k] = Tuple(o)
  <2> SUFFICES ASSUME NEW o \in ToSet(rows) PROVE \E k \in DOMAIN kept : kept[k] = Tuple(o)
    OBVIOUS
  <2>1. PICK i \in DOMAIN all : all[i] = Tuple(o)
    <3> HIDE DEF all
    <3> QED
      BY <1>1 DEF ToSet
  <2>2. i \in I
    BY <2>1
  <2> HIDE DEF kept, I, at, all
  <2>3. PICK k \in DOMAIN kept : at[k] = i
    BY <1>3, <2>2
  <2>4. kept[k] = all[at[k]]
    BY <1>3
  <2> QED
    BY <2>1, <2>3, <2>4
<1>7. PICK m \in Nat : \A k \in DOMAIN all :
           IF k <= m THEN ToSet(all[k]) \in ToSet(TopOf(rows))
           ELSE ToSet(all[k]) \in ToSet(RestOf(rows))
  BY <1>1
<1>8. DOMAIN ranked = DOMAIN kept /\ \A k \in DOMAIN kept : ranked[k] = ToSet(kept[k])
  OBVIOUS
<1>9. Cardinality(I) \in Nat /\ \A k \in DOMAIN all : k \in Nat
  <2> HIDE DEF kept, I, all, L
  <2>1. Len(kept) \in Nat /\ DOMAIN kept = 1..Len(kept)
    BY <1>3
  <2>2. Len(all) \in Nat /\ DOMAIN all = 1..Len(all)
    BY <1>1
  <2>3. IsFiniteSet(DOMAIN all)
    <3>1. IsFiniteSet(1..Len(all))
      BY <2>2, SegmentFinite
    <3> QED
      BY <2>2, <3>1
  <2>4. IsFiniteSet(I)
    BY <1>2, <2>3, FS_Subset
  <2> QED
    BY <2>2, <2>4, FS_CardinalityType
<1> HIDE DEF kept, I, at, all, L, ranked
<1>10. ToSet(ranked) = ToSet(rows)
  <2>1. \A k \in DOMAIN ranked : ranked[k] \in ToSet(rows)
    BY <1>5, <1>8
  <2>2. \A o \in ToSet(rows) : \E k \in DOMAIN ranked : ranked[k] = o
    <3> TAKE o \in ToSet(rows)
    <3>1. PICK k \in DOMAIN kept : kept[k] = Tuple(o)
      BY <1>6
    <3>2. ranked[k] = o
      BY <1>4, <1>8, <3>1, TupleIs
    <3> QED
      BY <1>8, <3>2
  <2>3. ToSet(ranked) = {ranked[k] : k \in DOMAIN ranked}
    BY DEF ToSet
  <2> QED
    BY <2>1, <2>2, <2>3
<1>11. ranked \in Seq(Stored)
  <2>1. \A k \in 1..Cardinality(I) : ranked[k] \in Stored
    BY <1>3, <1>4, <1>5, <1>8
  <2>2. ranked = [k \in DOMAIN ranked |-> ranked[k]]
    BY DEF ranked
  <2>3. ranked \in [1..Cardinality(I) -> Stored]
    BY <1>3, <1>8, <2>1, <2>2
  <2> QED
    BY <1>9, <2>3
<1>12. DistinctBut(ranked, Twice(verdict))
  <2> SUFFICES ASSUME NEW i \in DOMAIN kept, NEW j \in DOMAIN kept, ranked[i] = ranked[j], i # j
               PROVE  ranked[i] \in Twice(verdict)
    BY <1>8 DEF DistinctBut
  <2>1. kept[i] = kept[j]
    BY <1>5, <1>8
  <2>2. at[i] \in DOMAIN all /\ at[j] \in DOMAIN all /\ at[i] # at[j] /\ all[at[i]] = all[at[j]]
    BY <1>2, <1>3, <2>1
  <2>3. all[at[i]] \in NamedTwice(verdict)
    BY <1>1, <2>2 DEF DistinctBut
  <2> QED
    BY <1>3, <1>8, <2>3 DEF Twice
<1>13. \A i, j \in DOMAIN ranked :
         ranked[i] \in ToSet(RestOf(rows)) /\ ranked[j] \in ToSet(TopOf(rows)) => j < i
  <2> SUFFICES ASSUME NEW i \in DOMAIN kept, NEW j \in DOMAIN kept,
                      ranked[i] \in ToSet(RestOf(rows)), ranked[j] \in ToSet(TopOf(rows))
               PROVE  j < i
    BY <1>8
  <2>1. ToSet(TopOf(rows)) \cap ToSet(RestOf(rows)) = {}
    BY TopApartFromRest
  <2>2. /\ at[i] \in DOMAIN all /\ ranked[i] = ToSet(all[at[i]])
        /\ at[j] \in DOMAIN all /\ ranked[j] = ToSet(all[at[j]])
    BY <1>2, <1>3, <1>8
  <2>3. ~(at[i] <= m)
    BY <1>7, <2>1, <2>2
  <2>4. at[j] <= m
    BY <1>7, <2>1, <2>2
  <2>5. at[j] < at[i]
    BY <1>9, <2>2, <2>3, <2>4
  <2> QED
    BY <1>3, <2>5
<1> QED
  BY <1>0, <1>10, <1>11, <1>12, <1>13 DEF SoundOrder, ranked

\* What the bandit shows of a list: all of it, the best first, and the rest in order.
SoundShown(ranked, shown, twice) ==
  LET place(o) == CHOOSE i \in DOMAIN ranked : ranked[i] = o
  IN  /\ ToSet(shown) = ToSet(ranked) /\ Len(shown) = Len(ranked) /\ shown[1] = ranked[1]
      /\ \A i, j \in DOMAIN shown \ Explored(Len(shown)) :
           i < j /\ {shown[i], shown[j]} \cap twice = {} => place(shown[i]) < place(shown[j])

LEMMA TheBestIsNotExplored ==
  ASSUME NEW n \in Nat \ {0}
  PROVE  1 \notin Explored(n)
<1> SUFFICES ASSUME 1 \in Explored(n) PROVE FALSE
  OBVIOUS
<1> DEFINE slots == ExploreSlots(n)
<1>0. slots \in Int
  BY DEF ExploreSlots
<1>1. PICK i \in 0..slots - 1 : 1 = Shortest(n, (i * n) \div slots + 2)
  BY DEF Explored
<1>2. slots # 0 /\ slots > 0 /\ i \in Nat
  BY <1>0, <1>1
<1>3. n # 1
  <2> SUFFICES ASSUME n = 1 PROVE FALSE
    OBVIOUS
  <2>1. 15 * n = 15 /\ (15 * n) \div 100 = 0 /\ (15 * n) % 100 = 15
    OBVIOUS
  <2>2. slots = 0
    BY <2>1 DEF ExploreSlots
  <2> QED
    BY <1>2, <2>2
<1> HIDE DEF slots
<1>4. i * n \in Int /\ i * n >= 0
  BY <1>2
<1> DEFINE a == i * n
<1>5. a \div slots \in Int /\ a \div slots >= 0
  <2> HIDE DEF a
  <2>1. a \in Int /\ a >= 0
    BY <1>4 DEF a
  <2> QED
    BY <1>0, <1>2, <2>1
<1>6. Shortest(n, (i * n) \div slots + 2) >= 2
  <2> DEFINE q == (i * n) \div slots
  <2>1. q \in Int /\ q >= 0
    BY <1>5
  <2> HIDE DEF q
  <2> QED
    BY <1>3, <2>1 DEF Shortest, q
<1> QED
  BY <1>1, <1>6

LEMMA ReorderingsAreSound ==
  ASSUME NEW rows \in Seq(Stored), NEW ranked, NEW twice, SoundOrder(rows, ranked, twice),
         NEW shown \in Reorderings(ranked)
  PROVE  SoundShown(ranked, shown, twice)
<1> DEFINE n == Len(ranked)
           N == 1..n
<1>1. n \in Nat /\ DOMAIN ranked = N
  BY DEF SoundOrder
<1>2. N = 1..n /\ IsFiniteSet(N) /\ Cardinality(N) = n
  <2> DEFINE l == 1
  <2>1. l \in Int /\ n \in Int /\ n \in Nat
    BY <1>1
  <2> HIDE DEF l, n
  <2>2. IsFiniteSet(l..n) /\ Cardinality(l..n) = IF l > n THEN 0 ELSE n - l + 1
    BY <2>1, FS_Interval
  <2>3. IsFiniteSet(l..n) /\ Cardinality(l..n) = n
    BY <2>1, <2>2 DEF l
  <2> QED
    BY <2>3 DEF l
<1>3. PICK pick \in SetToSeqs(N) :
        /\ \A k \in N \ Explored(n) : \A l \in k + 1..n : pick[k] < pick[l]
        /\ shown = [k \in N |-> ranked[pick[k]]]
  BY DEF Reorderings
<1>4. pick \in [N -> N] /\ \A i, j \in N : i # j => pick[i] # pick[j]
  <2> HIDE DEF N, n
  <2>1. pick \in [1..n -> N] /\ \A i, j \in 1..n : i # j => pick[i] # pick[j]
    BY <1>2 DEF SetToSeqs
  <2> QED
    BY <1>2, <2>1
<1>5. DOMAIN shown = N /\ \A k \in N : shown[k] = ranked[pick[k]] /\ pick[k] \in N
  BY <1>3, <1>4
<1>6. \A x \in N : \E k \in N : pick[k] = x
  <2>1. pick \in Injection(N, N)
    BY <1>4 DEF Injection, IsInjective
  <2> HIDE DEF N, n
  <2>2. pick \in Surjection(N, N)
    BY <1>2, <2>1, FS_Injection
  <2> QED
    BY <2>2 DEF Surjection
<1> HIDE DEF n, N
<1>7. ToSet(shown) = ToSet(ranked)
  BY <1>1, <1>5, <1>6 DEF ToSet
<1>8. Len(shown) = n
  <2>1. shown \in [1..n -> ToSet(ranked)]
    <3>1. \A k \in N : shown[k] \in ToSet(ranked)
      BY <1>1, <1>5 DEF ToSet
    <3>2. shown = [k \in 1..n |-> shown[k]]
      BY <1>2, <1>3
    <3> QED
      BY <1>2, <3>1, <3>2
  <2> QED
    BY <1>1, <2>1
<1>9. ToSet(ranked) # {}
  <2>1. ToSet(rows) # {} /\ ToSet(ranked) = ToSet(rows)
    <3>1. rows # <<>> /\ ToSet(ranked) = ToSet(rows)
      BY DEF SoundOrder
    <3>2. 1 \in DOMAIN rows
      BY <3>1
    <3> QED
      BY <3>1, <3>2 DEF ToSet
  <2> QED
    BY <2>1
<1>10. n # 0 /\ 1 \in N
  <2>1. N # {}
    BY <1>1, <1>9 DEF ToSet
  <2> QED
    BY <1>1, <1>2, <2>1
<1>11. pick[1] = 1
  <2>1. 1 \notin Explored(n)
    BY <1>1, <1>10, TheBestIsNotExplored
  <2>2. \A l \in N : l # 1 => pick[1] < pick[l]
    <3> TAKE l \in N
    <3>1. l # 1 => l \in 1 + 1..n
      BY <1>1, <1>2
    <3> QED
      BY <1>3, <1>10, <2>1, <3>1
  <2>3. PICK k \in N : pick[k] = 1
    BY <1>6, <1>10
  <2>4. pick[1] \in 1..n
    BY <1>2, <1>4, <1>10
  <2> QED
    BY <1>1, <2>2, <2>3, <2>4
<1>12. shown[1] = ranked[1]
  BY <1>5, <1>10, <1>11
<1> DEFINE place(o) == CHOOSE i \in DOMAIN ranked : ranked[i] = o
<1>13. ASSUME NEW k \in N, shown[k] \notin twice PROVE place(shown[k]) = pick[k]
  <2>1. pick[k] \in DOMAIN ranked /\ ranked[pick[k]] = shown[k]
    BY <1>1, <1>5
  <2>2. \A i \in DOMAIN ranked : ranked[i] = shown[k] => i = pick[k]
    BY <1>13, <2>1 DEF SoundOrder, DistinctBut
  <2> QED
    BY <2>1, <2>2
<1>14. \A i, j \in N \ Explored(n) :
         i < j /\ {shown[i], shown[j]} \cap twice = {} => place(shown[i]) < place(shown[j])
  <2> SUFFICES ASSUME NEW i \in N \ Explored(n), NEW j \in N \ Explored(n), i < j,
                      {shown[i], shown[j]} \cap twice = {}
               PROVE  place(shown[i]) < place(shown[j])
    OBVIOUS
  <2>1. shown[i] \notin twice /\ shown[j] \notin twice
    OBVIOUS
  <2>2. place(shown[i]) = pick[i] /\ place(shown[j]) = pick[j]
    BY <1>13, <2>1
  <2>3. j \in i + 1..n
    BY <1>1, <1>2
  <2>4. pick[i] < pick[j]
    BY <1>3, <2>3
  <2> HIDE DEF place
  <2> QED
    BY <2>2, <2>4
<1>15. Len(ranked) = n
  BY DEF n
<1> QED
  BY <1>5, <1>7, <1>8, <1>12, <1>14, <1>15 DEF SoundShown

Fields == {"at", "rows", "there", "order", "shown", "said", "todo", "repeated"}
Written == UNION {{<<o, Template>>, <<o, Plain(o)>>} : o \in Stored}

\* What a caller may hold.
SoundCaller(c, r) ==
  /\ DOMAIN r = Fields
  /\ r.rows \in Seq(Stored) /\ Distinct(r.rows)
  /\ \A o \in DOMAIN r.said : r.said[o] \in {Template, Plain(o)}
  /\ r.todo \in Seq(Written)
  /\ c \in Asks =>
       /\ r.at # "idle" => r.rows # <<>>
       /\ r.at \in {"write", "ranked", "shown"} => SoundOrder(r.rows, r.order, r.repeated)
       /\ r.at = "shown" => SoundShown(r.order, r.shown, r.repeated)

CaptionsKept ==
  /\ DOMAIN captions = Stored
  /\ \A o \in Stored : captions[o] \in {Template, Plain(o)}

RankingInv ==
  /\ CaptionsKept /\ ranking = [c \in Callers |-> ranking[c]]
  /\ \A c \in Callers : SoundCaller(c, ranking[c])

LEMMA RestingIsSound == ASSUME NEW c PROVE SoundCaller(c, Resting)
<1>1. /\ DOMAIN Resting = Fields /\ Resting.at = "idle" /\ Resting.rows = <<>>
      /\ Resting.said = <<>> /\ Resting.todo = <<>>
  BY DEF Resting, Fields
<1>2. <<>> \in Seq(Stored) /\ <<>> \in Seq(Written) /\ Distinct(<<>>)
  BY DEF Distinct
<1>3. DOMAIN Resting.said = {}
  BY <1>1
<1> QED
  BY <1>1, <1>2, <1>3 DEF SoundCaller

LEMMA RankingStarts == RankingInit => RankingInv
<1> SUFFICES ASSUME RankingInit PROVE RankingInv
  OBVIOUS
<1>1. CaptionsKept
  BY DEF RankingInit, CaptionsKept, Stored
<1>2. ranking = [c \in Callers |-> Resting]
  BY DEF RankingInit
<1>3. ranking = [c \in Callers |-> ranking[c]] /\ \A c \in Callers : ranking[c] = Resting
  BY <1>2
<1> QED
  BY <1>1, <1>3, RestingIsSound DEF RankingInv

LEMMA CallerChanges ==
  ASSUME RankingInv, NEW c \in Callers, captions' = captions,
         NEW r, SoundCaller(c, r), ranking' = [ranking EXCEPT ![c] = r]
  PROVE  RankingInv'
<1>1. CaptionsKept'
  BY DEF RankingInv, CaptionsKept
<1>2. \A d \in Callers : ranking'[d] = IF d = c THEN r ELSE ranking[d]
  BY DEF RankingInv
<1>3. ranking' = [d \in Callers |-> ranking'[d]]
  BY DEF RankingInv
<1>4. \A d \in Callers : SoundCaller(d, ranking'[d])
  BY <1>2 DEF RankingInv
<1> QED
  BY <1>1, <1>3, <1>4 DEF RankingInv

\* What is read of the stored outfits.
LEMMA ReadIsSound ==
  ASSUME RankingInv, NEW c \in Callers, ReadRows(c)
  PROVE  RankingInv'
<1> DEFINE fit == {i \in DOMAIN Scored : Renderable(Scored[i], owned, OccasionCode)}
           kept == {i \in DOMAIN Scored : Scored[i] \subseteq owned}
           rows == Where(Scored, fit)
           own == Where(Scored, kept)
           mine == IF c = Night THEN TopOf(own) ELSE rows
           r == [Resting EXCEPT !.at = IF rows = <<>> THEN "idle" ELSE "look", !.there = owned,
                                !.rows = mine]
<1>1. captions' = captions /\ ranking' = [ranking EXCEPT ![c] = r]
  BY DEF ReadRows
<1>2. Scored \in Seq(Stored) /\ Distinct(Scored)
  <2>1. \A i \in DOMAIN Scored : Scored[i] \in Stored
    BY DEF Stored, ToSet
  <2>2. Len(Scored) \in Nat /\ DOMAIN Scored = 1..Len(Scored) /\ Scored = [i \in DOMAIN Scored |-> Scored[i]]
    BY RankingAssumption
  <2>3. Scored \in [1..Len(Scored) -> Stored]
    BY <2>1, <2>2
  <2> QED
    BY <2>2, <2>3, RankingAssumption DEF Distinct
<1>3. fit \in SUBSET DOMAIN Scored /\ kept \in SUBSET DOMAIN Scored
  OBVIOUS
<1> HIDE DEF fit, kept
<1>4. rows \in Seq(Stored) /\ Distinct(rows) /\ own \in Seq(Stored) /\ Distinct(own)
  BY <1>2, <1>3, WhereIs, WhereContains
<1>5. mine \in Seq(Stored) /\ Distinct(mine)
  <2>1. TopOf(own) \in Seq(Stored) /\ Distinct(TopOf(own))
    <3> DEFINE m == Len(TopOf(own))
    <3>1. TopOf(own) \in Seq(Stored) /\ m \in 0..Len(own) /\ \A k \in 1..m : TopOf(own)[k] = own[k]
      BY <1>4, TopAndRest
    <3>2. DOMAIN TopOf(own) = 1..m /\ DOMAIN own = 1..Len(own) /\ Len(own) \in Nat
      BY <1>4, <3>1
    <3> HIDE DEF m, own
    <3>3. \A k \in 1..m : k \in 1..Len(own)
      BY <3>1, <3>2
    <3> QED
      BY <1>4, <3>1, <3>2, <3>3 DEF Distinct
  <2> HIDE DEF own, rows
  <2> QED
    BY <1>4, <2>1
<1>6. /\ DOMAIN r = Fields /\ r.rows = mine /\ r.said = <<>> /\ r.todo = <<>>
      /\ r.at = IF rows = <<>> THEN "idle" ELSE "look"
  <2> HIDE DEF mine, rows
  <2> QED
    BY DEF Resting, Fields
<1>7. c \in Asks => mine = rows
  BY RankingAssumption
<1> HIDE DEF r, mine, rows
<1>8. <<>> \in Seq(Written) /\ DOMAIN <<>> = {}
  OBVIOUS
<1>9. SoundCaller(c, r)
  BY <1>5, <1>6, <1>7, <1>8 DEF SoundCaller
<1> QED
  BY <1>1, <1>9, CallerChanges

LEMMA DeterministicIsSound ==
  ASSUME RankingInv, NEW c \in Callers, ranking[c].at # "idle"
  PROVE  SoundCaller(c, Deterministic(c))
<1> DEFINE old == ranking[c]
           r == Deterministic(c)
<1>1. SoundCaller(c, old)
  BY DEF RankingInv
<1>2. /\ DOMAIN r = Fields /\ r.at = "ranked" /\ r.rows = old.rows /\ r.order = old.rows
      /\ r.todo = old.todo /\ r.said = [o \in ToSet(old.rows) |-> Template]
  BY <1>1 DEF SoundCaller, Deterministic, Fields
<1> HIDE DEF r, old
<1>3. \A o \in DOMAIN r.said : r.said[o] = Template
  BY <1>2
<1>4. c \in Asks => SoundOrder(r.rows, r.order, r.repeated)
  BY <1>1, <1>2, RowsAreSound DEF SoundCaller, old
<1> QED
  BY <1>1, <1>2, <1>3, <1>4 DEF SoundCaller, r, old

LEMMA FromCacheIsSound ==
  ASSUME RankingInv, NEW c \in Callers, ranking[c].at # "idle", NEW hits
  PROVE  SoundCaller(c, FromCache(c, hits))
<1> DEFINE old == ranking[c]
           r == FromCache(c, hits)
<1>1. SoundCaller(c, old)
  BY DEF RankingInv
<1>2. /\ DOMAIN r = Fields /\ r.at = "ranked" /\ r.rows = old.rows /\ r.order = old.rows
      /\ r.todo = old.todo
      /\ r.said = [o \in ToSet(old.rows) |-> IF o \in hits THEN captions[o] ELSE Template]
  BY <1>1 DEF SoundCaller, FromCache, Fields
<1> HIDE DEF r, old
<1>3. \A o \in DOMAIN r.said : r.said[o] \in {Template, Plain(o)}
  <2>1. ToSet(old.rows) \subseteq Stored
    BY <1>1 DEF SoundCaller, ToSet
  <2> QED
    BY <1>2, <2>1 DEF RankingInv, CaptionsKept
<1>4. c \in Asks => SoundOrder(r.rows, r.order, r.repeated)
  BY <1>1, <1>2, RowsAreSound DEF SoundCaller, old
<1> QED
  BY <1>1, <1>2, <1>3, <1>4 DEF SoundCaller, r, old

LEMMA LookUpIsSound ==
  ASSUME RankingInv, NEW c \in Callers, LookUpCaptions(c)
  PROVE  RankingInv'
<1>0. ranking[c].at = "look" /\ captions' = captions
  BY DEF LookUpCaptions
<1>1. PICK hits, configured :
        ranking' = [ranking EXCEPT ![c] = IF Enough(c, hits) THEN FromCache(c, hits)
                      ELSE IF configured THEN [@ EXCEPT !.at = "call"] ELSE Deterministic(c)]
  BY DEF LookUpCaptions
<1> DEFINE r == [ranking[c] EXCEPT !.at = "call"]
<1>2. SoundCaller(c, ranking[c])
  BY DEF RankingInv
<1>3. SoundCaller(c, r)
  <2>1. /\ DOMAIN r = Fields /\ r.at = "call" /\ r.rows = ranking[c].rows
        /\ r.said = ranking[c].said /\ r.todo = ranking[c].todo
    BY <1>2 DEF SoundCaller, Fields
  <2> HIDE DEF r
  <2> QED
    BY <1>0, <1>2, <2>1 DEF SoundCaller
<1>4. /\ SoundCaller(c, FromCache(c, hits)) /\ SoundCaller(c, Deterministic(c))
  BY <1>0, FromCacheIsSound, DeterministicIsSound
<1>5. \E s : SoundCaller(c, s) /\ ranking' = [ranking EXCEPT ![c] = s]
  <2>1. ranking' = [ranking EXCEPT ![c] = IF Enough(c, hits) THEN FromCache(c, hits)
                      ELSE IF configured THEN r ELSE Deterministic(c)]
    BY <1>1
  <2> HIDE DEF r
  <2> QED
    BY <1>3, <1>4, <2>1
<1> QED
  BY <1>0, <1>5, CallerChanges

LEMMA RankedIsSound ==
  ASSUME RankingInv, NEW c \in Callers, ranking[c].at # "idle",
         NEW verdict, verdict.order \in Seq(Listing), verdict.demoted \in Seq(Listing),
         \A e \in ToSet(verdict.order) \cup ToSet(verdict.demoted) :
           Ids(e) \in ToSet(TopOf(ranking[c].rows)) /\ e.text = "plain"
  PROVE  SoundCaller(c, Ranked(c, verdict))
<1> DEFINE old == ranking[c]
           rows == old.rows
           r == Ranked(c, verdict)
           kept == Heeded(verdict, rows)
           order1 == verdict.order
           named == ToSet(Entries(order1))
           T == {<<ToSet(ids), TextFor(order1, ids)>> : ids \in named}
<1>1. SoundCaller(c, old)
  BY DEF RankingInv
<1>2. rows \in Seq(Stored) /\ Distinct(rows)
  BY <1>1 DEF SoundCaller
<1>3. /\ DOMAIN r = Fields /\ r.at = "write" /\ r.rows = rows
      /\ r.order = [k \in DOMAIN kept |-> ToSet(kept[k])]
      /\ r.said = [o \in ToSet(rows) |-> TextFor(order1, Tuple(o))]
      /\ r.todo = SetToSeq(T) /\ r.repeated = Twice(verdict)
  <2>1. DOMAIN old = Fields
    BY <1>1 DEF SoundCaller
  <2> QED
    BY <2>1 DEF Ranked, Heeded, Twice, Fields
<1>4. \A e \in ToSet(order1) : e.text = "plain" /\ Ids(e) \in ToSet(TopOf(rows))
  OBVIOUS
<1>5. \A ids : TextFor(order1, ids) \in {Template, Plain(ToSet(ids))}
  BY <1>4, TextIsChecked
<1>6. \A o \in DOMAIN r.said : r.said[o] \in {Template, Plain(o)}
  <2>1. \A o \in ToSet(rows) : o \in Stored /\ ToSet(Tuple(o)) = o
    <3>1. \A o \in ToSet(rows) : o \in Stored
      BY <1>2 DEF ToSet
    <3> QED
      BY <3>1, TupleIs
  <2> HIDE DEF rows, old, r, order1
  <2> QED
    BY <1>3, <1>5, <2>1
<1>7. T \subseteq Written
  <2> SUFFICES ASSUME NEW ids \in named PROVE <<ToSet(ids), TextFor(order1, ids)>> \in Written
    OBVIOUS
  <2>1. PICK e \in ToSet(order1) : ids = e.ids
    <3> HIDE DEF order1
    <3>1. named = {e.ids : e \in ToSet(order1)}
      BY NamedAre DEF order1
    <3> HIDE DEF named
    <3> QED
      BY <3>1
  <2>2. ToSet(ids) \in ToSet(TopOf(rows))
    BY <1>4, <2>1 DEF Ids
  <2>3. ToSet(ids) \in Stored
    <3>1. TopOf(rows) \in Seq(Stored)
      BY <1>2, TopAndRest
    <3> HIDE DEF rows
    <3>2. \A x \in ToSet(TopOf(rows)) : x \in Stored
      <4> DEFINE top == TopOf(rows)
      <4>1. \A k \in DOMAIN top : top[k] \in Stored
        BY <3>1
      <4> HIDE DEF top
      <4> QED
        BY <4>1 DEF ToSet, top
    <3> QED
      BY <2>2, <3>2
  <2> DEFINE o == ToSet(ids)
             text == TextFor(order1, ids)
  <2>4. o \in Stored /\ text \in {Template, Plain(o)}
    BY <1>5, <2>3
  <2> HIDE DEF o, text, Stored
  <2>5. <<o, text>> \in Written
    BY <2>4 DEF Written
  <2> QED
    BY <2>5 DEF o, text
<1>8. IsFiniteSet(T)
  <2> DEFINE names == Entries(order1)
             n == Len(order1)
             pair(ids) == <<ToSet(ids), TextFor(order1, ids)>>
             f == [k \in 1..n |-> pair(names[k])]
  <2>1. n \in Nat /\ DOMAIN names = 1..n
    <3>1. names \in Seq(Seq(Pieces)) /\ Len(names) = n
      BY NamedAre
    <3> HIDE DEF names
    <3> QED
      BY <3>1
  <2>2. named = {names[k] : k \in 1..n}
    <3> HIDE DEF names
    <3> QED
      BY <2>1 DEF ToSet, names
  <2>3. T = {pair(names[k]) : k \in 1..n}
    <3>1. T = {pair(ids) : ids \in named}
      OBVIOUS
    <3> HIDE DEF T, pair, names, named
    <3> QED
      BY <2>2, <3>1
  <2> HIDE DEF T, pair, names, n
  <2>4. f \in Surjection(1..n, T)
    <3>1. f \in [1..n -> T] /\ \A k \in 1..n : f[k] = pair(names[k])
      BY <2>3
    <3>2. \A x \in T : \E k \in 1..n : f[k] = x
      BY <2>3, <3>1
    <3> QED
      BY <3>1, <3>2 DEF Surjection
  <2>5. IsFiniteSet(1..n)
    BY <2>1, FS_Interval
  <2> HIDE DEF f
  <2> QED
    BY <2>4, <2>5, FS_Surjection
<1>9. SetToSeq(T) \in Seq(Written)
  <2> HIDE DEF T
  <2>1. /\ SetToSeq(T) \in Bijection(1..Cardinality(T), T) /\ Cardinality(T) \in Nat
    BY <1>8, SetToSeqLists
  <2>2. SetToSeq(T) \in [1..Cardinality(T) -> Written]
    BY <1>7, <2>1 DEF Bijection, Injection
  <2> QED
    BY <2>1, <2>2
<1>10. c \in Asks => SoundOrder(rows, r.order, r.repeated)
  <2> SUFFICES ASSUME c \in Asks PROVE SoundOrder(rows, r.order, r.repeated)
    OBVIOUS
  <2>1. rows # <<>>
    BY <1>1 DEF SoundCaller
  <2>2. \A e \in ToSet(verdict.order) \cup ToSet(verdict.demoted) : Ids(e) \in ToSet(TopOf(rows))
    OBVIOUS
  <2> HIDE DEF rows, old
  <2>3. SoundOrder(rows, [k \in DOMAIN kept |-> ToSet(kept[k])], Twice(verdict))
    BY <1>2, <2>1, <2>2, KeptIsSound
  <2> HIDE DEF kept, r, T
  <2> QED
    BY <1>3, <2>3
<1> HIDE DEF r, rows, T, kept, order1
<1> QED
  BY <1>2, <1>3, <1>6, <1>9, <1>10, <1>1 DEF SoundCaller, r, rows

LEMMA CallIsSound ==
  ASSUME RankingInv, NEW c \in Callers, NEW sheet \in Answers, CallModel(c, sheet)
  PROVE  RankingInv'
<1> DEFINE there == ranking[c].there
           sent == ToSet(TopOf(ranking[c].rows))
           verdict == Validate(sheet, sent, there, there, 50)
           r == IF verdict.rule = "accepted" THEN Ranked(c, verdict) ELSE Deterministic(c)
<1>1. /\ ranking[c].at = "call" /\ captions' = captions
      /\ ranking' = [ranking EXCEPT ![c] = r]
  BY DEF CallModel
<1>2. SoundCaller(c, Deterministic(c))
  BY <1>1, DeterministicIsSound
<1>3. ASSUME verdict.rule = "accepted" PROVE SoundCaller(c, Ranked(c, verdict))
  <2>1. /\ verdict.order \in Seq(Listing) /\ verdict.demoted \in Seq(Listing)
        /\ \A e \in ToSet(verdict.order) \cup ToSet(verdict.demoted) :
             Ids(e) \in sent /\ e.text = "plain"
    BY <1>3, AcceptedIs
  <2> HIDE DEF verdict
  <2> QED
    BY <1>1, <2>1, RankedIsSound
<1>4. SoundCaller(c, r)
  <2> HIDE DEF verdict
  <2> QED
    BY <1>2, <1>3
<1> HIDE DEF r
<1> QED
  BY <1>1, <1>4, CallerChanges

LEMMA GatewayFailsSoundly ==
  ASSUME RankingInv, NEW c \in Callers, GatewayFails(c)
  PROVE  RankingInv'
<1>1. /\ ranking[c].at = "call" /\ captions' = captions
      /\ ranking' = [ranking EXCEPT ![c] = Deterministic(c)]
  BY DEF GatewayFails
<1> QED
  BY <1>1, DeterministicIsSound, CallerChanges

LEMMA WriteIsSound ==
  ASSUME RankingInv, NEW c \in Callers, WriteCaption(c)
  PROVE  RankingInv'
<1> DEFINE old == ranking[c]
           next == old.todo[1]
           r == [old EXCEPT !.todo = Tail(old.todo)]
<1>1. /\ old.at = "write" /\ old.todo # <<>>
      /\ captions' = [captions EXCEPT ![next[1]] = next[2]]
  BY DEF WriteCaption
<1>2. ranking' = [ranking EXCEPT ![c] = r]
  BY DEF WriteCaption
<1>3. SoundCaller(c, old)
  BY DEF RankingInv
<1>4. old.todo \in Seq(Written)
  BY <1>3 DEF SoundCaller
<1>5. next \in Written /\ Tail(old.todo) \in Seq(Written)
  <2> HIDE DEF old
  <2> QED
    BY <1>1, <1>4 DEF next
<1>6. SoundCaller(c, r)
  <2>1. /\ DOMAIN r = Fields /\ r.at = old.at /\ r.rows = old.rows /\ r.order = old.order
        /\ r.said = old.said /\ r.shown = old.shown /\ r.repeated = old.repeated
        /\ r.todo = Tail(old.todo)
    BY <1>3 DEF SoundCaller, Fields
  <2> HIDE DEF r, old
  <2> QED
    BY <1>3, <1>5, <2>1 DEF SoundCaller
<1>7. CaptionsKept'
  <2>1. PICK o \in Stored : next \in {<<o, Template>>, <<o, Plain(o)>>}
    BY <1>5 DEF Written
  <2>2. next[1] = o /\ next[2] \in {Template, Plain(o)}
    BY <2>1
  <2> HIDE DEF next
  <2> QED
    BY <1>1, <2>2 DEF RankingInv, CaptionsKept
<1>8. \A d \in Callers : ranking'[d] = IF d = c THEN r ELSE ranking[d]
  <2> HIDE DEF r
  <2> QED
    BY <1>2 DEF RankingInv
<1>9. ranking' = [d \in Callers |-> ranking'[d]]
  <2> HIDE DEF r
  <2> QED
    BY <1>2 DEF RankingInv
<1>10. \A d \in Callers : SoundCaller(d, ranking'[d])
  <2> HIDE DEF r
  <2> QED
    BY <1>6, <1>8 DEF RankingInv
<1> QED
  BY <1>7, <1>9, <1>10 DEF RankingInv

LEMMA WritingEnds ==
  ASSUME RankingInv, NEW c \in Callers, EndWriting(c) \/ CacheFails(c)
  PROVE  RankingInv'
<1> DEFINE old == ranking[c]
           written == [old EXCEPT !.at = "ranked"]
           failed == [old EXCEPT !.at = "ranked", !.todo = <<>>]
<1>1. old.at = "write" /\ captions' = captions
  BY DEF EndWriting, CacheFails
<1>2. /\ EndWriting(c) => ranking' = [ranking EXCEPT ![c] = written]
      /\ CacheFails(c) => ranking' = [ranking EXCEPT ![c] = failed]
  BY DEF EndWriting, CacheFails
<1>3. SoundCaller(c, old)
  BY DEF RankingInv
<1>4. SoundCaller(c, written)
  <2>1. /\ DOMAIN written = Fields /\ written.at = "ranked" /\ written.rows = old.rows
        /\ written.order = old.order /\ written.said = old.said /\ written.repeated = old.repeated
        /\ written.todo = old.todo
    BY <1>3 DEF SoundCaller, Fields
  <2> HIDE DEF written, old
  <2> QED
    BY <1>1, <1>3, <2>1 DEF SoundCaller
<1>5. SoundCaller(c, failed)
  <2>1. /\ DOMAIN failed = Fields /\ failed.at = "ranked" /\ failed.rows = old.rows
        /\ failed.order = old.order /\ failed.said = old.said /\ failed.repeated = old.repeated
        /\ failed.todo = <<>>
    BY <1>3 DEF SoundCaller, Fields
  <2>2. <<>> \in Seq(Written)
    OBVIOUS
  <2> HIDE DEF failed, old
  <2> QED
    BY <1>1, <1>3, <2>1, <2>2 DEF SoundCaller
<1> HIDE DEF written, failed
<1>6. CASE EndWriting(c)
  BY <1>1, <1>2, <1>4, <1>6, CallerChanges
<1>7. CASE CacheFails(c)
  BY <1>1, <1>2, <1>5, <1>7, CallerChanges
<1> QED
  BY <1>6, <1>7

LEMMA ShowingIsSound ==
  ASSUME RankingInv, NEW c \in Callers, ShowOutfits(c) \/ CloseRequest(c)
  PROVE  RankingInv'
<1> DEFINE old == ranking[c]
<1>1. captions' = captions
  BY DEF ShowOutfits, CloseRequest
<1>2. SoundCaller(c, old)
  BY DEF RankingInv
<1>3. CASE CloseRequest(c)
  <2>1. ranking' = [ranking EXCEPT ![c] = Resting]
    BY <1>3 DEF CloseRequest
  <2> QED
    BY <1>1, <2>1, RestingIsSound, CallerChanges
<1>4. CASE ShowOutfits(c)
  <2>1. CASE c = Night
    <3>1. ranking' = [ranking EXCEPT ![c] = Resting]
      BY <1>4, <2>1 DEF ShowOutfits
    <3> QED
      BY <1>1, <3>1, RestingIsSound, CallerChanges
  <2>2. CASE c # Night
    <3>1. PICK shown \in Reorderings(old.order) :
            ranking' = [ranking EXCEPT ![c] = [@ EXCEPT !.at = "shown", !.shown = shown]]
      BY <1>4, <2>2 DEF ShowOutfits
    <3> DEFINE r == [old EXCEPT !.at = "shown", !.shown = shown]
    <3>2. ranking' = [ranking EXCEPT ![c] = r]
      BY <3>1
    <3>3. /\ DOMAIN r = Fields /\ r.at = "shown" /\ r.rows = old.rows /\ r.order = old.order
          /\ r.said = old.said /\ r.repeated = old.repeated /\ r.todo = old.todo
          /\ r.shown = shown
      BY <1>2 DEF SoundCaller, Fields
    <3>4. old.at = "ranked"
      BY <1>4 DEF ShowOutfits
    <3> HIDE DEF r, old
    <3>5. c \in Asks => /\ old.rows # <<>> /\ SoundOrder(old.rows, old.order, old.repeated)
                        /\ SoundShown(old.order, shown, old.repeated)
      <4> SUFFICES ASSUME c \in Asks
                   PROVE  /\ old.rows # <<>> /\ SoundOrder(old.rows, old.order, old.repeated)
                          /\ SoundShown(old.order, shown, old.repeated)
        OBVIOUS
      <4>1. old.rows # <<>> /\ SoundOrder(old.rows, old.order, old.repeated) /\ old.rows \in Seq(Stored)
        BY <1>2, <3>4 DEF SoundCaller
      <4> QED
        BY <4>1, ReorderingsAreSound
    <3>6. SoundCaller(c, r)
      BY <1>2, <3>3, <3>5 DEF SoundCaller
    <3> QED
      BY <1>1, <3>2, <3>6, CallerChanges
  <2> QED
    BY <2>1, <2>2
<1> QED
  BY <1>3, <1>4

LEMMA OthersAreSound ==
  ASSUME RankingInv,
         (\E o \in Stored : ExpireCaption(o)) \/ (\E g \in owned : Dispose(g)) \/ UNCHANGED rankingVars
  PROVE  RankingInv'
<1>1. ranking' = ranking
  BY DEF ExpireCaption, Dispose, rankingVars
<1>2. captions' = captions \/ \E o \in Stored : captions' = [captions EXCEPT ![o] = Template]
  BY DEF ExpireCaption, Dispose, rankingVars
<1>3. CaptionsKept'
  BY <1>2 DEF RankingInv, CaptionsKept
<1> QED
  BY <1>1, <1>3 DEF RankingInv

LEMMA RankingStaysSound == RankingInv /\ [RankingNext]_rankingVars => RankingInv'
<1> SUFFICES ASSUME RankingInv, [RankingNext]_rankingVars PROVE RankingInv'
  OBVIOUS
<1>1. CASE UNCHANGED rankingVars
  BY <1>1, OthersAreSound
<1>2. CASE \E o \in ToSet(Scored) : ExpireCaption(o)
  <2>1. \E o \in Stored : ExpireCaption(o)
    BY <1>2 DEF Stored
  <2> QED
    BY <2>1, OthersAreSound
<1>3. CASE \E g \in owned : Dispose(g)
  BY <1>3, OthersAreSound
<1>4. ASSUME NEW c \in Callers, Ranks(c) \/ GatewayFails(c) \/ CacheFails(c) PROVE RankingInv'
  <2>1. ReadRows(c) => RankingInv'
    BY ReadIsSound
  <2>2. LookUpCaptions(c) => RankingInv'
    BY LookUpIsSound
  <2>3. ASSUME NEW sheet \in Answers, CallModel(c, sheet) PROVE RankingInv'
    BY <2>3, CallIsSound
  <2>4. WriteCaption(c) => RankingInv'
    BY WriteIsSound
  <2>5. EndWriting(c) \/ CacheFails(c) => RankingInv'
    BY WritingEnds
  <2>6. ShowOutfits(c) \/ CloseRequest(c) => RankingInv'
    BY ShowingIsSound
  <2>7. GatewayFails(c) => RankingInv'
    BY GatewayFailsSoundly
  <2> QED
    BY <1>4, <2>1, <2>2, <2>3, <2>4, <2>5, <2>6, <2>7 DEF Ranks
<1> QED
  BY <1>1, <1>2, <1>3, <1>4 DEF RankingNext

LEMMA RankingInvChecks == RankingInv => RankingLosesNothing /\ CaptionsChecked
<1> SUFFICES ASSUME RankingInv PROVE RankingLosesNothing /\ CaptionsChecked
  OBVIOUS
<1>1. CaptionsChecked
  BY DEF RankingInv, CaptionsKept, CaptionsChecked, SoundCaller
<1>2. ASSUME NEW c \in Asks, ranking[c].at \in {"write", "ranked", "shown"}
      PROVE  LET order == ranking[c].order
                 rows == ranking[c].rows
                 shown == ranking[c].shown
                 place(o) == CHOOSE i \in DOMAIN order : order[i] = o
             IN  /\ ToSet(order) = ToSet(rows)
                 /\ \A i, j \in DOMAIN order :
                      order[i] = order[j] => i = j \/ order[i] \in ranking[c].repeated
                 /\ \A i, j \in DOMAIN order :
                      order[i] \in ToSet(RestOf(rows)) /\ order[j] \in ToSet(TopOf(rows)) => j < i
                 /\ ranking[c].at = "shown" =>
                      /\ ToSet(shown) = ToSet(rows) /\ Len(shown) = Len(order) /\ shown[1] = order[1]
                      /\ \A i, j \in DOMAIN shown \ Explored(Len(shown)) :
                           i < j /\ {shown[i], shown[j]} \cap ranking[c].repeated = {} =>
                             place(shown[i]) < place(shown[j])
  <2> DEFINE r == ranking[c]
  <2>1. SoundCaller(c, r)
    BY DEF RankingInv, Callers
  <2> HIDE DEF r
  <2>2. SoundOrder(r.rows, r.order, r.repeated) /\ r.rows \in Seq(Stored) /\ Distinct(r.rows)
    BY <1>2, <2>1 DEF SoundCaller, r
  <2>3. DistinctBut(r.order, r.repeated)
    BY <2>2 DEF SoundOrder
  <2>4. r.at = "shown" => SoundShown(r.order, r.shown, r.repeated)
    BY <2>1 DEF SoundCaller
  <2>5. r.at = "shown" => ToSet(r.shown) = ToSet(r.rows)
    BY <2>2, <2>4 DEF SoundOrder, SoundShown
  <2> QED
    BY <2>2, <2>3, <2>4, <2>5 DEF SoundOrder, SoundShown, DistinctBut, r
<1>3. RankingLosesNothing
  BY <1>2 DEF RankingLosesNothing
<1> QED
  BY <1>1, <1>3

--------------------------------------------------------------------------------
(* Scoring: every part of a score, and the score. *)
\* The sum and the mean of what a function gives the members of a set.
TotalOf(S, f) == LET order1 == SetToSeq(S) IN SumTo([k \in 1..Cardinality(S) |-> f[order1[k]]], Cardinality(S))
MeanOf(S, f) == TotalOf(S, f) \div Cardinality(S)

LEMMA MeanIs ==
  ASSUME NEW S, IsFiniteSet(S), S # {}, NEW f \in [S -> Int]
  PROVE  /\ MeanOf(S, f) \in Int
         /\ (\A x \in S : f[x] >= 300) => MeanOf(S, f) >= 300
<1> DEFINE n == Cardinality(S)
           list == SetToSeq(S)
           value == [k \in 1..n |-> f[list[k]]]
<1>1. n \in Nat /\ n > 0 /\ list \in [1..n -> S]
  BY SetToSeqLists, FS_EmptySet DEF Bijection, Injection
<1>2. TotalOf(S, f) = SumTo(value, n)
  BY DEF TotalOf
<1>3. value \in [1..n -> Int]
  BY <1>1
<1>4. (\A x \in S : f[x] >= 300) => \A k \in 1..n : value[k] >= 300
  BY <1>1
<1> HIDE DEF value, n, list
<1>5. /\ SumTo(value, n) \in Int
      /\ (\A k \in 1..n : value[k] >= 300) => SumTo(value, n) >= 300 * n
  BY <1>1, <1>3, SumIsBetween
<1> DEFINE a == TotalOf(S, f)
<1>6. a \in Int /\ ((\A x \in S : f[x] >= 300) => a >= 300 * n)
  BY <1>2, <1>4, <1>5
<1>7. MeanOf(S, f) = a \div n
  BY DEF MeanOf, n
<1> HIDE DEF a
<1>8. a \div n \in Int /\ (a >= 300 * n => a \div n >= 300)
  BY <1>1, <1>6, Quotient
<1> QED
  BY <1>6, <1>7, <1>8

\* A share that two colours at odds still leave.
Harmony == 300..1000

LEMMA ShareIs == Share \subseteq Int /\ Harmony \subseteq Share
BY DEF Share, Harmony

LEMMA CutIs ==
  ASSUME NEW x \in Int
  PROVE  Cut(x) \in Share /\ (x >= 300 => Cut(x) \in Harmony)
BY DEF Cut, Share, Harmony

LEMMA MostAndLeast ==
  ASSUME NEW T, T \subseteq Int, IsFiniteSet(T), T # {}
  PROVE  Most(T) \in T /\ Least(T) \in T
<1> DEFINE up == [x \in T |-> x]
           down == [x \in T |-> -x]
<1>1. up \in [T -> Int] /\ down \in [T -> Int]
  OBVIOUS
<1>2. \E x \in T : \A y \in T : up[y] <= up[x]
  <2> HIDE DEF up
  <2> QED
    BY <1>1, GreatestThere
<1>3. \E x \in T : \A y \in T : down[y] <= down[x]
  <2> HIDE DEF down
  <2> QED
    BY <1>1, GreatestThere
<1>4. \E x \in T : \A y \in T : y <= x
  BY <1>2
<1>5. \E x \in T : \A y \in T : x <= y
  <2>1. PICK x \in T : \A y \in T : down[y] <= down[x]
    BY <1>3
  <2>2. \A y \in T : x <= y
    <3> TAKE y \in T
    <3>1. -y <= -x /\ x \in Int /\ y \in Int
      BY <2>1
    <3> QED
      BY <3>1
  <2> QED
    BY <2>2
<1> QED
  BY <1>4, <1>5 DEF Most, Least

\* Levels of the pieces that have one.
LEMMA LevelsAre ==
  ASSUME NEW outfit \in SUBSET Pieces, IsFiniteSet(outfit),
         NEW level \in [Pieces -> Int \cup {Unset}]
  PROVE  /\ Levels(outfit, level) \subseteq Int /\ IsFiniteSet(Levels(outfit, level))
         /\ Known(outfit, level) \subseteq outfit /\ IsFiniteSet(Known(outfit, level))
         /\ \A g \in Known(outfit, level) : level[g] \in Int
         /\ Known(outfit, level) # {} => Levels(outfit, level) # {}
         /\ Levels(outfit, level) # {} =>
              Most(Levels(outfit, level)) \in Int /\ Least(Levels(outfit, level)) \in Int
<1> DEFINE labelled == Known(outfit, level)
           levels == Levels(outfit, level)
<1>1. labelled \subseteq outfit /\ IsFiniteSet(labelled)
  BY FS_Subset DEF Known
<1>2. levels = {level[g] : g \in labelled}
  BY DEF Levels, Known
<1>3. \A g \in labelled : level[g] \in Int
  BY DEF Known
<1> HIDE DEF labelled, levels
<1>4. IsFiniteSet(levels)
  <2> DEFINE f == [g \in labelled |-> level[g]]
  <2>1. f \in Surjection(labelled, levels)
    BY <1>2 DEF Surjection
  <2> HIDE DEF f
  <2> QED
    BY <1>1, <2>1, FS_Surjection
<1>5. levels \subseteq Int
  BY <1>2, <1>3
<1>6. levels # {} => Most(levels) \in Int /\ Least(levels) \in Int
  BY <1>4, <1>5, MostAndLeast
<1> QED
  BY <1>1, <1>2, <1>3, <1>4, <1>5, <1>6 DEF labelled, levels

LEMMA PairScoreIs == ASSUME NEW d \in Nat PROVE PairScore(d) \in Int /\ PairScore(d) >= 300
<1>1. CASE d < 10 \/ d > 25
  BY <1>1 DEF PairScore
<1>2. CASE ~(d < 10 \/ d > 25)
  <2> DEFINE off == Apart(20 * d, 350)
             a == 700 * (150 - off)
  <2>1. off \in 0..150
    BY <1>2 DEF Apart
  <2> HIDE DEF off
  <2>2. a \in Int /\ a >= 0 /\ a <= 105000
    BY <2>1
  <2> HIDE DEF a
  <2>3. a \div 150 \in Int /\ a \div 150 <= 700
    BY <2>2
  <2>4. PairScore(d) = 1000 - a \div 150
    BY <1>2 DEF PairScore, a, off
  <2> QED
    BY <2>3, <2>4
<1> QED
  BY <1>1, <1>2

LEMMA SomePair ==
  ASSUME NEW S, IsFiniteSet(S), ~(Cardinality(S) <= 1)
  PROVE  /\ \E p \in SUBSET S : Cardinality(p) = 2
         /\ IsFiniteSet({p \in SUBSET S : Cardinality(p) = 2})
         /\ \A p \in SUBSET S : Cardinality(p) = 2 =>
              \E a, b \in p : a # b
<1>1. Cardinality(S) \in Nat
  BY FS_CardinalityType
<1>2. S # {}
  BY <1>1, FS_EmptySet
<1>3. PICK a \in S : TRUE
  BY <1>2
<1>4. S # {a}
  BY FS_Singleton, <1>1
<1>5. PICK b \in S : b # a
  BY <1>3, <1>4
<1>6. Cardinality({a, b}) = 2
  <2>1. IsFiniteSet({a}) /\ Cardinality({a}) = 1
    BY FS_Singleton
  <2>2. {a, b} = {a} \cup {b} /\ b \notin {a}
    BY <1>5
  <2> DEFINE one == {a}
  <2>3. IsFiniteSet(one) /\ Cardinality(one) = 1 /\ b \notin one /\ {a, b} = one \cup {b}
    BY <2>1, <2>2
  <2> HIDE DEF one
  <2>4. Cardinality(one \cup {b}) = Cardinality(one) + 1
    BY <2>3, FS_AddElement
  <2> QED
    BY <2>3, <2>4
<1>7. IsFiniteSet({p \in SUBSET S : Cardinality(p) = 2})
  <2>1. IsFiniteSet(SUBSET S)
    BY FS_SUBSET
  <2>2. {p \in SUBSET S : Cardinality(p) = 2} \in SUBSET (SUBSET S)
    OBVIOUS
  <2> QED
    BY <2>1, <2>2, FS_Subset
<1>8. ASSUME NEW p \in SUBSET S, Cardinality(p) = 2 PROVE \E x, y \in p : x # y
  <2>1. p # {}
    BY <1>8, FS_EmptySet
  <2>2. PICK x \in p : TRUE
    BY <2>1
  <2>3. Cardinality({x}) = 1
    BY FS_Singleton
  <2>4. p # {x}
    BY <1>8, <2>3
  <2>5. PICK y \in p : y # x
    BY <2>2, <2>4
  <2> QED
    BY <2>2, <2>5
<1> QED
  BY <1>3, <1>5, <1>6, <1>7, <1>8

LEMMA ColourIsAShare ==
  ASSUME NEW outfit \in SUBSET Pieces, IsFiniteSet(outfit)
  PROVE  ColourHarmony(outfit).value \in Harmony
<1> DEFINE chromatic == Chromatic(outfit)
           pairs == {p \in SUBSET chromatic : Cardinality(p) = 2}
           first(p) == CHOOSE g \in p : TRUE
           second(p) == CHOOSE g \in p : g # first(p)
           score(p) == PairScore(Distance[{Colour[first(p)], Colour[second(p)]}])
           f == [p \in pairs |-> score(p)]
<1>1. CASE \A g \in outfit : Colour[g] = Unset
  <2>1. ColourHarmony(outfit) = Sub(500, FALSE)
    BY <1>1, Zenon DEF ColourHarmony
  <2>2. Sub(500, FALSE).value \in Harmony
    BY DEF Sub, Harmony
  <2> QED
    BY <2>1, <2>2, Zenon
<1>2. CASE ~(\A g \in outfit : Colour[g] = Unset) /\ Cardinality(chromatic) <= 1
  <2> DEFINE full == 1000
  <2>1. ColourHarmony(outfit) = Sub(full, TRUE)
    BY <1>2 DEF ColourHarmony
  <2>2. Sub(full, TRUE).value \in Harmony
    BY DEF Sub, Harmony
  <2> HIDE DEF full
  <2> QED
    BY <2>1, <2>2, Zenon
<1>3. CASE ~(\A g \in outfit : Colour[g] = Unset) /\ ~(Cardinality(chromatic) <= 1)
  <2>1. chromatic \subseteq outfit /\ IsFiniteSet(chromatic) /\ chromatic \subseteq Pieces
        /\ \A g \in chromatic : Colour[g] # Unset
    BY FS_Subset DEF Chromatic
  <2>2. ColourHarmony(outfit) = Sub(Cut(Mean(pairs, score)), TRUE)
    BY <1>3 DEF ColourHarmony
  <2> HIDE DEF chromatic
  <2>3. /\ pairs # {} /\ IsFiniteSet(pairs)
        /\ \A p \in pairs : \E a, b \in p : a # b
    BY <1>3, <2>1, SomePair
  <2>4. \A p \in pairs : first(p) \in p /\ second(p) \in p
    <3> TAKE p \in pairs
    <3>1. PICK a, b \in p : a # b
      BY <2>3
    <3>2. first(p) \in p
      BY <3>1
    <3>3. \E g \in p : g # first(p)
      <4> HIDE DEF first
      <4> QED
        BY <3>1
    <3> HIDE DEF first
    <3>4. second(p) \in p
      BY <3>3
    <3> QED
      BY <3>2, <3>4
  <2>5. \A p \in pairs : score(p) \in Int /\ score(p) >= 300
    <3> TAKE p \in pairs
    <3> DEFINE a == first(p)
               b == second(p)
    <3>1. a \in chromatic /\ b \in chromatic
      BY <2>4
    <3> HIDE DEF a, b
    <3>2. Distance[{Colour[a], Colour[b]}] \in Nat
      <4>1. a \in Pieces /\ b \in Pieces /\ Unset \notin {Colour[a], Colour[b]}
        BY <2>1, <3>1
      <4> QED
        BY <4>1, ScoringAssumption
    <3>3. score(p) = PairScore(Distance[{Colour[a], Colour[b]}])
      BY DEF a, b
    <3> HIDE DEF score
    <3> QED
      BY <3>2, <3>3, PairScoreIs
  <2>6. f \in [pairs -> Int] /\ \A p \in pairs : f[p] >= 300
    <3> HIDE DEF score, pairs
    <3> QED
      BY <2>5
  <2>7. Mean(pairs, score) = MeanOf(pairs, f)
    <3> DEFINE list == SetToSeq(pairs)
               n == Cardinality(pairs)
    <3>1. list \in [1..n -> pairs]
      <4> HIDE DEF pairs
      <4> QED
        BY <2>3, SetToSeqLists DEF Bijection, Injection
    <3>2. Mean(pairs, score) = SumTo([k \in 1..n |-> score(list[k])], n) \div n
      BY DEF Mean, Total
    <3>3. MeanOf(pairs, f) = SumTo([k \in 1..n |-> f[list[k]]], n) \div n
      BY DEF MeanOf, TotalOf
    <3> HIDE DEF list, n, score, pairs
    <3>4. \A k \in 1..n : f[list[k]] = score(list[k])
      BY <3>1
    <3>5. [k \in 1..n |-> f[list[k]]] = [k \in 1..n |-> score(list[k])]
      BY <3>4
    <3> QED
      BY <3>2, <3>3, <3>5
  <2>8. MeanOf(pairs, f) \in Int /\ MeanOf(pairs, f) >= 300
    <3> HIDE DEF f, pairs
    <3> QED
      BY <2>3, <2>6, MeanIs
  <2> DEFINE x == Mean(pairs, score)
  <2>9. x \in Int /\ x >= 300 /\ ColourHarmony(outfit).value = Cut(x)
    <3>1. x \in Int /\ x >= 300
      <4> HIDE DEF f, pairs, score
      <4> QED
        BY <2>7, <2>8
    <3>2. ColourHarmony(outfit) = Sub(Cut(x), TRUE)
      BY <2>2
    <3> HIDE DEF x
    <3>3. ColourHarmony(outfit).value = Cut(x)
      BY <3>2 DEF Sub
    <3> QED
      BY <3>1, <3>3
  <2> HIDE DEF x
  <2>10. Cut(x) \in Harmony
    BY <2>9, CutIs
  <2> QED
    BY <2>9, <2>10, Zenon
<1> QED
  BY <1>1, <1>2, <1>3

LEMMA FormalityIsAShare ==
  ASSUME NEW outfit \in SUBSET Pieces, IsFiniteSet(outfit), NEW target \in Int
  PROVE  FormalityCoherence(outfit, target).value \in Share
<1> DEFINE labelled == Known(outfit, Formality)
           levels == Levels(outfit, Formality)
           value(g) == 1000 * Formality[g]
           f == [g \in labelled |-> value(g)]
           mean == Mean(labelled, value)
<1>1. Formality \in [Pieces -> Int \cup {Unset}]
  BY PoolAssumption
<1>2. /\ IsFiniteSet(labelled) /\ \A g \in labelled : Formality[g] \in Int
      /\ labelled # {} => Most(levels) \in Int /\ Least(levels) \in Int
  BY <1>1, LevelsAre
<1>3. CASE labelled = {}
  BY <1>3, SMT DEF FormalityCoherence, Sub, Alike, Mean, Total, Cut, Apart, Share
<1>4. CASE labelled # {} /\ Alike(outfit, Formality)
  <2> DEFINE x == 1000 - 250 * Apart(Most(levels), target)
  <2>1. FormalityCoherence(outfit, target) = Sub(Cut(x), FALSE)
    BY <1>4, SMT DEF FormalityCoherence, Sub, Alike, Mean, Total, Cut, Apart
  <2>2. x \in Int
    <3> DEFINE y == Most(levels)
    <3>1. y \in Int
      BY <1>2, <1>4
    <3> HIDE DEF y
    <3>2. 1000 - 250 * Apart(y, target) \in Int
      BY <3>1 DEF Apart
    <3> QED
      BY <3>2 DEF y
  <2> HIDE DEF x
  <2>3. FormalityCoherence(outfit, target).value = Cut(x)
    BY <2>1 DEF Sub
  <2> QED
    BY <2>2, <2>3, CutIs, Zenon
<1>5. CASE labelled # {} /\ ~Alike(outfit, Formality)
  <2>1. mean \in Int
    <3> DEFINE list == SetToSeq(labelled)
               n == Cardinality(labelled)
    <3>1. list \in [1..n -> labelled]
      BY <1>2, SetToSeqLists DEF Bijection, Injection
    <3>2. mean = SumTo([k \in 1..n |-> value(list[k])], n) \div n
      BY DEF Mean, Total
    <3>3. MeanOf(labelled, f) = SumTo([k \in 1..n |-> f[list[k]]], n) \div n
      BY DEF MeanOf, TotalOf
    <3> HIDE DEF list, n, labelled
    <3>4. \A k \in 1..n : f[list[k]] = value(list[k])
      BY <3>1
    <3>5. mean = MeanOf(labelled, f)
      <4> HIDE DEF f, value
      <4>1. [k \in 1..n |-> f[list[k]]] = [k \in 1..n |-> value(list[k])]
        BY <3>4
      <4> QED
        BY <3>2, <3>3, <4>1
    <3>6. f \in [labelled -> Int]
      <4>1. \A g \in labelled : value(g) \in Int
        BY <1>2
      <4> HIDE DEF value
      <4> QED
        BY <4>1
    <3> HIDE DEF f, mean
    <3> QED
      BY <1>2, <1>5, <3>5, <3>6, MeanIs
  <2> DEFINE hi == Most(levels)
             lo == Least(levels)
             x == ((1000 - 250 * (hi - lo)) + (1000 - Apart(mean, 1000 * target) \div 4)) \div 2
  <2>2. FormalityCoherence(outfit, target) = Sub(Cut(x), TRUE)
    BY <1>5, SMT DEF FormalityCoherence, Sub, Alike, Mean, Total, Cut, Apart
  <2>3. hi \in Int /\ lo \in Int
    BY <1>2, <1>5
  <2> HIDE DEF hi, lo, mean
  <2>4. x \in Int
    <3> DEFINE d == Apart(mean, 1000 * target)
               a == (1000 - 250 * (hi - lo)) + (1000 - d \div 4)
    <3>1. d \in Int
      BY <2>1 DEF Apart
    <3> HIDE DEF d
    <3>2. d \div 4 \in Int
      BY <3>1
    <3>3. a \in Int
      BY <2>3, <3>2
    <3> HIDE DEF a
    <3>4. a \div 2 \in Int
      BY <3>3
    <3> QED
      BY <3>4 DEF a, d
  <2> HIDE DEF x
  <2>5. FormalityCoherence(outfit, target).value = Cut(x)
    BY <2>2 DEF Sub
  <2> QED
    BY <2>4, <2>5, CutIs, Zenon
<1> QED
  BY <1>3, <1>4, <1>5

LEMMA WeatherIsAShare ==
  ASSUME NEW outfit \in SUBSET Pieces, IsFiniteSet(outfit), NEW target \in Int
  PROVE  WeatherFit(outfit, target).value \in Share
<1> DEFINE levels == Levels(outfit, Warmth)
           off == Apart(Most(levels), target)
<1>1. Warmth \in [Pieces -> Int \cup {Unset}]
  BY PoolAssumption
<1>2. levels # {} => Most(levels) \in Int
  BY <1>1, LevelsAre
<1>3. CASE levels = {}
  BY <1>3 DEF WeatherFit, Sub, Share
<1>4. CASE levels # {}
  <2>1. off \in Int
    <3> DEFINE y == Most(levels)
    <3>1. y \in Int
      BY <1>2, <1>4
    <3> HIDE DEF y
    <3>2. Apart(y, target) \in Int
      BY <3>1 DEF Apart
    <3> QED
      BY <3>2 DEF y
  <2>2. WeatherFit(outfit, target).value
          \in {Cut(1000 - 250 * off), 1000, Cut(1000 - 250 * (off - 1))}
    BY <1>4, SMT DEF WeatherFit, Alike, Sub
  <2> HIDE DEF off
  <2> DEFINE full == 1000
             x == 1000 - 250 * off
             y == 1000 - 250 * (off - 1)
  <2>3. x \in Int /\ y \in Int /\ full \in Share
    BY <2>1 DEF Share
  <2>4. WeatherFit(outfit, target).value \in {Cut(x), full, Cut(y)}
    BY <2>2
  <2> HIDE DEF x, y, full
  <2>5. Cut(x) \in Share /\ Cut(y) \in Share
    BY <2>3, CutIs, Zenon
  <2> QED
    BY <2>3, <2>4, <2>5, Zenon
<1> QED
  BY <1>3, <1>4

\* The mean of a table over an outfit, as the mean of a function.
LEMMA OutfitMeans ==
  ASSUME NEW outfit \in SUBSET Pieces, IsFiniteSet(outfit), outfit # {},
         NEW f \in [Pieces -> Int]
  PROVE  Mean(outfit, LAMBDA g : f[g]) \in Int
<1> DEFINE h == [g \in outfit |-> f[g]]
           list == SetToSeq(outfit)
           n == Cardinality(outfit)
<1>1. list \in [1..n -> outfit]
  BY SetToSeqLists DEF Bijection, Injection
<1>2. Mean(outfit, LAMBDA g : f[g]) = SumTo([k \in 1..n |-> f[list[k]]], n) \div n
  BY DEF Mean, Total
<1>3. MeanOf(outfit, h) = SumTo([k \in 1..n |-> h[list[k]]], n) \div n
  BY DEF MeanOf, TotalOf
<1> HIDE DEF list, n
<1>4. [k \in 1..n |-> h[list[k]]] = [k \in 1..n |-> f[list[k]]]
  BY <1>1
<1>5. h \in [outfit -> Int]
  OBVIOUS
<1> HIDE DEF h
<1>6. MeanOf(outfit, h) \in Int
  BY <1>5, MeanIs
<1> QED
  BY <1>2, <1>3, <1>4, <1>6

Recency(g) == IF Worn[g] = Unset THEN 1000 ELSE Cut((1000 * Worn[g]) \div 14)
Strength(trends, g) == IF Kind[g] \in DOMAIN trends THEN trends[Kind[g]] ELSE 0

LEMMA NoveltyIsAShare ==
  ASSUME NEW outfit \in SUBSET Pieces, IsFiniteSet(outfit), outfit # {}
  PROVE  Novelty(outfit).value \in Share
<1> DEFINE list == SetToSeq(outfit)
           n == Cardinality(outfit)
           recent == [g \in Pieces |-> Recency(g)]
           damped == [g \in Pieces |-> Damped[WearCount[g]]]
           a == SumTo([k \in 1..n |-> Recency(list[k])], n) \div n
           b == SumTo([k \in 1..n |-> Damped[WearCount[list[k]]]], n) \div n
           x == (600 * a + 400 * b) \div 1000
<1>1. list \in [1..n -> outfit] /\ \A k \in 1..n : list[k] \in Pieces
  BY SetToSeqLists DEF Bijection, Injection
<1>2. Novelty(outfit).value = Cut(x)
  BY SMT DEF Novelty, Sub, Mean, Total, Recency
<1>3. recent \in [Pieces -> Int] /\ damped \in [Pieces -> Int]
  <2>1. \A g \in Pieces : Recency(g) \in Int
    <3> TAKE g \in Pieces
    <3>1. CASE Worn[g] = Unset
      BY <3>1 DEF Recency
    <3>2. CASE Worn[g] # Unset
      <4> DEFINE y == (1000 * Worn[g]) \div 14
      <4>1. y \in Int
        BY <3>2, ScoringAssumption
      <4>2. Recency(g) = Cut(y)
        BY <3>2 DEF Recency
      <4> HIDE DEF y
      <4> QED
        BY <4>1, <4>2, CutIs, ShareIs, Zenon
    <3> QED
      BY <3>1, <3>2
  <2>2. \A g \in Pieces : Damped[WearCount[g]] \in Int
    <3> TAKE g \in Pieces
    <3>1. Damped[WearCount[g]] \in Share
      BY ScoringAssumption, SMTT(30) DEF Share
    <3> QED
      BY <3>1, ShareIs, Zenon
  <2> QED
    BY <2>1, <2>2
<1>4. a \in Int
  <2>1. Mean(outfit, LAMBDA g : recent[g]) \in Int
    <3> HIDE DEF recent
    <3> QED
      BY <1>3, OutfitMeans
  <2>2. Mean(outfit, LAMBDA g : recent[g]) = SumTo([k \in 1..n |-> recent[list[k]]], n) \div n
    BY DEF Mean, Total
  <2>3. [k \in 1..n |-> recent[list[k]]] = [k \in 1..n |-> Recency(list[k])]
    <3> HIDE DEF n, list
    <3> QED
      BY <1>1
  <2> HIDE DEF recent
  <2> QED
    BY <2>1, <2>2, <2>3
<1>5. b \in Int
  <2>1. Mean(outfit, LAMBDA g : damped[g]) \in Int
    <3> HIDE DEF damped
    <3> QED
      BY <1>3, OutfitMeans
  <2>2. Mean(outfit, LAMBDA g : damped[g]) = SumTo([k \in 1..n |-> damped[list[k]]], n) \div n
    BY DEF Mean, Total
  <2>3. [k \in 1..n |-> damped[list[k]]] = [k \in 1..n |-> Damped[WearCount[list[k]]]]
    <3> HIDE DEF n, list
    <3> QED
      BY <1>1
  <2> HIDE DEF damped
  <2> QED
    BY <2>1, <2>2, <2>3
<1>6. x \in Int
  <2> HIDE DEF a, b
  <2> QED
    BY <1>4, <1>5
<1> HIDE DEF x
<1> QED
  BY <1>2, <1>6, CutIs, Zenon

Shares(trends) == \A kind \in DOMAIN trends : trends[kind] \in Share

LEMMA TrendIsAShare ==
  ASSUME NEW outfit \in SUBSET Pieces, IsFiniteSet(outfit), outfit # {},
         NEW trends, Shares(trends)
  PROVE  /\ TrendAlignment(outfit, trends).value \in Share
         /\ {Kind[g] : g \in outfit} \cap DOMAIN trends = {} =>
              TrendAlignment(outfit, trends).value = TrendAlignment(outfit, <<>>).value
<1> DEFINE list == SetToSeq(outfit)
           n == Cardinality(outfit)
           strong == [g \in Pieces |-> Strength(trends, g)]
           x == SumTo([k \in 1..n |-> Strength(trends, list[k])], n) \div n
           x0 == SumTo([k \in 1..n |-> Strength(<<>>, list[k])], n) \div n
<1>1. list \in [1..n -> outfit] /\ \A k \in 1..n : list[k] \in Pieces
  BY SetToSeqLists DEF Bijection, Injection
<1>2. TrendAlignment(outfit, trends).value = Cut(x)
  BY SMT DEF TrendAlignment, Sub, Mean, Total, Strength
<1>3. TrendAlignment(outfit, <<>>).value = Cut(x0)
  BY SMT DEF TrendAlignment, Sub, Mean, Total, Strength
<1>4. strong \in [Pieces -> Int]
  <2>1. \A g \in Pieces : Strength(trends, g) \in Int
    BY DEF Strength, Shares, Share
  <2> QED
    BY <2>1
<1>5. x \in Int
  <2>1. Mean(outfit, LAMBDA g : strong[g]) \in Int
    <3> HIDE DEF strong
    <3> QED
      BY <1>4, OutfitMeans
  <2>2. Mean(outfit, LAMBDA g : strong[g]) = SumTo([k \in 1..n |-> strong[list[k]]], n) \div n
    BY DEF Mean, Total
  <2>3. [k \in 1..n |-> strong[list[k]]] = [k \in 1..n |-> Strength(trends, list[k])]
    <3> HIDE DEF n, list
    <3> QED
      BY <1>1
  <2> HIDE DEF strong
  <2> QED
    BY <2>1, <2>2, <2>3
<1>6. ASSUME {Kind[g] : g \in outfit} \cap DOMAIN trends = {} PROVE x = x0
  <2>1. \A g \in outfit : Strength(trends, g) = 0 /\ Strength(<<>>, g) = 0
    BY <1>6 DEF Strength
  <2> HIDE DEF n, list
  <2>2. \A k \in 1..n : Strength(trends, list[k]) = Strength(<<>>, list[k])
    BY <1>1, <2>1
  <2>3. [k \in 1..n |-> Strength(trends, list[k])] = [k \in 1..n |-> Strength(<<>>, list[k])]
    BY <2>2
  <2> QED
    BY <2>3
<1>7. Cut(x) \in Share
  <2> HIDE DEF x
  <2> QED
    BY <1>5, CutIs, Zenon
<1> HIDE DEF x, x0
<1> QED
  BY <1>2, <1>3, <1>6, <1>7

Fond(taste) == taste.events \in Nat /\ taste.cosine \in Int /\ taste.cosine <= 1000

LEMMA StyleIsAShare ==
  ASSUME NEW taste, Fond(taste)
  PROVE  /\ StyleAffinity(taste).value \in Share
         /\ taste.events < 10 \/ taste.cosine < 0 =>
              StyleAffinity(taste).value = StyleAffinity([cosine |-> 0, events |-> 0]).value
BY SMTT(40) DEF StyleAffinity, Sub, Fond, Share

Remainders == 341..1000

LEMMA PenaltyIs == ASSUME NEW outfit PROVE HardPenalty(outfit) \in Remainders
<1> DEFINE a == Left(outfit, "hues", 75)
           b == Left(outfit, "bold", 70)
           c == Left(outfit, "spread", 65)
<1>1. a \in {75, 100} /\ b \in {70, 100} /\ c \in {65, 100}
  BY DEF Left
<1>2. HardPenalty(outfit) = (a * b * c) \div 1000
  BY DEF HardPenalty
<1> HIDE DEF a, b, c
<1>3. a * b * c \in {341250, 525000, 487500, 750000, 455000, 700000, 650000, 1000000}
  BY <1>1
<1> DEFINE p == a * b * c
<1>4. p \in Int /\ p >= 341250 /\ p <= 1000000
  BY <1>3
<1> HIDE DEF p
<1>5. p \div 1000 \in Int /\ p \div 1000 >= 341 /\ p \div 1000 <= 1000
  BY <1>4
<1> QED
  BY <1>2, <1>5 DEF p, Remainders

Weighted(v) == [i \in 1..6 |-> Weights[i] * v[i]]

\* Values that are shares, the first not the least.
Fair(v) == (\A i \in 1..6 : v[i] \in Share) /\ v[1] >= 300

Scaled(x) == x \in Int /\ 9000 <= x /\ x <= Whole

LEMMA WeightedIs ==
  ASSUME NEW v, Fair(v)
  PROVE  Scaled(SumTo(Weighted(v), 6))
<1> DEFINE w == Weighted(v)
           low == 0
           high == 1000
<1>1. \A i \in 1..6 : v[i] \in Int /\ 0 <= v[i] /\ v[i] <= 1000
  <2>1. (\A i \in 1..6 : v[i] \in low..high) /\ low \in Int /\ high \in Int
    <3>1. low \in Int /\ high \in Int
      OBVIOUS
    <3>2. Share = low..high
      BY DEF Share
    <3> HIDE DEF low, high
    <3> QED
      BY <3>1, <3>2, Zenon DEF Fair
  <2> HIDE DEF low, high
  <2>2. \A i \in 1..6 : v[i] \in Int /\ low <= v[i] /\ v[i] <= high
    BY <2>1
  <2> QED
    BY <2>2 DEF low, high
<1>2. /\ w[1] = 30 * v[1] /\ w[2] = 20 * v[2] /\ w[3] = 15 * v[3]
      /\ w[4] = 20 * v[4] /\ w[5] = 10 * v[5] /\ w[6] = 5 * v[6]
  BY DEF Weighted, Weights
<1>3. w \in [1..6 -> Int]
  <2>1. \A i \in 1..6 : Weights[i] \in Int
    BY DEF Weights
  <2>2. \A i \in 1..6 : Weights[i] * v[i] \in Int
    BY <1>1, <2>1
  <2> QED
    BY <2>2 DEF Weighted
<1> HIDE DEF w
<1>4. SumTo(w, 6) = w[1] + w[2] + w[3] + w[4] + w[5] + w[6]
  BY <1>3, SumOfSix
<1>5. 1 \in 1..6 /\ 2 \in 1..6 /\ 3 \in 1..6 /\ 4 \in 1..6 /\ 5 \in 1..6 /\ 6 \in 1..6
  OBVIOUS
<1>6. /\ v[1] \in Int /\ 300 <= v[1] /\ v[1] <= 1000
      /\ v[2] \in Int /\ 0 <= v[2] /\ v[2] <= 1000
      /\ v[3] \in Int /\ 0 <= v[3] /\ v[3] <= 1000
      /\ v[4] \in Int /\ 0 <= v[4] /\ v[4] <= 1000
      /\ v[5] \in Int /\ 0 <= v[5] /\ v[5] <= 1000
      /\ v[6] \in Int /\ 0 <= v[6] /\ v[6] <= 1000
  BY <1>1, <1>5 DEF Fair
<1>7. SumTo(w, 6) = 30 * v[1] + 20 * v[2] + 15 * v[3] + 20 * v[4] + 10 * v[5] + 5 * v[6]
  BY <1>2, <1>4
<1> DEFINE a == 30 * v[1]
           b == 20 * v[2]
           c == 15 * v[3]
           d == 20 * v[4]
           e == 10 * v[5]
           f == 5 * v[6]
<1>8. /\ a \in Int /\ 9000 <= a /\ a <= 30000 /\ b \in Int /\ 0 <= b /\ b <= 20000
      /\ c \in Int /\ 0 <= c /\ c <= 15000 /\ d \in Int /\ 0 <= d /\ d <= 20000
      /\ e \in Int /\ 0 <= e /\ e <= 10000 /\ f \in Int /\ 0 <= f /\ f <= 5000
  <2>1. a \in Int /\ 9000 <= a /\ a <= 30000 /\ b \in Int /\ 0 <= b /\ b <= 20000
    BY <1>6
  <2>2. c \in Int /\ 0 <= c /\ c <= 15000 /\ d \in Int /\ 0 <= d /\ d <= 20000
    BY <1>6
  <2>3. e \in Int /\ 0 <= e /\ e <= 10000 /\ f \in Int /\ 0 <= f /\ f <= 5000
    BY <1>6
  <2> QED
    BY <2>1, <2>2, <2>3
<1>9. SumTo(w, 6) = a + b + c + d + e + f
  BY <1>7
<1> HIDE DEF a, b, c, d, e, f
<1>10. SumTo(w, 6) \in Int /\ 9000 <= SumTo(w, 6) /\ SumTo(w, 6) <= 100000
  BY <1>8, <1>9
<1> QED
  BY <1>10 DEF w, Whole, Scaled

Thousandths(x) == x \div 1000

\* The product of a weighted sum and a penalty.
LEMMA ProductIs ==
  ASSUME NEW weighted, Scaled(weighted), NEW penalty \in Remainders
  PROVE  /\ Thousandths(weighted * penalty) \in Int
         /\ 1 <= Thousandths(weighted * penalty) /\ Thousandths(weighted * penalty) <= Whole
<1> DEFINE p == weighted * penalty
<1>1. p \in Int /\ p >= 1000 /\ p <= 100000000
  <2>0. penalty \in Int /\ 341 <= penalty /\ penalty <= 1000
    <3> DEFINE low == 341
               high == 1000
    <3>1. penalty \in low..high /\ low \in Int /\ high \in Int
      BY DEF Remainders
    <3> HIDE DEF low, high
    <3>2. penalty \in Int /\ low <= penalty /\ penalty <= high
      BY <3>1
    <3> QED
      BY <3>2 DEF low, high
  <2>1. weighted * penalty <= weighted * 1000 /\ weighted * penalty >= weighted * 341
    <3> HIDE DEF p
    <3> QED
      BY <2>0 DEF Scaled
  <2>2. weighted * penalty \in Int
    BY <2>0 DEF Scaled
  <2>3. weighted * 1000 <= 100000000 /\ weighted * 341 >= 1000
    BY DEF Whole, Scaled
  <2> HIDE DEF p
  <2>4. p = weighted * penalty
    BY DEF p
  <2> DEFINE most == weighted * 1000
             least == weighted * 341
  <2>0a. weighted \in Int
    BY DEF Scaled
  <2>5. most \in Int /\ least \in Int /\ most <= 100000000 /\ least >= 1000 /\ p <= most /\ p >= least /\ p \in Int
    BY <2>0a, <2>1, <2>2, <2>3, <2>4
  <2> HIDE DEF most, least
  <2> QED
    BY <2>5
<1> HIDE DEF p
<1>2. p \div 1000 \in Int /\ p \div 1000 >= 1 /\ p \div 1000 <= 100000
  BY <1>1
<1> QED
  BY <1>2 DEF p, Whole, Thousandths

Subs(outfit, day, taste, trends) ==
  <<ColourHarmony(outfit), FormalityCoherence(outfit, day.formality),
    WeatherFit(outfit, day.warmth), StyleAffinity(taste), Novelty(outfit),
    TrendAlignment(outfit, trends)>>

Values(outfit, day, taste, trends) ==
  [i \in 1..6 |-> Subs(outfit, day, taste, trends)[i].value]

Informing(subs) == [i \in 1..6 |-> IF subs[i].informative THEN Weights[i] ELSE 0]

Tally(outfit, v) ==
  IF Legal(outfit) THEN Thousandths(SumTo(Weighted(v), 6) * HardPenalty(outfit)) ELSE 0

\* A score is what its six values make it.
LEMMA ScoreIs ==
  ASSUME NEW outfit, NEW day, NEW taste, NEW trends
  PROVE  /\ ScoreOutfit(outfit, day, taste, trends).subs = Subs(outfit, day, taste, trends)
         /\ ScoreOutfit(outfit, day, taste, trends).total =
              Tally(outfit, Values(outfit, day, taste, trends))
         /\ ScoreOutfit(outfit, day, taste, trends).informative =
              SumTo(Informing(Subs(outfit, day, taste, trends)), 6)
<1> DEFINE subs == Subs(outfit, day, taste, trends)
           v == Values(outfit, day, taste, trends)
           total == IF Legal(outfit)
                    THEN (SumTo([i \in 1..6 |-> Weights[i] * subs[i].value], 6) * HardPenalty(outfit)) \div 1000
                    ELSE 0
           informative == SumTo(Informing(subs), 6)
<1>1. ScoreOutfit(outfit, day, taste, trends) = [subs |-> subs, total |-> total, informative |-> informative]
  BY Zenon DEF ScoreOutfit, Subs, Informing
<1>2. [i \in 1..6 |-> Weights[i] * subs[i].value] = Weighted(v)
  <2> DEFINE val(i) == subs[i].value
  <2>1. \A i \in 1..6 : v[i] = val(i)
    BY DEF Values
  <2> HIDE DEF val, v
  <2>2. [i \in 1..6 |-> Weights[i] * val(i)] = Weighted(v)
    BY <2>1 DEF Weighted
  <2> QED
    BY <2>2 DEF val
<1>3. total = Tally(outfit, v)
  <2> HIDE DEF v, subs
  <2> QED
    BY <1>2 DEF Tally, Thousandths
<1> HIDE DEF subs, v, total, informative
<1>4. LET score == ScoreOutfit(outfit, day, taste, trends)
      IN  score.subs = subs /\ score.total = total /\ score.informative = informative
  BY <1>1
<1> QED
  BY <1>3, <1>4 DEF subs, v, informative

LEMMA InformativeIsAShare ==
  ASSUME NEW subs PROVE SumTo(Informing(subs), 6) \in 0..100
<1> DEFINE w == Informing(subs)
<1>0. (\A i \in 1..6 : w[i] \in {Weights[i], 0}) /\ w = [i \in 1..6 |-> w[i]]
  BY DEF Informing
<1> HIDE DEF w
<1>1. /\ w[1] \in {30, 0} /\ w[2] \in {20, 0} /\ w[3] \in {15, 0}
      /\ w[4] \in {20, 0} /\ w[5] \in {10, 0} /\ w[6] \in {5, 0}
  BY <1>0 DEF Weights
<1>2. w \in [1..6 -> Int]
  <2>1. \A i \in 1..6 : Weights[i] \in Int
    BY DEF Weights
  <2> QED
    BY <1>0, <2>1
<1>3. SumTo(w, 6) = w[1] + w[2] + w[3] + w[4] + w[5] + w[6]
  BY <1>2, SumOfSix
<1> QED
  BY <1>1, <1>3 DEF w

LEMMA EveryPartIsAShare ==
  ASSUME NEW outfit \in SUBSET Pieces, IsFiniteSet(outfit), outfit # {},
         NEW day, day.formality \in Int, day.warmth \in Int,
         NEW taste, Fond(taste),
         NEW trends, Shares(trends)
  PROVE  Fair(Values(outfit, day, taste, trends))
<1> DEFINE v == Values(outfit, day, taste, trends)
<1>1. /\ v[1] = ColourHarmony(outfit).value
      /\ v[2] = FormalityCoherence(outfit, day.formality).value
      /\ v[3] = WeatherFit(outfit, day.warmth).value
      /\ v[4] = StyleAffinity(taste).value
      /\ v[5] = Novelty(outfit).value
      /\ v[6] = TrendAlignment(outfit, trends).value
  <2>1. /\ v[1] = Subs(outfit, day, taste, trends)[1].value
        /\ v[2] = Subs(outfit, day, taste, trends)[2].value
        /\ v[3] = Subs(outfit, day, taste, trends)[3].value
        /\ v[4] = Subs(outfit, day, taste, trends)[4].value
        /\ v[5] = Subs(outfit, day, taste, trends)[5].value
        /\ v[6] = Subs(outfit, day, taste, trends)[6].value
    BY DEF Values
  <2> HIDE DEF v
  <2> QED
    BY <2>1 DEF Subs
<1> HIDE DEF v
<1>2. v[1] \in Share /\ v[1] >= 300
  <2>1. v[1] \in Harmony
    BY <1>1, ColourIsAShare, Zenon
  <2> QED
    BY <2>1 DEF Share, Harmony
<1>3. v[2] \in Share
  <2> DEFINE target == day.formality
  <2>1. target \in Int
    OBVIOUS
  <2> HIDE DEF target
  <2>2. FormalityCoherence(outfit, target).value \in Share
    BY <2>1, FormalityIsAShare, Zenon
  <2>3. v[2] = FormalityCoherence(outfit, target).value
    BY <1>1 DEF target
  <2> QED
    BY <2>2, <2>3, Zenon
<1>4. v[3] \in Share
  <2> DEFINE target == day.warmth
  <2>1. target \in Int
    OBVIOUS
  <2> HIDE DEF target
  <2>2. WeatherFit(outfit, target).value \in Share
    BY <2>1, WeatherIsAShare, Zenon
  <2>3. v[3] = WeatherFit(outfit, target).value
    BY <1>1 DEF target
  <2> QED
    BY <2>2, <2>3, Zenon
<1>5. v[4] \in Share
  BY <1>1, StyleIsAShare, Zenon
<1>6. v[5] \in Share
  BY <1>1, NoveltyIsAShare, Zenon
<1>7. v[6] \in Share
  BY <1>1, TrendIsAShare, Zenon
<1>8. \A i \in 1..6 : v[i] \in Share
  BY <1>2, <1>3, <1>4, <1>5, <1>6, <1>7
<1> QED
  BY <1>2, <1>8 DEF v, Fair

Worth(outfit, v) ==
  /\ Tally(outfit, v) \in Int /\ 0 <= Tally(outfit, v) /\ Tally(outfit, v) <= Whole
  /\ Legal(outfit) <=> Tally(outfit, v) > 0

LEMMA TallyIs ==
  ASSUME NEW outfit, NEW v, Fair(v)
  PROVE  Worth(outfit, v)
<1> DEFINE weighted == SumTo(Weighted(v), 6)
           penalty == HardPenalty(outfit)
           t == Thousandths(weighted * penalty)
<1>1. Scaled(weighted)
  BY WeightedIs, Zenon
<1>2. penalty \in Remainders
  BY PenaltyIs
<1> HIDE DEF weighted, penalty
<1>3. t \in Int /\ 1 <= t /\ t <= Whole
  BY <1>1, <1>2, ProductIs, Zenon
<1>4. Tally(outfit, v) = IF Legal(outfit) THEN t ELSE 0
  BY Zenon DEF Tally, weighted, penalty
<1> HIDE DEF t
<1>5. CASE Legal(outfit)
  <2>1. Tally(outfit, v) = t
    BY <1>4, <1>5, Zenon
  <2> QED
    BY <2>1, <1>3, <1>5 DEF Worth
<1>6. CASE ~Legal(outfit)
  <2>1. Tally(outfit, v) = 0
    BY <1>4, <1>6, Zenon
  <2> QED
    BY <2>1, <1>6 DEF Worth, Whole
<1> QED
  BY <1>5, <1>6

\* The values of two scores that differ at most in what they have in common.
LEMMA SameValues ==
  ASSUME NEW outfit, NEW day, NEW taste, NEW trends, NEW other, NEW season,
         StyleAffinity(taste).value = StyleAffinity(other).value,
         TrendAlignment(outfit, trends).value = TrendAlignment(outfit, season).value
  PROVE  Values(outfit, day, taste, trends) = Values(outfit, day, other, season)
<1> DEFINE s == Subs(outfit, day, taste, trends)
           t == Subs(outfit, day, other, season)
<1>1. /\ s[1] = t[1] /\ s[2] = t[2] /\ s[3] = t[3] /\ s[5] = t[5]
      /\ s[4] = StyleAffinity(taste) /\ t[4] = StyleAffinity(other)
      /\ s[6] = TrendAlignment(outfit, trends) /\ t[6] = TrendAlignment(outfit, season)
  BY DEF Subs
<1> HIDE DEF s, t
<1>2. \A i \in 1..6 : s[i].value = t[i].value
  BY <1>1
<1>3. [i \in 1..6 |-> s[i].value] = [i \in 1..6 |-> t[i].value]
  BY <1>2
<1> QED
  BY <1>3, Zenon DEF Values, s, t

LEMMA SameTaste ==
  ASSUME NEW outfit, NEW day, NEW taste, NEW trends, NEW other,
         StyleAffinity(taste).value = StyleAffinity(other).value
  PROVE  Values(outfit, day, taste, trends) = Values(outfit, day, other, trends)
<1>1. TrendAlignment(outfit, trends).value = TrendAlignment(outfit, trends).value
  OBVIOUS
<1> QED
  BY <1>1, SameValues

LEMMA SameSeason ==
  ASSUME NEW outfit, NEW day, NEW taste, NEW trends, NEW season,
         TrendAlignment(outfit, trends).value = TrendAlignment(outfit, season).value
  PROVE  Values(outfit, day, taste, trends) = Values(outfit, day, taste, season)
<1>1. StyleAffinity(taste).value = StyleAffinity(taste).value
  OBVIOUS
<1> QED
  BY <1>1, SameValues

LEMMA EveryScoreIsAShare ==
  ASSUME NEW outfit \in SUBSET Pieces, IsFiniteSet(outfit), outfit # {},
         NEW day, day.formality \in Int, day.warmth \in Int,
         NEW taste, Fond(taste),
         NEW trends, Shares(trends)
  PROVE  ScoreIsAShare(outfit, day, taste, trends, ScoreOutfit(outfit, day, taste, trends))
<1> DEFINE score == ScoreOutfit(outfit, day, taste, trends)
           v == Values(outfit, day, taste, trends)
           subs == Subs(outfit, day, taste, trends)
           none == [cosine |-> 0, events |-> 0]
           w == Informing(subs)
<1>1. Fair(v)
  BY EveryPartIsAShare, Zenon
<1>2. score.subs = subs /\ score.total = Tally(outfit, v) /\ score.informative = SumTo(w, 6)
  BY ScoreIs, Zenon
<1>3. Worth(outfit, v)
  <2> HIDE DEF v
  <2> QED
    BY <1>1, TallyIs, Zenon
<1>4. DOMAIN subs = 1..6 /\ \A i \in 1..6 : v[i] = subs[i].value
  <2>1. DOMAIN subs = 1..6
    BY DEF Subs
  <2>2. \A i \in 1..6 : v[i] = subs[i].value
    BY Zenon DEF Values
  <2> QED
    BY <2>1, <2>2
<1>5. SumTo(w, 6) \in 0..100
  BY InformativeIsAShare, Zenon
<1>6. taste.events < 10 \/ taste.cosine < 0 =>
        score.total = ScoreOutfit(outfit, day, none, trends).total
  <2> SUFFICES ASSUME taste.events < 10 \/ taste.cosine < 0
               PROVE  score.total = ScoreOutfit(outfit, day, none, trends).total
    OBVIOUS
  <2>1. StyleAffinity(taste).value = StyleAffinity(none).value
    BY StyleIsAShare
  <2> HIDE DEF none
  <2>2. v = Values(outfit, day, none, trends)
    BY <2>1, SameTaste, Zenon
  <2>3. ScoreOutfit(outfit, day, none, trends).total = Tally(outfit, Values(outfit, day, none, trends))
    BY ScoreIs, Zenon
  <2> HIDE DEF v, score
  <2> QED
    BY <1>2, <2>2, <2>3
<1>7. {Kind[g] : g \in outfit} \cap DOMAIN trends = {} =>
        score.total = ScoreOutfit(outfit, day, taste, <<>>).total
  <2> SUFFICES ASSUME {Kind[g] : g \in outfit} \cap DOMAIN trends = {}
               PROVE  score.total = ScoreOutfit(outfit, day, taste, <<>>).total
    OBVIOUS
  <2>1. TrendAlignment(outfit, trends).value = TrendAlignment(outfit, <<>>).value
    BY TrendIsAShare
  <2>2. v = Values(outfit, day, taste, <<>>)
    BY <2>1, SameSeason, Zenon
  <2>3. ScoreOutfit(outfit, day, taste, <<>>).total = Tally(outfit, Values(outfit, day, taste, <<>>))
    BY ScoreIs, Zenon
  <2> HIDE DEF v, score
  <2> QED
    BY <1>2, <2>2, <2>3
<1> HIDE DEF score, v, subs, none, w
<1>8. \A i \in DOMAIN score.subs : score.subs[i].value \in Share
  BY <1>1, <1>2, <1>4, Zenon DEF Fair
<1>9. 0 <= score.total /\ score.total <= Whole /\ (Legal(outfit) <=> score.total > 0)
  BY <1>2, <1>3 DEF Worth
<1>10. score.informative \in 0..100
  BY <1>2, <1>5, Zenon
<1> QED
  BY <1>6, <1>7, <1>8, <1>9, <1>10, Zenon DEF ScoreIsAShare, score, none

LEMMA PureInvScores ==
  PureInv /\ Answered("score") =>
    ScoreIsAShare(ask.of[1], DayOf(ask.of[2]), ask.of[3], ask.of[4], answer)
<1> SUFFICES ASSUME PureInv, Answered("score")
             PROVE  ScoreIsAShare(ask.of[1], DayOf(ask.of[2]), ask.of[3], ask.of[4], answer)
  OBVIOUS
<1> DEFINE outfit == ask.of[1]
           day == DayOf(ask.of[2])
           taste == ask.of[3]
           trends == ask.of[4]
<1>1. /\ outfit \in Outfits /\ ask.of[2] \in {1, 3} /\ taste \in Tastes /\ trends \in Trends
      /\ answer = ScoreOutfit(outfit, day, taste, trends)
  BY DEF PureInv, Answered, AskedOfScore
<1>2. outfit \in SUBSET Pieces /\ IsFiniteSet(outfit) /\ outfit # {}
  <2>1. outfit \in SUBSET Wardrobe /\ Cardinality(outfit) \in 1..4
    BY <1>1 DEF Outfits
  <2> HIDE DEF outfit
  <2>2. Cardinality({}) = 0
    BY FS_EmptySet
  <2>3. IsFiniteSet(outfit)
    BY <2>1, AskedAssumption, FS_Subset
  <2>4. outfit # {}
    BY <2>1, <2>2
  <2>5. Wardrobe \subseteq Pieces
    BY AskedAssumption
  <2> QED
    BY <2>1, <2>3, <2>4, <2>5
<1>3. day.formality \in Int /\ day.warmth \in Int
  BY <1>1 DEF DayOf, Day0
<1>4. Fond(taste)
  BY <1>1, AskedAssumption DEF Fond
<1>5. Shares(trends)
  <2>1. \A t \in Trends : \A kind \in DOMAIN t : t[kind] \in Share
    BY AskedAssumption
  <2> HIDE DEF trends
  <2> QED
    BY <1>1, <2>1 DEF Shares
<1> HIDE DEF outfit, day, taste, trends
<1>6. ScoreIsAShare(outfit, day, taste, trends, ScoreOutfit(outfit, day, taste, trends))
  BY <1>2, <1>3, <1>4, <1>5, EveryScoreIsAShare, Zenon
<1>7. ScoreIsAShare(outfit, day, taste, trends, answer)
  BY <1>1, <1>6, Zenon
<1> QED
  BY <1>7, Zenon DEF outfit, day, taste, trends

(* From the score to the screen, for any number of callers and outfits: the score *)
(* is a share that a broken rule voids (scoring.py), no outfit is lost or passed   *)
(* over, none is listed twice but one the accepted answer named twice, and no     *)
(* caption is shown that was not checked (rerank.py, bandit.py).  It does not say *)
(* where the unsure ones stand (DemotedFallBelow, which is false).                *)
THEOREM RankingIsSound == Spec => []RankingSound
<1>1. Init => RankingInv
  BY RankingStarts DEF Init
<1>2. RankingInv /\ [Next]_vars => RankingInv'
  <2>1. [Next]_vars => [RankingNext]_rankingVars
    BY DEF Next, vars, AnswerAsk
  <2> QED
    BY <2>1, RankingStaysSound
<1>3. Spec => [](RankingInv /\ PureInv)
  BY <1>1, <1>2, PureInitInv, PureStep, PTL DEF Spec
<1>4. RankingInv /\ PureInv => RankingSound
  BY RankingInvChecks, PureInvScores DEF RankingSound
<1> QED
  BY <1>3, <1>4, PTL

--------------------------------------------------------------------------------
(* Splitting: the masks of a photo and its garments. *)
\* Things with a size, in a list.
Sized(list) == \E n \in Nat : DOMAIN list = 1..n /\ \A i \in 1..n : list[i].area \in Int

Bigger(list, i, j) ==
  list[i].area > list[j].area \/ (list[i].area = list[j].area /\ i < j)

LEMMA BySizeIs ==
  ASSUME NEW list, Sized(list), NEW S \in SUBSET DOMAIN list
  PROVE  /\ IsFiniteSet(S) /\ Cardinality(S) \in Nat
         /\ BySize(S, Areas(list)) \in Bijection(1..Cardinality(S), S)
         /\ \A k, l \in 1..Cardinality(S) :
              k < l <=> Bigger(list, BySize(S, Areas(list))[k], BySize(S, Areas(list))[l])
<1> DEFINE area == Areas(list)
           before == {p \in S \X S : \/ area[p[1]] > area[p[2]]
                                     \/ area[p[1]] = area[p[2]] /\ p[1] < p[2]}
<1>1. PICK n \in Nat : DOMAIN list = 1..n /\ \A i \in 1..n : list[i].area \in Int
  BY DEF Sized
<1>2. IsFiniteSet(S) /\ Cardinality(S) \in Nat /\ S \in SUBSET Int
  <2> DEFINE N == 1..n
  <2>1. IsFiniteSet(N) /\ N \in SUBSET Int
    BY FS_Interval
  <2>2. S \in SUBSET N
    BY <1>1
  <2> HIDE DEF N
  <2> QED
    BY <2>1, <2>2, FS_Subset, FS_CardinalityType
<1>3. \A i \in S : area[i] = list[i].area /\ list[i].area \in Int
  BY <1>1 DEF Areas
<1>4. \A i, j \in S : <<i, j>> \in before <=> Bigger(list, i, j)
  BY <1>3 DEF Bigger
<1>5. BySize(S, area) = Ordered(S, before)
  BY DEF BySize
<1> HIDE DEF before, area
<1>6. StrictOrder(S, before)
  <2>1. \A i \in S : ~Bigger(list, i, i)
    BY <1>2, <1>3 DEF Bigger
  <2>2. \A i, j, k \in S : Bigger(list, i, j) /\ Bigger(list, j, k) => Bigger(list, i, k)
    BY <1>2, <1>3 DEF Bigger
  <2>3. \A i, j \in S : i # j => Bigger(list, i, j) \/ Bigger(list, j, i)
    BY <1>2, <1>3 DEF Bigger
  <2> QED
    BY <1>4, <2>1, <2>2, <2>3 DEF StrictOrder
<1>7. /\ Ordered(S, before) \in Bijection(1..Cardinality(S), S)
      /\ \A k, l \in 1..Cardinality(S) :
           k < l <=> <<Ordered(S, before)[k], Ordered(S, before)[l]>> \in before
  BY <1>2, <1>6, OrderedPlaces
<1>8. \A k \in 1..Cardinality(S) : Ordered(S, before)[k] \in S
  BY <1>7 DEF Bijection, Injection
<1> QED
  BY <1>2, <1>4, <1>5, <1>7, <1>8 DEF area

\* What is taken, one after the other.
Repeats(masks, i, taken) == \E s \in taken : OverlapMore(masks[i].box, masks[s].box, 5)

TakesAll(taken, masks, order, n) ==
  taken = [k \in 0..n |->
             IF k = 0 THEN {}
             ELSE taken[k - 1] \cup (IF Repeats(masks, order[k], taken[k - 1]) THEN {} ELSE {order[k]})]

LEMMA SomethingTakes ==
  ASSUME NEW masks, NEW order, NEW n \in Nat
  PROVE  \E taken : TakesAll(taken, masks, order, n)
<1> DEFINE Next1(k, before) ==
             before \cup (IF Repeats(masks, order[k], before) THEN {} ELSE {order[k]})
           Fails == {m \in 0..n : ~ \E f : f = [k \in 0..m |-> f[k]] /\
                       f[0] = {} /\ \A k \in 1..m : f[k] = Next1(k, f[k - 1])}
<1>1. Fails = {}
  <2> SUFFICES ASSUME Fails # {} PROVE FALSE
    OBVIOUS
  <2>1. Fails \in SUBSET Nat
    OBVIOUS
  <2>2. PICK m \in Fails : \A k \in Fails : m <= k
    <3> HIDE DEF Fails
    <3> QED
      BY <2>1, LeastNat
  <2>3. m \in 0..n /\ m # 0
    <3>1. ASSUME m = 0 PROVE FALSE
      <4> DEFINE f == [k \in 0..m |-> {}]
      <4>1. f = [k \in 0..m |-> f[k]] /\ f[0] = {}
        BY <3>1
      <4>2. \A k \in 1..m : f[k] = Next1(k, f[k - 1])
        BY <3>1
      <4> HIDE DEF f, Next1
      <4> QED
        BY <4>1, <4>2
    <3> QED
      BY <3>1
  <2>4. m - 1 \in 0..n /\ m - 1 \notin Fails
    <3>1. m - 1 \in 0..n /\ ~(m <= m - 1)
      BY <2>3
    <3> HIDE DEF Fails
    <3> QED
      BY <2>2, <3>1
  <2> HIDE DEF Next1
  <2>5. PICK f : f[0] = {} /\ \A k \in 1..(m - 1) : f[k] = Next1(k, f[k - 1])
    BY <2>4
  <2> DEFINE g == [k \in 0..m |-> IF k = m THEN Next1(m, f[m - 1]) ELSE f[k]]
  <2>6. \A k \in 0..m : k # m => k \in 0..(m - 1) /\ g[k] = f[k]
    BY <2>3
  <2>7. g[m] = Next1(m, f[m - 1])
    BY <2>3
  <2>8. g = [k \in 0..m |-> g[k]]
    OBVIOUS
  <2>9. g[0] = {}
    BY <2>3, <2>5
  <2>10. \A k \in 1..m : g[k] = Next1(k, g[k - 1])
    <3> TAKE k \in 1..m
    <3>1. k - 1 \in 0..m /\ k - 1 # m /\ k \in 0..m
      BY <2>3
    <3>2. g[k - 1] = f[k - 1]
      BY <2>6, <3>1
    <3>3. CASE k = m
      BY <2>7, <3>2, <3>3
    <3>4. CASE k # m
      <4>1. k \in 1..(m - 1) /\ g[k] = f[k]
        BY <2>3, <2>6, <3>1, <3>4
      <4> HIDE DEF g
      <4> QED
        BY <2>5, <3>2, <4>1
    <3> QED
      BY <3>3, <3>4
  <2> HIDE DEF g
  <2> QED
    BY <2>2, <2>8, <2>9, <2>10
<1>2. PICK f : f = [k \in 0..n |-> f[k]] /\ f[0] = {} /\ \A k \in 1..n : f[k] = Next1(k, f[k - 1])
  <2>1. n \in 0..n
    OBVIOUS
  <2> HIDE DEF Next1
  <2> QED
    BY <1>1, <2>1
<1>3. TakesAll(f, masks, order, n)
  <2> DEFINE step(k) == IF k = 0 THEN {} ELSE Next1(k, f[k - 1])
  <2>1. \A k \in 0..n : f[k] = step(k)
    <3> TAKE k \in 0..n
    <3>1. f[0] = {} /\ \A h \in 1..n : f[h] = Next1(h, f[h - 1])
      BY <1>2
    <3> HIDE DEF Next1
    <3> QED
      BY <3>1
  <2> HIDE DEF step
  <2>2. f = [k \in 0..n |-> step(k)]
    BY <1>2, <2>1
  <2> QED
    BY <2>2 DEF TakesAll, step
<1> QED
  BY <1>3

Loops(taken, masks, order, n) ==
  /\ taken[0] = {}
  /\ \A k \in 1..n :
       taken[k] = taken[k - 1] \cup (IF Repeats(masks, order[k], taken[k - 1]) THEN {} ELSE {order[k]})

LEMMA TakenRuns ==
  ASSUME NEW masks, NEW order, NEW n \in Nat
  PROVE  \E taken : TakenOf(masks, order, n) = taken[n] /\ Loops(taken, masks, order, n)
<1> DEFINE step(taken, k) ==
             IF k = 0 THEN {}
             ELSE taken[k - 1] \cup (IF Repeats(masks, order[k], taken[k - 1]) THEN {} ELSE {order[k]})
           run == CHOOSE taken : taken = [k \in 0..n |-> step(taken, k)]
<1>1. TakenOf(masks, order, n) = run[n]
  BY DEF TakenOf, Repeats
<1>2. run = [k \in 0..n |-> step(run, k)]
  <2>1. \E taken : taken = [k \in 0..n |-> step(taken, k)]
    <3>1. PICK f : TakesAll(f, masks, order, n)
      BY SomethingTakes
    <3>2. f = [k \in 0..n |-> step(f, k)]
      BY <3>1 DEF TakesAll
    <3> HIDE DEF step
    <3> QED
      BY <3>2
  <2> HIDE DEF step
  <2> QED
    BY <2>1
<1> HIDE DEF run
<1>3. \A k \in 0..n : run[k] = step(run, k)
  <2> HIDE DEF step
  <2> QED
    BY <1>2
<1>4. run[0] = {}
  <2>1. 0 \in 0..n
    OBVIOUS
  <2>2. run[0] = step(run, 0)
    <3> HIDE DEF step
    <3> QED
      BY <1>3, <2>1
  <2> QED
    BY <2>2
<1>5. \A k \in 1..n : k \in 0..n /\ k # 0
  OBVIOUS
<1>6. Loops(run, masks, order, n)
  BY <1>3, <1>4, <1>5 DEF Loops
<1> QED
  BY <1>1, <1>6

\* What is taken is what no taken thing before it repeats.
LEMMA TakenAre ==
  ASSUME NEW masks, NEW K, NEW n \in Nat, NEW order \in Bijection(1..n, K)
  PROVE  /\ TakenOf(masks, order, n) \subseteq K
         /\ \A k \in 1..n :
              order[k] \in TakenOf(masks, order, n) <=>
                ~ \E l \in 1..n : /\ l < k /\ order[l] \in TakenOf(masks, order, n)
                                  /\ OverlapMore(masks[order[k]].box, masks[order[l]].box, 5)
<1> DEFINE T == TakenOf(masks, order, n)
<1>0. PICK taken : T = taken[n] /\ Loops(taken, masks, order, n)
  BY TakenRuns
<1>1. /\ T = taken[n] /\ taken[0] = {}
      /\ \A k \in 1..n :
           taken[k] = taken[k - 1] \cup (IF Repeats(masks, order[k], taken[k - 1]) THEN {} ELSE {order[k]})
  BY <1>0 DEF Loops
<1> HIDE DEF T
<1> DEFINE Fresh(k) == ~Repeats(masks, order[k], taken[k - 1])
           Good(m) == taken[m] = {order[k] : k \in {l \in 1..m : Fresh(l)}}
           Bad == {m \in 0..n : ~Good(m)}
<1>2. Bad = {}
  <2> SUFFICES ASSUME Bad # {} PROVE FALSE
    OBVIOUS
  <2>1. Bad \in SUBSET Nat
    OBVIOUS
  <2>2. PICK m \in Bad : \A k \in Bad : m <= k
    <3> HIDE DEF Bad
    <3> QED
      BY <2>1, LeastNat
  <2>3. m \in 0..n /\ ~Good(m) /\ m # 0
    <3>1. Good(0)
      <4>1. {l \in 1..0 : Fresh(l)} = {}
        OBVIOUS
      <4> HIDE DEF Fresh
      <4> QED
        BY <1>1, <4>1
    <3> HIDE DEF Good
    <3> QED
      BY <3>1
  <2>4. Good(m - 1)
    <3>1. m - 1 \in 0..n /\ ~(m <= m - 1)
      BY <2>3
    <3> HIDE DEF Good
    <3> QED
      BY <2>2, <3>1
  <2>5. taken[m] = taken[m - 1] \cup (IF Fresh(m) THEN {order[m]} ELSE {}) /\ m \in 1..n
    BY <1>1, <2>3
  <2>6. {l \in 1..m : Fresh(l)} = {l \in 1..(m - 1) : Fresh(l)} \cup (IF Fresh(m) THEN {m} ELSE {})
    <3> HIDE DEF Fresh
    <3>1. \A l \in 1..m : l \in 1..(m - 1) \/ l = m
      BY <2>5
    <3>2. \A l \in 1..(m - 1) : l \in 1..m
      BY <2>5
    <3>3. m \in 1..m
      BY <2>5
    <3> QED
      BY <3>1, <3>2, <3>3
  <2>7. Good(m)
    <3> HIDE DEF Fresh
    <3> QED
      BY <2>4, <2>5, <2>6
  <2> QED
    BY <2>3, <2>7
<1>3. \A m \in 0..n : taken[m] = {order[k] : k \in {l \in 1..m : Fresh(l)}}
  BY <1>2
<1>4. /\ \A k \in 1..n : order[k] \in K
      /\ \A k, l \in 1..n : order[k] = order[l] => k = l
  BY DEF Bijection, Injection, IsInjective
<1>5. \A k \in 1..n : order[k] \in T <=> Fresh(k)
  <2> HIDE DEF Fresh
  <2>1. n \in 0..n
    OBVIOUS
  <2> QED
    BY <1>1, <1>3, <1>4, <2>1
<1>6. T \subseteq K
  <2> HIDE DEF Fresh
  <2>1. n \in 0..n
    OBVIOUS
  <2> QED
    BY <1>1, <1>3, <1>4, <2>1
<1>7. ASSUME NEW k \in 1..n
      PROVE  Fresh(k) <=> ~ \E l \in 1..n : /\ l < k /\ order[l] \in T
                                            /\ OverlapMore(masks[order[k]].box, masks[order[l]].box, 5)
  <2>1. k - 1 \in 0..n /\ \A l \in 1..n : l < k <=> l \in 1..(k - 1)
    OBVIOUS
  <2>0. \A l \in 1..(k - 1) : l \in 1..n
    OBVIOUS
  <2>2. \A x : x \in taken[k - 1] <=> \E l \in 1..(k - 1) : Fresh(l) /\ x = order[l]
    <3> HIDE DEF Fresh
    <3> QED
      BY <1>3, <2>1
  <2>3. \A x : x \in taken[k - 1] <=> \E l \in 1..n : l < k /\ order[l] \in T /\ x = order[l]
    <3> HIDE DEF Fresh
    <3> QED
      BY <2>2, <2>1, <2>0, <1>5
  <2>4. Fresh(k) <=> ~ \E s \in taken[k - 1] : OverlapMore(masks[order[k]].box, masks[s].box, 5)
    BY DEF Repeats
  <2> HIDE DEF Fresh
  <2> QED
    BY <2>3, <2>4
<1> HIDE DEF Fresh
<1> QED
  BY <1>5, <1>6, <1>7 DEF T

\* T of K: what no larger one of T repeats.
Surviving(masks, K, T) ==
  /\ T \subseteq K
  /\ \A i \in K : i \in T <=> ~ \E s \in T : /\ Bigger(masks, s, i)
                                              /\ OverlapMore(masks[i].box, masks[s].box, 5)

LEMMA SurvivorsAre ==
  ASSUME NEW masks, Sized(masks), NEW K \in SUBSET DOMAIN masks
  PROVE  Surviving(masks, K, Survivors(masks, K))
<1> DEFINE n == Cardinality(K)
           order == BySize(K, Areas(masks))
           T == TakenOf(masks, order, n)
<1>1. /\ n \in Nat /\ order \in Bijection(1..n, K)
      /\ \A k, l \in 1..n : k < l <=> Bigger(masks, order[k], order[l])
  BY BySizeIs
<1>2. Survivors(masks, K) = T
  BY DEF Survivors
<1> HIDE DEF n, order
<1>3. /\ T \subseteq K
      /\ \A k \in 1..n :
           order[k] \in T <=>
             ~ \E l \in 1..n : /\ l < k /\ order[l] \in T
                               /\ OverlapMore(masks[order[k]].box, masks[order[l]].box, 5)
  BY <1>1, TakenAre
<1> HIDE DEF T
<1>4. \A i \in K : \E k \in 1..n : order[k] = i
  BY <1>1 DEF Bijection, Surjection
<1>5. ASSUME NEW i \in K
      PROVE  i \in T <=> ~ \E s \in T : /\ Bigger(masks, s, i)
                                        /\ OverlapMore(masks[i].box, masks[s].box, 5)
  <2>1. PICK k \in 1..n : order[k] = i
    BY <1>4
  <2>2. (\E s \in T : Bigger(masks, s, i) /\ OverlapMore(masks[i].box, masks[s].box, 5))
          <=> \E l \in 1..n : /\ l < k /\ order[l] \in T
                              /\ OverlapMore(masks[order[k]].box, masks[order[l]].box, 5)
    BY <1>1, <1>3, <1>4, <2>1
  <2> QED
    BY <1>3, <2>1, <2>2
<1> QED
  BY <1>2, <1>3, <1>5 DEF Surviving

LEMMA OneSurvives ==
  ASSUME NEW masks, Sized(masks), NEW K \in SUBSET DOMAIN masks,
         NEW T, Surviving(masks, K, T), NEW U, Surviving(masks, K, U)
  PROVE  T = U
<1> DEFINE n == Cardinality(K)
           order == BySize(K, Areas(masks))
           Bad == {k \in 1..n : ~(order[k] \in T <=> order[k] \in U)}
<1>1. /\ n \in Nat /\ order \in Bijection(1..n, K)
      /\ \A k, l \in 1..n : k < l <=> Bigger(masks, order[k], order[l])
  BY BySizeIs
<1> HIDE DEF n, order
<1>2. /\ \A k \in 1..n : order[k] \in K
      /\ \A i \in K : \E k \in 1..n : order[k] = i
  BY <1>1 DEF Bijection, Injection, Surjection
<1>3. Bad = {}
  <2> SUFFICES ASSUME Bad # {} PROVE FALSE
    OBVIOUS
  <2>1. Bad \in SUBSET Nat
    OBVIOUS
  <2>2. PICK k \in Bad : \A l \in Bad : k <= l
    <3> HIDE DEF Bad
    <3> QED
      BY <2>1, LeastNat
  <2>3. k \in 1..n /\ ~(order[k] \in T <=> order[k] \in U)
    OBVIOUS
  <2>4. \A l \in 1..n : l < k => (order[l] \in T <=> order[l] \in U)
    <3>1. \A l \in 1..n : l < k => ~(k <= l)
      BY <2>3
    <3>2. \A l \in 1..n : l < k => l \notin Bad
      <4> HIDE DEF Bad
      <4> QED
        BY <2>2, <3>1
    <3> QED
      BY <3>2
  <2>5. \A s \in K : Bigger(masks, s, order[k]) => (s \in T <=> s \in U)
    <3> HIDE DEF Bad
    <3> QED
      BY <1>1, <1>2, <2>3, <2>4
  <2>6. T \subseteq K /\ U \subseteq K /\ order[k] \in K
    BY <1>2, <2>3 DEF Surviving
  <2>7. order[k] \in T <=> ~ \E s \in T : /\ Bigger(masks, s, order[k])
                                          /\ OverlapMore(masks[order[k]].box, masks[s].box, 5)
    BY <2>6 DEF Surviving
  <2>8. order[k] \in U <=> ~ \E s \in U : /\ Bigger(masks, s, order[k])
                                          /\ OverlapMore(masks[order[k]].box, masks[s].box, 5)
    BY <2>6 DEF Surviving
  <2> HIDE DEF Bad
  <2> QED
    BY <2>3, <2>5, <2>6, <2>7, <2>8
<1>4. \A i \in K : i \in T <=> i \in U
  BY <1>2, <1>3
<1> QED
  BY <1>4 DEF Surviving

\* The same masks at other places of a list, in the same order by size.
Moves(move, masks, K, others, L) ==
  /\ move \in Bijection(K, L)
  /\ \A i \in K : others[move[i]] = masks[i]
  /\ \A i, j \in K : Bigger(masks, i, j) <=> Bigger(others, move[i], move[j])

LEMMA SurvivorsMove ==
  ASSUME NEW masks, Sized(masks), NEW K \in SUBSET DOMAIN masks,
         NEW others, Sized(others), NEW L \in SUBSET DOMAIN others,
         NEW move, Moves(move, masks, K, others, L)
  PROVE  Survivors(others, L) = {move[i] : i \in Survivors(masks, K)}
<1> DEFINE T == Survivors(masks, K)
           U == {move[i] : i \in T}
<1>1. Surviving(masks, K, T)
  BY SurvivorsAre
<1> HIDE DEF T
<1>2. /\ \A i \in K : move[i] \in L /\ others[move[i]] = masks[i]
      /\ \A i, j \in K : move[i] = move[j] => i = j
      /\ \A l \in L : \E i \in K : move[i] = l
      /\ \A i, j \in K : Bigger(masks, i, j) <=> Bigger(others, move[i], move[j])
  BY DEF Moves, Bijection, Injection, Surjection, IsInjective
<1>3. T \subseteq K /\ U \subseteq L
  BY <1>1, <1>2 DEF Surviving
<1>4. \A i \in K : move[i] \in U <=> i \in T
  BY <1>2, <1>3
<1>5. ASSUME NEW l \in L
      PROVE  l \in U <=> ~ \E s \in U : /\ Bigger(others, s, l)
                                        /\ OverlapMore(others[l].box, others[s].box, 5)
  <2>1. PICK i \in K : move[i] = l
    BY <1>2
  <2>2. i \in T <=> ~ \E s \in T : Bigger(masks, s, i) /\ OverlapMore(masks[i].box, masks[s].box, 5)
    BY <1>1 DEF Surviving
  <2>3. (\E s \in T : Bigger(masks, s, i) /\ OverlapMore(masks[i].box, masks[s].box, 5))
          <=> \E s \in U : Bigger(others, s, l) /\ OverlapMore(others[l].box, others[s].box, 5)
    BY <1>2, <1>3, <2>1
  <2> QED
    BY <1>4, <2>1, <2>2, <2>3
<1>6. Surviving(others, L, U)
  <2> HIDE DEF U
  <2> QED
    BY <1>3, <1>5 DEF Surviving
<1>7. Surviving(others, L, Survivors(others, L))
  BY SurvivorsAre
<1> HIDE DEF U
<1>8. Survivors(others, L) = U
  BY <1>6, <1>7, OneSurvives
<1> QED
  BY <1>8 DEF U, T

\* There is one way to number things in an order.
LEMMA OneNumbering ==
  ASSUME NEW n \in Nat, NEW S, NEW before,
         NEW f \in Bijection(1..n, S), NEW g \in Bijection(1..n, S),
         \A k, l \in 1..n : k < l <=> <<f[k], f[l]>> \in before,
         \A k, l \in 1..n : k < l <=> <<g[k], g[l]>> \in before
  PROVE  f = g
<1> DEFINE Bad == {k \in 1..n : f[k] # g[k]}
<1>1. /\ f \in [1..n -> S] /\ g \in [1..n -> S]
      /\ \A k, l \in 1..n : f[k] = f[l] => k = l
      /\ \A k, l \in 1..n : g[k] = g[l] => k = l
      /\ \A x \in S : (\E k \in 1..n : f[k] = x) /\ \E k \in 1..n : g[k] = x
  BY DEF Bijection, Injection, Surjection, IsInjective
<1>2. Bad = {}
  <2> SUFFICES ASSUME Bad # {} PROVE FALSE
    OBVIOUS
  <2>1. Bad \in SUBSET Nat
    OBVIOUS
  <2>2. PICK k \in Bad : \A l \in Bad : k <= l
    <3> HIDE DEF Bad
    <3> QED
      BY <2>1, LeastNat
  <2>3. k \in 1..n /\ f[k] # g[k]
    OBVIOUS
  <2>4. \A l \in 1..n : l < k => f[l] = g[l]
    <3>1. \A l \in 1..n : l < k => ~(k <= l)
      BY <2>3
    <3>2. \A l \in 1..n : l < k => l \notin Bad
      <4> HIDE DEF Bad
      <4> QED
        BY <2>2, <3>1
    <3> QED
      BY <3>2
  <2> HIDE DEF Bad
  <2>5. PICK l \in 1..n : g[l] = f[k]
    BY <1>1, <2>3
  <2>6. PICK m \in 1..n : f[m] = g[k]
    BY <1>1, <2>3
  <2>7. ~(l < k) /\ l # k
    BY <1>1, <2>3, <2>4, <2>5
  <2>8. ~(m < k) /\ m # k
    BY <1>1, <2>3, <2>4, <2>6
  <2>9. k < l /\ k < m /\ ~(l < k)
    BY <2>3, <2>7, <2>8
  <2>10. <<f[k], f[m]>> \in before
    BY <2>3, <2>9
  <2>11. <<g[l], g[k]>> \in before
    BY <2>5, <2>6, <2>10
  <2> QED
    BY <2>3, <2>9, <2>11
<1>3. \A k \in 1..n : f[k] = g[k]
  BY <1>2
<1> HIDE DEF Bad
<1> QED
  BY <1>1, <1>3

LEMMA BySizeMoves ==
  ASSUME NEW masks, Sized(masks), NEW K \in SUBSET DOMAIN masks,
         NEW others, Sized(others), NEW L \in SUBSET DOMAIN others,
         NEW move, Moves(move, masks, K, others, L), NEW S \in SUBSET K
  PROVE  /\ Cardinality({move[i] : i \in S}) = Cardinality(S)
         /\ BySize({move[i] : i \in S}, Areas(others))
              = [k \in 1..Cardinality(S) |-> move[BySize(S, Areas(masks))[k]]]
<1> DEFINE M == {move[i] : i \in S}
           n == Cardinality(S)
           order == BySize(S, Areas(masks))
           other == BySize(M, Areas(others))
           moved == [k \in 1..n |-> move[order[k]]]
           before == {p \in M \X M : Bigger(others, p[1], p[2])}
<1>1. /\ IsFiniteSet(S) /\ n \in Nat /\ order \in Bijection(1..n, S)
      /\ \A k, l \in 1..n : k < l <=> Bigger(masks, order[k], order[l])
  BY BySizeIs
<1>2. /\ \A i \in K : move[i] \in L
      /\ \A i, j \in K : move[i] = move[j] => i = j
      /\ \A i, j \in K : Bigger(masks, i, j) <=> Bigger(others, move[i], move[j])
  BY DEF Moves, Bijection, Injection, Surjection, IsInjective
<1>3. M \in SUBSET DOMAIN others
  BY <1>2
<1>4. /\ Cardinality(M) \in Nat /\ other \in Bijection(1..Cardinality(M), M)
      /\ \A k, l \in 1..Cardinality(M) : k < l <=> Bigger(others, other[k], other[l])
  <2> HIDE DEF M
  <2> QED
    BY <1>3, BySizeIs
<1>5. Cardinality(M) = n
  <2> DEFINE moves == [i \in S |-> move[i]]
  <2>1. moves \in Bijection(S, M)
    BY <1>2 DEF Bijection, Injection, Surjection, IsInjective
  <2> HIDE DEF M, moves
  <2>2. ExistsBijection(S, M)
    BY <2>1 DEF ExistsBijection
  <2> QED
    BY <1>1, <2>2, FS_Bijection
<1> HIDE DEF n, order, other
<1>6. /\ \A k \in 1..n : order[k] \in S
      /\ \A k, l \in 1..n : order[k] = order[l] => k = l
      /\ \A i \in S : \E k \in 1..n : order[k] = i
  BY <1>1 DEF Bijection, Injection, Surjection, IsInjective
<1>7. moved \in Bijection(1..n, M)
  <2>1. moved \in [1..n -> M]
    BY <1>6
  <2>2. \A k, l \in 1..n : moved[k] = moved[l] => k = l
    BY <1>2, <1>6
  <2>3. \A x \in M : \E k \in 1..n : moved[k] = x
    BY <1>6
  <2> HIDE DEF moved, M
  <2> QED
    BY <2>1, <2>2, <2>3 DEF Bijection, Injection, Surjection, IsInjective
<1>8. \A k, l \in 1..n : k < l <=> <<moved[k], moved[l]>> \in before
  <2> TAKE k \in 1..n, l \in 1..n
  <2>1. moved[k] = move[order[k]] /\ moved[l] = move[order[l]] /\ moved[k] \in M /\ moved[l] \in M
    BY <1>6
  <2>2. <<moved[k], moved[l]>> \in before <=> Bigger(others, moved[k], moved[l])
    BY <2>1
  <2> HIDE DEF moved, before, M
  <2> QED
    BY <1>1, <1>2, <1>6, <2>1, <2>2
<1>9. \A k, l \in 1..n : k < l <=> <<other[k], other[l]>> \in before
  <2>1. \A k \in 1..n : other[k] \in M
    BY <1>4, <1>5 DEF Bijection, Injection
  <2> HIDE DEF M
  <2> QED
    BY <1>4, <1>5, <2>1
<1> HIDE DEF before, moved, M
<1>10. other = moved
  BY <1>1, <1>4, <1>5, <1>7, <1>8, <1>9, OneNumbering
<1> QED
  BY <1>5, <1>10 DEF M, n, order, other, moved

FoundIn(masks, S) ==
  [k \in DOMAIN BySize(S \ Shod(masks, S), Areas(masks)) |->
     Single(masks, BySize(S \ Shod(masks, S), Areas(masks))[k])]
  \o (IF Shod(masks, S) = {} THEN <<>> ELSE <<Pair(masks, Shod(masks, S))>>)

Garment(masks, S) ==
  {Single(masks, i) : i \in S \ Shod(masks, S)}
    \cup (IF Shod(masks, S) = {} THEN {} ELSE {Pair(masks, Shod(masks, S))})

LEMMA PairHasASize ==
  ASSUME NEW masks, Sized(masks), NEW S \in SUBSET DOMAIN masks
  PROVE  Pair(masks, S).area \in Int /\ Pair(masks, S).masks = S
<1> DEFINE n == Cardinality(S)
           order == BySize(S, Areas(masks))
           value == [k \in 1..n |-> masks[order[k]].area]
<1>1. n \in Nat /\ order \in Bijection(1..n, S)
  BY BySizeIs
<1>2. Pair(masks, S).area = SumTo(value, n) /\ Pair(masks, S).masks = S
  BY DEF Pair, Candidate
<1> HIDE DEF n, order
<1>3. value \in [1..n -> Int]
  <2>1. \A i \in S : masks[i].area \in Int
    BY DEF Sized
  <2>2. \A k \in 1..n : order[k] \in S
    BY <1>1 DEF Bijection, Injection
  <2> QED
    BY <2>1, <2>2
<1> HIDE DEF value
<1>4. SumTo(value, n) \in Int
  BY <1>1, <1>3, SumIsBetween
<1> QED
  BY <1>2, <1>4

\* The garments of what survived: every single one, and the shoes.
LEMMA FoundAre ==
  ASSUME NEW masks, Sized(masks), NEW S \in SUBSET DOMAIN masks
  PROVE  /\ Sized(FoundIn(masks, S))
         /\ {FoundIn(masks, S)[k] : k \in DOMAIN FoundIn(masks, S)} = Garment(masks, S)
         /\ \A j, k \in DOMAIN FoundIn(masks, S) :
              j # k => FoundIn(masks, S)[j].masks \cap FoundIn(masks, S)[k].masks = {}
<1> DEFINE shoes == Shod(masks, S)
           others == BySize(S \ shoes, Areas(masks))
           a == Cardinality(S \ shoes)
           first == [k \in DOMAIN others |-> Single(masks, others[k])]
           last == IF shoes = {} THEN <<>> ELSE <<Pair(masks, shoes)>>
           found == FoundIn(masks, S)
           C == {Single(masks, i) : i \in S} \cup {Pair(masks, shoes)}
<1>1. shoes \in SUBSET S /\ S \ shoes \in SUBSET DOMAIN masks /\ shoes \in SUBSET DOMAIN masks
  BY DEF Shod
<1>2. a \in Nat /\ others \in Bijection(1..a, S \ shoes)
  <2> HIDE DEF shoes
  <2> QED
    BY <1>1, BySizeIs
<1>3. found = first \o last
  BY DEF FoundIn
<1> HIDE DEF shoes, others, a, found
<1>4. /\ DOMAIN others = 1..a /\ \A k \in 1..a : others[k] \in S \ shoes
      /\ \A k, l \in 1..a : others[k] = others[l] => k = l
      /\ \A i \in S \ shoes : \E k \in 1..a : others[k] = i
  BY <1>2 DEF Bijection, Injection, Surjection, IsInjective
<1>5. first \in Seq(C) /\ Len(first) = a /\ \A k \in 1..a : first[k] = Single(masks, others[k])
  <2> DEFINE D == C
  <2>1. \A k \in 1..a : Single(masks, others[k]) \in D
    BY <1>1, <1>4
  <2> HIDE DEF D
  <2>2. first \in [1..a -> D]
    BY <1>4, <2>1
  <2>3. \A k \in 1..a : first[k] = Single(masks, others[k])
    BY <1>4
  <2> HIDE DEF first
  <2>4. first \in Seq(D) /\ Len(first) = a
    BY <1>2, <2>2
  <2> QED
    BY <2>3, <2>4 DEF D
<1>6. last \in Seq(C) /\ Len(last) = (IF shoes = {} THEN 0 ELSE 1)
      /\ (shoes # {} => last[1] = Pair(masks, shoes))
  <2> DEFINE D == C
             pair == Pair(masks, shoes)
  <2>1. pair \in D
    OBVIOUS
  <2> HIDE DEF D, pair
  <2>2. (IF shoes = {} THEN <<>> ELSE <<pair>>) \in Seq(D)
    BY <2>1
  <2> QED
    BY <2>2 DEF D, pair
<1> HIDE DEF first, last, C
<1> DEFINE b == IF shoes = {} THEN 0 ELSE 1
<1>7. found \in Seq(C) /\ DOMAIN found = 1..(a + b)
      /\ (\A k \in 1..a : found[k] = Single(masks, others[k]))
      /\ (shoes # {} => found[a + 1] = Pair(masks, shoes))
  <2>1. found \in Seq(C) /\ Len(found) = a + b
    BY <1>2, <1>3, <1>5, <1>6
  <2>2. \A k \in 1..a : found[k] = first[k]
    BY <1>2, <1>3, <1>5, <1>6
  <2>3. shoes # {} => found[a + 1] = last[1]
    BY <1>2, <1>3, <1>5, <1>6
  <2> QED
    BY <1>5, <1>6, <2>1, <2>2, <2>3
<1>8. \A k \in DOMAIN found : k \in 1..a \/ (k = a + 1 /\ shoes # {})
  BY <1>2, <1>7
<1>9. \A k \in 1..a : k \in DOMAIN found
  BY <1>2, <1>7
<1>10. shoes # {} => a + 1 \in DOMAIN found
  BY <1>2, <1>7
<1>11. \A k \in 1..a : found[k].masks = {others[k]} /\ found[k].area \in Int
  <2>1. \A i \in S : Single(masks, i).masks = {i} /\ Single(masks, i).area = masks[i].area
    BY DEF Single, Candidate
  <2>2. \A i \in S : masks[i].area \in Int
    BY DEF Sized
  <2> QED
    BY <1>1, <1>4, <1>7, <2>1, <2>2
<1>12. Pair(masks, shoes).masks = shoes /\ Pair(masks, shoes).area \in Int
  BY <1>1, PairHasASize
<1>13. Sized(found)
  <2>1. a + b \in Nat
    BY <1>2
  <2>2. \A k \in DOMAIN found : found[k].area \in Int
    BY <1>7, <1>8, <1>11, <1>12
  <2> HIDE DEF b
  <2> QED
    BY <1>7, <2>1, <2>2 DEF Sized
<1>14. {found[k] : k \in DOMAIN found} = Garment(masks, S)
  <2>1. \A k \in DOMAIN found : found[k] \in Garment(masks, S)
    BY <1>4, <1>7, <1>8 DEF Garment, shoes
  <2>2. \A x \in Garment(masks, S) : \E k \in DOMAIN found : x = found[k]
    <3>1. \A x \in Garment(masks, S) : \/ \E i \in S \ shoes : x = Single(masks, i)
                                       \/ shoes # {} /\ x = Pair(masks, shoes)
      BY DEF Garment, shoes
    <3> QED
      BY <3>1, <1>4, <1>7, <1>9, <1>10
  <2> QED
    BY <2>1, <2>2
<1>15. ASSUME NEW j \in DOMAIN found, NEW k \in DOMAIN found, j # k
       PROVE  found[j].masks \cap found[k].masks = {}
  <2>1. CASE j \in 1..a /\ k \in 1..a
    BY <1>4, <1>11, <1>15, <2>1
  <2>2. CASE j \in 1..a /\ k \notin 1..a
    BY <1>4, <1>7, <1>8, <1>11, <1>12, <2>2
  <2>3. CASE j \notin 1..a /\ k \in 1..a
    BY <1>4, <1>7, <1>8, <1>11, <1>12, <2>3
  <2>4. CASE j \notin 1..a /\ k \notin 1..a
    BY <1>8, <1>15, <2>4
  <2> QED
    BY <2>1, <2>2, <2>3, <2>4
<1> QED
  BY <1>13, <1>14, <1>15 DEF found

LEMMA MergedAre ==
  ASSUME NEW masks, Sized(masks), NEW S \in SUBSET DOMAIN masks
  PROVE  LET result == MergePairs(masks, S)
         IN  /\ {result[k] : k \in DOMAIN result} = Garment(masks, S)
             /\ \A j, k \in DOMAIN result :
                  j # k => result[j].masks \cap result[k].masks = {}
<1> DEFINE found == FoundIn(masks, S)
           ranked == BySize(DOMAIN found, Areas(found))
           n == Cardinality(DOMAIN found)
           result == MergePairs(masks, S)
<1>1. result = [k \in DOMAIN ranked |-> found[ranked[k]]]
  BY DEF MergePairs, FoundIn
<1>2. /\ Sized(found) /\ {found[k] : k \in DOMAIN found} = Garment(masks, S)
      /\ \A j, k \in DOMAIN found : j # k => found[j].masks \cap found[k].masks = {}
  BY FoundAre
<1> HIDE DEF found, result
<1>3. n \in Nat /\ ranked \in Bijection(1..n, DOMAIN found)
  <2>1. DOMAIN found \in SUBSET DOMAIN found
    OBVIOUS
  <2> QED
    BY <1>2, <2>1, BySizeIs
<1> HIDE DEF ranked
<1>4. /\ DOMAIN ranked = 1..n /\ \A k \in 1..n : ranked[k] \in DOMAIN found
      /\ \A k, l \in 1..n : ranked[k] = ranked[l] => k = l
      /\ \A i \in DOMAIN found : \E k \in 1..n : ranked[k] = i
  BY <1>3 DEF Bijection, Injection, Surjection, IsInjective
<1>5. DOMAIN result = 1..n /\ \A k \in 1..n : result[k] = found[ranked[k]]
  BY <1>1, <1>4
<1>6. {result[k] : k \in DOMAIN result} = {found[k] : k \in DOMAIN found}
  BY <1>4, <1>5
<1> QED
  BY <1>2, <1>4, <1>5, <1>6 DEF result

\* Masks as the ml service reports them: an area and a box in whole numbers.
Photo(masks) ==
  Sized(masks) /\ \A i \in DOMAIN masks : \A k \in 1..4 : masks[i].box[k] \in Int

LEMMA OverlapIsMutual ==
  ASSUME NEW a, NEW b, \A k \in 1..4 : a[k] \in Int /\ b[k] \in Int, NEW share \in Int
  PROVE  OverlapMore(a, b, share) <=> OverlapMore(b, a, share)
<1>1. \A x, y \in Int : Smaller(x, y) = Smaller(y, x) /\ Larger(x, y) = Larger(y, x)
  BY DEF Smaller, Larger
<1>2. /\ a[1] \in Int /\ a[2] \in Int /\ a[3] \in Int /\ a[4] \in Int
      /\ b[1] \in Int /\ b[2] \in Int /\ b[3] \in Int /\ b[4] \in Int
  OBVIOUS
<1>3. Common(a, b) = Common(b, a)
  BY <1>1, <1>2 DEF Common
<1>4. Pixels(a) \in Int /\ Pixels(b) \in Int
  BY <1>2 DEF Pixels
<1>5. Pixels(a) + Pixels(b) = Pixels(b) + Pixels(a)
  BY <1>4
<1>6. Common(a, b) \in Int
  BY <1>2 DEF Common, Smaller, Larger
<1> DEFINE p == Pixels(a)
           q == Pixels(b)
           c == Common(a, b)
<1>7. OverlapMore(a, b, share) = (10 * c > share * (p + q - c))
  BY DEF OverlapMore
<1>8. OverlapMore(b, a, share) = (10 * c > share * (q + p - c))
  BY <1>3 DEF OverlapMore
<1>9. p + q - c = q + p - c
  BY <1>4, <1>6
<1> HIDE DEF p, q, c
<1> QED
  BY <1>7, <1>8, <1>9

LEMMA SizesDiffer ==
  ASSUME NEW list, Sized(list), NEW i \in DOMAIN list, NEW j \in DOMAIN list, i # j
  PROVE  Bigger(list, i, j) \/ Bigger(list, j, i)
<1>1. list[i].area \in Int /\ list[j].area \in Int /\ i \in Int /\ j \in Int
  BY DEF Sized
<1> QED
  BY <1>1 DEF Bigger

LEMMA SurvivorsApart ==
  ASSUME NEW masks, Photo(masks), NEW K \in SUBSET DOMAIN masks,
         NEW i \in Survivors(masks, K), NEW j \in Survivors(masks, K), i # j
  PROVE  ~OverlapMore(masks[i].box, masks[j].box, 5)
<1> DEFINE T == Survivors(masks, K)
<1>1. Surviving(masks, K, T) /\ Sized(masks)
  BY SurvivorsAre DEF Photo
<1> HIDE DEF T
<1>2. i \in T /\ j \in T
  BY DEF T
<1>3. i \in K /\ j \in K /\ i \in DOMAIN masks /\ j \in DOMAIN masks
  BY <1>1, <1>2 DEF Surviving
<1>4. Bigger(masks, i, j) => ~OverlapMore(masks[j].box, masks[i].box, 5)
  BY <1>1, <1>2, <1>3 DEF Surviving
<1>5. Bigger(masks, j, i) => ~OverlapMore(masks[i].box, masks[j].box, 5)
  BY <1>1, <1>2, <1>3 DEF Surviving
<1>6. OverlapMore(masks[j].box, masks[i].box, 5) <=> OverlapMore(masks[i].box, masks[j].box, 5)
  <2> DEFINE a == masks[i].box
             b == masks[j].box
  <2>1. \A k \in 1..4 : a[k] \in Int /\ b[k] \in Int
    BY <1>3 DEF Photo
  <2> HIDE DEF a, b
  <2>2. OverlapMore(a, b, 5) <=> OverlapMore(b, a, 5)
    BY <2>1, OverlapIsMutual
  <2> QED
    BY <2>2 DEF a, b
<1>7. Bigger(masks, i, j) \/ Bigger(masks, j, i)
  BY <1>1, <1>3, SizesDiffer
<1> QED
  BY <1>4, <1>5, <1>6, <1>7

View(masks, c) == <<c.slot, c.area, c.box, {masks[i] : i \in c.masks}>>

LEMMA GarmentMasks ==
  ASSUME NEW masks, Sized(masks), NEW S \in SUBSET DOMAIN masks
  PROVE  {c.masks : c \in Garment(masks, S)}
           = {{i} : i \in S \ Shod(masks, S)} \cup (IF Shod(masks, S) = {} THEN {} ELSE {Shod(masks, S)})
<1> DEFINE shoes == Shod(masks, S)
<1>1. \A i \in S : Single(masks, i).masks = {i}
  BY DEF Single, Candidate
<1>2. Pair(masks, shoes).masks = shoes
  <2>1. shoes \in SUBSET DOMAIN masks
    BY DEF Shod
  <2> HIDE DEF shoes
  <2> QED
    BY <2>1, PairHasASize
<1>3. Garment(masks, S) = {Single(masks, i) : i \in S \ shoes}
                            \cup (IF shoes = {} THEN {} ELSE {Pair(masks, shoes)})
  BY DEF Garment
<1> HIDE DEF shoes
<1>4. {c.masks : c \in Garment(masks, S)}
        = {{i} : i \in S \ shoes} \cup (IF shoes = {} THEN {} ELSE {shoes})
  <2>1. \A c \in Garment(masks, S) :
          (\E i \in S \ shoes : c.masks = {i}) \/ (shoes # {} /\ c.masks = shoes)
    BY <1>1, <1>2, <1>3
  <2>2. \A i \in S \ shoes : Single(masks, i) \in Garment(masks, S)
    BY <1>3
  <2>3. shoes # {} => Pair(masks, shoes) \in Garment(masks, S)
    BY <1>3
  <2>4. \A i \in S \ shoes : \E c \in Garment(masks, S) : c.masks = {i}
    BY <1>1, <2>2
  <2>5. shoes # {} => \E c \in Garment(masks, S) : c.masks = shoes
    BY <1>2, <2>3
  <2> DEFINE G == Garment(masks, S)
  <2> HIDE DEF G
  <2>6. \A x : x \in {c.masks : c \in G} <=> \E c \in G : x = c.masks
    OBVIOUS
  <2>7. \A x : (\E c \in G : x = c.masks)
                 <=> (\E i \in S \ shoes : x = {i}) \/ (shoes # {} /\ x = shoes)
    BY <2>1, <2>4, <2>5, Zenon DEF G
  <2>8. \A x : x \in {{i} : i \in S \ shoes} \cup (IF shoes = {} THEN {} ELSE {shoes})
                 <=> (\E i \in S \ shoes : x = {i}) \/ (shoes # {} /\ x = shoes)
    OBVIOUS
  <2> QED
    BY <2>6, <2>7, <2>8, Zenon DEF G
<1> QED
  BY <1>4 DEF shoes

\* Nothing lost and nothing twice, of a photo with a person in it.
LEMMA WornGarments ==
  ASSUME NEW masks, Photo(masks), NEW skin \in Int, skin >= WornSkin, NEW components,
         Kept(masks) # {}, ~Ambiguous(masks, Kept(masks))
  PROVE  LET result == SplitMasks(masks, skin, components)
             T == Survivors(masks, Kept(masks))
         IN  /\ result = Found(MergePairs(masks, T), TRUE)
             /\ ToSet(result.candidates) = Garment(masks, T)
             /\ T \in SUBSET Kept(masks) /\ Kept(masks) \in SUBSET DOMAIN masks
             /\ UNION MaskSets(result) = T
             /\ MaskSets(result) = {c.masks : c \in Garment(masks, T)}
<1> DEFINE K == Kept(masks)
           T == Survivors(masks, K)
           result == SplitMasks(masks, skin, components)
<1>1. result = Found(MergePairs(masks, T), TRUE)
  <2>1. ~(skin < WornSkin)
    BY DEF WornSkin
  <2> QED
    BY <2>1 DEF SplitMasks
<1>2. K \in SUBSET DOMAIN masks
  BY DEF Kept
<1>3. T \in SUBSET K
  <2> HIDE DEF K
  <2> QED
    BY <1>2, SurvivorsAre DEF Photo, Surviving
<1> HIDE DEF K, T, result
<1>4. result.candidates = MergePairs(masks, T)
  BY <1>1 DEF Found
<1>5. ToSet(result.candidates) = Garment(masks, T)
  <2>1. {MergePairs(masks, T)[k] : k \in DOMAIN MergePairs(masks, T)} = Garment(masks, T)
    BY <1>2, <1>3, MergedAre DEF Photo
  <2> QED
    BY <1>4, <2>1 DEF ToSet
<1>6. MaskSets(result) = {c.masks : c \in Garment(masks, T)}
  BY <1>5 DEF MaskSets, ToSet
<1>7. UNION MaskSets(result) = T
  <2>1. {c.masks : c \in Garment(masks, T)}
           = {{i} : i \in T \ Shod(masks, T)} \cup (IF Shod(masks, T) = {} THEN {} ELSE {Shod(masks, T)})
    BY <1>2, <1>3, GarmentMasks DEF Photo
  <2>2. Shod(masks, T) \subseteq T
    BY DEF Shod
  <2> DEFINE shoes == Shod(masks, T)
             M == {{i} : i \in T \ shoes} \cup (IF shoes = {} THEN {} ELSE {shoes})
  <2>3. MaskSets(result) = M
    BY <1>6, <2>1
  <2> HIDE DEF shoes
  <2>4. \A i \in T : \E S \in M : i \in S
    <3> TAKE i \in T
    <3>1. CASE i \in shoes
      BY <3>1
    <3>2. CASE i \notin shoes
      <4>1. {i} \in M
        BY <3>2
      <4> QED
        BY <4>1
    <3> QED
      BY <3>1, <3>2
  <2>5. \A S \in M : S \subseteq T
    BY <2>2 DEF shoes
  <2> HIDE DEF M
  <2> QED
    BY <2>3, <2>4, <2>5
<1> QED
  BY <1>1, <1>2, <1>3, <1>5, <1>6, <1>7 DEF K, T, result

LEMMA AmbiguityMoves ==
  ASSUME NEW masks, Photo(masks), NEW others, Photo(others), NEW move,
         Moves(move, masks, Kept(masks), others, Kept(others))
  PROVE  Ambiguous(masks, Kept(masks)) <=> Ambiguous(others, Kept(others))
<1> DEFINE K == Kept(masks)
           L == Kept(others)
           draped(i, j) == /\ {masks[i].label, masks[j].label} \subseteq DrapeClasses
                           /\ OverlapMore(masks[i].box, masks[j].box, 3)
           other(i, j) == /\ {others[i].label, others[j].label} \subseteq DrapeClasses
                          /\ OverlapMore(others[i].box, others[j].box, 3)
<1>1. K \in SUBSET DOMAIN masks /\ L \in SUBSET DOMAIN others
  BY DEF Kept
<1>2. /\ \A i \in K : move[i] \in L /\ others[move[i]] = masks[i]
      /\ \A i, j \in K : move[i] = move[j] => i = j
      /\ \A l \in L : \E i \in K : move[i] = l
  BY DEF Moves, Bijection, Injection, Surjection, IsInjective
<1>3. \A i, j \in K : draped(i, j) => draped(j, i)
  <2> TAKE i \in K, j \in K
  <2> DEFINE a == masks[i].box
             b == masks[j].box
  <2>1. \A k \in 1..4 : a[k] \in Int /\ b[k] \in Int
    BY <1>1 DEF Photo
  <2> HIDE DEF a, b
  <2>2. OverlapMore(a, b, 3) <=> OverlapMore(b, a, 3)
    BY <2>1, OverlapIsMutual
  <2> QED
    BY <2>2 DEF a, b
<1>4. \A i, j \in L : other(i, j) => other(j, i)
  <2> TAKE i \in L, j \in L
  <2> DEFINE a == others[i].box
             b == others[j].box
  <2>1. \A k \in 1..4 : a[k] \in Int /\ b[k] \in Int
    BY <1>1 DEF Photo
  <2> HIDE DEF a, b
  <2>2. OverlapMore(a, b, 3) <=> OverlapMore(b, a, 3)
    BY <2>1, OverlapIsMutual
  <2> QED
    BY <2>2 DEF a, b
<1>5. \A i, j \in K : draped(i, j) <=> other(move[i], move[j])
  BY <1>2
<1>6. /\ \A i, j \in K : i \in Int /\ (i # j => i < j \/ j < i) /\ (i < j => i # j)
      /\ \A i, j \in L : i \in Int /\ (i # j => i < j \/ j < i) /\ (i < j => i # j)
  <2>1. (\A i \in K : i \in Int) /\ \A i \in L : i \in Int
    BY <1>1 DEF Photo, Sized
  <2> HIDE DEF K, L
  <2> QED
    BY <2>1
<1>7. Ambiguous(masks, K) <=> \E i, j \in K : i < j /\ draped(i, j)
  BY DEF Ambiguous
<1>8. Ambiguous(others, L) <=> \E i, j \in L : i < j /\ other(i, j)
  BY DEF Ambiguous
<1> HIDE DEF K, L, draped, other
<1>9. (\E i, j \in K : i < j /\ draped(i, j)) <=> \E i, j \in K : i # j /\ draped(i, j)
  BY <1>3, <1>6, Zenon
<1>10. (\E i, j \in L : i < j /\ other(i, j)) <=> \E i, j \in L : i # j /\ other(i, j)
  BY <1>4, <1>6, Zenon
<1>11. (\E i, j \in K : i # j /\ draped(i, j)) => \E i, j \in L : i # j /\ other(i, j)
  <2> SUFFICES ASSUME NEW i \in K, NEW j \in K, i # j, draped(i, j)
               PROVE  \E h, l \in L : h # l /\ other(h, l)
    BY Zenon
  <2>1. move[i] \in L /\ move[j] \in L /\ move[i] # move[j] /\ other(move[i], move[j])
    BY <1>2, <1>5
  <2> QED
    BY <2>1, Zenon
<1>12. (\E i, j \in L : i # j /\ other(i, j)) => \E i, j \in K : i # j /\ draped(i, j)
  <2> SUFFICES ASSUME NEW h \in L, NEW l \in L, h # l, other(h, l)
               PROVE  \E i, j \in K : i # j /\ draped(i, j)
    BY Zenon
  <2>1. PICK i \in K : move[i] = h
    BY <1>2
  <2>2. PICK j \in K : move[j] = l
    BY <1>2
  <2>3. i # j /\ draped(i, j)
    BY <1>5, <2>1, <2>2
  <2> QED
    BY <2>3, Zenon
<1> QED
  BY <1>7, <1>8, <1>9, <1>10, <1>11, <1>12, Zenon DEF K, L

\* A move of masks between two photos.
Renumbers(move, masks, K, others, L) ==
  /\ Photo(masks) /\ K \in SUBSET DOMAIN masks
  /\ Photo(others) /\ L \in SUBSET DOMAIN others
  /\ Moves(move, masks, K, others, L)

LEMMA RenumbersIs ==
  ASSUME NEW masks, NEW K, NEW others, NEW L, NEW move, Renumbers(move, masks, K, others, L)
  PROVE  /\ \A i \in K : move[i] \in L /\ others[move[i]] = masks[i]
         /\ \A i, j \in K : move[i] = move[j] => i = j
         /\ \A l \in L : \E i \in K : move[i] = l
BY DEF Renumbers, Moves, Bijection, Injection, Surjection, IsInjective

LEMMA SingleViewMoves ==
  ASSUME NEW masks, NEW K, NEW others, NEW L, NEW move, Renumbers(move, masks, K, others, L),
         NEW S \in SUBSET K
  PROVE  \A i \in S : View(others, Single(others, move[i])) = View(masks, Single(masks, i))
<1> TAKE i \in S
<1>1. others[move[i]] = masks[i]
  BY RenumbersIs
<1>2. {others[x] : x \in {move[i]}} = {masks[x] : x \in {i}}
  BY <1>1
<1> QED
  BY <1>1, <1>2 DEF View, Single, Candidate

LEMMA ShodMoves ==
  ASSUME NEW masks, NEW K, NEW others, NEW L, NEW move, Renumbers(move, masks, K, others, L),
         NEW S \in SUBSET K
  PROVE  Shod(others, {move[i] : i \in S}) = {move[i] : i \in Shod(masks, S)}
BY RenumbersIs DEF Shod

LEMMA PairViewMoves ==
  ASSUME NEW masks, NEW K, NEW others, NEW L, NEW move, Renumbers(move, masks, K, others, L),
         NEW S \in SUBSET K, S # {}
  PROVE  View(others, Pair(others, {move[i] : i \in S})) = View(masks, Pair(masks, S))
<1>0. \A i \in K : move[i] \in L /\ others[move[i]] = masks[i]
  BY RenumbersIs
<1>00. /\ Photo(masks) /\ K \in SUBSET DOMAIN masks
       /\ Photo(others) /\ L \in SUBSET DOMAIN others
       /\ Moves(move, masks, K, others, L)
  BY DEF Renumbers
<1> DEFINE M == {move[i] : i \in S}
           n == Cardinality(S)
           sorted == BySize(S, Areas(masks))
           other == BySize(M, Areas(others))
<1>1. /\ n \in Nat /\ sorted \in Bijection(1..n, S) /\ IsFiniteSet(S)
  <2>1. S \in SUBSET DOMAIN masks /\ Sized(masks)
    BY <1>00 DEF Photo
  <2> QED
    BY <2>1, BySizeIs
<1>2. Cardinality(M) = n /\ other = [k \in 1..n |-> move[sorted[k]]]
  <2>0. /\ Sized(masks) /\ K \in SUBSET DOMAIN masks
        /\ Sized(others) /\ L \in SUBSET DOMAIN others
        /\ Moves(move, masks, K, others, L) /\ S \in SUBSET K
    BY <1>00 DEF Photo
  <2> HIDE DEF M, n, sorted, other
  <2>1. /\ Cardinality({move[i] : i \in S}) = Cardinality(S)
        /\ BySize({move[i] : i \in S}, Areas(others))
             = [k \in 1..Cardinality(S) |-> move[BySize(S, Areas(masks))[k]]]
    BY <2>0, BySizeMoves, SMTT(60)
  <2> QED
    BY <2>1 DEF M, n, sorted, other
<1> HIDE DEF n, sorted, other
<1>3. n # 0
  <2>1. Cardinality(S) = 0 => S = {}
    BY <1>1, FS_EmptySet
  <2> QED
    BY <2>1 DEF n
<1>4. \A k \in 1..n : sorted[k] \in S /\ other[k] = move[sorted[k]] /\ others[other[k]] = masks[sorted[k]]
  <2>1. \A k \in 1..n : sorted[k] \in S
    BY <1>1 DEF Bijection, Injection
  <2> QED
    BY <1>0, <1>2, <2>1
<1>5. others[other[1]].slot = masks[sorted[1]].slot
  <2>1. 1 \in 1..n
    BY <1>1, <1>3
  <2> QED
    BY <1>4, <2>1
<1>6. [k \in 1..n |-> others[other[k]].area] = [k \in 1..n |-> masks[sorted[k]].area]
  BY <1>4
<1>7. {others[x].box : x \in M} = {masks[i].box : i \in S}
  BY <1>0
<1>8. {others[x] : x \in M} = {masks[i] : i \in S}
  BY <1>0
<1> DEFINE slot == masks[sorted[1]].slot
           area == SumTo([k \in 1..n |-> masks[sorted[k]].area], n)
           box == UnionBox({masks[i].box : i \in S})
<1>9. Pair(masks, S) = Candidate(slot, area, box, S, 0)
  BY Zenon DEF Pair, n, sorted
<1>10. Pair(others, M) = Candidate(others[other[1]].slot,
                                   SumTo([k \in 1..n |-> others[other[k]].area], n),
                                   UnionBox({others[i].box : i \in M}), M, 0)
  <2>1. Pair(others, M) = Candidate(others[other[1]].slot,
                                    SumTo([k \in 1..Cardinality(M) |-> others[other[k]].area], Cardinality(M)),
                                    UnionBox({others[i].box : i \in M}), M, 0)
    BY Zenon DEF Pair, other
  <2> HIDE DEF M
  <2> QED
    BY <1>2, <2>1, Zenon
<1>11. Pair(others, M) = Candidate(slot, area, box, M, 0)
  <2> HIDE DEF M
  <2> QED
    BY <1>5, <1>6, <1>7, <1>10, Zenon DEF slot, area, box
<1> HIDE DEF slot, area, box
<1>12. View(masks, Pair(masks, S)) = <<slot, area, box, {masks[i] : i \in S}>>
  BY <1>9 DEF View, Candidate
<1>13. View(others, Pair(others, M)) = <<slot, area, box, {others[i] : i \in M}>>
  <2> HIDE DEF M
  <2> QED
    BY <1>11 DEF View, Candidate
<1> HIDE DEF M
<1>14. View(others, Pair(others, M)) = View(masks, Pair(masks, S))
  BY <1>8, <1>12, <1>13
<1> QED
  BY <1>14 DEF M

\* What a wardrobe sees of the masks S.
Views(masks, S) == {View(masks, c) : c \in Garment(masks, S)}

LEMMA GarmentsMove ==
  ASSUME NEW masks, NEW K, NEW others, NEW L, NEW move, Renumbers(move, masks, K, others, L),
         NEW S \in SUBSET K
  PROVE  Views(others, {move[i] : i \in S}) = Views(masks, S)
<1> DEFINE M == {move[i] : i \in S}
           shoes == Shod(masks, S)
           shod == Shod(others, M)
<1>0. shoes \in SUBSET K /\ shoes \in SUBSET S
  BY DEF Shod
<1>1. shod = {move[i] : i \in shoes}
  <2>1. Shod(others, {move[i] : i \in S}) = {move[i] : i \in Shod(masks, S)}
    BY ShodMoves
  <2> QED
    BY <2>1
<1>2. \A i \in S : View(others, Single(others, move[i])) = View(masks, Single(masks, i))
  BY SingleViewMoves
<1>3. shoes # {} => View(others, Pair(others, shod)) = View(masks, Pair(masks, shoes))
  <2> HIDE DEF shoes, shod
  <2> QED
    BY <1>0, <1>1, PairViewMoves
<1>4. \A i, j \in K : move[i] = move[j] => i = j
  BY RenumbersIs
<1>5. Garment(masks, S) = {Single(masks, i) : i \in S \ shoes}
                            \cup (IF shoes = {} THEN {} ELSE {Pair(masks, shoes)})
  BY DEF Garment
<1>6. Garment(others, M) = {Single(others, i) : i \in M \ shod}
                             \cup (IF shod = {} THEN {} ELSE {Pair(others, shod)})
  BY DEF Garment
<1> HIDE DEF shoes, shod
<1>7. M \ shod = {move[i] : i \in S \ shoes} /\ (shod = {} <=> shoes = {})
  <2>1. \A i \in S : move[i] \in shod <=> i \in shoes
    BY <1>0, <1>1, <1>4
  <2> QED
    BY <1>0, <1>1, <2>1
<1> DEFINE one(i) == View(masks, Single(masks, i))
           pair == View(masks, Pair(masks, shoes))
           G == Garment(masks, S)
           H == Garment(others, M)
<1>8. \A x : x \in {View(masks, c) : c \in G} <=>
               (\E i \in S \ shoes : x = one(i)) \/ (shoes # {} /\ x = pair)
  BY <1>5
<1>9. \A x : x \in {View(others, c) : c \in H} <=>
               (\E i \in M \ shod : x = View(others, Single(others, i)))
               \/ (shod # {} /\ x = View(others, Pair(others, shod)))
  <2> HIDE DEF M
  <2> QED
    BY <1>6
<1>10. \A x : (\E i \in M \ shod : x = View(others, Single(others, i))) <=> \E i \in S \ shoes : x = one(i)
  <2> HIDE DEF M
  <2> QED
    BY <1>2, <1>7
<1> HIDE DEF one, pair, G, H, M
<1>11. \A x : x \in {View(others, c) : c \in H} <=> x \in {View(masks, c) : c \in G}
  <2>1. shoes # {} => View(others, Pair(others, shod)) = pair
    BY <1>3 DEF pair
  <2> QED
    BY <1>7, <1>8, <1>9, <1>10, <2>1
<1>12. {View(others, c) : c \in H} = {View(masks, c) : c \in G}
  BY <1>11
<1> QED
  BY <1>12 DEF G, H, M, Views

LEMMA GarmentsAreViews ==
  ASSUME NEW masks, NEW result
  PROVE  Garments(masks, result) = {View(masks, c) : c \in ToSet(result.candidates)}
BY DEF Garments, View

\* A photo of clothes on nobody: one garment for a component, none of masks.
LEMMA FlatGarments ==
  ASSUME NEW S, NEW components \in Seq(S)
  PROVE  LET result == FlatLay(components)
         IN  /\ ~result.worn /\ result.outcome = "ok"
             /\ DOMAIN result.candidates = 1..Larger(1, Len(components))
             /\ Len(result.candidates) = Larger(1, Len(components))
             /\ \A k \in DOMAIN result.candidates :
                  result.candidates[k].slot = NoSlot /\ result.candidates[k].masks = {}
<1> DEFINE result == FlatLay(components)
           n == Len(components)
<1>1. n \in Nat /\ DOMAIN components = 1..n
  OBVIOUS
<1>2. CASE components = <<>>
  <2>1. n = 0
    BY <1>2
  <2>2. result = Found(<<Candidate(NoSlot, 1000, <<0, 0, 0, 0>>, {}, 0)>>, FALSE)
    BY <1>2 DEF FlatLay
  <2> DEFINE c == Candidate(NoSlot, 1000, <<0, 0, 0, 0>>, {}, 0)
  <2>3. c.slot = NoSlot /\ c.masks = {}
    BY DEF Candidate
  <2> HIDE DEF c, n
  <2>4. result.candidates = <<c>> /\ ~result.worn /\ result.outcome = "ok"
    BY <2>2 DEF Found, c
  <2>5. Larger(1, n) = 1
    BY <2>1 DEF Larger
  <2> HIDE DEF result
  <2>6. DOMAIN <<c>> = 1..1 /\ Len(<<c>>) = 1 /\ <<c>>[1] = c
    OBVIOUS
  <2>7. \A k \in 1..1 : k = 1
    OBVIOUS
  <2> QED
    BY <2>3, <2>4, <2>5, <2>6, <2>7 DEF result, n
<1>3. CASE components # <<>>
  <2> DEFINE c(k) == Candidate(NoSlot, components[k].area, components[k].box, {}, k)
             list == [k \in 1..n |-> c(k)]
  <2>1. n >= 1 /\ Larger(1, n) = n
    BY <1>1, <1>3 DEF Larger
  <2>2. result = Found(list, FALSE)
    BY <1>1, <1>3 DEF FlatLay
  <2>3. result.candidates = list /\ ~result.worn /\ result.outcome = "ok"
    <3> HIDE DEF list
    <3> QED
      BY <2>2 DEF Found
  <2>4. \A k \in 1..n : list[k].slot = NoSlot /\ list[k].masks = {}
    BY DEF Candidate
  <2>5. Len(list) = n /\ DOMAIN list = 1..n
    <3> DEFINE D == {c(k) : k \in 1..n}
    <3>1. \A k \in 1..n : c(k) \in D
      OBVIOUS
    <3> HIDE DEF c, D, n
    <3>2. list \in [1..n -> D]
      BY <3>1
    <3>3. list \in Seq(D) /\ DOMAIN list = 1..n
      BY <1>1, <3>2
    <3> QED
      BY <1>1, <3>3
  <2> HIDE DEF list, result, n
  <2> QED
    BY <2>1, <2>3, <2>4, <2>5 DEF result, n
<1> QED
  BY <1>2, <1>3

LEMMA WornMove ==
  ASSUME NEW masks, NEW K, NEW others, NEW L, NEW move, Renumbers(move, masks, K, others, L)
  PROVE  Views(others, Survivors(others, L)) = Views(masks, Survivors(masks, K))
<1>1. /\ Sized(masks) /\ K \in SUBSET DOMAIN masks
      /\ Sized(others) /\ L \in SUBSET DOMAIN others
      /\ Moves(move, masks, K, others, L)
  BY DEF Renumbers, Photo
<1>2. Survivors(others, L) = {move[i] : i \in Survivors(masks, K)}
  BY <1>1, SurvivorsMove
<1>3. Survivors(masks, K) \in SUBSET K
  BY <1>1, SurvivorsAre DEF Surviving
<1> DEFINE T == Survivors(masks, K)
           U == Survivors(others, L)
<1>4. T \in SUBSET K /\ U = {move[i] : i \in T}
  BY <1>2, <1>3
<1> HIDE DEF T, U
<1>5. Views(others, {move[i] : i \in T}) = Views(masks, T)
  BY <1>4, GarmentsMove
<1>6. Views(others, U) = Views(masks, T)
  BY <1>4, <1>5
<1> QED
  BY <1>6 DEF T, U

LEMMA SplitMoves ==
  ASSUME NEW masks, NEW others, NEW move,
         Renumbers(move, masks, Kept(masks), others, Kept(others)), NEW skin \in Int,
         NEW S, NEW components \in Seq(S)
  PROVE  Garments(others, SplitMasks(others, skin, components))
           = Garments(masks, SplitMasks(masks, skin, components))
<1> DEFINE K == Kept(masks)
           L == Kept(others)
           here == SplitMasks(masks, skin, components)
           there == SplitMasks(others, skin, components)
<1>1. CASE skin < WornSkin
  <2>1. here = FlatLay(components) /\ there = FlatLay(components)
    BY <1>1 DEF SplitMasks
  <2> DEFINE found == FlatLay(components)
  <2>2. \A k \in DOMAIN found.candidates : found.candidates[k].masks = {}
    BY FlatGarments
  <2> HIDE DEF found
  <2>3. \A c \in ToSet(found.candidates) : c.masks = {}
    BY <2>2 DEF ToSet
  <2>4. \A c \in ToSet(found.candidates) : View(others, c) = View(masks, c)
    <3> TAKE c \in ToSet(found.candidates)
    <3>1. {others[i] : i \in c.masks} = {} /\ {masks[i] : i \in c.masks} = {}
      BY <2>3
    <3> QED
      BY <3>1 DEF View
  <2>5. {View(others, c) : c \in ToSet(found.candidates)} = {View(masks, c) : c \in ToSet(found.candidates)}
    BY <2>4
  <2> HIDE DEF here, there
  <2>6. here = found /\ there = found
    BY <2>1 DEF found
  <2>7. Garments(others, there) = Garments(masks, here)
    BY <2>5, <2>6, GarmentsAreViews
  <2> QED
    BY <2>7 DEF here, there
<1>2. CASE skin >= WornSkin
  <2>0. ~(skin < WornSkin)
    BY <1>2 DEF WornSkin
  <2>1. Ambiguous(masks, K) <=> Ambiguous(others, L)
    BY AmbiguityMoves DEF Renumbers
  <2>2. K = {} <=> L = {}
    BY RenumbersIs
  <2>3. CASE K = {} \/ Ambiguous(masks, K)
    <3>1. here = Review(TRUE) /\ there = Review(TRUE)
      BY <2>0, <2>1, <2>2, <2>3 DEF SplitMasks
    <3> HIDE DEF here, there
    <3>2. here.candidates = <<>> /\ there.candidates = <<>>
      BY <3>1 DEF Review
    <3>3. ToSet(<<>>) = {}
      BY DEF ToSet
    <3>4. {View(others, c) : c \in ToSet(there.candidates)} = {View(masks, c) : c \in ToSet(here.candidates)}
      BY <3>2, <3>3
    <3>5. Garments(others, there) = Garments(masks, here)
      BY <3>4, GarmentsAreViews
    <3> QED
      BY <3>5 DEF here, there
  <2>4. CASE K # {} /\ ~Ambiguous(masks, K)
    <3> DEFINE T == Survivors(masks, K)
               U == Survivors(others, L)
    <3>1. T \in SUBSET K /\ ToSet(here.candidates) = Garment(masks, T)
      <4>1. Photo(masks)
        BY DEF Renumbers
      <4> QED
        BY <1>2, <2>4, <4>1, WornGarments
    <3>2. ToSet(there.candidates) = Garment(others, U)
      <4>1. Photo(others)
        BY DEF Renumbers
      <4> QED
        BY <1>2, <2>1, <2>2, <2>4, <4>1, WornGarments
    <3>3. Views(others, U) = Views(masks, T)
      <4>1. Renumbers(move, masks, K, others, L)
        OBVIOUS
      <4> HIDE DEF K, L
      <4> QED
        BY <4>1, WornMove
    <3> HIDE DEF T, U, here, there
    <3>5. Garments(others, there) = Garments(masks, here)
      BY <3>1, <3>2, <3>3, GarmentsAreViews DEF Views
    <3> QED
      BY <3>5 DEF here, there
  <2> QED
    BY <2>3, <2>4
<1> QED
  BY <1>1, <1>2 DEF WornSkin

\* Masks under the floor fill places of the list, and no more.
LEMMA FloorMoves ==
  ASSUME NEW S, NEW masks \in Seq(S), Photo(masks)
  PROVE  LET I == {i \in DOMAIN masks : masks[i].area >= MinArea}
             clean == Where(masks, I)
         IN  \E move : Renumbers(move, clean, Kept(clean), masks, Kept(masks))
<1> DEFINE I == {i \in DOMAIN masks : masks[i].area >= MinArea}
           clean == Where(masks, I)
           at == Increasing(I)
           n == Cardinality(I)
           move == [k \in Kept(clean) |-> at[k]]
<1>0. I \in SUBSET DOMAIN masks
  OBVIOUS
<1>1. /\ DOMAIN clean = 1..n
      /\ \A k \in 1..n : at[k] \in I /\ clean[k] = masks[at[k]]
      /\ \A i \in I : \E k \in 1..n : at[k] = i
      /\ \A k, l \in 1..n : (k < l <=> at[k] < at[l]) /\ (at[k] = at[l] => k = l)
  <2> HIDE DEF I
  <2>0. I \in SUBSET DOMAIN masks
    BY <1>0
  <2>1. /\ DOMAIN clean = 1..n
        /\ \A k \in DOMAIN clean : at[k] \in I /\ clean[k] = masks[at[k]]
        /\ \A i \in I : \E k \in DOMAIN clean : at[k] = i
    BY <2>0, WhereIs
  <2>2. \A k, l \in DOMAIN clean : k < l <=> at[k] < at[l]
    BY <2>0, WhereIs
  <2>3. \A k, l \in DOMAIN clean : at[k] = at[l] => k = l
    BY <2>0, WhereIs
  <2> HIDE DEF clean, at, n
  <2> QED
    BY <2>1, <2>2, <2>3
<1>2. n \in Nat
  <2>1. PICK m \in Nat : DOMAIN masks = 1..m
    BY DEF Photo, Sized
  <2>2. IsFiniteSet(1..m)
    BY <2>1, FS_Interval
  <2> HIDE DEF I
  <2> QED
    BY <1>0, <2>1, <2>2, FS_Subset, FS_CardinalityType
<1>3. \A i \in DOMAIN masks : masks[i].area \in Int /\ \A k \in 1..4 : masks[i].box[k] \in Int
  BY DEF Photo, Sized
<1> DEFINE K == Kept(clean)
           L == Kept(masks)
<1>4. \A k \in 1..n : k \in K <=> at[k] \in L
  <2>1. \A k \in 1..n : k \in K <=> clean[k].area >= MinArea /\ clean[k].slot # NoSlot
    BY <1>1 DEF Kept
  <2>2. \A i \in DOMAIN masks : i \in L <=> masks[i].area >= MinArea /\ masks[i].slot # NoSlot
    BY DEF Kept
  <2> HIDE DEF I, clean, at, n, K, L
  <2> QED
    BY <1>0, <1>1, <2>1, <2>2
<1>5. L \subseteq I /\ K \in SUBSET (1..n)
  BY <1>1 DEF Kept
<1> HIDE DEF clean, at, n
<1>6. Photo(clean)
  <2>1. \A k \in 1..n : clean[k].area \in Int /\ \A c \in 1..4 : clean[k].box[c] \in Int
    BY <1>0, <1>1, <1>3, SMTT(40)
  <2> QED
    BY <1>1, <1>2, <2>1 DEF Photo, Sized
<1> HIDE DEF I, K, L
<1>7. \A k \in K : move[k] = at[k] /\ k \in 1..n
  BY <1>5 DEF K
<1>8. move \in Bijection(K, L)
  <2>1. move \in [K -> L]
    <3>1. \A k \in K : at[k] \in L
      BY <1>4, <1>5
    <3> QED
      BY <3>1 DEF K
  <2>2. \A k, l \in K : move[k] = move[l] => k = l
    BY <1>1, <1>7
  <2>3. \A i \in L : \E k \in K : move[k] = i
    BY <1>1, <1>4, <1>5, <1>7
  <2> HIDE DEF move
  <2> QED
    BY <2>1, <2>2, <2>3 DEF Bijection, Injection, Surjection, IsInjective
<1>9. \A k \in K : masks[move[k]] = clean[k]
  BY <1>1, <1>7
<1>10. \A k, l \in K : Bigger(clean, k, l) <=> Bigger(masks, move[k], move[l])
  BY <1>1, <1>7, <1>9 DEF Bigger
<1> HIDE DEF move
<1>11. Moves(move, clean, K, masks, L)
  BY <1>8, <1>9, <1>10 DEF Moves
<1>12. K \in SUBSET DOMAIN clean /\ L \in SUBSET DOMAIN masks
  BY <1>1, <1>5, <1>0
<1>13. Renumbers(move, clean, K, masks, L)
  BY <1>6, <1>11, <1>12 DEF Renumbers
<1> QED
  BY <1>13 DEF I, clean, K, L

\* Of masks of different sizes, the list's order says nothing.
LEMMA ReversalMoves ==
  ASSUME NEW S, NEW masks \in Seq(S), Photo(masks),
         \A i, j \in DOMAIN masks : i # j => masks[i].area # masks[j].area
  PROVE  \E move : Renumbers(move, masks, Kept(masks), Reversed(masks), Kept(Reversed(masks)))
<1> DEFINE n == Len(masks)
           others == Reversed(masks)
           K == Kept(masks)
           L == Kept(others)
           move == [i \in K |-> n + 1 - i]
<1>1. n \in Nat /\ DOMAIN masks = 1..n
  OBVIOUS
<1>2. DOMAIN others = 1..n /\ \A i \in 1..n : others[i] = masks[n + 1 - i]
  BY <1>1 DEF Reversed
<1>3. \A i \in 1..n : n + 1 - i \in 1..n /\ n + 1 - (n + 1 - i) = i
  BY <1>1
<1> HIDE DEF n, others
<1>4. \A i \in 1..n : masks[i].area \in Int /\ \A k \in 1..4 : masks[i].box[k] \in Int
  BY <1>1 DEF Photo, Sized
<1>5. Photo(others)
  <2>1. \A k \in 1..n : others[k].area \in Int /\ \A c \in 1..4 : others[k].box[c] \in Int
    BY <1>2, <1>3, <1>4
  <2> QED
    BY <1>1, <1>2, <2>1 DEF Photo, Sized
<1>6. \A i \in 1..n : i \in K <=> n + 1 - i \in L
  <2>1. \A i \in 1..n : i \in K <=> masks[i].area >= MinArea /\ masks[i].slot # NoSlot
    BY <1>1 DEF Kept
  <2>2. \A i \in 1..n : i \in L <=> others[i].area >= MinArea /\ others[i].slot # NoSlot
    BY <1>2 DEF Kept
  <2>3. \A i \in 1..n : others[n + 1 - i] = masks[i]
    BY <1>2, <1>3
  <2> HIDE DEF K, L
  <2> QED
    BY <1>3, <2>1, <2>2, <2>3
<1>7. K \in SUBSET (1..n) /\ L \in SUBSET (1..n)
  BY <1>1, <1>2 DEF Kept
<1> HIDE DEF K, L
<1>8. \A i \in K : move[i] = n + 1 - i /\ i \in 1..n
  BY <1>7
<1>9. move \in Bijection(K, L)
  <2>1. move \in [K -> L]
    BY <1>6, <1>7
  <2>2. \A k, l \in K : move[k] = move[l] => k = l
    BY <1>1, <1>7, <1>8
  <2>3. \A i \in L : \E k \in K : move[k] = i
    <3> TAKE i \in L
    <3>1. n + 1 - i \in K
      BY <1>3, <1>6, <1>7
    <3>2. move[n + 1 - i] = i
      BY <1>3, <1>7, <1>8, <3>1
    <3> QED
      BY <3>1, <3>2
  <2> HIDE DEF move
  <2> QED
    BY <2>1, <2>2, <2>3 DEF Bijection, Injection, Surjection, IsInjective
<1>10. \A i \in K : others[move[i]] = masks[i] /\ move[i] \in 1..n
  BY <1>2, <1>3, <1>8
<1>11. \A i, j \in K : Bigger(masks, i, j) <=> Bigger(others, move[i], move[j])
  <2> TAKE i \in K, j \in K
  <2>1. CASE i = j
    <3>1. move[i] \in Int /\ i \in Int /\ masks[i].area \in Int
      BY <1>4, <1>7, <1>10
    <3> QED
      BY <1>10, <2>1, <3>1 DEF Bigger
  <2>2. CASE i # j
    <3>1. masks[i].area # masks[j].area
      BY <1>1, <1>7, <2>2
    <3> QED
      BY <1>10, <3>1 DEF Bigger
  <2> QED
    BY <2>1, <2>2
<1> HIDE DEF move
<1>12. Moves(move, masks, K, others, L)
  BY <1>9, <1>10, <1>11 DEF Moves
<1>13. Renumbers(move, masks, K, others, L)
  BY <1>1, <1>2, <1>5, <1>7, <1>12 DEF Renumbers
<1> QED
  BY <1>13 DEF K, L, others

\* Each clause of GarmentsAreReal.
NoRegionTwice(masks, result) ==
  \A j, k \in DOMAIN result.candidates :
    j # k => /\ result.candidates[j].masks \cap result.candidates[k].masks = {}
             /\ \A i \in result.candidates[j].masks, h \in result.candidates[k].masks :
                  ~OverlapMore(masks[i].box, masks[h].box, 5)

NothingLost(masks, result) ==
  /\ \A i \in Kept(masks) \ UNION MaskSets(result) :
       \E s \in UNION MaskSets(result) :
         masks[s].area >= masks[i].area /\ OverlapMore(masks[i].box, masks[s].box, 5)
  /\ UNION MaskSets(result) \subseteq Kept(masks)
  /\ \A S \in MaskSets(result) :
       (\E i \in S : masks[i].label \in Shoes)
         => \A h \in UNION MaskSets(result) : masks[h].label \in Shoes <=> h \in S

LEMMA WornIsReal ==
  ASSUME NEW masks, Photo(masks), NEW skin \in Int, skin >= WornSkin, NEW components,
         Kept(masks) # {}, ~Ambiguous(masks, Kept(masks))
  PROVE  /\ NoRegionTwice(masks, SplitMasks(masks, skin, components))
         /\ NothingLost(masks, SplitMasks(masks, skin, components))
         /\ SplitMasks(masks, skin, components).worn
<1> DEFINE K == Kept(masks)
           T == Survivors(masks, K)
           result == SplitMasks(masks, skin, components)
           shoes == Shod(masks, T)
           M == {{i} : i \in T \ shoes} \cup (IF shoes = {} THEN {} ELSE {shoes})
<1>1. /\ result = Found(MergePairs(masks, T), TRUE)
      /\ T \in SUBSET K /\ K \in SUBSET DOMAIN masks
      /\ UNION MaskSets(result) = T
      /\ MaskSets(result) = {c.masks : c \in Garment(masks, T)}
  BY WornGarments
<1>2. Surviving(masks, K, T)
  <2>1. Sized(masks) /\ K \in SUBSET DOMAIN masks
    BY <1>1 DEF Photo
  <2> HIDE DEF K
  <2> QED
    BY <2>1, SurvivorsAre
<1>3. \A i, j \in T : i # j => ~OverlapMore(masks[i].box, masks[j].box, 5)
  <2> HIDE DEF K
  <2> QED
    BY <1>1, SurvivorsApart
<1> HIDE DEF K, T, result
<1>4. result.candidates = MergePairs(masks, T) /\ result.worn
  BY <1>1 DEF Found
<1>5. \A j, k \in DOMAIN result.candidates :
        j # k => result.candidates[j].masks \cap result.candidates[k].masks = {}
  <2>1. Sized(masks) /\ T \in SUBSET DOMAIN masks
    BY <1>1 DEF Photo
  <2>2. \A j, k \in DOMAIN MergePairs(masks, T) :
          j # k => MergePairs(masks, T)[j].masks \cap MergePairs(masks, T)[k].masks = {}
    BY <2>1, MergedAre
  <2> QED
    BY <1>4, <2>2
<1>6. NoRegionTwice(masks, result)
  <2>1. \A j \in DOMAIN result.candidates : result.candidates[j].masks \subseteq T
    BY <1>1 DEF MaskSets
  <2> QED
    BY <1>3, <1>5, <2>1 DEF NoRegionTwice
<1>7. \A i \in K \ T : \E s \in T :
        masks[s].area >= masks[i].area /\ OverlapMore(masks[i].box, masks[s].box, 5)
  <2> TAKE i \in K \ T
  <2>1. PICK s \in T : Bigger(masks, s, i) /\ OverlapMore(masks[i].box, masks[s].box, 5)
    BY <1>2 DEF Surviving
  <2>2. masks[s].area \in Int /\ masks[i].area \in Int
    BY <1>1 DEF Photo, Sized
  <2> QED
    BY <2>1, <2>2 DEF Bigger
<1>8. MaskSets(result) = M
  <2>1. Sized(masks) /\ T \in SUBSET DOMAIN masks
    BY <1>1 DEF Photo
  <2> QED
    BY <1>1, <2>1, GarmentMasks
<1>9. \A S \in M : (\E i \in S : masks[i].label \in Shoes)
                     => \A h \in T : masks[h].label \in Shoes <=> h \in S
  <2>1. \A h \in T : h \in shoes <=> masks[h].label \in Shoes
    BY DEF Shod
  <2>2. \A S \in M : (\E i \in S : masks[i].label \in Shoes) => S = shoes
    <3> HIDE DEF shoes
    <3> QED
      BY <2>1
  <2> HIDE DEF M, shoes
  <2> QED
    BY <2>1, <2>2
<1> HIDE DEF M
<1>10. NothingLost(masks, result)
  BY <1>1, <1>7, <1>8, <1>9 DEF NothingLost, K
<1> QED
  BY <1>4, <1>6, <1>10 DEF result

LEMMA NothingFoundIsReal ==
  ASSUME NEW masks, NEW worn
  PROVE  NoRegionTwice(masks, Review(worn)) /\ Review(worn).outcome = "needs_review"
         /\ Review(worn).worn = worn
BY DEF NoRegionTwice, Review

LEMMA FlatIsReal ==
  ASSUME NEW masks, NEW S, NEW components \in Seq(S)
  PROVE  /\ NoRegionTwice(masks, FlatLay(components)) /\ ~FlatLay(components).worn
         /\ Len(FlatLay(components).candidates) = Larger(1, Len(components))
         /\ \A c \in ToSet(FlatLay(components).candidates) : c.slot = NoSlot /\ c.masks = {}
<1> DEFINE result == FlatLay(components)
<1>1. /\ ~result.worn
      /\ Len(result.candidates) = Larger(1, Len(components))
      /\ \A k \in DOMAIN result.candidates :
           result.candidates[k].slot = NoSlot /\ result.candidates[k].masks = {}
  BY FlatGarments
<1> HIDE DEF result
<1>2. NoRegionTwice(masks, result)
  BY <1>1 DEF NoRegionTwice
<1>3. \A c \in ToSet(result.candidates) : c.slot = NoSlot /\ c.masks = {}
  BY <1>1 DEF ToSet
<1> QED
  BY <1>1, <1>2, <1>3 DEF result

(* Of any photo, of any number of masks with any areas and boxes: no phantom, no  *)
(* lost garment, nothing twice, and neither a mask under the floor nor the order  *)
(* of the model's list has a say (split.py, split_masks).                         *)
THEOREM GarmentsAlwaysReal ==
  ASSUME NEW S, NEW masks \in Seq(S), Photo(masks), NEW skin \in Int,
         NEW C, NEW components \in Seq(C)
  PROVE  GarmentsAreReal(masks, skin, components, SplitMasks(masks, skin, components))
<1> DEFINE result == SplitMasks(masks, skin, components)
           I == {i \in DOMAIN masks : masks[i].area >= MinArea}
           clean == Where(masks, I)
           others == Reversed(masks)
           differ == \A i, j \in DOMAIN masks : i # j => masks[i].area # masks[j].area
<1>1. /\ NoRegionTwice(masks, result)
      /\ result.worn /\ result.outcome = "ok" => NothingLost(masks, result)
      /\ ~result.worn => /\ Len(result.candidates) = Larger(1, Len(components))
                         /\ \A c \in ToSet(result.candidates) : c.slot = NoSlot /\ c.masks = {}
  <2>1. CASE skin < WornSkin
    <3>1. result = FlatLay(components)
      BY <2>1 DEF SplitMasks
    <3> HIDE DEF result
    <3> QED
      BY <3>1, FlatIsReal
  <2>2. CASE ~(skin < WornSkin) /\ (Kept(masks) = {} \/ Ambiguous(masks, Kept(masks)))
    <3>1. result = Review(TRUE)
      BY <2>2 DEF SplitMasks
    <3> HIDE DEF result
    <3>2. NoRegionTwice(masks, result) /\ result.outcome = "needs_review" /\ result.worn = TRUE
      BY <3>1, NothingFoundIsReal
    <3> QED
      BY <3>2
  <2>3. CASE ~(skin < WornSkin) /\ Kept(masks) # {} /\ ~Ambiguous(masks, Kept(masks))
    <3>1. skin >= WornSkin
      BY <2>3 DEF WornSkin
    <3>2. NoRegionTwice(masks, result) /\ NothingLost(masks, result) /\ result.worn
      BY <2>3, <3>1, WornIsReal
    <3> HIDE DEF result
    <3> QED
      BY <3>2
  <2> QED
    BY <2>1, <2>2, <2>3
<1>2. Garments(clean, SplitMasks(clean, skin, components)) = Garments(masks, result)
  <2>1. PICK move : Renumbers(move, clean, Kept(clean), masks, Kept(masks))
    BY FloorMoves
  <2> HIDE DEF clean
  <2> QED
    BY <2>1, SplitMoves
<1>3. differ => Garments(others, SplitMasks(others, skin, components)) = Garments(masks, result)
  <2> SUFFICES ASSUME differ
               PROVE  Garments(others, SplitMasks(others, skin, components)) = Garments(masks, result)
    OBVIOUS
  <2>1. PICK move : Renumbers(move, masks, Kept(masks), others, Kept(others))
    BY ReversalMoves
  <2> HIDE DEF others
  <2> QED
    BY <2>1, SplitMoves
<1> DEFINE same == Garments(clean, SplitMasks(clean, skin, components)) = Garments(masks, result)
           turned == Garments(others, SplitMasks(others, skin, components)) = Garments(masks, result)
<1>4. GarmentsAreReal(masks, skin, components, result) <=>
        /\ NoRegionTwice(masks, result)
        /\ result.worn /\ result.outcome = "ok" => NothingLost(masks, result)
        /\ ~result.worn => /\ Len(result.candidates) = Larger(1, Len(components))
                           /\ \A c \in ToSet(result.candidates) : c.slot = NoSlot /\ c.masks = {}
        /\ same
        /\ differ => turned
  <2> HIDE DEF result
  <2> QED
    BY Zenon DEF GarmentsAreReal, NoRegionTwice, NothingLost
<1> QED
  BY <1>1, <1>2, <1>3, <1>4, Zenon

\* The photos asked about, and what a bare frame's components are.
Photos ==
  \A masks \in Masks : DOMAIN masks = 1..3 /\ masks \in Seq({masks[i] : i \in 1..3}) /\ Photo(masks)

LEMMA MasksAre == Photos /\ Masks # {}
<1>1. Photos
  <2> SUFFICES ASSUME NEW masks \in Masks
               PROVE  DOMAIN masks = 1..3 /\ masks \in Seq({masks[i] : i \in 1..3}) /\ Photo(masks)
    BY DEF Photos
  <2>1. PICK labels \in LabelSets, area \in [1..3 -> {10, 20, 50}], box \in [1..3 -> Boxes] :
          masks = [i \in 1..3 |->
                     [label |-> labels[i][1], slot |-> labels[i][2], area |-> area[i], box |-> box[i]]]
    BY DEF Masks
  <2>2. \A b \in Boxes : \A k \in 1..4 : b[k] \in Int
    BY DEF Boxes
  <2>3. DOMAIN masks = 1..3 /\ \A i \in 1..3 : masks[i].area = area[i] /\ masks[i].box = box[i]
    BY <2>1
  <2>4. \A i \in 1..3 : masks[i].area \in Int /\ \A k \in 1..4 : masks[i].box[k] \in Int
    <3>1. \A i \in 1..3 : area[i] \in Int /\ box[i] \in Boxes
      BY <2>1
    <3> QED
      BY <2>2, <2>3, <3>1
  <2>5. masks \in Seq({masks[i] : i \in 1..3})
    <3> DEFINE D == {masks[i] : i \in 1..3}
    <3>1. masks = [i \in 1..3 |-> masks[i]]
      BY <2>1
    <3>2. \A i \in 1..3 : masks[i] \in D
      OBVIOUS
    <3> DEFINE n == 3
    <3>3. n \in Nat /\ masks = [i \in 1..n |-> masks[i]] /\ \A i \in 1..n : masks[i] \in D
      BY <3>1, <3>2
    <3> HIDE DEF D, n
    <3>4. masks \in [1..n -> D]
      BY <3>3
    <3>5. masks \in Seq(D)
      BY <3>3, <3>4
    <3> QED
      BY <3>5 DEF D
  <2>6. Photo(masks)
    BY <2>3, <2>4 DEF Photo, Sized
  <2> QED
    BY <2>3, <2>5, <2>6
<1>2. Masks # {}
  <2>1. \E labels \in LabelSets : TRUE
    BY DEF LabelSets
  <2>2. \E box \in [1..3 -> Boxes] : TRUE
    <3>1. <<0, 0, 2, 2>> \in Boxes
      BY DEF Boxes
    <3> HIDE DEF Boxes
    <3>2. [i \in 1..3 |-> <<0, 0, 2, 2>>] \in [1..3 -> Boxes]
      BY <3>1
    <3> QED
      BY <3>2
  <2>3. \E area \in [1..3 -> {10, 20, 50}] : TRUE
    <3>1. [i \in 1..3 |-> 10] \in [1..3 -> {10, 20, 50}]
      OBVIOUS
    <3> QED
      BY <3>1
  <2>4. PICK labels \in LabelSets, area \in [1..3 -> {10, 20, 50}], box \in [1..3 -> Boxes] : TRUE
    BY <2>1, <2>2, <2>3
  <2> DEFINE photo(l, a, b) ==
               [i \in 1..3 |-> [label |-> l[i][1], slot |-> l[i][2], area |-> a[i], box |-> b[i]]]
  <2>5. Masks = {photo(l, a, b) : l \in LabelSets, a \in [1..3 -> {10, 20, 50}], b \in [1..3 -> Boxes]}
    BY DEF Masks
  <2> HIDE DEF photo
  <2>6. photo(labels, area, box) \in Masks
    BY <2>4, <2>5
  <2> QED
    BY <2>6
<1> QED
  BY <1>1, <1>2

Components == {Component(40), Component(30)}

\* Every photo asked about is one, and its answer is its split.
AskedOfSplit ==
  ask.kind = "split" =>
    /\ ask.of[1] \in Masks /\ ask.of[2] \in Int /\ ask.of[3] \in Seq(Components)
    /\ answer = Nothing \/ answer = SplitMasks(ask.of[1], ask.of[2], ask.of[3])

SplitInv == part = "pure" => AskedOfSplit

LEMMA SplitInitInv == Init => SplitInv
<1> SUFFICES ASSUME Init, part = "pure", ask.kind = "split"
             PROVE  AskedOfSplit
  BY DEF SplitInv, AskedOfSplit
<1>1. answer = Nothing
  BY DEF Init
<1>2. \/ ask \in AsksOf("split", Masks \X {10} \X {<<>>})
      \/ ask \in AsksOf("split", {CHOOSE m \in Masks : TRUE} \X {0}
                           \X {<<>>, <<Component(40)>>, <<Component(40), Component(30)>>})
  BY DEF Init, AsksOf
<1>3. ask.of \in Masks \X Int \X Seq(Components)
  <2> DEFINE c == Component(40)
             d == Component(30)
             first == CHOOSE m \in Masks : TRUE
  <2>1. first \in Masks
    BY MasksAre
  <2>2. Components = {c, d}
    BY DEF Components
  <2> HIDE DEF c, d, first
  <2>3. /\ <<>> \in Seq(Components) /\ <<c>> \in Seq(Components) /\ <<c, d>> \in Seq(Components)
    BY <2>2
  <2>4. \/ ask.of \in Masks \X {10} \X {<<>>}
        \/ ask.of \in {first} \X {0} \X {<<>>, <<c>>, <<c, d>>}
    BY <1>2 DEF AsksOf, c, d, first
  <2>5. ASSUME NEW x \in Masks \X {10} \X {<<>>} PROVE x \in Masks \X Int \X Seq(Components)
    <3>1. x[1] \in Masks /\ x[2] = 10 /\ x[3] = <<>> /\ x = <<x[1], x[2], x[3]>>
      BY <2>5
    <3>2. x[2] \in Int /\ x[3] \in Seq(Components)
      BY <2>3, <3>1
    <3> QED
      BY <3>1, <3>2
  <2>6. ASSUME NEW x \in {first} \X {0} \X {<<>>, <<c>>, <<c, d>>}
        PROVE  x \in Masks \X Int \X Seq(Components)
    <3>1. x[1] = first /\ x[2] = 0 /\ x[3] \in {<<>>, <<c>>, <<c, d>>} /\ x = <<x[1], x[2], x[3]>>
      BY <2>6
    <3>2. x[3] \in Seq(Components)
      BY <2>3, <3>1
    <3> QED
      BY <2>1, <3>1, <3>2
  <2> QED
    BY <2>4, <2>5, <2>6
<1>4. ask.of[1] \in Masks /\ ask.of[2] \in Int /\ ask.of[3] \in Seq(Components)
  BY <1>3
<1> QED
  BY <1>1, <1>4 DEF AskedOfSplit

LEMMA SplitStep == SplitInv /\ [Next]_vars => SplitInv'
<1> SUFFICES ASSUME SplitInv, [Next]_vars, part' = "pure", ask'.kind = "split"
             PROVE  AskedOfSplit'
  BY DEF SplitInv, AskedOfSplit
<1>1. CASE UNCHANGED vars
  BY <1>1 DEF vars, pureVars, SplitInv, AskedOfSplit
<1>2. CASE Next
  <2>1. part' = part /\ ask' = ask
    BY <1>2 DEF Next, AnswerAsk, pureVars
  <2>2. AnswerAsk
    BY <1>2, <2>1 DEF Next
  <2>3. answer' = SplitMasks(ask.of[1], ask.of[2], ask.of[3])
    BY <2>1, <2>2 DEF AnswerAsk, Asked
  <2> QED
    BY <2>1, <2>3 DEF SplitInv, AskedOfSplit
<1> QED
  BY <1>1, <1>2

(* So it is of every photo that is asked about (split.py).                        *)
THEOREM GarmentsAreAlwaysReal == Spec => []GarmentsReal
<1>1. SplitInv => GarmentsReal
  <2> SUFFICES ASSUME SplitInv, Answered("split")
               PROVE  GarmentsAreReal(ask.of[1], ask.of[2], ask.of[3], answer)
    BY DEF GarmentsReal
  <2> DEFINE masks == ask.of[1]
             skin == ask.of[2]
             components == ask.of[3]
  <2>1. /\ masks \in Masks /\ skin \in Int /\ components \in Seq(Components)
        /\ answer = SplitMasks(masks, skin, components)
    BY DEF SplitInv, Answered, AskedOfSplit
  <2> HIDE DEF masks, skin, components
  <2>2. masks \in Seq({masks[i] : i \in 1..3}) /\ Photo(masks)
    BY <2>1, MasksAre DEF Photos
  <2>3. GarmentsAreReal(masks, skin, components, SplitMasks(masks, skin, components))
    BY <2>1, <2>2, GarmentsAlwaysReal
  <2>4. GarmentsAreReal(masks, skin, components, answer)
    BY <2>1, <2>3
  <2> QED
    BY <2>4 DEF masks, skin, components
<1> QED
  BY <1>1, SplitInitInv, SplitStep, PTL DEF Spec

--------------------------------------------------------------------------------
(* The shop: a wardrobe holds what was said to be bought, once. *)

Owned == [at : {"none", "active", "retired"}, by : {"nobody", "user", "feed"},
          verified : BOOLEAN, worn : BOOLEAN]
Shown == [shown : BOOLEAN, bought : Nat]
Reports == [status : {"none", "pending", "approved", "rejected"}, linked : BOOLEAN]

ShopTyped ==
  /\ sold \in [Sold -> Owned]
  /\ events \in [Sold -> Shown]
  /\ orders \in [Orders -> Reports]
  /\ hearing \in [Orders -> {"none", "pending", "approved"}]
  /\ listed \subseteq Sold
  /\ user \in [tapped : SUBSET Sold, removed : SUBSET Sold]

\* What PurchasesAgree says of one product, and of one order.
ProductAgrees(p) ==
  /\ events[p].bought = IF sold[p].at = "none" THEN 0 ELSE 1
  /\ sold[p].by = "user" => p \in user.tapped
  /\ sold[p].by = "feed" => \E o \in OrdersOf(p) : orders[o].linked
  /\ sold[p].at = "retired" /\ p \in listed \ user.removed =>
       sold[p].by = "feed" /\ \E o \in OrdersOf(p) : orders[o].status = "rejected"

OrderAgrees(o) ==
  /\ orders[o].status \in {"pending", "approved"} /\ Buys[o] \in listed => orders[o].linked
  /\ orders[o].linked => sold[Buys[o]].at # "none"

ShopInv == ShopTyped /\ (\A p \in Sold : ProductAgrees(p)) /\ (\A o \in Orders : OrderAgrees(o))

LEMMA BuysASoldProduct == \A o \in Orders : Buys[o] \in Sold
BY OrdersAssumption

LEMMA ShopInitInv == ShopInit => ShopInv
<1> SUFFICES ASSUME ShopInit PROVE ShopInv
  OBVIOUS
<1>1. Unowned \in Owned /\ Unowned.at = "none" /\ Unowned.by = "nobody"
  BY DEF Unowned, Owned
<1>2. Unreported \in Reports /\ Unreported.status = "none" /\ ~Unreported.linked
  BY DEF Unreported, Reports
<1>3. ShopTyped
  BY <1>1, <1>2 DEF ShopInit, ShopTyped, Shown
<1>4. \A p \in Sold : ProductAgrees(p)
  BY <1>1 DEF ShopInit, ProductAgrees
<1>5. \A o \in Orders : OrderAgrees(o)
  BY <1>2 DEF ShopInit, OrderAgrees
<1> QED
  BY <1>3, <1>4, <1>5 DEF ShopInv

--------------------------------------------------------------------------------
\* The garment of one product changes; the orders stay.
LEMMA GarmentChanges ==
  ASSUME ShopInv, NEW p \in Sold, NEW garment \in Owned,
         sold' = [sold EXCEPT ![p] = garment],
         events' \in [Sold -> Shown], \A q \in Sold \ {p} : events'[q] = events[q],
         user' \in [tapped : SUBSET Sold, removed : SUBSET Sold],
         user.tapped \subseteq user'.tapped, user.removed \subseteq user'.removed,
         UNCHANGED <<orders, hearing, listed>>,
         garment.at = "none" => sold[p].at = "none",
         events'[p].bought = IF garment.at = "none" THEN 0 ELSE 1,
         garment.by = "user" => p \in user'.tapped,
         garment.by = "feed" => \E o \in OrdersOf(p) : orders[o].linked,
         garment.at = "retired" /\ p \in listed \ user'.removed =>
           garment.by = "feed" /\ \E o \in OrdersOf(p) : orders[o].status = "rejected"
  PROVE  ShopInv'
<1>1. sold' \in [Sold -> Owned] /\ sold'[p] = garment /\ \A q \in Sold \ {p} : sold'[q] = sold[q]
  BY DEF ShopInv, ShopTyped
<1>2. ShopTyped'
  BY <1>1 DEF ShopInv, ShopTyped
<1>3. \A q \in Sold : OrdersOf(q)' = OrdersOf(q)
  BY DEF OrdersOf
<1>4. \A q \in Sold : ProductAgrees(q)'
  <2> TAKE q \in Sold
  <2>1. CASE q = p
    BY <1>1, <1>3, <2>1 DEF ProductAgrees
  <2>2. CASE q # p
    BY <1>1, <1>3, <2>2 DEF ShopInv, ProductAgrees
  <2> QED
    BY <2>1, <2>2
<1>5. \A o \in Orders : OrderAgrees(o)'
  BY <1>1, BuysASoldProduct DEF ShopInv, OrderAgrees
<1> QED
  BY <1>2, <1>4, <1>5 DEF ShopInv

LEMMA QuietKeeps ==
  ASSUME ShopInv, sold' = sold, orders' = orders, user' = user, listed' \subseteq listed,
         events' \in [Sold -> Shown], \A p \in Sold : events'[p].bought = events[p].bought,
         hearing' \in [Orders -> {"none", "pending", "approved"}]
  PROVE  ShopInv'
<1>1. ShopTyped'
  BY DEF ShopInv, ShopTyped
<1>2. \A p \in Sold : ProductAgrees(p)'
  BY DEF ShopInv, ProductAgrees, OrdersOf
<1>3. \A o \in Orders : OrderAgrees(o)'
  BY DEF ShopInv, OrderAgrees
<1> QED
  BY <1>1, <1>2, <1>3 DEF ShopInv

LEMMA AddedIsOwned ==
  ASSUME NEW garment \in Owned, NEW by \in {"user", "feed"}
  PROVE  /\ Added(garment, by) \in Owned /\ Added(garment, by).at # "none"
         /\ garment.at = "none" => Added(garment, by).at = "active" /\ Added(garment, by).by = by
         /\ garment.at # "none" => Added(garment, by) = garment
BY DEF Added, Unowned, Owned

LEMMA EventForAgrees ==
  ASSUME ShopInv, NEW p \in Sold
  PROVE  /\ EventFor(p) \in [Sold -> Shown] /\ EventFor(p)[p].bought = 1
         /\ \A q \in Sold \ {p} : EventFor(p)[q] = events[q]
<1>1. events \in [Sold -> Shown] /\ events[p].bought = IF sold[p].at = "none" THEN 0 ELSE 1
  BY DEF ShopInv, ShopTyped, ProductAgrees
<1>2. CASE sold[p].at = "none"
  <2>1. events[p] \in Shown /\ events[p].bought = 0
    BY <1>1, <1>2
  <2> DEFINE onceMore == [events[p] EXCEPT !.bought = @ + 1]
  <2>2. onceMore \in Shown /\ onceMore.bought = 1
    BY <2>1 DEF Shown
  <2>3. EventFor(p) = [events EXCEPT ![p] = onceMore]
    BY <1>2 DEF EventFor
  <2> HIDE DEF onceMore
  <2> QED
    BY <1>1, <2>2, <2>3
<1>3. CASE sold[p].at # "none"
  <2>1. EventFor(p) = events
    BY <1>1, <1>3 DEF EventFor, Shown
  <2> QED
    BY <1>1, <1>3, <2>1
<1> QED
  BY <1>2, <1>3

LEMMA OwnProductKeeps == ASSUME ShopInv, NEW p \in Sold, OwnProduct(p) PROVE ShopInv'
<1>1. /\ sold' = [sold EXCEPT ![p] = Added(sold[p], "user")] /\ events' = EventFor(p)
      /\ user' = [user EXCEPT !.tapped = @ \cup {p}]
      /\ UNCHANGED <<orders, hearing, listed>>
  BY DEF OwnProduct, EndTap
<1>2. sold[p] \in Owned /\ user \in [tapped : SUBSET Sold, removed : SUBSET Sold]
      /\ ProductAgrees(p)
  BY DEF ShopInv, ShopTyped
<1>3. user' \in [tapped : SUBSET Sold, removed : SUBSET Sold]
      /\ user'.tapped = user.tapped \cup {p} /\ user'.removed = user.removed
  BY <1>1, <1>2
<1> DEFINE garment == Added(sold[p], "user")
<1>4. garment \in Owned /\ garment.at # "none"
      /\ (sold[p].at = "none" => garment.at = "active" /\ garment.by = "user")
      /\ (sold[p].at # "none" => garment = sold[p])
  BY <1>2, AddedIsOwned
<1>5. events' \in [Sold -> Shown] /\ events'[p].bought = 1
      /\ \A q \in Sold \ {p} : events'[q] = events[q]
  BY <1>1, EventForAgrees
<1> HIDE DEF garment
<1>6. sold' = [sold EXCEPT ![p] = garment]
  BY <1>1 DEF garment
<1>7. /\ garment.by = "feed" => \E o \in OrdersOf(p) : orders[o].linked
      /\ garment.at = "retired" /\ p \in listed \ user'.removed =>
           garment.by = "feed" /\ \E o \in OrdersOf(p) : orders[o].status = "rejected"
  BY <1>2, <1>3, <1>4 DEF ProductAgrees
<1> QED
  <2>1. user.tapped \subseteq user'.tapped /\ user.removed \subseteq user'.removed
    BY <1>3
  <2>2. UNCHANGED <<orders, hearing, listed>>
    BY <1>1, Zenon
  <2>3. /\ garment.at = "none" => sold[p].at = "none"
        /\ events'[p].bought = IF garment.at = "none" THEN 0 ELSE 1
        /\ garment.by = "user" => p \in user'.tapped
    BY <1>3, <1>4, <1>5
  <2> QED
    BY <1>3, <1>4, <1>5, <1>6, <1>7, <2>1, <2>2, <2>3, GarmentChanges, Zenon

LEMMA UserChangesKeep ==
  ASSUME ShopInv, NEW p \in Sold, RemoveSold(p) \/ ClaimSold(p) PROVE ShopInv'
<1>1. /\ sold[p] \in Owned /\ user \in [tapped : SUBSET Sold, removed : SUBSET Sold]
      /\ events \in [Sold -> Shown] /\ sold[p].at = "active" /\ ProductAgrees(p)
      /\ UNCHANGED <<events, orders, hearing, listed>>
  BY DEF ShopInv, ShopTyped, RemoveSold, ClaimSold
<1>2. CASE RemoveSold(p)
  <2> DEFINE garment == [sold[p] EXCEPT !.at = "retired"]
  <2>1. garment \in Owned /\ garment.at = "retired" /\ garment.by = sold[p].by
    BY <1>1 DEF Owned
  <2>2. user' = [user EXCEPT !.removed = @ \cup {p}]
    BY <1>2 DEF RemoveSold
  <2>3. user' \in [tapped : SUBSET Sold, removed : SUBSET Sold]
        /\ user'.tapped = user.tapped /\ user'.removed = user.removed \cup {p}
    BY <1>1, <2>2
  <2>4. sold' = [sold EXCEPT ![p] = garment]
    BY <1>1, <1>2 DEF RemoveSold
  <2> HIDE DEF garment
  <2>5. /\ garment.by = "user" => p \in user'.tapped
        /\ garment.by = "feed" => \E o \in OrdersOf(p) : orders[o].linked
        /\ events'[p].bought = 1
    BY <1>1, <2>1, <2>3 DEF ProductAgrees
  <2> QED
    BY <1>1, <2>1, <2>3, <2>4, <2>5, GarmentChanges
<1>3. CASE ClaimSold(p)
  <2>1. PICK how \in {"verified", "worn"} : sold' = [sold EXCEPT ![p][how] = TRUE]
    BY <1>3 DEF ClaimSold
  <2> DEFINE garment == [sold[p] EXCEPT ![how] = TRUE]
  <2>2. garment \in Owned /\ garment.at = sold[p].at /\ garment.by = sold[p].by
    <3>1. CASE how = "verified"
      BY <1>1, <3>1 DEF Owned
    <3>2. CASE how = "worn"
      BY <1>1, <3>2 DEF Owned
    <3> QED
      BY <3>1, <3>2
  <2>3. sold' = [sold EXCEPT ![p] = garment]
    BY <2>1
  <2>4. user' = user
    BY <1>3 DEF ClaimSold
  <2> HIDE DEF garment
  <2>5. /\ garment.by = "user" => p \in user'.tapped
        /\ garment.by = "feed" => \E o \in OrdersOf(p) : orders[o].linked
        /\ events'[p].bought = 1 /\ garment.at = "active"
    BY <1>1, <2>2, <2>4 DEF ProductAgrees
  <2> QED
    BY <1>1, <2>2, <2>3, <2>4, <2>5, GarmentChanges
<1> QED
  BY <1>2, <1>3

--------------------------------------------------------------------------------
\* A report changes an order and the garment of its product.
LEMMA OrderChanges ==
  ASSUME ShopInv, NEW o \in Orders, NEW report \in Reports, NEW garment \in Owned,
         orders' = [orders EXCEPT ![o] = report],
         sold' = [sold EXCEPT ![Buys[o]] = garment],
         events' \in [Sold -> Shown], \A q \in Sold \ {Buys[o]} : events'[q] = events[q],
         hearing' \in [Orders -> {"none", "pending", "approved"}],
         UNCHANGED <<listed, user>>,
         orders[o].linked => report.linked,
         report.linked => garment.at # "none",
         report.status \in {"pending", "approved"} /\ Buys[o] \in listed => report.linked,
         garment.at = "none" => sold[Buys[o]].at = "none",
         events'[Buys[o]].bought = IF garment.at = "none" THEN 0 ELSE 1,
         garment.by = "user" => sold[Buys[o]].by = "user",
         garment.by = "feed" => sold[Buys[o]].by = "feed" \/ report.linked,
         garment.at = "retired" /\ Buys[o] \in listed \ user.removed =>
           garment.by = "feed" /\ report.status = "rejected"
  PROVE  ShopInv'
<1> DEFINE p == Buys[o]
<1>1. /\ p \in Sold /\ o \in OrdersOf(p)
      /\ sold' \in [Sold -> Owned] /\ sold'[p] = garment
      /\ \A q \in Sold \ {p} : sold'[q] = sold[q]
  BY BuysASoldProduct DEF ShopInv, ShopTyped, OrdersOf
<1>2. /\ orders' \in [Orders -> Reports] /\ orders'[o] = report
      /\ \A other \in Orders \ {o} : orders'[other] = orders[other]
  BY DEF ShopInv, ShopTyped
<1>3. ShopTyped'
  BY <1>1, <1>2 DEF ShopInv, ShopTyped
<1>4. \A q \in Sold : OrdersOf(q)' = OrdersOf(q) /\ OrdersOf(q) \subseteq Orders
  BY DEF OrdersOf
<1>5. ProductAgrees(p)'
  <2>1. ProductAgrees(p)
    BY <1>1 DEF ShopInv
  <2>2. sold'[p].by = "feed" => \E other \in OrdersOf(p)' : orders'[other].linked
    <3> SUFFICES ASSUME garment.by = "feed" PROVE \E other \in OrdersOf(p) : orders'[other].linked
      BY <1>1, <1>4
    <3>1. CASE report.linked
      BY <1>1, <1>2, <3>1
    <3>2. CASE sold[p].by = "feed"
      <4>1. PICK other \in OrdersOf(p) : orders[other].linked
        BY <2>1, <3>2 DEF ProductAgrees
      <4>2. orders'[other].linked
        BY <1>1, <1>2, <1>4, <4>1
      <4> QED
        BY <4>1, <4>2
    <3> QED
      BY <3>1, <3>2
  <2>3. sold'[p].at = "retired" /\ p \in listed' \ user'.removed =>
          sold'[p].by = "feed" /\ \E other \in OrdersOf(p)' : orders'[other].status = "rejected"
    BY <1>1, <1>2, <1>4
  <2>4. sold'[p].by = "user" => p \in user'.tapped
    BY <1>1, <2>1 DEF ProductAgrees
  <2>5. events'[p].bought = IF sold'[p].at = "none" THEN 0 ELSE 1
    BY <1>1
  <2> QED
    BY <2>2, <2>3, <2>4, <2>5 DEF ProductAgrees
<1>6. \A q \in Sold \ {p} : ProductAgrees(q)'
  <2> TAKE q \in Sold \ {p}
  <2>1. ProductAgrees(q) /\ o \notin OrdersOf(q)
    BY DEF ShopInv, OrdersOf
  <2>2. \A other \in OrdersOf(q) : orders'[other] = orders[other]
    BY <1>2, <1>4, <2>1
  <2> QED
    BY <1>1, <1>4, <2>1, <2>2 DEF ProductAgrees
<1>7. \A other \in Orders : OrderAgrees(other)'
  <2> TAKE other \in Orders
  <2>1. CASE other = o
    BY <1>1, <1>2, <2>1 DEF OrderAgrees
  <2>2. CASE other # o
    BY <1>1, <1>2, <2>2, BuysASoldProduct DEF ShopInv, OrderAgrees
  <2> QED
    BY <2>1, <2>2
<1> QED
  BY <1>3, <1>5, <1>6, <1>7 DEF ShopInv

LEMMA RetiredIsOwned ==
  ASSUME NEW garment \in Owned
  PROVE  /\ Retired(garment) \in Owned /\ Retired(garment).by = garment.by
         /\ (Retired(garment).at = "none") <=> (garment.at = "none")
         /\ Retired(garment) = garment \/ garment.by = "feed"
BY DEF Retired, Owned

LEMMA RevivedIsOwned ==
  ASSUME NEW garment \in Owned
  PROVE  /\ Revived(garment) \in Owned /\ Revived(garment).by = garment.by
         /\ (Revived(garment).at = "none") <=> (garment.at = "none")
         /\ garment.by = "feed" => Revived(garment).at # "retired"
         /\ garment.by # "feed" => Revived(garment) = garment
BY DEF Revived, Owned

LEMMA RecordedIsAReport ==
  ASSUME ShopInv, NEW o \in Orders, NEW status \in {"pending", "approved", "rejected"}
  PROVE  \E report \in Reports :
           /\ Recorded(o, status) = [orders EXCEPT ![o] = report]
           /\ report.status = status /\ report.linked = orders[o].linked
<1> DEFINE report == [orders[o] EXCEPT !.status = status]
<1>1. orders[o] \in Reports
  BY DEF ShopInv, ShopTyped
<1>2. report \in Reports /\ report.status = status /\ report.linked = orders[o].linked
  BY <1>1 DEF Reports
<1>3. Recorded(o, status) = [orders EXCEPT ![o] = report]
  BY DEF Recorded
<1> QED
  BY <1>2, <1>3

\* What an order's report finds.
LEMMA BeforeTheReport ==
  ASSUME ShopInv, NEW o \in Orders
  PROVE  /\ Buys[o] \in Sold /\ sold[Buys[o]] \in Owned /\ orders[o] \in Reports
         /\ events \in [Sold -> Shown]
         /\ hearing \in [Orders -> {"none", "pending", "approved"}]
         /\ ProductAgrees(Buys[o]) /\ OrderAgrees(o)
BY BuysASoldProduct DEF ShopInv, ShopTyped

LEMMA RejectOrderKeeps ==
  ASSUME ShopInv, NEW o \in Orders, NEW word \in Words, RejectOrder(o, word) PROVE ShopInv'
<1> DEFINE p == Buys[o]
           garment == IF orders[o].linked THEN Retired(sold[p]) ELSE sold[p]
<1>1. /\ p \in Sold /\ sold[p] \in Owned /\ events \in [Sold -> Shown]
      /\ hearing \in [Orders -> {"none", "pending", "approved"}]
      /\ ProductAgrees(p) /\ OrderAgrees(o)
  BY BeforeTheReport
<1>2. /\ garment \in Owned /\ garment.by = sold[p].by
      /\ (garment.at = "none") <=> (sold[p].at = "none")
      /\ garment = sold[p] \/ garment.by = "feed"
  BY <1>1, RetiredIsOwned
<1>3. /\ orders' = Recorded(o, "rejected") /\ sold' = [sold EXCEPT ![p] = garment]
      /\ UNCHANGED <<events, hearing, listed, user>>
  BY DEF RejectOrder
<1>4. PICK report \in Reports :
        /\ Recorded(o, "rejected") = [orders EXCEPT ![o] = report]
        /\ report.status = "rejected" /\ report.linked = orders[o].linked
  BY RecordedIsAReport
<1> HIDE DEF garment
<1>5. /\ report.linked => garment.at # "none"
      /\ events'[p].bought = IF garment.at = "none" THEN 0 ELSE 1
      /\ garment.at = "retired" /\ p \in listed \ user.removed => garment.by = "feed"
  BY <1>1, <1>2, <1>3, <1>4 DEF ProductAgrees, OrderAgrees
<1>6. /\ events' \in [Sold -> Shown] /\ \A q \in Sold \ {p} : events'[q] = events[q]
      /\ hearing' \in [Orders -> {"none", "pending", "approved"}]
      /\ UNCHANGED <<listed, user>>
  BY <1>1, <1>3
<1>7. orders' = [orders EXCEPT ![o] = report] /\ sold' = [sold EXCEPT ![p] = garment]
  BY <1>3, <1>4
<1>8. /\ orders[o].linked => report.linked
      /\ garment.at = "none" => sold[p].at = "none"
      /\ garment.by = "user" => sold[p].by = "user"
      /\ garment.by = "feed" => sold[p].by = "feed" \/ report.linked
      /\ ~(report.status \in {"pending", "approved"})
  BY <1>2, <1>4
<1> QED
  BY <1>2, <1>4, <1>5, <1>6, <1>7, <1>8, OrderChanges

LEMMA RepeatOrderKeeps ==
  ASSUME ShopInv, NEW o \in Orders, NEW word \in Words, RepeatOrder(o, word) PROVE ShopInv'
<1> DEFINE p == Buys[o]
           garment == IF p \in listed THEN Revived(sold[p]) ELSE sold[p]
<1>1. /\ p \in Sold /\ sold[p] \in Owned /\ events \in [Sold -> Shown]
      /\ hearing \in [Orders -> {"none", "pending", "approved"}]
      /\ ProductAgrees(p) /\ OrderAgrees(o)
  BY BeforeTheReport
<1>2. /\ garment \in Owned /\ garment.by = sold[p].by
      /\ (garment.at = "none") <=> (sold[p].at = "none")
      /\ p \in listed /\ garment.by = "feed" => garment.at # "retired"
      /\ p \in listed /\ garment.by # "feed" => garment = sold[p]
  BY <1>1, RevivedIsOwned
<1>3. PICK status \in {"pending", "approved"} : orders' = Recorded(o, status)
  BY DEF RepeatOrder
<1>4. /\ sold' = [sold EXCEPT ![p] = garment] /\ (orders[o].linked \/ p \notin listed)
      /\ UNCHANGED <<events, hearing, listed, user>>
  BY DEF RepeatOrder
<1>5. PICK report \in Reports :
        /\ Recorded(o, status) = [orders EXCEPT ![o] = report]
        /\ report.status = status /\ report.linked = orders[o].linked
  BY RecordedIsAReport
<1> HIDE DEF garment
<1>6. /\ report.linked => garment.at # "none"
      /\ events'[p].bought = IF garment.at = "none" THEN 0 ELSE 1
      /\ ~(garment.at = "retired" /\ p \in listed \ user.removed)
  BY <1>1, <1>2, <1>4, <1>5 DEF ProductAgrees, OrderAgrees
<1>7. /\ events' \in [Sold -> Shown] /\ \A q \in Sold \ {p} : events'[q] = events[q]
      /\ hearing' \in [Orders -> {"none", "pending", "approved"}]
      /\ UNCHANGED <<listed, user>>
  BY <1>1, <1>4
<1>8. orders' = [orders EXCEPT ![o] = report] /\ sold' = [sold EXCEPT ![p] = garment]
  BY <1>3, <1>4, <1>5
<1>9. /\ orders[o].linked => report.linked
      /\ garment.at = "none" => sold[p].at = "none"
      /\ garment.by = "user" => sold[p].by = "user"
      /\ garment.by = "feed" => sold[p].by = "feed" \/ report.linked
      /\ report.status \in {"pending", "approved"} /\ p \in listed => report.linked
  BY <1>2, <1>4, <1>5
<1> QED
  BY <1>2, <1>6, <1>7, <1>8, <1>9, OrderChanges

LEMMA AddOrderedKeeps == ASSUME ShopInv, NEW o \in Orders, AddOrdered(o) PROVE ShopInv'
<1> DEFINE p == Buys[o]
           added == Added(sold[p], "feed")
           garment == Revived(added)
           report == [status |-> hearing[o], linked |-> TRUE]
<1>1. /\ p \in Sold /\ sold[p] \in Owned
      /\ hearing \in [Orders -> {"none", "pending", "approved"}]
      /\ ProductAgrees(p)
  BY BeforeTheReport
<1>2. /\ added \in Owned /\ added.at # "none"
      /\ (sold[p].at = "none" => added.at = "active" /\ added.by = "feed")
      /\ (sold[p].at # "none" => added = sold[p])
  BY <1>1, AddedIsOwned
<1>3. /\ garment \in Owned /\ garment.by = added.by /\ garment.at # "none"
      /\ garment.by = "feed" => garment.at # "retired"
      /\ garment.by # "feed" => garment = added
  BY <1>2, RevivedIsOwned
<1>4. /\ hearing' = [hearing EXCEPT ![o] = "none"]
      /\ orders' = [orders EXCEPT ![o] = report] /\ sold' = [sold EXCEPT ![p] = garment]
      /\ events' = EventFor(p) /\ UNCHANGED <<listed, user>>
  BY DEF AddOrdered
<1>5. report \in Reports /\ report.linked
  BY <1>1, <1>2 DEF Reports, AddOrdered
<1>6. /\ events' \in [Sold -> Shown] /\ events'[p].bought = 1
      /\ \A q \in Sold \ {p} : events'[q] = events[q]
  BY <1>1, <1>4, EventForAgrees
<1>7. hearing' \in [Orders -> {"none", "pending", "approved"}]
  BY <1>1, <1>4
<1> HIDE DEF added, garment, report
<1>8. /\ garment.by = "user" => sold[p].by = "user"
      /\ ~(garment.at = "retired" /\ p \in listed \ user.removed)
  BY <1>1, <1>2, <1>3 DEF ProductAgrees
<1> QED
  BY <1>1, <1>3, <1>4, <1>5, <1>6, <1>7, <1>8, OrderChanges

--------------------------------------------------------------------------------
\* A page shown, a tap that starts or comes to nothing, a report that is refused,
\* waited for or dropped, a product that leaves the catalogue.
LEMMA ProductStepsKeep ==
  ASSUME ShopInv, NEW p \in Sold,
         ShowProduct(p) \/ Tap(p) \/ TapFails(p) \/ ProductLeaves(p)
  PROVE  ShopInv'
<1>1. /\ events \in [Sold -> Shown]
      /\ hearing \in [Orders -> {"none", "pending", "approved"}]
  BY DEF ShopInv, ShopTyped
<1>2. CASE ShowProduct(p)
  <2> DEFINE seen == [events[p] EXCEPT !.shown = TRUE]
  <2>1. seen \in Shown /\ seen.bought = events[p].bought
    BY <1>1 DEF Shown
  <2>2. events' = [events EXCEPT ![p] = seen]
    BY <1>2 DEF ShowProduct
  <2> HIDE DEF seen
  <2>3. events' \in [Sold -> Shown] /\ \A q \in Sold : events'[q].bought = events[q].bought
    BY <1>1, <2>1, <2>2
  <2>4. UNCHANGED <<sold, orders, user, listed, hearing>>
    BY <1>2 DEF ShowProduct
  <2> QED
    BY <1>1, <2>3, <2>4, QuietKeeps
<1>3. CASE Tap(p) \/ TapFails(p) \/ ProductLeaves(p)
  <2>1. UNCHANGED <<sold, orders, user, events, hearing>> /\ listed' \subseteq listed
    BY <1>3 DEF Tap, TapFails, EndTap, ProductLeaves
  <2> QED
    BY <1>1, <2>1, QuietKeeps
<1> QED
  BY <1>2, <1>3

LEMMA ReportStepsKeep ==
  ASSUME ShopInv, NEW o \in Orders, NEW word \in Words,
         RefuseReport(o, word) \/ HearOrder(o, word) \/ HearingFails(o)
  PROVE  ShopInv'
<1>1. /\ events \in [Sold -> Shown]
      /\ hearing \in [Orders -> {"none", "pending", "approved"}]
  BY DEF ShopInv, ShopTyped
<1>2. UNCHANGED <<sold, orders, user, events, listed>>
  BY DEF RefuseReport, HearOrder, HearingFails
<1>3. hearing' \in [Orders -> {"none", "pending", "approved"}]
  BY <1>1 DEF RefuseReport, HearOrder, HearingFails
<1> QED
  BY <1>1, <1>2, <1>3, QuietKeeps

LEMMA ShopInvKept == ShopInv /\ [ShopNext]_shopVars => ShopInv'
<1> SUFFICES ASSUME ShopInv, [ShopNext]_shopVars PROVE ShopInv'
  OBVIOUS
<1>1. CASE UNCHANGED shopVars
  BY <1>1 DEF shopVars, ShopInv, ShopTyped, ProductAgrees, OrderAgrees, OrdersOf
<1>2. ASSUME NEW p \in Sold,
             \/ ShowProduct(p) \/ Tap(p) \/ OwnProduct(p) \/ TapFails(p)
             \/ RemoveSold(p) \/ ClaimSold(p) \/ ProductLeaves(p)
      PROVE  ShopInv'
  BY <1>2, ProductStepsKeep, OwnProductKeeps, UserChangesKeep
<1>3. ASSUME NEW o \in Orders, NEW word \in Words,
             RejectOrder(o, word) \/ RefuseReport(o, word) \/ RepeatOrder(o, word)
               \/ HearOrder(o, word)
      PROVE  ShopInv'
  BY <1>3, RejectOrderKeeps, RepeatOrderKeeps, ReportStepsKeep
<1>4. ASSUME NEW o \in Orders, AddOrdered(o) \/ HearingFails(o)
      PROVE  ShopInv'
  <2>1. "sent" \in Words
    BY DEF Words
  <2> QED
    BY <1>4, <2>1, AddOrderedKeeps, ReportStepsKeep
<1> QED
  BY <1>1, <1>2, <1>3, <1>4 DEF ShopNext

(* Whatever is tapped, reported, returned, repeated or lost, in whatever order,  *)
(* a wardrobe holds what somebody said was bought, one `bought` event tells of   *)
(* it, and it is out only if the user removed it or its order was returned       *)
(* (shop.py).                                                                    *)
THEOREM PurchasesAlwaysAgree == ShopSpec => []PurchasesAgree
<1>1. ShopInv => PurchasesAgree
  BY DEF ShopInv, ProductAgrees, OrderAgrees, PurchasesAgree
<1> QED
  BY <1>1, ShopInitInv, ShopInvKept, PTL DEF ShopSpec

--------------------------------------------------------------------------------
(* Accounts, sessions and partner keys. *)

(* One account per address. *)

CreateStates == {"unsent", "looked", "inserted", "keyed", "keyless", "done"}
CallAnswers == {"nothing", "found", "conflict", "created", "error"}

AccountTyped ==
  /\ partners \in BOOLEAN
  /\ account \in {"none", "live", "deleted"}
  /\ profileKey \in Creates \cup {"none"}
  /\ creating \in [Creates -> CreateStates]
  /\ gatewayKeys \subseteq Creates /\ IsFiniteSet(gatewayKeys)
  /\ told \in [Creates -> CallAnswers]
  /\ accountFaults \in [gateway : Nat, deny : Nat]

InHand(c) == creating[c] \in {"inserted", "keyed", "keyless"}

\* One transaction at most has a row that is not committed, and only while there
\* is none.
OneUncommitted ==
  /\ \A c \in Creates : InHand(c) => account = "none"
  /\ \A c, d \in Creates : InHand(c) /\ InHand(d) => c = d

\* The account was created by the one that was told so.
Creators == {c \in Creates : told[c] = "created"}
OneCreator ==
  /\ account = "none" => Creators = {} /\ profileKey = "none"
  /\ account # "none" => \E c \in Creates : Creators = {c}
  /\ \A c \in Creates : told[c] # "nothing" => creating[c] = "done"
  /\ \A c \in Creates : told[c] \in {"found", "conflict"} => account # "none"

\* Keys nobody will use, or nobody is going to: each of them cost a fault.
LostKeys == {c \in gatewayKeys \ {profileKey} : creating[c] \in {"done", "keyless"}}
KeysAccounted ==
  /\ \A c \in Creates : creating[c] = "keyed" => c \in gatewayKeys
  /\ \A c \in Creates : c \in gatewayKeys => creating[c] \in {"keyed", "keyless", "done"}
  /\ \A c \in Creates : creating[c] = "keyless" => accountFaults.gateway > 0
  /\ account # "none" /\ accountFaults.gateway = 0 => profileKey \in gatewayKeys
  /\ Cardinality(LostKeys) <= accountFaults.gateway

AccountInv == AccountTyped /\ OneUncommitted /\ OneCreator /\ KeysAccounted

LEMMA LostKeysFinite == ASSUME AccountTyped PROVE IsFiniteSet(LostKeys)
BY FS_Subset DEF AccountTyped, LostKeys

LEMMA AccountInitInv == AccountsInit => AccountInv
<1> SUFFICES ASSUME AccountsInit PROVE AccountInv
  OBVIOUS
<1>1. gatewayKeys = {} /\ IsFiniteSet({}) /\ Cardinality({}) = 0
  BY FS_EmptySet DEF AccountsInit
<1>2. AccountTyped
  BY <1>1 DEF AccountsInit, AccountTyped, CreateStates, CallAnswers
<1>3. LostKeys = {}
  BY <1>1 DEF LostKeys
<1> QED
  BY <1>1, <1>2, <1>3 DEF AccountsInit, AccountInv, OneUncommitted, InHand, OneCreator, Creators,
     KeysAccounted

\* A call that ends, or waits, without touching the account.
LEMMA CreatesMoveOn ==
  ASSUME AccountInv, NEW c \in Creates, LookUpUser(c) \/ InsertUser(c) PROVE AccountInv'
<1> USE DEF AccountInv, AccountTyped
<1>1. UNCHANGED <<partners, account, profileKey, gatewayKeys, accountFaults>>
  BY DEF LookUpUser, InsertUser
<1>2. /\ creating' \in [Creates -> CreateStates] /\ told' \in [Creates -> CallAnswers]
      /\ \A d \in Creates \ {c} : creating'[d] = creating[d] /\ told'[d] = told[d]
  BY DEF LookUpUser, InsertUser, At, Answer, CreateStates, CallAnswers, Exists
<1>3. /\ creating[c] \in {"unsent", "looked"} /\ creating'[c] \in {"looked", "inserted", "done"}
      /\ creating'[c] = "inserted" => account = "none" /\ ~Uncommitted
      /\ \/ told' = told
         \/ creating'[c] = "done" /\ told'[c] \in {"found", "conflict"} /\ account # "none"
  BY DEF LookUpUser, InsertUser, At, Answer, CreateStates, CallAnswers, Exists
<1>4. OneUncommitted'
  BY <1>1, <1>2, <1>3 DEF OneUncommitted, InHand, Uncommitted
<1>5. told[c] = "nothing" /\ c \notin gatewayKeys
  BY <1>3 DEF OneCreator, KeysAccounted
<1>6. Creators' = Creators
  BY <1>2, <1>3, <1>5 DEF Creators
<1>7. OneCreator'
  BY <1>1, <1>2, <1>3, <1>5, <1>6 DEF OneCreator
<1>8. LostKeys' = LostKeys
  BY <1>1, <1>2, <1>5 DEF LostKeys
<1>9. KeysAccounted'
  BY <1>1, <1>2, <1>3, <1>5, <1>8 DEF KeysAccounted
<1> QED
  BY <1>1, <1>2, <1>4, <1>7, <1>9

\* A key more that may be lost is a fault more.
LEMMA OneMoreLost ==
  ASSUME AccountInv, NEW c \in Creates, LostKeys' \subseteq LostKeys \cup {c},
         accountFaults'.gateway = accountFaults.gateway + 1, accountFaults'.gateway \in Nat
  PROVE  Cardinality(LostKeys)' <= accountFaults'.gateway
<1>1. IsFiniteSet(LostKeys) /\ Cardinality(LostKeys) <= accountFaults.gateway
      /\ accountFaults.gateway \in Nat
  BY LostKeysFinite DEF AccountInv, KeysAccounted, AccountTyped
<1>5. Cardinality(LostKeys) \in Nat
  BY <1>1, FS_CardinalityType
<1>6. IsFiniteSet(LostKeys \cup {c})
      /\ (\/ Cardinality(LostKeys \cup {c}) = Cardinality(LostKeys)
         \/ Cardinality(LostKeys \cup {c}) = Cardinality(LostKeys) + 1)
  BY <1>1, FS_AddElement
<1>2. IsFiniteSet(LostKeys \cup {c}) /\ Cardinality(LostKeys) \in Nat
      /\ Cardinality(LostKeys \cup {c}) <= Cardinality(LostKeys) + 1
      /\ Cardinality(LostKeys \cup {c}) \in Nat
  BY <1>5, <1>6
<1>3. IsFiniteSet(LostKeys') /\ Cardinality(LostKeys') <= Cardinality(LostKeys \cup {c})
  BY <1>2, FS_Subset
<1>4. Cardinality(LostKeys') \in Nat
  BY <1>3, FS_CardinalityType
<1> QED
  BY <1>1, <1>2, <1>3, <1>4

LEMMA CreateVirtualKeyKeeps ==
  ASSUME AccountInv, NEW c \in Creates, CreateVirtualKey(c) PROVE AccountInv'
<1> USE DEF AccountInv, AccountTyped
<1>1. UNCHANGED <<partners, account, profileKey, told>>
  BY DEF CreateVirtualKey
<1>2. /\ creating[c] = "inserted" /\ creating'[c] \in {"keyed", "keyless"}
      /\ creating' \in [Creates -> CreateStates]
      /\ \A d \in Creates \ {c} : creating'[d] = creating[d]
  BY DEF CreateVirtualKey, At, CreateStates
<1>3. /\ gatewayKeys' \in {gatewayKeys, gatewayKeys \cup {c}}
      /\ creating'[c] = "keyed" => c \in gatewayKeys'
  BY <1>2 DEF CreateVirtualKey, IssueKeyAtGateway, At
<1>4. IsFiniteSet(gatewayKeys')
  BY <1>3, FS_AddElement
<1>5. /\ creating'[c] = "keyed" => accountFaults' = accountFaults
      /\ creating'[c] = "keyless" => accountFaults'.gateway = accountFaults.gateway + 1
      /\ accountFaults' \in [gateway : Nat, deny : Nat]
  BY <1>2 DEF CreateVirtualKey, At, AccountFault
<1>6. account = "none" /\ told[c] = "nothing" /\ c \notin gatewayKeys
  BY <1>2 DEF OneUncommitted, InHand, OneCreator, KeysAccounted
<1>7. OneUncommitted'
  BY <1>1, <1>2 DEF OneUncommitted, InHand
<1>8. OneCreator'
  BY <1>1, <1>2, <1>6 DEF OneCreator, Creators
<1>9. Cardinality(LostKeys)' <= accountFaults'.gateway
  <2>1. CASE creating'[c] = "keyed"
    <3>1. LostKeys' = LostKeys
      BY <1>1, <1>2, <1>3, <1>6, <2>1 DEF LostKeys
    <3> QED
      BY <1>5, <2>1, <3>1 DEF KeysAccounted
  <2>2. CASE creating'[c] = "keyless"
    <3>1. LostKeys' \subseteq LostKeys \cup {c}
      BY <1>1, <1>2, <1>3 DEF LostKeys
    <3> QED
      BY <1>5, <2>2, <3>1, OneMoreLost
  <2> QED
    BY <1>2, <2>1, <2>2
<1>10. KeysAccounted'
  BY <1>1, <1>2, <1>3, <1>5, <1>6, <1>9 DEF KeysAccounted
<1> QED
  BY <1>1, <1>2, <1>3, <1>4, <1>5, <1>7, <1>8, <1>10

LEMMA CommitAccountKeeps ==
  ASSUME AccountInv, NEW c \in Creates, CommitAccount(c) PROVE AccountInv'
<1> USE DEF AccountInv, AccountTyped
<1>1. UNCHANGED <<partners, gatewayKeys, accountFaults>> /\ account' = "live"
  BY DEF CommitAccount
<1>2. /\ creating[c] \in {"keyed", "keyless"} /\ creating'[c] = "done" /\ told'[c] = "created"
      /\ creating' \in [Creates -> CreateStates] /\ told' \in [Creates -> CallAnswers]
      /\ \A d \in Creates \ {c} : creating'[d] = creating[d] /\ told'[d] = told[d]
      /\ profileKey' = IF creating[c] = "keyed" THEN c ELSE "none"
  BY DEF CommitAccount, Answer, CreateStates, CallAnswers
<1>3. account = "none" /\ Creators = {} /\ profileKey = "none"
      /\ \A d \in Creates \ {c} : ~InHand(d)
  BY <1>2 DEF OneUncommitted, InHand, OneCreator
<1>4. OneUncommitted'
  BY <1>2, <1>3 DEF OneUncommitted, InHand
<1>5. Creators' = {c}
  BY <1>2, <1>3 DEF Creators
<1>6. OneCreator'
  BY <1>1, <1>2, <1>5 DEF OneCreator
<1>7. LostKeys' = LostKeys
  BY <1>1, <1>2, <1>3, CreatesAssumption DEF LostKeys
<1>8. KeysAccounted'
  BY <1>1, <1>2, <1>7 DEF KeysAccounted
<1> QED
  BY <1>1, <1>2, <1>4, <1>6, <1>8

LEMMA CreateFailsKeeps ==
  ASSUME AccountInv, NEW c \in Creates, CreateFails(c) PROVE AccountInv'
<1> USE DEF AccountInv, AccountTyped
<1>1. UNCHANGED <<partners, account, profileKey, gatewayKeys>>
  BY DEF CreateFails
<1>2. /\ InHand(c) /\ creating'[c] = "done" /\ told'[c] = "error"
      /\ creating' \in [Creates -> CreateStates] /\ told' \in [Creates -> CallAnswers]
      /\ \A d \in Creates \ {c} : creating'[d] = creating[d] /\ told'[d] = told[d]
  BY DEF CreateFails, Answer, CreateStates, CallAnswers, InHand
<1>3. /\ accountFaults'.gateway = accountFaults.gateway + 1
      /\ accountFaults' \in [gateway : Nat, deny : Nat]
  BY DEF CreateFails, AccountFault
<1>4. OneUncommitted'
  BY <1>1, <1>2 DEF OneUncommitted, InHand
<1>5. told[c] = "nothing"
  BY <1>2 DEF OneCreator, InHand
<1>6. Creators' = Creators
  BY <1>2, <1>5 DEF Creators
<1>7. OneCreator'
  BY <1>1, <1>2, <1>6 DEF OneCreator
<1>8. LostKeys' \subseteq LostKeys \cup {c}
  BY <1>1, <1>2 DEF LostKeys
<1>9. Cardinality(LostKeys)' <= accountFaults'.gateway
  BY <1>3, <1>8, OneMoreLost
<1>10. KeysAccounted'
  BY <1>1, <1>2, <1>3, <1>9 DEF KeysAccounted, InHand
<1> QED
  BY <1>1, <1>2, <1>3, <1>4, <1>7, <1>10

\* The steps of tokens leave the accounts alone.
LEMMA TokenStepsKeepAccount ==
  ASSUME AccountInv, UNCHANGED <<partners, account, profileKey, creating, gatewayKeys, told>>,
         accountFaults' \in [gateway : Nat, deny : Nat],
         accountFaults'.gateway = accountFaults.gateway
  PROVE  AccountInv'
BY DEF AccountInv, AccountTyped, OneUncommitted, InHand, OneCreator, Creators, KeysAccounted,
   LostKeys

LEMMA LeaveKeeps == ASSUME AccountInv, Leave PROVE AccountInv'
BY DEF Leave, AccountInv, AccountTyped, OneUncommitted, InHand, OneCreator, Creators,
   KeysAccounted, LostKeys

LEMMA AccountInvKept == AccountInv /\ [AccountsNext]_accountVars => AccountInv'
<1> SUFFICES ASSUME AccountInv, [AccountsNext]_accountVars PROVE AccountInv'
  OBVIOUS
<1>1. ASSUME NEW c \in Creates,
             LookUpUser(c) \/ InsertUser(c) \/ CreateVirtualKey(c) \/ CommitAccount(c)
               \/ CreateFails(c)
      PROVE  AccountInv'
  BY <1>1, CreatesMoveOn, CreateVirtualKeyKeeps, CommitAccountKeeps, CreateFailsKeeps
<1>2. accountFaults \in [gateway : Nat, deny : Nat]
  BY DEF AccountInv, AccountTyped
<1>3. CASE Login \/ \E r \in Refreshes :
             (\E t \in DOMAIN age : BeginRefresh(r, t)) \/ CheckRevoked(r) \/ Rotate(r)
  BY <1>2, <1>3, TokenStepsKeepAccount
     DEF Login, BeginRefresh, CheckRevoked, Rotate, EndRotate, rowVars
<1>4. ASSUME NEW r \in Refreshes, RefreshFails(r) PROVE AccountInv'
  BY <1>2, <1>4, TokenStepsKeepAccount DEF RefreshFails, AccountFault, rowVars
<1>5. CASE \E t \in DOMAIN age : Logout(t) \/ PassTime(t) \/ Lapse(t)
  BY <1>2, <1>5, TokenStepsKeepAccount DEF Logout, PassTime, Lapse, rowVars
<1>6. CASE UNCHANGED accountVars
  BY <1>2, <1>6, TokenStepsKeepAccount DEF accountVars
<1> QED
  BY <1>1, <1>3, <1>4, <1>5, <1>6, LeaveKeeps DEF AccountsNext

LEMMA AccountIsOne == AccountInv => OneAccount
<1> SUFFICES ASSUME AccountInv PROVE OneAccount
  OBVIOUS
<1>1. Cardinality(Creators) = IF account = "none" THEN 0 ELSE 1
  BY FS_EmptySet, FS_Singleton DEF AccountInv, OneCreator
<1>2. Cardinality({c \in gatewayKeys \ {profileKey} : creating[c] = "done"}) <= accountFaults.gateway
  <2>1. {c \in gatewayKeys \ {profileKey} : creating[c] = "done"} \in SUBSET LostKeys
    BY DEF LostKeys
  <2>2. IsFiniteSet(LostKeys)
    BY LostKeysFinite DEF AccountInv
  <2>3. Cardinality({c \in gatewayKeys \ {profileKey} : creating[c] = "done"})
          <= Cardinality(LostKeys)
        /\ IsFiniteSet({c \in gatewayKeys \ {profileKey} : creating[c] = "done"})
    BY <2>1, <2>2, FS_Subset
  <2> QED
    BY <2>2, <2>3, FS_CardinalityType DEF AccountInv, AccountTyped, KeysAccounted
<1> QED
  BY <1>1, <1>2 DEF AccountInv, OneCreator, KeysAccounted, OneAccount, Creators

--------------------------------------------------------------------------------
(* Spent tokens. *)

TokenAges == {"fresh", "last", "expired"}
TokenTyped ==
  /\ age \in Seq(TokenAges)
  /\ denied \subseteq DOMAIN age /\ ended \subseteq DOMAIN age
  /\ refreshing \in [Refreshes -> [at : {"idle", "begun", "passed"}, token : Nat, late : BOOLEAN]]

\* A token that is ended and has a second to live is on the deny list; what a late
\* refresh presents was ended before.
EndedAreDenied ==
  /\ \A t \in ended : age[t] = "fresh" => t \in denied
  /\ \A r \in Refreshes :
       /\ refreshing[r].at # "idle" => refreshing[r].token \in DOMAIN age
       /\ refreshing[r].late => refreshing[r].token \in ended
       /\ refreshing[r].late /\ refreshing[r].at = "passed" => age[refreshing[r].token] # "fresh"

TokenInv == TokenTyped /\ EndedAreDenied

LEMMA TokenInitInv == AccountsInit => TokenInv
BY DEF AccountsInit, TokenInv, TokenTyped, EndedAreDenied, Idle, TokenAges

\* Tokens only grow old, and new ones are none of those.
TokensAge ==
  /\ age' \in Seq(TokenAges) /\ DOMAIN age \subseteq DOMAIN age'
  /\ \A t \in DOMAIN age : age'[t] = "fresh" => age[t] = "fresh"

LEMMA TokenStep ==
  ASSUME TokenInv, TokensAge,
         ended \subseteq ended', ended' \subseteq DOMAIN age, denied' \subseteq DOMAIN age,
         \A t \in ended' : age'[t] = "fresh" => t \in denied',
         refreshing' = refreshing
  PROVE  TokenInv'
BY DEF TokenInv, TokenTyped, EndedAreDenied, TokensAge

LEMMA RefreshStep ==
  ASSUME TokenInv, TokensAge, NEW r \in Refreshes,
         NEW to \in [at : {"idle", "begun", "passed"}, token : Nat, late : BOOLEAN],
         refreshing' = [refreshing EXCEPT ![r] = to],
         ended \subseteq ended', ended' \subseteq DOMAIN age, denied' \subseteq DOMAIN age,
         \A t \in ended' : age'[t] = "fresh" => t \in denied',
         to.at # "idle" => to.token \in DOMAIN age,
         to.late => to.token \in ended',
         to.late /\ to.at = "passed" => age'[to.token] # "fresh"
  PROVE  TokenInv'
BY DEF TokenInv, TokenTyped, EndedAreDenied, TokensAge

LEMMA IssueAges == ASSUME TokenTyped, Issue PROVE TokensAge
BY DEF TokenTyped, Issue, TokensAge, TokenAges

LEMMA TokenInvKept == TokenInv /\ [AccountsNext]_accountVars => TokenInv'
<1> SUFFICES ASSUME TokenInv, [AccountsNext]_accountVars PROVE TokenInv'
  OBVIOUS
<1>1. /\ TokenTyped /\ EndedAreDenied /\ ended \subseteq DOMAIN age /\ denied \subseteq DOMAIN age
      /\ \A t \in ended : age[t] = "fresh" => t \in denied
      /\ age \in Seq(TokenAges)
  BY DEF TokenInv, TokenTyped, EndedAreDenied
<1>2. age' = age => TokensAge
  BY <1>1 DEF TokensAge
<1>3. TokensAge /\ UNCHANGED <<denied, ended, refreshing>> => TokenInv'
  <2> SUFFICES ASSUME TokensAge, UNCHANGED <<denied, ended, refreshing>> PROVE TokenInv'
    OBVIOUS
  <2>1. \A t \in ended' : age'[t] = "fresh" => t \in denied'
    BY <1>1 DEF TokensAge
  <2> QED
    BY <1>1, <2>1, TokenStep
<1>4. ASSUME NEW c \in Creates,
             LookUpUser(c) \/ InsertUser(c) \/ CreateVirtualKey(c) \/ CommitAccount(c)
               \/ CreateFails(c)
      PROVE  TokenInv'
  BY <1>1, <1>2, <1>3, <1>4, IssueAges
     DEF LookUpUser, InsertUser, CreateVirtualKey, CommitAccount, CreateFails, tokenVars
<1>5. CASE Leave \/ Login
  BY <1>1, <1>2, <1>3, <1>5, IssueAges DEF Leave, Login, tokenVars
<1>6. ASSUME NEW r \in Refreshes, NEW t \in DOMAIN age, BeginRefresh(r, t) PROVE TokenInv'
  <2> DEFINE to == [at |-> "begun", token |-> t, late |-> t \in ended]
  <2>1. /\ to \in [at : {"idle", "begun", "passed"}, token : Nat, late : BOOLEAN]
        /\ to.token = t /\ to.late = (t \in ended) /\ to.at = "begun"
    BY <1>1
  <2>2. refreshing' = [refreshing EXCEPT ![r] = to] /\ UNCHANGED <<age, denied, ended>>
    BY <1>6 DEF BeginRefresh
  <2>3. TokensAge /\ \A u \in ended' : age'[u] = "fresh" => u \in denied'
    BY <1>1, <1>2, <2>2
  <2> HIDE DEF to
  <2> QED
    BY <1>1, <2>1, <2>2, <2>3, RefreshStep
<1>7. ASSUME NEW r \in Refreshes, CheckRevoked(r) PROVE TokenInv'
  <2> DEFINE from == refreshing[r]
             to == IF from.token \in denied THEN Idle ELSE [from EXCEPT !.at = "passed"]
  <2>1. /\ from \in [at : {"idle", "begun", "passed"}, token : Nat, late : BOOLEAN]
        /\ from.at = "begun" /\ from.token \in DOMAIN age /\ (from.late => from.token \in ended)
    BY <1>1, <1>7 DEF TokenTyped, EndedAreDenied, CheckRevoked
  <2>2. /\ to \in [at : {"idle", "begun", "passed"}, token : Nat, late : BOOLEAN]
        /\ to.at # "idle" => to.token \in DOMAIN age
        /\ to.late => to.token \in ended
        /\ to.late /\ to.at = "passed" => age[to.token] # "fresh"
    BY <1>1, <2>1 DEF Idle
  <2>3. refreshing' = [refreshing EXCEPT ![r] = to] /\ UNCHANGED <<age, denied, ended>>
    BY <1>7 DEF CheckRevoked
  <2>4. TokensAge /\ \A u \in ended' : age'[u] = "fresh" => u \in denied'
    BY <1>1, <1>2, <2>3
  <2> HIDE DEF to
  <2> QED
    BY <1>1, <2>2, <2>3, <2>4, RefreshStep
<1>8. ASSUME NEW r \in Refreshes, Rotate(r) \/ RefreshFails(r) PROVE TokenInv'
  <2> DEFINE t == refreshing[r].token
  <2>1. t \in DOMAIN age
    BY <1>1, <1>8 DEF EndedAreDenied, Rotate, EndRotate, RefreshFails
  <2>2. TokensAge
    BY <1>1, <1>2, <1>8, IssueAges DEF Rotate, EndRotate, RefreshFails
  <2>3. refreshing' = [refreshing EXCEPT ![r] = Idle]
    BY <1>8 DEF Rotate, EndRotate, RefreshFails
  <2>4. /\ ended \subseteq ended' /\ ended' \subseteq ended \cup {t}
        /\ denied \subseteq denied' /\ denied' \subseteq denied \cup {t}
        /\ t \in ended' \ ended /\ age[t] = "fresh" => t \in denied'
    BY <1>8 DEF Rotate, RefreshFails, SecondsLeft
  <2>5. \A u \in ended' : age'[u] = "fresh" => u \in denied'
    BY <1>1, <2>1, <2>2, <2>4 DEF TokensAge
  <2>6. /\ Idle \in [at : {"idle", "begun", "passed"}, token : Nat, late : BOOLEAN]
        /\ Idle.at = "idle" /\ ~Idle.late
    BY DEF Idle
  <2> QED
    BY <1>1, <2>1, <2>2, <2>3, <2>4, <2>5, <2>6, RefreshStep
<1>9. ASSUME NEW t \in DOMAIN age, Logout(t) \/ Lapse(t) PROVE TokenInv'
  <2>1. UNCHANGED <<age, refreshing>> /\ TokensAge
    BY <1>2, <1>9 DEF Logout, Lapse
  <2>2. /\ ended \subseteq ended' /\ ended' \subseteq DOMAIN age /\ denied' \subseteq DOMAIN age
        /\ \A u \in ended' : age[u] = "fresh" => u \in denied'
    BY <1>1, <1>9 DEF Logout, Lapse, SecondsLeft
  <2> QED
    BY <2>1, <2>2, TokenStep
<1>10. ASSUME NEW t \in DOMAIN age, PassTime(t) PROVE TokenInv'
  <2>1. age' = [age EXCEPT ![t] = Ages[age[t]]] /\ UNCHANGED <<denied, ended, refreshing>>
    BY <1>10 DEF PassTime
  <2>2. age[t] \in {"fresh", "last"}
    BY <1>1, <1>10 DEF PassTime, Expired, TokenAges
  <2>3. Ages[age[t]] \in {"last", "expired"}
    BY <2>2 DEF Ages
  <2>4. TokensAge
    BY <1>1, <2>1, <2>3 DEF TokensAge, TokenAges
  <2> QED
    BY <1>3, <2>1, <2>4
<1>11. CASE UNCHANGED accountVars
  BY <1>2, <1>3, <1>11 DEF accountVars
<1> QED
  BY <1>4, <1>5, <1>6, <1>7, <1>8, <1>9, <1>10, <1>11 DEF AccountsNext

LEMMA TokensStaySpent == TokenInv => SpentTokensStaySpent
BY DEF TokenInv, EndedAreDenied, SpentTokensStaySpent, SecondsLeft

--------------------------------------------------------------------------------
(* A partner's allowance. *)

Windows == 1..MaxWindows
Sent == [at : {"idle", "sent", "resolved", "counted", "named", "inside"}, key : Keys \cup {"none"},
         user : Users \cup {"none"}, window : Nat, late : BOOLEAN, gone : BOOLEAN]

KeysTyped ==
  /\ keyRow \in [Keys -> {"none", "live", "revoked"}]
  /\ known \in [Users -> {"unknown", "live", "deleted"}]
  /\ window \in Windows
  /\ counted \in [Windows -> Nat] /\ passed \in [Windows -> Nat] /\ missed \in [Windows -> Nat]
  /\ requests \in [Requests -> Sent]

\* Who passed was counted, or missed by the cache.
CountedOrMissed ==
  \A w \in Windows : /\ passed[w] <= counted[w] + missed[w]
                     /\ passed[w] <= RateLimit + missed[w]

RequestSound(q) ==
  /\ q.at # "idle" => q.key \in Keys /\ q.user \in Users
  /\ q.at = "resolved" => q.window \in Windows
  /\ q.late => q.at \in {"idle", "sent"} /\ (q.at = "sent" => keyRow[q.key] = "revoked")
  /\ q.gone => q.at # "inside" /\ (q.at # "idle" => known[q.user] = "deleted")

KeysInv == KeysTyped /\ CountedOrMissed /\ \A r \in Requests : RequestSound(requests[r])

LEMMA KeysInitInv == KeysInit => KeysInv
BY AllowanceAssumption
   DEF KeysInit, KeysInv, KeysTyped, CountedOrMissed, RequestSound, Quiet, PerWindow, Windows, Sent

LEMMA QuietIsSound == Quiet \in Sent /\ Quiet.at = "idle" /\ ~Quiet.late /\ ~Quiet.gone
BY DEF Quiet, Sent

\* A request moves on; the keys and the users stay.
LEMMA RequestStep ==
  ASSUME KeysInv, NEW r \in Requests, NEW q \in Sent, requests' = [requests EXCEPT ![r] = q],
         RequestSound(q), UNCHANGED <<keyRow, known, window>>,
         counted' \in [Windows -> Nat], passed' \in [Windows -> Nat], missed' \in [Windows -> Nat],
         CountedOrMissed'
  PROVE  KeysInv'
<1>1. requests' \in [Requests -> Sent]
      /\ \A s \in Requests : requests'[s] = IF s = r THEN q ELSE requests[s]
  BY DEF KeysInv, KeysTyped
<1>2. \A s \in Requests : RequestSound(requests[s])'
  BY <1>1 DEF KeysInv, RequestSound
<1> QED
  BY <1>1, <1>2 DEF KeysInv, KeysTyped

LEMMA KeysInvKept == KeysInv /\ [KeysNext]_keyVars => KeysInv'
<1> SUFFICES ASSUME KeysInv, [KeysNext]_keyVars PROVE KeysInv'
  OBVIOUS
<1> USE DEF KeysInv
<1>1. /\ \A r \in Requests : requests[r] \in Sent
      /\ counted \in [Windows -> Nat] /\ passed \in [Windows -> Nat] /\ missed \in [Windows -> Nat]
      /\ keyRow \in [Keys -> {"none", "live", "revoked"}]
      /\ known \in [Users -> {"unknown", "live", "deleted"}] /\ window \in Windows
  BY DEF KeysTyped
<1>2. UNCHANGED <<counted, passed, missed>> =>
        /\ counted' \in [Windows -> Nat] /\ passed' \in [Windows -> Nat]
        /\ missed' \in [Windows -> Nat] /\ CountedOrMissed'
  BY <1>1 DEF CountedOrMissed
<1>3. ASSUME NEW k \in Keys, IssueKey(k) \/ RevokeKey(k) PROVE KeysInv'
  <2>1. keyRow' \in [Keys -> {"none", "live", "revoked"}]
        /\ \A l \in Keys : keyRow[l] = "revoked" => keyRow'[l] = "revoked"
    BY <1>1, <1>3 DEF IssueKey, RevokeKey
  <2>2. UNCHANGED <<known, window, counted, requests, passed, missed>>
    BY <1>3 DEF IssueKey, RevokeKey
  <2>3. \A r \in Requests : RequestSound(requests[r])'
    BY <2>1, <2>2 DEF RequestSound
  <2> QED
    BY <1>2, <2>1, <2>2, <2>3 DEF KeysTyped
<1>4. ASSUME NEW u \in Users, ChangeUser(u) PROVE KeysInv'
  <2>1. known' \in [Users -> {"unknown", "live", "deleted"}]
        /\ \A v \in Users : known[v] = "deleted" => known'[v] = "deleted"
    BY <1>1, <1>4 DEF ChangeUser
  <2>2. UNCHANGED <<keyRow, window, counted, requests, passed, missed>>
    BY <1>4 DEF ChangeUser
  <2>3. \A r \in Requests : RequestSound(requests[r])'
    BY <2>1, <2>2 DEF RequestSound
  <2> QED
    BY <1>2, <2>1, <2>2, <2>3 DEF KeysTyped
<1>5. ASSUME NEW r \in Requests, NEW k \in Keys, NEW u \in Users, Send(r, k, u) PROVE KeysInv'
  <2> DEFINE q == [at |-> "sent", key |-> k, user |-> u, window |-> 0,
                   late |-> keyRow[k] = "revoked", gone |-> known[u] = "deleted"]
  <2>1. q \in Sent /\ RequestSound(q)
    BY DEF Sent, RequestSound
  <2>2. requests' = [requests EXCEPT ![r] = q]
        /\ UNCHANGED <<keyRow, known, window, counted, passed, missed>>
    BY <1>5 DEF Send
  <2> HIDE DEF q
  <2> QED
    BY <1>2, <2>1, <2>2, RequestStep
<1>6. ASSUME NEW r \in Requests,
             ResolveApiKey(r) \/ ResolveUser(r) \/ GateUser(r) \/ Serve(r)
      PROVE  KeysInv'
  <2>1. UNCHANGED <<keyRow, known, window, counted, passed, missed>>
    BY <1>6 DEF ResolveApiKey, ResolveUser, GateUser, Serve
  <2>2. PICK q \in Sent : requests' = [requests EXCEPT ![r] = q] /\ RequestSound(q)
    <3>1. CASE requests' = [requests EXCEPT ![r] = Quiet]
      BY <3>1, QuietIsSound DEF RequestSound
    <3>2. CASE ResolveApiKey(r) /\ requests' # [requests EXCEPT ![r] = Quiet]
      <4> DEFINE q == [requests[r] EXCEPT !.at = "resolved", !.window = window]
      <4>1. requests' = [requests EXCEPT ![r] = q] /\ requests[r].at = "sent"
            /\ keyRow[requests[r].key] = "live"
        BY <1>1, <3>2 DEF ResolveApiKey, EndRequest
      <4>3. window \in Nat /\ requests[r] \in Sent /\ RequestSound(requests[r])
        BY <1>1 DEF Windows
      <4>4. q \in Sent
        BY <4>3 DEF Sent
      <4>5. RequestSound(q)
        BY <1>1, <4>1, <4>3 DEF Sent, RequestSound
      <4>2. q \in Sent /\ RequestSound(q)
        BY <4>4, <4>5
      <4> QED
        BY <4>1, <4>2
    <3>3. CASE ResolveUser(r) /\ requests' # [requests EXCEPT ![r] = Quiet]
      <4> DEFINE q == [requests[r] EXCEPT !.at = "named"]
      <4>1. requests' = [requests EXCEPT ![r] = q] /\ requests[r].at = "counted"
        BY <1>1, <3>3 DEF ResolveUser, EndRequest, Step
      <4>2. q \in Sent /\ RequestSound(q)
        BY <1>1, <4>1 DEF Sent, RequestSound
      <4> QED
        BY <4>1, <4>2
    <3>4. CASE GateUser(r) /\ requests' # [requests EXCEPT ![r] = Quiet]
      <4> DEFINE q == [requests[r] EXCEPT !.at = "inside"]
      <4>1. requests' = [requests EXCEPT ![r] = q] /\ requests[r].at = "named"
            /\ known[requests[r].user] = "live"
        BY <1>1, <3>4 DEF GateUser, EndRequest, Step
      <4>2. q \in Sent /\ RequestSound(q)
        BY <1>1, <4>1 DEF Sent, RequestSound
      <4> QED
        BY <4>1, <4>2
    <3> QED
      BY <1>6, <3>1, <3>2, <3>3, <3>4 DEF Serve, EndRequest
  <2> QED
    BY <1>2, <2>1, <2>2, RequestStep
<1>7. ASSUME NEW r \in Requests, IncrWindow(r) \/ CacheOut(r) PROVE KeysInv'
  <2> DEFINE w == requests[r].window
  <2>1. w \in Windows /\ requests[r].at = "resolved" /\ UNCHANGED <<keyRow, known, window>>
    BY <1>7 DEF RequestSound, IncrWindow, CacheOut, Step
  <2>2. PICK q \in Sent : requests' = [requests EXCEPT ![r] = q] /\ RequestSound(q)
    <3>1. CASE requests' = [requests EXCEPT ![r] = Quiet]
      BY <3>1, QuietIsSound DEF RequestSound
    <3>2. CASE requests' = [requests EXCEPT ![r].at = "counted"]
      <4> DEFINE q == [requests[r] EXCEPT !.at = "counted"]
      <4>1. requests' = [requests EXCEPT ![r] = q]
        BY <1>1, <3>2
      <4>2. q \in Sent /\ RequestSound(q)
        BY <1>1, <2>1 DEF Sent, RequestSound
      <4> QED
        BY <4>1, <4>2
    <3> QED
      BY <1>7, <3>1, <3>2 DEF IncrWindow, CacheOut, EndRequest, Step
  <2>3. /\ counted' \in [Windows -> Nat] /\ passed' \in [Windows -> Nat]
        /\ missed' \in [Windows -> Nat]
    BY <1>1, <1>7, <2>1 DEF IncrWindow, CacheOut
  <2>4. CountedOrMissed'
    <3>1. CASE IncrWindow(r)
      BY <1>1, <2>1, <3>1, AllowanceAssumption DEF IncrWindow, CountedOrMissed, Step, EndRequest
    <3>2. CASE CacheOut(r)
      BY <1>1, <2>1, <3>2, AllowanceAssumption DEF CacheOut, CountedOrMissed
    <3> QED
      BY <1>7, <3>1, <3>2
  <2> QED
    BY <2>1, <2>2, <2>3, <2>4, RequestStep
<1>8. CASE NextMinute
  <2>1. window' \in Windows
    BY <1>1, <1>8, AllowanceAssumption DEF NextMinute, Windows
  <2> QED
    BY <1>8, <2>1 DEF NextMinute, KeysTyped, CountedOrMissed, RequestSound
<1>9. CASE UNCHANGED keyVars
  BY <1>9 DEF keyVars, KeysTyped, CountedOrMissed, RequestSound
<1> QED
  BY <1>3, <1>4, <1>5, <1>6, <1>7, <1>8, <1>9 DEF KeysNext

LEMMA AllowanceIsKept == KeysInv => AllowanceKept
BY DEF KeysInv, CountedOrMissed, RequestSound, AllowanceKept, Windows, KeysTyped, Sent

(* Who gets in, for any persons, tokens, partners and calls at once: an address   *)
(* has one account, a refresh token that was rotated or logged out is of no more  *)
(* use (auth.py), and in a window no more requests of a partner pass than its     *)
(* allowance and those the cache failed to count, none of them sent after its     *)
(* key was revoked or for a user who had left (deps.py).                          *)
THEOREM AccessAlwaysHolds == AccountsSpec /\ KeysSpec => []AccessHolds
<1>1. AccountsSpec => []OneAccount
  BY AccountInitInv, AccountInvKept, AccountIsOne, PTL DEF AccountsSpec
<1>2. AccountsSpec => []SpentTokensStaySpent
  BY TokenInitInv, TokenInvKept, TokensStaySpent, PTL DEF AccountsSpec
<1>3. KeysSpec => []AllowanceKept
  BY KeysInitInv, KeysInvKept, AllowanceIsKept, PTL DEF KeysSpec
<1> QED
  BY <1>1, <1>2, <1>3, PTL DEF AccessHolds

--------------------------------------------------------------------------------
(* The links to Google. *)

CallSet == [does : {"nothing", "callback", "today", "disconnect"},
            at : {"idle", "begun", "exchanged", "reading", "listing", "read", "revoked"},
            for : Providers, token : Nat, confirmed : BOOLEAN, calendarLive : BOOLEAN,
            others : Nat, barred : SUBSET Nat]

LinksTyped ==
  /\ states \subseteq Nat \X Providers /\ given \in Nat /\ tokens \in Nat
  /\ alive \subseteq 1..tokens
  /\ row \in [Providers -> [token : 0..tokens, revoked : BOOLEAN, confirmed : BOOLEAN]]
  /\ gcall \in [Calls -> CallSet]
  /\ said \in [gone : SUBSET (1..tokens), unsure : SUBSET (1..tokens), refused : SUBSET (1..tokens),
               overrun : SUBSET (1..tokens), hit : SUBSET (Providers \X Nat)]

\* What a call holds of the links, at each of its steps.
CallSound(q) ==
  /\ q.at \in {"exchanged", "reading", "listing", "read", "revoked"} => q.token \in 1..tokens
  /\ q.at = "exchanged" => q.does = "callback"
  /\ q.at \in {"reading", "listing"} => q.token \notin q.barred
  /\ q.at \in {"read", "revoked"} => q.does = "disconnect" /\ q.token # row[TheOther(q.for)].token
  /\ q.at = "read" /\ q.for = "gmail" /\ ~q.calendarLive => q.others = 0
  /\ q.at = "revoked" /\ q.confirmed => q.token \notin alive
  /\ q.barred \subseteq said.gone

\* A token on its way to its row was never in one.
OnItsWay(t) ==
  /\ t \notin said.gone /\ \A p \in Providers : row[p].token # t

LinkInv ==
  /\ LinksTyped
  /\ \A c \in Calls : CallSound(gcall[c])
  /\ \A c \in Calls : gcall[c].at = "exchanged" =>
       /\ OnItsWay(gcall[c].token)
       /\ \A d \in Calls :
            d # c /\ gcall[d].at \in {"exchanged", "read", "revoked"} =>
              gcall[d].token # gcall[c].token
  /\ \A p \in Providers : row[p].token # 0 =>
       /\ ~row[p].revoked /\ row[p].token \notin said.gone
       /\ row[p].token # row[TheOther(p)].token
  /\ \A a \in alive, b \in 1..tokens : a <= b => b \in alive
  /\ said.gone \ said.unsure \subseteq (1..tokens) \ alive
  /\ alive # {} =>
       \E a \in alive :
         \/ \E p \in Providers : row[p].token = a
         \/ \E c \in Calls : gcall[c].at = "exchanged" /\ gcall[c].token = a
         \/ a \in said.refused \cup said.unsure \cup said.overrun
  /\ \A hit \in said.hit : hit[1] # "gmail"


LEMMA LinksAreTold == LinkInv => LinksAsTold
BY DEF LinkInv, LinksTyped, CallSet, CallSound, LinksAsTold, Doing

LEMMA TheOtherIs == /\ TheOther("calendar") = "gmail" /\ TheOther("gmail") = "calendar"
                    /\ Providers = {"calendar", "gmail"}
<1>1. (CHOOSE q \in Providers : q # "calendar") = "gmail"
  BY DEF Providers
<1>2. (CHOOSE q \in Providers : q # "gmail") = "calendar"
  BY DEF Providers
<1> QED
  BY <1>1, <1>2 DEF TheOther, Providers

LEMMA LinksInitInv == LinksInit => LinkInv
BY DEF LinksInit, LinkInv, LinksTyped, CallSet, CallSound, Free, Linked, Providers

LEMMA FreeIsSound == Free \in CallSet /\ Free.at = "idle" /\ Free.barred = {} /\ Free.token = 0
BY DEF Free, CallSet, Providers

\* A step of one call that changes nothing but the call.
LEMMA CallAlone ==
  ASSUME LinkInv, NEW c \in Calls, NEW q \in CallSet, gcall' = [gcall EXCEPT ![c] = q],
         UNCHANGED <<row, tokens, alive, said>>, states' \subseteq Nat \X Providers, given' \in Nat,
         gcall[c].at # "exchanged", q.at # "exchanged", CallSound(q),
         q.at \in {"read", "revoked"} =>
           \A d \in Calls : gcall[d].at = "exchanged" => gcall[d].token # q.token
  PROVE  LinkInv'
<1>1. gcall' \in [Calls -> CallSet]
      /\ \A d \in Calls : gcall'[d] = IF d = c THEN q ELSE gcall[d]
  BY DEF LinkInv, LinksTyped
<1>2. LinksTyped'
  BY <1>1 DEF LinkInv, LinksTyped
<1>3. \A d \in Calls : CallSound(gcall[d])'
  BY <1>1 DEF LinkInv, CallSound
<1>4. (\A d \in Calls : gcall[d].at = "exchanged" =>
         /\ OnItsWay(gcall[d].token)
         /\ \A e \in Calls :
              e # d /\ gcall[e].at \in {"exchanged", "read", "revoked"} =>
                gcall[e].token # gcall[d].token)'
  BY <1>1 DEF LinkInv, OnItsWay
<1>5. (alive # {} =>
         \E a \in alive :
           \/ \E p \in Providers : row[p].token = a
           \/ \E d \in Calls : gcall[d].at = "exchanged" /\ gcall[d].token = a
           \/ a \in said.refused \cup said.unsure \cup said.overrun)'
  BY <1>1 DEF LinkInv
<1> QED
  BY <1>2, <1>3, <1>4, <1>5 DEF LinkInv

\* A call that begins, that goes back to idle, that reads.
LEMMA CallBegins ==
  ASSUME LinkInv, NEW c \in Calls, NEW p \in Providers,
         NEW does \in {"callback", "today", "disconnect"}, Begin(c, does, p),
         UNCHANGED <<row, tokens, alive, said, given>>, states' \subseteq states
  PROVE  LinkInv'
<1> DEFINE q == [Free EXCEPT !.does = does, !.at = "begun", !.for = p, !.barred = said.gone]
<1>4. said.gone \in SUBSET Nat
  BY DEF LinkInv, LinksTyped
<1>1. q \in CallSet /\ q.at = "begun" /\ q.barred = said.gone
  BY <1>4, FreeIsSound DEF CallSet
<1>2. CallSound(q) /\ gcall' = [gcall EXCEPT ![c] = q] /\ gcall[c].at = "idle"
  BY <1>1 DEF CallSound, Begin
<1>3. states' \subseteq Nat \X Providers /\ given' \in Nat
  BY DEF LinkInv, LinksTyped
<1> HIDE DEF q
<1> QED
  BY <1>1, <1>2, <1>3, CallAlone

LEMMA CallEnds ==
  ASSUME LinkInv, NEW c \in Calls, Reply(c), gcall[c].at # "exchanged",
         UNCHANGED <<row, tokens, alive, said, given, states>>
  PROVE  LinkInv'
<1>1. CallSound(Free)
  BY FreeIsSound DEF CallSound
<1>2. states' \subseteq Nat \X Providers /\ given' \in Nat
  BY DEF LinkInv, LinksTyped
<1> QED
  BY <1>1, <1>2, FreeIsSound, CallAlone DEF Reply

LEMMA ReadTokenKeeps ==
  ASSUME LinkInv, NEW c \in Calls, ReadToken(c) PROVE LinkInv'
<1> DEFINE t == row["calendar"].token
           q == [gcall[c] EXCEPT !.at = "reading", !.token = t]
<1>1. CASE t = 0
  BY <1>1, CallEnds DEF ReadToken, Doing
<1>2. CASE t # 0
  <2>1. gcall[c] \in CallSet /\ CallSound(gcall[c]) /\ t \in 1..tokens /\ t \notin said.gone
        /\ gcall[c].at = "begun"
    BY <1>2, TheOtherIs DEF LinkInv, LinksTyped, ReadToken, Doing
  <2>6. t \in Nat
    BY <2>1 DEF LinkInv, LinksTyped
  <2>2. q \in CallSet /\ q.at = "reading" /\ q.token = t /\ q.barred = gcall[c].barred
    BY <2>1, <2>6 DEF CallSet
  <2>3. CallSound(q)
    BY <2>1, <2>2 DEF CallSound
  <2>4. gcall' = [gcall EXCEPT ![c] = q]
    BY <1>2 DEF ReadToken
  <2>5. states' \subseteq Nat \X Providers /\ given' \in Nat
    BY DEF LinkInv, LinksTyped, ReadToken
  <2> HIDE DEF q, t
  <2> QED
    BY <2>1, <2>2, <2>3, <2>4, <2>5, CallAlone DEF ReadToken
<1> QED
  BY <1>1, <1>2

LEMMA RefreshAccessKeeps ==
  ASSUME LinkInv, NEW c \in Calls, RefreshAccess(c) PROVE LinkInv'
<1> DEFINE q == [gcall[c] EXCEPT !.at = "listing"]
<1>1. gcall[c] \in CallSet /\ CallSound(gcall[c]) /\ gcall[c].at = "reading"
      /\ UNCHANGED <<row, tokens, alive, said, given, states>>
  BY DEF LinkInv, LinksTyped, RefreshAccess, Doing
<1>2. CASE gcall' = [gcall EXCEPT ![c] = q]
  <2>1. q \in CallSet /\ q.at = "listing" /\ CallSound(q)
    BY <1>1 DEF CallSet, CallSound
  <2>2. states' \subseteq Nat \X Providers /\ given' \in Nat
    BY <1>1 DEF LinkInv, LinksTyped
  <2> HIDE DEF q
  <2> QED
    BY <1>1, <1>2, <2>1, <2>2, CallAlone
<1>3. CASE Reply(c)
  BY <1>1, <1>3, CallEnds
<1>4. gcall' = [gcall EXCEPT ![c] = q] \/ Reply(c)
  BY DEF RefreshAccess, Reply
<1> QED
  BY <1>2, <1>3, <1>4

LEMMA ReadLinkKeeps ==
  ASSUME LinkInv, NEW c \in Calls, ReadLink(c) PROVE LinkInv'
<1> DEFINE p == gcall[c].for
           t == row[p].token
           o == row[TheOther(p)].token
           live == p = "gmail" /\ CalendarLives
           q == [gcall[c] EXCEPT !.at = "read", !.token = t, !.others = o, !.calendarLive = live]
<1>1. gcall[c] \in CallSet /\ CallSound(gcall[c]) /\ gcall[c].at = "begun"
      /\ gcall[c].does = "disconnect" /\ p \in Providers /\ TheOther(p) \in Providers
      /\ UNCHANGED <<row, tokens, alive, said, given, states>>
  BY TheOtherIs DEF LinkInv, LinksTyped, ReadLink, Doing, CallSet
<1>2. CASE row[p].token = 0
  BY <1>1, <1>2, CallEnds DEF ReadLink
<1>3. CASE row[p].token # 0
  <2>1. row[p].token \in 1..tokens /\ row[p].token # row[TheOther(p)].token
        /\ row[TheOther(p)].token \in Nat
    BY <1>1, <1>3 DEF LinkInv, LinksTyped
  <2>8. t \in Nat /\ o \in Nat /\ live \in BOOLEAN
    BY <2>1 DEF LinkInv, LinksTyped
  <2>2. q \in CallSet /\ q.at = "read" /\ q.token = t /\ q.does = "disconnect"
        /\ q.for = p /\ q.barred = gcall[c].barred /\ q.others = o /\ q.calendarLive = live
    <3> HIDE DEF t, o, live
    <3> QED
      BY <1>1, <2>8 DEF CallSet
  <2>3. p = "gmail" /\ ~CalendarLives => row[TheOther(p)].token = 0
    BY <1>1, TheOtherIs DEF CalendarLives, LinkInv
  <2>4. CallSound(q)
    BY <1>1, <2>1, <2>2, <2>3 DEF CallSound
  <2>5. gcall' = [gcall EXCEPT ![c] = q]
    BY <1>3 DEF ReadLink
  <2>6. \A d \in Calls : gcall[d].at = "exchanged" => gcall[d].token # q.token
    BY <1>1, <2>2 DEF LinkInv, OnItsWay
  <2>7. states' \subseteq Nat \X Providers /\ given' \in Nat
    BY <1>1 DEF LinkInv, LinksTyped
  <2> HIDE DEF q, p
  <2> QED
    BY <1>1, <2>2, <2>4, <2>5, <2>6, <2>7, CallAlone
<1> QED
  BY <1>2, <1>3

\* A disconnect that has had its answer from Google, or kept the grant.
LEMMA ConfirmSound ==
  ASSUME LinkInv, NEW c \in Calls, Doing(c, "disconnect", "read"), NEW b \in BOOLEAN
  PROVE  \E q \in CallSet :
           /\ Confirm(c, b) => gcall' = [gcall EXCEPT ![c] = q]
           /\ q.at = "revoked" /\ q.token = gcall[c].token /\ q.for = gcall[c].for
           /\ q.does = "disconnect" /\ q.confirmed = b /\ q.barred = gcall[c].barred
           /\ q.token \in 1..tokens /\ q.token # row[TheOther(q.for)].token
           /\ \A d \in Calls : gcall[d].at = "exchanged" => gcall[d].token # q.token
<1> DEFINE q == [gcall[c] EXCEPT !.at = "revoked", !.confirmed = b]
<1>1. gcall[c] \in CallSet /\ CallSound(gcall[c]) /\ gcall[c].at = "read"
      /\ gcall[c].does = "disconnect"
  BY DEF LinkInv, LinksTyped, Doing
<1>2. q \in CallSet /\ q.at = "revoked" /\ q.token = gcall[c].token /\ q.for = gcall[c].for
      /\ q.does = "disconnect" /\ q.confirmed = b /\ q.barred = gcall[c].barred
  BY <1>1 DEF CallSet
<1>3. q.token \in 1..tokens /\ q.token # row[TheOther(q.for)].token
  BY <1>1, <1>2 DEF CallSound
<1>4. \A d \in Calls : gcall[d].at = "exchanged" => gcall[d].token # q.token
  BY <1>1, <1>2 DEF LinkInv
<1>5. Confirm(c, b) => gcall' = [gcall EXCEPT ![c] = q]
  BY DEF Confirm
<1> HIDE DEF q
<1> QED
  BY <1>2, <1>3, <1>4, <1>5

LEMMA KeepGrantKeeps ==
  ASSUME LinkInv, NEW c \in Calls, KeepGrant(c) PROVE LinkInv'
<1>1. Doing(c, "disconnect", "read") /\ Confirm(c, FALSE)
      /\ UNCHANGED <<row, tokens, alive, said, given, states>>
  BY DEF KeepGrant
<1>2. PICK q \in CallSet :
           /\ Confirm(c, FALSE) => gcall' = [gcall EXCEPT ![c] = q]
           /\ q.at = "revoked" /\ q.token = gcall[c].token /\ q.for = gcall[c].for
           /\ q.does = "disconnect" /\ q.confirmed = FALSE /\ q.barred = gcall[c].barred
           /\ q.token \in 1..tokens /\ q.token # row[TheOther(q.for)].token
           /\ \A d \in Calls : gcall[d].at = "exchanged" => gcall[d].token # q.token
  BY <1>1, ConfirmSound
<1>3. CallSound(q)
  BY <1>2 DEF CallSound, LinkInv
<1>4. states' \subseteq Nat \X Providers /\ given' \in Nat /\ gcall[c].at # "exchanged"
  BY <1>1 DEF LinkInv, LinksTyped, Doing
<1> QED
  BY <1>1, <1>2, <1>3, <1>4, CallAlone

\* Google ends the grant, by a disconnect of c or by itself: nothing it gave is taken
\* any more.  What a call holds of dead tokens stays so.
LEMMA GrantEnds ==
  ASSUME LinkInv, NEW c \in Calls, NEW q \in CallSet, gcall' = [gcall EXCEPT ![c] = q],
         UNCHANGED <<row, tokens, given, states>>, alive' = {}, gcall[c].at # "exchanged",
         NEW new \in SUBSET ({"calendar"} \X Nat), said' = [said EXCEPT !.hit = @ \cup new],
         q.at = "revoked", q.does = "disconnect", q.barred = gcall[c].barred, q.token \in 1..tokens,
         q.token # row[TheOther(q.for)].token,
         \A d \in Calls : gcall[d].at = "exchanged" => gcall[d].token # q.token
  PROVE  LinkInv'
<1>1. gcall' \in [Calls -> CallSet]
      /\ \A d \in Calls : gcall'[d] = IF d = c THEN q ELSE gcall[d]
  BY DEF LinkInv, LinksTyped
<1>2. /\ said.gone' = said.gone /\ said.unsure' = said.unsure /\ said.refused' = said.refused
      /\ said.overrun' = said.overrun /\ said.hit' = said.hit \cup new
  BY DEF LinkInv, LinksTyped
<1>3. said' \in [gone : SUBSET (1..tokens), unsure : SUBSET (1..tokens),
                 refused : SUBSET (1..tokens), overrun : SUBSET (1..tokens),
                 hit : SUBSET (Providers \X Nat)]
  <2>1. said.hit \cup new \in SUBSET (Providers \X Nat)
    BY DEF LinkInv, LinksTyped, Providers
  <2> QED
    BY <2>1 DEF LinkInv, LinksTyped
<1>4. LinksTyped'
  BY <1>1, <1>3 DEF LinkInv, LinksTyped
<1>5. \A d \in Calls : CallSound(gcall[d])'
  BY <1>1, <1>2 DEF LinkInv, CallSound
<1>6. (\A d \in Calls : gcall[d].at = "exchanged" =>
         /\ OnItsWay(gcall[d].token)
         /\ \A e \in Calls :
              e # d /\ gcall[e].at \in {"exchanged", "read", "revoked"} =>
                gcall[e].token # gcall[d].token)'
  BY <1>1, <1>2 DEF LinkInv, OnItsWay
<1>7. (\A hit \in said.hit : hit[1] # "gmail")'
  BY <1>2 DEF LinkInv
<1>8. (said.gone \ said.unsure \subseteq (1..tokens) \ alive)'
  BY <1>2 DEF LinkInv
<1>9. (\A p \in Providers : row[p].token # 0 =>
       /\ ~row[p].revoked /\ row[p].token \notin said.gone
       /\ row[p].token # row[TheOther(p)].token)'
  BY <1>2 DEF LinkInv
<1> QED
  BY <1>4, <1>5, <1>6, <1>7, <1>8, <1>9 DEF LinkInv

LEMMA RevokeKeeps ==
  ASSUME LinkInv, NEW c \in Calls, Revoke(c) \/ RevokeFails(c) PROVE LinkInv'
<1>1. /\ Doing(c, "disconnect", "read") /\ gcall[c].at = "read" /\ ~gcall[c].calendarLive
      /\ UNCHANGED <<row, tokens, given, states>>
      /\ gcall[c] \in CallSet /\ CallSound(gcall[c])
  BY DEF Revoke, RevokeFails, Doing, LinkInv, LinksTyped
<1>2. PICK b \in BOOLEAN : /\ Confirm(c, b)
                           /\ EndGrant(c) \/ (b = FALSE /\ UNCHANGED <<alive, said>>)
  BY DEF Revoke, RevokeFails
<1>3. PICK q \in CallSet :
           /\ Confirm(c, b) => gcall' = [gcall EXCEPT ![c] = q]
           /\ q.at = "revoked" /\ q.token = gcall[c].token /\ q.for = gcall[c].for
           /\ q.does = "disconnect" /\ q.confirmed = b /\ q.barred = gcall[c].barred
           /\ q.token \in 1..tokens /\ q.token # row[TheOther(q.for)].token
           /\ \A d \in Calls : gcall[d].at = "exchanged" => gcall[d].token # q.token
  BY <1>1, ConfirmSound
<1>4. CASE gcall[c].token \in alive /\ EndGrant(c)
  <2> DEFINE under == {gcall[c].others} \cap alive \cap {row[p].token : p \in Providers}
             new == {<<gcall[c].for, u>> : u \in under}
  <2>1. alive' = {} /\ said' = [said EXCEPT !.hit = @ \cup new]
    BY <1>4 DEF EndGrant
  <2>2. gcall[c].for = "gmail" => under = {}
    BY <1>1 DEF LinkInv, LinksTyped, CallSound
  <2>3. new \in SUBSET ({"calendar"} \X Nat)
    BY <1>1, <2>2 DEF CallSet, Providers
  <2> HIDE DEF new
  <2> QED
    BY <1>1, <1>2, <1>3, <2>1, <2>3, GrantEnds
<1>5. CASE UNCHANGED <<alive, said>> /\ (b => gcall[c].token \notin alive)
  <2>1. CallSound(q)
    BY <1>3, <1>5 DEF CallSound, LinkInv
  <2>2. states' \subseteq Nat \X Providers /\ given' \in Nat
    BY <1>1 DEF LinkInv, LinksTyped
  <2> QED
    BY <1>1, <1>2, <1>3, <1>5, <2>1, <2>2, CallAlone
<1>6. EndGrant(c) /\ gcall[c].token \notin alive => UNCHANGED <<alive, said>>
  BY DEF EndGrant
<1> QED
  BY <1>2, <1>4, <1>5, <1>6

LEMMA WithdrawKeeps == LinkInv /\ Withdraw => LinkInv'
BY DEF LinkInv, LinksTyped, Withdraw, CallSound, OnItsWay

LEMMA ExchangeCodeKeeps ==
  ASSUME LinkInv, NEW c \in Calls, ExchangeCode(c) PROVE LinkInv'
<1> DEFINE n == tokens + 1
<1>1. /\ gcall[c] \in CallSet /\ CallSound(gcall[c]) /\ gcall[c].at = "begun"
      /\ gcall[c].does = "callback"
      /\ tokens \in Nat /\ n \in Nat /\ tokens' = n /\ alive' = alive \cup {n}
      /\ n \notin 1..tokens /\ 1..tokens' = (1..tokens) \cup {n}
      /\ UNCHANGED <<states, given, row>>
  <2>1. gcall[c] \in CallSet /\ CallSound(gcall[c]) /\ tokens \in Nat
    BY DEF LinkInv, LinksTyped
  <2>2. /\ gcall[c].at = "begun" /\ gcall[c].does = "callback" /\ tokens' = n
        /\ alive' = alive \cup {n} /\ UNCHANGED <<states, given, row>>
    BY DEF ExchangeCode, Doing
  <2>3. n \in Nat /\ n \notin 1..tokens /\ 1..n = (1..tokens) \cup {n}
    BY <2>1
  <2> QED
    BY <2>1, <2>2, <2>3
<1>2. /\ \A p \in Providers : row[p].token # n
      /\ n \notin said.gone
      /\ \A d \in Calls : gcall[d].at \in {"exchanged", "reading", "listing", "read", "revoked"} =>
           gcall[d].token # n
  BY <1>1 DEF LinkInv, LinksTyped, CallSound
<1>3. PICK q \in CallSet :
        /\ gcall' = [gcall EXCEPT ![c] = q]
        /\ \/ q.at = "idle" /\ q.barred = {}
           \/ q.at = "exchanged" /\ q.token = n /\ q.does = "callback" /\ q.barred = gcall[c].barred
        /\ \/ said' = said /\ q.at = "exchanged"
           \/ said' = [said EXCEPT !.refused = @ \cup {n}] /\ q.at = "idle"
  <2>1. CASE Reply(c) /\ said' = [said EXCEPT !.refused = @ \cup {n}]
    <3>1. gcall' = [gcall EXCEPT ![c] = Free]
      BY <2>1 DEF Reply
    <3> QED
      BY <2>1, <3>1, FreeIsSound
  <2>2. CASE gcall' = [gcall EXCEPT ![c].at = "exchanged", ![c].token = n] /\ said' = said
    <3> DEFINE q == [gcall[c] EXCEPT !.at = "exchanged", !.token = n]
    <3>1. q \in CallSet /\ q.at = "exchanged" /\ q.token = n /\ q.does = "callback"
          /\ q.barred = gcall[c].barred
      BY <1>1 DEF CallSet
    <3>2. gcall' = [gcall EXCEPT ![c] = q]
      <4>1. gcall \in [Calls -> CallSet]
        BY DEF LinkInv, LinksTyped
      <4> QED
        BY <2>2, <4>1 DEF CallSet
    <3> HIDE DEF q
    <3> QED
      BY <2>2, <3>1, <3>2
  <2> QED
    BY <1>1, <2>1, <2>2 DEF ExchangeCode
<1>4. gcall' \in [Calls -> CallSet]
      /\ \A d \in Calls : gcall'[d] = IF d = c THEN q ELSE gcall[d]
  BY <1>3 DEF LinkInv, LinksTyped
<1>5. /\ said.gone' = said.gone /\ said.unsure' = said.unsure /\ said.hit' = said.hit
      /\ said.overrun' = said.overrun /\ said.refused \subseteq said.refused'
      /\ q.at = "idle" => n \in said.refused'
  BY <1>3 DEF LinkInv, LinksTyped
<1>6. LinksTyped'
  <2>1. row' \in [Providers -> [token : 0..tokens', revoked : BOOLEAN, confirmed : BOOLEAN]]
    <3>1. 0..tokens \subseteq 0..n
      BY <1>1
    <3>2. \A p \in Providers : row[p] \in [token : 0..tokens, revoked : BOOLEAN, confirmed : BOOLEAN]
      BY DEF LinkInv, LinksTyped
    <3> QED
      BY <1>1, <3>1, <3>2 DEF LinkInv, LinksTyped
  <2>2. said' \in [gone : SUBSET (1..n), unsure : SUBSET (1..n), refused : SUBSET (1..n),
                   overrun : SUBSET (1..n), hit : SUBSET (Providers \X Nat)]
    <3>1. said \in [gone : SUBSET (1..tokens), unsure : SUBSET (1..tokens),
                   refused : SUBSET (1..tokens),
                   overrun : SUBSET (1..tokens), hit : SUBSET (Providers \X Nat)]
      BY DEF LinkInv, LinksTyped
    <3>2. said \in [gone : SUBSET (1..n), unsure : SUBSET (1..n), refused : SUBSET (1..n),
                   overrun : SUBSET (1..n), hit : SUBSET (Providers \X Nat)]
      BY <1>1, <3>1
    <3>3. said.refused \cup {n} \in SUBSET (1..n)
      BY <1>1, <3>1
    <3> QED
      BY <1>3, <3>2, <3>3
  <2> QED
    BY <1>1, <1>4, <2>1, <2>2 DEF LinkInv, LinksTyped
<1>7. \A d \in Calls : CallSound(gcall[d])'
  BY <1>1, <1>2, <1>3, <1>4, <1>5 DEF LinkInv, CallSound
<1>8. (\A d \in Calls : gcall[d].at = "exchanged" =>
         /\ OnItsWay(gcall[d].token)
         /\ \A e \in Calls :
              e # d /\ gcall[e].at \in {"exchanged", "read", "revoked"} =>
                gcall[e].token # gcall[d].token)'
  BY <1>1, <1>2, <1>3, <1>4, <1>5 DEF LinkInv, OnItsWay
<1>9. (\A a \in alive, b \in 1..tokens : a <= b => b \in alive)'
  BY <1>1 DEF LinkInv, LinksTyped
<1>10. (\E a \in alive :
           \/ \E p \in Providers : row[p].token = a
           \/ \E d \in Calls : gcall[d].at = "exchanged" /\ gcall[d].token = a
           \/ a \in said.refused \cup said.unsure \cup said.overrun)'
  <2>1. n \in alive'
    BY <1>1
  <2>2. CASE q.at = "idle"
    BY <1>5, <2>1, <2>2
  <2>3. CASE q.at = "exchanged"
    BY <1>3, <1>4, <2>1, <2>3
  <2> QED
    BY <1>3, <2>2, <2>3
<1>11. (said.gone \ said.unsure \subseteq (1..tokens) \ alive)'
  BY <1>1, <1>2, <1>5 DEF LinkInv
<1> QED
  BY <1>1, <1>5, <1>6, <1>7, <1>8, <1>9, <1>10, <1>11 DEF LinkInv

SaidSet(n) == [gone : SUBSET (1..n), unsure : SUBSET (1..n), refused : SUBSET (1..n),
               overrun : SUBSET (1..n), hit : SUBSET (Providers \X Nat)]

LEMMA StoreLinkKeeps ==
  ASSUME LinkInv, NEW c \in Calls, StoreLink(c) PROVE LinkInv'
<1> DEFINE t == gcall[c].token
           p == gcall[c].for
           u == row[p].token
<1>1. /\ gcall[c] \in CallSet /\ CallSound(gcall[c]) /\ gcall[c].at = "exchanged"
      /\ tokens \in Nat /\ t \in 1..tokens /\ t # 0 /\ p \in Providers /\ OnItsWay(t)
      /\ u \in 0..tokens
  BY DEF LinkInv, LinksTyped, StoreLink, Doing, CallSet, CallSound
<1>2. /\ row' = [row EXCEPT ![p] = Linked(t)] /\ gcall' = [gcall EXCEPT ![c] = Free]
      /\ said' = [said EXCEPT !.overrun = @ \cup {v \in {u} : v > t}]
      /\ UNCHANGED <<states, given, tokens, alive>>
  BY DEF StoreLink, Reply
<1>3. gcall' \in [Calls -> CallSet]
      /\ \A d \in Calls : gcall'[d] = IF d = c THEN Free ELSE gcall[d]
  BY <1>2, FreeIsSound DEF LinkInv, LinksTyped
<1>4. row' \in [Providers -> [token : 0..tokens, revoked : BOOLEAN, confirmed : BOOLEAN]]
      /\ \A r \in Providers : row'[r] = IF r = p THEN Linked(t) ELSE row[r]
  BY <1>1, <1>2 DEF LinkInv, LinksTyped, Linked
<1>5. /\ said.gone' = said.gone /\ said.unsure' = said.unsure /\ said.hit' = said.hit
      /\ said.refused' = said.refused /\ said.overrun \subseteq said.overrun'
      /\ u > t => u \in said.overrun'
      /\ said' \in SaidSet(tokens)
  <2>1. said.overrun \cup {v \in {u} : v > t} \in SUBSET (1..tokens)
    BY <1>1 DEF LinkInv, LinksTyped
  <2> QED
    BY <1>2, <2>1 DEF LinkInv, LinksTyped, SaidSet
<1> HIDE DEF p, t, u
<1>6. LinksTyped'
  BY <1>2, <1>3, <1>4, <1>5 DEF LinkInv, LinksTyped, SaidSet
<1>7. Linked(t).token = t /\ ~Linked(t).revoked
  BY DEF Linked
<1>8. \A d \in Calls : d # c /\ gcall[d].at \in {"exchanged", "read", "revoked"} => gcall[d].token # t
  BY <1>1 DEF LinkInv, t
<1>9. \A d \in Calls : CallSound(gcall[d])'
  <2> SUFFICES ASSUME NEW d \in Calls PROVE CallSound(gcall[d])'
    OBVIOUS
  <2>1. CASE d = c
    BY <1>3, <2>1, FreeIsSound DEF CallSound
  <2>2. CASE d # c
    <3>1. gcall'[d] = gcall[d] /\ CallSound(gcall[d]) /\ gcall[d] \in CallSet
      BY <1>3, <2>2 DEF LinkInv, LinksTyped
    <3>2. gcall[d].at \in {"read", "revoked"} =>
            gcall[d].token # row'[TheOther(gcall[d].for)].token
      <4>1. TheOther(gcall[d].for) \in Providers
        BY <3>1, TheOtherIs DEF CallSet
      <4> QED
        BY <1>4, <1>7, <1>8, <2>2, <3>1, <4>1 DEF CallSound
    <3> QED
      BY <1>2, <1>5, <3>1, <3>2 DEF CallSound
  <2> QED
    BY <2>1, <2>2
<1>10. (\A d \in Calls : gcall[d].at = "exchanged" =>
         /\ OnItsWay(gcall[d].token)
         /\ \A e \in Calls :
              e # d /\ gcall[e].at \in {"exchanged", "read", "revoked"} =>
                gcall[e].token # gcall[d].token)'
  <2> SUFFICES ASSUME NEW d \in Calls, gcall'[d].at = "exchanged"
               PROVE  /\ OnItsWay(gcall[d].token)'
                      /\ \A e \in Calls :
                           e # d /\ gcall'[e].at \in {"exchanged", "read", "revoked"} =>
                             gcall'[e].token # gcall'[d].token
    OBVIOUS
  <2>1. d # c /\ gcall'[d] = gcall[d] /\ OnItsWay(gcall[d].token)
    BY <1>3, FreeIsSound DEF LinkInv
  <2>2. OnItsWay(gcall[d].token)'
    BY <1>4, <1>5, <1>7, <1>8, <2>1 DEF OnItsWay
  <2>3. \A e \in Calls :
           e # d /\ gcall'[e].at \in {"exchanged", "read", "revoked"} =>
             gcall'[e].token # gcall'[d].token
    BY <1>3, <2>1, FreeIsSound DEF LinkInv
  <2> QED
    BY <2>2, <2>3
<1>11. (\A r \in Providers : row[r].token # 0 =>
         /\ ~row[r].revoked /\ row[r].token \notin said.gone
         /\ row[r].token # row[TheOther(r)].token)'
  <2> SUFFICES ASSUME NEW r \in Providers, row'[r].token # 0
               PROVE  /\ ~row'[r].revoked /\ row'[r].token \notin said'.gone
                      /\ row'[r].token # row'[TheOther(r)].token
    OBVIOUS
  <2>1. TheOther(r) \in Providers /\ TheOther(r) # r
    BY TheOtherIs
  <2>2. CASE r = p
    BY <1>1, <1>4, <1>5, <1>7, <2>1, <2>2 DEF OnItsWay
  <2>3. CASE r # p
    BY <1>1, <1>4, <1>5, <1>7, <2>1, <2>3 DEF OnItsWay, LinkInv
  <2> QED
    BY <2>2, <2>3
<1>12. (alive # {} =>
         \E a \in alive :
           \/ \E r \in Providers : row[r].token = a
           \/ \E d \in Calls : gcall[d].at = "exchanged" /\ gcall[d].token = a
           \/ a \in said.refused \cup said.unsure \cup said.overrun)'
  <2> SUFFICES ASSUME alive # {}
      PROVE  \E a \in alive :
               \/ \E r \in Providers : row'[r].token = a
               \/ \E d \in Calls : gcall'[d].at = "exchanged" /\ gcall'[d].token = a
               \/ a \in said'.refused \cup said'.unsure \cup said'.overrun
    BY <1>2
  <2>1. PICK a \in alive :
           \/ \E r \in Providers : row[r].token = a
           \/ \E d \in Calls : gcall[d].at = "exchanged" /\ gcall[d].token = a
           \/ a \in said.refused \cup said.unsure \cup said.overrun
    BY DEF LinkInv
  <2>2. CASE t \in alive
    BY <1>1, <1>4, <1>7, <2>2
  <2>3. CASE a = u
    <3>1. a \in 1..tokens
      BY DEF LinkInv, LinksTyped
    <3>2. u > t \/ t \in alive
      BY <1>1, <2>3, <3>1 DEF LinkInv
    <3> QED
      BY <1>5, <2>2, <2>3, <3>2
  <2>4. CASE t \notin alive /\ a # u
    <3>1. CASE \E r \in Providers : row[r].token = a
      BY <1>4, <2>4, <3>1 DEF u
    <3>2. CASE \E d \in Calls : gcall[d].at = "exchanged" /\ gcall[d].token = a
      BY <1>3, <2>4, <3>2 DEF t
    <3>3. CASE a \in said.refused \cup said.unsure \cup said.overrun
      BY <1>5, <3>3
    <3> QED
      BY <2>1, <3>1, <3>2, <3>3
  <2> QED
    BY <2>2, <2>3, <2>4
<1>13. (\A a \in alive, b \in 1..tokens : a <= b => b \in alive)'
       /\ (said.gone \ said.unsure \subseteq (1..tokens) \ alive)'
       /\ (\A hit \in said.hit : hit[1] # "gmail")'
  BY <1>2, <1>5 DEF LinkInv
<1> QED
  BY <1>6, <1>9, <1>10, <1>11, <1>12, <1>13 DEF LinkInv

LEMMA CallDiesKeeps ==
  ASSUME LinkInv, NEW c \in Calls, CallDies(c) PROVE LinkInv'
<1>1. /\ gcall[c] \in CallSet /\ CallSound(gcall[c]) /\ gcall[c].at \in {"exchanged", "revoked"}
      /\ Reply(c) /\ UNCHANGED <<states, given, row, tokens, alive>>
      /\ said' = [said EXCEPT !.refused =
           IF gcall[c].does = "callback" THEN @ \cup {gcall[c].token} ELSE @]
  BY DEF LinkInv, LinksTyped, CallDies
<1>2. CASE gcall[c].at = "revoked"
  <2>1. said' = said
    BY <1>1, <1>2 DEF CallSound, LinkInv, LinksTyped
  <2> QED
    BY <1>1, <1>2, <2>1, CallEnds
<1>3. CASE gcall[c].at = "exchanged"
  <2> DEFINE t == gcall[c].token
  <2>1. t \in 1..tokens /\ gcall' = [gcall EXCEPT ![c] = Free]
        /\ said' = [said EXCEPT !.refused = @ \cup {t}]
    BY <1>1, <1>3 DEF CallSound, Reply
  <2>2. gcall' \in [Calls -> CallSet]
        /\ \A d \in Calls : gcall'[d] = IF d = c THEN Free ELSE gcall[d]
    BY <2>1, FreeIsSound DEF LinkInv, LinksTyped
  <2>3. /\ said.gone' = said.gone /\ said.unsure' = said.unsure /\ said.hit' = said.hit
        /\ said.overrun' = said.overrun /\ said.refused' = said.refused \cup {t}
        /\ said' \in SaidSet(tokens)
    <3>1. said.refused \cup {t} \in SUBSET (1..tokens)
      BY <2>1 DEF LinkInv, LinksTyped
    <3> QED
      BY <2>1, <3>1 DEF LinkInv, LinksTyped, SaidSet
  <2>4. LinksTyped'
    BY <1>1, <2>2, <2>3 DEF LinkInv, LinksTyped, SaidSet
  <2>5. \A d \in Calls : CallSound(gcall[d])'
    BY <1>1, <2>2, <2>3, FreeIsSound DEF LinkInv, CallSound
  <2>6. (\A d \in Calls : gcall[d].at = "exchanged" =>
         /\ OnItsWay(gcall[d].token)
         /\ \A e \in Calls :
              e # d /\ gcall[e].at \in {"exchanged", "read", "revoked"} =>
                gcall[e].token # gcall[d].token)'
    BY <1>1, <2>2, <2>3, FreeIsSound DEF LinkInv, OnItsWay
  <2>7. (alive # {} =>
         \E a \in alive :
           \/ \E r \in Providers : row[r].token = a
           \/ \E d \in Calls : gcall[d].at = "exchanged" /\ gcall[d].token = a
           \/ a \in said.refused \cup said.unsure \cup said.overrun)'
    BY <1>1, <2>2, <2>3 DEF LinkInv
  <2> QED
    BY <1>1, <2>3, <2>4, <2>5, <2>6, <2>7 DEF LinkInv
<1> QED
  BY <1>1, <1>2, <1>3

LEMMA ClearLinkKeeps ==
  ASSUME LinkInv, NEW c \in Calls, ClearLink(c) PROVE LinkInv'
<1> DEFINE t == gcall[c].token
           p == gcall[c].for
           u == row[p].token
           sure == gcall[c].confirmed
           cleared == [token |-> 0, revoked |-> TRUE, confirmed |-> sure]
           doubt == IF sure THEN {} ELSE {t}
           newer == {u} \ {t, 0}
<1>1. /\ gcall[c] \in CallSet /\ CallSound(gcall[c]) /\ gcall[c].at = "revoked"
      /\ tokens \in Nat /\ t \in 1..tokens /\ p \in Providers /\ u \in 0..tokens
      /\ sure \in BOOLEAN /\ t # row[TheOther(p)].token /\ (sure => t \notin alive)
  BY DEF LinkInv, LinksTyped, ClearLink, Doing, CallSet, CallSound
<1>2. /\ row' = [row EXCEPT ![p] = cleared] /\ gcall' = [gcall EXCEPT ![c] = Free]
      /\ said' = [said EXCEPT !.gone = @ \cup {t}, !.unsure = @ \cup doubt, !.overrun = @ \cup newer]
      /\ UNCHANGED <<states, given, tokens, alive>>
  BY DEF ClearLink, Reply
<1>3. gcall' \in [Calls -> CallSet]
      /\ \A d \in Calls : gcall'[d] = IF d = c THEN Free ELSE gcall[d]
  BY <1>2, FreeIsSound DEF LinkInv, LinksTyped
<1>4. row' \in [Providers -> [token : 0..tokens, revoked : BOOLEAN, confirmed : BOOLEAN]]
      /\ \A r \in Providers : row'[r] = IF r = p THEN cleared ELSE row[r]
  BY <1>1, <1>2 DEF LinkInv, LinksTyped
<1>5. /\ said.gone' = said.gone \cup {t} /\ said.unsure' = said.unsure \cup doubt
      /\ said.hit' = said.hit /\ said.refused' = said.refused
      /\ said.overrun' = said.overrun \cup newer /\ said' \in SaidSet(tokens)
  <2>1. /\ said.gone \cup {t} \in SUBSET (1..tokens) /\ said.unsure \cup doubt \in SUBSET (1..tokens)
        /\ said.overrun \cup newer \in SUBSET (1..tokens)
    BY <1>1 DEF LinkInv, LinksTyped
  <2> QED
    BY <1>2, <2>1 DEF LinkInv, LinksTyped, SaidSet
<1>6. LinksTyped'
  BY <1>2, <1>3, <1>4, <1>5 DEF LinkInv, LinksTyped, SaidSet
<1>7. cleared.token = 0
  OBVIOUS
<1>8. \A d \in Calls : gcall[d].at = "exchanged" => gcall[d].token # t
  BY <1>1 DEF LinkInv
<1> HIDE DEF p, t, u, cleared, sure
<1>9. \A d \in Calls : CallSound(gcall[d])'
  <2> SUFFICES ASSUME NEW d \in Calls PROVE CallSound(gcall[d])'
    OBVIOUS
  <2>1. CASE d = c
    BY <1>3, <2>1, FreeIsSound DEF CallSound
  <2>2. CASE d # c
    <3>1. gcall'[d] = gcall[d] /\ CallSound(gcall[d]) /\ gcall[d] \in CallSet
      BY <1>3, <2>2 DEF LinkInv, LinksTyped
    <3>2. gcall[d].at \in {"read", "revoked"} =>
            gcall[d].token # row'[TheOther(gcall[d].for)].token
      <4>1. TheOther(gcall[d].for) \in Providers
        BY <3>1, TheOtherIs DEF CallSet
      <4>2. gcall[d].at \in {"read", "revoked"} => gcall[d].token # 0
        BY <1>1, <3>1 DEF CallSound
      <4> QED
        BY <1>4, <1>7, <3>1, <4>1, <4>2 DEF CallSound
    <3>3. gcall[d].at \in {"reading", "listing"} => gcall[d].token \notin gcall[d].barred
      BY <3>1 DEF CallSound
    <3> QED
      BY <1>2, <1>5, <3>1, <3>2, <3>3 DEF CallSound
  <2> QED
    BY <2>1, <2>2
<1>10. (\A d \in Calls : gcall[d].at = "exchanged" =>
         /\ OnItsWay(gcall[d].token)
         /\ \A e \in Calls :
              e # d /\ gcall[e].at \in {"exchanged", "read", "revoked"} =>
                gcall[e].token # gcall[d].token)'
  <2> SUFFICES ASSUME NEW d \in Calls, gcall'[d].at = "exchanged"
               PROVE  /\ OnItsWay(gcall[d].token)'
                      /\ \A e \in Calls :
                           e # d /\ gcall'[e].at \in {"exchanged", "read", "revoked"} =>
                             gcall'[e].token # gcall'[d].token
    OBVIOUS
  <2>1. /\ d # c /\ gcall'[d] = gcall[d] /\ OnItsWay(gcall[d].token) /\ gcall[d].token # t
        /\ gcall[d].token # 0
    BY <1>1, <1>3, <1>8, FreeIsSound DEF LinkInv, CallSound
  <2>2. OnItsWay(gcall[d].token)'
    BY <1>4, <1>5, <1>7, <2>1 DEF OnItsWay
  <2>3. \A e \in Calls :
           e # d /\ gcall'[e].at \in {"exchanged", "read", "revoked"} =>
             gcall'[e].token # gcall'[d].token
    BY <1>3, <2>1, FreeIsSound DEF LinkInv
  <2> QED
    BY <2>2, <2>3
<1>11. (\A r \in Providers : row[r].token # 0 =>
         /\ ~row[r].revoked /\ row[r].token \notin said.gone
         /\ row[r].token # row[TheOther(r)].token)'
  <2> SUFFICES ASSUME NEW r \in Providers, row'[r].token # 0
               PROVE  /\ ~row'[r].revoked /\ row'[r].token \notin said'.gone
                      /\ row'[r].token # row'[TheOther(r)].token
    OBVIOUS
  <2>1. TheOther(r) \in Providers /\ r # p /\ row'[r] = row[r]
    BY <1>4, <1>7, TheOtherIs
  <2>2. r = TheOther(p)
    BY <1>1, <2>1, TheOtherIs
  <2> QED
    BY <1>1, <1>4, <1>5, <1>7, <2>1, <2>2 DEF LinkInv
<1>12. (alive # {} =>
         \E a \in alive :
           \/ \E r \in Providers : row[r].token = a
           \/ \E d \in Calls : gcall[d].at = "exchanged" /\ gcall[d].token = a
           \/ a \in said.refused \cup said.unsure \cup said.overrun)'
  <2> SUFFICES ASSUME alive # {}
      PROVE  \E a \in alive :
               \/ \E r \in Providers : row'[r].token = a
               \/ \E d \in Calls : gcall'[d].at = "exchanged" /\ gcall'[d].token = a
               \/ a \in said'.refused \cup said'.unsure \cup said'.overrun
    BY <1>2
  <2>1. PICK a \in alive :
           \/ \E r \in Providers : row[r].token = a
           \/ \E d \in Calls : gcall[d].at = "exchanged" /\ gcall[d].token = a
           \/ a \in said.refused \cup said.unsure \cup said.overrun
    BY DEF LinkInv
  <2>2. CASE a = u
    <3>1. a \in 1..tokens /\ a # 0
      BY <1>1 DEF LinkInv, LinksTyped
    <3> QED
      BY <1>1, <1>5, <2>2, <3>1
  <2>3. CASE a # u
    <3>1. CASE \E r \in Providers : row[r].token = a
      BY <1>4, <2>3, <3>1 DEF u
    <3>2. CASE \E d \in Calls : gcall[d].at = "exchanged" /\ gcall[d].token = a
      BY <1>1, <1>3, <3>2
    <3>3. CASE a \in said.refused \cup said.unsure \cup said.overrun
      BY <1>5, <3>3
    <3> QED
      BY <2>1, <3>1, <3>2, <3>3
  <2> QED
    BY <2>2, <2>3
<1>13. (\A a \in alive, b \in 1..tokens : a <= b => b \in alive)'
       /\ (\A hit \in said.hit : hit[1] # "gmail")'
  BY <1>2, <1>5 DEF LinkInv
<1>14. (said.gone \ said.unsure \subseteq (1..tokens) \ alive)'
  BY <1>1, <1>2, <1>5 DEF LinkInv
<1> QED
  BY <1>6, <1>9, <1>10, <1>11, <1>12, <1>13, <1>14 DEF LinkInv

LEMMA LinkInvKept == LinkInv /\ [LinksNext]_linkVars => LinkInv'
<1> SUFFICES ASSUME LinkInv, [LinksNext]_linkVars PROVE LinkInv'
  OBVIOUS
<1>1. CASE (\E p \in Providers : Authorize(p)) \/ (\E s \in states : StateLost(s))
  <2>1. UNCHANGED <<row, tokens, alive, gcall, said>>
        /\ states' \subseteq Nat \X Providers /\ given' \in Nat
    BY <1>1 DEF Authorize, StateLost, NewState, LinkInv, LinksTyped
  <2> QED
    BY <2>1 DEF LinkInv, LinksTyped, CallSound, OnItsWay
<1>2. ASSUME NEW c \in Calls, NEW s \in states, BeginCallback(c, s) PROVE LinkInv'
  <2>1. s[2] \in Providers
    BY DEF LinkInv, LinksTyped
  <2> QED
    BY <1>2, <2>1, CallBegins DEF BeginCallback
<1>3. ASSUME NEW c \in Calls, BeginToday(c) \/ \E p \in Providers : BeginDisconnect(c, p)
      PROVE  LinkInv'
  BY <1>3, CallBegins DEF BeginToday, BeginDisconnect, Providers
<1>4. ASSUME NEW c \in Calls, ExchangeRefused(c) \/ ListToday(c) PROVE LinkInv'
  BY <1>4, CallEnds DEF ExchangeRefused, ListToday, Doing
<1>5. CASE Withdraw
  BY <1>5, WithdrawKeeps
<1>6. CASE UNCHANGED linkVars
  BY <1>6 DEF linkVars, LinkInv, LinksTyped, CallSound, OnItsWay
<1> QED
  BY <1>1, <1>2, <1>3, <1>4, <1>5, <1>6, ExchangeCodeKeeps, StoreLinkKeeps, ReadTokenKeeps,
     RefreshAccessKeeps, ReadLinkKeeps, RevokeKeeps, KeepGrantKeeps, ClearLinkKeeps, CallDiesKeeps
  DEF LinksNext

(* What the routers tell a user of a link is so, for any number of calls: a token *)
(* reported disconnected is in no row and used by no later read; one whose end    *)
(* Google confirmed is dead; what Google still takes is held, coming or owned up  *)
(* to; and Gmail's disconnect spares the calendar.                                *)
THEOREM LinksAlwaysAsTold == LinksSpec => []LinksAsTold
BY LinksInitInv, LinkInvKept, LinksAreTold, PTL DEF LinksSpec

--------------------------------------------------------------------------------
(* The stream over a job. *)

SnapSet == [state : Int, dlq : BOOLEAN, updated : Nat]
HeardSet == [stream : Nat, snap : SnapSet, again : BOOLEAN]
StreamSet == [at : {"off", "telling", "asleep"}, snap : SnapSet, again : BOOLEAN, last : SnapSet,
              polls : Nat, closed : {"no", "done", "timeout", "gone"}]
JobStates == (0..JobStages) \cup JobOffRamps
Again == jobAgain # {}

WatchTyped ==
  /\ jobState \in [{"job"} -> JobStates] /\ jobDlq \in [{"job"} -> BOOLEAN]
  /\ jobAgain \subseteq {"job"} /\ jobWrites \in Nat /\ jobThere \in BOOLEAN /\ streams \in Nat
  /\ stream \in StreamSet /\ heard \in Seq(HeardSet)

\* A snapshot of the row: the job went on from it, or was delivered again since; an
\* end that was read before that is where the job stayed.
Taken(snap, again) ==
  /\ snap.state \in JobStates
  /\ Again \/ (~again /\ Later(snap, Snapshot))
  /\ again \/ ~AtRest(snap) \/ (snap = Snapshot /\ ~Again)

\* What the open stream has in hand, and what clients heard last, are such snapshots.
StreamSound ==
  /\ stream.at = "telling" =>
       /\ Taken(stream.snap, stream.again)
       /\ heard # <<>> => stream.again \/ Later(LastHeard.snap, stream.snap)
  /\ stream.at = "asleep" => stream.polls < MaxPolls
  /\ stream.at # "off" /\ stream.last # NoSnap =>
       /\ heard # <<>> /\ LastHeard.stream = streams /\ LastHeard.snap = stream.last
       /\ ~TakenForEnd(stream.last)
  /\ stream.at # "off" /\ heard # <<>> /\ LastHeard.stream = streams => LastHeard.snap = stream.last
  /\ stream.polls <= MaxPolls

HeardSound ==
  /\ \A i \in 1..Len(heard) : heard[i].stream <= streams
  /\ heard # <<>> => Taken(LastHeard.snap, LastHeard.again)
  /\ \A i \in 2..Len(heard) :
       /\ heard[i].again \/ Later(heard[i - 1].snap, heard[i].snap)
       /\ heard[i - 1].stream = heard[i].stream => heard[i - 1].snap # heard[i].snap

ClosedSound ==
  /\ stream.closed = "done" => stream.at = "off" /\ heard # <<>> /\ AtRest(LastHeard.snap)
  /\ stream.closed = "gone" => ~jobThere

WatchInv == WatchTyped /\ StreamSound /\ HeardSound /\ ClosedSound

LEMMA StreamsAreTold == WatchInv => StreamsTell
BY DEF WatchInv, StreamSound, HeardSound, ClosedSound, StreamsTell, Taken

LEMMA WatchInitInv == WatchInit => WatchInv
BY WatchAssumption
   DEF WatchInit, WatchInv, WatchTyped, StreamSound, HeardSound, ClosedSound, Lifecycle!Init, Closed,
       NoSnap, SnapSet, StreamSet, JobStates

LEMMA LaterIsTransitive ==
  ASSUME NEW a \in SnapSet, NEW b \in SnapSet, NEW c \in SnapSet, Later(a, b), Later(b, c)
  PROVE  Later(a, c)
BY DEF Later, SnapSet

LEMMA JobTyped ==
  ASSUME WatchTyped
  PROVE  /\ jobState["job"] \in JobStates /\ jobState["job"] \in Int
         /\ jobDlq["job"] \in BOOLEAN /\ jobWrites \in Nat
<1>1. jobState["job"] \in JobStates /\ jobWrites \in Nat
  BY DEF WatchTyped
<1>2. jobDlq["job"] \in BOOLEAN
  BY DEF WatchTyped
<1>3. \A x \in JobStates : x \in Int
  BY WatchAssumption DEF JobStates
<1> QED
  BY <1>1, <1>2, <1>3

LEMMA SnapshotTyped ==
  ASSUME WatchTyped
  PROVE  /\ Snapshot \in SnapSet /\ Snapshot.state \in JobStates /\ Snapshot # NoSnap
         /\ Later(Snapshot, Snapshot) /\ Taken(Snapshot, Again)
<1>5. /\ jobState["job"] \in JobStates /\ jobState["job"] \in Int
      /\ jobDlq["job"] \in BOOLEAN /\ jobWrites \in Nat
  BY JobTyped
<1>1. /\ Snapshot \in SnapSet /\ Snapshot.state \in JobStates
      /\ Snapshot.dlq = jobDlq["job"] /\ Snapshot.state = jobState["job"]
  BY <1>5 DEF Snapshot, SnapSet
<1>2. Later(Snapshot, Snapshot)
  BY <1>1 DEF Later, SnapSet
<1>3. Snapshot # NoSnap
  BY <1>1, WatchAssumption DEF NoSnap, JobStates
<1> QED
  BY <1>1, <1>2, <1>3 DEF Taken

LEMMA LastHeardTyped ==
  ASSUME WatchTyped
  PROVE  /\ heard # <<>> => Len(heard) \in 1..Len(heard) /\ LastHeard \in HeardSet
         /\ \A i \in 1..Len(heard) : heard[i] \in HeardSet
<1>1. heard \in Seq(HeardSet)
  BY DEF WatchTyped
<1> HIDE DEF HeardSet
<1> QED
  BY <1>1 DEF LastHeard

\* An end is taken for one, and the stream takes nothing else for it.
LEMMA EndsAreEnds ==
  ASSUME NEW snap \in SnapSet, snap.state \in JobStates
  PROVE  TakenForEnd(snap) <=> AtRest(snap)
BY WatchAssumption DEF TakenForEnd, AtRest, SnapSet, JobStates

\* What a write of the row leaves behind: something later, or a job delivered again.
LEMMA WritesGoOn ==
  ASSUME WatchTyped, JobMoves \/ RecordOnJob
  PROVE  /\ WatchTyped' /\ UNCHANGED <<jobAgain, jobThere, stream, heard, streams>>
         /\ Again \/ (~AtRest(Snapshot) /\ Later(Snapshot, Snapshot'))
<1>1. /\ jobWrites \in Nat /\ jobWrites' = jobWrites + 1
      /\ UNCHANGED <<jobThere, stream, heard, streams>>
  BY DEF JobMoves, RecordOnJob, Stamped, WatchTyped
<1>2. /\ jobState \in [{"job"} -> JobStates] /\ jobDlq \in [{"job"} -> BOOLEAN]
      /\ jobAgain \subseteq {"job"} /\ jobState["job"] \in Int
  BY JobTyped DEF WatchTyped
<1>3. CASE RecordOnJob
  <2>1. UNCHANGED <<jobState, jobDlq, jobAgain>> /\ (Lifecycle!Open("job") \/ Again)
    BY <1>3 DEF RecordOnJob, Again
  <2>2. Lifecycle!Open("job") => ~AtRest(Snapshot)
    BY DEF Lifecycle!Open, AtRest, Snapshot
  <2>3. Later(Snapshot, Snapshot')
    BY <1>1, <1>2, <2>1 DEF Later, Snapshot
  <2> QED
    BY <1>1, <2>1, <2>2, <2>3 DEF WatchTyped
<1>4. CASE JobMoves
  <2>1. Lifecycle!Writes("job")
    BY <1>4 DEF JobMoves
  <2>2. ASSUME Lifecycle!Overwrite("job")
        PROVE  /\ Again /\ UNCHANGED jobAgain
               /\ jobState' \in [{"job"} -> JobStates] /\ jobDlq' \in [{"job"} -> BOOLEAN]
    <3>1. Again /\ UNCHANGED jobAgain
      BY <2>2 DEF Lifecycle!Overwrite, Again
    <3>2. CASE /\ \E st \in 1..JobStages \cup JobOffRamps : jobState' = [jobState EXCEPT !["job"] = st]
               /\ UNCHANGED jobDlq
      <4>1. PICK st \in 1..JobStages \cup JobOffRamps : jobState' = [jobState EXCEPT !["job"] = st]
        BY <3>2
      <4>2. st \in JobStates
        BY WatchAssumption DEF JobStates
      <4> QED
        BY <1>2, <3>1, <3>2, <4>1, <4>2
    <3>3. CASE UNCHANGED jobState /\ jobDlq' = [jobDlq EXCEPT !["job"] = TRUE]
      BY <1>2, <3>1, <3>3
    <3> QED
      BY <2>2, <3>2, <3>3 DEF Lifecycle!Overwrite
  <2>3. ASSUME Lifecycle!Advance("job") \/ Lifecycle!Divert("job") \/ Lifecycle!Bury("job")
        PROVE  /\ UNCHANGED jobAgain /\ ~AtRest(Snapshot)
               /\ jobState' \in [{"job"} -> JobStates] /\ jobDlq' \in [{"job"} -> BOOLEAN]
               /\ jobState["job"] \notin JobOffRamps /\ ~jobDlq["job"]
               /\ jobState'["job"] \in JobOffRamps \/ jobState["job"] <= jobState'["job"]
    <3>1. /\ ~jobDlq["job"] /\ jobState["job"] \in 0..(JobStages - 1) /\ UNCHANGED jobAgain
      BY <2>3 DEF Lifecycle!Advance, Lifecycle!Divert, Lifecycle!Bury, Lifecycle!Open
    <3>2. ~AtRest(Snapshot) /\ jobState["job"] \notin JobOffRamps
          /\ jobState["job"] + 1 \in 0..JobStages
      BY <3>1, WatchAssumption DEF AtRest, Snapshot
    <3>3. CASE Lifecycle!Advance("job")
      BY <1>2, <3>1, <3>2, <3>3 DEF Lifecycle!Advance, JobStates
    <3>4. CASE Lifecycle!Divert("job")
      BY <1>2, <3>1, <3>2, <3>4 DEF Lifecycle!Divert, JobStates
    <3>5. CASE Lifecycle!Bury("job")
      BY <1>2, <3>1, <3>2, <3>5 DEF Lifecycle!Bury
    <3> QED
      BY <2>3, <3>1, <3>2, <3>3, <3>4, <3>5
  <2>4. CASE Lifecycle!Overwrite("job")
    <3>1. /\ Again /\ UNCHANGED jobAgain
          /\ jobState' \in [{"job"} -> JobStates] /\ jobDlq' \in [{"job"} -> BOOLEAN]
      BY <2>2, <2>4
    <3>2. WatchTyped'
      BY <1>1, <3>1 DEF WatchTyped
    <3> QED
      BY <1>1, <3>1, <3>2
  <2>5. CASE Lifecycle!Advance("job") \/ Lifecycle!Divert("job") \/ Lifecycle!Bury("job")
    <3>1. Later(Snapshot, Snapshot')
      BY <1>1, <1>2, <2>3, <2>5 DEF Later, Snapshot
    <3> QED
      <4>1. /\ UNCHANGED jobAgain /\ ~AtRest(Snapshot)
            /\ jobState' \in [{"job"} -> JobStates] /\ jobDlq' \in [{"job"} -> BOOLEAN]
        BY <2>3, <2>5
      <4>2. WatchTyped'
        BY <1>1, <4>1 DEF WatchTyped
      <4> QED
        BY <1>1, <3>1, <4>1, <4>2
  <2> QED
    BY <2>1, <2>4, <2>5 DEF Lifecycle!Writes
<1> QED
  BY <1>3, <1>4

LEMMA JobGoesOn ==
  ASSUME WatchInv, JobMoves \/ RecordOnJob PROVE WatchInv'
<1>1. /\ WatchTyped /\ WatchTyped' /\ UNCHANGED <<jobAgain, jobThere, stream, heard, streams>>
      /\ Again \/ (~AtRest(Snapshot) /\ Later(Snapshot, Snapshot'))
  BY WritesGoOn DEF WatchInv
<1>2. Snapshot \in SnapSet /\ Snapshot' \in SnapSet /\ (Again' <=> Again)
  <2>1. Snapshot \in SnapSet
    BY <1>1, SnapshotTyped
  <2>2. jobState'["job"] \in JobStates /\ jobDlq'["job"] \in BOOLEAN /\ jobWrites' \in Nat
    BY <1>1 DEF WatchTyped
  <2>3. \A x \in JobStates : x \in Int
    BY WatchAssumption DEF JobStates
  <2>4. Snapshot' \in SnapSet
    BY <2>2, <2>3 DEF Snapshot, SnapSet
  <2> QED
    BY <1>1, <2>1, <2>4 DEF Again
<1>3. ASSUME NEW snap \in SnapSet, NEW again \in BOOLEAN, Taken(snap, again)
      PROVE  Taken(snap, again)'
  <2>1. CASE ~Again
    <3>1. ~again /\ Later(snap, Snapshot) /\ Later(Snapshot, Snapshot') /\ ~AtRest(Snapshot)
      BY <1>1, <1>3, <2>1 DEF Taken
    <3>2. Later(snap, Snapshot')
      BY <1>2, <3>1, LaterIsTransitive
    <3>3. ~AtRest(snap)
      BY <1>3, <3>1 DEF Taken
    <3> QED
      BY <1>3, <3>1, <3>2, <3>3 DEF Taken
  <2>2. CASE Again
    <3>1. again \/ ~AtRest(snap)
      BY <1>3, <2>2 DEF Taken
    <3>2. Again' /\ snap.state \in JobStates
      BY <1>2, <1>3, <2>2 DEF Taken
    <3> QED
      BY <3>1, <3>2 DEF Taken, AtRest
  <2> QED
    BY <2>1, <2>2
<1>4. stream \in StreamSet /\ (heard # <<>> => LastHeard \in HeardSet)
  BY <1>1, LastHeardTyped DEF WatchTyped
<1>5. StreamSound'
  <2>1. stream.snap \in SnapSet /\ stream.again \in BOOLEAN
    BY <1>4 DEF StreamSet
  <2>2. Taken(stream.snap, stream.again) => Taken(stream.snap, stream.again)'
    BY <1>1, <1>3, <2>1
  <2> QED
    BY <1>1, <2>2 DEF WatchInv, StreamSound, LastHeard
<1>6. HeardSound'
  <2>1. heard # <<>> => LastHeard.snap \in SnapSet /\ LastHeard.again \in BOOLEAN
    BY <1>4 DEF HeardSet
  <2>2. heard # <<>> => Taken(LastHeard.snap, LastHeard.again)'
    BY <1>1, <1>3, <2>1 DEF WatchInv, HeardSound, LastHeard
  <2> QED
    BY <1>1, <2>2 DEF WatchInv, HeardSound, LastHeard
<1>7. ClosedSound'
  BY <1>1 DEF WatchInv, ClosedSound, LastHeard
<1> QED
  BY <1>1, <1>5, <1>6, <1>7 DEF WatchInv

LEMMA DeliveredAgainKeeps == ASSUME WatchInv, JobDeliveredAgain PROVE WatchInv'
<1>1. /\ ~AtRest(Snapshot) /\ Again' /\ WatchTyped'
      /\ UNCHANGED <<jobState, jobDlq, jobWrites, jobThere, stream, heard, streams>>
  <2>1. /\ Lifecycle!Redeliver("job")
        /\ UNCHANGED <<jobWrites, jobThere, stream, heard, streams>>
    BY DEF JobDeliveredAgain
  <2>2. ~AtRest(Snapshot)
    BY <2>1, WatchAssumption DEF Lifecycle!Redeliver, AtRest, Snapshot
  <2> QED
    BY <2>1, <2>2 DEF Lifecycle!Redeliver, Again, WatchInv, WatchTyped
<1>2. UNCHANGED Snapshot /\ UNCHANGED LastHeard
  BY <1>1 DEF Snapshot, LastHeard
<1>3. ASSUME NEW snap, NEW again, Taken(snap, again) PROVE Taken(snap, again)'
  BY <1>1, <1>2, <1>3 DEF Taken
<1>4. StreamSound'
  BY <1>1, <1>2, <1>3 DEF WatchInv, StreamSound
<1>5. HeardSound'
  BY <1>1, <1>2, <1>3 DEF WatchInv, HeardSound
<1>6. ClosedSound'
  BY <1>1, <1>2 DEF WatchInv, ClosedSound
<1> QED
  BY <1>1, <1>4, <1>5, <1>6 DEF WatchInv

LEMMA ConnectKeeps == ASSUME WatchInv, Connect PROVE WatchInv'
<1>1. /\ UNCHANGED <<jobState, jobDlq, jobAgain, jobWrites, jobThere, heard>>
      /\ streams' = streams + 1
      /\ stream' = [Closed EXCEPT !.at = "telling", !.snap = Snapshot, !.again = Again]
  BY DEF Connect, Looked, Again, jobRow
<1>2. /\ stream' \in StreamSet /\ stream'.at = "telling" /\ stream'.snap = Snapshot
      /\ stream'.again = Again /\ stream'.last = NoSnap /\ stream'.polls = 0 /\ stream'.closed = "no"
  <2>1. Snapshot \in SnapSet /\ Again \in BOOLEAN
    BY SnapshotTyped DEF WatchInv, Again
  <2> DEFINE snap == Snapshot
             again == Again
  <2>2. snap \in SnapSet /\ again \in BOOLEAN
    BY <2>1
  <2>3. stream' = [Closed EXCEPT !.at = "telling", !.snap = snap, !.again = again]
    BY <1>1
  <2>4. Closed \in StreamSet
    BY DEF Closed, NoSnap, StreamSet, SnapSet
  <2> HIDE DEF snap, again
  <2>5. /\ stream' \in StreamSet /\ stream'.at = "telling" /\ stream'.snap = snap
        /\ stream'.again = again /\ stream'.last = NoSnap /\ stream'.polls = 0
        /\ stream'.closed = "no"
    BY <2>2, <2>3, <2>4 DEF Closed, StreamSet
  <2> QED
    BY <2>5 DEF snap, again
<1>3. WatchTyped'
  BY <1>1, <1>2 DEF WatchInv, WatchTyped
<1>4. UNCHANGED Snapshot /\ UNCHANGED LastHeard /\ (Again' <=> Again)
  BY <1>1 DEF Snapshot, LastHeard, Again
<1>5. \A i \in 1..Len(heard) : heard[i].stream <= streams + 1 /\ heard[i].stream # streams + 1
  <2>1. \A i \in 1..Len(heard) : heard[i].stream \in Nat /\ heard[i].stream <= streams
    BY LastHeardTyped DEF WatchInv, HeardSound, HeardSet
  <2>2. streams \in Nat
    BY DEF WatchInv, WatchTyped
  <2> QED
    BY <2>1, <2>2
<1>6. HeardSound'
  BY <1>1, <1>4, <1>5 DEF WatchInv, HeardSound, Taken
<1>7. heard # <<>> => LastHeard.stream # streams + 1
  BY <1>5, LastHeardTyped DEF LastHeard, WatchInv
<1>8. Taken(Snapshot, Again)' /\ (heard # <<>> => Again \/ Later(LastHeard.snap, Snapshot))
  BY <1>4, SnapshotTyped DEF WatchInv, HeardSound, Taken
<1>9. StreamSound'
  BY <1>1, <1>2, <1>4, <1>7, <1>8, WatchAssumption DEF StreamSound, Taken
<1>10. ClosedSound'
  BY <1>2 DEF ClosedSound
<1> QED
  BY <1>3, <1>6, <1>9, <1>10 DEF WatchInv

LEMMA PollKeeps == ASSUME WatchInv, Poll PROVE WatchInv'
<1>1. /\ UNCHANGED <<jobState, jobDlq, jobAgain, jobWrites, jobThere, heard, streams>>
      /\ stream.at = "asleep" /\ stream \in StreamSet /\ stream.polls < MaxPolls
  BY DEF Poll, jobRow, WatchInv, WatchTyped, StreamSound
<1>2. /\ stream' \in StreamSet /\ stream'.last = stream.last
      /\ \/ /\ stream'.at = "telling" /\ stream'.snap = Snapshot /\ stream'.again = Again
            /\ stream'.polls = stream.polls + 1 /\ stream'.closed = stream.closed
         \/ stream'.at = "off" /\ stream'.closed = "gone" /\ ~jobThere /\ stream'.polls = stream.polls
  <2>1. CASE jobThere
    <3> DEFINE snap == Snapshot
               again == Again
    <3>1. snap \in SnapSet /\ again \in BOOLEAN /\ stream.polls + 1 \in Nat
      BY <1>1, SnapshotTyped DEF WatchInv, Again, StreamSet
    <3>2. stream' = [stream EXCEPT !.at = "telling", !.snap = snap, !.again = again,
                                   !.polls = stream.polls + 1]
      BY <1>1, <2>1 DEF Poll, Looked, Again, StreamSet
    <3> HIDE DEF snap, again
    <3>3. /\ stream' \in StreamSet /\ stream'.last = stream.last /\ stream'.at = "telling"
          /\ stream'.snap = snap /\ stream'.again = again
          /\ stream'.polls = stream.polls + 1 /\ stream'.closed = stream.closed
      BY <1>1, <3>1, <3>2 DEF StreamSet
    <3> QED
      BY <3>3 DEF snap, again
  <2>2. CASE ~jobThere
    BY <1>1, <2>2 DEF Poll, StreamSet
  <2> QED
    BY <2>1, <2>2
<1>3. WatchTyped'
  BY <1>1, <1>2 DEF WatchInv, WatchTyped
<1>4. UNCHANGED Snapshot /\ UNCHANGED LastHeard /\ (Again' <=> Again)
  BY <1>1 DEF Snapshot, LastHeard, Again
<1>5. HeardSound'
  BY <1>1, <1>4 DEF WatchInv, HeardSound, Taken
<1>6. Taken(Snapshot, Again)' /\ (heard # <<>> => Again \/ Later(LastHeard.snap, Snapshot))
  BY <1>4, SnapshotTyped DEF WatchInv, HeardSound, Taken
<1>7. stream.polls \in Nat /\ stream'.polls <= MaxPolls
  BY <1>1, <1>2, WatchAssumption DEF StreamSet
<1>8. StreamSound'
  BY <1>1, <1>2, <1>4, <1>6, <1>7 DEF WatchInv, StreamSound, Taken
<1>9. ClosedSound'
  BY <1>1, <1>2 DEF WatchInv, ClosedSound
<1> QED
  BY <1>3, <1>5, <1>8, <1>9 DEF WatchInv

LEMMA TellKeeps == ASSUME WatchInv, Tell PROVE WatchInv'
<1> DEFINE snap == stream.snap
           news == [stream |-> streams, snap |-> snap, again |-> stream.again]
<1>1. /\ stream.at = "telling" /\ stream \in StreamSet
      /\ UNCHANGED <<jobState, jobDlq, jobAgain, jobWrites, jobThere, streams>>
      /\ heard' = IF snap = stream.last THEN heard ELSE Append(heard, news)
  BY DEF Tell, jobRow, WatchInv, WatchTyped
<1>2. /\ stream' \in StreamSet /\ stream'.polls = stream.polls /\ stream'.snap = snap
      /\ stream'.again = stream.again
      /\ \/ TakenForEnd(snap) /\ stream'.at = "off" /\ stream'.closed = "done"
         \/ stream'.at = "off" /\ stream'.closed = "timeout"
         \/ /\ ~TakenForEnd(snap) /\ stream.polls < MaxPolls /\ stream'.at = "asleep"
            /\ stream'.last = snap /\ stream'.closed = stream.closed
  <2>1. CASE TakenForEnd(snap)
    <3>1. stream' = [stream EXCEPT !.at = "off", !.closed = "done"]
      BY <2>1 DEF Tell
    <3> QED
      BY <1>1, <2>1, <3>1 DEF StreamSet
  <2>2. CASE ~TakenForEnd(snap) /\ stream.polls >= MaxPolls
    <3>1. stream' = [stream EXCEPT !.at = "off", !.closed = "timeout"]
      BY <2>2 DEF Tell
    <3> QED
      BY <1>1, <2>2, <3>1 DEF StreamSet
  <2>3. CASE ~TakenForEnd(snap) /\ ~(stream.polls >= MaxPolls)
    <3>1. stream' = [stream EXCEPT !.at = "asleep", !.last = stream.snap]
      BY <2>3 DEF Tell
    <3>2. stream.polls < MaxPolls
      BY <1>1, <2>3, WatchAssumption DEF StreamSet
    <3>3. /\ stream' \in StreamSet /\ stream'.at = "asleep" /\ stream'.last = stream.snap
          /\ stream'.snap = stream.snap /\ stream'.again = stream.again
          /\ stream'.polls = stream.polls /\ stream'.closed = stream.closed
      BY <1>1, <3>1 DEF StreamSet
    <3> QED
      BY <2>3, <3>2, <3>3
  <2> QED
    BY <2>1, <2>2, <2>3
<1>3. UNCHANGED Snapshot /\ (Again' <=> Again)
  BY <1>1 DEF Snapshot, Again
<1>4. news \in HeardSet /\ snap \in SnapSet /\ heard \in Seq(HeardSet) /\ streams \in Nat
  BY <1>1 DEF WatchInv, WatchTyped, StreamSet, HeardSet
<1>5. /\ Taken(snap, stream.again) /\ snap # NoSnap
      /\ heard # <<>> => stream.again \/ Later(LastHeard.snap, snap)
  <2>1. /\ Taken(snap, stream.again)
        /\ heard # <<>> => stream.again \/ Later(LastHeard.snap, snap)
    BY <1>1 DEF WatchInv, StreamSound
  <2>2. snap # NoSnap
    BY <2>1, WatchAssumption DEF Taken, NoSnap, JobStates
  <2> QED
    BY <2>1, <2>2
<1>6. CASE snap = stream.last
  <2>1. /\ heard' = heard /\ UNCHANGED LastHeard
        /\ heard # <<>> /\ LastHeard.stream = streams /\ LastHeard.snap = snap /\ ~TakenForEnd(snap)
    BY <1>1, <1>5, <1>6 DEF WatchInv, StreamSound, LastHeard
  <2>2. WatchTyped'
    BY <1>1, <1>2, <2>1 DEF WatchInv, WatchTyped
  <2>3. HeardSound'
    BY <1>1, <1>3, <2>1 DEF WatchInv, HeardSound, Taken
  <2>4. StreamSound'
    BY <1>1, <1>2, <2>1 DEF WatchInv, StreamSound
  <2>5. ClosedSound'
    BY <1>1, <1>2, <2>1 DEF WatchInv, ClosedSound
  <2> QED
    BY <2>2, <2>3, <2>4, <2>5 DEF WatchInv
<1>7. CASE snap # stream.last
  <2> HIDE DEF HeardSet, news
  <2>1. /\ heard' = Append(heard, news) /\ heard' \in Seq(HeardSet)
        /\ Len(heard') = Len(heard) + 1 /\ Len(heard) \in Nat
        /\ heard'[Len(heard) + 1] = news /\ \A i \in 1..Len(heard) : heard'[i] = heard[i]
    BY <1>1, <1>4, <1>7
  <2>2. heard' # <<>> /\ LastHeard' = news
    BY <2>1 DEF LastHeard
  <2>3. news.stream = streams /\ news.snap = snap /\ news.again = stream.again
    BY DEF news
  <2>4. WatchTyped'
    BY <1>1, <1>2, <2>1 DEF WatchInv, WatchTyped
  <2>5. \A i \in 1..Len(heard') : heard'[i].stream <= streams'
    BY <1>1, <1>4, <2>1, <2>3 DEF WatchInv, HeardSound
  <2>6. ASSUME NEW i \in 2..Len(heard')
        PROVE  /\ heard'[i].again \/ Later(heard'[i - 1].snap, heard'[i].snap)
               /\ heard'[i - 1].stream = heard'[i].stream => heard'[i - 1].snap # heard'[i].snap
    <3>1. CASE i \in 2..Len(heard)
      <4>1. /\ heard[i].again \/ Later(heard[i - 1].snap, heard[i].snap)
            /\ heard[i - 1].stream = heard[i].stream => heard[i - 1].snap # heard[i].snap
        BY <3>1 DEF WatchInv, HeardSound
      <4>2. heard'[i - 1] = heard[i - 1] /\ heard'[i] = heard[i]
        BY <2>1, <3>1
      <4> QED
        BY <4>1, <4>2
    <3>2. CASE i = Len(heard) + 1 /\ heard # <<>>
      <4>1. heard'[i] = news /\ heard'[i - 1] = LastHeard
        BY <2>1, <2>6, <3>2 DEF LastHeard
      <4>2. LastHeard.stream = streams => LastHeard.snap # snap
        BY <1>1, <1>7, <3>2 DEF WatchInv, StreamSound
      <4> QED
        BY <1>5, <2>3, <3>2, <4>1, <4>2
    <3> QED
      BY <2>1, <2>6, <3>1, <3>2
  <2>7. Taken(snap, stream.again)'
    BY <1>2, <1>3, <1>5 DEF Taken
  <2>8. HeardSound'
    BY <1>2, <2>2, <2>3, <2>5, <2>6, <2>7 DEF HeardSound
  <2>9. StreamSound'
    BY <1>1, <1>2, <2>2, <2>3 DEF WatchInv, StreamSound
  <2>10. ClosedSound'
    <3>1. TakenForEnd(snap) => AtRest(snap)
      BY <1>4, <1>5, EndsAreEnds DEF Taken
    <3> QED
      BY <1>1, <1>2, <2>2, <2>3, <3>1 DEF WatchInv, ClosedSound, AtRest, TakenForEnd
  <2> QED
    BY <2>4, <2>8, <2>9, <2>10 DEF WatchInv
<1> QED
  BY <1>6, <1>7

LEMMA WatchInvKept == WatchInv /\ [WatchNext]_watchVars => WatchInv'
<1> SUFFICES ASSUME WatchInv, [WatchNext]_watchVars PROVE WatchInv'
  OBVIOUS
<1> USE DEF WatchInv, WatchTyped, StreamSound, HeardSound, ClosedSound, Snapshot, Taken, LastHeard, Again
<1>1. CASE JobDeleted
  BY <1>1 DEF JobDeleted
<1>2. CASE HangUp
  BY <1>2, WatchAssumption DEF HangUp, jobRow, Closed, NoSnap, SnapSet, StreamSet
<1>3. CASE UNCHANGED watchVars
  BY <1>3 DEF watchVars
<1> QED
  BY <1>1, <1>2, <1>3, JobGoesOn, DeliveredAgainKeeps, ConnectKeeps, PollKeeps, TellKeeps DEF WatchNext

(* A stream of GET /jobs/{id}/events tells the truth, for every number of stages, *)
(* polls, writes and reconnections: it never repeats itself, "done" is said only  *)
(* of an end, "gone" only of a row that is gone, and the cap holds; and of a job  *)
(* not delivered again when it was read, what clients hear never goes back and    *)
(* the end they are told of is where it stays.                                    *)
THEOREM StreamsAlwaysTell == WatchSpec => []StreamsTell
BY WatchInitInv, WatchInvKept, StreamsAreTold, PTL DEF WatchSpec
================================================================================
