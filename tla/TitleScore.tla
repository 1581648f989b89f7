----------------------------- MODULE TitleScore -----------------------------
(***************************************************************************)
(* How similar two titles are (titlesim/sim.go): ScoreNorm drops stopwords  *)
(* and Align pairs the other words greedily, one word of the left title per *)
(* step.  Two jobs compare a pair of files, one from each side: the second  *)
(* pass is the comparison with the titles exchanged.                        *)
(*                                                                          *)
(* A title is the sequence of its words, with Spelling for the edit         *)
(* distance of two words, in per cent, and Runes for their length.  A score *)
(* is its numerator: the denominator is the number of words of both.        *)
(***************************************************************************)
EXTENDS Naturals, Sequences, FiniteSets, SequencesExt

CONSTANTS
    Titles,       \* normalised titles: sequences of words
    Stop,         \* stopwords
    Spelling,     \* of an unordered pair of words
    Runes,        \* length of a word
    WordMin, ShortWord, MinRunes, MinMatch     \* 80, 4, 8, 2

WordsOf(t) == {t[k] : k \in 1..Len(t)}
Words == UNION {WordsOf(t) : t \in Titles}
Couples == {{v, w} : v, w \in Words}

ScoreAssumption ==
    /\ Titles \subseteq Seq(Words)
    /\ Runes \in [Words -> Nat]
    /\ Spelling \in [Couples -> 0..99]
    /\ {WordMin, ShortWord, MinRunes, MinMatch} \subseteq Nat \ {0}

VARIABLES
    left, right,   \* the titles of ScoreNorm
    word, matched, \* the loop of Align and its count
    hit,           \* bHit, the positions of the right title that are taken
    scores         \* the results

scoreVars == <<left, right, word, matched, hit, scores>>

\* The words of a title that are no stopwords, in their order: the loop of Tokens.
Tokens(t) ==
    LET upTo[k \in 0..Len(t)] ==
            IF k = 0 THEN <<>>
            ELSE IF t[k] \in Stop THEN upTo[k - 1] ELSE Append(upTo[k - 1], t[k])
    IN  upTo[Len(t)]

\* runeLen of the normalised title, one space between words.
RuneLen(t) == FoldLeft(LAMBDA n, w : n + Runes[w], 0, t) + Len(t) - 1

WordScore(v, w) ==
    IF v = w THEN 100
    ELSE IF Runes[v] < ShortWord \/ Runes[w] < ShortWord THEN 0
    ELSE Spelling[{v, w}]

ScoreInit ==
    /\ left \in Titles /\ right \in Titles
    /\ word = 1 /\ matched = 0 /\ hit = {} /\ scores = <<>>

\* Words of the right title that are free and near enough, and the first of the best.
Free_InPlace(w, b) == {j \in 1..Len(b) \ hit : j = word /\ WordScore(w, b[j]) >= WordMin}
Free(w, b) == {j \in 1..Len(b) \ hit : WordScore(w, b[j]) >= WordMin}
Best(w, b) == {j \in Free(w, b) : \A k \in Free(w, b) :
    \/ WordScore(w, b[j]) > WordScore(w, b[k])
    \/ WordScore(w, b[j]) = WordScore(w, b[k]) /\ j <= k}

\* The early returns of ScoreNorm.
TooShort == RuneLen(left) < MinRunes \/ RuneLen(right) < MinRunes
Early == left = right \/ TooShort

AlignWord ==
    /\ Len(scores) < 2 /\ ~ Early /\ word <= Len(Tokens(left))
    /\ LET best == Best(Tokens(left)[word], Tokens(right)) IN
           hit' = hit \union best /\ matched' = matched + Cardinality(best)
    /\ word' = word + 1
    /\ UNCHANGED <<left, right, scores>>

Words2 == Len(Tokens(left)) + Len(Tokens(right))

Scored == IF left = right THEN Words2 ELSE IF TooShort \/ matched < MinMatch THEN 0 ELSE 2 * matched

\* The score; the other job has the titles the other way round.
Finish ==
    /\ Len(scores) < 2 /\ (Early \/ word > Len(Tokens(left)))
    /\ scores' = Append(scores, Scored)
    /\ left' = right /\ right' = left /\ word' = 1 /\ matched' = 0 /\ hit' = {}

ScoreNext == AlignWord \/ Finish
ScoreSpec == ScoreInit /\ [][ScoreNext]_scoreVars

-----------------------------------------------------------------------------
(* Reference: the alignments of two titles, words paired one to one *)

Pairings(s, t) == {f \in SUBSET {e \in (1..Len(s)) \X (1..Len(t)) : WordScore(s[e[1]], t[e[2]]) >= WordMin} :
    \A d, e \in f : d # e => d[1] # e[1] /\ d[2] # e[2]}
BestPairing(s, t) == CHOOSE n \in 0..Len(s) :
    /\ \E f \in Pairings(s, t) : Cardinality(f) = n
    /\ \A f \in Pairings(s, t) : Cardinality(f) <= n

-----------------------------------------------------------------------------
(* Properties *)

ScoreTypeOK ==
    /\ left \in Titles /\ right \in Titles
    /\ word \in 1..(Len(Tokens(left)) + 1)
    /\ hit \subseteq 1..Len(Tokens(right)) /\ matched = Cardinality(hit)
    /\ scores \in Seq(Nat)

\* "Score is Dice similarity in 0..1" (sim.go:70), and the table refuses any other (CHECK
\* of sql/013_title_similar.sql): no word counts twice.
ScoreInRange == \A k \in 1..Len(scores) : scores[k] <= Words2

\* Taking the best word at once costs at most half of the best alignment, and never finds
\* more than there is.
GreedyIsFair ==
    ~ Early /\ word > Len(Tokens(left)) =>
        LET n == BestPairing(Tokens(left), Tokens(right)) IN matched \in ((n + 1) \div 2)..n

\* Titles with the same content words score 1 in any order of the words, also with spellings
\* near to one another: a word takes its equal before any word that resembles it.
SameWordsScoreOne ==
    \A k \in 1..Len(scores) :
        /\ \A w \in Words : Cardinality({j \in 1..Len(Tokens(left)) : Tokens(left)[j] = w})
                            = Cardinality({j \in 1..Len(Tokens(right)) : Tokens(right)[j] = w})
        /\ Len(Tokens(left)) >= MinMatch /\ ~ TooShort
        => scores[k] = Words2

\* "Threshold is Dice similarity (2*shared / (lenA+lenB))" (sim.go:9): what two titles share
\* does not depend on which file is compared with which.
SharedIsSymmetric == Len(scores) = 2 => scores[1] = scores[2]
=============================================================================
