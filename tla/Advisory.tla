------------------------------ MODULE Advisory ------------------------------
(***************************************************************************)
(* The register advisory: a founder's question in chat is read for its     *)
(* terms, two registers are searched, and the answer says how many entries *)
(* matched of how many, free ones first (register-advisory.js, utils/      *)
(* advisory.js). A word either is or is not in a text; texts are sets of   *)
(* words.                                                                  *)
(***************************************************************************)
EXTENDS Naturals, Sequences, FiniteSets, SequencesExt

CONSTANTS
  Question,   \* what a founder may ask: [words, asks]
  Stopped,    \* STOP, and words of one or two letters
  Models,     \* sequence of [name, provider, id, modalities]
  DataSets,   \* sequence of [name, tags, description, commercial]
  Capability, \* CAPABILITY_TERMS: word -> modality
  RegisterNouns,
  PageLimit,
  Silent      \* nothing answered yet

(* Questions are finite texts, the registers finite lists.                 *)
ASSUME RegisterAssumption ==
  /\ \A question \in Question : IsFiniteSet(question.words)
  /\ IsFiniteSet(DOMAIN Models) /\ DOMAIN Models \subseteq Nat
  /\ IsFiniteSet(DOMAIN DataSets) /\ DOMAIN DataSets \subseteq Nat
  /\ PageLimit \in Nat

VARIABLE advice

(* The ask has a question's shape and one of the register's nouns, and the *)
(* page's branch for it is the only caller.                                *)
AdvisoryFromText(question) == question.asks /\ question.words \cap RegisterNouns # {}

ExtractTerms(question) == question.words \ Stopped

Hits(terms, text) == Cardinality(terms \cap text)

ModelScore(terms, e) ==
  2 * Hits(terms, e.name) + 2 * Hits(terms, e.provider) + Hits(terms, e.id)
    + 3 * Cardinality({t \in terms \cap DOMAIN Capability : Capability[t] \in e.modalities})

DataScore(terms, e) ==
  3 * Hits(terms, e.tags) + 2 * Hits(terms, e.name) + Hits(terms, e.description)

(* What goes before each entry that scores, by its place in the register:  *)
(* those to be listed first, then the better ones, and the earlier ones    *)
(* where the sort sees no difference.                                      *)
Ahead(scores, first) ==
  LET hit == {i \in DOMAIN scores : scores[i] > 0}
      Better(i, j) == IF (i \in first) = (j \in first) THEN scores[i] > scores[j]
                      ELSE i \in first
  IN  [i \in hit |-> {j \in hit : Better(j, i) \/ (~Better(i, j) /\ j < i)}]

Ranked(ahead) ==
  [n \in 1..Cardinality(DOMAIN ahead) |->
     CHOOSE i \in DOMAIN ahead : Cardinality(ahead[i]) = n - 1]

Shown(ranked) == SubSeq(ranked, 1, IF Len(ranked) < PageLimit THEN Len(ranked) ELSE PageLimit)

AdviseModels(terms) ==
  LET scores == [i \in DOMAIN Models |-> ModelScore(terms, Models[i])]
      ranked == Ranked(Ahead(scores, {}))
  IN  [matches |-> Shown(ranked), match_count |-> Len(ranked), total |-> Len(Models)]

Free(i) == DataSets[i].commercial = "free"

(* Mutant: the page is cut from the best scores, then free ones sorted up. *)
AdviseBestThenFree(terms) ==
  LET scores == [i \in DOMAIN DataSets |-> DataScore(terms, DataSets[i])]
      best == Ranked(Ahead(scores, {}))
  IN  [matches |-> SelectSeq(Shown(best), Free) \o SelectSeq(Shown(best), LAMBDA i : ~Free(i)),
       match_count |-> Len(best), total |-> Len(DataSets)]

AdviseData(terms) ==
  LET scores == [i \in DOMAIN DataSets |-> DataScore(terms, DataSets[i])]
      ranked == Ranked(Ahead(scores, {i \in DOMAIN DataSets : Free(i)}))
  IN  [matches |-> Shown(ranked), match_count |-> Len(ranked), total |-> Len(DataSets)]

(* The sentence over the card: a zero is said with what was searched, a    *)
(* page that shows less than it found says how much it found.              *)
AnswerLine(side) ==
  CASE side.match_count = 0 -> [says |-> "none", found |-> 0, of |-> side.total]
    [] Len(side.matches) < side.match_count ->
         [says |-> "the top", found |-> side.match_count, of |-> side.total]
    [] OTHER -> [says |-> "all", found |-> side.match_count, of |-> side.total]

AdvisoryInit == advice = Silent

RegisterAdvisory(question) ==
  LET terms == ExtractTerms(question)
  IN  [question |-> question, models |-> AdviseModels(terms), data |-> AdviseData(terms)]

(* The registers answer, or the page says they could not be reached.       *)
Advise(question) ==
  /\ AdvisoryFromText(question)
  /\ advice' \in {RegisterAdvisory(question), Silent}

AdvisoryNext == \E question \in Question : Advise(question)

AdvisorySpec == AdvisoryInit /\ [][AdvisoryNext]_advice

-----------------------------------------------------------------------------

Matching(register, question, Text(_)) ==
  {i \in DOMAIN register : ExtractTerms(question) \cap Text(register[i]) # {}}

(* No paid dataset is shown while a free one that matches is left out or   *)
(* stands below it, whatever their scores and wherever the page is cut;    *)
(* and the count said is of all that match, of both registers: an entry a  *)
(* word of the question names, by a capability too, is never a zero (the   *)
(* advisory laws of register-advisory.js).                                 *)
FreeFirstAndCounted ==
  advice # Silent =>
    LET data == advice.data
        Words(e) == e.name \cup e.tags \cup e.description
        Can(e) == {t \in DOMAIN Capability : Capability[t] \in e.modalities}
        ModelWords(e) == e.name \cup e.provider \cup e.id \cup Can(e)
        found == Matching(DataSets, advice.question, Words)
    IN  /\ \A n \in DOMAIN data.matches : ~Free(data.matches[n]) =>
             {i \in found : Free(i)} \subseteq ToSet(SubSeq(data.matches, 1, n - 1))
        /\ AnswerLine(data).found = Cardinality(found)
        /\ AnswerLine(advice.models).found
             = Cardinality(Matching(Models, advice.question, ModelWords))
=============================================================================
