---------------------------- MODULE MCCasePipeline ----------------------------
(* A response of n words is the first n words of one long answer, so responses
   are near their neighbours in length and not near each other in general. *)
EXTENDS CasePipeline, Similarity, Repetition, TLC

ModeWords == [retrieval_failure |-> <<"retrieval", "failure">>,
              self_harm |-> <<"safety", "self", "harm">>,
              pii_leak |-> <<"safety", "pii", "leak">>]
ResponseWords(n) == [i \in 1 .. n |-> ToString(i)]

FiveTexts == {<<"retrieval_failure", n>> : n \in {24, 30, 37}}
             \cup {<<"self_harm", 24>>, <<"pii_leak", 24>>}

WordsOf == [x \in FiveTexts |-> ModeWords[x[1]] \o ResponseWords(x[2])]
Similars == [x \in FiveTexts |-> {y \in FiveTexts : Similar(WordsOf[x], WordsOf[y])}]
NearTexts == UNION {{<<x, y>> : y \in Similars[x]} : x \in FiveTexts}

Captured(error, signs, categories, n) ==
    [error_type |-> error, signs |-> signs, categories |-> categories, response |-> n]

Records == {Captured(Healthy, {"retrieval"}, {}, n) : n \in {24, 30}}
           \cup {Captured("retrieval_failure", {"unterminated"}, {}, 37),
                 Captured(Healthy, {"retrieval", "repetition"}, {"self_harm"}, 24),
                 Captured(Healthy, {}, {"pii_leak"}, 24)}

(* The two cases of one record, a failure and a critical finding, are near each
   other as soon as the response has 22 words. *)
ASSUME SameResponseIsNear ==
    \A n \in 1 .. 30 :
        Similar(ModeWords["retrieval_failure"] \o ResponseWords(n),
                ModeWords["self_harm"] \o ResponseWords(n)) <=> n >= 22

(* Nearness is not transitive. *)
ASSUME NearIsNotTransitive ==
    \E x, y, z \in FiveTexts :
        <<x, y>> \in NearTexts /\ <<y, z>> \in NearTexts /\ <<x, z>> \notin NearTexts

(* detect_repetition over all short texts. One repetition more than the minimum
   is always found, wherever it starts. *)
ASSUME LoopIsFound ==
    \A text \in Texts : Loops(text, Repeats + 1) => DetectRepetition(text)

(* Exactly the minimum may be missed, when it starts between two multiples of
   the chunk size, and occurrences with other text between them are found: the
   heuristic is not the "back-to-back" of its docstring. *)
ASSUME MinimumMayBeMissed ==
    \E text \in Texts : Loops(text, Repeats) /\ ~DetectRepetition(text)
ASSUME ScatteredIsFound ==
    \E text \in Texts : ~Loops(text, 2) /\ DetectRepetition(text)
===============================================================================
