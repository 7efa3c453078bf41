------------------------------ MODULE Similarity -------------------------------
(***************************************************************************)
(* Nearness of two texts, each a sequence of words (shingles and jaccard   *)
(* in dedup.py): shingles of three words, similarity at least 4/5.         *)
(***************************************************************************)
EXTENDS Naturals, Sequences, FiniteSets

ShingleSize == 3

Shingles(words) ==
    IF Len(words) < ShingleSize
    THEN {words} \ {<<>>}
    ELSE {SubSeq(words, i, i + ShingleSize - 1) : i \in 1 .. Len(words) - ShingleSize + 1}

(* Nothing is near an empty text, not even another one. *)
Similar(a, b) ==
    /\ Shingles(a) # {} /\ Shingles(b) # {}
    /\ 5 * Cardinality(Shingles(a) \cap Shingles(b))
         >= 4 * Cardinality(Shingles(a) \cup Shingles(b))
===============================================================================
