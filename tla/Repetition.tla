------------------------------ MODULE Repetition -------------------------------
(***************************************************************************)
(* The non-termination heuristic (detect_repetition in detector.py).  The  *)
(* code has chunks of 24 characters and asks for 5 of them; the operators  *)
(* take both sizes from the configuration.                                 *)
(***************************************************************************)
EXTENDS Naturals, Sequences

CONSTANTS Chunk,    \* LOOP_CHUNK
          Repeats,  \* LOOP_MIN_REPEATS
          Letter,   \* characters, the blank among them
          Blank,
          MaxText   \* bound: length of the texts examined

ASSUME SizeAssumption == Chunk \in Nat \ {0} /\ Repeats \in Nat \ {0}

ChunkAt(text, start) == SubSeq(text, start + 1, start + Chunk)

IsBlank(chunk) == \A i \in DOMAIN chunk : chunk[i] = Blank

(* str.count from each place on: occurrences that do not overlap, found from the
   left. *)
CountFrom(text, chunk) ==
    LET from[i \in 0 .. Len(text)] ==
          IF i + Chunk > Len(text) THEN 0
          ELSE IF ChunkAt(text, i) = chunk THEN 1 + from[i + Chunk]
          ELSE from[i + 1]
    IN  from

Count(text, chunk) == CountFrom(text, chunk)[0]

(* Only chunks that start at a multiple of the chunk size are tried, and their
   occurrences are counted anywhere in the text. *)
DetectRepetition(text) ==
    \E start \in 0 .. Len(text) :
        /\ start % Chunk = 0 /\ start + Chunk * Repeats <= Len(text)
        /\ ~IsBlank(ChunkAt(text, start))
        /\ Count(text, ChunkAt(text, start)) >= Repeats

------------------------------------------------------------------------------

(* A chunk repeating k times back to back, from any place. *)
Loops(text, k) ==
    \E start \in 0 .. Len(text) :
        /\ start + Chunk * k <= Len(text)
        /\ ~IsBlank(ChunkAt(text, start))
        /\ \A i \in 1 .. Chunk * (k - 1) : text[start + i] = text[start + i + Chunk]

Texts == UNION {[1 .. n -> Letter] : n \in 0 .. MaxText}
===============================================================================
