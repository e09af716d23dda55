--------------------------- MODULE NumberSequence ---------------------------
(***************************************************************************)
(* Utility::String::parseNumberSequence(): "4,3 7-9 -2" as a sequence of   *)
(* numbers.  The one pass of the code is a fold over the characters;       *)
(* Denotes is what the documentation says a text stands for, piece by      *)
(* piece.  Limit is 2^32 in the program.                                   *)
(***************************************************************************)
EXTENDS Naturals, Sequences, SequencesExt

CONSTANT Limit  \* numbers are 0 .. Limit - 1

\* The first test case is not the mark of no range.
ASSUME LimitAssumption == Limit \in Nat /\ Limit > 2

\* Characters: a digit stands for itself.
Digits == 0 .. 9
Delimiter == 10
Dash == 11
Unrecognized == 12

-----------------------------------------------------------------------------
\* The pass.

\* ~std::uint32_t{}: not in a range.
NoRange == Limit - 1

Parser == [out |-> <<>>, hasNumber |-> FALSE, number |-> 0, overflow |-> FALSE,
           rangeStart |-> NoRange, refused |-> FALSE]

\* The numbers from first up to end, end excluded.
Numbers(first, end) == [k \in 1 .. (IF end > first THEN end - first ELSE 0) |-> first + k - 1]

InRange(p) == p.rangeStart # NoRange

\* A delimiter or the end of the text.  An overflown piece is ignored, but a
\* range it started is not.
EndPiece(p, min, max) ==
    LET end == IF p.hasNumber /\ p.number < max THEN p.number + 1 ELSE max IN
    [p EXCEPT !.overflow = FALSE,
              !.out = @ \o CASE p.overflow -> <<>>
                             [] ~p.overflow /\ InRange(p) -> Numbers(p.rangeStart, end)
                             [] OTHER -> IF p.hasNumber /\ p.number >= min /\ p.number < max
                                         THEN <<p.number>> ELSE <<>>,
              !.rangeStart = IF p.overflow THEN @ ELSE NoRange,
              !.hasNumber = FALSE,
              !.number = 0]

ReadDigit(p, c) ==
    LET next == p.number * 10 + c IN
    [p EXCEPT !.hasNumber = TRUE, !.overflow = @ \/ next >= Limit, !.number = next % Limit]

ReadDash(p, min) ==
    [p EXCEPT !.rangeStart = IF p.hasNumber /\ p.number >= min THEN p.number ELSE min,
              !.hasNumber = FALSE,
              !.number = 0]

\* refused: an unrecognized character, after which nothing matters.
ReadCharacter(p, c, min, max) ==
    CASE p.refused -> p
      [] ~p.refused /\ c \in Digits -> ReadDigit(p, c)
      [] ~p.refused /\ c = Delimiter -> EndPiece(p, min, max)
      [] ~p.refused /\ c = Dash -> ReadDash(p, min)
      [] OTHER -> [p EXCEPT !.refused = TRUE]

\* The end of the text is read like a delimiter; the function returns nothing if it refused.
ParseNumberSequence(text, min, max) ==
    LET Read(p, c) == ReadCharacter(p, c, min, max)
    IN Read(FoldLeft(Read, Parser, text), Delimiter)

-----------------------------------------------------------------------------
\* The meaning of a text.

\* Where pieces end.
Ends(text) == {k \in DOMAIN text : text[k] = Delimiter} \cup {Len(text) + 1}

LastEnd(text, k) == Max({0} \cup {end \in Ends(text) : end <= k})

\* The piece before an end.
Piece(text, end) == SubSeq(text, LastEnd(text, end - 1) + 1, end - 1)

Value(digits) == FoldLeft(LAMBDA n, d : n * 10 + d, 0, digits)

Dashes(piece) == {k \in DOMAIN piece : piece[k] = Dash}

Start(piece) == SubSeq(piece, 1, Max(Dashes(piece)) - 1)
Finish(piece) == SubSeq(piece, Max(Dashes(piece)) + 1, Len(piece))

\* A range is inclusive and clipped to the bounds; a missing start or end is a bound.
PieceDenotes(piece, min, max) ==
    IF Dashes(piece) = {}
    THEN IF piece # <<>> /\ Value(piece) \in min .. (max - 1) /\ Value(piece) < Limit
         THEN <<Value(piece)>> ELSE <<>>
    ELSE LET first == IF Start(piece) = <<>> THEN min ELSE Max({min, Value(Start(piece))})
             last == IF Finish(piece) = <<>> THEN max - 1 ELSE Min({max - 1, Value(Finish(piece))})
             fits == Value(Start(piece)) < Limit /\ Value(Finish(piece)) < Limit
         IN IF fits THEN Numbers(first, last + 1) ELSE <<>>

Denotes(text, min, max) ==
    LET Then(out, end) == IF end \in Ends(text) THEN out \o PieceDenotes(Piece(text, end), min, max) ELSE out
    IN FoldLeft(Then, <<>>, [k \in 1 .. Len(text) + 1 |-> k])

\* A piece has one dash at most.
WellFormed(text) ==
    /\ \A k \in DOMAIN text : text[k] # Unrecognized
    /\ \A end \in Ends(text) : Cardinality(Dashes(Piece(text, end))) <= 1

\* No range has a number that does not fit, nor starts with the largest one.
RangesFit(text) ==
    \A end \in Ends(text) :
        LET piece == Piece(text, end) IN
        Dashes(piece) # {} => Value(Start(piece)) < NoRange /\ Value(Finish(piece)) < Limit
=============================================================================
