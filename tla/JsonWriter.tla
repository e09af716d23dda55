----------------------------- MODULE JsonWriter -----------------------------
(***************************************************************************)
(* Utility::JsonWriter: a stack of levels and three fields decide which    *)
(* call may come next and which comma, newline and indentation precede     *)
(* what it writes.  The assertions of the calls are their guards: a call   *)
(* whose assertion fails ends the program, so it is never a step.          *)
(*                                                                         *)
(* The output is a sequence of lexemes; spaces after commas and colons are *)
(* left out, a newline carries the number of spaces after it.  A string is *)
(* the class of its literal, a number the class of its value.              *)
(***************************************************************************)
EXTENDS JsonGrammar, Integers

CONSTANTS
    Wraps,                  \* whether Option::Wrap is set, the values tried
    Indentations,           \* spaces per level, the values tried
    InitialIndentations,    \* spaces before everything, the values tried
    WrapAfter,              \* arguments tried for the wrapping of compact arrays
    Written,                \* the values tried, as literals
    MaxItems                \* bound on the values and containers written

ASSUME WriterAssumption ==
    /\ Wraps \subseteq BOOLEAN
    /\ Indentations \subseteq 0 .. 8
    /\ InitialIndentations \subseteq Nat
    /\ WrapAfter \subseteq Nat
    /\ Written \subseteq Values
    /\ MaxItems \in Nat

VARIABLES
    state,  \* JsonWriter::State
    items   \* history: values and containers written so far

writerVars == <<state, items>>

-----------------------------------------------------------------------------

Expecting == {"Value", "ArrayValueOrArrayEnd", "CompactArrayValueOrArrayEnd",
              "ObjectKeyOrEnd", "ObjectValue", "DocumentEnd"}

NotAnArray == -1

(***************************************************************************)
(* prefix: characters of the whitespace string that start a line on this   *)
(* level; size: the items of an array so far.  kind and mixed are history: *)
(* what was begun, and whether a compact array ended inside with nothing   *)
(* but arrays around it.                                                   *)
(***************************************************************************)
Level(prefix, size, kind) == [prefix |-> prefix, size |-> size, kind |-> kind, mixed |-> FALSE]

(***************************************************************************)
(* The whitespace string is its length: \n and the initial indentation at  *)
(* first, nothing without Option::Wrap.  A newline ends the document       *)
(* unless it is to be put inside another one.                              *)
(***************************************************************************)
Constructed(wrap, indentation, initialIndentation) ==
    LET whitespace == IF wrap THEN 1 + initialIndentation ELSE 0 IN
    [expecting |-> "Value", needsCommaBefore |-> FALSE, compactArrayWrapAfter |-> 0,
     indentation |-> IF wrap THEN indentation ELSE 0,
     finalNewline |-> wrap /\ initialIndentation = 0,
     whitespace |-> whitespace, levels |-> <<Level(whitespace, NotAnArray, "root")>>,
     out |-> <<>>]

Append1(s, lexeme) == [s EXCEPT !.out = Append(@, [lexeme |-> lexeme, spaces |-> 0])]

\* A prefix of the whitespace string, empty when nothing is wrapped.
AppendNewline(s) ==
    LET prefix == Last(s.levels).prefix IN
    IF prefix = 0 THEN s
    ELSE [s EXCEPT !.out = Append(@, [lexeme |-> "newline", spaces |-> prefix - 1])]

AppendComma(s) == IF s.needsCommaBefore THEN Append1(s, ",") ELSE s

IsTimeToWrap(s) == s.compactArrayWrapAfter # 0 /\ Last(s.levels).size % s.compactArrayWrapAfter = 0

WriteCommaNewlineIndent(s) ==
    CASE Len(s.levels) = 1 \/ s.expecting = "ObjectValue" -> s
      [] s.expecting = "CompactArrayValueOrArrayEnd" /\ ~IsTimeToWrap(s) -> AppendComma(s)
      [] OTHER -> AppendNewline(AppendComma(s))

FinalizeItem_Mutant1(s, top) ==
    [s EXCEPT !.levels[top].size = @ + 1, !.needsCommaBefore = TRUE]

FinalizeItem_Mutant2(s, top) ==
    [s EXCEPT !.levels[top].size = @ + 1,
              !.expecting = IF @ = "CompactArrayValueOrArrayEnd" THEN @ ELSE "ArrayValueOrArrayEnd",
              !.needsCommaBefore = @ \/ s.levels[top].size > 0]

\* One more item in an array, compact or not by what was expected inside the item.
FinalizeItem(s, top) ==
    [s EXCEPT !.levels[top].size = @ + 1,
              !.expecting = IF @ = "CompactArrayValueOrArrayEnd" THEN @ ELSE "ArrayValueOrArrayEnd",
              !.needsCommaBefore = TRUE]

FinalizeValue(s) ==
    LET top == Len(s.levels) IN
    CASE top = 1 ->
            [(IF s.finalNewline THEN AppendNewline(s) ELSE s) EXCEPT !.expecting = "DocumentEnd"]
      [] top > 1 /\ s.levels[top].size # NotAnArray -> FinalizeItem(s, top)
      [] OTHER -> [s EXCEPT !.expecting = "ObjectKeyOrEnd", !.needsCommaBefore = TRUE]

\* The whitespace string grows by one level when the new level reaches past it.
Nest(s, opener, size, kind, expecting) ==
    LET prefix == Last(s.levels).prefix + s.indentation
    IN [Append1(WriteCommaNewlineIndent(s), opener)
            EXCEPT !.levels = Append(@, Level(prefix, size, kind)),
                   !.whitespace = IF prefix > @ THEN @ + s.indentation ELSE @,
                   !.expecting = expecting,
                   !.needsCommaBefore = FALSE]

\* Back to the level outside; its newline only if something was written inside.
Unnest(s, closer, newline) ==
    LET outside == [s EXCEPT !.levels = Front(@)]
        ended == Last(s.levels)
        compact == ended.kind = "compact" \/ (ended.kind = "array" /\ ended.mixed)
        closed == FinalizeValue(Append1(IF newline THEN AppendNewline(outside) ELSE outside, closer))
    IN [closed EXCEPT !.levels[Len(closed.levels)].mixed = @ \/ compact]

Object(s) == Nest(s, "{", NotAnArray, "object", "ObjectKeyOrEnd")
Array(s) == Nest(s, "[", 0, "array", "ArrayValueOrArrayEnd")
CompactArray(s, wrapAfter) ==
    [Nest(s, "[", 0, "compact", "CompactArrayValueOrArrayEnd")
        EXCEPT !.compactArrayWrapAfter = wrapAfter]
ObjectEnd(s) == Unnest(s, "}", s.needsCommaBefore)
ArrayEnd(s) ==
    Unnest(s, "]", /\ s.expecting = "CompactArrayValueOrArrayEnd" => s.compactArrayWrapAfter # 0
                   /\ s.needsCommaBefore)
Literal(s, value) == FinalizeValue(Append1(WriteCommaNewlineIndent(s), value))
KeyLiteral(s, key) ==
    [Append1(Append1(WriteCommaNewlineIndent(s), key), ":") EXCEPT !.expecting = "ObjectValue"]

-----------------------------------------------------------------------------

Room == items < MaxItems
Count(n) == items' = items + n

NestingExpected_Mutant(s) ==
    s.expecting \in {"Value", "ObjectValue", "ArrayValueOrArrayEnd", "CompactArrayValueOrArrayEnd"}

NestingExpected(s) == s.expecting \in {"Value", "ObjectValue", "ArrayValueOrArrayEnd"}
ValueExpected(s) == NestingExpected(s) \/ s.expecting = "CompactArrayValueOrArrayEnd"

\* write() refuses what has no JSON form or does not fit: infinities, NaNs and
\* integers of more than 52 bits.  Strings and literals always fit.
Fits(value) == value \in {"plain", "escaped", "null", "true", "small", "negative", "fraction", "large"}

BeginObject == Room /\ NestingExpected(state) /\ state' = Object(state) /\ Count(1)

EndObject ==
    /\ state.expecting = "ObjectKeyOrEnd"
    /\ state' = ObjectEnd(state)
    /\ Count(0)

BeginArray == Room /\ NestingExpected(state) /\ state' = Array(state) /\ Count(1)

BeginCompactArray(wrapAfter) ==
    /\ Room
    /\ NestingExpected(state)
    /\ state' = CompactArray(state, wrapAfter)
    /\ Count(1)

EndArray ==
    /\ state.expecting \in {"ArrayValueOrArrayEnd", "CompactArrayValueOrArrayEnd"}
    /\ state' = ArrayEnd(state)
    /\ Count(0)

WriteKey(key) ==
    /\ Room
    /\ key \in Strings
    /\ Fits(key)
    /\ state.expecting = "ObjectKeyOrEnd"
    /\ state' = KeyLiteral(state, key)
    /\ Count(0)

\* The text of the key is taken as it is.
WriteJsonKey(key) ==
    /\ Room
    /\ key \in Strings
    /\ state.expecting = "ObjectKeyOrEnd"
    /\ state' = KeyLiteral(state, key)
    /\ Count(0)

Write(value) ==
    /\ Room
    /\ Fits(value)
    /\ ValueExpected(state)
    /\ state' = Literal(state, value)
    /\ Count(1)

\* All values of one array have one type; n of them, in one call.
WriteArray(value, n, wrapAfter) ==
    /\ items + n < MaxItems
    /\ Fits(value)
    /\ NestingExpected(state)
    /\ LET Values1 == [i \in 1 .. n |-> value]
       IN state' = ArrayEnd(FoldLeft(Literal, CompactArray(state, wrapAfter), Values1))
    /\ Count(n + 1)

\* The text of the value is taken as it is, but not into a compact array.
WriteJson(value) ==
    /\ Room
    /\ NestingExpected(state)
    /\ state' = Literal(state, value)
    /\ Count(1)

TakeString ==
    /\ state.expecting = "DocumentEnd"
    /\ UNCHANGED writerVars

WriterInit ==
    /\ \E wrap \in Wraps, indentation \in Indentations, initialIndentation \in InitialIndentations :
            state = Constructed(wrap, indentation, initialIndentation)
    /\ items = 0

WriterNext ==
    \/ BeginObject
    \/ EndObject
    \/ BeginArray
    \/ EndArray
    \/ \E n \in WrapAfter : BeginCompactArray(n)
    \/ \E value \in Written : WriteKey(value) \/ WriteJsonKey(value)
    \/ \E value \in Written : Write(value) \/ WriteJson(value)
    \/ \E value \in Written, n \in 0 .. 2, w \in WrapAfter : WriteArray(value, n, w)
    \/ TakeString

WriterSpec == WriterInit /\ [][WriterNext]_writerVars

-----------------------------------------------------------------------------

\* The lexemes written, without the newlines.
Text(s) ==
    LET Take(lexemes, written) ==
            IF written.lexeme = "newline" THEN lexemes ELSE Append(lexemes, written.lexeme)
    IN FoldLeft(Take, <<>>, s.out)

WriterTypeOK ==
    /\ state.expecting \in Expecting
    /\ state.needsCommaBefore \in BOOLEAN
    /\ state.compactArrayWrapAfter \in WrapAfter \cup {0}
    /\ state.whitespace \in Nat /\ state.indentation \in 0 .. 8 /\ state.finalNewline \in BOOLEAN
    /\ Len(state.levels) > 0
    /\ \A i \in DOMAIN state.levels :
            /\ state.levels[i].prefix \in Nat
            /\ state.levels[i].size \in Nat \cup {NotAnArray}
            /\ state.levels[i].kind \in {"root", "object", "array", "compact"}
            /\ state.levels[i].mixed \in BOOLEAN
    /\ \A i \in DOMAIN state.out :
            /\ state.out[i].lexeme \in Lexemes \cup {"newline"}
            /\ state.out[i].spaces \in Nat
    /\ items \in 0 .. MaxItems

(***************************************************************************)
(* The level a caller is on, from what it began and has not ended.         *)
(***************************************************************************)
ExpectedOn(level) ==
    CASE level.kind = "object" -> {"ObjectKeyOrEnd", "ObjectValue"}
      [] level.kind = "array" -> {"ArrayValueOrArrayEnd"}
      [] level.kind = "compact" -> {"CompactArrayValueOrArrayEnd"}
      [] level.kind = "root" -> IF items = 0 THEN {"Value"} ELSE {"DocumentEnd"}

(***************************************************************************)
(* The writer accepts what its documentation lets a caller write: nested   *)
(* objects and arrays are refused in compact arrays only (JsonWriter.h,    *)
(* beginObject(), beginArray(), beginCompactArray(): "or inside a compact  *)
(* array").  finalizeValue() breaks it for an array in which a compact     *)
(* array has ended: expecting stays what it was inside.                    *)
(***************************************************************************)
ExpectingFollowsLevel == state.expecting \in ExpectedOn(Last(state.levels))

\* The same, but for arrays in which a compact array has ended.
ExpectingFollowsPlainLevel ==
    \/ Last(state.levels).kind = "array" /\ Last(state.levels).mixed
    \/ state.expecting \in ExpectedOn(Last(state.levels))

\* Every line starts with as many spaces as the depth of what it holds asks for,
\* whichever call wrote the newline, and the whitespace string has grown enough
\* for every level to take its prefix of it.
LinesIndented ==
    /\ \A i \in DOMAIN state.levels : state.levels[i].prefix <= state.whitespace
    /\ \A i \in DOMAIN state.out : state.out[i].lexeme = "newline" =>
        LET before == Text([state EXCEPT !.out = SubSeq(@, 1, i)])
            closes == i < Len(state.out) /\ state.out[i + 1].lexeme \in Closers
            outermost == state.levels[1].prefix - 1
        IN state.out[i].spaces = outermost + state.indentation *
                (Depth(before) - (IF closes THEN 1 ELSE 0))

(***************************************************************************)
(* Whatever the calls and wherever commas are suppressed or due, what was  *)
(* written can still become a JSON text, a finished document is one, and   *)
(* its lines are indented by the depth of what they hold                   *)
(* (writeCommaNewlineIndentInternal(), finalizeValue()).                   *)
(***************************************************************************)
WritesJson ==
    /\ IsJsonPrefix(Text(state))
    /\ state.expecting = "DocumentEnd" => IsJson(Text(state))
    /\ LinesIndented

-----------------------------------------------------------------------------

Document == INSTANCE JsonDocument WITH
    open <- [i \in 1 .. Len(state.levels) - 1 |-> state.levels[i + 1].kind],
    keyed <- state.expecting = "ObjectValue",
    done <- state.expecting = "DocumentEnd"

\* No call outside the order that the documentation gives is ever accepted.
ImplementsDocument == Document!Spec
=============================================================================
