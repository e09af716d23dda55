-------------------------------- MODULE Json --------------------------------
(***************************************************************************)
(* Utility::Json: a tokenizer that goes through a text once and leaves a   *)
(* flat list of tokens, and the parsing of those tokens in place, one by   *)
(* one, by subtree or by array, any number of times and as any type.       *)
(*                                                                         *)
(* The text arrives one lexeme per step; for what follows, that is any     *)
(* text.  Of the 64 bits of a token the model keeps what the masks of      *)
(* JsonToken tell apart, see Token; of a parsed number its type, of a      *)
(* parsed string with escapes the place of its copy.                       *)
(***************************************************************************)
EXTENDS JsonGrammar

CONSTANTS
    Inputs,     \* the lexemes that texts are made of
    MaxText,    \* bound on the lexemes of such a text
    MaxStrings, \* bound on the unescaped strings, failed ones included
    OptionSets  \* the options tried, sets of the names of Json::Option

ASSUME JsonAssumption ==
    /\ Inputs \subseteq Lexemes
    /\ MaxText \in Nat
    /\ MaxStrings \in Nat
    /\ OptionSets \subseteq SUBSET {"ParseLiterals", "ParseDoubles", "ParseFloats",
                                    "ParseStringKeys", "ParseStrings"}

VARIABLES
    status,     \* reading, then tokenized or what went wrong
    text,       \* the lexemes read so far
    expected,   \* the local `expecting` of tokenize()
    container,  \* index of the innermost open object or array token, or NoContainer
    tokens,     \* State::tokenStorage with State::tokenOffsetSizeStorage
    strings     \* State::strings: which text each was unescaped from, or NoText

jsonVars == <<status, text, expected, container, tokens, strings>>

-----------------------------------------------------------------------------

NoContainer == 0
NoText == 0

Expectations == {"Value", "ValueOrArrayEnd", "ObjectKey", "ObjectKeyOrEnd", "ObjectKeyColon",
                 "CommaOrObjectEnd", "CommaOrArrayEnd", "DocumentEnd"}

\* Types stored beside the NaN bits, and those of values that take all 64 bits
\* and whose type is in the upper bits of the token size.
SmallNumbers == {"Float", "UnsignedInt", "Int"}
WideNumbers == {"Double", "UnsignedLong", "Long"}
NumberTypes == SmallNumbers \cup WideNumbers
TypeBits == {"Object", "Array", "String", "Null", "Bool", "Number"} \cup NumberTypes

(***************************************************************************)
(* bits: what the 64 bits hold; a wide number has no mark of its own and   *)
(* is told by sizeType alone.  data: the child count of a closed object or *)
(* array, the index of the surrounding one while it is open, the index of  *)
(* the copy of a parsed string.  The text of a token is text[first..last]. *)
(***************************************************************************)
Token(bits, key, escaped, data, first) ==
    [bits |-> bits, isParsed |-> FALSE, isKey |-> key, isEscaped |-> escaped,
     data |-> data, sizeType |-> "Other", first |-> first, last |-> first]

IsWide(token) == token.bits \in WideNumbers

IsNumber(token) == IsWide(token) \/ token.bits \in SmallNumbers \cup {"Number"}

ValueType(lexeme) ==
    CASE lexeme \in Strings -> "String"
      [] lexeme \in Nulls -> "Null"
      [] lexeme \in Booleans -> "Bool"
      [] lexeme \in Numbers -> "Number"

Innermost(tks, index) == tks[index].bits

\* What follows a value, depending on what it is in.
AfterValue(tks, index) ==
    CASE index = NoContainer -> "DocumentEnd"
      [] index # NoContainer /\ Innermost(tks, index) = "Object" -> "CommaOrObjectEnd"
      [] OTHER -> "CommaOrArrayEnd"

-----------------------------------------------------------------------------

Reject ==
    /\ status' = "rejected"
    /\ UNCHANGED <<expected, container, tokens, strings>>

Expect(expectation) ==
    /\ expected' = expectation
    /\ UNCHANGED <<status, strings>>

ReadOpener(lexeme) ==
    IF expected \notin {"Value", "ValueOrArrayEnd"} THEN Reject
    ELSE /\ tokens' = Append(tokens, Token(IF lexeme = "{" THEN "Object" ELSE "Array",
                                           FALSE, FALSE, container, Len(text')))
         /\ container' = Len(tokens')
         /\ Expect(IF lexeme = "{" THEN "ObjectKeyOrEnd" ELSE "ValueOrArrayEnd")

\* The link to the surrounding container makes place for the child count.
ReadCloser(lexeme) ==
    IF \/ expected \notin {"ObjectKeyOrEnd", "ValueOrArrayEnd", "CommaOrObjectEnd", "CommaOrArrayEnd"}
       \/ (lexeme = "}") # (Innermost(tokens, container) = "Object")
    THEN Reject
    ELSE /\ tokens' = [tokens EXCEPT ![container].data = Len(tokens) - container,
                                     ![container].last = Len(text')]
         /\ container' = tokens[container].data
         /\ Expect(AfterValue(tokens, container'))

ReadString(lexeme) ==
    LET escaped == lexeme \in {"escaped", "invalid"} IN
    CASE expected \in {"ObjectKey", "ObjectKeyOrEnd"} ->
            /\ tokens' = Append(tokens, Token("String", TRUE, escaped, 0, Len(text')))
            /\ Expect("ObjectKeyColon")
            /\ UNCHANGED container
      [] expected \in {"Value", "ValueOrArrayEnd"} ->
            /\ tokens' = Append(tokens, Token("String", FALSE, escaped, 0, Len(text')))
            /\ Expect(AfterValue(tokens, container))
            /\ UNCHANGED container
      [] OTHER -> Reject

ReadLiteral(lexeme) ==
    IF expected \notin {"Value", "ValueOrArrayEnd"} THEN Reject
    ELSE /\ tokens' = Append(tokens, Token(ValueType(lexeme), FALSE, FALSE, 0, Len(text')))
         /\ Expect(AfterValue(tokens, container))
         /\ UNCHANGED container

ReadColon ==
    IF expected # "ObjectKeyColon" THEN Reject
    ELSE Expect("Value") /\ UNCHANGED <<container, tokens>>

ReadComma_Mutant ==
    IF expected \notin {"CommaOrObjectEnd", "CommaOrArrayEnd"} THEN Reject
    ELSE /\ Expect(IF Innermost(tokens, container) = "Object" THEN "ObjectKeyOrEnd" ELSE "Value")
         /\ UNCHANGED <<container, tokens>>

ReadComma ==
    IF expected \notin {"CommaOrObjectEnd", "CommaOrArrayEnd"} THEN Reject
    ELSE /\ Expect(IF Innermost(tokens, container) = "Object" THEN "ObjectKey" ELSE "Value")
         /\ UNCHANGED <<container, tokens>>

Read(lexeme) ==
    /\ status = "reading"
    /\ text' = Append(text, lexeme)
    /\ CASE lexeme \in Openers -> ReadOpener(lexeme)
         [] lexeme \in Closers -> ReadCloser(lexeme)
         [] lexeme \in Strings -> ReadString(lexeme)
         [] lexeme = ":" -> ReadColon
         [] lexeme = "," -> ReadComma
         [] OTHER -> ReadLiteral(lexeme)

-----------------------------------------------------------------------------

Max1(S) == CHOOSE x \in S : \A y \in S : x >= y

\* Objects and arrays store the number of tokens inside; a key has the value
\* after it and what is inside that.
ChildCount_Mutant(tks, i) ==
    CASE tks[i].bits \in {"Object", "Array"} -> tks[i].data
      [] tks[i].bits = "String" /\ tks[i].isKey ->
            1 + (IF tks[i + 1].bits = "Object" THEN tks[i + 1].data ELSE 0)
      [] OTHER -> 0

ChildCount(tks, i) ==
    CASE tks[i].bits \in {"Object", "Array"} -> tks[i].data
      [] tks[i].bits = "String" /\ tks[i].isKey ->
            1 + (IF tks[i + 1].bits \in {"Object", "Array"} THEN tks[i + 1].data ELSE 0)
      [] OTHER -> 0

\* The last token before i that spans over it, or NoContainer.
Parent(tks, i) == Max1({NoContainer} \cup {p \in 1 .. i - 1 : p + ChildCount(tks, p) >= i})

\* The direct children of token i, each found by skipping what is inside the one before.
Children(tks, i) ==
    LET end == i + ChildCount(tks, i)
        From[j \in i + 1 .. end + 1] ==
            IF j = end + 1 THEN <<>> ELSE <<j>> \o From[j + 1 + ChildCount(tks, j)]
    IN From[i + 1]

IsParsed(token) == IsWide(token) \/ token.isParsed

ParsedType(token) ==
    CASE IsWide(token) -> token.sizeType
      [] ~IsWide(token) /\ ~token.isParsed -> "None"
      [] ~IsWide(token) /\ token.isParsed /\ token.bits \in SmallNumbers -> token.bits
      [] OTHER -> "Other"

Kind(token) == IF IsNumber(token) THEN "Number" ELSE token.bits
KindOf(type) == IF type \in NumberTypes THEN "Number" ELSE type

-----------------------------------------------------------------------------

(***************************************************************************)
(* The parsing functions, from [ok, tokens, strings] to the same.  They    *)
(* stop at the first failure and keep what they have changed until then.   *)
(***************************************************************************)
Unparsed == [ok |-> TRUE, tokens |-> tokens, strings |-> strings]

Failed(r) == [r EXCEPT !.ok = FALSE]

TextOf(r, i) == text[r.tokens[i].first]

\* Conversions with the limits of the types; integers are exact to 52 bits.
Represents(type, lexeme) ==
    CASE type \in {"Double", "Float"} -> lexeme # "digits"
      [] type = "UnsignedInt" -> lexeme = "small"
      [] type = "Int" -> lexeme \in {"small", "negative"}
      [] type = "UnsignedLong" -> lexeme \in {"small", "large"}
      [] type = "Long" -> lexeme \in {"small", "negative", "large"}

ParseObjectArrayInternal(r, i) == [r EXCEPT !.tokens[i].isParsed = TRUE]

ParseLiteralInternal(r, i) ==
    IF TextOf(r, i) \in {"null", "true"} THEN [r EXCEPT !.tokens[i].isParsed = TRUE] ELSE Failed(r)

ParseWideInternal_Mutant(r, type, i) ==
    IF r.tokens[i].sizeType = type THEN r
    ELSE [r EXCEPT !.tokens[i].bits = type,
                   !.tokens[i].isParsed = FALSE,
                   !.tokens[i].sizeType = type,
                   !.ok = Represents(type, TextOf(r, i))]

\* 64-bit values take over the whole token and are marked in its size only.
ParseWideInternal(r, type, i) ==
    CASE r.tokens[i].sizeType = type -> r
      [] r.tokens[i].sizeType # type /\ ~Represents(type, TextOf(r, i)) -> Failed(r)
      [] OTHER -> [r EXCEPT !.tokens[i].bits = type,
                            !.tokens[i].isParsed = FALSE,
                            !.tokens[i].sizeType = type]

\* 32-bit values bring the type back into the token.
ParseSmallInternal(r, type, i) ==
    CASE r.tokens[i].bits = type -> r
      [] r.tokens[i].bits # type /\ ~Represents(type, TextOf(r, i)) -> Failed(r)
      [] OTHER -> [r EXCEPT !.tokens[i].bits = type,
                            !.tokens[i].isParsed = TRUE,
                            !.tokens[i].sizeType = "Other"]

\* The copy is made before the escapes are checked, and kept if they are wrong.
ParseStringInternal_Mutant(r, i) ==
    CASE r.tokens[i].isParsed -> r
      [] ~r.tokens[i].isParsed /\ ~r.tokens[i].isEscaped -> [r EXCEPT !.tokens[i].isParsed = TRUE]
      [] OTHER ->
            IF TextOf(r, i) = "invalid"
            THEN Failed([r EXCEPT !.strings = Append(@, NoText)])
            ELSE LET IsCopy(t) == t # NoText
                 IN [r EXCEPT !.strings = Append(@, r.tokens[i].first),
                              !.tokens[i].isParsed = TRUE,
                              !.tokens[i].data = Len(SelectSeq(r.strings, IsCopy)) + 1]

ParseStringInternal(r, i) ==
    CASE r.tokens[i].isParsed -> r
      [] ~r.tokens[i].isParsed /\ ~r.tokens[i].isEscaped -> [r EXCEPT !.tokens[i].isParsed = TRUE]
      [] OTHER ->
            IF TextOf(r, i) = "invalid"
            THEN Failed([r EXCEPT !.strings = Append(@, NoText)])
            ELSE [r EXCEPT !.strings = Append(@, r.tokens[i].first),
                           !.tokens[i].isParsed = TRUE,
                           !.tokens[i].data = Len(r.strings) + 1]

ParseInternal(r, type, i) ==
    CASE type \in WideNumbers -> ParseWideInternal(r, type, i)
      [] type \in SmallNumbers -> ParseSmallInternal(r, type, i)
      [] type = "String" -> ParseStringInternal(r, i)
      [] type \in {"Null", "Bool"} -> ParseLiteralInternal(r, i)

\* A token of another type is an error and stays as it is.
Parse(r, type, i) ==
    IF Kind(r.tokens[i]) # KindOf(type) THEN Failed(r) ELSE ParseInternal(r, type, i)

Sequentially(r, indices, Op(_, _)) ==
    LET Step(q, i) == IF q.ok THEN Op(q, i) ELSE q IN FoldLeft(Step, r, indices)

Subtree(tks, i) == [k \in 1 .. 1 + ChildCount(tks, i) |-> i + k - 1]

ParseLiterals(r, i) ==
    LET One(q, j) == CASE q.tokens[j].bits \in {"Object", "Array"} -> ParseObjectArrayInternal(q, j)
                       [] q.tokens[j].bits \in {"Null", "Bool"} -> ParseLiteralInternal(q, j)
                       [] OTHER -> q
    IN Sequentially(r, Subtree(r.tokens, i), One)

ParseNumbers(r, type, i) ==
    LET One(q, j) == IF IsNumber(q.tokens[j]) THEN ParseInternal(q, type, j) ELSE q
    IN Sequentially(r, Subtree(r.tokens, i), One)

ParseStrings(r, keysOnly, i) ==
    LET One(q, j) == IF q.tokens[j].bits = "String" /\ (keysOnly => q.tokens[j].isKey)
                     THEN ParseStringInternal(q, j) ELSE q
    IN Sequentially(r, Subtree(r.tokens, i), One)

\* The object counts as parsed even if one of its keys turns out not to be.
ParseObject(r, i) ==
    IF r.tokens[i].bits # "Object" THEN Failed(r)
    ELSE Sequentially(ParseObjectArrayInternal(r, i), Children(r.tokens, i), ParseStringInternal)

ParseArray(r, i) ==
    IF r.tokens[i].bits # "Array" THEN Failed(r) ELSE ParseObjectArrayInternal(r, i)

\* The items are taken one after the other, which is right for an array of values;
\* anything nested fails the check of the type before it could be skipped.
ParseArrayOf_Mutant(r, type, i) ==
    IF r.tokens[i].bits # "Array" THEN Failed(r)
    ELSE LET One(q, j) == IF Kind(q.tokens[j]) = KindOf(type) THEN ParseInternal(q, type, j) ELSE q
         IN Sequentially(ParseObjectArrayInternal(r, i),
                         [k \in 1 .. r.tokens[i].data |-> i + k], One)

ParseArrayOf(r, type, i) ==
    IF r.tokens[i].bits # "Array" THEN Failed(r)
    ELSE LET One(q, j) == Parse(q, type, j)
         IN Sequentially(ParseObjectArrayInternal(r, i),
                         [k \in 1 .. r.tokens[i].data |-> i + k], One)

\* tokenize() with options; doubles and all strings take precedence.
ParseOptions(options) ==
    LET Wanted(what) == /\ what \in options
                        /\ what = "ParseFloats" => "ParseDoubles" \notin options
                        /\ what = "ParseStringKeys" => "ParseStrings" \notin options
        Root(r, what) ==
            IF ~Wanted(what) THEN r
            ELSE CASE what = "ParseLiterals" -> ParseLiterals(r, 1)
                   [] what = "ParseDoubles" -> ParseNumbers(r, "Double", 1)
                   [] what = "ParseFloats" -> ParseNumbers(r, "Float", 1)
                   [] what = "ParseStrings" -> ParseStrings(r, FALSE, 1)
                   [] what = "ParseStringKeys" -> ParseStrings(r, TRUE, 1)
    IN Sequentially(Unparsed,
                    <<"ParseLiterals", "ParseDoubles", "ParseFloats",
                      "ParseStrings", "ParseStringKeys">>, Root)

-----------------------------------------------------------------------------

EndOfText(options) ==
    /\ status = "reading"
    /\ LET complete == expected = "DocumentEnd" /\ container = NoContainer
           parsed == IF complete THEN ParseOptions(options) ELSE Unparsed
       IN /\ status' = IF ~complete THEN "too short" ELSE IF parsed.ok THEN "tokenized" ELSE "unparsed"
          /\ tokens' = parsed.tokens
          /\ strings' = parsed.strings
    /\ UNCHANGED <<text, expected, container>>

Call(r) ==
    /\ status = "tokenized"
    /\ Len(r.strings) <= MaxStrings
    /\ tokens' = r.tokens
    /\ strings' = r.strings
    /\ UNCHANGED <<status, text, expected, container>>

CallParse(type, i) == Call(Parse(Unparsed, type, i))
CallParseArrayOf(type, i) == Call(ParseArrayOf(Unparsed, type, i))
CallParseObject(i) == Call(ParseObject(Unparsed, i))
CallParseArray(i) == Call(ParseArray(Unparsed, i))
CallParseLiterals(i) == Call(ParseLiterals(Unparsed, i))
CallParseNumbers(type, i) == Call(ParseNumbers(Unparsed, type, i))
CallParseStrings(keysOnly, i) == Call(ParseStrings(Unparsed, keysOnly, i))

JsonInit ==
    /\ status = "reading"
    /\ text = <<>>
    /\ expected = "Value"
    /\ container = NoContainer
    /\ tokens = <<>>
    /\ strings = <<>>

ReadNext ==
    \/ Len(text) < MaxText /\ \E lexeme \in Inputs : Read(lexeme)
    \/ \E options \in OptionSets : EndOfText(options)

ValueTypes == NumberTypes \cup {"Null", "Bool", "String"}

ParseNext ==
    \E i \in DOMAIN tokens :
        \/ \E type \in ValueTypes : CallParse(type, i) \/ CallParseArrayOf(type, i)
        \/ CallParseObject(i) \/ CallParseArray(i) \/ CallParseLiterals(i)
        \/ \E type \in NumberTypes : CallParseNumbers(type, i)
        \/ \E keysOnly \in BOOLEAN : CallParseStrings(keysOnly, i)

JsonNext == ReadNext \/ ParseNext

JsonSpec == JsonInit /\ [][JsonNext]_jsonVars

-----------------------------------------------------------------------------

JsonTypeOK ==
    /\ status \in {"reading", "rejected", "too short", "unparsed", "tokenized"}
    /\ expected \in Expectations
    /\ container \in 0 .. Len(tokens)
    /\ \A i \in DOMAIN tokens :
            /\ tokens[i].bits \in TypeBits
            /\ tokens[i].sizeType \in WideNumbers \cup {"Other"}
            /\ tokens[i].first \in DOMAIN text /\ tokens[i].last \in DOMAIN text
    /\ \A i \in DOMAIN strings : strings[i] \in {NoText} \cup DOMAIN text

(***************************************************************************)
(* tokenize() accepts the JSON texts and no others, and gives up at the    *)
(* first lexeme after which no continuation could be one.                  *)
(***************************************************************************)
AcceptsJson ==
    /\ status = "reading" => IsJsonPrefix(text)
    /\ status = "rejected" => ~IsJsonPrefix(text)
    /\ status = "too short" => ~IsJson(text)
    /\ status \in {"tokenized", "unparsed"} => IsJson(text)

Spans(t, u) == t.first < u.first /\ u.last <= t.last

\* The type bits in the size of a token tell a wide number exactly when the 64
\* bits of the token hold one: nothing else separates a double from the bits of
\* a type (JsonToken::type(), parsedType(), the as*() functions).
SizeTypeExact ==
    \A i \in DOMAIN tokens :
        tokens[i].sizeType = IF IsWide(tokens[i]) THEN tokens[i].bits ELSE "Other"

(***************************************************************************)
(* The child counts, kept in place of the links that tokenize() follows,   *)
(* and the walk back of parent() agree with where the tokens are in the    *)
(* text, also after parsing has put values in the place of type bits, and  *)
(* those bits tell numbers from nodes after parsing as any types in any    *)
(* order (childCount(), parent(), type()).                                 *)
(***************************************************************************)
TreeExact ==
    /\ SizeTypeExact
    /\ status = "tokenized" =>
        \A i \in DOMAIN tokens :
            LET around == {p \in DOMAIN tokens : Spans(tokens[p], tokens[i])}
                Inside(t) == Cardinality({j \in DOMAIN tokens : Spans(t, tokens[j])})
            IN /\ Parent(tokens, i) = IF i > 1 /\ tokens[i - 1].isKey THEN i - 1
                                      ELSE Max1({NoContainer} \cup around)
               /\ ChildCount(tokens, i) = IF tokens[i].isKey THEN 1 + Inside(tokens[i + 1])
                                          ELSE Inside(tokens[i])

(***************************************************************************)
(* A parsed string with escapes refers to its own copy, whatever failed    *)
(* parses have left in the array in between (parseStringInternal()).       *)
(***************************************************************************)
StringsOwned ==
    \A i \in DOMAIN tokens :
        tokens[i].bits = "String" /\ tokens[i].isEscaped /\ tokens[i].isParsed =>
            /\ tokens[i].data \in DOMAIN strings
            /\ strings[tokens[i].data] = tokens[i].first

(***************************************************************************)
(* When a call that returns a view of an array succeeds, every item inside *)
(* is a value parsed as that type, directly in the array: the view is read *)
(* with a fixed stride and no further check (parse*Array()).               *)
(***************************************************************************)
ArrayViewsTyped ==
    status = "tokenized" =>
        \A i \in DOMAIN tokens, type \in ValueTypes \ {"Null"} :
            LET r == ParseArrayOf(Unparsed, type, i)
            IN r.ok => \A j \in i + 1 .. i + r.tokens[i].data :
                            /\ Parent(r.tokens, j) = i
                            /\ IsParsed(r.tokens[j])
                            /\ IF type \in NumberTypes THEN ParsedType(r.tokens[j]) = type
                               ELSE r.tokens[j].bits = type

(***************************************************************************)
(* Calls that fail half way or ask for another type never lose a value     *)
(* parsed before: a parsed token stays parsed, and a number changes its    *)
(* type only to one that can represent it ("avoid a failure corrupting the *)
(* existing value", Json.cpp:862).                                         *)
(***************************************************************************)
StaysParsed ==
    [][\A i \in DOMAIN tokens : IsParsed(tokens[i]) =>
            /\ IsParsed(tokens'[i])
            /\ ParsedType(tokens'[i]) # "Other" =>
                    Represents(ParsedType(tokens'[i]), text[tokens[i].first])]_jsonVars
=============================================================================
