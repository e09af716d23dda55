----------------------------- MODULE Arguments -----------------------------
(***************************************************************************)
(* Utility::Arguments: tryParse() of one or more parsers, called one after *)
(* the other.  A parser goes over the elements of the command line; what   *)
(* an element is read as depends on locals of the loop: an option that     *)
(* waits for its value, an offset into a pack of short options or behind   *)
(* an equals sign.  An error ends the call unless the application's        *)
(* callback takes it.                                                      *)
(***************************************************************************)
EXTENDS Integers, SequencesExt

CONSTANT Programs   \* applications: [parsers, calls, environment, ignored, moved]

\* parsers: a sequence of [prefix, entries, skippedPrefixes, ignoreUnknown, finalOptional].
\*   entries: a sequence of [type, shortKey, key, default, environment], "" for none; prefixes
\*   end with a dash; finalOptional: the index of an entry or 0.
\* calls: a sequence of [parser, argv], without the command name.
\* environment: a function from names of variables to their values.
\* ignored: the errors the callback returns true for.
\* moved: parsers that were moved from where they were declared.

VARIABLES
    program,
    call,       \* index of the call of tryParse()
    stage,      \* where it is
    i,          \* the element to be read
    locals,     \* [valueFor, optionsAllowed, packOffset, valueOffset, parsed, words]
    values,     \* of the entries of the parser
    isParsed,   \* the Parsed flag of each parser
    passed,     \* history: elements passed over because of a skipped prefix
    taken,      \* history: elements read as an option or the value of one
    outcomes    \* history: the calls that returned

parseVars == <<program, call, stage, i, locals, values, isParsed, passed, taken, outcomes>>

Stages == {"idle", "scan", "assign", "check", "aborted", "undefined"}

parser == program.parsers[program.calls[call].parser]
argv == program.calls[call].argv
entries == parser.entries

ValueTypes == {"NamedArgument", "Option", "ArrayOption"}
Positional == {"Argument", "ArrayArgument"}
ArrayTypes == {"ArrayArgument", "ArrayOption"}

-----------------------------------------------------------------------------
\* Texts and keys.

Char(text, k) == SubSeq(text, k, k)

\* What a pointer into the text moved on by an offset points to.
From(text, offset) == SubSeq(text, offset + 1, Len(text))

HasPrefix(text, prefix) == Len(prefix) <= Len(text) /\ SubSeq(text, 1, Len(prefix)) = prefix

\* Characters no key has, of those that occur.
Disallowed == {"?", "!", "=", "_", ".", ",", "/", " "}

ValidKey(key) == Len(key) > 1 /\ \A k \in 1 .. Len(key) : Char(key, k) \notin Disallowed

\* The end of a text counts as a key, which is that of the entries without a short one.
ValidShortKey(key) == key \notin Disallowed \cup {"-"}

FindKey(p, key) == SelectInSeq(p.entries, LAMBDA e : e.key = key)
FindShortKey(p, key) == SelectInSeq(p.entries, LAMBDA e : e.shortKey = key)

\* The position of the equals sign of a long option, 0 if it has none.
Equals(text) == Min({k \in 1 .. Len(text) : Char(text, k) = "="} \cup {Len(text) + 1}) % (Len(text) + 1)

Key(text) == SubSeq(text, 3, IF Equals(text) = 0 THEN Len(text) ELSE Equals(text) - 1)

\* The prefix is kept in the key; --prefix-help takes no value.
HasSkippedPrefix(p, key) == \E prefix \in p.skippedPrefixes : HasPrefix(key, prefix)
SkippedHelp(p, key) == \E prefix \in p.skippedPrefixes : key = prefix \o "help"

IsOwn(p, key) == p.prefix = "" \/ HasPrefix(key, p.prefix)

-----------------------------------------------------------------------------
\* The call begins and ends.

IsMoved == program.calls[call].parser \in program.moved

\* The move constructor leaves the array values and the index of the final
\* optional argument behind.
HasArrays == \E e \in DOMAIN entries : entries[e].type \in ArrayTypes
FinalOptional == IF IsMoved THEN 0 ELSE parser.finalOptional

Fresh == [valueFor |-> 0, optionsAllowed |-> TRUE, packOffset |-> 0, valueOffset |-> 0,
          parsed |-> {}, words |-> <<>>]

\* The value before the command line is read: the default, or the environment's.
Initially(p, environment, e) ==
    LET entry == p.entries[e]
        given == entry.environment \in DOMAIN environment
    IN CASE entry.type \in ArrayTypes -> <<>>
         [] entry.type = "BooleanOption" -> given /\ environment[entry.environment] \in {"ON", "on", "On", "oN"}
         [] OTHER -> IF given THEN environment[entry.environment] ELSE entry.default

Begin ==
    /\ stage = "idle"
    /\ call < Len(program.calls)
    /\ UNCHANGED <<program, isParsed, outcomes>>
    /\ call' = call + 1
    /\ i' = 1
    /\ locals' = Fresh
    /\ passed' = {}
    /\ taken' = {}
    /\ IF IsMoved' /\ HasArrays' THEN stage' = "aborted" /\ UNCHANGED values
       ELSE /\ stage' = "scan"
            /\ values' = [e \in DOMAIN entries' |-> Initially(parser', program.environment, e)]

Outcome(success, vs) ==
    [parser |-> program.calls[call].parser, argv |-> argv, success |-> success, values |-> vs,
     passed |-> passed, taken |-> taken]

ReturnWith(success, vs) ==
    /\ stage' = "idle"
    /\ outcomes' = Append(outcomes, Outcome(success, vs))
    /\ UNCHANGED <<program, call, i, locals, passed, taken>>

\* An assertion fails.
Abort ==
    /\ stage' = "aborted"
    /\ UNCHANGED <<program, call, i, locals, values, isParsed, passed, taken, outcomes>>

-----------------------------------------------------------------------------
\* One iteration of the loop.

OffsetsSound == locals.packOffset = 0 \/ locals.valueOffset = 0

Scanning == stage = "scan" /\ i <= Len(argv) /\ OffsetsSound

Element == argv[i]
Advance == i' = i + 1

\* The element or what is left of it is read no further.
PassOver ==
    /\ Advance
    /\ UNCHANGED <<program, call, stage, locals, values, isParsed, passed, taken, outcomes>>

\* A parse error, with the locals as they are by then.
Fail(error, reading) ==
    \/ /\ error \in program.ignored
       /\ Advance
       /\ locals' = reading
       /\ UNCHANGED <<program, call, stage, values, isParsed, passed, taken, outcomes>>
    \/ /\ error \notin program.ignored
       /\ ReturnWith(FALSE, values)
       /\ UNCHANGED <<values, isParsed>>

\* The value eats everything until the end of the element.
ValueRead(reading) ==
    [reading EXCEPT !.valueFor = 0, !.packOffset = 0, !.valueOffset = 0, !.parsed = @ \cup {reading.valueFor}]

ReadValue ==
    /\ Scanning
    /\ locals.valueFor # 0
    /\ LET offset == locals.packOffset + locals.valueOffset
           text == From(Element, offset)
       IN /\ offset <= Len(Element)
          /\ values' = [values EXCEPT ![locals.valueFor] =
                IF entries[locals.valueFor].type = "ArrayOption" THEN Append(@, text) ELSE text]
    /\ locals' = ValueRead(locals)
    /\ taken' = taken \cup {i}
    /\ Advance
    /\ UNCHANGED <<program, call, stage, isParsed, passed, outcomes>>

LooksLikeOption(text) == Len(text) > 1 /\ Char(text, 1) = "-"
IsShort(text) == LooksLikeOption(text) /\ Char(text, 2) # "-"

AtOption ==
    /\ Scanning
    /\ locals.valueFor = 0
    /\ locals.optionsAllowed
    /\ LooksLikeOption(Element)

\* An option was found: on to the rest of its pack, to its value behind the
\* equals sign or to the next element.
Take(found, reading) ==
    LET stays == reading.packOffset # 0 /\ reading.packOffset + 1 # Len(Element)
        next == [reading EXCEPT !.packOffset = IF stays THEN @ + 1 ELSE 0]
        Proceed == /\ i' = i + 1 - (IF stays THEN 1 ELSE 0) - (IF reading.valueOffset # 0 THEN 1 ELSE 0)
                   /\ taken' = taken \cup {i}
                   /\ UNCHANGED <<program, call, stage, isParsed, passed, outcomes>>
        type == entries[found].type
    IN \/ type = "BooleanOption" /\ reading.valueOffset # 0 /\ Fail("InvalidBooleanOption", reading)
       \/ /\ type = "BooleanOption"
          /\ reading.valueOffset = 0
          /\ values' = [values EXCEPT ![found] = TRUE]
          /\ locals' = [next EXCEPT !.parsed = @ \cup {found}]
          /\ Proceed
       \/ type \in Positional /\ Fail("PositionalArgumentAsNamed", reading)
       \/ /\ type \in ValueTypes
          /\ locals' = [next EXCEPT !.valueFor = found]
          /\ Proceed
          /\ UNCHANGED values

PackOffset == IF locals.packOffset = 0 THEN 1 ELSE locals.packOffset

\* A short option, the first of its element or the next one of a pack.
ShortOption ==
    /\ AtOption
    /\ IsShort(Element)
    /\ IF parser.prefix # "" THEN PassOver
       ELSE LET opened == [locals EXCEPT !.packOffset = PackOffset]
                key == Char(Element, PackOffset + 1)
                found == FindShortKey(parser, key)
            IN /\ PackOffset <= Len(Element)
               /\ \/ ~ValidShortKey(key) /\ Fail("InvalidShortArgument", opened)
                  \/ /\ ValidShortKey(key)
                     /\ found = 0
                     /\ Fail(IF Len(Element) > 2 THEN "InvalidShortArgument" ELSE "UnknownShortArgument", opened)
                  \/ ValidShortKey(key) /\ found # 0 /\ Take(found, opened)

Separator ==
    /\ AtOption
    /\ Element = "--"
    /\ locals' = [locals EXCEPT !.optionsAllowed = FALSE]
    /\ Advance
    /\ UNCHANGED <<program, call, stage, values, isParsed, passed, taken, outcomes>>

\* Mutant: the value is passed over also when it is behind an equals sign.
SkippedElements_Mutant(p, text) == IF SkippedHelp(p, Key(text)) THEN 1 ELSE 2

\* A skipped option and its value.
SkippedElements(p, text) == IF Equals(text) = 0 /\ ~SkippedHelp(p, Key(text)) THEN 2 ELSE 1

SkipOption(text) ==
    /\ i' = i + SkippedElements(parser, text)
    /\ passed' = passed \cup ((i .. i' - 1) \cap DOMAIN argv)
    /\ UNCHANGED <<program, call, stage, locals, values, isParsed, taken, outcomes>>

\* An option with the own prefix, or one without in the unprefixed version.
OwnOption(text) ==
    LET found == FindKey(parser, Key(text)) IN
    \/ ~ValidKey(Key(text)) /\ Fail("InvalidArgument", locals)
    \/ /\ ValidKey(Key(text))
       /\ found = 0
       /\ IF parser.ignoreUnknown THEN PassOver ELSE Fail("UnknownArgument", locals)
    \/ /\ ValidKey(Key(text))
       /\ found # 0
       /\ IF Equals(text) # 0 /\ locals.valueOffset # 0 THEN Abort
          ELSE Take(found, IF Equals(text) = 0 THEN locals ELSE [locals EXCEPT !.valueOffset = Equals(text)])

LongOption ==
    /\ AtOption
    /\ ~IsShort(Element)
    /\ Element # "--"
    /\ \/ ~IsOwn(parser, Key(Element)) /\ PassOver
       \/ /\ IsOwn(parser, Key(Element))
          /\ IF HasSkippedPrefix(parser, Key(Element)) THEN SkipOption(Element) ELSE OwnOption(Element)

\* No option: kept for the positional arguments.
Word ==
    /\ Scanning
    /\ locals.valueFor = 0
    /\ ~(locals.optionsAllowed /\ LooksLikeOption(Element))
    /\ locals' = IF parser.prefix # "" THEN locals ELSE [locals EXCEPT !.words = Append(@, Element)]
    /\ Advance
    /\ UNCHANGED <<program, call, stage, values, isParsed, passed, taken, outcomes>>

\* Left-over offsets meet an assertion, or point behind the end of an element.
OffsetsLeft ==
    /\ stage = "scan"
    /\ \/ i <= Len(argv) /\ ~OffsetsSound /\ Abort
       \/ i > Len(argv) /\ (locals.packOffset # 0 \/ locals.valueOffset # 0) /\ Abort
       \/ /\ Scanning
          /\ \/ locals.valueFor # 0 /\ locals.packOffset + locals.valueOffset > Len(Element)
             \/ AtOption /\ IsShort(Element) /\ parser.prefix = "" /\ PackOffset > Len(Element)
          /\ stage' = "undefined"
          /\ UNCHANGED <<program, call, i, locals, values, isParsed, passed, taken, outcomes>>

-----------------------------------------------------------------------------
\* After the loop.

EndScan ==
    /\ stage = "scan"
    /\ i > Len(argv)
    /\ locals.packOffset = 0 /\ locals.valueOffset = 0
    /\ IF locals.valueFor # 0 /\ "MissingValue" \notin program.ignored
       THEN ReturnWith(FALSE, values)
       ELSE stage' = "assign" /\ UNCHANGED <<program, call, i, locals, passed, taken, outcomes>>
    /\ UNCHANGED <<values, isParsed>>

OfType(types) == {e \in DOMAIN entries : entries[e].type \in types}

\* Mutant: as many words for the array as there are.
ArrayCount_Mutant == Max({1, Len(locals.words)})

\* At least one, in place of an empty array.
ArrayCount == Max({1, Len(locals.words) - Cardinality(OfType({"Argument"}))})

\* The entries the words go to, one after the other.
Slots ==
    LET Before(e, f) == e < f
        Places(slots, e) == slots \o [k \in 1 .. (IF entries[e].type = "ArrayArgument" THEN ArrayCount ELSE 1) |-> e]
    IN FoldLeft(Places, <<>>, SetToSortSeq(OfType(Positional), Before))

WordsOf(e, slots) ==
    LET word(k) == locals.words[k]
        Indices == SelectSeq([k \in 1 .. Min({Len(slots), Len(locals.words)}) |-> k], LAMBDA k : slots[k] = e)
    IN [n \in DOMAIN Indices |-> word(Indices[n])]

AssignWords ==
    /\ stage = "assign"
    /\ LET slots == Slots
           Assigned(e) == CASE WordsOf(e, slots) = <<>> -> values[e]
                            [] entries[e].type = "ArrayArgument" -> WordsOf(e, slots)
                            [] OTHER -> WordsOf(e, slots)[1]
           assigned == [e \in DOMAIN values |-> IF entries[e].type \in Positional THEN Assigned(e) ELSE values[e]]
       IN /\ values' = assigned
          /\ IF Len(locals.words) > Len(slots) /\ "SuperfluousArgument" \notin program.ignored
             THEN ReturnWith(FALSE, assigned)
             ELSE /\ stage' = "check"
                  /\ locals' = [locals EXCEPT !.parsed = @ \cup {slots[k] : k \in DOMAIN slots \cap DOMAIN locals.words}]
                  /\ UNCHANGED <<program, call, i, passed, taken, outcomes>>
    /\ UNCHANGED isParsed

Missing == OfType(Positional \cup {"NamedArgument"}) \ (locals.parsed \cup {FinalOptional})

\* The only way a call comes to the flag.
CheckMissing ==
    /\ stage = "check"
    /\ LET success == Missing = {} \/ "MissingArgument" \in program.ignored IN
        /\ isParsed' = [isParsed EXCEPT ![program.calls[call].parser] = success]
        /\ ReturnWith(success, values)
    /\ UNCHANGED values

-----------------------------------------------------------------------------

ParseInit ==
    /\ program \in Programs
    /\ call = 0
    /\ stage = "idle"
    /\ i = 1
    /\ locals = Fresh
    /\ values = <<>>
    /\ isParsed = [p \in DOMAIN program.parsers |-> FALSE]
    /\ passed = {}
    /\ taken = {}
    /\ outcomes = <<>>

ParseNext ==
    \/ Begin
    \/ ReadValue
    \/ ShortOption
    \/ Separator
    \/ LongOption
    \/ Word
    \/ OffsetsLeft
    \/ EndScan
    \/ AssignWords
    \/ CheckMissing

ParseSpec == ParseInit /\ [][ParseNext]_parseVars

-----------------------------------------------------------------------------
\* What a command line means, element by element.

IsFlag(p, c) == \E e \in DOMAIN p.entries : p.entries[e].type = "BooleanOption" /\ p.entries[e].shortKey = c

\* The first character of a pack that is no boolean option.
FlagsEnd(p, text) == Min({k \in 2 .. Len(text) : ~IsFlag(p, Char(text, k))} \cup {Len(text) + 1})

IsForeign(p, text) == ~IsShort(text) /\ IsOwn(p, Key(text)) /\ HasSkippedPrefix(p, Key(text))

\* The entry an element names last, 0 if none.
Named(p, text) ==
    IF IsShort(text)
    THEN IF p.prefix # "" \/ FlagsEnd(p, text) > Len(text) THEN 0
         ELSE FindShortKey(p, Char(text, FlagsEnd(p, text)))
    ELSE IF ~IsOwn(p, Key(text)) \/ IsForeign(p, text) THEN 0 ELSE FindKey(p, Key(text))

NamesType(p, text, types) == Named(p, text) # 0 /\ p.entries[Named(p, text)].type \in types

\* A value within the element follows the key or the equals sign.
ValueStart(p, text) == IF IsShort(text) THEN FlagsEnd(p, text) ELSE Equals(text)
HasValue(p, text) == IF IsShort(text) THEN FlagsEnd(p, text) < Len(text) ELSE Equals(text) # 0

WantsNext(p, text) ==
    \/ NamesType(p, text, ValueTypes) /\ ~HasValue(p, text)
    \/ IsForeign(p, text) /\ Equals(text) = 0 /\ ~SkippedHelp(p, Key(text))

FlagsOf(p, text) ==
    IF IsShort(text)
    THEN IF p.prefix # "" THEN {}
         ELSE {FindShortKey(p, Char(text, k)) : k \in 2 .. (FlagsEnd(p, text) - 1)}
    ELSE IF NamesType(p, text, {"BooleanOption"}) /\ Equals(text) = 0 THEN {Named(p, text)} ELSE {}

\* Every element by what the ones before make of it.
Roles(p, line) ==
    LET role[k \in DOMAIN line] ==
            CASE k > 1 /\ role[k - 1] = "option" /\ WantsNext(p, line[k - 1]) -> "value"
              [] \E j \in 1 .. (k - 1) : role[j] = "separator" -> "word"
              [] line[k] = "--" -> "separator"
              [] LooksLikeOption(line[k]) -> "option"
              [] OTHER -> "word"
    IN role

Having(role, p, line) ==
    LET Roles_ == Roles(p, line) IN
    SelectSeq([k \in DOMAIN line |-> k], LAMBDA k : Roles_[k] = role)

Words(p, line) == LET ks == Having("word", p, line) IN [n \in DOMAIN ks |-> line[ks[n]]]

ShortErrors(p, text) ==
    LET c == Char(text, FlagsEnd(p, text)) IN
    IF p.prefix # "" \/ FlagsEnd(p, text) > Len(text) \/ NamesType(p, text, ValueTypes) THEN {}
    ELSE IF c \in Disallowed \cup {"-"} \/ Len(text) > 2 THEN {"InvalidShortArgument"}
    ELSE {"UnknownShortArgument"}

LongErrors(p, text) ==
    IF ~IsOwn(p, Key(text)) \/ IsForeign(p, text) THEN {}
    ELSE IF ~ValidKey(Key(text)) THEN {"InvalidArgument"}
    ELSE IF Named(p, text) = 0 THEN IF p.ignoreUnknown THEN {} ELSE {"UnknownArgument"}
    ELSE {error \in {"PositionalArgumentAsNamed"} : NamesType(p, text, Positional)}
         \cup {error \in {"InvalidBooleanOption"} : NamesType(p, text, {"BooleanOption"}) /\ Equals(text) # 0}

PositionalOf(p) == SelectSeq([e \in DOMAIN p.entries |-> e], LAMBDA e : p.entries[e].type \in Positional)

ArrayPlace(p) == SelectInSeq(PositionalOf(p), LAMBDA e : p.entries[e].type = "ArrayArgument")

\* The values an element or the one after gives to an entry, in their order.
Said(p, line, e) ==
    LET Value(k) == IF HasValue(p, line[k])
                    THEN SubSeq(line[k], ValueStart(p, line[k]) + 1, Len(line[k]))
                    ELSE line[k + 1]
        Gives(k) == /\ Named(p, line[k]) = e
                    /\ HasValue(p, line[k]) \/ k < Len(line)
        ks == SelectSeq(Having("option", p, line), Gives)
    IN [n \in DOMAIN ks |-> Value(ks[n])]

\* The words of the n-th positional argument: an array takes what the others
\* before and after leave, but one word at least.
WordsAt(p, line, n) ==
    LET words == Words(p, line)
        array == ArrayPlace(p)
        more == IF array = 0 THEN 0 ELSE Max({0, Len(words) - Len(PositionalOf(p))})
        first == IF array # 0 /\ n > array THEN n + more ELSE n
        last == IF n = array THEN n + more ELSE first
    IN SubSeq(words, first, Min({last, Len(words)}))

Mandatory(p, e) == p.entries[e].type \in Positional \cup {"NamedArgument"} /\ e # p.finalOptional

IsGiven(p, line, e) ==
    IF p.entries[e].type \in Positional
    THEN \E n \in DOMAIN PositionalOf(p) : PositionalOf(p)[n] = e /\ WordsAt(p, line, n) # <<>>
    ELSE Said(p, line, e) # <<>>

Errors(p, line) ==
    LET ks == Range(Having("option", p, line)) IN
    UNION {IF IsShort(line[k]) THEN ShortErrors(p, line[k]) ELSE LongErrors(p, line[k]) : k \in ks}
    \cup {error \in {"MissingValue"} :
            \E k \in ks \cap {Len(line)} : NamesType(p, line[k], ValueTypes) /\ ~HasValue(p, line[k])}
    \cup {error \in {"SuperfluousArgument"} :
            /\ p.prefix = "" /\ ArrayPlace(p) = 0
            /\ Len(Words(p, line)) > Len(PositionalOf(p))}
    \cup {error \in {"MissingArgument"} :
            \E e \in DOMAIN p.entries : Mandatory(p, e) /\ ~IsGiven(p, line, e)}

\* The value of an entry.
Meaning(p, environment, line, e) ==
    LET type == p.entries[e].type
        said == Said(p, line, e)
        flags == UNION {FlagsOf(p, line[k]) : k \in Range(Having("option", p, line))}
        words == UNION {{WordsAt(p, line, n)} : n \in {m \in DOMAIN PositionalOf(p) : PositionalOf(p)[m] = e}}
    IN CASE type = "BooleanOption" -> Initially(p, environment, e) \/ e \in flags
         [] type = "ArrayOption" -> said
         [] type = "ArrayArgument" -> CHOOSE w \in words : TRUE
         [] OTHER -> LET given == IF type = "Argument" THEN CHOOSE w \in words : TRUE ELSE said IN
                     IF given = <<>> THEN Initially(p, environment, e) ELSE Last(given)

-----------------------------------------------------------------------------

\* The errors whose `continue` keeps the offset into a pack or behind an equals sign.
LeavingOffsets == {"InvalidShortArgument", "UnknownShortArgument", "InvalidBooleanOption",
                   "PositionalArgumentAsNamed"}

ReadExactly(o) ==
    LET p == program.parsers[o.parser] IN
    /\ o.success <=> Errors(p, o.argv) \subseteq program.ignored
    /\ o.success => \A e \in DOMAIN p.entries : o.values[e] = Meaning(p, program.environment, o.argv, e)

(***************************************************************************)
(* A command line is read as the documentation of the options says, each   *)
(* element by what came before: packs, values behind an equals sign or in  *)
(* the next element, the last one of a repeated option, words for the      *)
(* array that the other arguments leave; the call succeeds exactly if      *)
(* every error was taken by the callback, and no assertion fails           *)
(* (tryParse(), Arguments.h:52-56 and :846-850).                           *)
(***************************************************************************)
ReadsWhateverIgnored ==
    /\ stage \notin {"aborted", "undefined"}
    /\ \A k \in DOMAIN outcomes : ReadExactly(outcomes[k])

\* A move leaves nothing behind.
KeptByMove(p) == p.finalOptional = 0 /\ \A e \in DOMAIN p.entries : p.entries[e].type \notin ArrayTypes

\* The same unless the callback takes an error in a pack, of a boolean option
\* with a value or of a positional argument given by its key, or a parser with
\* arrays or a final optional argument was moved (tryParse()).
ReadsAsDocumented ==
    /\ program.ignored \cap LeavingOffsets = {}
    /\ \A p \in program.moved : KeptByMove(program.parsers[p])
    => ReadsWhateverIgnored

\* The outcomes of an unprefixed parser and of one whose prefix it skips.
Pairs ==
    {pair \in (DOMAIN outcomes) \X (DOMAIN outcomes) :
        LET main == outcomes[pair[1]]
            prefixed == outcomes[pair[2]]
        IN  /\ main.argv = prefixed.argv
            /\ main.success /\ prefixed.success
            /\ program.parsers[main.parser].prefix = ""
            /\ program.parsers[main.parser].skippedPrefixes = {program.parsers[prefixed.parser].prefix}}

\* An option of a prefix that its parser does not know is left alone, but not
\* its value.
Lenient(p) == program.parsers[outcomes[p].parser].ignoreUnknown \/ program.ignored # {}

Split(m, p) ==
    IF Lenient(p) THEN outcomes[p].taken \subseteq outcomes[m].passed
    ELSE outcomes[p].taken = outcomes[m].passed

(***************************************************************************)
(* Parsers that share a command line agree on whose it is: what the        *)
(* application's parser passes over is what the library's reads, values    *)
(* included ("can be mixed without restriction", Arguments.h:108-109).      *)
(***************************************************************************)
PrefixesMix == \A pair \in Pairs : Split(pair[1], pair[2])

\* No value of the application's own options, or of any if all, begins with two dashes.
PlainValues(p, line, all) ==
    \A k \in DOMAIN line :
        Roles(p, line)[k] = "value" /\ (all \/ ~IsForeign(p, line[k - 1])) => ~HasPrefix(line[k], "--")

\* The same where no value of an option of the application looks like an option
\* itself, nor one of an unknown option (tryParse(), the skipped prefixes).
PrefixesSplit ==
    \A pair \in Pairs :
        PlainValues(program.parsers[outcomes[pair[1]].parser], outcomes[pair[1]].argv, Lenient(pair[2]))
            => Split(pair[1], pair[2])

(***************************************************************************)
(* A parser that says it is parsed was parsed successfully by its last     *)
(* call: after a second one that failed "the arguments should be in        *)
(* invalid state again" (Arguments.cpp:901-903).                           *)
(***************************************************************************)
ParsedTellsSuccess ==
    \A p \in DOMAIN program.parsers :
        LET own == {k \in DOMAIN outcomes : outcomes[k].parser = p} IN
        stage = "idle" /\ isParsed[p] => own # {} /\ outcomes[Max(own)].success

HelpOf(p) == FindKey(p, p.prefix \o "help")

(***************************************************************************)
(* Help that is asked for anywhere on the command line is found, whatever  *)
(* the other arguments are (Arguments.h:61-63, tryParse() and parse()).    *)
(***************************************************************************)
HelpAnywhere ==
    \A k \in DOMAIN outcomes :
        LET p == program.parsers[outcomes[k].parser]
            line == outcomes[k].argv
        IN (\E n \in Range(Having("option", p, line)) : HelpOf(p) \in FlagsOf(p, line[n]))
              => outcomes[k].values[HelpOf(p)]
=============================================================================
