-------------------------- MODULE ConfigurationText --------------------------
(***************************************************************************)
(* The INI-style text of a Utility::Configuration: what parse() makes of   *)
(* it and what save() writes.                                              *)
(*                                                                         *)
(* The groups of a configuration are a sequence in the order of the text,  *)
(* each with its depth: the first is the configuration itself, at depth 0, *)
(* and the subgroups of a group are those of the next depth up to the next *)
(* group that is not deeper.  The recursion of the code over the groups is *)
(* then a pass over the sequence.                                          *)
(*                                                                         *)
(* A value is the sequence of its lines.  A line is one of a few texts     *)
(* that quotes and whitespace tell apart.                                  *)
(***************************************************************************)
EXTENDS Naturals, Sequences, SequencesExt

CONSTANTS
    Names,      \* names of groups; the empty one is NoName
    NoName,
    Keys,       \* keys of values; the empty one is NoKey
    NoKey

-----------------------------------------------------------------------------
\* Texts after a '=' or on a line of their own.

Fence == "\"\"\""
Comment == "#"
Empty == ""

Texts == {Empty, "word", " word", "\" word\"", "\"word\"", "\"word", Fence, Comment}

Trimmed(text) == IF text = " word" THEN "word" ELSE text

\* Quotes around whitespace; what has quotes already is taken as it is.
Quoted(text) == IF text = " word" THEN "\" word\"" ELSE text

Unquoted(text) ==
    CASE text = "\" word\"" -> " word"
      [] text = "\"word\"" -> "word"
      [] OTHER -> text

MissesQuote(text) == text = "\"word"

-----------------------------------------------------------------------------
\* Lines, items and groups.

(***************************************************************************)
(* A group header with the names of its path, a key and what is after the  *)
(* equals sign, or anything else.  crlf: whether the line ends with \r\n.  *)
(***************************************************************************)
Line(kind, path, key, text) ==
    [kind |-> kind, path |-> path, key |-> key, text |-> text, crlf |-> FALSE]

Header(path) == Line("header", path, NoKey, Empty)
Pair(key, text) == Line("pair", <<>>, key, text)
Other(text) == Line("other", <<>>, NoKey, text)

\* ConfigurationGroup::Value: without a key it is a comment or an empty line.
Item(key, value) == [key |-> key, value |-> value]

Group(depth, name, items, configuration) ==
    [depth |-> depth, name |-> name, items |-> items, configuration |-> configuration]

\* What a text, a value, an item and a group may be.
AnyName == Names \cup {NoName}

AnyKey == Keys \cup {NoKey}

AnyLine ==
    [kind: {"header"}, path: Seq(AnyName) \ {<<>>}, key: AnyKey, text: Texts, crlf: BOOLEAN]
    \cup [kind: {"pair", "other"}, path: Seq(AnyName), key: AnyKey, text: Texts, crlf: BOOLEAN]

AnyText == [bom: BOOLEAN, lines: Seq(AnyLine)]

AnyValue == Seq(Texts) \ {<<>>}

AnyItem == [key: AnyKey, value: AnyValue]

AnyGroup(configurations) ==
    [depth: Nat, name: AnyName, items: Seq(AnyItem), configuration: configurations]

\* The last group of the depth, i or one around it.
Enclosing(gs, i, depth) ==
    CHOOSE j \in 1 .. i : gs[j].depth = depth /\ \A k \in j + 1 .. i : gs[k].depth > depth

Path(gs, i) == [d \in 1 .. gs[i].depth |-> gs[Enclosing(gs, i, d)].name]

IsWithin(gs, i, j) == j >= i /\ \A k \in i + 1 .. j : gs[k].depth > gs[i].depth

EndOf(gs, i) ==
    CHOOSE j \in i .. Len(gs) : IsWithin(gs, i, j) /\ (j = Len(gs) \/ ~IsWithin(gs, i, j + 1))

Subgroups(gs, i) == {j \in i + 1 .. Len(gs) : IsWithin(gs, i, j) /\ gs[j].depth = gs[i].depth + 1}

-----------------------------------------------------------------------------
\* Configuration::parse()

(***************************************************************************)
(* The groups so far belong to the configuration c.  Lines after a fence   *)
(* go to the last value until the next fence.                              *)
(***************************************************************************)
Parser(flags, c) ==
    [groups |-> <<Group(0, NoName, <<>>, c)>>, flags |-> flags, multiLine |-> FALSE, error |-> FALSE]

AddItem(p, item) == [p EXCEPT !.groups[Len(p.groups)].items = Append(@, item)]

Failed(p) == [p EXCEPT !.error = TRUE]

ReadContinuation(p, line) ==
    LET top == Len(p.groups)
        last == Len(p.groups[top].items)
        text == IF line.kind = "other" THEN line.text ELSE "word"
        value == p.groups[top].items[last].value
    IN IF text = Fence
       THEN [p EXCEPT !.multiLine = FALSE,
                      !.groups[top].items[last].value = IF value = <<>> THEN <<Empty>> ELSE value]
       ELSE [p EXCEPT !.groups[top].items[last].value = Append(value, text)]

\* How many of the names of the last group's path the header continues: it
\* returns to that group, possibly the last, and is a subgroup of it.
Common(open, path) ==
    CHOOSE n \in 0 .. Len(open) :
        LET IsCommon(m) == m <= Len(open) /\ m < Len(path) /\ SubSeq(open, 1, m) = SubSeq(path, 1, m)
        IN IsCommon(n) /\ \A m \in n + 1 .. Len(open) : ~IsCommon(m)

\* One group for each further name; the last one may be empty.
ReadHeader(p, path) ==
    LET top == Len(p.groups)
        common == Common(Path(p.groups, top), path)
        new == [k \in 1 .. Len(path) - common |->
                    Group(common + k, path[common + k], <<>>, p.groups[top].configuration)]
    IN IF path = <<NoName>> \/ \E k \in common + 1 .. Len(path) - 1 : path[k] = NoName
       THEN Failed(p)
       ELSE [p EXCEPT !.groups = @ \o new]

ReadPair(p, key, text) ==
    CASE text = Fence -> [AddItem(p, Item(key, <<>>)) EXCEPT !.multiLine = TRUE]
      [] MissesQuote(text) -> Failed(p)
      [] OTHER -> AddItem(p, Item(key, <<Unquoted(text)>>))

\* An empty line or a comment; anything else misses its equals sign.
ReadOther(p, text, isLast) ==
    CASE text \notin {Empty, Comment} -> Failed(p)
      [] text \in {Empty, Comment} /\ ("SkipComments" \in p.flags \/ (text = Empty /\ isLast)) -> p
      [] OTHER -> AddItem(p, Item(NoKey, <<text>>))

ReadLine(p, line, isLast) ==
    LET q == IF line.crlf THEN [p EXCEPT !.flags = @ \cup {"WindowsEol"}] ELSE p IN
    CASE p.error -> p
      [] ~p.error /\ p.multiLine -> ReadContinuation(q, line)
      [] OTHER -> CASE line.kind = "header" -> ReadHeader(q, line.path)
                    [] line.kind = "pair" -> ReadPair(q, line.key, Trimmed(line.text))
                    [] OTHER -> ReadOther(q, Trimmed(line.text), isLast)

\* All of the text is read or nothing; the flags found stay.
Parse(text, flags, c) ==
    LET Read(p, n) == ReadLine(p, text.lines[n], n = Len(text.lines))
        start == Parser(flags \cup (IF text.bom THEN {"HasBom"} ELSE {}), c)
        end == FoldLeftDomain(Read, start, text.lines)
    IN IF end.error \/ end.multiLine
       THEN [end EXCEPT !.error = TRUE, !.groups = start.groups]
       ELSE end

-----------------------------------------------------------------------------
\* Configuration::save()

ItemLines(item) ==
    LET all == [k \in DOMAIN item.value |-> Other(item.value[k])] IN
    CASE item.key = NoKey -> all
      [] item.key # NoKey /\ Len(item.value) > 1 -> <<Pair(item.key, Fence)>> \o all \o <<Other(Fence)>>
      [] OTHER -> <<Pair(item.key, Quoted(item.value[1]))>>

\* The subgroup before this one has its name.
FollowsNamesake(gs, i) ==
    \E j \in 1 .. i - 1 : IsWithin(gs, j, i - 1) /\ gs[j].depth = gs[i].depth /\ gs[j].name = gs[i].name

\* Mutant: a namesake before does not matter.
IsHeaderOmitted_Mutant(gs, i) == gs[i].items = <<>> /\ Subgroups(gs, i) # {}

\* The header of the first subgroup says it all.
IsHeaderOmitted(gs, i) ==
    /\ ~FollowsNamesake(gs, i)
    /\ gs[i].items = <<>>
    /\ Subgroups(gs, i) # {}

GroupLines(gs, i) ==
    (IF i = 1 \/ IsHeaderOmitted(gs, i) THEN <<>> ELSE <<Header(Path(gs, i))>>)
        \o FlattenSeq([k \in DOMAIN gs[i].items |-> ItemLines(gs[i].items[k])])

Saved(gs, flags) ==
    LET lines == FlattenSeq([i \in DOMAIN gs |-> GroupLines(gs, i)])
        windows == {"ForceWindowsEol", "WindowsEol"} \cap flags # {} /\ "ForceUnixEol" \notin flags
    IN [bom |-> {"PreserveBom", "HasBom"} \subseteq flags,
        lines |-> [n \in DOMAIN lines |-> [lines[n] EXCEPT !.crlf = windows]]]
=============================================================================
