---------------------------- MODULE JsonGrammar ----------------------------
(***************************************************************************)
(* What a JSON text is, as a reference for Utility::JsonWriter and         *)
(* Utility::Json: a sequence of lexemes derived from the grammar of        *)
(* RFC 8259.  A string or literal is one lexeme, named for the class of    *)
(* texts it stands for; whitespace is no lexeme.                           *)
(*                                                                         *)
(* Derives is a relation on the two ends of a part of the text, written    *)
(* without a state machine, a stack or a "next expected" lexeme: those are *)
(* what the two implementations have.                                      *)
(***************************************************************************)
EXTENDS Naturals, FiniteSets, Sequences, SequencesExt

\* No escape; valid escapes; an escape \u without four hexadecimal digits.
Strings == {"plain", "escaped", "invalid"}

\* Numbers that fit 32 bits unsigned, are negative, have a fraction, need 52
\* bits, need more; and literals that only begin like what they should be.
Numbers == {"small", "negative", "fraction", "large", "huge", "digits"}
Nulls == {"null", "nil"}
Booleans == {"true", "trueish"}

Values == Strings \cup Numbers \cup Nulls \cup Booleans
Openers == {"{", "["}
Closers == {"}", "]"}
Lexemes == Values \cup Openers \cup Closers \cup {",", ":"}

Closing == [o \in Openers |-> IF o = "{" THEN "}" ELSE "]"]

-----------------------------------------------------------------------------

\* The lexemes i..j of text are a value, a list of members or a list of elements.
IsJson(text) ==
    LET n == Len(text)
        Derives[g \in {"value", "members", "elements"}, i \in 1 .. n, j \in 1 .. n] ==
            CASE g = "value" ->
                    \/ i = j /\ text[i] \in Values
                    \/ /\ i < j
                       /\ text[i] \in Openers
                       /\ text[j] = Closing[text[i]]
                       /\ \/ j = i + 1
                          \/ Derives[IF text[i] = "{" THEN "members" ELSE "elements", i + 1, j - 1]
              [] g = "members" ->
                    /\ i + 2 <= j
                    /\ text[i] \in Strings
                    /\ text[i + 1] = ":"
                    /\ \/ Derives["value", i + 2, j]
                       \/ \E k \in i + 3 .. j - 1 : /\ text[k] = ","
                                                    /\ Derives["value", i + 2, k - 1]
                                                    /\ Derives["members", k + 1, j]
              [] g = "elements" ->
                    \/ Derives["value", i, j]
                    \/ \E k \in i + 1 .. j - 1 : /\ text[k] = ","
                                                 /\ Derives["value", i, k - 1]
                                                 /\ Derives["elements", k + 1, j]
    IN n > 0 /\ Derives["value", 1, n]

-----------------------------------------------------------------------------

\* Positions of the brackets that are open after text, outermost first.
Unclosed(text) ==
    LET Step(open, i) == IF text[i] \in Openers THEN Append(open, i)
                         ELSE IF text[i] \in Closers /\ open # <<>> THEN Front(open)
                         ELSE open
    IN FoldLeftDomain(Step, <<>>, text)

Depth(text) == Len(Unclosed(text))

\* The text can be continued to a JSON text: at most a key, a colon and a value
\* are missing before everything that is open can be closed.
IsJsonPrefix(text) ==
    LET open == Unclosed(text)
        closing == Reverse([i \in DOMAIN open |-> Closing[text[open[i]]]])
    IN \E missing \in {<<>>, <<"null">>, <<":", "null">>, <<"plain", ":", "null">>} :
            IsJson(text \o missing \o closing)
=============================================================================
