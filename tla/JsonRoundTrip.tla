--------------------------- MODULE JsonRoundTrip ---------------------------
(***************************************************************************)
(* JsonWriter and Json together, and each on its own.  A JsonWriter writes *)
(* a document, a Json instance tokenizes it and parses what the options    *)
(* say, and writeJson(JsonToken) copies the tokens to a second JsonWriter: *)
(* JsonWriter.tla again, on variables of its own.  Its steps here are the  *)
(* calls that the recursion of writeJson() makes, with the recursion's     *)
(* stack in copying.  Or a Json instance is given any text and parses the  *)
(* tokens by any sequence of calls (phase "parse").                        *)
(***************************************************************************)
EXTENDS JsonWriter, Json

VARIABLES
    phase,      \* what is going on: write, read, copy, done; or parse
    next,       \* the token that writeJson() comes to next
    copying,    \* the containers writeJson() is inside of, innermost last
    copyState,  \* the state of the second writer
    copyItems   \* its history

copyVars == <<next, copying, copyState, copyItems>>
vars == <<writerVars, jsonVars, phase, copyVars>>

Copy == INSTANCE JsonWriter WITH state <- copyState, items <- copyItems

Init ==
    /\ JsonInit
    /\ \/ phase = "write" /\ WriterInit /\ copyState = state /\ copyItems = 0
       \/ /\ phase = "parse"
          /\ state = Constructed(FALSE, 0, 0) /\ items = 0
          /\ copyState = Constructed(FALSE, 0, 0) /\ copyItems = 0
    /\ next = 1
    /\ copying = <<>>

ParseAnyText ==
    /\ phase = "parse"
    /\ JsonNext
    /\ UNCHANGED <<writerVars, phase, copyVars>>

\* Nothing is done with a text once it is refused.
Refused == status \in {"rejected", "too short", "unparsed"} /\ UNCHANGED vars

WriteDocument ==
    /\ phase = "write"
    /\ WriterNext
    /\ UNCHANGED <<jsonVars, phase, copyVars>>

Hand ==
    /\ phase = "write"
    /\ TakeString
    /\ phase' = "read"
    /\ UNCHANGED <<jsonVars, copyVars>>

ReadDocument ==
    /\ phase = "read"
    /\ Len(text) < Len(Text(state))
    /\ Read(Text(state)[Len(text) + 1])
    /\ UNCHANGED <<writerVars, phase, copyVars>>

FinishReading(options) ==
    /\ phase = "read"
    /\ Len(text) = Len(Text(state))
    /\ EndOfText(options)
    /\ phase' = "copy"
    /\ UNCHANGED <<writerVars, copyVars>>

-----------------------------------------------------------------------------

Enter ==
    /\ copying' = Append(copying, next)
    /\ next' = next + 1

CopyObject ==
    /\ tokens[next].bits = "Object"
    /\ Copy!BeginObject
    /\ Enter

CopyArray ==
    /\ tokens[next].bits = "Array"
    /\ Copy!BeginArray
    /\ Enter

\* A parsed key is escaped anew, another one copied as it is.
CopyKey ==
    /\ tokens[next].isKey
    /\ IF tokens[next].isParsed THEN Copy!WriteKey(text[tokens[next].first])
       ELSE Copy!WriteJsonKey(text[tokens[next].first])
    /\ next' = next + 1
    /\ UNCHANGED copying

CopyValue ==
    /\ tokens[next].bits \notin {"Object", "Array"}
    /\ ~tokens[next].isKey
    /\ IF ParsedType(tokens[next]) = "None" THEN Copy!WriteJson(text[tokens[next].first])
       ELSE Copy!Write(text[tokens[next].first])
    /\ next' = next + 1
    /\ UNCHANGED copying

AtEnd_Mutant ==
    /\ copying # <<>>
    /\ LET inside == ChildCount(tokens, Last(copying))
       IN next = Last(copying) + (IF inside = 0 THEN 1 ELSE inside)

\* The loop over the children of a container is over at its next().
AtEnd == copying # <<>> /\ next = Last(copying) + ChildCount(tokens, Last(copying)) + 1

CopyEnd ==
    /\ AtEnd
    /\ IF tokens[Last(copying)].bits = "Object" THEN Copy!EndObject ELSE Copy!EndArray
    /\ copying' = Front(copying)
    /\ UNCHANGED next

CopyToken ==
    /\ ~AtEnd
    /\ next <= Len(tokens)
    /\ CopyObject \/ CopyArray \/ CopyKey \/ CopyValue

CopyDocument ==
    /\ phase = "copy"
    /\ CopyToken \/ CopyEnd
    /\ phase' = IF copying' = <<>> THEN "done" ELSE "copy"
    /\ UNCHANGED <<writerVars, jsonVars>>

Done == phase = "done" /\ UNCHANGED vars

Next ==
    \/ ParseAnyText
    \/ Refused
    \/ WriteDocument
    \/ Hand
    \/ ReadDocument
    \/ \E options \in OptionSets : FinishReading(options)
    \/ CopyDocument
    \/ Done

Spec == Init /\ [][Next]_vars

-----------------------------------------------------------------------------

(***************************************************************************)
(* Whatever a writer wrote, the tokenizer takes and parses with any        *)
(* options, and writeJson() of the root token writes the same document     *)
(* again: its walk by child counts visits every token once and closes      *)
(* every container where it ended.                                         *)
(***************************************************************************)
RoundTrip ==
    /\ phase = "read" => status = "reading"
    /\ phase \in {"copy", "done"} => status = "tokenized"
    /\ phase = "done" => Text(copyState) = text /\ copyState.expecting = "DocumentEnd"
=============================================================================
