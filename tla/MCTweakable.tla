----------------------------- MODULE MCTweakable -----------------------------
(***************************************************************************)
(* Instances of Tweakable for TLC: two source files and two scopes, one of *)
(* which runs in the other.                                                *)
(***************************************************************************)
EXTENDS Tweakable

CONSTANTS
    zero, one,          \* values of variables
    outer, inner        \* scopes

EmptyFile == <<>>

NestedBody == [s \in {outer, inner} |->
    IF s = outer THEN << <<"h", 1>>, inner, <<"cpp", 1>> >> ELSE << <<"h", 2>>, <<"cpp", 2>> >>]

NestedOutside == { <<"h", 1>> }

\* As compiled, with both values changed, and with an error after a change.
NestedContents == {<<zero, zero>>, <<one, one>>, <<one, "Error">>}

\* No failing file.
ValidContents == {<<zero, zero>>, <<one, one>>}

-----------------------------------------------------------------------------
\* Two scopes of one file, each with a variable of its own.

FlatBody == [s \in {outer, inner} |-> << <<"cpp", IF s = outer THEN 1 ELSE 2>> >>]
=============================================================================
