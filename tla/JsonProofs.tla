----------------------------- MODULE JsonProofs -----------------------------
(***************************************************************************)
(* Proofs about Json and JsonWriter, for every value of their constants    *)
(* and texts of any length and depth.                                      *)
(*                                                                         *)
(* The invariant of the tokenizer is JsonInv: the tokens are those of a    *)
(* tree (Tree), what is expected follows from the container the tokenizer  *)
(* is in (Expecting1), and each token is what parsing can make of the      *)
(* lexeme it was read from (TokenSound).  Reading a lexeme keeps it        *)
(* (ReadKeeps); a call may only do what Good allows, which each operator   *)
(* that parses is shown to keep, the folds among them by FoldFacts.  The   *)
(* invariant of the writer is WriterSound: the root is at the bottom of    *)
(* the levels, and what is expected follows from the one on top.           *)
(***************************************************************************)
EXTENDS JsonRoundTrip, SequenceTheorems, FiniteSetTheorems, TLAPS

-----------------------------------------------------------------------------
\* The tree of tokens.  These are about any sequence of tokens, so that they can
\* be said of the tokens of a result, too.

AnyToken == [bits: TypeBits, isParsed: BOOLEAN, isKey: BOOLEAN, isEscaped: BOOLEAN,
             data: Nat, sizeType: WideNumbers \cup {"Other"}, first: Nat, last: Nat]

IsContainer(token) == token.bits \in {"Object", "Array"}

\* A container whose end has not been read.
IsOpen(token) == IsContainer(token) /\ token.last = token.first

\* The container p is around the token i.
Around(tks, p, i) ==
    /\ p \in 1 .. i - 1
    /\ IsContainer(tks[p])
    /\ IsOpen(tks[p]) \/ i <= p + tks[p].data

\* It is the innermost one.
Within(tks, p, i) == Around(tks, p, i) /\ \A q \in 1 .. i - 1 : Around(tks, q, i) => q <= p

\* c is the last open container before i, or there is none.
IsLastOpen(tks, c, i) ==
    /\ c \in 0 .. i - 1
    /\ c # 0 => IsOpen(tks[c])
    /\ \A p \in 1 .. i - 1 : IsOpen(tks[p]) => p <= c

\* Tokens are in the order of the text, of n lexemes, and only containers span
\* more than one.
Ordered(tks, n) ==
    \A i \in 1 .. Len(tks) :
        /\ tks[i].first \in 1 .. n /\ tks[i].last \in tks[i].first .. n
        /\ ~IsContainer(tks[i]) => tks[i].last = tks[i].first
        /\ \A j \in i + 1 .. Len(tks) : tks[i].first < tks[j].first

\* A closed container has in it what is in its part of the text, all closed.
ClosedExact(tks) ==
    \A i \in 1 .. Len(tks) : IsContainer(tks[i]) /\ ~IsOpen(tks[i]) =>
        /\ i + tks[i].data <= Len(tks)
        /\ \A j \in i + 1 .. Len(tks) : j <= i + tks[i].data <=> tks[j].last <= tks[i].last
        /\ \A j \in i + 1 .. i + tks[i].data :
                IsContainer(tks[j]) => ~IsOpen(tks[j]) /\ j + tks[j].data <= i + tks[i].data
        /\ ~tks[i + tks[i].data].isKey

\* An open container has the link to the one around it.
OpenLinked(tks, c) ==
    /\ IsLastOpen(tks, c, Len(tks) + 1)
    /\ \A i \in 1 .. Len(tks) : IsOpen(tks[i]) => IsLastOpen(tks, tks[i].data, i)

\* Keys are strings in an object, and all that is in an object is a key or the
\* value after one.
KeysSound(tks) ==
    /\ \A i \in 1 .. Len(tks) : tks[i].isKey =>
            /\ tks[i].bits = "String"
            /\ \E p \in 1 .. i - 1 : Within(tks, p, i) /\ tks[p].bits = "Object"
            /\ i < Len(tks) =>
                    /\ ~tks[i + 1].isKey
                    /\ \A p \in 1 .. i : Around(tks, p, i + 1) <=> Around(tks, p, i)
    /\ \A i \in 1 .. Len(tks), p \in 1 .. Len(tks) : Within(tks, p, i) /\ tks[p].bits = "Object" =>
            tks[i].isKey \/ (i > 1 /\ tks[i - 1].isKey)

Tree(tks, n, c) ==
    /\ tks \in Seq(AnyToken)
    /\ n \in Nat
    /\ Ordered(tks, n)
    /\ ClosedExact(tks)
    /\ OpenLinked(tks, c)
    /\ KeysSound(tks)

\* All keys have values, all containers ends.
Complete(tks) ==
    /\ tks # <<>>
    /\ \A i \in 1 .. Len(tks) : ~IsOpen(tks[i])
    /\ ~tks[Len(tks)].isKey

-----------------------------------------------------------------------------
\* What parsing has made of a token.

TokenSound(token, strs, txt) ==
    /\ token.sizeType = IF IsWide(token) THEN token.bits ELSE "Other"
    /\ token.bits \in SmallNumbers => token.isParsed
    /\ token.isEscaped => token.bits = "String"
    /\ token.bits = "String" /\ token.isEscaped /\ token.isParsed =>
            token.data \in DOMAIN strs /\ strs[token.data] = token.first
    /\ IsParsed(token) /\ ParsedType(token) # "Other" =>
            Represents(ParsedType(token), txt[token.first])

\* Where the tokenizer is: what it expects follows from the container it is in,
\* and from whether a key waits for its value.
Expecting1(tks, c, e) ==
    /\ e \in Expectations
    /\ e = "DocumentEnd" => c = 0 /\ tks # <<>>
    /\ e \in {"ObjectKey", "ObjectKeyOrEnd", "ObjectKeyColon", "CommaOrObjectEnd"} =>
            c # 0 /\ tks[c].bits = "Object"
    /\ e \in {"ValueOrArrayEnd", "CommaOrArrayEnd"} => c # 0 /\ tks[c].bits = "Array"
    /\ e = "Value" /\ c = 0 => tks = <<>>
    /\ tks # <<>> => (tks[Len(tks)].isKey <=> \/ e = "ObjectKeyColon"
                                              \/ e = "Value" /\ c # 0 /\ tks[c].bits = "Object")

JsonInv ==
    /\ status \in {"reading", "rejected", "too short", "unparsed", "tokenized"}
    /\ text \in Seq(Lexemes)
    /\ strings \in Seq(Nat)
    /\ \A k \in DOMAIN strings : strings[k] \in {NoText} \cup DOMAIN text
    /\ Tree(tokens, Len(text), container)
    /\ Expecting1(tokens, container, expected)
    /\ \A i \in 1 .. Len(tokens) : TokenSound(tokens[i], strings, text)
    /\ status = "reading" => \A i \in 1 .. Len(tokens) : ~IsParsed(tokens[i])
    /\ status \in {"tokenized", "unparsed"} => Complete(tokens)

-----------------------------------------------------------------------------
\* What reading does to the tree.

\* Only open containers are around a token that is added.
LEMMA AroundAdded ==
    ASSUME NEW tks, NEW n, NEW c, Tree(tks, n, c), NEW t \in AnyToken,
           NEW p
    PROVE  Around(Append(tks, t), p, Len(tks) + 1) <=> p \in 1 .. Len(tks) /\ IsOpen(tks[p])
<1>1. PICK u : u = Append(tks, t)
  OBVIOUS
<1>2. Len(tks) \in Nat /\ \A i \in 1 .. Len(tks) : u[i] = tks[i] /\ tks[i] \in AnyToken
  BY <1>1 DEF Tree
<1>3. \A i \in 1 .. Len(tks) : IsContainer(tks[i]) /\ ~IsOpen(tks[i]) => i + tks[i].data <= Len(tks)
  BY DEF Tree, ClosedExact
<1>4. \A i \in 1 .. Len(tks) : tks[i].data \in Nat
  BY <1>2 DEF AnyToken
<1>5. \A i \in 1 .. Len(tks) : IsOpen(tks[i]) => IsContainer(tks[i])
  BY DEF IsOpen
<1> QED BY <1>1, <1>2, <1>3, <1>4, <1>5 DEF Around

\* What is around the others stays.
LEMMA AroundOld ==
    ASSUME NEW tks \in Seq(AnyToken), NEW t \in AnyToken,
           NEW i \in 1 .. Len(tks), NEW p
    PROVE  /\ Around(Append(tks, t), p, i) <=> Around(tks, p, i)
           /\ Within(Append(tks, t), p, i) <=> Within(tks, p, i)
<1>1. PICK u : u = Append(tks, t)
  OBVIOUS
<1>2. Len(tks) \in Nat /\ \A j \in 1 .. Len(tks) : u[j] = tks[j]
  BY <1>1
<1>3. \A q : Around(u, q, i) <=> Around(tks, q, i)
  BY <1>2 DEF Around
<1> QED BY <1>1, <1>3 DEF Within

\* A token that is read at the end of the text keeps the tree.
LEMMA TokenAdded ==
    ASSUME NEW tks, NEW n, NEW c, Tree(tks, n, c), NEW t \in AnyToken,
           t.first = n + 1, t.last = n + 1, IsContainer(t) => t.data = c,
           IF t.isKey THEN /\ t.bits = "String" /\ c # 0 /\ tks[c].bits = "Object"
                           /\ ~tks[Len(tks)].isKey
           ELSE c # 0 /\ tks[c].bits = "Object" => tks[Len(tks)].isKey
    PROVE  Tree(Append(tks, t), n + 1, IF IsContainer(t) THEN Len(tks) + 1 ELSE c)
<1>1. PICK u : u = Append(tks, t)
  OBVIOUS
<1>2. PICK N : N = Len(tks)
  OBVIOUS
<1>3. PICK d : d = IF IsContainer(t) THEN N + 1 ELSE c
  OBVIOUS
<1>4. /\ N \in Nat /\ n \in Nat /\ u \in Seq(AnyToken) /\ Len(u) = N + 1 /\ u[N + 1] = t
      /\ \A i \in 1 .. N : u[i] = tks[i] /\ tks[i] \in AnyToken
  BY <1>1, <1>2 DEF Tree
<1>5. \A i \in 1 .. N : /\ tks[i].first \in 1 .. n /\ tks[i].last \in tks[i].first .. n
                        /\ tks[i].data \in Nat
  BY <1>2, <1>4 DEF Tree, Ordered, AnyToken
<1>6. Ordered(u, n + 1)
  <2>1. ASSUME NEW i \in 1 .. N
        PROVE  /\ u[i].first \in 1 .. n + 1 /\ u[i].last \in u[i].first .. n + 1
               /\ ~IsContainer(u[i]) => u[i].last = u[i].first
               /\ \A j \in i + 1 .. N + 1 : u[i].first < u[j].first
    <3>1. u[i] = tks[i] /\ tks[i].first \in 1 .. n /\ tks[i].last \in tks[i].first .. n
      BY <1>4, <1>5
    <3>2. ~IsContainer(u[i]) => u[i].last = u[i].first
      BY <1>2, <3>1 DEF Tree, Ordered
    <3>3. ASSUME NEW j \in i + 1 .. N + 1 PROVE u[i].first < u[j].first
      <4>1. CASE j = N + 1
        BY <1>4, <3>1, <4>1
      <4>2. CASE j # N + 1
        <5>1. j \in i + 1 .. N /\ j \in 1 .. N
          BY <1>4, <4>2
        <5> QED BY <1>2, <1>4, <3>1, <5>1 DEF Tree, Ordered
      <4> QED BY <4>1, <4>2
    <3> QED BY <1>4, <3>1, <3>2, <3>3
  <2>2. /\ u[N + 1].first \in 1 .. n + 1 /\ u[N + 1].last \in u[N + 1].first .. n + 1
        /\ u[N + 1].last = u[N + 1].first
        /\ \A j \in N + 1 + 1 .. N + 1 : FALSE
    BY <1>4
  <2>3. \A i \in 1 .. N + 1 : i \in 1 .. N \/ i = N + 1
    BY <1>4
  <2> QED BY <1>4, <2>1, <2>2, <2>3 DEF Ordered
<1>7. ClosedExact(u)
  <2> SUFFICES ASSUME NEW i \in 1 .. N + 1, IsContainer(u[i]), ~IsOpen(u[i])
               PROVE  /\ i + u[i].data <= N + 1
                      /\ \A j \in i + 1 .. N + 1 : j <= i + u[i].data <=> u[j].last <= u[i].last
                      /\ \A j \in i + 1 .. i + u[i].data :
                            IsContainer(u[j]) => ~IsOpen(u[j]) /\ j + u[j].data <= i + u[i].data
                      /\ ~u[i + u[i].data].isKey
    BY <1>4 DEF ClosedExact
  <2>1. i \in 1 .. N /\ u[i] = tks[i]
    BY <1>4 DEF IsOpen
  <2>2. /\ i + tks[i].data <= N
        /\ \A j \in i + 1 .. N : j <= i + tks[i].data <=> tks[j].last <= tks[i].last
        /\ \A j \in i + 1 .. i + tks[i].data :
              IsContainer(tks[j]) => ~IsOpen(tks[j]) /\ j + tks[j].data <= i + tks[i].data
        /\ ~tks[i + tks[i].data].isKey
    BY <1>2, <2>1 DEF Tree, ClosedExact
  <2>3. tks[i].data \in Nat /\ tks[i].last \in 0 .. n
    BY <1>5, <2>1
  <2>4. \A j \in i + 1 .. N + 1 : j <= i + u[i].data <=> u[j].last <= u[i].last
    <3> TAKE j \in i + 1 .. N + 1
    <3>1. CASE j = N + 1
      BY SMTT(30), <1>4, <2>1, <2>2, <2>3, <3>1
    <3>2. CASE j # N + 1
      <4>1. j \in i + 1 .. N /\ j \in 1 .. N
        BY <1>4, <2>1, <3>2
      <4>2. u[j] = tks[j]
        BY <1>4, <4>1
      <4> QED BY <2>1, <2>2, <4>1, <4>2
    <3> QED BY <3>1, <3>2
  <2>5. \A j \in i + 1 .. i + tks[i].data : u[j] = tks[j]
    BY <1>4, <2>1, <2>2, <2>3
  <2>6. i + tks[i].data \in 1 .. N
    BY SMTT(30), <2>1, <2>2, <2>3, <1>4
  <2> QED BY <1>4, <2>1, <2>2, <2>4, <2>5, <2>6
<1>8. /\ c \in 0 .. N /\ (c # 0 => IsOpen(tks[c]))
      /\ \A p \in 1 .. N : IsOpen(tks[p]) => p <= c
  <2>1. IsLastOpen(tks, c, N + 1)
    BY <1>2 DEF Tree, OpenLinked
  <2> QED BY <1>4, <2>1 DEF IsLastOpen
<1>9. OpenLinked(u, d)
  <2>1. IsOpen(t) <=> IsContainer(t)
    BY DEF IsOpen
  <2>2. IsLastOpen(u, d, N + 1 + 1)
    <3>1. d \in 0 .. N + 1 /\ (d # 0 => IsOpen(u[d]))
      BY <1>3, <1>4, <1>8, <2>1
    <3>2. ASSUME NEW p \in 1 .. N + 1, IsOpen(u[p]) PROVE p <= d
      BY <1>3, <1>4, <1>8, <2>1, <3>2
    <3> QED BY <1>4, <3>1, <3>2 DEF IsLastOpen
  <2>3. ASSUME NEW i \in 1 .. N, IsOpen(u[i]) PROVE IsLastOpen(u, u[i].data, i)
    <3>1. u[i] = tks[i] /\ IsLastOpen(tks, tks[i].data, i)
      BY <1>2, <1>4, <2>3 DEF Tree, OpenLinked
    <3> QED BY <1>4, <3>1 DEF IsLastOpen
  <2>4. IsOpen(t) => IsLastOpen(u, t.data, N + 1)
    BY <1>4, <1>8, <2>1 DEF IsLastOpen
  <2>5. \A i \in 1 .. N + 1 : IsOpen(u[i]) => IsLastOpen(u, u[i].data, i)
    BY <1>4, <2>3, <2>4
  <2> QED BY <1>4, <2>2, <2>5 DEF OpenLinked
<1>10. \A p : Around(u, p, N + 1) <=> p \in 1 .. N /\ IsOpen(tks[p])
  BY <1>1, <1>2, AroundAdded
<1>11. \A p : \A i \in 1 .. N : (Around(u, p, i) <=> Around(tks, p, i)) /\ (Within(u, p, i) <=> Within(tks, p, i))
  BY <1>1, <1>2, AroundOld DEF Tree
<1>12. KeysSound(u)
  <2>1. ASSUME NEW i \in 1 .. N + 1, u[i].isKey
        PROVE  /\ u[i].bits = "String"
               /\ \E p \in 1 .. i - 1 : Within(u, p, i) /\ u[p].bits = "Object"
               /\ i < N + 1 => /\ ~u[i + 1].isKey
                               /\ \A p \in 1 .. i : Around(u, p, i + 1) <=> Around(u, p, i)
    <3>1. CASE i = N + 1
      <4>1. Within(u, c, N + 1) /\ c \in 1 .. N
        BY <1>4, <1>8, <1>10, <2>1, <3>1 DEF Within
      <4> QED BY <1>4, <2>1, <3>1, <4>1
    <3>2. CASE i \in 1 .. N
      <4>1. tks[i].isKey /\ u[i] = tks[i]
        BY <1>4, <2>1, <3>2
      <4>2. /\ tks[i].bits = "String"
            /\ \E p \in 1 .. i - 1 : Within(tks, p, i) /\ tks[p].bits = "Object"
            /\ i < N => /\ ~tks[i + 1].isKey
                        /\ \A p \in 1 .. i : Around(tks, p, i + 1) <=> Around(tks, p, i)
        BY <1>2, <3>2, <4>1 DEF Tree, KeysSound
      <4>3. \E p \in 1 .. i - 1 : Within(u, p, i) /\ u[p].bits = "Object"
        BY <1>4, <1>11, <3>2, <4>2
      <4>4. CASE i < N
        <5>1. i + 1 \in 1 .. N
          BY <1>4, <3>2, <4>4
        <5> QED BY <1>4, <1>11, <3>2, <4>1, <4>2, <4>3, <4>4, <5>1
      <4>5. CASE i = N
        <5>1. ~t.isKey
          BY <1>2, <4>1, <4>5
        <5>2. ~IsContainer(tks[N]) /\ ~IsOpen(tks[N])
          BY <4>2, <4>5 DEF IsContainer, IsOpen
        <5>3. ASSUME NEW p \in 1 .. N PROVE Around(u, p, N + 1) <=> Around(tks, p, N)
          <6>1. ASSUME Around(tks, p, N), ~IsOpen(tks[p]) PROVE FALSE
            <7>1. p \in 1 .. N - 1 /\ IsContainer(tks[p]) /\ N <= p + tks[p].data
              BY <6>1 DEF Around
            <7>2. p + tks[p].data <= N /\ ~tks[p + tks[p].data].isKey
              BY <1>2, <1>4, <6>1, <7>1 DEF Tree, ClosedExact
            <7>3. p + tks[p].data = N
              <8>1. p \in 1 .. N /\ tks[p].data \in Nat
                BY <1>4, <1>5, <7>1
              <8>2. PICK end : end = p + tks[p].data
                OBVIOUS
              <8>3. end \in Nat /\ N \in Nat
                BY <1>4, <8>1, <8>2
              <8>4. N <= end /\ end <= N
                BY <7>1, <7>2, <8>2
              <8>5. end = N
                BY <8>3, <8>4
              <8> QED BY <8>2, <8>5
            <7> QED BY <4>1, <4>5, <7>2, <7>3
          <6>2. IsOpen(tks[p]) => Around(tks, p, N)
            BY <1>4, <5>2 DEF Around, IsOpen
          <6>3. Around(tks, p, N) => IsOpen(tks[p])
            BY <6>1
          <6> QED BY <1>10, <6>2, <6>3
        <5> QED BY <1>4, <1>11, <4>1, <4>2, <4>3, <4>5, <5>1, <5>3
      <4> QED BY <1>4, <3>2, <4>4, <4>5
    <3> QED BY <1>4, <3>1, <3>2
  <2>2. ASSUME NEW i \in 1 .. N + 1, NEW p \in 1 .. N + 1, Within(u, p, i), u[p].bits = "Object"
        PROVE  u[i].isKey \/ (i > 1 /\ u[i - 1].isKey)
    <3>1. p \in 1 .. i - 1
      BY <2>2 DEF Within, Around
    <3>2. CASE i = N + 1
      <4>1. p = c /\ u[p] = tks[p]
        <5>1. Around(u, p, N + 1)
          BY <2>2, <3>2 DEF Within
        <5>2. p <= c /\ c # 0
          BY <1>4, <1>8, <1>10, <3>1, <3>2, <5>1
        <5>3. c <= p
          BY <1>4, <1>8, <1>10, <2>2, <3>2, <5>2 DEF Within
        <5> QED BY <1>4, <1>8, <3>1, <3>2, <5>2, <5>3
      <4>2. t.isKey \/ tks[N].isKey
        BY <1>2, <1>4, <1>8, <2>2, <3>1, <3>2, <4>1
      <4> QED BY <1>4, <3>1, <3>2, <4>2
    <3>3. CASE i \in 1 .. N
      <4>1. Within(tks, p, i) /\ p \in 1 .. N /\ u[p] = tks[p] /\ u[i] = tks[i]
        BY <1>4, <1>11, <2>2, <3>1, <3>3
      <4>2. tks[i].isKey \/ (i > 1 /\ tks[i - 1].isKey)
        BY <1>2, <2>2, <3>3, <4>1 DEF Tree, KeysSound
      <4> QED BY <1>4, <3>3, <4>1, <4>2
    <3> QED BY <1>4, <3>2, <3>3
  <2> QED BY <1>4, <2>1, <2>2 DEF KeysSound
<1> QED BY <1>1, <1>2, <1>3, <1>4, <1>6, <1>7, <1>9, <1>12 DEF Tree

\* The end of a container gives it the number of tokens in it and its end, and the
\* container around it, whose index it had until then (tokenize()).
LEMMA ContainerClosed ==
    ASSUME NEW tks, NEW n, NEW c, Tree(tks, n, c), c # 0, ~tks[Len(tks)].isKey
    PROVE  Tree([tks EXCEPT ![c].data = Len(tks) - c, ![c].last = n + 1], n + 1, tks[c].data)
<1>1. PICK u : u = [tks EXCEPT ![c].data = Len(tks) - c, ![c].last = n + 1]
  OBVIOUS
<1>2. PICK N : N = Len(tks)
  OBVIOUS
<1>3. /\ N \in Nat /\ n \in Nat /\ DOMAIN tks = 1 .. N
      /\ \A i \in 1 .. N : tks[i] \in AnyToken
  BY <1>2 DEF Tree
<1>4. /\ c \in 1 .. N /\ IsOpen(tks[c]) /\ \A p \in 1 .. N : IsOpen(tks[p]) => p <= c
      /\ IsLastOpen(tks, tks[c].data, c)
  <2>1. IsLastOpen(tks, c, N + 1)
    BY <1>2 DEF Tree, OpenLinked
  <2>2. c \in 1 .. N /\ IsOpen(tks[c]) /\ \A p \in 1 .. N : IsOpen(tks[p]) => p <= c
    BY <1>3, <2>1 DEF IsLastOpen
  <2> QED BY <1>2, <2>2 DEF Tree, OpenLinked
<1>5. PICK t : t = [tks[c] EXCEPT !.data = N - c, !.last = n + 1]
  OBVIOUS
<1>6. /\ t \in AnyToken /\ t.data = N - c /\ t.last = n + 1 /\ t.first = tks[c].first
      /\ t.bits = tks[c].bits /\ t.isKey = tks[c].isKey
  <2>1. tks[c] \in AnyToken /\ N - c \in Nat /\ n + 1 \in Nat
    BY <1>3, <1>4
  <2> QED BY <1>5, <2>1 DEF AnyToken
<1>7. u = [tks EXCEPT ![c] = t]
  BY <1>1, <1>2, <1>5, Zenon
<1>8. /\ u \in Seq(AnyToken) /\ Len(u) = N /\ u[c] = t /\ \A i \in 1 .. N : i # c => u[i] = tks[i]
  BY <1>2, <1>3, <1>4, <1>6, <1>7 DEF Tree
<1>9. \A i \in 1 .. N : /\ tks[i].first \in 1 .. n /\ tks[i].last \in tks[i].first .. n
                        /\ tks[i].data \in Nat
  BY <1>2, <1>3 DEF Tree, Ordered, AnyToken
<1>10. \A i \in 1 .. N : /\ u[i].first = tks[i].first /\ u[i].bits = tks[i].bits /\ u[i].isKey = tks[i].isKey
                         /\ IsContainer(u[i]) <=> IsContainer(tks[i])
                         /\ IsOpen(u[i]) <=> IsOpen(tks[i]) /\ i # c
  <2> TAKE i \in 1 .. N
  <2>1. CASE i = c
    <3>1. ~IsOpen(u[i])
      BY <1>3, <1>4, <1>6, <1>8, <1>9, <2>1 DEF IsOpen
    <3> QED BY <1>6, <1>8, <2>1, <3>1 DEF IsContainer
  <2>2. CASE i # c
    BY <1>8, <2>2
  <2> QED BY <2>1, <2>2
<1>11. Ordered(u, n + 1)
  <2> SUFFICES ASSUME NEW i \in 1 .. N
               PROVE  /\ u[i].first \in 1 .. n + 1 /\ u[i].last \in u[i].first .. n + 1
                      /\ ~IsContainer(u[i]) => u[i].last = u[i].first
                      /\ \A j \in i + 1 .. N : u[i].first < u[j].first
    BY <1>8 DEF Ordered
  <2>1. \A j \in i + 1 .. N : u[i].first < u[j].first
    <3> TAKE j \in i + 1 .. N
    <3>1. j \in 1 .. N /\ tks[i].first < tks[j].first
      BY <1>2, <1>3 DEF Tree, Ordered
    <3> QED BY <1>10, <3>1
  <2>2. u[i].first \in 1 .. n + 1 /\ u[i].last \in u[i].first .. n + 1
    <3>1. CASE i = c
      BY <1>3, <1>6, <1>8, <1>9, <3>1
    <3>2. CASE i # c
      BY <1>3, <1>8, <1>9, <3>2
    <3> QED BY <3>1, <3>2
  <2>3. ~IsContainer(u[i]) => u[i].last = u[i].first
    <3>1. CASE i = c
      BY <1>4, <1>10, <3>1 DEF IsOpen
    <3>2. CASE i # c
      BY <1>2, <1>8, <3>2 DEF Tree, Ordered
    <3> QED BY <3>1, <3>2
  <2> QED BY <2>1, <2>2, <2>3
<1>12. ClosedExact(u)
  <2> SUFFICES ASSUME NEW i \in 1 .. N, IsContainer(u[i]), ~IsOpen(u[i])
               PROVE  /\ i + u[i].data <= N
                      /\ \A j \in i + 1 .. N : j <= i + u[i].data <=> u[j].last <= u[i].last
                      /\ \A j \in i + 1 .. i + u[i].data :
                            IsContainer(u[j]) => ~IsOpen(u[j]) /\ j + u[j].data <= i + u[i].data
                      /\ ~u[i + u[i].data].isKey
    BY <1>8 DEF ClosedExact
  <2>1. CASE i = c
    <3>1. i + u[i].data = N /\ u[i].last = n + 1
      BY <1>3, <1>4, <1>6, <1>8, <2>1
    <3>2. \A j \in i + 1 .. N : j \in 1 .. N /\ u[j] = tks[j] /\ tks[j].last <= n + 1
      BY <1>3, <1>4, <1>8, <1>9, <2>1
    <3>3. \A j \in i + 1 .. N : IsContainer(u[j]) => ~IsOpen(u[j]) /\ j + u[j].data <= N
      <4> SUFFICES ASSUME NEW j \in i + 1 .. N, IsContainer(u[j])
                   PROVE  ~IsOpen(u[j]) /\ j + u[j].data <= N
        OBVIOUS
      <4>1. ~IsOpen(tks[j]) /\ IsContainer(tks[j])
        BY <1>3, <1>4, <1>10, <2>1, <3>2
      <4> QED BY <1>2, <1>10, <3>2, <4>1 DEF Tree, ClosedExact
    <3>4. ~u[N].isKey
      BY <1>2, <1>3, <1>4, <1>10
    <3>5. PICK e : e = i + u[i].data
      OBVIOUS
    <3>6. e = N
      BY <3>1, <3>5
    <3>7. \A j \in i + 1 .. N : j <= e <=> u[j].last <= u[i].last
      <4> TAKE j \in i + 1 .. N
      <4>1. j <= e
        BY <1>3, <3>6
      <4>2. u[j].last <= u[i].last
        BY <3>1, <3>2
      <4> QED BY <4>1, <4>2
    <3>8. \A j \in i + 1 .. e : IsContainer(u[j]) => ~IsOpen(u[j]) /\ j + u[j].data <= e
      BY <3>3, <3>6
    <3> QED BY <1>3, <3>4, <3>5, <3>6, <3>7, <3>8
  <2>2. CASE i # c
    <3>1. u[i] = tks[i] /\ IsContainer(tks[i]) /\ ~IsOpen(tks[i])
      BY <1>8, <2>2
    <3>2. /\ i + tks[i].data <= N
          /\ \A j \in i + 1 .. N : j <= i + tks[i].data <=> tks[j].last <= tks[i].last
          /\ \A j \in i + 1 .. i + tks[i].data :
                IsContainer(tks[j]) => ~IsOpen(tks[j]) /\ j + tks[j].data <= i + tks[i].data
          /\ ~tks[i + tks[i].data].isKey
      BY <1>2, <3>1 DEF Tree, ClosedExact
    <3>3. tks[i].data \in Nat /\ tks[i].last \in 1 .. n
      BY <1>3, <1>9
    <3>4. c \notin i + 1 .. i + tks[i].data
      BY <1>4, <3>2 DEF IsOpen
    <3>5. \A j \in i + 1 .. i + tks[i].data : j \in 1 .. N /\ u[j] = tks[j]
      BY <1>3, <1>8, <3>2, <3>3, <3>4
    <3>6. \A j \in i + 1 .. N : j <= i + u[i].data <=> u[j].last <= u[i].last
      <4> TAKE j \in i + 1 .. N
      <4>1. CASE j = c
        BY <1>3, <1>6, <1>8, <3>1, <3>3, <3>4, <4>1
      <4>2. CASE j # c
        <5>1. j \in 1 .. N /\ u[j] = tks[j]
          BY <1>3, <1>8, <4>2
        <5> QED BY <3>1, <3>2, <5>1
      <4> QED BY <4>1, <4>2
    <3>7. i + tks[i].data \in 1 .. N
      BY <1>3, <3>2, <3>3
    <3>8. ~u[i + tks[i].data].isKey
      BY <1>10, <3>2, <3>7
    <3> QED BY <3>1, <3>2, <3>5, <3>6, <3>8
  <2> QED BY <2>1, <2>2
<1>13. OpenLinked(u, tks[c].data)
  <2>1. tks[c].data \in 0 .. c - 1 /\ (tks[c].data # 0 => IsOpen(tks[tks[c].data]))
        /\ \A p \in 1 .. c - 1 : IsOpen(tks[p]) => p <= tks[c].data
    BY <1>4 DEF IsLastOpen
  <2>2. IsLastOpen(u, tks[c].data, N + 1)
    <3>1. tks[c].data # 0 => IsOpen(u[tks[c].data])
      BY <1>3, <1>4, <1>10, <2>1
    <3>2. ASSUME NEW p \in 1 .. N + 1 - 1, IsOpen(u[p]) PROVE p <= tks[c].data
      <4>1. p \in 1 .. N /\ IsOpen(tks[p]) /\ p # c
        BY <1>3, <1>10, <3>2
      <4>2. p \in 1 .. c - 1
        BY <1>3, <1>4, <4>1
      <4> QED BY <2>1, <4>1, <4>2
    <3> QED BY <1>3, <1>4, <2>1, <3>1, <3>2 DEF IsLastOpen
  <2>3. ASSUME NEW i \in 1 .. N, IsOpen(u[i]) PROVE IsLastOpen(u, u[i].data, i)
    <3>1. i # c /\ u[i] = tks[i] /\ i < c
      BY <1>3, <1>4, <1>8, <1>10, <2>3
    <3>2. IsLastOpen(tks, tks[i].data, i)
      BY <1>2, <2>3, <3>1 DEF Tree, OpenLinked
    <3>3. \A p \in 1 .. i - 1 : p \in 1 .. N /\ u[p] = tks[p]
      BY <1>3, <1>8, <1>4, <3>1
    <3> QED BY <1>3, <3>1, <3>2, <3>3 DEF IsLastOpen
  <2> QED BY <1>8, <2>2, <2>3 DEF OpenLinked
<1>14. \A i \in 1 .. N : \A p : Around(u, p, i) <=> Around(tks, p, i)
  <2> TAKE i \in 1 .. N
  <2> TAKE p
  <2>1. CASE p = c
    <3>1. i <= c + u[c].data
      BY <1>3, <1>4, <1>6, <1>8
    <3> QED BY <1>4, <1>10, <2>1, <3>1 DEF Around
  <2>2. CASE p # c
    <3>1. p \in 1 .. i - 1 => u[p] = tks[p]
      BY <1>3, <1>8, <2>2
    <3> QED BY <3>1 DEF Around
  <2> QED BY <2>1, <2>2
<1>15. \A i \in 1 .. N : \A p : Within(u, p, i) <=> Within(tks, p, i)
  BY <1>14 DEF Within
<1>16. KeysSound(u)
  <2>1. ASSUME NEW i \in 1 .. N, u[i].isKey
        PROVE  /\ u[i].bits = "String"
               /\ \E p \in 1 .. i - 1 : Within(u, p, i) /\ u[p].bits = "Object"
               /\ i < N => /\ ~u[i + 1].isKey
                           /\ \A p \in 1 .. i : Around(u, p, i + 1) <=> Around(u, p, i)
    <3>1. tks[i].isKey
      BY <1>10, <2>1
    <3>2. /\ tks[i].bits = "String"
          /\ \E p \in 1 .. i - 1 : Within(tks, p, i) /\ tks[p].bits = "Object"
          /\ i < N => /\ ~tks[i + 1].isKey
                      /\ \A p \in 1 .. i : Around(tks, p, i + 1) <=> Around(tks, p, i)
      BY <1>2, <3>1 DEF Tree, KeysSound
    <3>3. \E p \in 1 .. i - 1 : Within(u, p, i) /\ u[p].bits = "Object"
      <4>1. PICK p \in 1 .. i - 1 : Within(tks, p, i) /\ tks[p].bits = "Object"
        BY <3>2
      <4>2. p \in 1 .. N
        BY <1>3
      <4> QED BY <1>10, <1>15, <4>1, <4>2
    <3>4. i < N => i + 1 \in 1 .. N
      BY <1>3
    <3> QED BY <1>10, <1>14, <3>2, <3>3, <3>4
  <2>2. ASSUME NEW i \in 1 .. N, NEW p \in 1 .. N, Within(u, p, i), u[p].bits = "Object"
        PROVE  u[i].isKey \/ (i > 1 /\ u[i - 1].isKey)
    <3>1. tks[i].isKey \/ (i > 1 /\ tks[i - 1].isKey)
      BY <1>2, <1>10, <1>15, <2>2 DEF Tree, KeysSound
    <3>2. i > 1 => i - 1 \in 1 .. N
      BY <1>3
    <3> QED BY <1>10, <3>1, <3>2
  <2> QED BY <1>8, <2>1, <2>2 DEF KeysSound
<1> QED BY <1>1, <1>2, <1>3, <1>8, <1>11, <1>12, <1>13, <1>16 DEF Tree

\* A text may grow.
LEMMA TreeLater ==
    ASSUME NEW tks, NEW n, NEW c, Tree(tks, n, c), NEW m \in Nat, n <= m
    PROVE  Tree(tks, m, c)
<1>1. n \in Nat
  BY DEF Tree
<1>2. Ordered(tks, m)
  BY <1>1 DEF Tree, Ordered
<1> QED BY <1>2 DEF Tree

\* What is known of a token stays known when the text grows.
LEMMA SoundLater ==
    ASSUME NEW token, NEW strs, NEW txt \in Seq(Lexemes), NEW lexeme \in Lexemes,
           TokenSound(token, strs, txt), token.first \in 1 .. Len(txt)
    PROVE  TokenSound(token, strs, Append(txt, lexeme))
<1>1. Append(txt, lexeme)[token.first] = txt[token.first]
  OBVIOUS
<1> QED BY <1>1 DEF TokenSound

\* A token that was just read.
LEMMA FreshToken ==
    ASSUME NEW bits \in {"Object", "Array", "String", "Null", "Bool", "Number"},
           NEW key \in BOOLEAN, NEW escaped \in BOOLEAN, escaped => bits = "String",
           NEW data \in Nat, NEW first \in Nat, NEW strs, NEW txt
    PROVE  LET t == Token(bits, key, escaped, data, first) IN
           /\ t \in AnyToken /\ t.bits = bits /\ t.isKey = key /\ t.isEscaped = escaped
           /\ t.data = data /\ t.first = first /\ t.last = first
           /\ ~IsParsed(t) /\ TokenSound(t, strs, txt)
<1> DEFINE t == Token(bits, key, escaped, data, first)
<1>1. /\ t.bits = bits /\ t.isKey = key /\ t.isEscaped = escaped /\ t.isParsed = FALSE
      /\ t.data = data /\ t.first = first /\ t.last = first /\ t.sizeType = "Other"
  BY DEF Token
<1>2. t \in AnyToken
  BY DEF Token, AnyToken, TypeBits
<1> HIDE DEF t
<1>3. ~IsWide(t) /\ t.bits \notin SmallNumbers
  BY <1>1 DEF IsWide, WideNumbers, SmallNumbers
<1>4. ~IsParsed(t)
  BY <1>1, <1>3 DEF IsParsed
<1>5. TokenSound(t, strs, txt)
  BY <1>1, <1>3, <1>4 DEF TokenSound
<1> QED BY <1>1, <1>2, <1>4, <1>5 DEF t

\* The container that the tokenizer is in.
LEMMA ContainerFacts ==
    ASSUME NEW tks, NEW n, NEW c, Tree(tks, n, c)
    PROVE  /\ c \in 0 .. Len(tks)
           /\ c # 0 => tks[c].bits \in {"Object", "Array"} /\ tks # <<>>
           /\ Len(tks) \in Nat
           /\ tks # <<>> => Len(tks) \in 1 .. Len(tks)
<1>1. tks \in Seq(AnyToken) /\ IsLastOpen(tks, c, Len(tks) + 1)
  BY DEF Tree, OpenLinked
<1> QED BY <1>1 DEF IsLastOpen, IsOpen, IsContainer

\* What is expected after a value.
LEMMA AfterValueFacts ==
    ASSUME NEW tks, NEW c, c # 0 => tks[c].bits \in {"Object", "Array"}
    PROVE  AfterValue(tks, c) = IF c = 0 THEN "DocumentEnd"
                                ELSE IF tks[c].bits = "Object" THEN "CommaOrObjectEnd"
                                ELSE "CommaOrArrayEnd"
  BY DEF AfterValue, NoContainer, Innermost

\* What a lexeme that was read leaves.
ReadSound ==
    /\ status' \in {"reading", "rejected"}
    /\ UNCHANGED strings
    /\ Tree(tokens', Len(text'), container')
    /\ Expecting1(tokens', container', expected')
    /\ \A i \in 1 .. Len(tokens') : ~IsParsed(tokens'[i]) /\ TokenSound(tokens'[i], strings, text')

\* What is known before.
LEMMA BeforeRead ==
    ASSUME JsonInv, NEW lexeme \in Lexemes, Read(lexeme)
    PROVE  /\ text' \in Seq(Lexemes) /\ Len(text') = Len(text) + 1 /\ Len(text) \in Nat
           /\ tokens \in Seq(AnyToken) /\ Len(tokens) \in Nat
           /\ Tree(tokens, Len(text'), container)
           /\ \A i \in 1 .. Len(tokens) : ~IsParsed(tokens[i]) /\ TokenSound(tokens[i], strings, text')
<1>1. text \in Seq(Lexemes) /\ text' = Append(text, lexeme) /\ Tree(tokens, Len(text), container)
      /\ tokens \in Seq(AnyToken)
  BY DEF JsonInv, Read, Tree
<1>2. text' \in Seq(Lexemes) /\ Len(text') = Len(text) + 1 /\ Len(text) \in Nat
  BY <1>1
<1>3. Tree(tokens, Len(text'), container)
  BY <1>1, <1>2, TreeLater
<1>4. ASSUME NEW i \in 1 .. Len(tokens)
      PROVE  ~IsParsed(tokens[i]) /\ TokenSound(tokens[i], strings, text')
  <2>1. tokens[i].first \in 1 .. Len(text)
    BY <1>1 DEF Tree, Ordered
  <2>2. ~IsParsed(tokens[i]) /\ TokenSound(tokens[i], strings, text)
    BY DEF JsonInv, Read
  <2>3. PICK token : token = tokens[i]
    OBVIOUS
  <2>4. PICK strs, txt : strs = strings /\ txt = text
    OBVIOUS
  <2>5. TokenSound(token, strs, Append(txt, lexeme))
    BY <1>1, <2>1, <2>2, <2>3, <2>4, SoundLater
  <2> QED BY <1>1, <2>2, <2>3, <2>4, <2>5
<1> QED BY <1>1, <1>2, <1>3, <1>4

\* A lexeme that is rejected changes no token.
LEMMA RejectSound ==
    ASSUME JsonInv, NEW lexeme \in Lexemes, Read(lexeme), Reject
    PROVE  ReadSound
<1>1. Expecting1(tokens, container, expected)
  BY DEF JsonInv
<1> QED BY <1>1, BeforeRead DEF ReadSound, Reject

\* A token is added, and something else expected.
LEMMA AddSound ==
    ASSUME JsonInv, NEW lexeme \in Lexemes, Read(lexeme),
           NEW t \in AnyToken, t.first = Len(text'), t.last = Len(text'),
           ~IsParsed(t), TokenSound(t, strings, text'),
           IsContainer(t) => t.data = container,
           IF t.isKey THEN /\ t.bits = "String" /\ container # 0 /\ tokens[container].bits = "Object"
                           /\ ~tokens[Len(tokens)].isKey
           ELSE container # 0 /\ tokens[container].bits = "Object" => tokens[Len(tokens)].isKey,
           tokens' = Append(tokens, t),
           container' = IF IsContainer(t) THEN Len(tokens) + 1 ELSE container,
           status' = "reading", UNCHANGED strings,
           Expecting1(tokens', container', expected')
    PROVE  ReadSound
<1>1. PICK tks, n, c : tks = tokens /\ n = Len(text) /\ c = container
  OBVIOUS
<1>2. Tree(tks, n, c)
  BY <1>1 DEF JsonInv
<1>3. n \in Nat /\ Len(text') = n + 1 /\ tks \in Seq(AnyToken)
  BY <1>1, BeforeRead
<1>4. Tree(Append(tks, t), n + 1, IF IsContainer(t) THEN Len(tks) + 1 ELSE c)
  BY <1>1, <1>2, <1>3, TokenAdded
<1>5. Tree(tokens', Len(text'), container')
  BY <1>1, <1>3, <1>4
<1>6. ASSUME NEW i \in 1 .. Len(tokens')
      PROVE  ~IsParsed(tokens'[i]) /\ TokenSound(tokens'[i], strings, text')
  <2>1. CASE i \in 1 .. Len(tokens)
    <3>1. tokens'[i] = tokens[i]
      BY <1>1, <1>3, <2>1
    <3> QED BY <2>1, <3>1, BeforeRead
  <2>2. CASE i \notin 1 .. Len(tokens)
    <3>1. tokens'[i] = t
      BY <1>1, <1>3, <2>2
    <3> QED BY <3>1
  <2> QED BY <2>1, <2>2
<1> QED BY <1>5, <1>6 DEF ReadSound

\* Reading a value or an opener: what is expected is what the container says.
LEMMA ExpectAdded ==
    ASSUME NEW tks, NEW n, NEW c, Tree(tks, n, c), NEW t \in AnyToken, NEW e,
           IF IsContainer(t) THEN ~t.isKey /\ e = IF t.bits = "Object" THEN "ObjectKeyOrEnd" ELSE "ValueOrArrayEnd"
           ELSE IF t.isKey THEN e = "ObjectKeyColon" /\ c # 0 /\ tks[c].bits = "Object"
           ELSE e = AfterValue(tks, c)
    PROVE  Expecting1(Append(tks, t), IF IsContainer(t) THEN Len(tks) + 1 ELSE c, e)
<1>1. PICK u : u = Append(tks, t)
  OBVIOUS
<1>2. PICK d : d = IF IsContainer(t) THEN Len(tks) + 1 ELSE c
  OBVIOUS
<1>3. /\ Len(tks) \in Nat /\ u # <<>> /\ Len(u) = Len(tks) + 1 /\ u[Len(u)] = t
      /\ c \in 0 .. Len(tks) /\ (c # 0 => u[c] = tks[c] /\ tks[c].bits \in {"Object", "Array"})
  BY <1>1, ContainerFacts DEF Tree
<1>4. CASE IsContainer(t)
  <2>1. d # 0 /\ u[d] = t /\ t.bits \in {"Object", "Array"}
    BY <1>2, <1>3, <1>4 DEF IsContainer
  <2> QED BY <1>1, <1>2, <1>3, <1>4, <2>1 DEF Expecting1, Expectations
<1>5. CASE ~IsContainer(t)
  <2>1. d = c
    BY <1>2, <1>5
  <2>2. CASE t.isKey
    BY <1>1, <1>2, <1>3, <1>5, <2>1, <2>2 DEF Expecting1, Expectations
  <2>3. CASE ~t.isKey
    <3>1. e = IF c = 0 THEN "DocumentEnd" ELSE IF tks[c].bits = "Object" THEN "CommaOrObjectEnd"
              ELSE "CommaOrArrayEnd"
      BY <1>3, <1>5, <2>3, AfterValueFacts
    <3> QED BY <1>1, <1>2, <1>3, <1>5, <2>1, <2>3, <3>1 DEF Expecting1, Expectations
  <2> QED BY <2>2, <2>3
<1> QED BY <1>4, <1>5

\* AddSound, with what is expected next.
LEMMA ReadAdds ==
    ASSUME JsonInv, NEW lexeme \in Lexemes, Read(lexeme),
           NEW bits \in {"Object", "Array", "String", "Null", "Bool", "Number"},
           NEW key \in BOOLEAN, NEW escaped \in BOOLEAN, escaped => bits = "String",
           NEW data \in Nat, bits \in {"Object", "Array"} => data = container,
           key => bits = "String",
           IF key THEN expected \in {"ObjectKey", "ObjectKeyOrEnd"}
           ELSE expected \in {"Value", "ValueOrArrayEnd"},
           tokens' = Append(tokens, Token(bits, key, escaped, data, Len(text'))),
           container' = IF bits \in {"Object", "Array"} THEN Len(tokens') ELSE container,
           status' = "reading", UNCHANGED strings,
           expected' = IF key THEN "ObjectKeyColon" ELSE IF bits = "Object" THEN "ObjectKeyOrEnd"
                       ELSE IF bits = "Array" THEN "ValueOrArrayEnd" ELSE AfterValue(tokens, container)
    PROVE  ReadSound
<1>1. Len(text') \in Nat /\ tokens \in Seq(AnyToken) /\ Len(tokens) \in Nat
  BY BeforeRead
<1>2. PICK first, txt, strs : first = Len(text') /\ txt = text' /\ strs = strings
  OBVIOUS
<1>3. PICK t : t = Token(bits, key, escaped, data, first)
  OBVIOUS
<1>4. /\ t \in AnyToken /\ t.bits = bits /\ t.isKey = key /\ t.isEscaped = escaped
      /\ t.data = data /\ t.first = first /\ t.last = first
      /\ ~IsParsed(t) /\ TokenSound(t, strs, txt)
  BY SMTT(30), <1>1, <1>2, <1>3, FreshToken
<1>5. IsContainer(t) <=> bits \in {"Object", "Array"}
  BY <1>4 DEF IsContainer
<1>6. PICK tks, n, c, e : tks = tokens /\ n = Len(text) /\ c = container /\ e = expected'
  OBVIOUS
<1>7. Tree(tks, n, c) /\ Expecting1(tks, c, expected)
  BY <1>6 DEF JsonInv
<1>8. tokens' = Append(tks, t)
  BY <1>2, <1>3, <1>6
<1>9. container' = IF IsContainer(t) THEN Len(tks) + 1 ELSE c
  BY <1>1, <1>5, <1>6, <1>8
<1>10. key => c # 0 /\ tks[c].bits = "Object" /\ ~tks[Len(tks)].isKey
  <2>1. c # 0 => tks # <<>>
    BY <1>7, ContainerFacts
  <2> QED BY <1>7, <2>1 DEF Expecting1
<1>11. ~key /\ c # 0 /\ tks[c].bits = "Object" => tks[Len(tks)].isKey
  <2>1. c # 0 => tks # <<>>
    BY <1>7, ContainerFacts
  <2> QED BY <1>7, <2>1 DEF Expecting1
<1>12. Expecting1(Append(tks, t), IF IsContainer(t) THEN Len(tks) + 1 ELSE c, e)
  <2>1. IF IsContainer(t) THEN ~t.isKey /\ e = IF t.bits = "Object" THEN "ObjectKeyOrEnd" ELSE "ValueOrArrayEnd"
        ELSE IF t.isKey THEN e = "ObjectKeyColon" /\ c # 0 /\ tks[c].bits = "Object"
        ELSE e = AfterValue(tks, c)
    BY <1>4, <1>5, <1>6, <1>10
  <2> QED BY <1>4, <1>7, <2>1, ExpectAdded
<1>13. Expecting1(tokens', container', expected')
  BY <1>6, <1>8, <1>9, <1>12
<1>14. IsContainer(t) => t.data = container
  BY <1>4, <1>5
<1>15. IF t.isKey THEN /\ t.bits = "String" /\ container # 0 /\ tokens[container].bits = "Object"
                       /\ ~tokens[Len(tokens)].isKey
       ELSE container # 0 /\ tokens[container].bits = "Object" => tokens[Len(tokens)].isKey
  BY <1>4, <1>6, <1>10, <1>11
<1>16. t.first = Len(text') /\ t.last = Len(text') /\ TokenSound(t, strings, text') /\ ~IsParsed(t)
  BY <1>2, <1>4
<1> QED BY <1>4, <1>6, <1>8, <1>9, <1>13, <1>14, <1>15, <1>16, AddSound

\* An object or array begins.
LEMMA OpenerSound ==
    ASSUME JsonInv, NEW lexeme \in Openers, Read(lexeme), ReadOpener(lexeme)
    PROVE  ReadSound
<1>1. lexeme \in Lexemes
  BY DEF Lexemes
<1>2. CASE expected \notin {"Value", "ValueOrArrayEnd"}
  BY <1>1, <1>2, RejectSound DEF ReadOpener
<1>3. CASE expected \in {"Value", "ValueOrArrayEnd"}
  <2>1. PICK bits : bits = IF lexeme = "{" THEN "Object" ELSE "Array"
    OBVIOUS
  <2>2. bits \in {"Object", "Array"}
    BY <2>1
  <2>3. /\ tokens' = Append(tokens, Token(bits, FALSE, FALSE, container, Len(text')))
        /\ container' = Len(tokens')
        /\ expected' = IF bits = "Object" THEN "ObjectKeyOrEnd" ELSE "ValueOrArrayEnd"
        /\ status' = "reading" /\ UNCHANGED strings
    BY <1>3, <2>1 DEF ReadOpener, Expect, Read
  <2>4. container \in Nat
    <3>1. PICK tks, n, c : tks = tokens /\ n = Len(text) /\ c = container
      OBVIOUS
    <3>2. Tree(tks, n, c)
      BY <3>1 DEF JsonInv
    <3> QED BY <3>1, <3>2, ContainerFacts
  <2>5. PICK data : data = container
    OBVIOUS
  <2> QED BY <1>1, <1>3, <2>2, <2>3, <2>4, <2>5, ReadAdds
<1> QED BY <1>2, <1>3

\* A key, or a value that is a string.
LEMMA StringSound ==
    ASSUME JsonInv, NEW lexeme \in Strings, Read(lexeme), ReadString(lexeme)
    PROVE  ReadSound
<1>1. lexeme \in Lexemes
  BY DEF Lexemes, Values
<1>2. PICK escaped : escaped = (lexeme \in {"escaped", "invalid"})
  OBVIOUS
<1>3. escaped \in BOOLEAN
  BY <1>2
<1>4. CASE expected \in {"ObjectKey", "ObjectKeyOrEnd"}
  <2>1. /\ tokens' = Append(tokens, Token("String", TRUE, escaped, 0, Len(text')))
        /\ container' = container
        /\ expected' = "ObjectKeyColon"
        /\ status' = "reading" /\ UNCHANGED strings
    BY <1>2, <1>4 DEF ReadString, Expect, Read
  <2> QED BY <1>1, <1>3, <1>4, <2>1, ReadAdds
<1>5. CASE expected \in {"Value", "ValueOrArrayEnd"}
  <2>1. /\ tokens' = Append(tokens, Token("String", FALSE, escaped, 0, Len(text')))
        /\ container' = container
        /\ expected' = AfterValue(tokens, container)
        /\ status' = "reading" /\ UNCHANGED strings
    BY <1>2, <1>5 DEF ReadString, Expect, Read
  <2> QED BY <1>1, <1>3, <1>5, <2>1, ReadAdds
<1>6. CASE expected \notin {"ObjectKey", "ObjectKeyOrEnd", "Value", "ValueOrArrayEnd"}
  <2>1. Reject
    BY <1>6 DEF ReadString
  <2> QED BY <1>1, <2>1, RejectSound
<1> QED BY <1>4, <1>5, <1>6

\* Another value.
LEMMA LiteralSound ==
    ASSUME JsonInv, NEW lexeme \in Numbers \cup Nulls \cup Booleans, Read(lexeme), ReadLiteral(lexeme)
    PROVE  ReadSound
<1>1. lexeme \in Lexemes
  BY DEF Lexemes, Values
<1>2. CASE expected \notin {"Value", "ValueOrArrayEnd"}
  BY <1>1, <1>2, RejectSound DEF ReadLiteral
<1>3. CASE expected \in {"Value", "ValueOrArrayEnd"}
  <2>1. PICK bits : bits = ValueType(lexeme)
    OBVIOUS
  <2>2. bits \in {"Null", "Bool", "Number"}
    BY <2>1 DEF ValueType, Numbers, Nulls, Booleans, Strings
  <2>3. /\ tokens' = Append(tokens, Token(bits, FALSE, FALSE, 0, Len(text')))
        /\ container' = container
        /\ expected' = AfterValue(tokens, container)
        /\ status' = "reading" /\ UNCHANGED strings
    BY <1>3, <2>1 DEF ReadLiteral, Expect, Read
  <2> QED BY <1>1, <1>3, <2>2, <2>3, ReadAdds
<1> QED BY <1>2, <1>3

\* The container that the tokenizer is in is an object or an array.
LEMMA InContainer ==
    ASSUME JsonInv
    PROVE  container # 0 => tokens # <<>> /\ tokens[container].bits \in {"Object", "Array"}
<1>1. PICK tks, n, c : tks = tokens /\ n = Len(text) /\ c = container
  OBVIOUS
<1>2. Tree(tks, n, c)
  BY <1>1 DEF JsonInv
<1>3. c # 0 => tks[c].bits \in {"Object", "Array"}
  BY <1>2, ContainerFacts
<1>4. c # 0 => tks # <<>>
  BY <1>2, ContainerFacts
<1> QED BY <1>1, <1>3, <1>4

\* A colon or comma changes what is expected only.
LEMMA SeparatorSound ==
    ASSUME JsonInv, NEW lexeme \in {":", ","}, Read(lexeme), ReadColon \/ ReadComma
    PROVE  ReadSound
<1>1. lexeme \in Lexemes
  BY DEF Lexemes
<1>2. CASE Reject
  BY <1>1, <1>2, RejectSound
<1>3. CASE ~Reject
  <2>1. /\ UNCHANGED <<container, tokens, strings>> /\ status' = "reading"
        /\ \/ expected = "ObjectKeyColon" /\ expected' = "Value"
           \/ /\ expected \in {"CommaOrObjectEnd", "CommaOrArrayEnd"}
              /\ expected' = IF tokens[container].bits = "Object" THEN "ObjectKey" ELSE "Value"
    BY <1>3 DEF ReadColon, ReadComma, Expect, Read, Innermost
  <2>2. Expecting1(tokens, container, expected)
    BY DEF JsonInv
  <2>3. container # 0 => tokens # <<>> /\ tokens[container].bits \in {"Object", "Array"}
    BY InContainer
  <2>4. PICK e : e = expected'
    OBVIOUS
  <2>5. Expecting1(tokens, container, e)
    BY <2>1, <2>2, <2>3, <2>4 DEF Expecting1, Expectations
  <2>6. Expecting1(tokens', container', expected')
    BY <2>1, <2>4, <2>5
  <2> QED BY <1>1, <2>1, <2>6, BeforeRead DEF ReadSound
<1> QED BY <1>2, <1>3

\* An object or array ends.
LEMMA ExpectClosed ==
    ASSUME NEW tks, NEW n, NEW c, Tree(tks, n, c), c # 0, ~tks[Len(tks)].isKey, NEW last \in Nat
    PROVE  LET d == tks[c].data
               u == [tks EXCEPT ![c].data = Len(tks) - c, ![c].last = last]
           IN Expecting1(u, d, AfterValue(tks, d))
<1>1. PICK u : u = [tks EXCEPT ![c].data = Len(tks) - c, ![c].last = last]
  OBVIOUS
<1>2. PICK N, d, e : N = Len(tks) /\ d = tks[c].data /\ e = AfterValue(tks, d)
  OBVIOUS
<1>3. /\ N \in Nat /\ DOMAIN tks = 1 .. N /\ c \in 1 .. N
      /\ d \in 0 .. c - 1 /\ (d # 0 => IsOpen(tks[d]))
      /\ \A i \in 1 .. N : tks[i] \in AnyToken
  <2>1. IsLastOpen(tks, c, N + 1) /\ N \in Nat /\ DOMAIN tks = 1 .. N /\ \A i \in 1 .. N : tks[i] \in AnyToken
    BY <1>2 DEF Tree, OpenLinked
  <2>2. c \in 1 .. N /\ IsOpen(tks[c])
    BY <2>1 DEF IsLastOpen
  <2>3. IsLastOpen(tks, d, c)
    BY <1>2, <2>2 DEF Tree, OpenLinked
  <2> QED BY <2>1, <2>2, <2>3 DEF IsLastOpen
<1>4. PICK t : t = [tks[c] EXCEPT !.data = N - c, !.last = last]
  OBVIOUS
<1>5. t.isKey = tks[c].isKey /\ t.bits = tks[c].bits
  BY <1>3, <1>4 DEF AnyToken
<1>6. u = [tks EXCEPT ![c] = t]
  BY <1>1, <1>2, <1>4, Zenon
<1>7. Len(u) = N /\ u # <<>> /\ u[N].isKey = tks[N].isKey /\ (d # 0 => u[d] = tks[d])
  <2>1. Len(u) = N /\ u # <<>> /\ (d # 0 => u[d] = tks[d])
    BY <1>2, <1>3, <1>6 DEF Tree
  <2>2. u[N].isKey = tks[N].isKey
    BY <1>2, <1>3, <1>5, <1>6 DEF Tree
  <2> QED BY <2>1, <2>2
<1>8. d # 0 => tks[d].bits \in {"Object", "Array"}
  BY <1>3 DEF IsOpen, IsContainer
<1>9. e = IF d = 0 THEN "DocumentEnd" ELSE IF tks[d].bits = "Object" THEN "CommaOrObjectEnd"
          ELSE "CommaOrArrayEnd"
  BY <1>2, <1>8, AfterValueFacts
<1>10. Expecting1(u, d, e)
  BY <1>2, <1>3, <1>7, <1>8, <1>9 DEF Expecting1, Expectations
<1> QED BY <1>1, <1>2, <1>10

\* An object or array ends (tokenize()).
LEMMA CloserSound ==
    ASSUME JsonInv, NEW lexeme \in Closers, Read(lexeme), ReadCloser(lexeme)
    PROVE  ReadSound
<1>1. lexeme \in Lexemes
  BY DEF Lexemes
<1>2. CASE Reject
  BY <1>1, <1>2, RejectSound
<1>3. CASE ~Reject
  <2>1. /\ expected \in {"ObjectKeyOrEnd", "ValueOrArrayEnd", "CommaOrObjectEnd", "CommaOrArrayEnd"}
        /\ tokens' = [tokens EXCEPT ![container].data = Len(tokens) - container,
                                    ![container].last = Len(text')]
        /\ container' = tokens[container].data
        /\ expected' = AfterValue(tokens, container')
        /\ status' = "reading" /\ UNCHANGED strings
    BY <1>3 DEF ReadCloser, Expect, Read
  <2>2. PICK tks, n, c : tks = tokens /\ n = Len(text) /\ c = container
    OBVIOUS
  <2>3. Tree(tks, n, c) /\ Expecting1(tks, c, expected)
    BY <2>2 DEF JsonInv
  <2>4. n \in Nat /\ Len(text') = n + 1 /\ tks \in Seq(AnyToken) /\ Len(tks) \in Nat
    BY <2>2, <1>1, BeforeRead
  <2>5. c # 0
    BY <2>1, <2>3 DEF Expecting1
  <2>6. ~tks[Len(tks)].isKey
    <3>1. tks # <<>>
      BY <2>3, <2>5, ContainerFacts
    <3> QED BY <2>1, <2>3, <3>1 DEF Expecting1
  <2>7. PICK u, d : /\ u = [tks EXCEPT ![c].data = Len(tks) - c, ![c].last = n + 1]
                    /\ d = tks[c].data
    OBVIOUS
  <2>8. tokens' = u /\ container' = d
    BY <2>1, <2>2, <2>4, <2>7
  <2>9. Tree(u, n + 1, d)
    BY <2>3, <2>5, <2>6, <2>7, ContainerClosed
  <2>10. PICK e : e = AfterValue(tks, d)
    OBVIOUS
  <2>11. Expecting1(u, d, e)
    <3>1. n + 1 \in Nat
      BY <2>4
    <3>2. Expecting1([tks EXCEPT ![c].data = Len(tks) - c, ![c].last = n + 1], tks[c].data,
                     AfterValue(tks, tks[c].data))
      BY <2>3, <2>5, <2>6, <3>1, ExpectClosed
    <3> QED BY <2>7, <2>10, <3>2, Zenon
  <2>12. expected' = e
    BY <2>1, <2>2, <2>8, <2>10
  <2>13. PICK t : t = [tks[c] EXCEPT !.data = Len(tks) - c, !.last = n + 1]
    OBVIOUS
  <2>14. u = [tks EXCEPT ![c] = t]
    BY <2>7, <2>13, Zenon
  <2>15. PICK strs, txt : strs = strings /\ txt = text'
    OBVIOUS
  <2>16. \A i \in 1 .. Len(tks) : tks[i] \in AnyToken /\ ~IsParsed(tks[i]) /\ TokenSound(tks[i], strs, txt)
    BY <1>1, <2>2, <2>4, <2>15, BeforeRead
  <2>17. c \in 1 .. Len(tks) /\ tks[c].bits \in {"Object", "Array"}
    BY <2>3, <2>4, <2>5, ContainerFacts
  <2>18. ASSUME NEW i \in 1 .. Len(u) PROVE ~IsParsed(u[i]) /\ TokenSound(u[i], strs, txt)
    <3>1. CASE i = c
      <4>1. tks[c] \in AnyToken /\ ~IsParsed(tks[c]) /\ TokenSound(tks[c], strs, txt)
        BY <2>16, <2>17
      <4>2. /\ t.bits = tks[c].bits /\ t.isParsed = tks[c].isParsed /\ t.isEscaped = tks[c].isEscaped
            /\ t.sizeType = tks[c].sizeType
        BY <2>13, <4>1 DEF AnyToken
      <4>3. ~IsWide(t) /\ ~IsWide(tks[c]) /\ t.bits \notin SmallNumbers
        BY <2>17, <4>2 DEF IsWide, WideNumbers, SmallNumbers
      <4>4. ~IsParsed(t)
        BY <4>1, <4>2, <4>3 DEF IsParsed
      <4>5. TokenSound(t, strs, txt)
        BY <2>17, <4>1, <4>2, <4>3, <4>4 DEF TokenSound
      <4>6. u[i] = t
        BY <2>4, <2>14, <2>17, <3>1
      <4> QED BY <4>4, <4>5, <4>6
    <3>2. CASE i # c
      <4>1. i \in 1 .. Len(tks) /\ u[i] = tks[i]
        BY <2>4, <2>14, <3>2
      <4> QED BY <2>16, <4>1
    <3> QED BY <3>1, <3>2
  <2>19. Tree(tokens', Len(text'), container')
    BY <2>4, <2>8, <2>9
  <2>20. Expecting1(tokens', container', expected')
    BY <2>8, <2>11, <2>12
  <2>21. \A i \in 1 .. Len(tokens') : ~IsParsed(tokens'[i]) /\ TokenSound(tokens'[i], strings, text')
    BY <2>8, <2>15, <2>18
  <2> QED BY <2>1, <2>19, <2>20, <2>21 DEF ReadSound
<1> QED BY <1>2, <1>3

\* Any lexeme: the invariant is kept, and tokenizing parses nothing.
LEMMA ReadKeeps ==
    ASSUME JsonInv, NEW lexeme \in Lexemes, Read(lexeme)
    PROVE  JsonInv' /\ \A i \in 1 .. Len(tokens) : ~IsParsed(tokens[i])
<1>1. ReadSound
  <2>1. CASE lexeme \in Openers
    <3>1. ReadOpener(lexeme)
      BY <2>1 DEF Read, Openers, Closers, Strings
    <3> QED BY <2>1, <3>1, OpenerSound
  <2>2. CASE lexeme \in Closers
    <3>1. ReadCloser(lexeme)
      BY <2>2 DEF Read, Openers, Closers, Strings
    <3> QED BY <2>2, <3>1, CloserSound
  <2>3. CASE lexeme \in Strings
    <3>1. ReadString(lexeme)
      BY <2>3 DEF Read, Openers, Closers, Strings
    <3> QED BY <2>3, <3>1, StringSound
  <2>4. CASE lexeme = ":"
    <3>1. ReadColon
      BY <2>4 DEF Read, Openers, Closers, Strings
    <3> QED BY <2>4, <3>1, SeparatorSound
  <2>5. CASE lexeme = ","
    <3>1. ReadComma
      BY <2>5 DEF Read, Openers, Closers, Strings
    <3> QED BY <2>5, <3>1, SeparatorSound
  <2>6. CASE lexeme \in Numbers \cup Nulls \cup Booleans
    <3>1. ReadLiteral(lexeme)
      BY <2>6 DEF Read, Openers, Closers, Strings, Numbers, Nulls, Booleans
    <3> QED BY <2>6, <3>1, LiteralSound
  <2> QED BY <2>1, <2>2, <2>3, <2>4, <2>5, <2>6 DEF Lexemes, Values
<1>2. text' \in Seq(Lexemes) /\ text \in Seq(Lexemes) /\ Len(text') = Len(text) + 1
  BY BeforeRead DEF JsonInv
<1>3. strings' \in Seq(Nat) /\ \A k \in DOMAIN strings' : strings'[k] \in {NoText} \cup DOMAIN text'
  <2>1. \A x \in DOMAIN text : x \in DOMAIN text'
    BY <1>2
  <2> QED BY <1>1, <2>1 DEF ReadSound, JsonInv
<1>4. \A i \in 1 .. Len(tokens') : TokenSound(tokens'[i], strings', text')
  BY <1>1 DEF ReadSound
<1>5. \A i \in 1 .. Len(tokens) : ~IsParsed(tokens[i])
  BY BeforeRead
<1> QED BY <1>1, <1>2, <1>3, <1>4, <1>5 DEF ReadSound, JsonInv

-----------------------------------------------------------------------------
\* What parsing does to a token.

\* What all parsing leaves of a token.
Kept(t, u) ==
    /\ u \in AnyToken
    /\ Kind(u) = Kind(t) /\ u.isKey = t.isKey /\ u.isEscaped = t.isEscaped
    /\ u.first = t.first /\ u.last = t.last
    /\ IsContainer(t) => u.data = t.data
    /\ IsParsed(t) => IsParsed(u)

\* r is what can be made of tks.
Good(tks, r) ==
    /\ r \in [ok: BOOLEAN, tokens: Seq(AnyToken), strings: Seq(Nat)]
    /\ Len(r.tokens) = Len(tks)
    /\ \A i \in 1 .. Len(tks) : Kept(tks[i], r.tokens[i]) /\ TokenSound(r.tokens[i], r.strings, text)
    /\ \A k \in DOMAIN r.strings : r.strings[k] \in {NoText} \cup DOMAIN text

\* Only token i may differ.
Others(tks, r, q, i) == \A j \in 1 .. Len(tks) : j # i => q.tokens[j] = r.tokens[j]

\* The token is parsed to the type.
AsType(t, type) ==
    /\ IsParsed(t)
    /\ IF type \in NumberTypes THEN ParsedType(t) = type ELSE t.bits = type

\* These are tokens of a text.
InText(tks) ==
    /\ tks \in Seq(AnyToken) /\ Len(tks) \in Nat
    /\ text \in Seq(Lexemes)
    /\ \A i \in 1 .. Len(tks) : tks[i].first \in DOMAIN text

\* The kind of a token, from its type bits.
LEMMA KindFacts ==
    ASSUME NEW t \in AnyToken
    PROVE  /\ Kind(t) = "Number" <=> IsNumber(t)
           /\ \A b \in {"Object", "Array", "String", "Null", "Bool"} : Kind(t) = b <=> t.bits = b
           /\ IsNumber(t) <=> t.bits \in NumberTypes \cup {"Number"}
           /\ IsWide(t) <=> t.bits \in WideNumbers
           /\ IsContainer(t) <=> Kind(t) \in {"Object", "Array"}
           /\ t.bits \in TypeBits
  BY DEF Kind, IsNumber, IsWide, NumberTypes, WideNumbers, SmallNumbers, TypeBits, IsContainer, AnyToken

\* What parsing leaves of a token, two calls leave.
LEMMA KeptTwice ==
    ASSUME NEW s \in AnyToken, NEW t \in AnyToken, NEW u, Kept(s, t), Kept(t, u)
    PROVE  Kept(s, u)
<1>1. IsContainer(s) => IsContainer(t)
  BY KindFacts DEF Kept
<1> QED BY <1>1 DEF Kept

\* Strings that are added change nothing for the others.
LEMMA SoundWithMore ==
    ASSUME NEW t, NEW strs \in Seq(Nat), NEW s \in Nat, NEW txt, TokenSound(t, strs, txt)
    PROVE  TokenSound(t, Append(strs, s), txt)
<1>1. \A k \in DOMAIN strs : k \in DOMAIN Append(strs, s) /\ Append(strs, s)[k] = strs[k]
  OBVIOUS
<1> QED BY <1>1 DEF TokenSound

\* One token of a result replaced, with strings that may have been added.
LEMMA TokenReplaced ==
    ASSUME NEW tks, InText(tks), NEW r, Good(tks, r), NEW i \in 1 .. Len(tks),
           NEW t, Kept(r.tokens[i], t), NEW strs \in Seq(Nat), TokenSound(t, strs, text),
           \A j \in 1 .. Len(tks) : TokenSound(r.tokens[j], strs, text),
           \A k \in DOMAIN strs : strs[k] \in {NoText} \cup DOMAIN text,
           NEW ok \in BOOLEAN
    PROVE  LET q == [ok |-> ok, tokens |-> [r.tokens EXCEPT ![i] = t], strings |-> strs]
           IN Good(tks, q) /\ Others(tks, r, q, i) /\ q.tokens[i] = t /\ q.ok = ok /\ q.strings = strs
<1>0. PICK q : q = [ok |-> ok, tokens |-> [r.tokens EXCEPT ![i] = t], strings |-> strs]
  OBVIOUS
<1>1. r.tokens \in Seq(AnyToken) /\ Len(r.tokens) = Len(tks) /\ Len(tks) \in Nat
  BY DEF Good, InText
<1>2. t \in AnyToken
  BY DEF Kept
<1>3. PICK u : u = [r.tokens EXCEPT ![i] = t]
  OBVIOUS
<1>4. /\ u \in Seq(AnyToken) /\ Len(u) = Len(tks) /\ u[i] = t
      /\ \A j \in 1 .. Len(tks) : j # i => u[j] = r.tokens[j]
  BY <1>1, <1>2, <1>3
<1>5. q.ok = ok /\ q.tokens = u /\ q.strings = strs
      /\ q \in [ok: BOOLEAN, tokens: Seq(AnyToken), strings: Seq(Nat)]
  BY <1>0, <1>3, <1>4
<1>6. ASSUME NEW j \in 1 .. Len(tks) PROVE Kept(tks[j], u[j]) /\ TokenSound(u[j], strs, text)
  <2>1. CASE j = i
    <3>1. Kept(tks[i], r.tokens[i]) /\ tks[i] \in AnyToken /\ r.tokens[i] \in AnyToken
      BY <1>1 DEF Good, InText
    <3> QED BY <1>4, <2>1, <3>1, KeptTwice
  <2>2. CASE j # i
    BY <1>4, <2>2 DEF Good
  <2> QED BY <2>1, <2>2
<1>7. Good(tks, q) /\ Others(tks, r, q, i) /\ q.tokens[i] = t /\ q.ok = ok /\ q.strings = strs
  BY <1>4, <1>5, <1>6 DEF Good, Others
<1> QED BY <1>0, <1>7, Zenon

\* Without new strings.
LEMMA TokenChanged ==
    ASSUME NEW tks, InText(tks), NEW r, Good(tks, r), NEW i \in 1 .. Len(tks),
           NEW t, Kept(r.tokens[i], t), TokenSound(t, r.strings, text)
    PROVE  LET q == [r EXCEPT !.tokens[i] = t]
           IN Good(tks, q) /\ Others(tks, r, q, i) /\ q.tokens[i] = t /\ q.ok = r.ok
<1>0. PICK q : q = [r EXCEPT !.tokens[i] = t]
  OBVIOUS
<1>1. /\ r \in [ok: BOOLEAN, tokens: Seq(AnyToken), strings: Seq(Nat)]
      /\ \A j \in 1 .. Len(tks) : TokenSound(r.tokens[j], r.strings, text)
      /\ \A k \in DOMAIN r.strings : r.strings[k] \in {NoText} \cup DOMAIN text
  BY DEF Good
<1>2. PICK u : u = [r.tokens EXCEPT ![i] = t]
  OBVIOUS
<1>3. q = [ok |-> r.ok, tokens |-> u, strings |-> r.strings]
  BY <1>0, <1>1, <1>2
<1>4. PICK ok, strs : ok = r.ok /\ strs = r.strings
  OBVIOUS
<1>5. q = [ok |-> ok, tokens |-> [r.tokens EXCEPT ![i] = t], strings |-> strs]
  BY <1>2, <1>3, <1>4
<1>6. ok \in BOOLEAN /\ strs \in Seq(Nat) /\ TokenSound(t, strs, text)
  BY <1>1, <1>4
<1>7. /\ \A j \in 1 .. Len(tks) : TokenSound(r.tokens[j], strs, text)
      /\ \A k \in DOMAIN strs : strs[k] \in {NoText} \cup DOMAIN text
  BY <1>1, <1>4
<1>8. Good(tks, q) /\ Others(tks, r, q, i) /\ q.tokens[i] = t /\ q.ok = ok
  <2>1. LET p == [ok |-> ok, tokens |-> [r.tokens EXCEPT ![i] = t], strings |-> strs]
        IN Good(tks, p) /\ Others(tks, r, p, i) /\ p.tokens[i] = t /\ p.ok = ok
    BY <1>6, <1>7, TokenReplaced
  <2> QED BY <1>5, <2>1, Zenon
<1> QED BY <1>0, <1>4, <1>8, Zenon

\* A failure keeps what was done.
LEMMA FailedGood ==
    ASSUME NEW tks, NEW r, Good(tks, r), NEW i
    PROVE  Good(tks, Failed(r)) /\ Others(tks, r, Failed(r), i) /\ ~Failed(r).ok
           /\ Failed(r).tokens = r.tokens /\ Failed(r).strings = r.strings
<1>1. PICK q : q = Failed(r)
  OBVIOUS
<1>2. r \in [ok: BOOLEAN, tokens: Seq(AnyToken), strings: Seq(Nat)]
  BY DEF Good
<1>3. q \in [ok: BOOLEAN, tokens: Seq(AnyToken), strings: Seq(Nat)] /\ ~q.ok
      /\ q.tokens = r.tokens /\ q.strings = r.strings
  BY <1>1, <1>2 DEF Failed
<1> QED BY <1>1, <1>3 DEF Good, Others

-----------------------------------------------------------------------------
\* The parsing functions of one token.

\* What is known of a token that is parsed.
LEMMA TokenFacts ==
    ASSUME NEW tks, InText(tks), NEW r, Good(tks, r), NEW i \in 1 .. Len(tks)
    PROVE  /\ r.tokens[i] \in AnyToken /\ r.ok \in BOOLEAN /\ r.strings \in Seq(Nat)
           /\ TokenSound(r.tokens[i], r.strings, text)
           /\ r.tokens[i].first \in DOMAIN text
           /\ TextOf(r, i) = text[r.tokens[i].first]
           /\ Kind(r.tokens[i]) = Kind(tks[i])
  BY DEF Good, InText, Kept, TextOf

\* Only the flag of a token that is no number, or a string without escapes.
LEMMA FlagGood ==
    ASSUME NEW tks, InText(tks), NEW r, Good(tks, r), NEW i \in 1 .. Len(tks),
           r.tokens[i].bits \in {"Object", "Array", "Null", "Bool", "String"},
           r.tokens[i].bits = "String" => ~r.tokens[i].isEscaped
    PROVE  LET q == [r EXCEPT !.tokens[i].isParsed = TRUE]
           IN /\ Good(tks, q) /\ Others(tks, r, q, i) /\ q.ok = r.ok
              /\ IsParsed(q.tokens[i]) /\ q.tokens[i].bits = r.tokens[i].bits
<1>0. PICK q : q = [r EXCEPT !.tokens[i].isParsed = TRUE]
  OBVIOUS
<1>1. PICK s : s = r.tokens[i]
  OBVIOUS
<1>2. PICK t : t = [s EXCEPT !.isParsed = TRUE]
  OBVIOUS
<1>3. s \in AnyToken /\ TokenSound(s, r.strings, text)
  BY <1>1, TokenFacts
<1>4. /\ t \in AnyToken /\ t.isParsed = TRUE /\ t.bits = s.bits /\ t.isKey = s.isKey
      /\ t.isEscaped = s.isEscaped /\ t.data = s.data /\ t.sizeType = s.sizeType
      /\ t.first = s.first /\ t.last = s.last
  BY <1>2, <1>3 DEF AnyToken
<1>5. ~IsWide(s) /\ ~IsWide(t) /\ ~IsNumber(s) /\ ~IsNumber(t) /\ t.bits \notin SmallNumbers
  BY <1>1, <1>4 DEF IsWide, IsNumber, WideNumbers, SmallNumbers
<1>6. IsParsed(t) /\ Kind(t) = Kind(s) /\ (IsContainer(t) <=> IsContainer(s))
  BY <1>4, <1>5 DEF IsParsed, Kind, IsContainer
<1>7. Kept(r.tokens[i], t)
  BY <1>1, <1>4, <1>6 DEF Kept
<1>8. ParsedType(t) = "Other"
  BY <1>4, <1>5 DEF ParsedType
<1>9. TokenSound(t, r.strings, text)
  BY <1>1, <1>3, <1>4, <1>5, <1>8 DEF TokenSound
<1>10. q = [r EXCEPT !.tokens[i] = t]
  BY <1>0, <1>1, <1>2, Zenon
<1>11. Good(tks, q) /\ Others(tks, r, q, i) /\ q.tokens[i] = t /\ q.ok = r.ok
  <2>1. LET p == [r EXCEPT !.tokens[i] = t]
        IN Good(tks, p) /\ Others(tks, r, p, i) /\ p.tokens[i] = t /\ p.ok = r.ok
    BY <1>7, <1>9, TokenChanged
  <2> QED BY <1>10, <2>1, Zenon
<1>12. IsParsed(q.tokens[i]) /\ q.tokens[i].bits = r.tokens[i].bits
  BY <1>1, <1>4, <1>6, <1>11
<1> QED BY <1>0, <1>11, <1>12, Zenon

\* A number of a type that can represent it.
LEMMA NumberGood ==
    ASSUME NEW tks, InText(tks), NEW r, Good(tks, r), NEW i \in 1 .. Len(tks),
           Kind(r.tokens[i]) = "Number",
           NEW type \in NumberTypes, Represents(type, TextOf(r, i)),
           NEW t \in AnyToken, t.bits = type, t.isKey = r.tokens[i].isKey,
           t.isEscaped = r.tokens[i].isEscaped, t.first = r.tokens[i].first, t.last = r.tokens[i].last,
           IF type \in WideNumbers THEN t.sizeType = type ELSE t.isParsed /\ t.sizeType = "Other"
    PROVE  LET q == [r EXCEPT !.tokens[i] = t]
           IN Good(tks, q) /\ Others(tks, r, q, i) /\ AsType(q.tokens[i], type)
<1>1. PICK s : s = r.tokens[i]
  OBVIOUS
<1>2. s \in AnyToken /\ TokenSound(s, r.strings, text) /\ IsNumber(s) /\ Represents(type, text[s.first])
  BY <1>1, TokenFacts, KindFacts
<1>3. /\ IsWide(t) <=> type \in WideNumbers
      /\ IsNumber(t) /\ Kind(t) = "Number" /\ Kind(s) = "Number"
      /\ ~IsContainer(s) /\ s.bits # "String" /\ t.bits # "String"
  <2>1. s.bits \in NumberTypes \cup {"Number"}
    BY <1>2, KindFacts
  <2> QED BY <1>2, <2>1 DEF IsWide, IsNumber, Kind, IsContainer, NumberTypes, WideNumbers, SmallNumbers
<1>4. type \in SmallNumbers => type \notin WideNumbers
  BY DEF SmallNumbers, WideNumbers
<1>5. IsParsed(t) /\ ParsedType(t) = type
  BY <1>3, <1>4 DEF IsParsed, ParsedType, NumberTypes
<1>6. Kept(r.tokens[i], t)
  BY <1>1, <1>3, <1>5 DEF Kept
<1>7. ~s.isEscaped
  BY <1>2, <1>3 DEF TokenSound
<1>8. TokenSound(t, r.strings, text)
  BY <1>1, <1>2, <1>3, <1>4, <1>5, <1>7 DEF TokenSound, AnyToken
<1>9. PICK q : q = [r EXCEPT !.tokens[i] = t]
  OBVIOUS
<1>10. Good(tks, q) /\ Others(tks, r, q, i) /\ q.tokens[i] = t
  <2>1. LET p == [r EXCEPT !.tokens[i] = t]
        IN Good(tks, p) /\ Others(tks, r, p, i) /\ p.tokens[i] = t
    BY <1>6, <1>8, TokenChanged
  <2> QED BY <1>9, <2>1, Zenon
<1>11. AsType(q.tokens[i], type)
  BY <1>5, <1>10 DEF AsType
<1> QED BY <1>9, <1>10, <1>11, Zenon

\* What each of the functions promises.
Parses(tks, r, q, i, type) ==
    /\ Good(tks, q)
    /\ Others(tks, r, q, i)
    /\ q.ok => AsType(q.tokens[i], type)

\* A token that is parsed to the type already.
LEMMA NothingParsed ==
    ASSUME NEW tks, NEW r, Good(tks, r), NEW i, NEW type, AsType(r.tokens[i], type)
    PROVE  Parses(tks, r, r, i, type)
  BY DEF Parses, Others

\* A token that cannot be parsed to the type.
LEMMA FailureParses ==
    ASSUME NEW tks, NEW r, Good(tks, r), NEW i, NEW type
    PROVE  Parses(tks, r, Failed(r), i, type)
  BY FailedGood DEF Parses

\* A null or a boolean.
LEMMA LiteralParses ==
    ASSUME NEW tks, InText(tks), NEW r, Good(tks, r), NEW i \in 1 .. Len(tks),
           NEW type \in {"Null", "Bool"}, Kind(r.tokens[i]) = type
    PROVE  Parses(tks, r, ParseLiteralInternal(r, i), i, type)
<1>1. r.tokens[i] \in AnyToken /\ r.tokens[i].bits = type
  BY TokenFacts, KindFacts
<1>2. CASE TextOf(r, i) \in {"null", "true"}
  <2>1. PICK q : q = [r EXCEPT !.tokens[i].isParsed = TRUE]
    OBVIOUS
  <2>2. Good(tks, q) /\ Others(tks, r, q, i) /\ IsParsed(q.tokens[i]) /\ q.tokens[i].bits = r.tokens[i].bits
    <3>1. LET p == [r EXCEPT !.tokens[i].isParsed = TRUE]
          IN /\ Good(tks, p) /\ Others(tks, r, p, i)
             /\ IsParsed(p.tokens[i]) /\ p.tokens[i].bits = r.tokens[i].bits
      BY <1>1, FlagGood
    <3> QED BY <2>1, <3>1, Zenon
  <2>3. type \notin NumberTypes
    BY DEF NumberTypes, WideNumbers, SmallNumbers
  <2>4. ParseLiteralInternal(r, i) = q
    BY <1>2, <2>1 DEF ParseLiteralInternal
  <2> QED BY <1>1, <2>2, <2>3, <2>4 DEF Parses, AsType
<1>3. CASE TextOf(r, i) \notin {"null", "true"}
  BY <1>3, FailureParses DEF ParseLiteralInternal
<1> QED BY <1>2, <1>3

\* A number whose value does not fit into the token: its type is in the size bits.
LEMMA WideParses ==
    ASSUME NEW tks, InText(tks), NEW r, Good(tks, r), NEW i \in 1 .. Len(tks),
           NEW type \in WideNumbers, Kind(r.tokens[i]) = "Number"
    PROVE  Parses(tks, r, ParseWideInternal(r, type, i), i, type)
<1>1. type \in NumberTypes /\ type # "Other" /\ type \notin SmallNumbers
  BY DEF NumberTypes, WideNumbers, SmallNumbers
<1>2. CASE r.tokens[i].sizeType = type
  <2>1. PICK s : s = r.tokens[i]
    OBVIOUS
  <2>2. TokenSound(s, r.strings, text) /\ s.sizeType = type
    BY <1>2, <2>1, TokenFacts
  <2>3. IsWide(s) /\ ParsedType(s) = type
    BY <1>1, <2>2 DEF TokenSound, ParsedType
  <2>4. AsType(s, type)
    BY <1>1, <2>3 DEF AsType, IsParsed
  <2>5. ParseWideInternal(r, type, i) = r
    BY <1>2 DEF ParseWideInternal
  <2> QED BY <2>1, <2>4, <2>5, NothingParsed
<1>3. CASE r.tokens[i].sizeType # type /\ ~Represents(type, TextOf(r, i))
  <2>1. ParseWideInternal(r, type, i) = Failed(r)
    BY <1>3 DEF ParseWideInternal
  <2> QED BY <2>1, FailureParses
<1>4. CASE r.tokens[i].sizeType # type /\ Represents(type, TextOf(r, i))
  <2>1. PICK s : s = r.tokens[i]
    OBVIOUS
  <2>0. PICK parsed, size : parsed = FALSE /\ size = type
    OBVIOUS
  <2>2. PICK t : t = [s EXCEPT !.bits = type, !.isParsed = parsed, !.sizeType = size]
    OBVIOUS
  <2>3. s \in AnyToken
    BY <2>1, TokenFacts
  <2>4. /\ t \in AnyToken /\ t.bits = type /\ t.isKey = s.isKey /\ t.isEscaped = s.isEscaped
        /\ t.first = s.first /\ t.last = s.last /\ t.isParsed = FALSE /\ t.sizeType = type
    BY <1>1, <2>0, <2>2, <2>3 DEF AnyToken, TypeBits
  <2>5. ParseWideInternal(r, type, i) = [r EXCEPT !.tokens[i] = t]
    <3>1. ParseWideInternal(r, type, i) = [r EXCEPT !.tokens[i].bits = type, !.tokens[i].isParsed = parsed,
                                                    !.tokens[i].sizeType = size]
      BY <2>0, <1>4 DEF ParseWideInternal
    <3>2. PICK q : q = [r EXCEPT !.tokens[i].bits = type, !.tokens[i].isParsed = parsed,
                                 !.tokens[i].sizeType = size]
      OBVIOUS
    <3>3. q = [r EXCEPT !.tokens[i] = t]
      BY <2>1, <2>2, <3>2, Zenon
    <3> QED BY <3>1, <3>2, <3>3, Zenon
  <2>6. LET q == [r EXCEPT !.tokens[i] = t]
        IN Good(tks, q) /\ Others(tks, r, q, i) /\ AsType(q.tokens[i], type)
    BY <1>1, <1>4, <2>1, <2>4, NumberGood
  <2> QED BY <2>5, <2>6, Zenon DEF Parses
<1> QED BY <1>2, <1>3, <1>4

\* A number whose value fits into the token: its type is in the type bits.
LEMMA SmallParses ==
    ASSUME NEW tks, InText(tks), NEW r, Good(tks, r), NEW i \in 1 .. Len(tks),
           NEW type \in SmallNumbers, Kind(r.tokens[i]) = "Number"
    PROVE  Parses(tks, r, ParseSmallInternal(r, type, i), i, type)
<1>1. type \in NumberTypes /\ type \notin WideNumbers
  BY DEF NumberTypes, WideNumbers, SmallNumbers
<1>2. CASE r.tokens[i].bits = type
  <2>1. PICK s : s = r.tokens[i]
    OBVIOUS
  <2>2. TokenSound(s, r.strings, text) /\ s.bits = type /\ ~IsWide(s)
    BY <1>1, <1>2, <2>1, TokenFacts DEF IsWide
  <2>3. s.isParsed /\ ParsedType(s) = type
    BY <1>1, <2>2 DEF TokenSound, ParsedType
  <2>4. AsType(s, type)
    BY <1>1, <2>3 DEF AsType, IsParsed
  <2>5. ParseSmallInternal(r, type, i) = r
    BY <1>2 DEF ParseSmallInternal
  <2> QED BY <2>1, <2>4, <2>5, NothingParsed
<1>3. CASE r.tokens[i].bits # type /\ ~Represents(type, TextOf(r, i))
  <2>1. ParseSmallInternal(r, type, i) = Failed(r)
    BY <1>3 DEF ParseSmallInternal
  <2> QED BY <2>1, FailureParses
<1>4. CASE r.tokens[i].bits # type /\ Represents(type, TextOf(r, i))
  <2>1. PICK s : s = r.tokens[i]
    OBVIOUS
  <2>0. PICK parsed, size : parsed = TRUE /\ size = "Other"
    OBVIOUS
  <2>2. PICK t : t = [s EXCEPT !.bits = type, !.isParsed = parsed, !.sizeType = size]
    OBVIOUS
  <2>3. s \in AnyToken
    BY <2>1, TokenFacts
  <2>4. /\ t \in AnyToken /\ t.bits = type /\ t.isKey = s.isKey /\ t.isEscaped = s.isEscaped
        /\ t.first = s.first /\ t.last = s.last /\ t.isParsed = TRUE /\ t.sizeType = "Other"
    BY <1>1, <2>0, <2>2, <2>3 DEF AnyToken, TypeBits
  <2>5. ParseSmallInternal(r, type, i) = [r EXCEPT !.tokens[i] = t]
    <3>1. ParseSmallInternal(r, type, i) = [r EXCEPT !.tokens[i].bits = type, !.tokens[i].isParsed = parsed,
                                                    !.tokens[i].sizeType = size]
      BY <2>0, <1>4 DEF ParseSmallInternal
    <3>2. PICK q : q = [r EXCEPT !.tokens[i].bits = type, !.tokens[i].isParsed = parsed,
                                 !.tokens[i].sizeType = size]
      OBVIOUS
    <3>3. q = [r EXCEPT !.tokens[i] = t]
      BY <2>1, <2>2, <3>2, Zenon
    <3> QED BY <3>1, <3>2, <3>3, Zenon
  <2>6. LET q == [r EXCEPT !.tokens[i] = t]
        IN Good(tks, q) /\ Others(tks, r, q, i) /\ AsType(q.tokens[i], type)
    BY <1>1, <1>4, <2>1, <2>4, NumberGood
  <2> QED BY <2>5, <2>6, Zenon DEF Parses
<1> QED BY <1>2, <1>3, <1>4

\* One more string, of a text or of a failure.
LEMMA StringAdded ==
    ASSUME NEW tks, InText(tks), NEW r, Good(tks, r), NEW s \in {NoText} \cup DOMAIN text
    PROVE  LET strs == Append(r.strings, s)
           IN /\ strs \in Seq(Nat) /\ Len(strs) = Len(r.strings) + 1 /\ Len(r.strings) \in Nat
              /\ \A j \in 1 .. Len(tks) : TokenSound(r.tokens[j], strs, text)
              /\ \A k \in DOMAIN strs : strs[k] \in {NoText} \cup DOMAIN text
              /\ Len(strs) \in DOMAIN strs /\ strs[Len(strs)] = s
<1>1. r.strings \in Seq(Nat) /\ \A k \in DOMAIN r.strings : r.strings[k] \in {NoText} \cup DOMAIN text
  BY DEF Good
<1>2. s \in Nat
  BY DEF NoText, InText
<1>3. PICK old : old = r.strings
  OBVIOUS
<1>4. PICK strs : strs = Append(old, s)
  OBVIOUS
<1>5. \A j \in 1 .. Len(tks) : TokenSound(r.tokens[j], strs, text)
  <2> TAKE j \in 1 .. Len(tks)
  <2>1. PICK t, txt : t = r.tokens[j] /\ txt = text
    OBVIOUS
  <2>2. TokenSound(t, old, txt) /\ old \in Seq(Nat)
    BY <1>1, <1>3, <2>1 DEF Good
  <2>3. TokenSound(t, strs, txt)
    BY <1>2, <1>4, <2>2, SoundWithMore
  <2> QED BY <2>1, <2>3
<1>6. strs \in Seq(Nat) /\ Len(strs) = Len(old) + 1 /\ Len(old) \in Nat /\ strs[Len(strs)] = s
      /\ Len(strs) \in DOMAIN strs
  BY <1>1, <1>2, <1>3, <1>4
<1>7. \A k \in DOMAIN strs : strs[k] \in {NoText} \cup DOMAIN text
  <2> TAKE k \in DOMAIN strs
  <2>1. CASE k = Len(strs)
    BY <1>6, <2>1
  <2>2. CASE k # Len(strs)
    <3>1. k \in DOMAIN old /\ strs[k] = old[k]
      BY <1>1, <1>2, <1>3, <1>4, <2>2
    <3> QED BY <1>1, <1>3, <3>1
  <2> QED BY <2>1, <2>2
<1> QED BY <1>3, <1>4, <1>5, <1>6, <1>7, Zenon

\* A string: one with escapes is put at the end of the strings of the instance, and
\* the token has its index (parseStringInternal()).
LEMMA StringParses ==
    ASSUME NEW tks, InText(tks), NEW r, Good(tks, r), NEW i \in 1 .. Len(tks),
           r.tokens[i].bits = "String"
    PROVE  Parses(tks, r, ParseStringInternal(r, i), i, "String")
<1>1. PICK s : s = r.tokens[i]
  OBVIOUS
<1>2. /\ s \in AnyToken /\ TokenSound(s, r.strings, text) /\ s.first \in DOMAIN text /\ s.bits = "String"
      /\ r.ok \in BOOLEAN /\ r.strings \in Seq(Nat)
  BY <1>1, TokenFacts
<1>3. "String" \notin NumberTypes
  BY DEF NumberTypes, WideNumbers, SmallNumbers
<1>4. CASE s.isParsed
  <2>1. AsType(s, "String")
    BY <1>2, <1>3, <1>4 DEF AsType, IsParsed
  <2>2. ParseStringInternal(r, i) = r
    BY <1>1, <1>4 DEF ParseStringInternal
  <2> QED BY <1>1, <2>1, <2>2, NothingParsed
<1>5. CASE ~s.isParsed /\ ~s.isEscaped
  <2>1. PICK q : q = [r EXCEPT !.tokens[i].isParsed = TRUE]
    OBVIOUS
  <2>2. Good(tks, q) /\ Others(tks, r, q, i) /\ IsParsed(q.tokens[i]) /\ q.tokens[i].bits = r.tokens[i].bits
    <3>1. LET p == [r EXCEPT !.tokens[i].isParsed = TRUE]
          IN /\ Good(tks, p) /\ Others(tks, r, p, i)
             /\ IsParsed(p.tokens[i]) /\ p.tokens[i].bits = r.tokens[i].bits
      BY <1>1, <1>5, FlagGood
    <3> QED BY <2>1, <3>1, Zenon
  <2>3. ParseStringInternal(r, i) = q
    BY <1>1, <1>5, <2>1 DEF ParseStringInternal
  <2> QED BY <1>3, <2>2, <2>3 DEF Parses, AsType
<1>6. CASE ~s.isParsed /\ s.isEscaped /\ TextOf(r, i) = "invalid"
  <2>1. PICK strs : strs = Append(r.strings, NoText)
    OBVIOUS
  <2>2. /\ strs \in Seq(Nat) /\ \A j \in 1 .. Len(tks) : TokenSound(r.tokens[j], strs, text)
        /\ \A k \in DOMAIN strs : strs[k] \in {NoText} \cup DOMAIN text
    <3>1. PICK none : none = NoText
      OBVIOUS
    <3>2. LET more == Append(r.strings, none)
          IN /\ more \in Seq(Nat) /\ \A j \in 1 .. Len(tks) : TokenSound(r.tokens[j], more, text)
             /\ \A k \in DOMAIN more : more[k] \in {NoText} \cup DOMAIN text
      BY <3>1, StringAdded
    <3> QED BY <2>1, <3>1, <3>2, Zenon
  <2>3. PICK q : q = [r EXCEPT !.strings = strs]
    OBVIOUS
  <2>4. /\ q \in [ok: BOOLEAN, tokens: Seq(AnyToken), strings: Seq(Nat)]
        /\ q.tokens = r.tokens /\ q.strings = strs
    BY <2>2, <2>3 DEF Good
  <2>5. Good(tks, q) /\ Others(tks, r, q, i)
    BY <2>2, <2>4 DEF Good, Others
  <2>6. Parses(tks, r, Failed(q), i, "String")
    <3>1. Good(tks, Failed(q)) /\ ~Failed(q).ok /\ Failed(q).tokens = q.tokens
      BY <2>5, FailedGood
    <3> QED BY <2>4, <3>1 DEF Parses, Others
  <2>7. ParseStringInternal(r, i) = Failed(q)
    BY <1>1, <1>6, <2>1, <2>3 DEF ParseStringInternal
  <2> QED BY <2>6, <2>7
<1>7. CASE ~s.isParsed /\ s.isEscaped /\ TextOf(r, i) # "invalid"
  <2>1. PICK first, n : first = s.first /\ n = Len(r.strings) + 1
    OBVIOUS
  <2>2. PICK strs : strs = Append(r.strings, first)
    OBVIOUS
  <2>3. /\ strs \in Seq(Nat) /\ \A j \in 1 .. Len(tks) : TokenSound(r.tokens[j], strs, text)
        /\ \A k \in DOMAIN strs : strs[k] \in {NoText} \cup DOMAIN text
        /\ Len(r.strings) \in Nat /\ Len(strs) = n /\ n \in DOMAIN strs /\ strs[n] = first
    <3>1. first \in {NoText} \cup DOMAIN text
      BY <1>2, <2>1
    <3>2. LET more == Append(r.strings, first)
          IN /\ more \in Seq(Nat) /\ Len(more) = Len(r.strings) + 1 /\ Len(r.strings) \in Nat
             /\ \A j \in 1 .. Len(tks) : TokenSound(r.tokens[j], more, text)
             /\ \A k \in DOMAIN more : more[k] \in {NoText} \cup DOMAIN text
             /\ Len(more) \in DOMAIN more /\ more[Len(more)] = first
      BY <3>1, StringAdded
    <3> QED BY <2>1, <2>2, <3>2, Zenon
  <2>4. n \in Nat
    BY <2>1, <2>3
  <2>5. PICK t : t = [s EXCEPT !.isParsed = TRUE, !.data = n]
    OBVIOUS
  <2>6. /\ t \in AnyToken /\ t.isParsed = TRUE /\ t.bits = "String" /\ t.isKey = s.isKey
        /\ t.isEscaped = s.isEscaped /\ t.data = n /\ t.sizeType = s.sizeType
        /\ t.first = s.first /\ t.last = s.last
    BY <1>2, <2>4, <2>5 DEF AnyToken
  <2>7. ~IsWide(t) /\ ~IsWide(s) /\ ~IsNumber(t) /\ ~IsNumber(s) /\ ~IsContainer(s) /\ t.bits \notin SmallNumbers
    BY <1>2, <2>6 DEF IsWide, IsNumber, WideNumbers, SmallNumbers, IsContainer
  <2>8. IsParsed(t) /\ Kind(t) = Kind(s) /\ ParsedType(t) = "Other"
    BY <1>2, <2>6, <2>7 DEF IsParsed, Kind, ParsedType
  <2>9. Kept(r.tokens[i], t)
    BY <1>1, <2>6, <2>7, <2>8 DEF Kept
  <2>10. TokenSound(t, strs, text)
    BY <1>2, <2>1, <2>3, <2>6, <2>7, <2>8 DEF TokenSound
  <2>11. PICK ok : ok = r.ok
    OBVIOUS
  <2>12. PICK q : q = [ok |-> ok, tokens |-> [r.tokens EXCEPT ![i] = t], strings |-> strs]
    OBVIOUS
  <2>13. Good(tks, q) /\ Others(tks, r, q, i) /\ q.tokens[i] = t
    <3>1. LET p == [ok |-> ok, tokens |-> [r.tokens EXCEPT ![i] = t], strings |-> strs]
          IN Good(tks, p) /\ Others(tks, r, p, i) /\ p.tokens[i] = t
      BY <1>2, <2>3, <2>9, <2>10, <2>11, TokenReplaced
    <3> QED BY <2>12, <3>1, Zenon
  <2>14. ParseStringInternal(r, i) = q
    <3>1. ParseStringInternal(r, i) = [r EXCEPT !.strings = strs, !.tokens[i].isParsed = TRUE,
                                                !.tokens[i].data = n]
      BY <1>1, <1>7, <2>1, <2>2 DEF ParseStringInternal
    <3>2. PICK p : p = [r EXCEPT !.strings = strs, !.tokens[i].isParsed = TRUE, !.tokens[i].data = n]
      OBVIOUS
    <3>3. p = [r EXCEPT !.strings = strs, !.tokens[i] = t]
      BY <1>1, <2>5, <3>2, Zenon
    <3>4. PICK u : u = [r.tokens EXCEPT ![i] = t]
      OBVIOUS
    <3>5. r \in [ok: BOOLEAN, tokens: Seq(AnyToken), strings: Seq(Nat)]
      BY DEF Good
    <3>6. p = [ok |-> ok, tokens |-> u, strings |-> strs]
      BY <2>11, <3>3, <3>4, <3>5
    <3> QED BY <2>12, <3>1, <3>2, <3>4, <3>6, Zenon
  <2> QED BY <1>3, <2>6, <2>8, <2>13, <2>14 DEF Parses, AsType
<1>8. s.isParsed \in BOOLEAN /\ s.isEscaped \in BOOLEAN
  BY <1>2 DEF AnyToken
<1> QED BY <1>4, <1>5, <1>6, <1>7, <1>8

\* Any of the types, of a token that has it.
LEMMA InternalParses ==
    ASSUME NEW tks, InText(tks), NEW r, Good(tks, r), NEW i \in 1 .. Len(tks),
           NEW type \in ValueTypes, Kind(r.tokens[i]) = KindOf(type)
    PROVE  Parses(tks, r, ParseInternal(r, type, i), i, type)
<1>1. CASE type \in WideNumbers
  <2>1. ParseInternal(r, type, i) = ParseWideInternal(r, type, i) /\ KindOf(type) = "Number"
    BY <1>1 DEF ParseInternal, KindOf, NumberTypes, WideNumbers, SmallNumbers
  <2> QED BY <1>1, <2>1, WideParses
<1>2. CASE type \in SmallNumbers
  <2>1. ParseInternal(r, type, i) = ParseSmallInternal(r, type, i) /\ KindOf(type) = "Number"
    BY <1>2 DEF ParseInternal, KindOf, NumberTypes, WideNumbers, SmallNumbers
  <2> QED BY <1>2, <2>1, SmallParses
<1>3. CASE type = "String"
  <2>1. ParseInternal(r, type, i) = ParseStringInternal(r, i) /\ KindOf(type) = "String"
    BY <1>3 DEF ParseInternal, KindOf, NumberTypes, WideNumbers, SmallNumbers
  <2>2. r.tokens[i].bits = "String"
    BY <2>1, TokenFacts, KindFacts
  <2> QED BY <1>3, <2>1, <2>2, StringParses
<1>4. CASE type \in {"Null", "Bool"}
  <2>1. ParseInternal(r, type, i) = ParseLiteralInternal(r, i) /\ KindOf(type) = type
    BY <1>4 DEF ParseInternal, KindOf, NumberTypes, WideNumbers, SmallNumbers
  <2> QED BY <1>4, <2>1, LiteralParses
<1> QED BY <1>1, <1>2, <1>3, <1>4 DEF ValueTypes, NumberTypes

\* A call for one token, which checks its type first.
LEMMA ParseParses ==
    ASSUME NEW tks, InText(tks), NEW r, Good(tks, r), NEW i \in 1 .. Len(tks), NEW type \in ValueTypes
    PROVE  Parses(tks, r, Parse(r, type, i), i, type)
<1>1. CASE Kind(r.tokens[i]) # KindOf(type)
  BY <1>1, FailureParses DEF Parse
<1>2. CASE Kind(r.tokens[i]) = KindOf(type)
  BY <1>2, InternalParses DEF Parse
<1> QED BY <1>1, <1>2

-----------------------------------------------------------------------------
\* Of a text that was read to its end.

Whole(tks) == InText(tks) /\ Tree(tks, Len(text), 0) /\ Complete(tks)

\* What childCount() says of a token is within the text.
LEMMA CountFacts ==
    ASSUME NEW tks, Whole(tks), NEW i \in 1 .. Len(tks)
    PROVE  /\ ChildCount(tks, i) \in Nat /\ i + ChildCount(tks, i) \in i .. Len(tks)
           /\ tks[i].isKey => /\ i < Len(tks) /\ tks[i].bits = "String" /\ ~tks[i + 1].isKey
                              /\ ChildCount(tks, i) = 1 + ChildCount(tks, i + 1)
           /\ IsContainer(tks[i]) => ChildCount(tks, i) = tks[i].data /\ ~tks[i].isKey
           /\ ~tks[i].isKey /\ ~IsContainer(tks[i]) => ChildCount(tks, i) = 0
           /\ ~tks[i + ChildCount(tks, i)].isKey
<1>1. /\ Len(tks) \in Nat /\ \A j \in 1 .. Len(tks) : tks[j] \in AnyToken /\ tks[j].data \in Nat
  <2>1. Len(tks) \in Nat /\ \A j \in 1 .. Len(tks) : tks[j] \in AnyToken
    BY DEF Whole, InText
  <2> QED BY <2>1 DEF AnyToken
<1>2. \A j \in 1 .. Len(tks) : IsContainer(tks[j]) =>
            j + tks[j].data <= Len(tks) /\ ~tks[j + tks[j].data].isKey
  BY DEF Whole, Complete, Tree, ClosedExact
<1>3. \A j \in 1 .. Len(tks) : tks[j].isKey =>
            tks[j].bits = "String" /\ (j < Len(tks) => ~tks[j + 1].isKey)
  BY DEF Whole, Tree, KeysSound
<1>4. tks[i].isKey => i < Len(tks) /\ i + 1 \in 1 .. Len(tks)
  BY <1>1 DEF Whole, Complete
<1>5. ASSUME NEW j \in 1 .. Len(tks), ~tks[j].isKey
      PROVE  /\ ChildCount(tks, j) = IF IsContainer(tks[j]) THEN tks[j].data ELSE 0
             /\ ChildCount(tks, j) \in Nat /\ j + ChildCount(tks, j) \in j .. Len(tks)
             /\ ~tks[j + ChildCount(tks, j)].isKey
  <2>1. ChildCount(tks, j) = IF IsContainer(tks[j]) THEN tks[j].data ELSE 0
    BY <1>5 DEF ChildCount, IsContainer
  <2>2. CASE IsContainer(tks[j])
    BY <1>1, <1>2, <2>1, <2>2
  <2>3. CASE ~IsContainer(tks[j])
    BY <1>1, <1>5, <2>1, <2>3
  <2> QED BY <2>1, <2>2, <2>3
<1>6. CASE tks[i].isKey
  <2>1. tks[i].bits = "String" /\ i < Len(tks) /\ i + 1 \in 1 .. Len(tks) /\ ~tks[i + 1].isKey
    BY <1>3, <1>4, <1>6
  <2>2. ChildCount(tks, i + 1) = IF IsContainer(tks[i + 1]) THEN tks[i + 1].data ELSE 0
    BY <1>5, <2>1
  <2>3. ChildCount(tks, i) = 1 + ChildCount(tks, i + 1)
    BY <1>6, <2>1, <2>2 DEF ChildCount, IsContainer
  <2>4. PICK k : k = ChildCount(tks, i + 1)
    OBVIOUS
  <2>5. k \in Nat /\ i + 1 + k \in i + 1 .. Len(tks) /\ ~tks[i + 1 + k].isKey
    BY <1>5, <2>1, <2>4
  <2>6. ChildCount(tks, i) \in Nat /\ i + ChildCount(tks, i) = i + 1 + k
    BY <2>3, <2>4, <2>5
  <2>7. ~IsContainer(tks[i])
    BY <2>1 DEF IsContainer
  <2> QED BY <1>1, <1>6, <2>1, <2>3, <2>5, <2>6, <2>7
<1>7. CASE ~tks[i].isKey
  BY <1>5, <1>7
<1> QED BY <1>6, <1>7

\* What the tree is made of, and parsing leaves.
LEMMA ShapeKept ==
    ASSUME NEW t \in AnyToken, NEW u, Kept(t, u)
    PROVE  /\ u \in AnyToken /\ u.isKey = t.isKey /\ u.first = t.first /\ u.last = t.last
           /\ \A b \in {"Object", "Array", "String", "Null", "Bool"} : u.bits = b <=> t.bits = b
           /\ IsContainer(u) <=> IsContainer(t)
           /\ IsOpen(u) <=> IsOpen(t)
           /\ IsContainer(t) => u.data = t.data
<1>1. \A b \in {"Object", "Array", "String", "Null", "Bool"} : u.bits = b <=> t.bits = b
  BY KindFacts DEF Kept
<1>2. IsContainer(u) <=> IsContainer(t)
  BY <1>1 DEF IsContainer
<1> QED BY <1>1, <1>2 DEF Kept, IsOpen

\* The tree is one of what parsing leaves.
LEMMA TreeKept ==
    ASSUME NEW tks, NEW u, NEW n, NEW c, Tree(tks, n, c), u \in Seq(AnyToken), Len(u) = Len(tks),
           \A i \in 1 .. Len(tks) : Kept(tks[i], u[i])
    PROVE  Tree(u, n, c)
<1>1. PICK N : N = Len(tks)
  OBVIOUS
<1>2. N \in Nat /\ Len(u) = N /\ \A i \in 1 .. N : tks[i] \in AnyToken /\ Kept(tks[i], u[i])
  BY <1>1 DEF Tree
<1>3. \A i \in 1 .. N :
           /\ u[i].isKey = tks[i].isKey /\ u[i].first = tks[i].first /\ u[i].last = tks[i].last
           /\ u[i].bits = "Object" <=> tks[i].bits = "Object"
           /\ u[i].bits = "String" <=> tks[i].bits = "String"
           /\ IsContainer(u[i]) <=> IsContainer(tks[i])
           /\ IsOpen(u[i]) <=> IsOpen(tks[i])
           /\ IsContainer(tks[i]) => u[i].data = tks[i].data
           /\ tks[i].data \in Nat
  <2> TAKE i \in 1 .. N
  <2>1. tks[i] \in AnyToken /\ Kept(tks[i], u[i])
    BY <1>2
  <2>2. tks[i].data \in Nat
    BY <2>1 DEF AnyToken
  <2> QED BY <2>1, <2>2, ShapeKept
<1>4. Ordered(u, n)
  <2>1. \A i \in 1 .. N : \A j \in i + 1 .. N : j \in 1 .. N
    BY <1>2
  <2> QED BY <1>1, <1>2, <1>3, <2>1 DEF Tree, Ordered
<1>5. ClosedExact(u)
  <2> SUFFICES ASSUME NEW i \in 1 .. N, IsContainer(u[i]), ~IsOpen(u[i])
               PROVE  /\ i + u[i].data <= N
                      /\ \A j \in i + 1 .. N : j <= i + u[i].data <=> u[j].last <= u[i].last
                      /\ \A j \in i + 1 .. i + u[i].data :
                            IsContainer(u[j]) => ~IsOpen(u[j]) /\ j + u[j].data <= i + u[i].data
                      /\ ~u[i + u[i].data].isKey
    BY <1>2 DEF ClosedExact
  <2>1. IsContainer(tks[i]) /\ ~IsOpen(tks[i]) /\ u[i].data = tks[i].data /\ tks[i].data \in Nat
    BY <1>3
  <2>2. PICK e : e = i + tks[i].data
    OBVIOUS
  <2>3. /\ e <= N
        /\ \A j \in i + 1 .. N : j <= e <=> tks[j].last <= tks[i].last
        /\ \A j \in i + 1 .. e : IsContainer(tks[j]) => ~IsOpen(tks[j]) /\ j + tks[j].data <= e
        /\ ~tks[e].isKey
    BY <1>1, <2>1, <2>2 DEF Tree, ClosedExact
  <2>4. e \in 1 .. N /\ \A j \in i + 1 .. e : j \in 1 .. N
    BY <1>2, <2>1, <2>2, <2>3
  <2>5. \A j \in i + 1 .. N : j \in 1 .. N
    BY <1>2
  <2>6. \A j \in i + 1 .. N : j <= e <=> u[j].last <= u[i].last
    BY <1>3, <2>3, <2>5
  <2>7. \A j \in i + 1 .. e : IsContainer(u[j]) => ~IsOpen(u[j]) /\ j + u[j].data <= e
    BY <1>3, <2>3, <2>4
  <2>8. ~u[e].isKey
    BY <1>3, <2>3, <2>4
  <2> QED BY <2>1, <2>2, <2>3, <2>6, <2>7, <2>8
<1>6. \A d : \A i \in 1 .. N + 1 : IsLastOpen(tks, d, i) => IsLastOpen(u, d, i)
  <2> TAKE d
  <2> TAKE i \in 1 .. N + 1
  <2> HAVE IsLastOpen(tks, d, i)
  <2>1. /\ d \in 0 .. i - 1 /\ (d # 0 => IsOpen(tks[d])) /\ \A p \in 1 .. i - 1 : IsOpen(tks[p]) => p <= d
    BY DEF IsLastOpen
  <2>2. \A p \in 1 .. i - 1 : p \in 1 .. N
    BY <1>2
  <2>3. d # 0 => d \in 1 .. N
    BY <1>2, <2>1
  <2> QED BY <1>3, <2>1, <2>2, <2>3 DEF IsLastOpen
<1>7. OpenLinked(u, c)
  <2>1. IsLastOpen(tks, c, N + 1) /\ \A i \in 1 .. N : IsOpen(tks[i]) => IsLastOpen(tks, tks[i].data, i)
    BY <1>1 DEF Tree, OpenLinked
  <2>2. IsLastOpen(u, c, N + 1)
    BY <1>2, <1>6, <2>1
  <2>3. ASSUME NEW i \in 1 .. N, IsOpen(u[i]) PROVE IsLastOpen(u, u[i].data, i)
    <3>1. IsOpen(tks[i]) /\ u[i].data = tks[i].data /\ i \in 1 .. N + 1
      BY <1>2, <1>3, <2>3 DEF IsOpen
    <3> QED BY <1>6, <2>1, <3>1
  <2> QED BY <1>2, <2>2, <2>3 DEF OpenLinked
<1>8. \A i \in 1 .. N : \A p : Around(u, p, i) <=> Around(tks, p, i)
  <2> TAKE i \in 1 .. N
  <2> TAKE p
  <2>1. p \in 1 .. i - 1 => p \in 1 .. N
    BY <1>2
  <2> QED BY <1>3, <2>1 DEF Around
<1>9. \A i \in 1 .. N : \A p : Within(u, p, i) <=> Within(tks, p, i)
  BY <1>8 DEF Within
<1>10. KeysSound(u)
  <2>1. ASSUME NEW i \in 1 .. N, u[i].isKey
        PROVE  /\ u[i].bits = "String"
               /\ \E p \in 1 .. i - 1 : Within(u, p, i) /\ u[p].bits = "Object"
               /\ i < N => /\ ~u[i + 1].isKey
                           /\ \A p \in 1 .. i : Around(u, p, i + 1) <=> Around(u, p, i)
    <3>1. tks[i].isKey
      BY <1>3, <2>1
    <3>2. /\ tks[i].bits = "String"
          /\ \E p \in 1 .. i - 1 : Within(tks, p, i) /\ tks[p].bits = "Object"
          /\ i < N => /\ ~tks[i + 1].isKey
                      /\ \A p \in 1 .. i : Around(tks, p, i + 1) <=> Around(tks, p, i)
      BY <1>1, <3>1 DEF Tree, KeysSound
    <3>3. \E p \in 1 .. i - 1 : Within(u, p, i) /\ u[p].bits = "Object"
      <4>1. PICK p \in 1 .. i - 1 : Within(tks, p, i) /\ tks[p].bits = "Object"
        BY <3>2
      <4>2. p \in 1 .. N
        BY <1>2
      <4> QED BY <1>3, <1>9, <4>1, <4>2
    <3>4. i < N => i + 1 \in 1 .. N
      BY <1>2
    <3> QED BY <1>3, <1>8, <3>2, <3>3, <3>4
  <2>2. ASSUME NEW i \in 1 .. N, NEW p \in 1 .. N, Within(u, p, i), u[p].bits = "Object"
        PROVE  u[i].isKey \/ (i > 1 /\ u[i - 1].isKey)
    <3>1. tks[i].isKey \/ (i > 1 /\ tks[i - 1].isKey)
      BY <1>1, <1>3, <1>9, <2>2 DEF Tree, KeysSound
    <3>2. i > 1 => i - 1 \in 1 .. N
      BY <1>2
    <3> QED BY <1>3, <3>1, <3>2
  <2> QED BY <1>2, <2>1, <2>2 DEF KeysSound
<1> QED BY <1>4, <1>5, <1>7, <1>10 DEF Tree

\* What was read to its end stays so.
LEMMA WholeKept ==
    ASSUME NEW tks, Whole(tks), NEW r, Good(tks, r)
    PROVE  /\ Whole(r.tokens) /\ Len(r.tokens) = Len(tks)
           /\ \A i \in 1 .. Len(tks) : ChildCount(r.tokens, i) = ChildCount(tks, i)
<1>1. PICK u, n : u = r.tokens /\ n = Len(text)
  OBVIOUS
<1>2. /\ tks \in Seq(AnyToken) /\ u \in Seq(AnyToken) /\ Len(u) = Len(tks) /\ Len(tks) \in Nat
      /\ \A i \in 1 .. Len(tks) : Kept(tks[i], u[i])
  BY <1>1 DEF Good, Whole, InText
<1>3. Tree(tks, n, 0)
  BY <1>1 DEF Whole
<1>4. Tree(u, n, 0)
  BY <1>2, <1>3, TreeKept
<1>5. \A i \in 1 .. Len(tks) :
          /\ u[i].isKey = tks[i].isKey /\ u[i].first = tks[i].first
          /\ IsOpen(u[i]) <=> IsOpen(tks[i])
          /\ IsContainer(u[i]) <=> IsContainer(tks[i])
          /\ IsContainer(tks[i]) => u[i].data = tks[i].data
  BY <1>2, ShapeKept
<1>6. Complete(u)
  <2>1. tks # <<>> /\ (\A i \in 1 .. Len(tks) : ~IsOpen(tks[i])) /\ ~tks[Len(tks)].isKey
    BY DEF Whole, Complete
  <2>2. Len(tks) \in 1 .. Len(tks)
    BY <1>2, <2>1
  <2>3. u # <<>>
    BY <1>2, <2>2
  <2> QED BY <1>2, <1>5, <2>1, <2>2, <2>3 DEF Complete
<1>7. InText(u)
  BY <1>2, <1>5 DEF Whole, InText
<1>8. Whole(u)
  BY <1>1, <1>4, <1>6, <1>7 DEF Whole
<1>9. ASSUME NEW i \in 1 .. Len(tks), ~tks[i].isKey PROVE ChildCount(u, i) = ChildCount(tks, i)
  <2>1. ~u[i].isKey /\ i \in 1 .. Len(u)
    BY <1>2, <1>5, <1>9
  <2> QED BY <1>5, <1>8, <1>9, <2>1, CountFacts
<1>10. ASSUME NEW i \in 1 .. Len(tks), tks[i].isKey PROVE ChildCount(u, i) = ChildCount(tks, i)
  <2>1. u[i].isKey /\ i \in 1 .. Len(u)
    BY <1>2, <1>5, <1>10
  <2>2. /\ ChildCount(tks, i) = 1 + ChildCount(tks, i + 1) /\ ~tks[i + 1].isKey /\ i + 1 \in 1 .. Len(tks)
        /\ ChildCount(u, i) = 1 + ChildCount(u, i + 1)
    <3>1. ChildCount(tks, i) = 1 + ChildCount(tks, i + 1) /\ ~tks[i + 1].isKey /\ i < Len(tks)
      BY <1>10, CountFacts
    <3>2. ChildCount(u, i) = 1 + ChildCount(u, i + 1)
      BY <1>8, <2>1, CountFacts
    <3> QED BY <1>2, <3>1, <3>2
  <2> QED BY <1>9, <2>2
<1> QED BY <1>1, <1>2, <1>8, <1>9, <1>10

\* What is in a container ends in it.
LEMMA ChildEnds ==
    ASSUME NEW tks, Whole(tks), NEW i \in 1 .. Len(tks), IsContainer(tks[i]),
           NEW e, e = i + tks[i].data, NEW j \in i + 1 .. e
    PROVE  e \in i .. Len(tks) /\ j \in 1 .. Len(tks) /\ j + ChildCount(tks, j) \in j .. e
<1>1. Len(tks) \in Nat /\ ChildCount(tks, i) = tks[i].data /\ ChildCount(tks, i) \in Nat
      /\ e \in i .. Len(tks) /\ ~tks[e].isKey
  BY CountFacts DEF Whole, InText
<1>2. j \in 1 .. Len(tks)
  BY <1>1
<1>3. \A k \in i + 1 .. e : IsContainer(tks[k]) => k + tks[k].data <= e
  BY DEF Whole, Complete, Tree, ClosedExact
<1>4. \A k \in 1 .. Len(tks) : ChildCount(tks, k) \in Nat /\
          (~tks[k].isKey => ChildCount(tks, k) = IF IsContainer(tks[k]) THEN tks[k].data ELSE 0)
  BY CountFacts
<1>5. \A k \in i + 1 .. e : ~tks[k].isKey => k + ChildCount(tks, k) \in k .. e
  <2> TAKE k \in i + 1 .. e
  <2>1. k \in 1 .. Len(tks)
    BY <1>1
  <2>2. CASE IsContainer(tks[k])
    BY <1>3, <1>4, <2>1, <2>2
  <2>3. CASE ~IsContainer(tks[k])
    BY <1>4, <2>1, <2>3
  <2> QED BY <2>2, <2>3
<1>6. CASE tks[j].isKey
  <2>1. ChildCount(tks, j) = 1 + ChildCount(tks, j + 1) /\ ~tks[j + 1].isKey
    BY <1>2, <1>6, CountFacts
  <2>2. j # e /\ j + 1 \in i + 1 .. e
    BY <1>1, <1>6
  <2>3. j + 1 + ChildCount(tks, j + 1) \in j + 1 .. e
    BY <1>5, <2>1, <2>2
  <2>4. ChildCount(tks, j + 1) \in Nat
    BY <1>1, <1>4, <2>2
  <2> QED BY <1>1, <1>2, <2>1, <2>3, <2>4
<1>7. CASE ~tks[j].isKey
  BY <1>1, <1>2, <1>5, <1>7
<1> QED BY <1>6, <1>7

\* After a key of an object and its value comes the next key.
LEMMA NextKey ==
    ASSUME NEW tks, Whole(tks), NEW i \in 1 .. Len(tks), tks[i].bits = "Object",
           NEW e, e = i + tks[i].data,
           NEW j \in i + 1 .. e, tks[j].isKey, Within(tks, i, j),
           NEW m, m = j + 1 + ChildCount(tks, j), m # e + 1
    PROVE  m \in i + 1 .. e /\ tks[m].isKey /\ Within(tks, i, m)
<1>1. IsContainer(tks[i]) /\ Len(tks) \in Nat
  BY DEF IsContainer, Whole, InText
<1>2. e \in i .. Len(tks) /\ j \in 1 .. Len(tks) /\ j + ChildCount(tks, j) \in j .. e
  BY <1>1, ChildEnds
<1>3. ChildCount(tks, j) \in Nat /\ ~tks[j + ChildCount(tks, j)].isKey
      /\ j < Len(tks) /\ ChildCount(tks, j) = 1 + ChildCount(tks, j + 1) /\ ~tks[j + 1].isKey
      /\ tks[j].bits = "String"
  BY <1>2, CountFacts
<1>4. m \in i + 1 .. e /\ m \in 1 .. Len(tks) /\ ~tks[m - 1].isKey
  <2>1. PICK k : k = j + ChildCount(tks, j)
    OBVIOUS
  <2>2. m = k + 1 /\ k \in j .. e /\ ~tks[k].isKey /\ j \in Nat /\ i \in Nat
    BY <1>1, <1>2, <1>3, <2>1
  <2>3. m - 1 = k
    BY <2>2
  <2> QED BY <1>1, <1>2, <2>2, <2>3
<1>5. Around(tks, i, m)
  BY <1>1, <1>4 DEF Around
<1>6. ASSUME NEW q \in 1 .. m - 1, Around(tks, q, m) PROVE q <= i
  <2> SUFFICES ASSUME q > i PROVE FALSE
    BY <1>1, <1>4
  <2>1. IsContainer(tks[q]) /\ ~IsOpen(tks[q]) /\ m <= q + tks[q].data /\ q \in 1 .. Len(tks)
    <3>1. q \in 1 .. Len(tks)
      BY <1>1, <1>4
    <3> QED BY <1>6, <3>1 DEF Around, Whole, Complete
  <2>2. ChildCount(tks, q) = tks[q].data /\ tks[q].data \in Nat
    BY <2>1, CountFacts
  <2>3. CASE q < j
    <3>1. Around(tks, q, j)
      BY <1>1, <1>2, <1>3, <2>1, <2>2, <2>3 DEF Around
    <3> QED BY <1>1, <1>2, <2>3, <3>1 DEF Within
  <2>4. CASE q = j
    BY <1>3, <2>1, <2>4 DEF IsContainer
  <2>5. CASE q = j + 1
    BY <1>2, <1>3, <2>1, <2>2, <2>5
  <2>6. CASE q > j + 1
    <3>1. PICK v : v = j + 1
      OBVIOUS
    <3>2. v \in 1 .. Len(tks)
      BY <1>1, <1>2, <1>3, <3>1
    <3>3. ChildCount(tks, v) \in Nat /\ m = v + ChildCount(tks, v) + 1
      BY SMTT(30), <1>2, <1>3, <3>1, <3>2, CountFacts
    <3>4. IsContainer(tks[v])
      <4>1. ChildCount(tks, v) # 0
        BY <1>4, <2>6, <3>1, <3>2, <3>3
      <4>2. ~tks[v].isKey
        BY <1>3, <3>1
      <4> QED BY <3>2, <4>1, <4>2, CountFacts
    <3>5. ChildCount(tks, v) = tks[v].data
      BY <3>2, <3>4, CountFacts
    <3>6. PICK d : d = v + tks[v].data
      OBVIOUS
    <3>7. q \in v + 1 .. d
      BY <1>4, <2>6, <3>1, <3>2, <3>3, <3>5, <3>6
    <3>8. q + ChildCount(tks, q) <= d
      BY <3>2, <3>4, <3>6, <3>7, ChildEnds
    <3> QED BY SMTT(30), <2>1, <2>2, <3>2, <3>3, <3>5, <3>6, <3>8
  <2> QED BY <1>2, <2>1, <2>3, <2>4, <2>5, <2>6
<1>7. Within(tks, i, m)
  BY <1>5, <1>6 DEF Within
<1>8. tks[m].isKey \/ (m > 1 /\ tks[m - 1].isKey)
  BY <1>4, <1>7 DEF Whole, Tree, KeysSound
<1> QED BY <1>4, <1>7, <1>8

\* The first one.
LEMMA FirstKey ==
    ASSUME NEW tks, Whole(tks), NEW i \in 1 .. Len(tks), tks[i].bits = "Object", tks[i].data # 0
    PROVE  i + 1 \in 1 .. Len(tks) /\ tks[i + 1].isKey /\ Within(tks, i, i + 1)
<1>1. IsContainer(tks[i]) /\ Len(tks) \in Nat
  BY DEF IsContainer, Whole, InText
<1>2. ChildCount(tks, i) = tks[i].data /\ tks[i].data \in Nat /\ i + tks[i].data \in i .. Len(tks) /\ ~tks[i].isKey
  BY <1>1, CountFacts
<1>3. i + 1 \in 1 .. Len(tks) /\ i + 1 <= i + tks[i].data
  BY <1>1, <1>2
<1>4. Within(tks, i, i + 1)
  BY <1>1, <1>3 DEF Within, Around
<1>5. tks[i + 1].isKey \/ (i + 1 > 1 /\ tks[i + 1 - 1].isKey)
  BY <1>3, <1>4 DEF Whole, Tree, KeysSound
<1>6. i + 1 - 1 = i
  OBVIOUS
<1> QED BY <1>2, <1>3, <1>4, <1>5, <1>6

\* The folds of the parsing functions, each an instance of the one that FoldFacts is about.
WorkArray(c, q, j) == IF q.ok THEN Parse(q, c.type, j) ELSE q
DoneArray(c, q, k) ==
    /\ Good(c.tks, q)
    /\ q.ok => \A j \in 1 .. k : /\ AsType(q.tokens[c.i + j], c.type)
                                 /\ Kind(q.tokens[c.i + j]) = KindOf(c.type)
ArrayFold == INSTANCE FoldFacts WITH Op <- WorkArray, Holds <- DoneArray

WorkObject(c, q, j) == IF q.ok THEN ParseStringInternal(q, j) ELSE q
DoneGood(c, q, k) == Good(c.tks, q)
ObjectFold == INSTANCE FoldFacts WITH Op <- WorkObject, Holds <- DoneGood

\* Children() is a function that looks itself up further on.
ChildrenFrom(tks, e, f, j) == IF j = e + 1 THEN <<>> ELSE <<j>> \o f[j + 1 + ChildCount(tks, j)]

\* The function that Children() takes its value from is defined for the children of
\* a container: each looks up one that comes later.
LEMMA ChildrenExist ==
    ASSUME NEW tks, Whole(tks), NEW i \in 1 .. Len(tks), IsContainer(tks[i]),
           NEW e, e = i + tks[i].data
    PROVE  \E f : f = [j \in i + 1 .. e + 1 |-> ChildrenFrom(tks, e, f, j)]
<1>1. i \in Nat /\ e \in Nat /\ i <= e
  <2>1. ChildCount(tks, i) = tks[i].data /\ ChildCount(tks, i) \in Nat
    BY CountFacts
  <2> QED BY <2>1
<1> DEFINE D == i + 1 .. e + 1
           Right(f, k) == \A j \in D : j >= e + 1 - k => f[j] = ChildrenFrom(tks, e, f, j)
           S == {k \in 0 .. e - i : \E f : f = [j \in D |-> f[j]] /\ Right(f, k)}
<1>2. \A j \in i + 1 .. e : j + 1 + ChildCount(tks, j) \in D /\ j + 1 + ChildCount(tks, j) > j
  <2> TAKE j \in i + 1 .. e
  <2>1. PICK k : k = j + ChildCount(tks, j)
    OBVIOUS
  <2>2. k \in j .. e /\ ChildCount(tks, j) \in Nat
    BY <2>1, ChildEnds, CountFacts
  <2>3. j + 1 + ChildCount(tks, j) = k + 1
    BY <1>1, <2>1, <2>2
  <2> QED BY <1>1, <2>2, <2>3
<1>3. 0 \in S
  <2>1. PICK f : f = [j \in D |-> <<>>]
    OBVIOUS
  <2>2. f = [j \in D |-> f[j]]
    BY <2>1
  <2>3. Right(f, 0)
    BY SMTT(30), <1>1, <2>1 DEF ChildrenFrom
  <2> QED BY <1>1, <2>2, <2>3
<1>4. ASSUME NEW k \in 1 .. e - i, k - 1 \in S PROVE k \in S
  <2>1. PICK f : f = [j \in D |-> f[j]] /\ Right(f, k - 1)
    BY <1>4
  <2>2. PICK m : m = e + 1 - k
    OBVIOUS
  <2>3. m \in i + 1 .. e /\ m \in D
    BY <1>1, <2>2
  <2>4. PICK g : g = [f EXCEPT ![m] = ChildrenFrom(tks, e, f, m)]
    OBVIOUS
  <2>5. g = [j \in D |-> g[j]] /\ g[m] = ChildrenFrom(tks, e, f, m) /\ \A j \in D : j # m => g[j] = f[j]
    BY <2>1, <2>3, <2>4
  <2>6. \A j \in D : j >= m => ChildrenFrom(tks, e, g, j) = ChildrenFrom(tks, e, f, j)
    <3> TAKE j \in D
    <3> HAVE j >= m
    <3>1. CASE j = e + 1
      BY <3>1 DEF ChildrenFrom
    <3>2. CASE j # e + 1
      <4>1. j \in i + 1 .. e
        BY <1>1, <3>2
      <4>2. PICK n : n = j + 1 + ChildCount(tks, j)
        OBVIOUS
      <4>3. n \in D /\ n # m
        BY <1>1, <1>2, <2>3, <4>1, <4>2
      <4> QED BY <2>5, <4>2, <4>3 DEF ChildrenFrom
    <3> QED BY <3>1, <3>2
  <2>7. \A j \in D : j >= m => g[j] = ChildrenFrom(tks, e, g, j)
    <3> TAKE j \in D
    <3> HAVE j >= m
    <3>1. CASE j = m
      BY <2>5, <2>6, <3>1
    <3>2. CASE j # m
      <4>1. j >= e + 1 - (k - 1)
        BY SMTT(30), <1>1, <2>2, <2>3, <3>2
      <4> QED BY <2>1, <2>5, <2>6, <3>2, <4>1
    <3> QED BY <3>1, <3>2
  <2>8. Right(g, k)
    BY <2>2, <2>7
  <2> QED BY <1>1, <2>5, <2>8
<1>5. e - i \in S
  <2> HIDE DEF S
  <2>1. PICK n : n = e - i
    OBVIOUS
  <2>2. n \in Nat
    BY <1>1, <2>1
  <2>3. \A k \in 1 .. n : k - 1 \in S => k \in S
    BY <1>4, <2>1
  <2>4. \A k \in 0 .. n : k \in S
    BY <1>3, <2>2, <2>3, ObjectFold!FromZero
  <2> QED BY <2>1, <2>2, <2>4
<1>6. PICK f : f = [j \in D |-> f[j]] /\ Right(f, e - i)
  BY <1>5
<1>7. \A j \in D : f[j] = ChildrenFrom(tks, e, f, j)
  <2> TAKE j \in D
  <2>1. j >= e + 1 - (e - i)
    BY <1>1
  <2> QED BY <1>6, <2>1
<1>8. f = [j \in D |-> ChildrenFrom(tks, e, f, j)]
  <2> DEFINE g == [j \in D |-> ChildrenFrom(tks, e, f, j)]
  <2>1. \A j \in D : g[j] = f[j]
    BY <1>7
  <2>2. g = [j \in D |-> g[j]]
    OBVIOUS
  <2> HIDE DEF g
  <2>3. f = g
    BY <1>6, <2>1, <2>2
  <2> QED BY <2>3 DEF g
<1> QED BY <1>8

\* The children of an object are its keys, which are strings.
LEMMA ChildrenKeys ==
    ASSUME NEW tks, Whole(tks), NEW i \in 1 .. Len(tks), tks[i].bits = "Object"
    PROVE  Children(tks, i) \in Seq({j \in 1 .. Len(tks) : tks[j].bits = "String"})
<1>1. IsContainer(tks[i])
  BY DEF IsContainer
<1>2. PICK e : e = i + tks[i].data
  OBVIOUS
<1>3. ChildCount(tks, i) = tks[i].data /\ tks[i].data \in Nat /\ e \in i .. Len(tks) /\ Len(tks) \in Nat
  BY <1>1, <1>2, CountFacts DEF Whole, InText
<1> DEFINE D == i + 1 .. e + 1
           F(f) == [j \in D |-> IF j = e + 1 THEN <<>> ELSE <<j>> \o f[j + 1 + ChildCount(tks, j)]]
           f == CHOOSE f : f = F(f)
           Keys == {j \in 1 .. Len(tks) : tks[j].bits = "String"}
           Fine(j) == j = e + 1 \/ (j \in i + 1 .. e /\ tks[j].isKey /\ Within(tks, i, j))
           S == {k \in 0 .. e - i : \A j \in D : j >= e + 1 - k /\ Fine(j) => f[j] \in Seq(Keys)}
<1>4. f = F(f)
  <2>1. PICK g : g = [j \in D |-> ChildrenFrom(tks, e, g, j)]
    BY <1>1, <1>2, ChildrenExist
  <2>2. g = F(g)
    BY <2>1 DEF ChildrenFrom
  <2> HIDE DEF F
  <2> QED BY <2>2
<1>5. Children(tks, i) = f[i + 1]
  BY <1>2, <1>3 DEF Children
<1> HIDE DEF f
<1>6. \A j \in D : f[j] = IF j = e + 1 THEN <<>> ELSE <<j>> \o f[j + 1 + ChildCount(tks, j)]
  BY <1>4
<1>7. 0 \in S
  <2> SUFFICES ASSUME NEW j \in D, j >= e + 1 - 0 PROVE f[j] \in Seq(Keys)
    BY <1>3
  <2>1. j = e + 1
    BY <1>3
  <2>2. f[j] = <<>>
    BY <1>6, <2>1
  <2> HIDE DEF Keys
  <2> QED BY <2>2
<1>8. ASSUME NEW k \in 1 .. e - i, k - 1 \in S PROVE k \in S
  <2> SUFFICES ASSUME NEW j \in D, j >= e + 1 - k, Fine(j) PROVE f[j] \in Seq(Keys)
    BY <1>3
  <2>1. CASE j >= e + 1 - (k - 1)
    BY <1>8, <2>1
  <2>2. CASE j < e + 1 - (k - 1)
    <3>1. j = e + 1 - k /\ j \in i + 1 .. e /\ tks[j].isKey /\ Within(tks, i, j)
      BY SMTT(30), <1>3, <2>2
    <3>2. PICK m : m = j + 1 + ChildCount(tks, j)
      OBVIOUS
    <3>3. j \in 1 .. Len(tks) /\ j + ChildCount(tks, j) \in j .. e /\ ChildCount(tks, j) \in Nat
      BY <1>1, <1>2, <3>1, ChildEnds, CountFacts
    <3>4. m \in D /\ m >= e + 1 - (k - 1)
      BY <1>3, <3>1, <3>2, <3>3
    <3>5. Fine(m)
      BY <1>2, <3>1, <3>2, NextKey
    <3>6. f[m] \in Seq(Keys)
      BY <1>8, <3>4, <3>5
    <3>7. j \in Keys
      BY <3>1, <3>3, CountFacts
    <3>8. f[j] = <<j>> \o f[m]
      <4>1. j # e + 1 /\ j \in D
        BY <1>3, <3>1
      <4>2. f[j] = IF j = e + 1 THEN <<>> ELSE <<j>> \o f[j + 1 + ChildCount(tks, j)]
        BY <1>6, <4>1
      <4> QED BY <3>2, <4>1, <4>2
    <3> HIDE DEF Keys
    <3>9. <<j>> \in Seq(Keys)
      BY <3>7
    <3>10. <<j>> \o f[m] \in Seq(Keys)
      BY <3>6, <3>9, ConcatProperties
    <3> QED BY <3>8, <3>10
  <2> QED BY <1>3, <2>1, <2>2
<1>9. e - i \in S
  <2> HIDE DEF S
  <2>1. PICK n : n = e - i
    OBVIOUS
  <2>2. n \in Nat
    BY <1>3, <2>1
  <2>3. \A k \in 1 .. n : k - 1 \in S => k \in S
    BY <1>8, <2>1
  <2>4. \A k \in 0 .. n : k \in S
    BY <1>7, <2>2, <2>3, ObjectFold!FromZero
  <2> QED BY <2>1, <2>2, <2>4
<1>10. Fine(i + 1)
  <2>1. CASE tks[i].data = 0
    BY <1>2, <2>1
  <2>2. CASE tks[i].data # 0
    <3>1. i + 1 \in i + 1 .. e
      BY <1>2, <1>3, <2>2
    <3> QED BY <2>2, <3>1, FirstKey
  <2> QED BY <2>1, <2>2
<1>11. i + 1 \in D /\ i + 1 >= e + 1 - (e - i)
  BY <1>3
<1>12. f[i + 1] \in Seq(Keys)
  BY <1>9, <1>10, <1>11
<1> QED BY <1>5, <1>12

\* What each call does with a token of the subtree.
WorkLiterals(c, q, j) ==
    IF q.ok THEN CASE q.tokens[j].bits \in {"Object", "Array"} -> ParseObjectArrayInternal(q, j)
                   [] q.tokens[j].bits \in {"Null", "Bool"} -> ParseLiteralInternal(q, j)
                   [] OTHER -> q
    ELSE q
LiteralsFold == INSTANCE FoldFacts WITH Op <- WorkLiterals, Holds <- DoneGood

WorkNumbers(c, q, j) ==
    IF q.ok THEN IF IsNumber(q.tokens[j]) THEN ParseInternal(q, c.type, j) ELSE q ELSE q
NumbersFold == INSTANCE FoldFacts WITH Op <- WorkNumbers, Holds <- DoneGood

WorkStrings(c, q, j) ==
    IF q.ok THEN IF q.tokens[j].bits = "String" /\ (c.keysOnly => q.tokens[j].isKey)
                 THEN ParseStringInternal(q, j) ELSE q
    ELSE q
StringsFold == INSTANCE FoldFacts WITH Op <- WorkStrings, Holds <- DoneGood

\* A container is marked.
LEMMA MarkGood ==
    ASSUME NEW tks, InText(tks), NEW r, Good(tks, r), NEW i \in 1 .. Len(tks),
           r.tokens[i].bits \in {"Object", "Array"}
    PROVE  LET q == ParseObjectArrayInternal(r, i)
           IN Good(tks, q) /\ Others(tks, r, q, i) /\ q.ok = r.ok /\ q.tokens[i].bits = r.tokens[i].bits
<1>1. LET q == [r EXCEPT !.tokens[i].isParsed = TRUE]
      IN Good(tks, q) /\ Others(tks, r, q, i) /\ q.ok = r.ok /\ q.tokens[i].bits = r.tokens[i].bits
  BY ZenonT(30), FlagGood
<1> QED BY <1>1 DEF ParseObjectArrayInternal

\* The tokens of a subtree.
LEMMA SubtreeFacts ==
    ASSUME NEW tks, Whole(tks), NEW r, Good(tks, r), NEW i \in 1 .. Len(tks)
    PROVE  \E n \in Nat : /\ DOMAIN Subtree(r.tokens, i) = 1 .. n
                          /\ \A k \in 1 .. n : Subtree(r.tokens, i)[k] \in 1 .. Len(tks)
<1>1. PICK n : n = 1 + ChildCount(tks, i)
  OBVIOUS
<1>2. Len(tks) \in Nat /\ ChildCount(tks, i) \in Nat /\ i + ChildCount(tks, i) \in i .. Len(tks)
  BY CountFacts DEF Whole, InText
<1>3. n \in Nat /\ \A k \in 1 .. n : i + k - 1 \in 1 .. Len(tks)
  BY <1>1, <1>2
<1>4. Subtree(r.tokens, i) = [k \in 1 .. n |-> i + k - 1]
  BY <1>1, WholeKept DEF Subtree
<1> QED BY <1>3, <1>4

\* parseLiterals() goes through a subtree and may give up anywhere.
LEMMA LiteralsGood ==
    ASSUME NEW tks, Whole(tks), NEW r, Good(tks, r), NEW i \in 1 .. Len(tks)
    PROVE  Good(tks, ParseLiterals(r, i))
<1>1. PICK c : c = [tks |-> tks]
  OBVIOUS
<1>2. PICK s : s = Subtree(r.tokens, i)
  OBVIOUS
<1>3. PICK n \in Nat : DOMAIN s = 1 .. n /\ \A k \in 1 .. n : s[k] \in 1 .. Len(tks)
  BY <1>2, SubtreeFacts
<1>4. ParseLiterals(r, i) = LiteralsFold!Fold(c, r, s)
  BY <1>2 DEF ParseLiterals, Sequentially, WorkLiterals, FoldLeft, MapThenFoldSet, Max,
              LiteralsFold!Fold, LiteralsFold!FoldLeft, LiteralsFold!MapThenFoldSet, LiteralsFold!Max
<1>5. InText(tks)
  BY DEF Whole
<1>6. ASSUME NEW q, Good(tks, q), NEW j \in 1 .. Len(tks)
      PROVE  Good(tks, WorkLiterals(c, q, j))
  <2>1. PICK w : w = WorkLiterals(c, q, j)
    OBVIOUS
  <2>2. CASE ~q.ok
    <3>1. w = q
      BY <2>1, <2>2 DEF WorkLiterals
    <3> QED BY <1>6, <2>1, <3>1
  <2>3. CASE q.ok /\ q.tokens[j].bits \in {"Object", "Array"}
    <3>1. w = ParseObjectArrayInternal(q, j)
      BY <2>1, <2>3 DEF WorkLiterals
    <3>2. Good(tks, ParseObjectArrayInternal(q, j))
      BY <1>5, <1>6, <2>3, MarkGood
    <3> QED BY <2>1, <3>1, <3>2
  <2>4. CASE q.ok /\ q.tokens[j].bits \in {"Null", "Bool"}
    <3>1. w = ParseLiteralInternal(q, j)
      BY <2>1, <2>4 DEF WorkLiterals
    <3>2. Kind(q.tokens[j]) = q.tokens[j].bits
      BY <1>5, <1>6, <2>4, TokenFacts, KindFacts
    <3>3. PICK type : type = q.tokens[j].bits
      OBVIOUS
    <3>4. Good(tks, ParseLiteralInternal(q, j))
      BY <1>5, <1>6, <2>4, <3>2, <3>3, LiteralParses DEF Parses
    <3> QED BY <2>1, <3>1, <3>4
  <2>5. CASE q.ok /\ q.tokens[j].bits \notin {"Null", "Bool", "Object", "Array"}
    <3>1. w = q
      BY <2>1, <2>5 DEF WorkLiterals
    <3> QED BY <1>6, <2>1, <3>1
  <2> QED BY <2>2, <2>3, <2>4, <2>5
<1>7. DoneGood(c, r, 0)
  BY <1>1 DEF DoneGood
<1>8. \A k \in 1 .. n : \A acc : DoneGood(c, acc, k - 1) => DoneGood(c, WorkLiterals(c, acc, s[k]), k)
  BY <1>1, <1>3, <1>6 DEF DoneGood
<1>9. DoneGood(c, LiteralsFold!Fold(c, r, s), n)
  BY <1>3, <1>7, <1>8, LiteralsFold!FoldInvariant
<1> QED BY <1>1, <1>4, <1>9 DEF DoneGood

\* So does each call that parses the numbers of a subtree.
LEMMA NumbersGood ==
    ASSUME NEW tks, Whole(tks), NEW r, Good(tks, r), NEW type \in NumberTypes, NEW i \in 1 .. Len(tks)
    PROVE  Good(tks, ParseNumbers(r, type, i))
<1>1. PICK c : c = [tks |-> tks, type |-> type]
  OBVIOUS
<1>2. PICK s : s = Subtree(r.tokens, i)
  OBVIOUS
<1>3. PICK n \in Nat : DOMAIN s = 1 .. n /\ \A k \in 1 .. n : s[k] \in 1 .. Len(tks)
  BY <1>2, SubtreeFacts
<1>4. ParseNumbers(r, c.type, i) = NumbersFold!Fold(c, r, s)
  BY <1>2 DEF ParseNumbers, Sequentially, WorkNumbers, FoldLeft, MapThenFoldSet, Max,
              NumbersFold!Fold, NumbersFold!FoldLeft, NumbersFold!MapThenFoldSet, NumbersFold!Max
<1>5. InText(tks) /\ type \in ValueTypes /\ KindOf(type) = "Number" /\ c.type = type /\ c.tks = tks
  BY <1>1 DEF Whole, ValueTypes, KindOf
<1>6. ASSUME NEW q, Good(tks, q), NEW j \in 1 .. Len(tks)
      PROVE  Good(tks, WorkNumbers(c, q, j))
  <2>1. PICK w : w = WorkNumbers(c, q, j)
    OBVIOUS
  <2>2. CASE q.ok /\ IsNumber(q.tokens[j])
    <3>1. w = ParseInternal(q, type, j)
      BY <1>5, <2>1, <2>2 DEF WorkNumbers
    <3>2. Kind(q.tokens[j]) = "Number"
      BY <1>5, <1>6, <2>2, TokenFacts, KindFacts
    <3>3. Good(tks, ParseInternal(q, type, j))
      BY <1>5, <1>6, <3>2, InternalParses DEF Parses
    <3> QED BY <2>1, <3>1, <3>3
  <2>3. CASE ~(q.ok /\ IsNumber(q.tokens[j]))
    <3>1. w = q
      BY <2>1, <2>3 DEF WorkNumbers
    <3> QED BY <1>6, <2>1, <3>1
  <2> QED BY <2>2, <2>3
<1>7. DoneGood(c, r, 0)
  BY <1>5 DEF DoneGood
<1>8. \A k \in 1 .. n : \A acc : DoneGood(c, acc, k - 1) => DoneGood(c, WorkNumbers(c, acc, s[k]), k)
  BY <1>5, <1>3, <1>6 DEF DoneGood
<1>9. DoneGood(c, NumbersFold!Fold(c, r, s), n)
  BY <1>3, <1>7, <1>8, NumbersFold!FoldInvariant
<1> QED BY <1>5, <1>4, <1>9 DEF DoneGood

\* So do parseStrings() and parseStringKeys().
LEMMA StringsGood ==
    ASSUME NEW tks, Whole(tks), NEW r, Good(tks, r), NEW keysOnly, NEW i \in 1 .. Len(tks)
    PROVE  Good(tks, ParseStrings(r, keysOnly, i))
<1>1. PICK c : c = [tks |-> tks, keysOnly |-> keysOnly]
  OBVIOUS
<1>2. PICK s : s = Subtree(r.tokens, i)
  OBVIOUS
<1>3. PICK n \in Nat : DOMAIN s = 1 .. n /\ \A k \in 1 .. n : s[k] \in 1 .. Len(tks)
  BY <1>2, SubtreeFacts
<1>4. ParseStrings(r, c.keysOnly, i) = StringsFold!Fold(c, r, s)
  BY <1>2 DEF ParseStrings, Sequentially, WorkStrings, FoldLeft, MapThenFoldSet, Max,
              StringsFold!Fold, StringsFold!FoldLeft, StringsFold!MapThenFoldSet, StringsFold!Max
<1>5. InText(tks) /\ c.keysOnly = keysOnly /\ c.tks = tks
  BY <1>1 DEF Whole
<1>6. ASSUME NEW q, Good(tks, q), NEW j \in 1 .. Len(tks)
      PROVE  Good(tks, WorkStrings(c, q, j))
  <2>1. PICK w : w = WorkStrings(c, q, j)
    OBVIOUS
  <2>2. CASE q.ok /\ q.tokens[j].bits = "String" /\ (c.keysOnly => q.tokens[j].isKey)
    <3>1. w = ParseStringInternal(q, j)
      BY <2>1, <2>2 DEF WorkStrings
    <3>2. Good(tks, ParseStringInternal(q, j))
      BY <1>5, <1>6, <2>2, StringParses DEF Parses
    <3> QED BY <2>1, <3>1, <3>2
  <2>3. CASE ~(q.ok /\ q.tokens[j].bits = "String" /\ (c.keysOnly => q.tokens[j].isKey))
    <3>1. w = q
      BY <2>1, <2>3 DEF WorkStrings
    <3> QED BY <1>6, <2>1, <3>1
  <2> QED BY <2>2, <2>3
<1>7. DoneGood(c, r, 0)
  BY <1>5 DEF DoneGood
<1>8. \A k \in 1 .. n : \A acc : DoneGood(c, acc, k - 1) => DoneGood(c, WorkStrings(c, acc, s[k]), k)
  BY <1>5, <1>3, <1>6 DEF DoneGood
<1>9. DoneGood(c, StringsFold!Fold(c, r, s), n)
  BY <1>3, <1>7, <1>8, StringsFold!FoldInvariant
<1> QED BY <1>5, <1>4, <1>9 DEF DoneGood

\* parseObject() parses the keys of an object.
LEMMA ObjectGood ==
    ASSUME NEW tks, Whole(tks), NEW r, Good(tks, r), NEW i \in 1 .. Len(tks)
    PROVE  Good(tks, ParseObject(r, i))
<1>0. InText(tks) /\ Whole(r.tokens) /\ Len(r.tokens) = Len(tks)
  BY WholeKept DEF Whole
<1>1. CASE r.tokens[i].bits # "Object"
  BY <1>1, FailedGood DEF ParseObject
<1>2. CASE r.tokens[i].bits = "Object"
  <2>1. PICK c : c = [tks |-> tks]
    OBVIOUS
  <2>2. PICK u, s : u = r.tokens /\ s = Children(r.tokens, i)
    OBVIOUS
  <2>3. s \in Seq({j \in 1 .. Len(tks) : u[j].bits = "String"})
    <3>1. Children(u, i) \in Seq({j \in 1 .. Len(u) : u[j].bits = "String"})
      BY <1>0, <1>2, <2>2, ChildrenKeys
    <3> QED BY <1>0, <2>2, <3>1
  <2>4. PICK n \in Nat : DOMAIN s = 1 .. n /\ \A k \in 1 .. n : s[k] \in 1 .. Len(tks) /\ u[s[k]].bits = "String"
    BY <2>3
  <2>5. PICK base : base = ParseObjectArrayInternal(r, i)
    OBVIOUS
  <2>6. Good(tks, base)
    BY <1>0, <1>2, <2>5, MarkGood
  <2>7. ParseObject(r, i) = ObjectFold!Fold(c, base, s)
    BY <1>2, <2>2, <2>5
       DEF ParseObject, Sequentially, WorkObject, FoldLeft, MapThenFoldSet, Max,
           ObjectFold!Fold, ObjectFold!FoldLeft, ObjectFold!MapThenFoldSet, ObjectFold!Max
  <2>8. ASSUME NEW q, Good(tks, q), NEW j \in 1 .. Len(tks), u[j].bits = "String"
        PROVE  Good(tks, WorkObject(c, q, j))
    <3>1. PICK w : w = WorkObject(c, q, j)
      OBVIOUS
    <3>2. q.tokens[j] \in AnyToken /\ u[j] \in AnyToken /\ Kind(q.tokens[j]) = Kind(u[j])
      BY <1>0, <2>2, <2>8, TokenFacts
    <3>3. q.tokens[j].bits = "String"
      BY <2>8, <3>2, KindFacts
    <3>4. Good(tks, ParseStringInternal(q, j))
      BY <1>0, <2>8, <3>3, StringParses DEF Parses
    <3>5. w = ParseStringInternal(q, j) \/ w = q
      BY <3>1 DEF WorkObject
    <3> QED BY <2>8, <3>1, <3>4, <3>5
  <2>9. DoneGood(c, base, 0)
    BY <2>1, <2>6 DEF DoneGood
  <2>10. \A k \in 1 .. n : \A acc : DoneGood(c, acc, k - 1) => DoneGood(c, WorkObject(c, acc, s[k]), k)
    BY <2>1, <2>4, <2>8 DEF DoneGood
  <2>11. DoneGood(c, ObjectFold!Fold(c, base, s), n)
    BY <2>4, <2>9, <2>10, ObjectFold!FoldInvariant
  <2> QED BY <2>1, <2>7, <2>11 DEF DoneGood
<1> QED BY <1>1, <1>2

\* parseArray() marks an array.
LEMMA ArrayGood ==
    ASSUME NEW tks, InText(tks), NEW r, Good(tks, r), NEW i \in 1 .. Len(tks)
    PROVE  Good(tks, ParseArray(r, i))
<1>1. CASE r.tokens[i].bits # "Array"
  BY <1>1, FailedGood DEF ParseArray
<1>2. CASE r.tokens[i].bits = "Array"
  BY <1>2, MarkGood DEF ParseArray
<1> QED BY <1>1, <1>2

\* A call for an array of a type that succeeds has parsed all tokens after the array
\* up to its count, each to the type; the count is of items that have no children
\* of their own (parse*Array()).
LEMMA ArrayOfTyped ==
    ASSUME NEW tks, Whole(tks), NEW r, Good(tks, r), NEW type \in ValueTypes, NEW i \in 1 .. Len(tks)
    PROVE  LET q == ParseArrayOf(r, type, i)
           IN /\ Good(tks, q)
              /\ q.ok => /\ tks[i].bits = "Array"
                         /\ \A j \in i + 1 .. i + tks[i].data :
                                AsType(q.tokens[j], type) /\ Kind(q.tokens[j]) = KindOf(type)
<1>1. InText(tks) /\ Len(tks) \in Nat
  BY DEF Whole, InText
<1>2. PICK w : w = ParseArrayOf(r, type, i)
  OBVIOUS
<1>3. CASE r.tokens[i].bits # "Array"
  <2>1. w = Failed(r)
    BY <1>2, <1>3 DEF ParseArrayOf
  <2> QED BY <1>2, <2>1, FailedGood
<1>4. CASE r.tokens[i].bits = "Array"
  <2>1. tks[i].bits = "Array" /\ IsContainer(tks[i]) /\ r.tokens[i].data = tks[i].data
    <3>1. tks[i] \in AnyToken /\ Kept(tks[i], r.tokens[i])
      BY <1>1 DEF InText, Good
    <3>2. tks[i].bits = "Array"
      BY <1>4, <3>1, ShapeKept
    <3> QED BY <3>1, <3>2, ShapeKept DEF IsContainer
  <2>2. PICK n : n = tks[i].data
    OBVIOUS
  <2>3. n \in Nat /\ i + n \in i .. Len(tks)
    BY <2>1, <2>2, CountFacts
  <2>4. PICK c : c = [tks |-> tks, type |-> type, i |-> i]
    OBVIOUS
  <2>5. c.tks = tks /\ c.type = type /\ c.i = i
    BY <2>4
  <2>6. PICK s : s = [k \in 1 .. r.tokens[i].data |-> i + k]
    OBVIOUS
  <2>7. DOMAIN s = 1 .. n /\ \A k \in 1 .. n : s[k] = i + k /\ i + k \in 1 .. Len(tks)
    BY <1>1, <2>1, <2>2, <2>3, <2>6
  <2>8. PICK base : base = ParseObjectArrayInternal(r, i)
    OBVIOUS
  <2>9. Good(tks, base)
    BY <1>1, <1>4, <2>8, MarkGood
  <2>10. ParseArrayOf(r, c.type, i) = ArrayFold!Fold(c, base, s)
    BY <1>4, <2>6, <2>8
       DEF ParseArrayOf, Sequentially, WorkArray, FoldLeft, MapThenFoldSet, Max,
           ArrayFold!Fold, ArrayFold!FoldLeft, ArrayFold!MapThenFoldSet, ArrayFold!Max
  <2>11. DoneArray(c, base, 0)
    BY <2>5, <2>9 DEF DoneArray
  <2>12. ASSUME NEW k \in 1 .. n, NEW acc, DoneArray(c, acc, k - 1)
         PROVE  DoneArray(c, WorkArray(c, acc, s[k]), k)
    <3>1. PICK j : j = i + k
      OBVIOUS
    <3>2. j \in 1 .. Len(tks) /\ s[k] = j /\ Good(tks, acc)
      BY <2>5, <2>7, <2>12, <3>1 DEF DoneArray
    <3>3. PICK q : q = WorkArray(c, acc, j)
      OBVIOUS
    <3>4. CASE ~acc.ok
      <4>1. q = acc
        BY <3>3, <3>4 DEF WorkArray
      <4> QED BY <2>5, <3>2, <3>3, <3>4, <4>1 DEF DoneArray
    <3>5. CASE acc.ok
      <4>1. q = Parse(acc, type, j)
        BY <2>5, <3>3, <3>5 DEF WorkArray
      <4>2. Parses(tks, acc, q, j, type)
        BY <1>1, <3>2, <4>1, ParseParses
      <4>3. Good(tks, q) /\ Others(tks, acc, q, j)
        BY <4>2 DEF Parses
      <4>4. ASSUME q.ok
            PROVE  AsType(q.tokens[j], type) /\ Kind(q.tokens[j]) = KindOf(type)
        <5>1. Kind(acc.tokens[j]) = KindOf(type)
          <6>1. Kind(acc.tokens[j]) # KindOf(type) => ~Parse(acc, type, j).ok
            BY <3>2, FailedGood DEF Parse
          <6> QED BY <4>1, <4>4, <6>1
        <5>2. Kind(q.tokens[j]) = Kind(acc.tokens[j])
          BY <1>1, <3>2, <4>3, TokenFacts
        <5> QED BY <4>2, <4>4, <5>1, <5>2 DEF Parses
      <4>5. ASSUME q.ok, NEW m \in 1 .. k
            PROVE  AsType(q.tokens[i + m], type) /\ Kind(q.tokens[i + m]) = KindOf(type)
        <5>1. CASE m = k
          BY <3>1, <4>4, <4>5, <5>1
        <5>2. CASE m # k
          <6>1. m \in 1 .. k - 1 /\ i + m # j /\ i + m \in 1 .. Len(tks)
            BY <2>3, <2>7, <3>1, <5>2
          <6>2. q.tokens[i + m] = acc.tokens[i + m]
            BY <4>3, <6>1 DEF Others
          <6> QED BY <2>5, <2>12, <3>5, <6>1, <6>2 DEF DoneArray
        <5> QED BY <5>1, <5>2
      <4> QED BY <2>5, <3>2, <3>3, <4>3, <4>5 DEF DoneArray
    <3> QED BY <3>4, <3>5
  <2>13. DoneArray(c, ArrayFold!Fold(c, base, s), n)
    BY <2>3, <2>7, <2>11, <2>12, ArrayFold!FoldInvariant
  <2>14. DoneArray(c, w, n)
    BY <1>2, <2>5, <2>10, <2>13
  <2>15. \A j \in i + 1 .. i + n : \E k \in 1 .. n : j = i + k
    <3> TAKE j \in i + 1 .. i + n
    <3>1. j - i \in 1 .. n /\ j = i + (j - i)
      BY <2>3
    <3> QED BY <3>1
  <2>16. w.ok => \A j \in i + 1 .. i + n : AsType(w.tokens[j], type) /\ Kind(w.tokens[j]) = KindOf(type)
    BY <2>5, <2>14, <2>15 DEF DoneArray
  <2>17. Good(tks, w)
    BY <2>5, <2>14 DEF DoneArray
  <2> QED BY <1>2, <2>1, <2>2, <2>16, <2>17
<1> QED BY <1>3, <1>4

-----------------------------------------------------------------------------

WorkOptions(c, q, what) ==
    LET Wanted(w) == /\ w \in c.options
                     /\ w = "ParseFloats" => "ParseDoubles" \notin c.options
                     /\ w = "ParseStringKeys" => "ParseStrings" \notin c.options
        Root(r, w) ==
            IF ~Wanted(w) THEN r
            ELSE CASE w = "ParseLiterals" -> ParseLiterals(r, 1)
                   [] w = "ParseDoubles" -> ParseNumbers(r, "Double", 1)
                   [] w = "ParseFloats" -> ParseNumbers(r, "Float", 1)
                   [] w = "ParseStrings" -> ParseStrings(r, FALSE, 1)
                   [] w = "ParseStringKeys" -> ParseStrings(r, TRUE, 1)
    IN IF q.ok THEN Root(q, what) ELSE q
OptionsFold == INSTANCE FoldFacts WITH Op <- WorkOptions, Holds <- DoneGood

\* The options of the constructor, one after another, each on what the one before
\* left.
LEMMA OptionsGood ==
    ASSUME NEW tks, Whole(tks), Good(tks, Unparsed), NEW options
    PROVE  Good(tks, ParseOptions(options))
<1>1. PICK c : c = [tks |-> tks, options |-> options]
  OBVIOUS
<1>2. c.tks = tks /\ c.options = options
  BY <1>1
<1>3. PICK s : s = <<"ParseLiterals", "ParseDoubles", "ParseFloats", "ParseStrings", "ParseStringKeys">>
  OBVIOUS
<1>4. DOMAIN s = 1 .. 5 /\ \A k \in 1 .. 5 : s[k] \in {"ParseLiterals", "ParseDoubles", "ParseFloats",
                                                      "ParseStrings", "ParseStringKeys"}
  BY <1>3
<1>5. PICK base : base = Unparsed
  OBVIOUS
<1>6. ParseOptions(c.options) = OptionsFold!Fold(c, base, s)
  BY <1>3, <1>5
     DEF ParseOptions, Sequentially, WorkOptions, FoldLeft, MapThenFoldSet, Max,
         OptionsFold!Fold, OptionsFold!FoldLeft, OptionsFold!MapThenFoldSet, OptionsFold!Max
<1>7. 1 \in 1 .. Len(tks)
  <2>1. tks \in Seq(AnyToken) /\ tks # <<>>
    BY DEF Whole, InText, Complete
  <2> QED BY <2>1
<1>8. "Double" \in NumberTypes /\ "Float" \in NumberTypes
  BY DEF NumberTypes, WideNumbers, SmallNumbers
<1>9. ASSUME NEW q, Good(tks, q),
             NEW what \in {"ParseLiterals", "ParseDoubles", "ParseFloats", "ParseStrings", "ParseStringKeys"}
      PROVE  Good(tks, WorkOptions(c, q, what))
  <2>1. PICK w : w = WorkOptions(c, q, what)
    OBVIOUS
  <2>2. \/ w = q
        \/ w = ParseLiterals(q, 1)
        \/ w = ParseNumbers(q, "Double", 1)
        \/ w = ParseNumbers(q, "Float", 1)
        \/ w = ParseStrings(q, FALSE, 1)
        \/ w = ParseStrings(q, TRUE, 1)
    BY <2>1 DEF WorkOptions
  <2>3. /\ Good(tks, ParseLiterals(q, 1))
        /\ Good(tks, ParseNumbers(q, "Double", 1)) /\ Good(tks, ParseNumbers(q, "Float", 1))
        /\ Good(tks, ParseStrings(q, FALSE, 1)) /\ Good(tks, ParseStrings(q, TRUE, 1))
    BY <1>7, <1>8, <1>9, LiteralsGood, NumbersGood, StringsGood
  <2> QED BY <1>9, <2>1, <2>2, <2>3
<1>10. DoneGood(c, base, 0)
  BY <1>2, <1>5 DEF DoneGood
<1>11. \A k \in 1 .. 5 : \A acc : DoneGood(c, acc, k - 1) => DoneGood(c, WorkOptions(c, acc, s[k]), k)
  BY <1>2, <1>4, <1>9 DEF DoneGood
<1>12. DoneGood(c, OptionsFold!Fold(c, base, s), 5)
  BY <1>4, <1>10, <1>11, OptionsFold!FoldInvariant
<1> QED BY <1>2, <1>6, <1>12 DEF DoneGood

-----------------------------------------------------------------------------
\* The calls.

\* What StaysParsed says of a step.
StepKeeps ==
    \A i \in DOMAIN tokens : IsParsed(tokens[i]) =>
        /\ IsParsed(tokens'[i])
        /\ ParsedType(tokens'[i]) # "Other" => Represents(ParsedType(tokens'[i]), text[tokens[i].first])

\* What the lemmas about parsing ask of the tokens.
LEMMA InvFacts ==
    ASSUME JsonInv
    PROVE  /\ InText(tokens) /\ Tree(tokens, Len(text), container) /\ Good(tokens, Unparsed)
           /\ Unparsed.ok /\ Unparsed.tokens = tokens /\ Unparsed.strings = strings
<1>1. /\ text \in Seq(Lexemes) /\ tokens \in Seq(AnyToken) /\ strings \in Seq(Nat)
      /\ Tree(tokens, Len(text), container)
  BY DEF JsonInv, Tree
<1>2. \A i \in 1 .. Len(tokens) : tokens[i].first \in DOMAIN text
  BY <1>1 DEF Tree, Ordered
<1>3. InText(tokens)
  BY <1>1, <1>2 DEF InText
<1>4. /\ Unparsed \in [ok: BOOLEAN, tokens: Seq(AnyToken), strings: Seq(Nat)]
      /\ Unparsed.ok /\ Unparsed.tokens = tokens /\ Unparsed.strings = strings
  BY <1>1 DEF Unparsed
<1>5. \A i \in 1 .. Len(tokens) : tokens[i] \in AnyToken
  BY <1>1
<1>6. \A i \in 1 .. Len(tokens) : Kept(tokens[i], tokens[i])
  BY <1>5 DEF Kept
<1>7. Good(tokens, Unparsed)
  BY <1>4, <1>6 DEF Good, JsonInv
<1> QED BY <1>1, <1>3, <1>4, <1>7

\* A text that was read to its end is in no container.
LEMMA InvWhole ==
    ASSUME JsonInv, Complete(tokens)
    PROVE  Whole(tokens) /\ container = 0
<1>1. PICK tks, n, c : tks = tokens /\ n = Len(text) /\ c = container
  OBVIOUS
<1>2. Tree(tks, n, c) /\ \A i \in 1 .. Len(tks) : ~IsOpen(tks[i])
  BY <1>1 DEF JsonInv, Complete
<1>3. IsLastOpen(tks, c, Len(tks) + 1) /\ Len(tks) \in Nat
  BY <1>2 DEF Tree, OpenLinked
<1>4. c = 0
  BY <1>2, <1>3 DEF IsLastOpen
<1> QED BY <1>1, <1>2, <1>4, InvFacts DEF Whole

\* What was parsed becomes the state.
LEMMA ResultKept ==
    ASSUME JsonInv, Complete(tokens), NEW r, Good(tokens, r),
           tokens' = r.tokens, strings' = r.strings, UNCHANGED <<text, expected, container>>,
           status' \in {"tokenized", "unparsed"}
    PROVE  JsonInv' /\ StepKeeps
<1>1. PICK tks, txt, c, e, u, strs, n : /\ tks = tokens /\ txt = text /\ c = container /\ e = expected
                                        /\ u = r.tokens /\ strs = r.strings /\ n = Len(text)
  OBVIOUS
<1>2. /\ Whole(tks) /\ Good(tks, r) /\ Tree(tks, n, c) /\ Expecting1(tks, c, e) /\ c = 0
  BY <1>1, InvWhole DEF JsonInv
<1>3. /\ tks \in Seq(AnyToken) /\ u \in Seq(AnyToken) /\ Len(u) = Len(tks) /\ Len(tks) \in Nat
      /\ \A i \in 1 .. Len(tks) : Kept(tks[i], u[i]) /\ TokenSound(u[i], strs, txt)
      /\ strs \in Seq(Nat) /\ \A k \in DOMAIN strs : strs[k] \in {NoText} \cup DOMAIN txt
  BY <1>1, <1>2 DEF Good, Whole, InText
<1>4. Tree(u, n, c)
  BY <1>2, <1>3, TreeKept
<1>5. Whole(u)
  BY <1>1, <1>2, WholeKept
<1>6. Complete(u) /\ u # <<>>
  BY <1>5 DEF Whole, Complete
<1>7. Expecting1(u, c, e)
  <2>1. Len(tks) \in 1 .. Len(tks) /\ tks # <<>>
    BY <1>3, <1>1 DEF Complete
  <2>2. u[Len(u)].isKey = tks[Len(tks)].isKey
    BY <1>3, <2>1 DEF Kept
  <2> QED BY <1>2, <1>6, <2>1, <2>2 DEF Expecting1
<1>8. status' # "reading" /\ status' \in {"reading", "rejected", "too short", "unparsed", "tokenized"}
  OBVIOUS
<1>9. text \in Seq(Lexemes)
  BY DEF JsonInv
<1>10. /\ tokens' = u /\ strings' = strs /\ text' = txt /\ container' = c /\ expected' = e /\ Len(text') = n
  BY <1>1
<1>11. JsonInv'
  BY <1>1, <1>3, <1>4, <1>6, <1>7, <1>8, <1>9, <1>10 DEF JsonInv
<1>12. StepKeeps
  <2>1. ASSUME NEW i \in 1 .. Len(tks), IsParsed(tks[i])
        PROVE  /\ IsParsed(u[i])
               /\ ParsedType(u[i]) # "Other" => Represents(ParsedType(u[i]), txt[tks[i].first])
    <3>1. IsParsed(u[i]) /\ u[i].first = tks[i].first /\ TokenSound(u[i], strs, txt)
      BY <1>3, <2>1 DEF Kept
    <3> QED BY <3>1 DEF TokenSound
  <2>2. DOMAIN tks = 1 .. Len(tks)
    BY <1>3
  <2> QED BY <1>1, <1>10, <2>1, <2>2 DEF StepKeeps
<1> QED BY <1>11, <1>12

\* One call of a Json instance, with the result it has.
LEMMA CallKeeps ==
    ASSUME JsonInv, NEW r, Good(tokens, r), Call(r)
    PROVE  JsonInv' /\ StepKeeps
<1>1. Complete(tokens)
  BY DEF JsonInv, Call
<1> QED BY <1>1, ResultKept DEF Call

\* The end of the text, and the options parsed then.
LEMMA EndKeeps ==
    ASSUME JsonInv, NEW options, EndOfText(options)
    PROVE  JsonInv' /\ StepKeeps
<1>1. CASE expected = "DocumentEnd" /\ container = NoContainer
  <2>1. PICK r : r = ParseOptions(options)
    OBVIOUS
  <2>2. /\ status' \in {"tokenized", "unparsed"} /\ tokens' = r.tokens /\ strings' = r.strings
        /\ UNCHANGED <<text, expected, container>>
    BY <1>1, <2>1 DEF EndOfText
  <2>3. Complete(tokens)
    <3>1. PICK tks, n, c, e : tks = tokens /\ n = Len(text) /\ c = container /\ e = expected
      OBVIOUS
    <3>2. Tree(tks, n, c) /\ Expecting1(tks, c, e) /\ c = 0 /\ e = "DocumentEnd"
      BY <1>1, <3>1 DEF JsonInv, NoContainer
    <3>3. tks # <<>> /\ ~tks[Len(tks)].isKey
      BY <3>2 DEF Expecting1
    <3>4. Len(tks) \in Nat /\ \A p \in 1 .. Len(tks) + 1 - 1 : IsOpen(tks[p]) => p <= 0
      BY <3>2 DEF Tree, OpenLinked, IsLastOpen
    <3>5. \A p \in 1 .. Len(tks) : ~IsOpen(tks[p])
      BY <3>4
    <3> QED BY <3>1, <3>3, <3>5 DEF Complete
  <2>4. PICK tks : tks = tokens
    OBVIOUS
  <2>5. Whole(tks) /\ Good(tks, Unparsed)
    BY <2>3, <2>4, InvWhole, InvFacts
  <2>6. Good(tks, r)
    BY <2>1, <2>5, OptionsGood
  <2> QED BY <2>2, <2>3, <2>4, <2>6, ResultKept
<1>2. CASE ~(expected = "DocumentEnd" /\ container = NoContainer)
  <2>1. status' = "too short" /\ UNCHANGED <<tokens, strings, text, expected, container>> /\ status = "reading"
    BY <1>2 DEF EndOfText, Unparsed
  <2>2. \A i \in DOMAIN tokens : ~IsParsed(tokens[i])
    <3>1. DOMAIN tokens = 1 .. Len(tokens)
      BY InvFacts DEF InText
    <3>2. \A i \in 1 .. Len(tokens) : ~IsParsed(tokens[i])
      BY <2>1 DEF JsonInv
    <3> QED BY <3>1, <3>2
  <2>3. JsonInv'
    BY <2>1 DEF JsonInv
  <2> QED BY <2>2, <2>3 DEF StepKeeps
<1> QED BY <1>1, <1>2

\* One lexeme.
LEMMA ReadStep ==
    ASSUME JsonInv, NEW lexeme \in Lexemes, Read(lexeme)
    PROVE  JsonInv' /\ StepKeeps
<1>1. DOMAIN tokens = 1 .. Len(tokens)
  BY InvFacts DEF InText
<1> QED BY <1>1, ReadKeeps DEF StepKeeps

\* Any step of a Json instance.
LEMMA JsonKeeps ==
    ASSUME JsonInv, JsonNext
    PROVE  JsonInv' /\ StepKeeps
<1>1. CASE ReadNext
  <2>1. ASSUME NEW lexeme \in Inputs, Read(lexeme) PROVE JsonInv' /\ StepKeeps
    <3>1. lexeme \in Lexemes
      BY JsonAssumption
    <3> QED BY <2>1, <3>1, ReadStep
  <2>2. ASSUME NEW options \in OptionSets, EndOfText(options) PROVE JsonInv' /\ StepKeeps
    BY <2>2, EndKeeps
  <2> QED BY <1>1, <2>1, <2>2 DEF ReadNext
<1>2. CASE ParseNext
  <2>1. PICK i \in DOMAIN tokens :
            \/ \E type \in ValueTypes : CallParse(type, i) \/ CallParseArrayOf(type, i)
            \/ CallParseObject(i) \/ CallParseArray(i) \/ CallParseLiterals(i)
            \/ \E type \in NumberTypes : CallParseNumbers(type, i)
            \/ \E keysOnly \in BOOLEAN : CallParseStrings(keysOnly, i)
    BY <1>2 DEF ParseNext
  <2>2. status = "tokenized"
    BY <2>1 DEF CallParse, CallParseArrayOf, CallParseObject, CallParseArray, CallParseLiterals,
                CallParseNumbers, CallParseStrings, Call
  <2>3. PICK tks, base : tks = tokens /\ base = Unparsed
    OBVIOUS
  <2>4. Whole(tks) /\ InText(tks) /\ Good(tks, base) /\ i \in 1 .. Len(tks)
    <3>1. Complete(tokens)
      BY <2>2 DEF JsonInv
    <3> QED BY <2>1, <2>3, <3>1, InvWhole, InvFacts DEF InText
  <2>5. \E r : Call(r) /\ Good(tks, r)
    <3>1. ASSUME NEW type \in ValueTypes, CallParse(type, i) PROVE \E r : Call(r) /\ Good(tks, r)
      <4>1. Good(tks, Parse(base, type, i))
        BY <2>4, ParseParses DEF Parses
      <4> QED BY <2>3, <3>1, <4>1 DEF CallParse
    <3>2. ASSUME NEW type \in ValueTypes, CallParseArrayOf(type, i) PROVE \E r : Call(r) /\ Good(tks, r)
      <4>1. Good(tks, ParseArrayOf(base, type, i))
        BY <2>4, ArrayOfTyped
      <4> QED BY <2>3, <3>2, <4>1 DEF CallParseArrayOf
    <3>3. ASSUME CallParseObject(i) PROVE \E r : Call(r) /\ Good(tks, r)
      <4>1. Good(tks, ParseObject(base, i))
        BY <2>4, ObjectGood
      <4> QED BY <2>3, <3>3, <4>1 DEF CallParseObject
    <3>4. ASSUME CallParseArray(i) PROVE \E r : Call(r) /\ Good(tks, r)
      <4>1. Good(tks, ParseArray(base, i))
        BY <2>4, ArrayGood
      <4> QED BY <2>3, <3>4, <4>1 DEF CallParseArray
    <3>5. ASSUME CallParseLiterals(i) PROVE \E r : Call(r) /\ Good(tks, r)
      <4>1. Good(tks, ParseLiterals(base, i))
        BY <2>4, LiteralsGood
      <4> QED BY <2>3, <3>5, <4>1 DEF CallParseLiterals
    <3>6. ASSUME NEW type \in NumberTypes, CallParseNumbers(type, i) PROVE \E r : Call(r) /\ Good(tks, r)
      <4>1. Good(tks, ParseNumbers(base, type, i))
        BY <2>4, NumbersGood
      <4> QED BY <2>3, <3>6, <4>1 DEF CallParseNumbers
    <3>7. ASSUME NEW keysOnly \in BOOLEAN, CallParseStrings(keysOnly, i) PROVE \E r : Call(r) /\ Good(tks, r)
      <4>1. Good(tks, ParseStrings(base, keysOnly, i))
        BY <2>4, StringsGood
      <4> QED BY <2>3, <3>7, <4>1 DEF CallParseStrings
    <3> QED BY <2>1, <3>1, <3>2, <3>3, <3>4, <3>5, <3>6, <3>7
  <2> QED BY <2>3, <2>5, CallKeeps
<1> QED BY <1>1, <1>2 DEF JsonNext

-----------------------------------------------------------------------------
\* The tree, from the text and from the counts.

\* A set of numbers up to n that is not empty has a greatest one.
LEMMA MaxExists ==
    ASSUME NEW n \in Nat, NEW S \in SUBSET (0 .. n), 0 \in S
    PROVE  \E m \in S : \A y \in S : m >= y
<1> DEFINE Upto(k) == \E m \in S : \A y \in S : y <= k => m >= y
           T == {k \in 0 .. n : Upto(k)}
<1>1. 0 \in T
  OBVIOUS
<1>2. ASSUME NEW k \in 1 .. n, k - 1 \in T PROVE k \in T
  <2>1. PICK m \in S : \A y \in S : y <= k - 1 => m >= y
    BY <1>2
  <2>2. CASE k \in S
    <3>1. \A y \in S : y <= k => k >= y
      OBVIOUS
    <3> QED BY <2>2, <3>1
  <2>3. CASE k \notin S
    <3>1. \A y \in S : y <= k => m >= y
      BY <2>1, <2>3
    <3> QED BY <3>1
  <2> QED BY <2>2, <2>3
<1>3. n \in T
  <2> HIDE DEF T
  <2>1. \A k \in 1 .. n : k - 1 \in T => k \in T
    BY <1>2
  <2>2. \A k \in 0 .. n : k \in T
    BY <1>1, <2>1, ObjectFold!FromZero
  <2> QED BY <2>2
<1>4. PICK m \in S : \A y \in S : y <= n => m >= y
  BY <1>3
<1> QED BY <1>4

\* The maximum is the one that the properties use.
LEMMA Max1Is ==
    ASSUME NEW S \in SUBSET Nat, NEW m \in S, \A y \in S : m >= y
    PROVE  Max1(S) = m
<1>1. \A x \in S : (\A y \in S : x >= y) => x = m
  OBVIOUS
<1> QED BY <1>1 DEF Max1

\* The part of the text that a token spans holds what is counted in it.
LEMMA InsideExact ==
    ASSUME NEW tks, Whole(tks), NEW i \in 1 .. Len(tks), ~tks[i].isKey
    PROVE  /\ {j \in DOMAIN tks : Spans(tks[i], tks[j])} = i + 1 .. i + ChildCount(tks, i)
           /\ Cardinality({j \in DOMAIN tks : Spans(tks[i], tks[j])}) = ChildCount(tks, i)
<1>1. DOMAIN tks = 1 .. Len(tks) /\ Len(tks) \in Nat
  BY DEF Whole, InText
<1>2. PICK k : k = ChildCount(tks, i)
  OBVIOUS
<1>3. k \in Nat /\ i + k \in i .. Len(tks)
  BY <1>2, CountFacts
<1>4. PICK n : n = Len(text)
  OBVIOUS
<1>5. n \in Nat /\ Ordered(tks, n) /\ ClosedExact(tks) /\ \A j \in 1 .. Len(tks) : ~IsOpen(tks[j])
  BY <1>4 DEF Whole, Tree, Complete
<1>6. \A j \in 1 .. Len(tks) : /\ tks[j].first \in 1 .. n /\ tks[j].last \in tks[j].first .. n
                               /\ \A m \in j + 1 .. Len(tks) : tks[j].first < tks[m].first
  BY <1>5 DEF Ordered
<1>7. ASSUME NEW j \in 1 .. Len(tks) PROVE Spans(tks[i], tks[j]) <=> j \in i + 1 .. i + k
  <2>1. CASE j <= i
    <3>1. j = i \/ i \in j + 1 .. Len(tks)
      BY <1>1, <2>1
    <3>2. ~(tks[i].first < tks[j].first)
      BY <1>6, <3>1
    <3> QED BY <1>3, <2>1, <3>2 DEF Spans
  <2>2. CASE j > i
    <3>1. j \in i + 1 .. Len(tks) /\ tks[i].first < tks[j].first
      BY <1>1, <1>6, <2>2
    <3>2. CASE IsContainer(tks[i])
      <4>1. k = tks[i].data
        BY <1>2, <3>2, CountFacts
      <4>2. j <= i + k <=> tks[j].last <= tks[i].last
        BY <1>5, <3>1, <3>2, <4>1 DEF ClosedExact
      <4> QED BY <1>3, <3>1, <4>2 DEF Spans
    <3>3. CASE ~IsContainer(tks[i])
      <4>1. k = 0 /\ tks[i].last = tks[i].first
        BY <1>2, <1>5, <3>3, CountFacts DEF Ordered
      <4>2. tks[j].last >= tks[j].first /\ tks[i].first \in Nat /\ tks[j].first \in Nat /\ tks[j].last \in Nat
        BY <1>5, <1>6
      <4>3. ~(tks[j].last <= tks[i].last)
        BY <3>1, <4>1, <4>2
      <4>4. ~Spans(tks[i], tks[j])
        BY <4>3 DEF Spans
      <4>5. j \notin i + 1 .. i + k
        BY <3>1, <4>1
      <4> QED BY <4>4, <4>5
    <3> QED BY <3>2, <3>3
  <2> QED BY <1>1, <2>1, <2>2
<1>8. {j \in DOMAIN tks : Spans(tks[i], tks[j])} = i + 1 .. i + k
  <2>1. \A j \in i + 1 .. i + k : j \in 1 .. Len(tks)
    BY <1>1, <1>3
  <2> QED BY <1>1, <1>7, <2>1
<1>9. Cardinality(i + 1 .. i + k) = k
  <2>1. PICK a \in Int : a = i + 1
    OBVIOUS
  <2>2. PICK b \in Int : b = i + k
    BY <1>3
  <2>3. Cardinality(a .. b) = IF a > b THEN 0 ELSE b - a + 1
    BY FS_Interval
  <2> QED BY <1>3, <2>1, <2>2, <2>3
<1> QED BY <1>2, <1>8, <1>9

\* The same count, from a key, is one more (childCount()).
LEMMA CountExact ==
    ASSUME NEW tks, Whole(tks), NEW i \in 1 .. Len(tks)
    PROVE  LET Inside(t) == Cardinality({j \in DOMAIN tks : Spans(t, tks[j])})
           IN ChildCount(tks, i) = IF tks[i].isKey THEN 1 + Inside(tks[i + 1]) ELSE Inside(tks[i])
<1>1. CASE ~tks[i].isKey
  BY <1>1, InsideExact
<1>2. CASE tks[i].isKey
  <2>1. i < Len(tks) /\ ~tks[i + 1].isKey /\ ChildCount(tks, i) = 1 + ChildCount(tks, i + 1)
    BY <1>2, CountFacts
  <2>2. i + 1 \in 1 .. Len(tks)
    BY <2>1 DEF Whole, InText
  <2>3. Cardinality({j \in DOMAIN tks : Spans(tks[i + 1], tks[j])}) = ChildCount(tks, i + 1)
    BY <2>1, <2>2, InsideExact
  <2> QED BY <1>2, <2>1, <2>3
<1> QED BY <1>1, <1>2

\* parent() finds the innermost token that spans the given one, or its key.
LEMMA ParentExact ==
    ASSUME NEW tks, Whole(tks), NEW i \in 1 .. Len(tks)
    PROVE  Parent(tks, i) = IF i > 1 /\ tks[i - 1].isKey THEN i - 1
                            ELSE Max1({NoContainer} \cup {p \in DOMAIN tks : Spans(tks[p], tks[i])})
<1>1. DOMAIN tks = 1 .. Len(tks) /\ Len(tks) \in Nat
  BY DEF Whole, InText
<1> DEFINE Spanning == {p \in 1 .. i - 1 : p + ChildCount(tks, p) >= i}
           S1 == {NoContainer} \cup Spanning
           S2 == {NoContainer} \cup {p \in DOMAIN tks : Spans(tks[p], tks[i])}
<1>2. \A p \in 1 .. i - 1 : p \in 1 .. Len(tks) /\ ChildCount(tks, p) \in Nat
  <2> TAKE p \in 1 .. i - 1
  <2>1. p \in 1 .. Len(tks)
    BY <1>1
  <2> QED BY <2>1, CountFacts
<1>3. S1 \in SUBSET (0 .. Len(tks)) /\ NoContainer = 0 /\ 0 \in S1
  BY <1>1, <1>2 DEF NoContainer
<1>4. Parent(tks, i) = Max1(S1)
  BY DEF Parent
<1>5. CASE i > 1 /\ tks[i - 1].isKey
  <2>1. i - 1 \in 1 .. i - 1 /\ i - 1 \in 1 .. Len(tks)
    BY <1>1, <1>5
  <2>2. PICK k : k = ChildCount(tks, i - 1)
    OBVIOUS
  <2>3. k \in Nat /\ k >= 1
    <3>1. k = 1 + ChildCount(tks, i - 1 + 1) /\ k \in Nat
      BY <1>5, <2>1, <2>2, CountFacts
    <3>2. i - 1 + 1 \in 1 .. Len(tks)
      BY <2>1
    <3>3. ChildCount(tks, i - 1 + 1) \in Nat
      BY <3>2, CountFacts
    <3> QED BY <3>1, <3>3
  <2>4. i - 1 \in S1
    BY <2>1, <2>2, <2>3
  <2>5. \A y \in S1 : i - 1 >= y
    BY <1>3, <1>5
  <2>6. S1 \in SUBSET Nat
    BY <1>3
  <2> HIDE DEF S1
  <2>7. PICK m : m = i - 1
    OBVIOUS
  <2>8. Max1(S1) = m
    BY <2>4, <2>5, <2>6, <2>7, Max1Is
  <2> QED BY <1>4, <1>5, <2>7, <2>8
<1>6. CASE ~(i > 1 /\ tks[i - 1].isKey)
  <2>1. \A p \in 1 .. Len(tks) : ~tks[p].isKey =>
            (Spans(tks[p], tks[i]) <=> p < i /\ i <= p + ChildCount(tks, p))
    <3> SUFFICES ASSUME NEW p \in 1 .. Len(tks), ~tks[p].isKey
                 PROVE  Spans(tks[p], tks[i]) <=> p < i /\ i <= p + ChildCount(tks, p)
      OBVIOUS
    <3>1. {j \in DOMAIN tks : Spans(tks[p], tks[j])} = p + 1 .. p + ChildCount(tks, p)
      BY InsideExact
    <3>2. ChildCount(tks, p) \in Nat
      BY CountFacts
    <3>3. Spans(tks[p], tks[i]) <=> i \in p + 1 .. p + ChildCount(tks, p)
      BY <1>1, <3>1
    <3> QED BY <1>1, <3>2, <3>3
  <2>2. \A p \in 1 .. Len(tks) : tks[p].isKey => ~Spans(tks[p], tks[i])
    <3> SUFFICES ASSUME NEW p \in 1 .. Len(tks), tks[p].isKey, Spans(tks[p], tks[i]) PROVE FALSE
      OBVIOUS
    <3>1. ~IsContainer(tks[p])
      BY CountFacts DEF IsContainer
    <3>2. PICK n : n = Len(text)
      OBVIOUS
    <3>3. Ordered(tks, n) /\ n \in Nat
      BY <3>2 DEF Whole, Tree
    <3>4. /\ tks[p].last = tks[p].first /\ tks[p].first \in 1 .. n
          /\ tks[i].first \in 1 .. n /\ tks[i].last \in tks[i].first .. n
      BY <3>1, <3>3 DEF Ordered
    <3>5. tks[p].first < tks[i].first /\ tks[i].last <= tks[p].last
      BY DEF Spans
    <3> QED BY <3>3, <3>4, <3>5
  <2>3. S2 \subseteq S1
    BY <1>1, <1>2, <2>1, <2>2
  <2>4. \A p \in S1 : p \in S2 \/ p + 1 \in S2
    <3> SUFFICES ASSUME NEW p \in Spanning PROVE p \in S2 \/ p + 1 \in S2
      OBVIOUS
    <3>1. p \in 1 .. i - 1 /\ p \in 1 .. Len(tks) /\ p + ChildCount(tks, p) >= i
      BY <1>2
    <3>2. CASE ~tks[p].isKey
      BY <1>1, <2>1, <3>1, <3>2
    <3>3. CASE tks[p].isKey
      <4>1. p + 1 < i /\ p + 1 \in 1 .. Len(tks)
        <5>1. p # i - 1
          BY <1>6, <3>1, <3>3
        <5> QED BY <1>1, <3>1, <5>1
      <4>2. ~tks[p + 1].isKey /\ ChildCount(tks, p) = 1 + ChildCount(tks, p + 1)
        BY <3>1, <3>3, CountFacts
      <4>3. ChildCount(tks, p + 1) \in Nat
        BY <4>1, CountFacts
      <4>4. i <= p + 1 + ChildCount(tks, p + 1)
        BY <1>1, <3>1, <4>2, <4>3
      <4>5. Spans(tks[p + 1], tks[i])
        BY <2>1, <4>1, <4>2, <4>4
      <4> QED BY <1>1, <4>1, <4>5
    <3> QED BY <3>2, <3>3
  <2>5. NoContainer \in S2
    OBVIOUS
  <2> HIDE DEF S1, S2
  <2>6. S2 \in SUBSET (0 .. Len(tks)) /\ 0 \in S2 /\ S1 \in SUBSET Nat /\ S2 \in SUBSET Nat
    BY <1>3, <2>3, <2>5
  <2>7. PICK m \in S2 : \A y \in S2 : m >= y
    BY <1>1, <2>6, MaxExists
  <2>8. m \in S1 /\ \A y \in S1 : m >= y
    BY <2>3, <2>4, <2>6, <2>7
  <2>9. Max1(S1) = m /\ Max1(S2) = m
    BY <2>6, <2>7, <2>8, Max1Is
  <2>10. Max1(S2) = Max1({NoContainer} \cup {p \in DOMAIN tks : Spans(tks[p], tks[i])})
    BY DEF S2
  <2> QED BY <1>4, <1>6, <2>9, <2>10
<1> QED BY <1>5, <1>6

-----------------------------------------------------------------------------
\* What the invariant says of the properties.

\* Counts and parents are those of a whole tree, and size bits follow type bits.
LEMMA InvTree ==
    ASSUME JsonInv
    PROVE  TreeExact
<1>1. PICK tks : tks = tokens
  OBVIOUS
<1>2. DOMAIN tks = 1 .. Len(tks)
  BY <1>1, InvFacts DEF InText
<1>3. SizeTypeExact
  <2>1. \A i \in 1 .. Len(tks) : TokenSound(tks[i], strings, text)
    BY <1>1 DEF JsonInv
  <2> QED BY <1>1, <1>2, <2>1 DEF SizeTypeExact, TokenSound
<1>4. ASSUME status = "tokenized", NEW i \in DOMAIN tks
      PROVE  LET around == {p \in DOMAIN tks : Spans(tks[p], tks[i])}
                 Inside(t) == Cardinality({j \in DOMAIN tks : Spans(t, tks[j])})
             IN /\ Parent(tks, i) = IF i > 1 /\ tks[i - 1].isKey THEN i - 1
                                    ELSE Max1({NoContainer} \cup around)
                /\ ChildCount(tks, i) = IF tks[i].isKey THEN 1 + Inside(tks[i + 1])
                                        ELSE Inside(tks[i])
  <2>1. Complete(tokens)
    BY <1>4 DEF JsonInv
  <2>2. Whole(tks) /\ i \in 1 .. Len(tks)
    BY <1>1, <1>2, <2>1, InvWhole
  <2>3. Parent(tks, i) = IF i > 1 /\ tks[i - 1].isKey THEN i - 1
                         ELSE Max1({NoContainer} \cup {p \in DOMAIN tks : Spans(tks[p], tks[i])})
    BY <2>2, ParentExact
  <2>4. LET Inside(t) == Cardinality({j \in DOMAIN tks : Spans(t, tks[j])})
        IN ChildCount(tks, i) = IF tks[i].isKey THEN 1 + Inside(tks[i + 1]) ELSE Inside(tks[i])
    BY <2>2, CountExact
  <2> QED BY <2>3, <2>4
<1> QED BY <1>1, <1>3, <1>4 DEF TreeExact

\* Strings with escapes are found where the token says.
LEMMA InvOwned ==
    ASSUME JsonInv
    PROVE  StringsOwned
<1>1. DOMAIN tokens = 1 .. Len(tokens)
  BY InvFacts DEF InText
<1>2. \A i \in 1 .. Len(tokens) : TokenSound(tokens[i], strings, text)
  BY DEF JsonInv
<1> QED BY <1>1, <1>2 DEF StringsOwned, TokenSound

\* Between an array and one of its items that is no container, where none of
\* the items before it is one, nothing counts up to the item.
LEMMA ItemParent ==
    ASSUME NEW u, Whole(u), NEW i \in 1 .. Len(u), u[i].bits = "Array",
           NEW j \in i + 1 .. i + u[i].data,
           \A p \in i + 1 .. i + u[i].data : ~IsContainer(u[p])
    PROVE  Parent(u, j) = i
<1>1. /\ Len(u) \in Nat /\ IsContainer(u[i]) /\ ChildCount(u, i) = u[i].data
      /\ u[i].data \in Nat /\ i + u[i].data <= Len(u)
  <2>1. IsContainer(u[i])
    BY DEF IsContainer
  <2>2. ChildCount(u, i) = u[i].data /\ ChildCount(u, i) \in Nat /\ i + ChildCount(u, i) \in i .. Len(u)
    BY <2>1, CountFacts
  <2> QED BY <2>1, <2>2 DEF Whole, InText
<1>2. ASSUME NEW p \in i + 1 .. j - 1 PROVE ChildCount(u, p) = 0
  <2>1. p \in 1 .. Len(u) /\ p \in i + 1 .. i + u[i].data /\ i \in 1 .. p - 1
    BY <1>1
  <2>2. ~IsContainer(u[p])
    BY <2>1
  <2>3. CASE u[p].isKey
    <3>1. PICK q \in 1 .. p - 1 : Within(u, q, p) /\ u[q].bits = "Object"
      BY <2>1, <2>3 DEF Whole, Tree, KeysSound
    <3>2. Around(u, i, p)
      BY <1>1, <2>1 DEF Around
    <3>3. i <= q
      BY <2>1, <3>1, <3>2 DEF Within
    <3>4. q # i
      BY <3>1
    <3>5. q \in i + 1 .. i + u[i].data
      BY <1>1, <2>1, <3>1, <3>3, <3>4
    <3>6. IsContainer(u[q])
      BY <3>1 DEF IsContainer
    <3> QED BY <3>5, <3>6
  <2> QED BY <2>1, <2>2, <2>3, CountFacts
<1> DEFINE S == {NoContainer} \cup {p \in 1 .. j - 1 : p + ChildCount(u, p) >= j}
<1>3. i \in S /\ S \in SUBSET Nat
  BY <1>1 DEF NoContainer
<1>4. \A y \in S : i >= y
  <2> SUFFICES ASSUME NEW y \in 1 .. j - 1, y + ChildCount(u, y) >= j, ~(i >= y) PROVE FALSE
    BY DEF NoContainer
  <2>1. y \in i + 1 .. j - 1
    BY <1>1
  <2>2. ChildCount(u, y) = 0
    BY <1>2, <2>1
  <2> QED BY <1>1, <2>1, <2>2
<1>5. Parent(u, j) = Max1(S)
  BY DEF Parent
<1> HIDE DEF S
<1> QED BY <1>3, <1>4, <1>5, Max1Is

\* A view on an array that was parsed has values of one type, one for each child.
LEMMA InvViews ==
    ASSUME JsonInv
    PROVE  ArrayViewsTyped
<1> SUFFICES ASSUME status = "tokenized", NEW i \in DOMAIN tokens, NEW type \in ValueTypes \ {"Null"}
             PROVE  LET r == ParseArrayOf(Unparsed, type, i)
                    IN r.ok => \A j \in i + 1 .. i + r.tokens[i].data :
                                    /\ Parent(r.tokens, j) = i
                                    /\ IsParsed(r.tokens[j])
                                    /\ IF type \in NumberTypes THEN ParsedType(r.tokens[j]) = type
                                       ELSE r.tokens[j].bits = type
  BY DEF ArrayViewsTyped
<1>1. PICK tks, base : tks = tokens /\ base = Unparsed
  OBVIOUS
<1>2. PICK r : r = ParseArrayOf(base, type, i)
  OBVIOUS
<1>3. Whole(tks) /\ Good(tks, base) /\ i \in 1 .. Len(tks)
  <2>1. Complete(tokens)
    BY DEF JsonInv
  <2> QED BY <1>1, <2>1, InvWhole, InvFacts DEF InText
<1>4. /\ Good(tks, r)
      /\ r.ok => /\ tks[i].bits = "Array"
                 /\ \A j \in i + 1 .. i + tks[i].data :
                        AsType(r.tokens[j], type) /\ Kind(r.tokens[j]) = KindOf(type)
  <2>1. LET q == ParseArrayOf(base, type, i)
        IN /\ Good(tks, q)
           /\ q.ok => /\ tks[i].bits = "Array"
                      /\ \A j \in i + 1 .. i + tks[i].data :
                             AsType(q.tokens[j], type) /\ Kind(q.tokens[j]) = KindOf(type)
    BY <1>3, ArrayOfTyped
  <2> QED BY <1>2, <2>1
<1>5. PICK u : u = r.tokens
  OBVIOUS
<1>6. Whole(u) /\ Len(u) = Len(tks) /\ tks \in Seq(AnyToken)
  BY <1>3, <1>4, <1>5, WholeKept DEF Whole, InText
<1>7. ASSUME r.ok, NEW j \in i + 1 .. i + u[i].data
      PROVE  /\ Parent(u, j) = i
             /\ IsParsed(u[j])
             /\ IF type \in NumberTypes THEN ParsedType(u[j]) = type ELSE u[j].bits = type
  <2>1. tks[i] \in AnyToken /\ Kept(tks[i], u[i])
    BY <1>3, <1>4, <1>5, <1>6 DEF Good
  <2>2. u[i].bits = "Array" /\ u[i].data = tks[i].data
    BY <1>4, <1>7, <2>1, ShapeKept DEF IsContainer
  <2>3. \A p \in i + 1 .. i + u[i].data : AsType(u[p], type) /\ Kind(u[p]) = KindOf(type)
    BY <1>4, <1>5, <1>7, <2>2
  <2>4. \A p \in i + 1 .. i + u[i].data : p \in 1 .. Len(u) /\ u[p] \in AnyToken
    <3>1. IsContainer(u[i]) /\ i \in 1 .. Len(u) /\ Len(u) \in Nat /\ u \in Seq(AnyToken)
          /\ u[i] \in AnyToken
      BY <1>3, <1>6, <2>2 DEF IsContainer, Whole, InText
    <3>2. i + u[i].data \in i .. Len(u)
      BY <1>6, <3>1, CountFacts
    <3>3. u[i].data \in Nat
      BY <3>1 DEF AnyToken
    <3>4. PICK d : d = u[i].data
      OBVIOUS
    <3>5. \A p \in i + 1 .. i + d : p \in 1 .. Len(u)
      BY <3>1, <3>2, <3>3, <3>4
    <3> QED BY <3>1, <3>4, <3>5
  <2>5. KindOf(type) \notin {"Object", "Array"}
    BY DEF KindOf, ValueTypes, NumberTypes, WideNumbers, SmallNumbers
  <2>6. \A p \in i + 1 .. i + u[i].data : ~IsContainer(u[p])
    BY <2>3, <2>4, <2>5, KindFacts
  <2>7. Parent(u, j) = i
    BY <1>3, <1>6, <1>7, <2>2, <2>6, ItemParent
  <2> QED BY <1>7, <2>3, <2>7 DEF AsType
<1> QED BY <1>1, <1>2, <1>5, <1>7

-----------------------------------------------------------------------------
\* The writer.

\* What the state of a writer is made of.
AnyLevel == [prefix: Nat, size: Nat \cup {NotAnArray},
             kind: {"root", "object", "array", "compact"}, mixed: BOOLEAN]

AnyWritten == [lexeme: Lexemes \cup {"newline"}, spaces: Nat]

AnyWriter == [expecting: Expecting, needsCommaBefore: BOOLEAN,
              compactArrayWrapAfter: WrapAfter \cup {0}, indentation: 0 .. 8, finalNewline: BOOLEAN,
              whitespace: Nat, levels: Seq(AnyLevel),
              out: Seq(AnyWritten)]

\* The root is at the bottom, and nothing is put on top of a compact array or
\* of an array that is taken for one.
LevelsSound(levels) ==
    /\ levels # <<>>
    /\ \A i \in 1 .. Len(levels) :
            /\ levels[i].kind = "root" <=> i = 1
            /\ levels[i].size = NotAnArray <=> levels[i].kind \in {"root", "object"}
            /\ i < Len(levels) =>
                    levels[i].kind # "compact" /\ (levels[i].kind = "array" => ~levels[i].mixed)

\* What is expected follows from the level on top, with n items so far.
ExpectingSound(expecting, level, n) ==
    /\ level.kind = "root" => expecting = IF n = 0 THEN "Value" ELSE "DocumentEnd"
    /\ level.kind = "object" => expecting \in {"ObjectKeyOrEnd", "ObjectValue"}
    /\ level.kind = "array" => expecting = IF level.mixed THEN "CompactArrayValueOrArrayEnd"
                                           ELSE "ArrayValueOrArrayEnd"
    /\ level.kind = "compact" => expecting = "CompactArrayValueOrArrayEnd"

\* The writer after n items.
WriterSound(s, n) ==
    /\ s \in AnyWriter
    /\ n \in Nat
    /\ LevelsSound(s.levels)
    /\ ExpectingSound(s.expecting, s.levels[Len(s.levels)], n)
    /\ Len(s.levels) > 1 => n > 0

\* Something was written, and nothing else happened.
Emitted(s, t) ==
    /\ t \in AnyWriter
    /\ t.expecting = s.expecting /\ t.levels = s.levels

\* The level on top.
LEMMA LastLevel ==
    ASSUME NEW s \in AnyWriter, s.levels # <<>>
    PROVE  /\ Len(s.levels) \in 1 .. Len(s.levels) /\ Len(s.levels) \in Nat
           /\ Last(s.levels) = s.levels[Len(s.levels)] /\ s.levels[Len(s.levels)] \in AnyLevel
           /\ \A i \in 1 .. Len(s.levels) : s.levels[i] \in AnyLevel
<1>1. s.levels \in Seq(AnyLevel)
  BY DEF AnyWriter
<1> QED BY <1>1 DEF Last

\* Writing a lexeme.
LEMMA Append1Emits ==
    ASSUME NEW s \in AnyWriter, NEW lexeme \in Lexemes
    PROVE  Emitted(s, Append1(s, lexeme))
<1>1. PICK t : t = Append1(s, lexeme)
  OBVIOUS
<1>2. PICK e : e = [lexeme |-> lexeme, spaces |-> 0]
  OBVIOUS
<1>3. PICK o : o = Append(s.out, e)
  OBVIOUS
<1>4. o \in Seq(AnyWritten)
  <2>1. e \in AnyWritten
    BY <1>2 DEF AnyWritten
  <2>2. s.out \in Seq(AnyWritten)
    BY DEF AnyWriter
  <2> QED BY <1>3, <2>1, <2>2
<1>5. t = [s EXCEPT !.out = o]
  BY <1>1, <1>2, <1>3, Zenon DEF Append1
<1>6. t \in AnyWriter /\ t.expecting = s.expecting /\ t.levels = s.levels
  BY <1>4, <1>5 DEF AnyWriter
<1> QED BY <1>1, <1>6 DEF Emitted

\* Writing a newline.
LEMMA NewlineEmits ==
    ASSUME NEW s \in AnyWriter, s.levels # <<>>
    PROVE  Emitted(s, AppendNewline(s))
<1>1. PICK t, prefix : t = AppendNewline(s) /\ prefix = Last(s.levels).prefix
  OBVIOUS
<1>2. prefix \in Nat
  BY <1>1, LastLevel DEF AnyLevel
<1>3. CASE prefix = 0
  <2>1. t = s
    BY <1>1, <1>3 DEF AppendNewline
  <2> QED BY <1>1, <2>1 DEF Emitted
<1>4. CASE prefix # 0
  <2>1. PICK e : e = [lexeme |-> "newline", spaces |-> prefix - 1]
    OBVIOUS
  <2>2. e \in AnyWritten
    BY <1>2, <1>4, <2>1 DEF AnyWritten
  <2>3. PICK o : o = Append(s.out, e)
    OBVIOUS
  <2>4. o \in Seq(AnyWritten)
    BY <2>2, <2>3 DEF AnyWriter
  <2>5. t = [s EXCEPT !.out = o]
    BY <1>1, <1>4, <2>1, <2>3 DEF AppendNewline
  <2>6. t \in AnyWriter /\ t.expecting = s.expecting /\ t.levels = s.levels
    BY <2>4, <2>5 DEF AnyWriter
  <2> QED BY <1>1, <2>6 DEF Emitted
<1> QED BY <1>3, <1>4

\* Writing a comma.
LEMMA CommaEmits ==
    ASSUME NEW s \in AnyWriter
    PROVE  Emitted(s, AppendComma(s))
<1>1. CASE s.needsCommaBefore
  <2>1. Emitted(s, Append1(s, ","))
    BY Append1Emits DEF Lexemes
  <2>2. AppendComma(s) = Append1(s, ",")
    BY <1>1 DEF AppendComma
  <2> QED BY <2>1, <2>2
<1>2. CASE ~s.needsCommaBefore
  BY <1>2 DEF AppendComma, Emitted
<1> QED BY <1>1, <1>2

\* Writing a comma, a newline and an indentation.
LEMMA IndentEmits ==
    ASSUME NEW s \in AnyWriter, s.levels # <<>>
    PROVE  Emitted(s, WriteCommaNewlineIndent(s))
<1>1. PICK t, c : t = WriteCommaNewlineIndent(s) /\ c = AppendComma(s)
  OBVIOUS
<1>2. Emitted(s, c)
  BY <1>1, CommaEmits
<1>3. Emitted(c, AppendNewline(c))
  BY <1>2, NewlineEmits DEF Emitted
<1>4. t = s \/ t = c \/ t = AppendNewline(c)
  BY <1>1 DEF WriteCommaNewlineIndent
<1>5. Emitted(s, t)
  BY <1>2, <1>3, <1>4 DEF Emitted
<1> QED BY <1>1, <1>5

\* The same levels as far as the nesting goes.
SameLevels(levels, others) ==
    /\ others \in Seq(AnyLevel)
    /\ Len(others) = Len(levels)
    /\ \A i \in 1 .. Len(levels) :
            /\ others[i].kind = levels[i].kind /\ others[i].mixed = levels[i].mixed
            /\ others[i].size = NotAnArray <=> levels[i].size = NotAnArray

\* finalizeValue(): the level on top may be marked, what is expected follows from it.
LEMMA Finalized ==
    ASSUME NEW s \in AnyWriter, s.levels # <<>>
    PROVE  LET t == FinalizeValue(s)
           IN /\ t \in AnyWriter
              /\ SameLevels(s.levels, t.levels)
              /\ t.expecting =
                    IF Len(s.levels) = 1 THEN "DocumentEnd"
                    ELSE IF s.levels[Len(s.levels)].size = NotAnArray THEN "ObjectKeyOrEnd"
                    ELSE IF s.expecting = "CompactArrayValueOrArrayEnd" THEN s.expecting
                    ELSE "ArrayValueOrArrayEnd"
<1>1. PICK t, top : t = FinalizeValue(s) /\ top = Len(s.levels)
  OBVIOUS
<1>2. /\ top \in 1 .. top /\ top \in Nat /\ s.levels[top] \in AnyLevel /\ s.levels \in Seq(AnyLevel)
      /\ \A i \in 1 .. top : s.levels[i] \in AnyLevel
  BY <1>1, LastLevel DEF AnyWriter
<1>3. PICK yes \in BOOLEAN : yes = TRUE
  OBVIOUS
<1>4. CASE top = 1
  <2>1. PICK u : u = IF s.finalNewline THEN AppendNewline(s) ELSE s
    OBVIOUS
  <2>2. u \in AnyWriter /\ u.levels = s.levels
    BY <2>1, NewlineEmits DEF Emitted
  <2>3. t = [u EXCEPT !.expecting = "DocumentEnd"]
    BY <1>1, <1>4, <2>1 DEF FinalizeValue
  <2>4. t \in AnyWriter /\ t.levels = s.levels /\ t.expecting = "DocumentEnd"
    BY <2>2, <2>3 DEF AnyWriter, Expecting
  <2> QED BY <1>1, <1>2, <1>4, <2>4 DEF SameLevels
<1>5. CASE top > 1 /\ s.levels[top].size # NotAnArray
  <2>1. t = FinalizeItem(s, top)
    BY <1>1, <1>5 DEF FinalizeValue
  <2>2. PICK e : e = IF s.expecting = "CompactArrayValueOrArrayEnd" THEN s.expecting ELSE "ArrayValueOrArrayEnd"
    OBVIOUS
  <2>3. PICK m : m = s.levels[top].size + 1
    OBVIOUS
  <2>4. m \in Nat /\ m # NotAnArray /\ e \in Expecting
    BY <1>2, <1>5, <2>2, <2>3 DEF AnyLevel, NotAnArray, Expecting
  <2>5. t = [s EXCEPT !.levels[top].size = m, !.expecting = e, !.needsCommaBefore = yes]
    BY <1>3, <2>1, <2>2, <2>3, Zenon DEF FinalizeItem
  <2>6. PICK l : l = [s.levels[top] EXCEPT !.size = m]
    OBVIOUS
  <2>7. l \in AnyLevel /\ l.kind = s.levels[top].kind /\ l.mixed = s.levels[top].mixed /\ l.size = m
    BY <1>2, <2>4, <2>6 DEF AnyLevel
  <2>8. PICK ls : ls = [s.levels EXCEPT ![top] = l]
    OBVIOUS
  <2>9. t = [s EXCEPT !.levels = ls, !.expecting = e, !.needsCommaBefore = yes]
    BY <2>5, <2>6, <2>8, Zenon
  <2>10. SameLevels(s.levels, ls)
    BY <1>1, <1>2, <1>5, <2>4, <2>7, <2>8 DEF SameLevels
  <2>11. ls \in Seq(AnyLevel)
    BY <2>10 DEF SameLevels
  <2>12. t \in AnyWriter /\ t.levels = ls /\ t.expecting = e
    BY <2>4, <2>9, <2>11, <1>3 DEF AnyWriter
  <2> QED BY <1>1, <1>5, <2>2, <2>10, <2>12
<1>6. CASE top > 1 /\ s.levels[top].size = NotAnArray
  <2>1. t = [s EXCEPT !.expecting = "ObjectKeyOrEnd", !.needsCommaBefore = yes]
    BY <1>1, <1>3, <1>6 DEF FinalizeValue
  <2>2. t \in AnyWriter /\ t.levels = s.levels /\ t.expecting = "ObjectKeyOrEnd"
    BY <1>3, <2>1 DEF AnyWriter, Expecting
  <2> QED BY <1>1, <1>2, <1>6, <2>2 DEF SameLevels
<1> QED BY <1>2, <1>4, <1>5, <1>6

\* The kinds of levels.
AnyKind == {"root", "object", "array", "compact"}

\* An object or array begins.
LEMMA Nested ==
    ASSUME NEW s \in AnyWriter, s.levels # <<>>, NEW opener \in Lexemes,
           NEW size \in Nat \cup {NotAnArray}, NEW kind \in AnyKind, NEW e \in Expecting
    PROVE  LET t == Nest(s, opener, size, kind, e)
           IN /\ t \in AnyWriter
              /\ t.expecting = e
              /\ \E level \in AnyLevel : /\ t.levels = Append(s.levels, level) /\ level.size = size
                                         /\ level.kind = kind /\ ~level.mixed
<1>1. PICK t, u, w, prefix : /\ t = Nest(s, opener, size, kind, e) /\ w = WriteCommaNewlineIndent(s)
                             /\ u = Append1(w, opener) /\ prefix = Last(s.levels).prefix + s.indentation
  OBVIOUS
<1>2. w \in AnyWriter /\ w.levels = s.levels
  BY <1>1, IndentEmits DEF Emitted
<1>3. u \in AnyWriter /\ u.levels = s.levels
  BY <1>1, <1>2, Append1Emits DEF Emitted
<1>4. prefix \in Nat
  <2>1. Last(s.levels).prefix \in Nat
    BY LastLevel DEF AnyLevel
  <2>2. s.indentation \in Nat
    BY DEF AnyWriter
  <2> QED BY <1>1, <2>1, <2>2
<1>5. PICK no \in BOOLEAN : no = FALSE
  OBVIOUS
<1>6. PICK level : level = Level(prefix, size, kind)
  OBVIOUS
<1>7. level \in AnyLevel /\ level.size = size /\ level.kind = kind /\ ~level.mixed
  <2>1. level = [prefix |-> prefix, size |-> size, kind |-> kind, mixed |-> no]
    BY <1>5, <1>6 DEF Level
  <2> QED BY <1>4, <1>5, <2>1 DEF AnyLevel, AnyKind
<1>8. PICK ls, white : ls = Append(u.levels, level) /\ white =
            IF prefix > u.whitespace THEN u.whitespace + s.indentation ELSE u.whitespace
  OBVIOUS
<1>9. t = [u EXCEPT !.levels = ls, !.whitespace = white, !.expecting = e, !.needsCommaBefore = no]
  BY <1>1, <1>5, <1>6, <1>8, Zenon DEF Nest
<1>10. ls \in Seq(AnyLevel) /\ ls = Append(s.levels, level)
  BY <1>3, <1>7, <1>8 DEF AnyWriter
<1>11. white \in Nat
  <2>1. u.whitespace \in Nat /\ s.indentation \in Nat
    BY <1>3 DEF AnyWriter
  <2> QED BY <1>8, <2>1
<1>12. t \in AnyWriter /\ t.expecting = e /\ t.levels = ls
  BY <1>3, <1>5, <1>9, <1>10, <1>11 DEF AnyWriter
<1> QED BY <1>1, <1>7, <1>10, <1>12

\* Expecting after a value in the level on top of n.
AfterIn(n, level, e) ==
    IF n = 1 THEN "DocumentEnd"
    ELSE IF level.size = NotAnArray THEN "ObjectKeyOrEnd"
    ELSE IF e = "CompactArrayValueOrArrayEnd" THEN e
    ELSE "ArrayValueOrArrayEnd"

\* A value is written.
LEMMA LiteralWritten ==
    ASSUME NEW s \in AnyWriter, s.levels # <<>>, NEW value \in Lexemes
    PROVE  LET t == Literal(s, value)
           IN /\ t \in AnyWriter
              /\ SameLevels(s.levels, t.levels)
              /\ t.expecting = AfterIn(Len(s.levels), s.levels[Len(s.levels)], s.expecting)
<1>1. PICK t, u, w : /\ t = Literal(s, value) /\ w = WriteCommaNewlineIndent(s) /\ u = Append1(w, value)
  OBVIOUS
<1>2. w \in AnyWriter /\ w.levels = s.levels /\ w.expecting = s.expecting
  BY <1>1, IndentEmits DEF Emitted
<1>3. u \in AnyWriter /\ u.levels = s.levels /\ u.expecting = s.expecting
  BY <1>1, <1>2, Append1Emits DEF Emitted
<1>4. t = FinalizeValue(u)
  BY <1>1 DEF Literal
<1> QED BY <1>1, <1>3, <1>4, Finalized DEF AfterIn

\* A key is written.
LEMMA KeyWritten ==
    ASSUME NEW s \in AnyWriter, s.levels # <<>>, NEW key \in Lexemes
    PROVE  LET t == KeyLiteral(s, key)
           IN t \in AnyWriter /\ t.levels = s.levels /\ t.expecting = "ObjectValue"
<1>1. PICK t, u, v, w : /\ t = KeyLiteral(s, key) /\ w = WriteCommaNewlineIndent(s) /\ v = Append1(w, key)
                        /\ u = Append1(v, ":")
  OBVIOUS
<1>2. w \in AnyWriter /\ w.levels = s.levels
  BY <1>1, IndentEmits DEF Emitted
<1>3. v \in AnyWriter /\ v.levels = s.levels
  BY <1>1, <1>2, Append1Emits DEF Emitted
<1>4. ":" \in Lexemes
  BY DEF Lexemes
<1>5. u \in AnyWriter /\ u.levels = s.levels
  BY <1>1, <1>3, <1>4, Append1Emits DEF Emitted
<1>6. t = [u EXCEPT !.expecting = "ObjectValue"]
  BY <1>1 DEF KeyLiteral
<1>7. t \in AnyWriter /\ t.levels = s.levels /\ t.expecting = "ObjectValue"
  BY <1>5, <1>6 DEF AnyWriter, Expecting
<1> QED BY <1>1, <1>7

\* An object or array ends: the level is popped, and then its value is finalized in
\* the level below.
LEMMA Unnested ==
    ASSUME NEW s \in AnyWriter, Len(s.levels) > 1, NEW closer \in Lexemes, NEW newline \in BOOLEAN
    PROVE  LET t == Unnest(s, closer, newline)
               n == Len(s.levels) - 1
               ended == s.levels[n + 1]
           IN /\ t \in AnyWriter /\ Len(t.levels) = n
              /\ \A i \in 1 .. n : /\ t.levels[i].kind = s.levels[i].kind
                                   /\ t.levels[i].size = NotAnArray <=> s.levels[i].size = NotAnArray
                                   /\ i < n => t.levels[i].mixed = s.levels[i].mixed
              /\ t.levels[n].mixed <=> \/ s.levels[n].mixed
                                       \/ ended.kind = "compact"
                                       \/ (ended.kind = "array" /\ ended.mixed)
              /\ t.expecting = AfterIn(n, s.levels[n], s.expecting)
<1>1. PICK n : n = Len(s.levels) - 1
  OBVIOUS
<1>2. /\ s.levels \in Seq(AnyLevel) /\ n \in Nat /\ n >= 1 /\ Len(s.levels) = n + 1 /\ s.levels # <<>>
      /\ \A i \in 1 .. n + 1 : s.levels[i] \in AnyLevel
  BY <1>1 DEF AnyWriter
<1>3. PICK ls, ended : ls = Front(s.levels) /\ ended = Last(s.levels)
  OBVIOUS
<1>4. /\ ls \in Seq(AnyLevel) /\ Len(ls) = n /\ ls # <<>> /\ \A i \in 1 .. n : ls[i] = s.levels[i]
  BY <1>2, <1>3 DEF Front
<1>5. ended = s.levels[n + 1]
  BY <1>2, <1>3 DEF Last
<1>6. PICK outside : outside = [s EXCEPT !.levels = ls]
  OBVIOUS
<1>7. outside \in AnyWriter /\ outside.levels = ls /\ outside.expecting = s.expecting
  BY <1>4, <1>6 DEF AnyWriter
<1>8. PICK u : u = IF newline THEN AppendNewline(outside) ELSE outside
  OBVIOUS
<1>9. u \in AnyWriter /\ u.levels = ls /\ u.expecting = s.expecting
  <2>1. Emitted(outside, AppendNewline(outside))
    BY <1>4, <1>7, NewlineEmits
  <2> QED BY <1>7, <1>8, <2>1 DEF Emitted
<1>10. PICK v : v = Append1(u, closer)
  OBVIOUS
<1>11. v \in AnyWriter /\ v.levels = ls /\ v.expecting = s.expecting
  BY <1>9, <1>10, Append1Emits DEF Emitted
<1>12. PICK closed : closed = FinalizeValue(v)
  OBVIOUS
<1>13. /\ closed \in AnyWriter /\ SameLevels(ls, closed.levels)
       /\ closed.expecting = AfterIn(n, s.levels[n], s.expecting)
  <2>1. LET t == FinalizeValue(v)
        IN /\ t \in AnyWriter
           /\ SameLevels(v.levels, t.levels)
           /\ t.expecting =
                    IF Len(v.levels) = 1 THEN "DocumentEnd"
                    ELSE IF v.levels[Len(v.levels)].size = NotAnArray THEN "ObjectKeyOrEnd"
                    ELSE IF v.expecting = "CompactArrayValueOrArrayEnd" THEN v.expecting
                    ELSE "ArrayValueOrArrayEnd"
    BY <1>4, <1>11, Finalized
  <2>2. n \in 1 .. n
    BY <1>2
  <2> QED BY <1>4, <1>11, <1>12, <2>1, <2>2 DEF AfterIn
<1>14. PICK t : t = Unnest(s, closer, newline)
  OBVIOUS
<1>15. PICK mixed : mixed = (closed.levels[n].mixed \/ ended.kind = "compact" \/ (ended.kind = "array" /\ ended.mixed))
  OBVIOUS
<1>16. Len(closed.levels) = n /\ closed.levels \in Seq(AnyLevel) /\ closed.levels[n] \in AnyLevel /\ n \in 1 .. n
  <2>1. Len(closed.levels) = n /\ closed.levels \in Seq(AnyLevel) /\ n \in 1 .. n
    BY <1>2, <1>4, <1>13 DEF SameLevels
  <2> QED BY <2>1
<1>17. t = [closed EXCEPT !.levels[n].mixed = mixed]
  <2>1. t = [closed EXCEPT !.levels[Len(closed.levels)].mixed =
                @ \/ (ended.kind = "compact" \/ (ended.kind = "array" /\ ended.mixed))]
    BY <1>3, <1>6, <1>8, <1>10, <1>12, <1>14, Zenon DEF Unnest
  <2>2. t = [closed EXCEPT !.levels[n].mixed =
                closed.levels[n].mixed \/ (ended.kind = "compact" \/ (ended.kind = "array" /\ ended.mixed))]
    BY <1>16, <2>1, Zenon
  <2> QED BY <1>15, <2>2, Zenon
<1>18. PICK l : l = [closed.levels[n] EXCEPT !.mixed = mixed]
  OBVIOUS
<1>19. mixed \in BOOLEAN
  BY <1>15, Zenon
<1>20. l \in AnyLevel /\ l.kind = closed.levels[n].kind /\ l.size = closed.levels[n].size /\ l.mixed = mixed
  BY <1>16, <1>18, <1>19 DEF AnyLevel
<1>21. PICK ms : ms = [closed.levels EXCEPT ![n] = l]
  OBVIOUS
<1>22. ms \in Seq(AnyLevel) /\ Len(ms) = n /\ ms[n] = l /\ \A i \in 1 .. n : i < n => ms[i] = closed.levels[i]
  BY <1>16, <1>20, <1>21
<1>23. t = [closed EXCEPT !.levels = ms]
  BY <1>17, <1>18, <1>21, Zenon
<1>24. t \in AnyWriter /\ t.levels = ms /\ t.expecting = closed.expecting
  BY <1>13, <1>22, <1>23 DEF AnyWriter
<1>25. \A i \in 1 .. n : /\ ms[i].kind = s.levels[i].kind
                         /\ ms[i].size = NotAnArray <=> s.levels[i].size = NotAnArray
                         /\ i < n => ms[i].mixed = s.levels[i].mixed
  <2> TAKE i \in 1 .. n
  <2>1. /\ closed.levels[i].kind = s.levels[i].kind /\ closed.levels[i].mixed = s.levels[i].mixed
        /\ closed.levels[i].size = NotAnArray <=> s.levels[i].size = NotAnArray
    BY <1>4, <1>13 DEF SameLevels
  <2> QED BY <1>2, <1>20, <1>22, <2>1
<1>26. ms[n].mixed <=> \/ s.levels[n].mixed
                       \/ ended.kind = "compact"
                       \/ (ended.kind = "array" /\ ended.mixed)
  <2>1. closed.levels[n].mixed = s.levels[n].mixed /\ ms[n].mixed = mixed
    BY <1>4, <1>13, <1>16, <1>20, <1>22 DEF SameLevels
  <2> QED BY <1>15, <2>1, Zenon
<1>27. n + 1 = Len(s.levels) /\ n = Len(s.levels) - 1
  BY <1>2, <1>1
<1> QED BY <1>1, <1>5, <1>13, <1>14, <1>22, <1>24, <1>25, <1>26

\* What JsonDocument has for the containers that are open.
OpenOf(levels) == [i \in 1 .. Len(levels) - 1 |-> levels[i + 1].kind]

\* The containers that are open, of the levels.
LEMMA OpenFacts ==
    ASSUME NEW s, NEW n, WriterSound(s, n)
    PROVE  /\ OpenOf(s.levels) \in Seq({"object", "array", "compact"})
           /\ Len(OpenOf(s.levels)) = Len(s.levels) - 1 /\ Len(s.levels) \in Nat /\ Len(s.levels) >= 1
           /\ OpenOf(s.levels) = <<>> <=> Len(s.levels) = 1
           /\ OpenOf(s.levels) # <<>> =>
                    Last(OpenOf(s.levels)) = s.levels[Len(s.levels)].kind
<1>1. PICK ls, k : ls = s.levels /\ k = Len(s.levels)
  OBVIOUS
<1>2. /\ ls \in Seq(AnyLevel) /\ k \in Nat /\ k >= 1 /\ Len(ls) = k
      /\ \A i \in 1 .. k : ls[i] \in AnyLevel /\ (ls[i].kind = "root" <=> i = 1)
  <2>1. ls \in Seq(AnyLevel) /\ ls # <<>>
    BY <1>1 DEF WriterSound, AnyWriter, LevelsSound
  <2>2. k \in Nat /\ k >= 1 /\ Len(ls) = k /\ \A i \in 1 .. k : ls[i] \in AnyLevel
    BY <1>1, <2>1
  <2> QED BY <1>1, <2>1, <2>2 DEF WriterSound, LevelsSound
<1>3. PICK o : o = [i \in 1 .. k - 1 |-> ls[i + 1].kind]
  OBVIOUS
<1>4. \A i \in 1 .. k - 1 : o[i] \in {"object", "array", "compact"}
  <2> TAKE i \in 1 .. k - 1
  <2>1. i + 1 \in 1 .. k /\ i + 1 # 1
    BY <1>2
  <2> QED BY <1>2, <1>3, <2>1 DEF AnyLevel
<1>5. o \in Seq({"object", "array", "compact"}) /\ Len(o) = k - 1
  BY <1>2, <1>3, <1>4
<1>6. o # <<>> => Last(o) = ls[k].kind
  BY <1>2, <1>3, <1>5 DEF Last
<1>7. o = OpenOf(ls)
  BY <1>1, <1>3 DEF OpenOf
<1>8. o = <<>> <=> k = 1
  BY <1>2, <1>5
<1> QED BY <1>1, <1>2, <1>5, <1>6, <1>7, <1>8

\* A level is put on top.
LEMMA NestSound ==
    ASSUME NEW s, NEW n, WriterSound(s, n), NestingExpected(s), NEW t \in AnyWriter,
           NEW level \in AnyLevel, t.levels = Append(s.levels, level), ~level.mixed,
           \/ level.kind = "object" /\ level.size = NotAnArray /\ t.expecting = "ObjectKeyOrEnd"
           \/ level.kind = "array" /\ level.size # NotAnArray /\ t.expecting = "ArrayValueOrArrayEnd"
           \/ level.kind = "compact" /\ level.size # NotAnArray /\ t.expecting = "CompactArrayValueOrArrayEnd"
    PROVE  /\ WriterSound(t, n + 1)
           /\ OpenOf(t.levels) = Append(OpenOf(s.levels), level.kind)
<1>1. PICK ls, k, ms, o : /\ ls = s.levels /\ k = Len(s.levels) /\ ms = t.levels /\ o = OpenOf(ls)
  OBVIOUS
<1>2. /\ ls \in Seq(AnyLevel) /\ k \in Nat /\ k >= 1 /\ Len(ls) = k
      /\ o \in Seq({"object", "array", "compact"}) /\ Len(o) = k - 1
  BY <1>1, OpenFacts DEF WriterSound, AnyWriter
<1>3. /\ ms \in Seq(AnyLevel) /\ Len(ms) = k + 1 /\ ms[k + 1] = level /\ \A i \in 1 .. k : ms[i] = ls[i]
  BY <1>1, <1>2
<1>4. LevelsSound(ls) /\ ExpectingSound(s.expecting, ls[k], n) /\ n \in Nat
  BY <1>1 DEF WriterSound
<1>5. ls[k].kind # "compact" /\ (ls[k].kind = "array" => ~ls[k].mixed)
  BY <1>4 DEF ExpectingSound, NestingExpected
<1>6. LevelsSound(ms)
  <2>1. ms # <<>>
    BY <1>2, <1>3
  <2>2. \A i \in 1 .. k + 1 :
            /\ ms[i].kind = "root" <=> i = 1
            /\ ms[i].size = NotAnArray <=> ms[i].kind \in {"root", "object"}
            /\ i < k + 1 => ms[i].kind # "compact" /\ (ms[i].kind = "array" => ~ms[i].mixed)
    <3> TAKE i \in 1 .. k + 1
    <3>1. CASE i = k + 1
      BY <1>2, <1>3, <3>1
    <3>2. CASE i # k + 1
      <4>1. i \in 1 .. k /\ ms[i] = ls[i]
        BY <1>2, <1>3, <3>2
      <4>2. /\ ls[i].kind = "root" <=> i = 1
            /\ ls[i].size = NotAnArray <=> ls[i].kind \in {"root", "object"}
            /\ i < k => ls[i].kind # "compact" /\ (ls[i].kind = "array" => ~ls[i].mixed)
        BY <1>1, <1>4, <4>1 DEF LevelsSound
      <4>3. i < k \/ i = k
        BY <1>2, <4>1
      <4> QED BY <1>5, <4>1, <4>2, <4>3
    <3> QED BY <3>1, <3>2
  <2> QED BY <1>3, <2>1, <2>2 DEF LevelsSound
<1>7. ExpectingSound(t.expecting, ms[Len(ms)], n + 1)
  BY <1>3 DEF ExpectingSound
<1>8. WriterSound(t, n + 1)
  BY <1>1, <1>4, <1>6, <1>7 DEF WriterSound
<1>9. OpenOf(ms) = Append(o, level.kind)
  <2>1. PICK p : p = OpenOf(ms)
    OBVIOUS
  <2>2. p = [i \in 1 .. k |-> ms[i + 1].kind]
    BY <1>2, <1>3, <2>1 DEF OpenOf
  <2>3. o = [i \in 1 .. k - 1 |-> ls[i + 1].kind]
    BY <1>1 DEF OpenOf
  <2>4. \A i \in 1 .. k - 1 : p[i] = o[i]
    BY <1>2, <1>3, <2>2, <2>3
  <2>5. p[k] = level.kind
    BY <1>2, <1>3, <2>2
  <2>6. p = Append(o, level.kind)
    <3>1. PICK a : a = Append(o, level.kind)
      OBVIOUS
    <3>2. level.kind \in {"object", "array", "compact"}
      OBVIOUS
    <3>3. a \in Seq({"object", "array", "compact"}) /\ Len(a) = k /\ a[k] = level.kind
          /\ \A i \in 1 .. k - 1 : a[i] = o[i]
      BY <1>2, <3>1, <3>2
    <3>4. a = [i \in 1 .. k |-> a[i]]
      BY <3>3
    <3>5. \A i \in 1 .. k : a[i] = p[i]
      BY <1>2, <2>4, <2>5, <3>3
    <3>6. p = [i \in 1 .. k |-> p[i]]
      BY <2>2
    <3> QED BY <3>1, <3>4, <3>5, <3>6
  <2> QED BY <2>1, <2>6
<1> QED BY <1>1, <1>8, <1>9

\* Of levels of the same kinds, only some marked as mixed.
LEMMA ValueSound ==
    ASSUME NEW s, NEW n, WriterSound(s, n), ValueExpected(s), NEW t \in AnyWriter,
           SameLevels(s.levels, t.levels),
           t.expecting = AfterIn(Len(s.levels), s.levels[Len(s.levels)], s.expecting)
    PROVE  /\ WriterSound(t, n + 1)
           /\ OpenOf(t.levels) = OpenOf(s.levels)
           /\ t.expecting # "ObjectValue"
           /\ t.expecting = "DocumentEnd" <=> OpenOf(s.levels) = <<>>
<1>1. PICK ls, k, ms : /\ ls = s.levels /\ k = Len(s.levels) /\ ms = t.levels
  OBVIOUS
<1>2. /\ ls \in Seq(AnyLevel) /\ k \in Nat /\ k >= 1 /\ Len(ls) = k /\ k \in 1 .. k
      /\ OpenOf(ls) = <<>> <=> k = 1
  <2>1. /\ Len(ls) \in Nat /\ Len(ls) >= 1
        /\ OpenOf(ls) = <<>> <=> Len(ls) = 1
    BY <1>1, OpenFacts
  <2>2. ls \in Seq(AnyLevel)
    BY <1>1 DEF WriterSound, AnyWriter
  <2> QED BY <1>1, <2>1, <2>2
<1>3. /\ ms \in Seq(AnyLevel) /\ Len(ms) = k
      /\ \A i \in 1 .. k : /\ ms[i].kind = ls[i].kind /\ ms[i].mixed = ls[i].mixed
                           /\ ms[i].size = NotAnArray <=> ls[i].size = NotAnArray
  BY <1>1, <1>2 DEF SameLevels
<1>4. LevelsSound(ls) /\ ExpectingSound(s.expecting, ls[k], n) /\ n \in Nat
  BY <1>1 DEF WriterSound
<1>5. /\ ls[k].kind = "root" <=> k = 1
      /\ ls[k].size = NotAnArray <=> ls[k].kind \in {"root", "object"}
      /\ ls[k].kind \in {"root", "object", "array", "compact"}
  <2>1. ls[k] \in AnyLevel
    BY <1>2
  <2> QED BY <1>1, <1>2, <1>4, <2>1 DEF LevelsSound, AnyLevel
<1>6. LevelsSound(ms)
  <2>1. ms # <<>>
    BY <1>2, <1>3
  <2> QED BY <1>1, <1>3, <1>4, <2>1 DEF LevelsSound
<1>7. t.expecting = AfterIn(k, ls[k], s.expecting)
  BY <1>1
<1>8. ExpectingSound(t.expecting, ms[k], n + 1)
  <2>1. ms[k].kind = ls[k].kind /\ ms[k].mixed = ls[k].mixed
    BY <1>2, <1>3
  <2>2. n + 1 # 0
    BY <1>4
  <2> QED BY <1>4, <1>5, <1>7, <2>1, <2>2 DEF ExpectingSound, AfterIn
<1>9. WriterSound(t, n + 1)
  BY <1>1, <1>3, <1>4, <1>6, <1>8 DEF WriterSound
<1>10. OpenOf(ms) = OpenOf(ls)
  <2>1. \A i \in 1 .. k - 1 : ms[i + 1].kind = ls[i + 1].kind
    BY <1>2, <1>3
  <2> QED BY <1>2, <1>3, <2>1 DEF OpenOf
<1>11. t.expecting # "ObjectValue" /\ (t.expecting = "DocumentEnd" <=> k = 1)
  BY <1>4, <1>5, <1>7 DEF AfterIn, ExpectingSound
<1> QED BY <1>1, <1>2, <1>9, <1>10, <1>11

\* A level is popped, which only one of an object or array is when its end is
\* expected.
LEMMA UnnestSound ==
    ASSUME NEW s, NEW n, WriterSound(s, n), NEW closer \in Lexemes, NEW newline \in BOOLEAN,
           s.expecting \in {"ObjectKeyOrEnd", "ArrayValueOrArrayEnd", "CompactArrayValueOrArrayEnd"}
    PROVE  LET t == Unnest(s, closer, newline)
           IN /\ WriterSound(t, n)
              /\ OpenOf(s.levels) # <<>>
              /\ OpenOf(t.levels) = Front(OpenOf(s.levels))
              /\ t.expecting # "ObjectValue"
              /\ t.expecting = "DocumentEnd" <=> Len(OpenOf(s.levels)) = 1
<1>1. PICK t, ls, k, ms, o : /\ t = Unnest(s, closer, newline) /\ ls = s.levels /\ k = Len(s.levels) - 1
                             /\ ms = t.levels /\ o = OpenOf(ls)
  OBVIOUS
<1>2. LevelsSound(ls) /\ ExpectingSound(s.expecting, ls[Len(ls)], n) /\ n \in Nat /\ (Len(ls) > 1 => n > 0)
      /\ s \in AnyWriter
  BY <1>1 DEF WriterSound
<1>3. /\ ls \in Seq(AnyLevel) /\ Len(ls) = k + 1 /\ k \in Nat
      /\ o \in Seq({"object", "array", "compact"}) /\ Len(o) = k
      /\ \A i \in 1 .. k + 1 : ls[i] \in AnyLevel
  <2>1. ls \in Seq(AnyLevel)
    BY <1>1, <1>2 DEF AnyWriter
  <2>2. Len(ls) \in Nat /\ Len(ls) >= 1 /\ Len(o) = Len(ls) - 1 /\ o \in Seq({"object", "array", "compact"})
    BY <1>1, OpenFacts
  <2> QED BY <1>1, <2>1, <2>2
<1>4. \A i \in 1 .. k + 1 :
            /\ ls[i].kind = "root" <=> i = 1
            /\ ls[i].size = NotAnArray <=> ls[i].kind \in {"root", "object"}
            /\ i < k + 1 => ls[i].kind # "compact" /\ (ls[i].kind = "array" => ~ls[i].mixed)
  BY <1>2, <1>3 DEF LevelsSound
<1>5. k >= 1
  <2>1. CASE k = 0
    <3>1. ls[1].kind = "root" /\ Len(ls) = 1
      BY <1>3, <1>4, <2>1
    <3> QED BY <1>2, <3>1 DEF ExpectingSound
  <2> QED BY <1>3, <2>1
<1>6. /\ t \in AnyWriter /\ Len(ms) = k
      /\ \A i \in 1 .. k : /\ ms[i].kind = ls[i].kind
                           /\ ms[i].size = NotAnArray <=> ls[i].size = NotAnArray
                           /\ i < k => ms[i].mixed = ls[i].mixed
      /\ ms[k].mixed <=> \/ ls[k].mixed
                         \/ ls[k + 1].kind = "compact"
                         \/ (ls[k + 1].kind = "array" /\ ls[k + 1].mixed)
      /\ t.expecting = AfterIn(k, ls[k], s.expecting)
  <2>1. Len(s.levels) > 1
    BY <1>1, <1>3, <1>5
  <2>2. PICK m : m = Len(s.levels) - 1
    OBVIOUS
  <2>3. LET v == Unnest(s, closer, newline)
            d == Len(s.levels) - 1
            ended == s.levels[d + 1]
        IN /\ v \in AnyWriter /\ Len(v.levels) = d
           /\ \A i \in 1 .. d : /\ v.levels[i].kind = s.levels[i].kind
                                /\ v.levels[i].size = NotAnArray <=> s.levels[i].size = NotAnArray
                                /\ i < d => v.levels[i].mixed = s.levels[i].mixed
           /\ v.levels[d].mixed <=> \/ s.levels[d].mixed
                                    \/ ended.kind = "compact"
                                    \/ (ended.kind = "array" /\ ended.mixed)
           /\ v.expecting = AfterIn(d, s.levels[d], s.expecting)
    BY <1>2, <2>1, Unnested
  <2> QED BY <1>1, <2>3, Zenon
<1>7. LevelsSound(ms)
  <2>1. ms # <<>>
    BY <1>5, <1>6
  <2>2. \A i \in 1 .. k :
            /\ ms[i].kind = "root" <=> i = 1
            /\ ms[i].size = NotAnArray <=> ms[i].kind \in {"root", "object"}
            /\ i < k => ms[i].kind # "compact" /\ (ms[i].kind = "array" => ~ms[i].mixed)
    <3> TAKE i \in 1 .. k
    <3>1. i \in 1 .. k + 1 /\ i < k + 1
      BY <1>3
    <3> QED BY <1>4, <1>6, <3>1
  <2> QED BY <1>6, <2>1, <2>2 DEF LevelsSound
<1>8. /\ ls[k].kind \in {"root", "object", "array"} /\ (ls[k].kind = "array" => ~ls[k].mixed)
      /\ ls[k].kind = "root" <=> k = 1
      /\ ls[k].size = NotAnArray <=> ls[k].kind \in {"root", "object"}
      /\ ls[k + 1].kind \in {"object", "array", "compact"}
      /\ ms[k].kind = ls[k].kind
  <2>1. k \in 1 .. k + 1 /\ k + 1 \in 1 .. k + 1 /\ k \in 1 .. k /\ k < k + 1 /\ k + 1 # 1
    BY <1>3, <1>5
  <2>2. /\ ls[k].kind \in {"root", "object", "array", "compact"}
        /\ ls[k + 1].kind \in {"root", "object", "array", "compact"}
    BY <1>3, <2>1 DEF AnyLevel
  <2>3. ls[k + 1].kind # "root" /\ ls[k].kind # "compact"
    BY <1>4, <2>1
  <2> QED BY <1>4, <1>6, <2>1, <2>2, <2>3
<1>9. ExpectingSound(s.expecting, ls[k + 1], n)
  BY <1>2, <1>3
<1>10. ExpectingSound(t.expecting, ms[k], n)
  <2>1. CASE ls[k].kind = "root"
    <3>1. t.expecting = "DocumentEnd" /\ n # 0 /\ ms[k].kind = "root"
      BY <1>2, <1>3, <1>5, <1>6, <1>8, <2>1 DEF AfterIn
    <3> QED BY <3>1 DEF ExpectingSound
  <2>2. CASE ls[k].kind = "object"
    BY <1>6, <1>8, <2>2 DEF AfterIn, ExpectingSound
  <2>3. CASE ls[k].kind = "array"
    <3>1. t.expecting = IF s.expecting = "CompactArrayValueOrArrayEnd" THEN s.expecting
                        ELSE "ArrayValueOrArrayEnd"
      BY <1>6, <1>8, <2>3 DEF AfterIn
    <3>2. ms[k].mixed <=> s.expecting = "CompactArrayValueOrArrayEnd"
      BY <1>6, <1>8, <1>9, <2>3 DEF ExpectingSound
    <3>3. ms[k].kind = "array"
      BY <1>8, <2>3
    <3> QED BY <3>1, <3>2, <3>3 DEF ExpectingSound
  <2> QED BY <1>8, <2>1, <2>2, <2>3
<1>11. WriterSound(t, n)
  BY <1>1, <1>2, <1>3, <1>5, <1>6, <1>7, <1>10 DEF WriterSound
<1>12. OpenOf(ms) = Front(o)
  <2>1. PICK p : p = OpenOf(ms)
    OBVIOUS
  <2>2. p = [i \in 1 .. k - 1 |-> ms[i + 1].kind]
    BY <1>6, <2>1 DEF OpenOf
  <2>3. o = [i \in 1 .. k |-> ls[i + 1].kind]
    BY <1>1 DEF OpenOf
  <2>4. \A i \in 1 .. k - 1 : p[i] = o[i]
    BY <1>3, <1>6, <2>2, <2>3
  <2>5. PICK f : f = Front(o)
    OBVIOUS
  <2>6. f = [i \in 1 .. k - 1 |-> f[i]] /\ \A i \in 1 .. k - 1 : f[i] = o[i]
    BY <1>3, <1>5, <2>5 DEF Front
  <2>7. p = f
    BY <2>2, <2>4, <2>6
  <2> QED BY <2>1, <2>5, <2>7
<1>13. t.expecting # "ObjectValue" /\ (t.expecting = "DocumentEnd" <=> k = 1)
  BY <1>6, <1>8 DEF AfterIn
<1>14. o # <<>>
  BY <1>3, <1>5
<1> QED BY <1>1, <1>3, <1>11, <1>12, <1>13, <1>14

\* A key keeps the levels.
LEMMA KeySound ==
    ASSUME NEW s, NEW n, WriterSound(s, n), s.expecting = "ObjectKeyOrEnd", NEW key \in Lexemes
    PROVE  LET t == KeyLiteral(s, key)
           IN /\ WriterSound(t, n) /\ OpenOf(t.levels) = OpenOf(s.levels)
              /\ t.expecting = "ObjectValue"
<1>1. PICK t : t = KeyLiteral(s, key)
  OBVIOUS
<1>2. s \in AnyWriter /\ s.levels # <<>>
  BY DEF WriterSound, LevelsSound
<1>3. t \in AnyWriter /\ t.levels = s.levels /\ t.expecting = "ObjectValue"
  BY <1>1, <1>2, KeyWritten
<1>4. PICK level : level = s.levels[Len(s.levels)]
  OBVIOUS
<1>5. level.kind \in {"root", "object", "array", "compact"}
  BY <1>2, <1>4, LastLevel DEF AnyLevel
<1>6. ExpectingSound(s.expecting, level, n)
  BY <1>4 DEF WriterSound
<1>7. level.kind = "object"
  BY <1>5, <1>6 DEF ExpectingSound
<1>8. ExpectingSound(t.expecting, level, n)
  BY <1>3, <1>7 DEF ExpectingSound
<1>9. WriterSound(t, n)
  BY <1>3, <1>4, <1>8 DEF WriterSound
<1> QED BY <1>1, <1>3, <1>9

\* More items change nothing once there is one.
LEMMA SoundLonger ==
    ASSUME NEW s, NEW n, WriterSound(s, n), n > 0, NEW m \in Nat, m > 0
    PROVE  WriterSound(s, m)
<1>1. ExpectingSound(s.expecting, s.levels[Len(s.levels)], n) /\ n \in Nat
  BY DEF WriterSound
<1>2. ExpectingSound(s.expecting, s.levels[Len(s.levels)], m)
  BY <1>1 DEF ExpectingSound
<1> QED BY <1>2 DEF WriterSound

\* Object(), Array() and CompactArray().
Begun(s, t, kind) ==
    \/ t = Object(s) /\ kind = "object"
    \/ t = Array(s) /\ kind = "array"
    \/ kind = "compact" /\ \E wrapAfter \in WrapAfter : t = CompactArray(s, wrapAfter)

\* beginObject(), beginArray() or beginCompactArray().
LEMMA BegunSound ==
    ASSUME NEW s, NEW n, WriterSound(s, n), NestingExpected(s), NEW t, NEW kind,
           Begun(s, t, kind)
    PROVE  /\ WriterSound(t, n + 1)
           /\ OpenOf(t.levels) = Append(OpenOf(s.levels), kind)
           /\ t.expecting \notin {"ObjectValue", "DocumentEnd"}
           /\ kind = "compact" => t.expecting = "CompactArrayValueOrArrayEnd"
<1>1. s \in AnyWriter /\ s.levels # <<>>
  BY DEF WriterSound, LevelsSound
<1>2. "{" \in Lexemes /\ "[" \in Lexemes
  BY DEF Lexemes, Openers
<1>3. PICK minus : minus = NotAnArray /\ minus # 0
  BY DEF NotAnArray
<1>4. ASSUME t = Object(s)
      PROVE  /\ WriterSound(t, n + 1)
             /\ OpenOf(t.levels) = Append(OpenOf(s.levels), "object")
             /\ t.expecting \notin {"ObjectValue", "DocumentEnd"}
  <2>1. PICK opener \in Lexemes, size \in Nat \cup {NotAnArray}, k \in AnyKind, e \in Expecting :
            opener = "{" /\ size = minus /\ k = "object" /\ e = "ObjectKeyOrEnd"
    BY <1>2, <1>3 DEF AnyKind, Expecting
  <2>2. PICK u : u = Nest(s, opener, size, k, e)
    OBVIOUS
  <2>3. t = u
    BY <1>3, <1>4, <2>1, <2>2 DEF Object
  <2>4. /\ u \in AnyWriter /\ u.expecting = e
        /\ \E level \in AnyLevel : /\ u.levels = Append(s.levels, level) /\ level.size = size
                                   /\ level.kind = k /\ ~level.mixed
    <3>1. LET v == Nest(s, opener, size, k, e)
          IN /\ v \in AnyWriter
             /\ v.expecting = e
             /\ \E level \in AnyLevel : /\ v.levels = Append(s.levels, level) /\ level.size = size
                                        /\ level.kind = k /\ ~level.mixed
      BY <1>1, Nested
    <3> QED BY <2>2, <3>1
  <2>5. PICK level \in AnyLevel : /\ t.levels = Append(s.levels, level) /\ level.size = size
                                  /\ level.kind = k /\ ~level.mixed
    BY <2>3, <2>4
  <2>6. level.kind = "object" /\ level.size = NotAnArray /\ t.expecting = "ObjectKeyOrEnd"
    BY <1>3, <2>1, <2>3, <2>4, <2>5
  <2>7. t \in AnyWriter
    BY <2>3, <2>4
  <2>8. WriterSound(t, n + 1) /\ OpenOf(t.levels) = Append(OpenOf(s.levels), level.kind)
    BY ZenonT(30), <2>5, <2>6, <2>7, NestSound
  <2> QED BY <2>6, <2>8
<1>5. ASSUME t = Array(s)
      PROVE  /\ WriterSound(t, n + 1)
             /\ OpenOf(t.levels) = Append(OpenOf(s.levels), "array")
             /\ t.expecting \notin {"ObjectValue", "DocumentEnd"}
  <2>1. PICK opener \in Lexemes, size \in Nat \cup {NotAnArray}, k \in AnyKind, e \in Expecting :
            opener = "[" /\ size = 0 /\ k = "array" /\ e = "ArrayValueOrArrayEnd"
    BY <1>2 DEF AnyKind, Expecting
  <2>2. PICK u : u = Nest(s, opener, size, k, e)
    OBVIOUS
  <2>3. t = u
    BY <1>5, <2>1, <2>2 DEF Array
  <2>4. /\ u \in AnyWriter /\ u.expecting = e
        /\ \E level \in AnyLevel : /\ u.levels = Append(s.levels, level) /\ level.size = size
                                   /\ level.kind = k /\ ~level.mixed
    <3>1. LET v == Nest(s, opener, size, k, e)
          IN /\ v \in AnyWriter
             /\ v.expecting = e
             /\ \E level \in AnyLevel : /\ v.levels = Append(s.levels, level) /\ level.size = size
                                        /\ level.kind = k /\ ~level.mixed
      BY <1>1, Nested
    <3> QED BY <2>2, <3>1
  <2>5. PICK level \in AnyLevel : /\ t.levels = Append(s.levels, level) /\ level.size = size
                                  /\ level.kind = k /\ ~level.mixed
    BY <2>3, <2>4
  <2>6. level.kind = "array" /\ level.size # NotAnArray /\ t.expecting = "ArrayValueOrArrayEnd"
    BY <1>3, <2>1, <2>3, <2>4, <2>5
  <2>7. t \in AnyWriter
    BY <2>3, <2>4
  <2>8. WriterSound(t, n + 1) /\ OpenOf(t.levels) = Append(OpenOf(s.levels), level.kind)
    BY ZenonT(30), <2>5, <2>6, <2>7, NestSound
  <2> QED BY <2>6, <2>8
<1>6. ASSUME NEW wrapAfter \in WrapAfter, t = CompactArray(s, wrapAfter)
      PROVE  /\ WriterSound(t, n + 1)
             /\ OpenOf(t.levels) = Append(OpenOf(s.levels), "compact")
             /\ t.expecting = "CompactArrayValueOrArrayEnd"
  <2>1. PICK opener \in Lexemes, size \in Nat \cup {NotAnArray}, k \in AnyKind, e \in Expecting :
            opener = "[" /\ size = 0 /\ k = "compact" /\ e = "CompactArrayValueOrArrayEnd"
    BY <1>2 DEF AnyKind, Expecting
  <2>2. PICK u : u = Nest(s, opener, size, k, e)
    OBVIOUS
  <2>3. t = [u EXCEPT !.compactArrayWrapAfter = wrapAfter]
    BY <1>6, <2>1, <2>2 DEF CompactArray
  <2>4. /\ u \in AnyWriter /\ u.expecting = e
        /\ \E level \in AnyLevel : /\ u.levels = Append(s.levels, level) /\ level.size = size
                                   /\ level.kind = k /\ ~level.mixed
    <3>1. LET v == Nest(s, opener, size, k, e)
          IN /\ v \in AnyWriter
             /\ v.expecting = e
             /\ \E level \in AnyLevel : /\ v.levels = Append(s.levels, level) /\ level.size = size
                                        /\ level.kind = k /\ ~level.mixed
      BY <1>1, Nested
    <3> QED BY <2>2, <3>1
  <2>5. PICK level \in AnyLevel : /\ u.levels = Append(s.levels, level) /\ level.size = size
                                  /\ level.kind = k /\ ~level.mixed
    BY <2>4
  <2>6. t \in AnyWriter /\ t.expecting = u.expecting /\ t.levels = u.levels
    BY <2>3, <2>4 DEF AnyWriter
  <2>7. level.kind = "compact" /\ level.size # NotAnArray /\ t.expecting = "CompactArrayValueOrArrayEnd"
    BY <1>3, <2>1, <2>4, <2>5, <2>6
  <2>8. t.levels = Append(s.levels, level)
    BY <2>5, <2>6
  <2>9. WriterSound(t, n + 1) /\ OpenOf(t.levels) = Append(OpenOf(s.levels), level.kind)
    BY <2>5, <2>6, <2>7, <2>8, NestSound
  <2> QED BY <2>7, <2>9
<1> QED BY <1>4, <1>5, <1>6 DEF Begun

\* The values of one call of writeArray().
WorkWrite(c, s, value) == Literal(s, value)
DoneWrite(c, s, k) ==
    /\ s \in AnyWriter
    /\ SameLevels(c, s.levels)
    /\ s.expecting = "CompactArrayValueOrArrayEnd"
WriteFold == INSTANCE FoldFacts WITH Op <- WorkWrite, Holds <- DoneWrite

\* The values of writeArray() leave the compact array as it was.
LEMMA ArrayWritten ==
    ASSUME NEW s, NEW m, WriterSound(s, m), s.expecting = "CompactArrayValueOrArrayEnd",
           Len(s.levels) > 1, s.levels[Len(s.levels)].kind = "compact",
           NEW value \in Lexemes, NEW n \in Nat
    PROVE  LET Values1 == [i \in 1 .. n |-> value]
               t == FoldLeft(Literal, s, Values1)
           IN /\ WriterSound(t, m)
              /\ OpenOf(t.levels) = OpenOf(s.levels)
              /\ t.expecting = "CompactArrayValueOrArrayEnd"
<1>1. PICK values : values = [i \in 1 .. n |-> value]
  OBVIOUS
<1>2. DOMAIN values = 1 .. n /\ \A i \in 1 .. n : values[i] = value
  BY <1>1
<1>3. PICK c, k : c = s.levels /\ k = Len(s.levels)
  OBVIOUS
<1>4. /\ s \in AnyWriter /\ c \in Seq(AnyLevel) /\ Len(c) = k /\ k \in Nat /\ k > 1 /\ c # <<>> /\ k \in 1 .. k
      /\ LevelsSound(c) /\ ExpectingSound(s.expecting, c[k], m)
  BY <1>3 DEF WriterSound, AnyWriter
<1>5. c[k].kind = "compact" /\ c[k].size # NotAnArray
  BY <1>3, <1>4 DEF LevelsSound
<1>6. DoneWrite(c, s, 0)
  BY <1>3, <1>4 DEF DoneWrite, SameLevels
<1>7. ASSUME NEW j \in 1 .. n, NEW u, DoneWrite(c, u, j - 1)
      PROVE  DoneWrite(c, WorkWrite(c, u, values[j]), j)
  <2>1. u \in AnyWriter /\ SameLevels(c, u.levels) /\ u.expecting = "CompactArrayValueOrArrayEnd"
    BY <1>7 DEF DoneWrite
  <2>2. Len(u.levels) = k /\ u.levels # <<>> /\ u.levels[k].size # NotAnArray /\ u.levels \in Seq(AnyLevel)
    BY <1>4, <1>5, <2>1 DEF SameLevels
  <2>3. PICK v : v = Literal(u, value)
    OBVIOUS
  <2>4. /\ v \in AnyWriter /\ SameLevels(u.levels, v.levels)
        /\ v.expecting = AfterIn(Len(u.levels), u.levels[Len(u.levels)], u.expecting)
    BY <2>1, <2>2, <2>3, LiteralWritten
  <2>5. v.expecting = "CompactArrayValueOrArrayEnd"
    <3>1. k # 1
      BY <1>4
    <3> QED BY <2>1, <2>2, <2>4, <3>1 DEF AfterIn
  <2>6. SameLevels(c, v.levels)
    BY <1>4, <2>1, <2>4 DEF SameLevels
  <2>7. WorkWrite(c, u, values[j]) = v
    BY <1>2, <2>3 DEF WorkWrite
  <2>8. DoneWrite(c, v, j)
    BY <2>4, <2>5, <2>6 DEF DoneWrite
  <2> QED BY <2>7, <2>8
<1>8. PICK t : t = FoldLeft(Literal, s, values)
  OBVIOUS
<1>9. t = WriteFold!Fold(c, s, values)
  BY <1>8 DEF WorkWrite, FoldLeft, MapThenFoldSet, Max,
              WriteFold!Fold, WriteFold!FoldLeft, WriteFold!MapThenFoldSet, WriteFold!Max
<1>10. DoneWrite(c, WriteFold!Fold(c, s, values), n)
  BY <1>2, <1>6, <1>7, WriteFold!FoldInvariant
<1>11. t \in AnyWriter /\ SameLevels(c, t.levels) /\ t.expecting = "CompactArrayValueOrArrayEnd"
  BY <1>9, <1>10 DEF DoneWrite
<1>12. PICK ms : ms = t.levels
  OBVIOUS
<1>13. /\ ms \in Seq(AnyLevel) /\ Len(ms) = k /\ ms # <<>>
       /\ \A i \in 1 .. k : /\ ms[i].kind = c[i].kind /\ ms[i].mixed = c[i].mixed
                            /\ ms[i].size = NotAnArray <=> c[i].size = NotAnArray
  BY <1>4, <1>11, <1>12 DEF SameLevels
<1>14. LevelsSound(ms)
  BY <1>4, <1>13 DEF LevelsSound
<1>15. ExpectingSound(t.expecting, ms[k], m)
  BY <1>4, <1>5, <1>11, <1>13 DEF ExpectingSound
<1>16. m \in Nat /\ m > 0
  BY <1>3, <1>4 DEF WriterSound
<1>17. WriterSound(t, m)
  BY <1>11, <1>12, <1>13, <1>14, <1>15, <1>16 DEF WriterSound
<1>18. OpenOf(ms) = OpenOf(c)
  <2>1. \A i \in 1 .. k - 1 : ms[i + 1].kind = c[i + 1].kind
    BY <1>4, <1>13
  <2> QED BY <1>4, <1>13, <2>1 DEF OpenOf
<1> QED BY <1>1, <1>3, <1>8, <1>11, <1>12, <1>17, <1>18

\* writeArray() begins and ends a compact array.
LEMMA WriteArraySound ==
    ASSUME NEW s, NEW m, WriterSound(s, m), NestingExpected(s), NEW value \in Lexemes, NEW n \in Nat,
           NEW wrapAfter \in WrapAfter
    PROVE  LET Values1 == [i \in 1 .. n |-> value]
               t == ArrayEnd(FoldLeft(Literal, CompactArray(s, wrapAfter), Values1))
           IN /\ WriterSound(t, m + n + 1)
              /\ OpenOf(t.levels) = OpenOf(s.levels)
              /\ t.expecting # "ObjectValue"
              /\ t.expecting = "DocumentEnd" <=> OpenOf(s.levels) = <<>>
<1>1. PICK values : values = [i \in 1 .. n |-> value]
  OBVIOUS
<1>2. PICK u, kind : u = CompactArray(s, wrapAfter) /\ kind = "compact"
  OBVIOUS
<1>3. /\ WriterSound(u, m + 1) /\ OpenOf(u.levels) = Append(OpenOf(s.levels), kind)
      /\ u.expecting = "CompactArrayValueOrArrayEnd"
  <2>1. Begun(s, u, kind)
    BY <1>2 DEF Begun
  <2> QED BY <1>2, <2>1, BegunSound
<1>4. PICK o, p : o = OpenOf(s.levels) /\ p = OpenOf(u.levels)
  OBVIOUS
<1>5. /\ o \in Seq({"object", "array", "compact"}) /\ Len(o) \in Nat /\ p = Append(o, kind)
      /\ p # <<>> /\ Len(p) = Len(o) + 1 /\ Last(p) = kind
  <2>1. o \in Seq({"object", "array", "compact"}) /\ p = Append(o, kind) /\ kind \in {"object", "array", "compact"}
    BY <1>2, <1>3, <1>4, OpenFacts
  <2> QED BY <2>1 DEF Last
<1>6. u.levels[Len(u.levels)].kind = "compact" /\ Len(u.levels) > 1
  <2>1. /\ Len(p) = Len(u.levels) - 1 /\ Len(u.levels) \in Nat
        /\ p # <<>> => Last(p) = u.levels[Len(u.levels)].kind
    BY <1>3, <1>4, OpenFacts
  <2> QED BY <1>2, <1>5, <2>1
<1>7. PICK v : v = FoldLeft(Literal, u, values)
  OBVIOUS
<1>8. WriterSound(v, m + 1) /\ OpenOf(v.levels) = p /\ v.expecting = "CompactArrayValueOrArrayEnd"
  BY <1>1, <1>3, <1>4, <1>6, <1>7, ArrayWritten
<1>9. PICK t, newline, closer : /\ t = ArrayEnd(v) /\ closer = "]"
                                /\ newline = (/\ v.expecting = "CompactArrayValueOrArrayEnd" => v.compactArrayWrapAfter # 0
                                              /\ v.needsCommaBefore)
  OBVIOUS
<1>10. newline \in BOOLEAN
  <2>1. v.needsCommaBefore \in BOOLEAN
    BY <1>8 DEF WriterSound, AnyWriter
  <2> QED BY <1>9, <2>1
<1>11. t = Unnest(v, closer, newline)
  BY <1>9, Zenon DEF ArrayEnd
<1>12. closer \in Lexemes
  BY <1>9 DEF Lexemes, Closers
<1>13. /\ WriterSound(t, m + 1) /\ OpenOf(t.levels) = Front(p) /\ t.expecting # "ObjectValue"
       /\ t.expecting = "DocumentEnd" <=> Len(p) = 1
  BY <1>8, <1>10, <1>11, <1>12, UnnestSound
<1>14. Front(p) = o
  <2>1. \A i \in 1 .. Len(o) : p[i] = o[i]
    BY <1>5
  <2>2. Front(p) = [i \in 1 .. Len(o) |-> p[i]]
    <3>1. Front(p) = SubSeq(p, 1, Len(p) - 1)
      BY DEF Front
    <3> QED BY <1>5, <3>1
  <2> QED BY <1>5, <2>1, <2>2
<1>15. Len(p) = 1 <=> o = <<>>
  BY <1>5
<1>16. m + 1 > 0 /\ m + n + 1 > 0 /\ m + n + 1 \in Nat
  BY DEF WriterSound
<1>17. WriterSound(t, m + n + 1)
  <2>1. PICK a, b : a = m + 1 /\ b = m + n + 1
    OBVIOUS
  <2>2. WriterSound(t, a) /\ a > 0 /\ b \in Nat /\ b > 0
    BY <1>13, <1>16, <2>1
  <2>3. WriterSound(t, b)
    BY <2>2, SoundLonger
  <2> QED BY <2>1, <2>3
<1> QED BY <1>1, <1>2, <1>4, <1>7, <1>9, <1>13, <1>14, <1>15, <1>17

\* A call, as JsonDocument has it.
DocumentStep(s, t) ==
    LET o == OpenOf(s.levels)
        p == OpenOf(t.levels)
        keyed == s.expecting = "ObjectValue"
        done == s.expecting = "DocumentEnd"
        awaited == ~done /\ (o # <<>> /\ Last(o) = "object" => keyed)
    IN \/ /\ awaited /\ ~(o # <<>> /\ Last(o) = "compact")
          /\ \E kind \in {"object", "array", "compact"} : p = Append(o, kind)
          /\ t.expecting # "ObjectValue"
          /\ t.expecting = "DocumentEnd" <=> done
       \/ /\ o # <<>> /\ ~keyed /\ p = Front(o)
          /\ t.expecting = "DocumentEnd" <=> Len(o) = 1
          /\ t.expecting # "ObjectValue"
       \/ /\ o # <<>> /\ Last(o) = "object" /\ ~keyed
          /\ t.expecting = "ObjectValue" /\ p = o
          /\ t.expecting = "DocumentEnd" <=> done
       \/ /\ awaited
          /\ t.expecting # "ObjectValue" /\ p = o
          /\ t.expecting = "DocumentEnd" <=> o = <<>>
       \/ t = s

\* When a value is expected.
LEMMA ValueOpen ==
    ASSUME NEW s, NEW n, WriterSound(s, n), NEW o, o = OpenOf(s.levels)
    PROVE  /\ o \in Seq({"object", "array", "compact"})
           /\ ValueExpected(s) => /\ s.expecting # "DocumentEnd"
                                  /\ o # <<>> /\ Last(o) = "object" => s.expecting = "ObjectValue"
           /\ NestingExpected(s) => ~(o # <<>> /\ Last(o) = "compact")
           /\ s.expecting = "ObjectKeyOrEnd" => o # <<>> /\ Last(o) = "object"
<1>1. PICK level : level = s.levels[Len(s.levels)]
  OBVIOUS
<1>2. /\ o \in Seq({"object", "array", "compact"})
      /\ o # <<>> => Last(o) = level.kind
      /\ o = <<>> <=> Len(s.levels) = 1
  BY <1>1, OpenFacts
<1>3. ExpectingSound(s.expecting, level, n)
  BY <1>1 DEF WriterSound
<1>4. level.kind \in {"root", "object", "array", "compact"} /\ (level.kind = "root" <=> Len(s.levels) = 1)
  <2>1. s \in AnyWriter /\ s.levels # <<>> /\ LevelsSound(s.levels)
    BY DEF WriterSound, LevelsSound
  <2>2. Len(s.levels) \in 1 .. Len(s.levels) /\ level \in AnyLevel
    BY <1>1, <2>1, LastLevel
  <2> QED BY <1>1, <2>1, <2>2 DEF LevelsSound, AnyLevel
<1> QED BY <1>2, <1>3, <1>4 DEF ExpectingSound, ValueExpected, NestingExpected

\* Any call of the writer.
LEMMA WriterStep ==
    ASSUME WriterSound(state, items), items <= MaxItems, WriterNext
    PROVE  WriterSound(state', items') /\ items' <= MaxItems /\ DocumentStep(state, state')
<1>1. PICK s, n, t : s = state /\ n = items /\ t = state'
  OBVIOUS
<1>2. PICK o, p : o = OpenOf(s.levels) /\ p = OpenOf(t.levels)
  OBVIOUS
<1>3. WriterSound(s, n) /\ n \in Nat /\ n <= MaxItems /\ MaxItems \in Nat
  BY <1>1, WriterAssumption DEF WriterSound
<1>4. /\ o \in Seq({"object", "array", "compact"})
      /\ ValueExpected(s) => /\ s.expecting # "DocumentEnd"
                             /\ o # <<>> /\ Last(o) = "object" => s.expecting = "ObjectValue"
      /\ NestingExpected(s) => ValueExpected(s) /\ ~(o # <<>> /\ Last(o) = "compact")
      /\ s.expecting = "ObjectKeyOrEnd" => o # <<>> /\ Last(o) = "object"
  BY <1>2, <1>3, ValueOpen DEF ValueExpected
<1>5. ASSUME NEW kind \in {"object", "array", "compact"}, NestingExpected(s), items' = n + 1, n < MaxItems,
             Begun(s, t, kind)
      PROVE  WriterSound(t, items') /\ items' <= MaxItems /\ DocumentStep(s, t)
  <2>1. /\ WriterSound(t, n + 1)
        /\ p = Append(o, kind)
        /\ t.expecting \notin {"ObjectValue", "DocumentEnd"}
    BY <1>2, <1>3, <1>5, BegunSound
  <2>2. DocumentStep(s, t)
    BY <1>2, <1>4, <1>5, <2>1 DEF DocumentStep
  <2> QED BY <1>3, <1>5, <2>1, <2>2
<1>6. ASSUME NEW closer \in Lexemes, NEW newline \in BOOLEAN, t = Unnest(s, closer, newline), items' = n,
             s.expecting \in {"ObjectKeyOrEnd", "ArrayValueOrArrayEnd", "CompactArrayValueOrArrayEnd"}
      PROVE  WriterSound(t, items') /\ items' <= MaxItems /\ DocumentStep(s, t)
  <2>1. /\ WriterSound(t, n) /\ o # <<>> /\ p = Front(o) /\ t.expecting # "ObjectValue"
        /\ t.expecting = "DocumentEnd" <=> Len(o) = 1
    BY <1>2, <1>3, <1>6, UnnestSound
  <2>2. DocumentStep(s, t)
    BY <1>2, <1>6, <2>1 DEF DocumentStep
  <2> QED BY <1>3, <1>6, <2>1, <2>2
<1>7. ASSUME NEW key \in Lexemes, t = KeyLiteral(s, key), items' = n, s.expecting = "ObjectKeyOrEnd"
      PROVE  WriterSound(t, items') /\ items' <= MaxItems /\ DocumentStep(s, t)
  <2>1. WriterSound(t, n) /\ p = o /\ t.expecting = "ObjectValue"
    BY <1>2, <1>3, <1>7, KeySound
  <2>2. DocumentStep(s, t)
    BY <1>2, <1>4, <1>7, <2>1 DEF DocumentStep
  <2> QED BY <1>3, <1>7, <2>1, <2>2
<1>8. ASSUME NEW value \in Lexemes, t = Literal(s, value), ValueExpected(s), items' = n + 1, n < MaxItems
      PROVE  WriterSound(t, items') /\ items' <= MaxItems /\ DocumentStep(s, t)
  <2>1. s \in AnyWriter /\ s.levels # <<>>
    BY <1>3 DEF WriterSound, LevelsSound
  <2>2. /\ t \in AnyWriter /\ SameLevels(s.levels, t.levels)
        /\ t.expecting = AfterIn(Len(s.levels), s.levels[Len(s.levels)], s.expecting)
    BY <1>8, <2>1, LiteralWritten
  <2>3. /\ WriterSound(t, n + 1) /\ p = o /\ t.expecting # "ObjectValue"
        /\ t.expecting = "DocumentEnd" <=> o = <<>>
    BY <1>2, <1>3, <1>8, <2>2, ValueSound
  <2>4. DocumentStep(s, t)
    BY <1>2, <1>4, <1>8, <2>3 DEF DocumentStep
  <2> QED BY <1>3, <1>8, <2>3, <2>4
<1>9. ASSUME NEW value \in Lexemes, NEW k \in Nat, NEW wrapAfter \in WrapAfter, NestingExpected(s),
             t = ArrayEnd(FoldLeft(Literal, CompactArray(s, wrapAfter), [i \in 1 .. k |-> value])),
             items' = n + k + 1, n + k < MaxItems
      PROVE  WriterSound(t, items') /\ items' <= MaxItems /\ DocumentStep(s, t)
  <2>1. /\ WriterSound(t, n + k + 1) /\ p = o /\ t.expecting # "ObjectValue"
        /\ t.expecting = "DocumentEnd" <=> o = <<>>
    BY <1>2, <1>3, <1>9, WriteArraySound
  <2>2. DocumentStep(s, t)
    BY <1>2, <1>4, <1>9, <2>1 DEF DocumentStep
  <2> QED BY <1>3, <1>9, <2>1, <2>2
<1>10. CASE BeginObject
  <2>1. NestingExpected(s) /\ t = Object(s) /\ items' = n + 1 /\ n < MaxItems
    BY <1>1, <1>10 DEF BeginObject, Room, Count
  <2>2. Begun(s, t, "object")
    BY <2>1 DEF Begun
  <2> QED BY <1>1, <1>5, <2>1, <2>2
<1>11. CASE BeginArray
  <2>1. NestingExpected(s) /\ t = Array(s) /\ items' = n + 1 /\ n < MaxItems
    BY <1>1, <1>11 DEF BeginArray, Room, Count
  <2>2. Begun(s, t, "array")
    BY <2>1 DEF Begun
  <2> QED BY <1>1, <1>5, <2>1, <2>2
<1>12. ASSUME NEW wrapAfter \in WrapAfter, BeginCompactArray(wrapAfter)
       PROVE  WriterSound(state', items') /\ items' <= MaxItems /\ DocumentStep(state, state')
  <2>1. NestingExpected(s) /\ t = CompactArray(s, wrapAfter) /\ items' = n + 1 /\ n < MaxItems
    BY <1>1, <1>12 DEF BeginCompactArray, Room, Count
  <2>2. Begun(s, t, "compact")
    BY <2>1 DEF Begun
  <2> QED BY <1>1, <1>5, <2>1, <2>2
<1>13. CASE EndObject
  <2>1. PICK newline, closer : newline = s.needsCommaBefore /\ closer = "}"
    OBVIOUS
  <2>2. newline \in BOOLEAN /\ closer \in Lexemes
    BY <1>3, <2>1 DEF WriterSound, AnyWriter, Lexemes, Closers
  <2>3. s.expecting = "ObjectKeyOrEnd" /\ t = ObjectEnd(s) /\ items' = n
    BY <1>1, <1>3, <1>13 DEF EndObject, Count
  <2>4. t = Unnest(s, closer, newline)
    BY <2>1, <2>3 DEF ObjectEnd
  <2> QED BY <1>1, <1>6, <2>2, <2>3, <2>4
<1>14. CASE EndArray
  <2>1. PICK newline, closer : /\ closer = "]"
                               /\ newline = (/\ s.expecting = "CompactArrayValueOrArrayEnd" => s.compactArrayWrapAfter # 0
                                             /\ s.needsCommaBefore)
    OBVIOUS
  <2>2. newline \in BOOLEAN
    <3>1. s.needsCommaBefore \in BOOLEAN
      BY <1>3 DEF WriterSound, AnyWriter
    <3> QED BY <2>1, <3>1
  <2>3. closer \in Lexemes
    BY <2>1 DEF Lexemes, Closers
  <2>4. s.expecting \in {"ArrayValueOrArrayEnd", "CompactArrayValueOrArrayEnd"} /\ t = ArrayEnd(s) /\ items' = n
    BY <1>1, <1>3, <1>14 DEF EndArray, Count
  <2>5. t = Unnest(s, closer, newline)
    BY <2>1, <2>4, Zenon DEF ArrayEnd
  <2> QED BY <1>1, <1>6, <2>2, <2>3, <2>4, <2>5
<1>15. ASSUME NEW value \in Written PROVE value \in Lexemes
  BY WriterAssumption DEF Lexemes
<1>16. ASSUME NEW value \in Written, WriteKey(value) \/ WriteJsonKey(value)
       PROVE  WriterSound(state', items') /\ items' <= MaxItems /\ DocumentStep(state, state')
  <2>1. s.expecting = "ObjectKeyOrEnd" /\ t = KeyLiteral(s, value) /\ items' = n
    BY <1>1, <1>3, <1>16 DEF WriteKey, WriteJsonKey, Count
  <2> QED BY <1>1, <1>7, <1>15, <2>1
<1>17. ASSUME NEW value \in Written, Write(value) \/ WriteJson(value)
       PROVE  WriterSound(state', items') /\ items' <= MaxItems /\ DocumentStep(state, state')
  <2>1. ValueExpected(s) /\ t = Literal(s, value) /\ items' = n + 1 /\ n < MaxItems
    BY <1>1, <1>17 DEF Write, WriteJson, Count, Room, ValueExpected
  <2> QED BY <1>1, <1>8, <1>15, <2>1
<1>18. ASSUME NEW value \in Written, NEW k \in 0 .. 2, NEW w \in WrapAfter, WriteArray(value, k, w)
       PROVE  WriterSound(state', items') /\ items' <= MaxItems /\ DocumentStep(state, state')
  <2>1. /\ NestingExpected(s) /\ items' = n + (k + 1) /\ n + k < MaxItems
        /\ t = ArrayEnd(FoldLeft(Literal, CompactArray(s, w), [i \in 1 .. k |-> value]))
    BY <1>1, <1>18 DEF WriteArray, Count
  <2>2. items' = n + k + 1 /\ k \in Nat
    BY <1>3, <2>1
  <2> QED BY <1>1, <1>9, <1>15, <2>1, <2>2
<1>19. CASE TakeString
  <2>1. t = s /\ items' = n
    BY <1>1, <1>19 DEF TakeString, writerVars
  <2> QED BY <1>1, <1>3, <2>1 DEF DocumentStep
<1> QED BY <1>10, <1>11, <1>12, <1>13, <1>14, <1>16, <1>17, <1>18, <1>19 DEF WriterNext

\* What the tokenizer is given are lexemes.
WorkText(c, lexemes, written) ==
    IF written.lexeme = "newline" THEN lexemes ELSE Append(lexemes, written.lexeme)
DoneText(c, lexemes, k) == lexemes \in Seq(Lexemes)
TextFold == INSTANCE FoldFacts WITH Op <- WorkText, Holds <- DoneText

\* The text that is written is one of lexemes, without its newlines.
LEMMA TextTyped ==
    ASSUME NEW s \in AnyWriter
    PROVE  Text(s) \in Seq(Lexemes)
<1>1. PICK out, n : out = s.out /\ n = Len(s.out)
  OBVIOUS
<1>2. out \in Seq(AnyWritten) /\ n \in Nat /\ DOMAIN out = 1 .. n /\ \A k \in 1 .. n : out[k] \in AnyWritten
  <2>1. out \in Seq(AnyWritten)
    BY <1>1 DEF AnyWriter
  <2> QED BY <1>1, <2>1
<1>3. ASSUME NEW k \in 1 .. n, NEW lexemes, DoneText(0, lexemes, k - 1)
      PROVE  DoneText(0, WorkText(0, lexemes, out[k]), k)
  <2>1. lexemes \in Seq(Lexemes)
    BY <1>3 DEF DoneText
  <2>2. PICK lexeme : lexeme = out[k].lexeme
    OBVIOUS
  <2>3. lexeme \in Lexemes \cup {"newline"}
    BY <1>2, <2>2 DEF AnyWritten
  <2>4. CASE lexeme = "newline"
    BY <2>1, <2>2, <2>4 DEF DoneText, WorkText
  <2>5. CASE lexeme # "newline"
    <3>1. Append(lexemes, lexeme) \in Seq(Lexemes)
      BY <2>1, <2>3, <2>5
    <3> QED BY <2>2, <2>5, <3>1 DEF DoneText, WorkText
  <2> QED BY <2>4, <2>5
<1>4. PICK base : base = <<>>
  OBVIOUS
<1>5. DoneText(0, base, 0)
  BY <1>4 DEF DoneText
<1>6. DoneText(0, TextFold!Fold(0, base, out), n)
  BY <1>2, <1>3, <1>5, TextFold!FoldInvariant
<1>7. Text(s) = TextFold!Fold(0, base, out)
  BY <1>1, <1>4 DEF Text, WorkText, FoldLeft, MapThenFoldSet, Max,
                    TextFold!Fold, TextFold!FoldLeft, TextFold!MapThenFoldSet, TextFold!Max
<1> QED BY <1>6, <1>7 DEF DoneText

-----------------------------------------------------------------------------

RoundInv ==
    /\ JsonInv
    /\ WriterSound(state, items)
    /\ items <= MaxItems

\* A writer that was just constructed.
LEMMA ConstructedSound ==
    ASSUME NEW wrap \in BOOLEAN, NEW indentation \in 0 .. 8, NEW initialIndentation \in Nat
    PROVE  LET s == Constructed(wrap, indentation, initialIndentation)
           IN WriterSound(s, 0) /\ OpenOf(s.levels) = <<>> /\ s.expecting = "Value"
<1>1. PICK s : s = Constructed(wrap, indentation, initialIndentation)
  OBVIOUS
<1>2. PICK white, ind, no, final : /\ white = IF wrap THEN 1 + initialIndentation ELSE 0
                                   /\ ind = IF wrap THEN indentation ELSE 0
                                   /\ no = FALSE /\ final = (wrap /\ initialIndentation = 0)
  OBVIOUS
<1>3. white \in Nat /\ ind \in 0 .. 8 /\ no \in BOOLEAN /\ final \in BOOLEAN
  <2>1. white \in Nat /\ ind \in 0 .. 8
    BY <1>2
  <2>2. no \in BOOLEAN /\ final \in BOOLEAN
    BY <1>2, Zenon
  <2> QED BY <2>1, <2>2
<1>4. PICK level, ls : level = Level(white, NotAnArray, "root") /\ ls = <<level>>
  OBVIOUS
<1>5. level = [prefix |-> white, size |-> NotAnArray, kind |-> "root", mixed |-> no]
  BY <1>2, <1>4 DEF Level
<1>6. level \in AnyLevel /\ level.kind = "root" /\ level.size = NotAnArray
  BY <1>3, <1>5 DEF AnyLevel
<1>7. ls \in Seq(AnyLevel) /\ Len(ls) = 1 /\ ls[1] = level
  BY <1>4, <1>6
<1>8. s = [expecting |-> "Value", needsCommaBefore |-> no, compactArrayWrapAfter |-> 0,
           indentation |-> ind, finalNewline |-> final,
           whitespace |-> white, levels |-> ls, out |-> <<>>]
  BY <1>1, <1>2, <1>4, Zenon DEF Constructed
<1>9. s \in AnyWriter /\ s.levels = ls /\ s.expecting = "Value"
  <2>1. <<>> \in Seq(AnyWritten)
    OBVIOUS
  <2>2. PICK empty : empty = <<>> /\ empty \in Seq(AnyWritten)
    BY <2>1
  <2>3. s = [expecting |-> "Value", needsCommaBefore |-> no, compactArrayWrapAfter |-> 0,
             indentation |-> ind, finalNewline |-> final,
             whitespace |-> white, levels |-> ls, out |-> empty]
    BY <1>8, <2>2, Zenon
  <2> QED BY <1>3, <1>7, <2>2, <2>3 DEF AnyWriter, Expecting
<1>10. LevelsSound(ls)
  BY <1>6, <1>7 DEF LevelsSound
<1>11. ExpectingSound("Value", level, 0)
  BY <1>6 DEF ExpectingSound
<1>12. WriterSound(s, 0)
  <2>1. s.levels[Len(s.levels)] = level /\ ~(Len(s.levels) > 1)
    <3>1. Len(ls) = 1 /\ ls[1] = level
      BY <1>7
    <3>2. ls[Len(ls)] = level /\ ~(Len(ls) > 1)
      BY <3>1
    <3> QED BY <1>9, <3>2, Zenon
  <2>2. ExpectingSound(s.expecting, s.levels[Len(s.levels)], 0) /\ LevelsSound(s.levels)
    BY <1>9, <1>10, <1>11, <2>1
  <2> QED BY <1>9, <2>1, <2>2 DEF WriterSound
<1>13. OpenOf(ls) = <<>>
  BY <1>9, <1>12, OpenFacts, <1>7
<1> QED BY <1>1, <1>9, <1>12, <1>13

\* The initial states.
LEMMA InitInv ==
    ASSUME Init
    PROVE  RoundInv /\ OpenOf(state.levels) = <<>> /\ state.expecting = "Value"
<1>1. WriterSound(state, items) /\ OpenOf(state.levels) = <<>> /\ state.expecting = "Value" /\ items = 0
  <2>1. \E wrap \in BOOLEAN, indentation \in 0 .. 8, initialIndentation \in Nat :
            state = Constructed(wrap, indentation, initialIndentation) /\ items = 0
    <3>1. CASE WriterInit
      BY <3>1, WriterAssumption DEF WriterInit
    <3>2. CASE state = Constructed(FALSE, 0, 0) /\ items = 0
      <4>1. PICK no \in BOOLEAN : no = FALSE
        OBVIOUS
      <4>2. PICK zero \in 0 .. 8 : zero = 0
        OBVIOUS
      <4>3. zero \in Nat
        BY <4>2
      <4>4. state = Constructed(no, zero, zero)
        BY <3>2, <4>1, <4>2, Zenon
      <4> QED BY <3>2, <4>3, <4>4
    <3> QED BY <3>1, <3>2 DEF Init
  <2> QED BY <2>1, ConstructedSound
<1>2. /\ status = "reading" /\ text = <<>> /\ expected = "Value" /\ container = 0
      /\ tokens = <<>> /\ strings = <<>>
  BY DEF Init, JsonInit, NoContainer
<1>3. PICK tks, n : tks = tokens /\ n = Len(text) /\ n = 0 /\ Len(tks) = 0
  BY <1>2
<1>4. tks = <<>> /\ tks \in Seq(AnyToken)
  BY <1>2, <1>3
<1>5. Tree(tks, n, 0)
  <2>1. Ordered(tks, n) /\ ClosedExact(tks) /\ KeysSound(tks)
    BY <1>3 DEF Ordered, ClosedExact, KeysSound
  <2>2. OpenLinked(tks, 0)
    BY <1>3 DEF OpenLinked, IsLastOpen
  <2> QED BY <1>3, <1>4, <2>1, <2>2 DEF Tree
<1>6. Expecting1(tks, 0, "Value")
  BY <1>4 DEF Expecting1, Expectations
<1>7. JsonInv
  BY <1>2, <1>3, <1>5, <1>6 DEF JsonInv
<1> QED BY <1>1, <1>7, WriterAssumption DEF RoundInv

\* What a step does: to the tokens, and to the document of the writer.
LEMMA RoundStep ==
    ASSUME RoundInv, [Next]_vars
    PROVE  /\ RoundInv'
           /\ StepKeeps \/ UNCHANGED jsonVars
           /\ DocumentStep(state, state')
<1>1. CASE UNCHANGED jsonVars /\ UNCHANGED writerVars
  <2>1. JsonInv'
    BY <1>1 DEF jsonVars, JsonInv, RoundInv
  <2>2. RoundInv' /\ DocumentStep(state, state')
    BY <1>1, <2>1 DEF RoundInv, writerVars, DocumentStep
  <2> QED BY <1>1, <2>2
<1>2. CASE (JsonInv' /\ StepKeeps) /\ UNCHANGED writerVars
  BY <1>2 DEF RoundInv, writerVars, DocumentStep
<1>3. CASE ParseAnyText
  BY <1>2, <1>3, JsonKeeps DEF ParseAnyText, RoundInv
<1>4. CASE Refused \/ Hand \/ CopyDocument \/ Done \/ UNCHANGED vars
  BY <1>1, <1>4 DEF Refused, Hand, TakeString, CopyDocument, Done, vars
<1>5. CASE WriteDocument
  <2>1. WriterSound(state', items') /\ items' <= MaxItems /\ DocumentStep(state, state')
    BY <1>5, WriterStep DEF WriteDocument, RoundInv
  <2>2. UNCHANGED jsonVars
    BY <1>5 DEF WriteDocument
  <2>3. JsonInv'
    BY <2>2 DEF jsonVars, JsonInv, RoundInv
  <2> QED BY <2>1, <2>2, <2>3 DEF RoundInv
<1>6. CASE ReadDocument
  <2>1. PICK t, k : t = Text(state) /\ k = Len(text) + 1
    OBVIOUS
  <2>2. t \in Seq(Lexemes)
    BY <2>1, TextTyped DEF RoundInv, WriterSound
  <2>3. Len(text) \in Nat /\ Len(text) < Len(t)
    <3>1. text \in Seq(Lexemes)
      BY DEF RoundInv, JsonInv
    <3>2. Len(text) < Len(t)
      BY <1>6, <2>1 DEF ReadDocument
    <3> QED BY <3>1, <3>2
  <2>4. t[k] \in Lexemes
    BY <2>1, <2>2, <2>3
  <2>5. Read(t[k]) /\ UNCHANGED writerVars
    BY <1>6, <2>1 DEF ReadDocument
  <2>6. JsonInv' /\ StepKeeps
    BY <2>4, <2>5, ReadStep DEF RoundInv
  <2> QED BY <1>2, <2>5, <2>6
<1>7. ASSUME NEW options \in OptionSets, FinishReading(options)
      PROVE  (JsonInv' /\ StepKeeps) /\ UNCHANGED writerVars
  BY <1>7, EndKeeps DEF FinishReading, RoundInv
<1> QED BY <1>2, <1>3, <1>4, <1>5, <1>6, <1>7 DEF Next

\* The invariant of both.
LEMMA RoundInvariant == Spec => []RoundInv
<1>1. Init => RoundInv
  BY InitInv
<1>2. RoundInv /\ [Next]_vars => RoundInv'
  BY RoundStep
<1> QED BY <1>1, <1>2, PTL DEF Spec

\* The state of the tokenizer and the one of the writer are well-typed after any
\* sequence of calls of JsonWriter, and of the lexemes it has written and calls of
\* Json.
THEOREM TypesAlwaysOK == Spec => [](JsonTypeOK /\ WriterTypeOK)
<1>1. JsonInv => JsonTypeOK
  <2> SUFFICES ASSUME JsonInv PROVE JsonTypeOK
    OBVIOUS
  <2>1. PICK tks, n, c : tks = tokens /\ n = Len(text) /\ c = container
    OBVIOUS
  <2>2. /\ tks \in Seq(AnyToken) /\ Len(tks) \in Nat /\ DOMAIN tks = 1 .. Len(tks) /\ text \in Seq(Lexemes)
        /\ Tree(tks, n, c) /\ strings \in Seq(Nat)
    <3>1. Tree(tks, n, c) /\ text \in Seq(Lexemes) /\ strings \in Seq(Nat)
      BY <2>1 DEF JsonInv
    <3>2. tks \in Seq(AnyToken)
      BY <3>1 DEF Tree
    <3> QED BY <3>1, <3>2
  <2>3. DOMAIN text = 1 .. n /\ n \in Nat
    BY <2>1, <2>2
  <2>4. c \in 0 .. Len(tks)
    BY <2>2 DEF Tree, OpenLinked, IsLastOpen
  <2>5. \A i \in 1 .. Len(tks) : tks[i].first \in 1 .. n /\ tks[i].last \in 1 .. n
    BY <2>2, <2>3 DEF Tree, Ordered
  <2>6. \A i \in 1 .. Len(tks) : tks[i].bits \in TypeBits /\ tks[i].sizeType \in WideNumbers \cup {"Other"}
    <3>1. \A i \in 1 .. Len(tks) : tks[i] \in AnyToken
      BY <2>2
    <3> QED BY <3>1 DEF AnyToken
  <2>7. expected \in Expectations
    BY DEF JsonInv, Expecting1
  <2>8. \A i \in DOMAIN strings : strings[i] \in {NoText} \cup DOMAIN text
    BY DEF JsonInv
  <2>9. status \in {"reading", "rejected", "too short", "unparsed", "tokenized"}
    BY DEF JsonInv
  <2> QED BY <2>1, <2>2, <2>3, <2>4, <2>5, <2>6, <2>7, <2>8, <2>9 DEF JsonTypeOK
<1>2. WriterSound(state, items) /\ items <= MaxItems => WriterTypeOK
  <2> SUFFICES ASSUME WriterSound(state, items), items <= MaxItems PROVE WriterTypeOK
    OBVIOUS
  <2>1. state \in AnyWriter /\ state.levels # <<>> /\ items \in 0 .. MaxItems
    BY WriterAssumption DEF WriterSound, LevelsSound
  <2>2. state.levels \in Seq(AnyLevel) /\ state.out \in Seq(AnyWritten)
    BY <2>1 DEF AnyWriter
  <2>3. \A i \in DOMAIN state.levels : state.levels[i] \in AnyLevel
    BY <2>2
  <2>4. \A i \in DOMAIN state.out : state.out[i] \in AnyWritten
    BY <2>2
  <2>5. Len(state.levels) > 0
    BY <2>1, <2>2
  <2>6. /\ state.expecting \in Expecting /\ state.needsCommaBefore \in BOOLEAN
        /\ state.compactArrayWrapAfter \in WrapAfter \cup {0}
        /\ state.whitespace \in Nat /\ state.indentation \in 0 .. 8 /\ state.finalNewline \in BOOLEAN
    BY <2>1 DEF AnyWriter
  <2>7. \A i \in DOMAIN state.levels :
            /\ state.levels[i].prefix \in Nat
            /\ state.levels[i].size \in Nat \cup {NotAnArray}
            /\ state.levels[i].kind \in {"root", "object", "array", "compact"}
            /\ state.levels[i].mixed \in BOOLEAN
    BY <2>3 DEF AnyLevel
  <2>8. \A i \in DOMAIN state.out :
            state.out[i].lexeme \in Lexemes \cup {"newline"} /\ state.out[i].spaces \in Nat
    BY <2>4 DEF AnyWritten
  <2> QED BY <2>1, <2>5, <2>6, <2>7, <2>8 DEF WriterTypeOK
<1>3. RoundInv => JsonTypeOK /\ WriterTypeOK
  BY <1>1, <1>2 DEF RoundInv
<1> QED BY <1>3, RoundInvariant, PTL

\* Once a text is read, childCount() and parent() of every token are those of the
\* nesting of the text, for texts of any length and depth, although tokenize() keeps
\* in a container that is still open the index of the one around it and has counts
\* only for those that ended (Json::tokenize(), JsonToken::parent()).
THEOREM TreeAlwaysExact == Spec => []TreeExact
<1>1. RoundInv => TreeExact
  BY InvTree DEF RoundInv
<1> QED BY <1>1, RoundInvariant, PTL

\* A parsed string with escapes is found in the strings of the instance, and it is
\* the one that the token was read from, after any sequence of parsing calls,
\* ones that failed half-way included (Json::parseStringInternal()).
THEOREM StringsAlwaysOwned == Spec => []StringsOwned
<1>1. RoundInv => StringsOwned
  BY InvOwned DEF RoundInv
<1> QED BY <1>1, RoundInvariant, PTL

\* An array that a call parses to a type can be viewed as one of values of it: all
\* its children and nothing else are tokens of the type, one each, in a row, for
\* what any calls before have left (Json::parse*Array()).
THEOREM ViewsAlwaysTyped == Spec => []ArrayViewsTyped
<1>1. RoundInv => ArrayViewsTyped
  BY InvViews DEF RoundInv
<1> QED BY <1>1, RoundInvariant, PTL

\* No step makes a parsed token one that is not parsed, and one that a later call
\* parses to another type is of a type that can represent it: what an earlier call
\* found stays true (Json::parse*(), JsonToken::isParsed()).
THEOREM ParsedAlwaysStays == Spec => StaysParsed
<1>1. RoundInv /\ [Next]_vars => [StepKeeps]_jsonVars
  BY RoundStep
<1>2. Spec => [][StepKeeps]_jsonVars
  BY <1>1, RoundInvariant, PTL DEF Spec
<1>3. [][StepKeeps]_jsonVars => StaysParsed
  BY PTL DEF StaysParsed, StepKeeps
<1> QED BY <1>2, <1>3, PTL

-----------------------------------------------------------------------------

\* What the writer expects next is one of the things that the level on top can have
\* next, except in an array that finalizeValue() has marked as mixed
\* (JsonWriter::finalizeValue(), Json.cpp).
THEOREM ExpectingAlwaysFollows == Spec => []ExpectingFollowsPlainLevel
<1>1. WriterSound(state, items) => ExpectingFollowsPlainLevel
  <2> SUFFICES ASSUME WriterSound(state, items) PROVE ExpectingFollowsPlainLevel
    OBVIOUS
  <2>1. PICK level : level = Last(state.levels)
    OBVIOUS
  <2>2. state \in AnyWriter /\ state.levels # <<>>
    BY DEF WriterSound, LevelsSound
  <2>3. level = state.levels[Len(state.levels)] /\ level \in AnyLevel
    BY <2>1, <2>2, LastLevel
  <2>4. ExpectingSound(state.expecting, level, items) /\ level.kind \in {"root", "object", "array", "compact"}
    BY <2>3 DEF WriterSound, AnyLevel
  <2>5. (level.kind = "array" /\ level.mixed) \/ state.expecting \in ExpectedOn(level)
    BY <2>4 DEF ExpectingSound, ExpectedOn
  <2> QED BY <2>1, <2>5 DEF ExpectingFollowsPlainLevel
<1>2. RoundInv => ExpectingFollowsPlainLevel
  BY <1>1 DEF RoundInv
<1> QED BY <1>2, RoundInvariant, PTL

\* The state of JsonDocument, of the state of the writer.
DocOpen == [i \in 1 .. Len(state.levels) - 1 |-> state.levels[i + 1].kind]
DocKeyed == state.expecting = "ObjectValue"
DocDone == state.expecting = "DocumentEnd"
DocExpected == ~DocDone /\ (DocOpen # <<>> /\ Last(DocOpen) = "object" => DocKeyed)

\* The steps of JsonDocument, of the state of the writer.
LEMMA DocumentActions ==
    /\ \A kind : Document!Begin(kind) <=>
            /\ DocExpected
            /\ ~(DocOpen # <<>> /\ Last(DocOpen) = "compact")
            /\ DocOpen' = Append(DocOpen, kind)
            /\ DocKeyed' = FALSE
            /\ DocDone' = DocDone
    /\ Document!End <=>
            /\ DocOpen # <<>>
            /\ ~DocKeyed
            /\ DocOpen' = Front(DocOpen)
            /\ DocDone' = (Len(DocOpen) = 1)
            /\ DocKeyed' = DocKeyed
    /\ Document!Key <=>
            /\ DocOpen # <<>> /\ Last(DocOpen) = "object"
            /\ ~DocKeyed
            /\ DocKeyed' = TRUE
            /\ DocOpen' = DocOpen /\ DocDone' = DocDone
    /\ Document!Value <=>
            /\ DocExpected
            /\ DocKeyed' = FALSE
            /\ DocDone' = (DocOpen = <<>>)
            /\ DocOpen' = DocOpen
BY DEF Document!Begin, Document!End, Document!Key, Document!Value, Document!Inside, Document!ValueExpected,
       Document!Last, Document!Front, Last, Front, DocOpen, DocKeyed, DocDone, DocExpected

\* The writer implements JsonDocument: every call is one that the document allows,
\* a begun container, an ended one, a key or a value, or changes nothing of it
\* (JsonWriter::beginObject(), beginArray(), writeKey(), write(), ...).
THEOREM DocumentImplemented == Spec => ImplementsDocument
<1>1. ASSUME Init PROVE Document!Init
  <2>1. OpenOf(state.levels) = <<>> /\ state.expecting = "Value"
    BY <1>1, InitInv
  <2> QED BY <2>1 DEF Document!Init, OpenOf
<1>2. ASSUME RoundInv, [Next]_vars PROVE [Document!Next]_Document!vars
  <2>1. PICK s, t : s = state /\ t = state'
    OBVIOUS
  <2>2. PICK o, p : o = OpenOf(s.levels) /\ p = OpenOf(t.levels)
    OBVIOUS
  <2>3. DocumentStep(s, t)
    BY <1>2, <2>1, RoundStep
  <2>4. PICK k1, d1, k2, d2 : /\ k1 = (s.expecting = "ObjectValue") /\ d1 = (s.expecting = "DocumentEnd")
                              /\ k2 = (t.expecting = "ObjectValue") /\ d2 = (t.expecting = "DocumentEnd")
    OBVIOUS
  <2>5. DocOpen = o /\ DocKeyed = k1 /\ DocDone = d1
    BY <2>1, <2>2, <2>4 DEF OpenOf, DocOpen, DocKeyed, DocDone
  <2>6. DocOpen' = p /\ DocKeyed' = k2 /\ DocDone' = d2
    BY <2>1, <2>2, <2>4 DEF OpenOf, DocOpen, DocKeyed, DocDone
  <2>7. DocExpected <=> ~d1 /\ (o # <<>> /\ Last(o) = "object" => k1)
    BY <2>5, Zenon DEF DocExpected
  <2>8. CASE /\ DocExpected /\ ~(o # <<>> /\ Last(o) = "compact")
             /\ \E kind \in {"object", "array", "compact"} : p = Append(o, kind)
             /\ k2 = FALSE /\ d2 = d1
    <3>1. PICK kind \in {"object", "array", "compact"} : p = Append(o, kind)
      BY <2>8
    <3>2. Document!Begin(kind)
      BY <2>5, <2>6, <2>8, <3>1, DocumentActions, Zenon
    <3> QED BY <3>2 DEF Document!Next, Document!Kinds
  <2>9. CASE o # <<>> /\ ~k1 /\ p = Front(o) /\ d2 = (Len(o) = 1) /\ k2 = k1
    <3>1. Document!End
      BY <2>5, <2>6, <2>9, DocumentActions, Zenon
    <3> QED BY <3>1 DEF Document!Next
  <2>10. CASE o # <<>> /\ Last(o) = "object" /\ ~k1 /\ k2 = TRUE /\ p = o /\ d2 = d1
    <3>1. Document!Key
      BY <2>5, <2>6, <2>10, DocumentActions, Zenon
    <3> QED BY <3>1 DEF Document!Next
  <2>11. CASE DocExpected /\ k2 = FALSE /\ p = o /\ d2 = (o = <<>>)
    <3>1. Document!Value
      BY <2>5, <2>6, <2>11, DocumentActions, Zenon
    <3> QED BY <3>1 DEF Document!Next
  <2>12. CASE t = s
    BY <2>1, <2>12 DEF Document!vars
  <2> QED BY <2>2, <2>3, <2>4, <2>7, <2>8, <2>9, <2>10, <2>11, <2>12, Zenon DEF DocumentStep
<1>3. Spec => Document!Spec
  BY <1>1, <1>2, RoundInvariant, PTL DEF Spec, Document!Spec
<1> QED BY <1>3 DEF ImplementsDocument
=============================================================================
