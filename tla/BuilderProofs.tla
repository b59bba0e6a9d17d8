---------------------------- MODULE BuilderProofs ----------------------------
(***************************************************************************)
(* What a Builder writes for a caller that keeps its contract is read by   *)
(* the automaton of Pushdown, whatever the caller writes, however deep and *)
(* however long: between two calls the automaton has open what the caller  *)
(* opened, and it is past a value exactly when needSep says so.            *)
(*                                                                         *)
(* The automaton and the grammar of JsonText agree on every text: what it  *)
(* reads to its end is a value of the grammar (ReadIsValue), every value   *)
(* is read (ValueIsRead), and where it is stuck no value goes on           *)
(* (StuckIsNotViable).  The arguments by induction are stated as least     *)
(* counterexamples, on the length of a text or on the level of a value.    *)
(***************************************************************************)
EXTENDS MCBuilder, SequenceTheorems, WellFoundedInduction, TLAPS

-----------------------------------------------------------------------------
(* The automaton, as a relation between what it holds before a token and   *)
(* after it.                                                               *)

First     == [object |-> "objectFirst", array |-> "arrayFirst"]
AfterItem == [object |-> "objectAfter", array |-> "arrayAfter"]

Around(stack) == IF stack = << >> THEN "done" ELSE AfterItem[stack[Len(stack)]]

ValueStates == {"value", "arrayFirst", "arrayValue", "memberValue"}

States == ValueStates \union {"objectFirst", "name", "colon", "objectAfter", "arrayAfter", "done"}

Configs == States \X Seq(Kinds)

Outer(stack) == SubSeq(stack, 1, Len(stack) - 1)

\* The automaton takes token in p and is then in q.
Takes(p, token, q) ==
    \/ /\ token \in {"scalar", "string"} /\ p[1] \in ValueStates
       /\ q = <<Around(p[2]), p[2]>>
    \/ /\ token = "string" /\ p[1] \in {"objectFirst", "name"}
       /\ q = <<"colon", p[2]>>
    \/ /\ token = "colon" /\ p[1] = "colon"
       /\ q = <<"memberValue", p[2]>>
    \/ /\ token = "comma" /\ p[1] = "arrayAfter"
       /\ q = <<"arrayValue", p[2]>>
    \/ /\ token = "comma" /\ p[1] = "objectAfter"
       /\ q = <<"name", p[2]>>
    \/ \E kind \in Kinds : /\ token = Opener[kind] /\ p[1] \in ValueStates
                           /\ q = <<First[kind], Append(p[2], kind)>>
    \/ \E kind \in Kinds : /\ token = Closer[kind]
                           /\ p[2] # << >> /\ p[2][Len(p[2])] = kind
                           /\ p[1] \in {First[kind], AfterItem[kind]}
                           /\ q = <<Around(Outer(p[2])), Outer(p[2])>>

\* It reads the whole of text from p on, within the set C, and is then in q.
ReadsIn(C, p, text, q) ==
    \E run \in Seq(C) :
        /\ Len(run) = Len(text) + 1
        /\ run[1] = p /\ run[Len(text) + 1] = q
        /\ \A k \in 1 .. Len(text) : Takes(run[k], text[k], run[k + 1])

Reads(p, text, q) == ReadsIn(Configs, p, text, q)

\* With at most m containers open.
Nested(m) == {c \in Configs : Len(c[2]) <= m}

Start == <<"value", << >> >>
Done  == <<"done", << >> >>

\* What may follow the text, as the caller's state and needSep tell it.
Follows ==
    IF open = << >> THEN IF buf = << >> THEN "value" ELSE "done"
    ELSE LET kind == open[Len(open)]
         IN  IF owed
             THEN IF kind = "object" THEN "memberValue"
                  ELSE IF buf[Len(buf)] = "openArray" THEN "arrayFirst" ELSE "arrayValue"
             ELSE IF needSep THEN AfterItem[kind] ELSE First[kind]

Now == <<Follows, open>>

\* The automaton has read the text and is where the caller and needSep are.
WellFormed == Reads(Start, buf, Now)

\* With nothing open the automaton has nothing left to read either.
OneValue == buf # << >> /\ open = << >> => Reads(Start, buf, <<"done", << >> >>)

\* A value is owed to a container only, and nothing is open before something is written.
IInv == /\ TypeOK
        /\ owed => needSep /\ open # << >>
        /\ open # << >> => buf # << >>
        /\ WellFormed

-----------------------------------------------------------------------------
(* Reading one text after another.                                         *)

\* A text of no tokens leaves the automaton where it is.
LEMMA ReadsNothing == ASSUME NEW C, NEW p \in C PROVE ReadsIn(C, p, << >>, p)
<1>1. /\ <<p>> \in Seq(C) /\ Len(<<p>>) = Len(<< >>) + 1
      /\ <<p>>[1] = p /\ <<p>>[Len(<< >>) + 1] = p
    OBVIOUS
<1>2. \A k \in 1 .. Len(<< >>) : FALSE
    OBVIOUS
<1> QED BY <1>1, <1>2 DEF ReadsIn

\* A text of one token is taken in one step.
LEMMA ReadsOne ==
    ASSUME NEW C, NEW p \in C, NEW q \in C, NEW token, Takes(p, token, q)
    PROVE  ReadsIn(C, p, <<token>>, q)
<1> DEFINE run == <<p, q>>
<1>1. /\ run \in Seq(C) /\ Len(run) = Len(<<token>>) + 1
      /\ run[1] = p /\ run[Len(<<token>>) + 1] = q
    OBVIOUS
<1>2. ASSUME NEW k \in 1 .. Len(<<token>>) PROVE Takes(run[k], <<token>>[k], run[k + 1])
    <2>1. k = 1 /\ run[k] = p /\ <<token>>[k] = token /\ run[k + 1] = q
        OBVIOUS
    <2> HIDE DEF run
    <2> QED BY <2>1
<1> HIDE DEF run
<1> QED BY <1>1, <1>2 DEF ReadsIn

\* What was read and what is read on make one reading.
LEMMA ReadsOn ==
    ASSUME NEW C, NEW p, NEW q, NEW r, NEW S, NEW x \in Seq(S), NEW y \in Seq(S),
           ReadsIn(C, p, x, q), ReadsIn(C, q, y, r)
    PROVE  ReadsIn(C, p, x \o y, r)
<1>1. PICK a \in Seq(C) :
        /\ Len(a) = Len(x) + 1 /\ a[1] = p /\ a[Len(x) + 1] = q
        /\ \A k \in 1 .. Len(x) : Takes(a[k], x[k], a[k + 1])
    BY DEF ReadsIn
<1>2. PICK b \in Seq(C) :
        /\ Len(b) = Len(y) + 1 /\ b[1] = q /\ b[Len(y) + 1] = r
        /\ \A k \in 1 .. Len(y) : Takes(b[k], y[k], b[k + 1])
    BY DEF ReadsIn
<1> DEFINE run == [k \in 1 .. Len(x) + Len(y) + 1 |-> IF k <= Len(x) THEN a[k] ELSE b[k - Len(x)]]
<1>3. Len(x) \in Nat /\ Len(y) \in Nat /\ Len(x \o y) = Len(x) + Len(y)
    BY LenProperties, ConcatProperties
<1>4. \A k \in 1 .. Len(x) + Len(y) + 1 : run[k] \in C
    BY <1>1, <1>2, <1>3, ElementOfSeq
<1>5. run \in Seq(C) /\ Len(run) = Len(x \o y) + 1
    BY <1>3, <1>4
<1>6. run[1] = p /\ run[Len(x \o y) + 1] = r
    BY <1>1, <1>2, <1>3
<1>7. \A k \in 1 .. Len(x) : run[k] = a[k] /\ run[k + 1] = a[k + 1] /\ (x \o y)[k] = x[k]
    BY <1>1, <1>2, <1>3, ConcatProperties
<1>8. \A k \in Len(x) + 1 .. Len(x) + Len(y) :
        /\ k - Len(x) \in 1 .. Len(y)
        /\ run[k] = b[k - Len(x)] /\ run[k + 1] = b[k - Len(x) + 1] /\ (x \o y)[k] = y[k - Len(x)]
    BY <1>1, <1>2, <1>3, ConcatProperties
<1> HIDE DEF run
<1>9. ASSUME NEW k \in 1 .. Len(x \o y) PROVE Takes(run[k], (x \o y)[k], run[k + 1])
    <2>1. CASE k \in 1 .. Len(x)
        BY <2>1, <1>1, <1>7
    <2>2. CASE k \in Len(x) + 1 .. Len(x) + Len(y)
        BY <2>2, <1>2, <1>8
    <2> QED BY <1>3, <2>1, <2>2
<1> QED BY <1>5, <1>6, <1>9 DEF ReadsIn

\* Where the automaton is now, it came by the last token.
LEMMA LastTaken ==
    ASSUME NEW S, NEW p, NEW q, NEW x \in Seq(S), x # << >>, Reads(p, x, q)
    PROVE  \E o \in Configs : Takes(o, x[Len(x)], q)
<1>1. PICK a \in Seq(Configs) :
        /\ Len(a) = Len(x) + 1 /\ a[1] = p /\ a[Len(x) + 1] = q
        /\ \A k \in 1 .. Len(x) : Takes(a[k], x[k], a[k + 1])
    BY DEF Reads, ReadsIn
<1>2. Len(x) \in Nat /\ Len(x) \in 1 .. Len(x) /\ Len(x) \in 1 .. Len(a)
    BY <1>1, EmptySeq, LenProperties
<1>3. a[Len(x)] \in Configs
    BY <1>2, ElementOfSeq
<1> QED BY <1>1, <1>2, <1>3

-----------------------------------------------------------------------------
(* What the writers append.                                                *)

\* The tokens of the two kinds and the states of the automaton within each.
LEMMA Grammar ==
    /\ Kinds = {"object", "array"}
    /\ Opener["object"] = "openObject" /\ Opener["array"] = "openArray"
    /\ Closer["object"] = "closeObject" /\ Closer["array"] = "closeArray"
    /\ First["object"] = "objectFirst" /\ First["array"] = "arrayFirst"
    /\ AfterItem["object"] = "objectAfter" /\ AfterItem["array"] = "arrayAfter"
BY DEF Kinds, Opener, Closer, First, AfterItem

\* What follows a value is a state of the automaton.
LEMMA AroundIsState ==
    ASSUME NEW stack \in Seq(Kinds)
    PROVE  /\ Around(stack) \in States
           /\ stack # << >> => /\ stack[Len(stack)] \in Kinds
                               /\ Around(stack) = AfterItem[stack[Len(stack)]]
           /\ stack = << >> => Around(stack) = "done"
<1>1. CASE stack = << >>
    BY <1>1 DEF Around, States
<1>2. CASE stack # << >>
    <2>1. Len(stack) \in 1 .. Len(stack)
        BY <1>2, EmptySeq, LenProperties
    <2>2. stack[Len(stack)] \in Kinds
        BY <2>1, ElementOfSeq
    <2> QED BY <1>2, <2>2, Grammar DEF Around, States
<1> QED BY <1>1, <1>2

\* The two ways to write a key write the same, the comma that is due included.
LEMMA KeysAgree ==
    ASSUME NEW key \in FieldKeys
    PROVE  key = Comma \o KeyTokens
<1>1. CASE needSep
    BY <1>1 DEF FieldKeys, Comma, Precomputed, Prefix, KeyTokens
<1>2. CASE ~needSep
    <2> DEFINE cut == SubSeq(Prefix, 2, Len(Prefix))
    <2>1. /\ Prefix \in Seq(Tokens) /\ Len(Prefix) = 3
          /\ Prefix[2] = "string" /\ Prefix[3] = "colon"
        BY DEF Prefix, KeyTokens, Tokens
    <2>2. cut = <<"string", "colon">>
        <3>1. cut \in Seq(Tokens) /\ Len(cut) = 2 /\ cut[1] = "string" /\ cut[2] = "colon"
            BY <2>1
        <3> HIDE DEF cut
        <3> QED BY <3>1
    <2>3. Comma \o KeyTokens = <<"string", "colon">>
        BY <1>2 DEF Comma, KeyTokens
    <2> QED BY <1>2, <2>2, <2>3 DEF FieldKeys, Precomputed
<1> QED BY <1>1, <1>2

\* A list of strings in an array is read up to past its last.
LEMMA ReadsStrings ==
    ASSUME NEW p \in Configs, NEW n \in Nat, n # 0,
           p[1] \in {"arrayFirst", "arrayValue"}, p[2] # << >>, p[2][Len(p[2])] = "array"
    PROVE  /\ Listed(<<"scalar">>, n) \in Seq(Tokens)
           /\ Reads(p, Listed(<<"scalar">>, n), <<"arrayAfter", p[2]>>)
<1> DEFINE text == Listed(<<"scalar">>, n)
           run == [k \in 1 .. 2 * n |-> IF k = 1 THEN p
                                        ELSE IF k % 2 = 0 THEN <<"arrayAfter", p[2]>>
                                        ELSE <<"arrayValue", p[2]>>]
<1>1. /\ Len(<<"scalar">>) + 1 = 2
      /\ (<<"scalar">> \o <<"comma">>)[1] = "scalar" /\ (<<"scalar">> \o <<"comma">>)[2] = "comma"
    OBVIOUS
<1>2. text = [k \in 1 .. 2 * n - 1 |-> (<<"scalar">> \o <<"comma">>)[((k - 1) % 2) + 1]]
    BY <1>1 DEF Listed
<1>3. \A k \in 1 .. 2 * n - 1 :
        /\ text[k] = IF k % 2 = 0 THEN "comma" ELSE "scalar"
        /\ (k + 1) % 2 = 0 <=> k % 2 # 0
    <2>1. \A k \in 1 .. 2 * n - 1 :
            /\ k % 2 = 0 => (k - 1) % 2 = 1
            /\ k % 2 # 0 => (k - 1) % 2 = 0
            /\ (k + 1) % 2 = 0 <=> k % 2 # 0
        OBVIOUS
    <2> QED BY <1>1, <1>2, <2>1
<1>4. text \in Seq(Tokens) /\ Len(text) = 2 * n - 1
    <2>1. \A k \in 1 .. 2 * n - 1 : text[k] \in Tokens
        BY <1>3 DEF Tokens
    <2> QED BY <1>2, <2>1
<1>5. run \in Seq(Configs) /\ Len(run) = Len(text) + 1
    <2>1. \A k \in 1 .. 2 * n : run[k] \in Configs
        BY DEF Configs, States, ValueStates
    <2>2. run \in [1 .. 2 * n -> Configs]
        BY <2>1
    <2>3. PICK m \in Nat : m = 2 * n /\ Len(text) + 1 = m
        BY <1>4
    <2> HIDE DEF run, text
    <2>4. run \in [1 .. m -> Configs]
        BY <2>2, <2>3
    <2> QED BY <2>3, <2>4
<1>6. run[1] = p /\ run[Len(text) + 1] = <<"arrayAfter", p[2]>>
    <2>1. (2 * n) % 2 = 0 /\ 2 * n # 1
        OBVIOUS
    <2> QED BY <1>4, <2>1
<1>7. ASSUME NEW k \in 1 .. Len(text) PROVE Takes(run[k], text[k], run[k + 1])
    <2>1. k \in 1 .. 2 * n - 1 /\ k \in 1 .. 2 * n /\ k + 1 \in 1 .. 2 * n /\ k + 1 # 1
        BY <1>4
    <2>2. CASE k % 2 = 0
        <3>1. /\ text[k] = "comma" /\ k # 1 /\ run[k] = <<"arrayAfter", p[2]>>
              /\ run[k + 1] = <<"arrayValue", p[2]>>
            BY <1>3, <2>1, <2>2
        <3> HIDE DEF text, run
        <3> QED BY <3>1 DEF Takes
    <2>3. CASE k % 2 # 0
        <3>1. /\ text[k] = "scalar" /\ run[k][1] \in {"arrayFirst", "arrayValue"} /\ run[k][2] = p[2]
              /\ run[k + 1] = <<"arrayAfter", p[2]>>
            BY <1>3, <2>1, <2>3
        <3>2. Around(p[2]) = "arrayAfter"
            BY Grammar DEF Around
        <3> HIDE DEF text, run
        <3> QED BY <3>1, <3>2 DEF Takes, ValueStates
    <2> QED BY <2>2, <2>3
<1> HIDE DEF text, run
<1>8. Reads(p, text, <<"arrayAfter", p[2]>>)
    BY <1>5, <1>6, <1>7 DEF Reads, ReadsIn
<1> QED BY <1>4, <1>8 DEF text

\* So are the members of an object that AddRawMembers copies.
LEMMA ReadsMembers ==
    ASSUME NEW p \in Configs, NEW n \in Nat, n # 0,
           p[1] \in {"objectFirst", "name"}, p[2] # << >>, p[2][Len(p[2])] = "object"
    PROVE  /\ Members(n) \in Seq(Tokens)
           /\ Reads(p, Members(n), <<"objectAfter", p[2]>>)
<1> DEFINE text == Members(n)
           state(k) == IF k % 4 = 1 THEN "name" ELSE IF k % 4 = 2 THEN "colon"
                       ELSE IF k % 4 = 3 THEN "memberValue" ELSE "objectAfter"
           run == [k \in 1 .. 4 * n |-> IF k = 1 THEN p ELSE <<state(k), p[2]>>]
           item == <<"string", "colon", "scalar">>
           items == item \o <<"comma">>
<1>1. /\ Len(item) + 1 = 4
      /\ items[1] = "string" /\ items[2] = "colon" /\ items[3] = "scalar" /\ items[4] = "comma"
    OBVIOUS
<1>2. text = [k \in 1 .. 4 * n - 1 |-> items[((k - 1) % 4) + 1]]
    BY <1>1 DEF Listed, Members
<1>3. \A k \in 1 .. 4 * n - 1 :
        \/ k % 4 = 1 /\ text[k] = "string" /\ (k + 1) % 4 = 2
        \/ k % 4 = 2 /\ text[k] = "colon"  /\ (k + 1) % 4 = 3
        \/ k % 4 = 3 /\ text[k] = "scalar" /\ (k + 1) % 4 = 0
        \/ k % 4 = 0 /\ text[k] = "comma"  /\ (k + 1) % 4 = 1
    <2>1. \A k \in 1 .. 4 * n - 1 :
            \/ k % 4 = 1 /\ ((k - 1) % 4) + 1 = 1 /\ (k + 1) % 4 = 2
            \/ k % 4 = 2 /\ ((k - 1) % 4) + 1 = 2 /\ (k + 1) % 4 = 3
            \/ k % 4 = 3 /\ ((k - 1) % 4) + 1 = 3 /\ (k + 1) % 4 = 0
            \/ k % 4 = 0 /\ ((k - 1) % 4) + 1 = 4 /\ (k + 1) % 4 = 1
        OBVIOUS
    <2> HIDE DEF items
    <2> QED BY <1>1, <1>2, <2>1
<1>4. text \in Seq(Tokens) /\ Len(text) = 4 * n - 1
    <2>1. \A k \in 1 .. 4 * n - 1 : text[k] \in Tokens
        BY <1>3 DEF Tokens
    <2>2. text \in [1 .. 4 * n - 1 -> Tokens]
        <3> HIDE DEF items
        <3> QED BY <1>2, <2>1
    <2>3. PICK m \in Nat : m = 4 * n - 1
        OBVIOUS
    <2> HIDE DEF text
    <2>4. text \in [1 .. m -> Tokens]
        BY <2>2, <2>3
    <2> QED BY <2>3, <2>4
<1> HIDE DEF text
<1>5. run \in Seq(Configs) /\ Len(run) = Len(text) + 1
    <2>1. \A k \in 1 .. 4 * n : run[k] \in Configs
        BY DEF Configs, States, ValueStates
    <2>2. run \in [1 .. 4 * n -> Configs]
        BY <2>1
    <2>3. PICK m \in Nat : m = 4 * n /\ Len(text) + 1 = m
        BY <1>4
    <2> HIDE DEF run
    <2>4. run \in [1 .. m -> Configs]
        BY <2>2, <2>3
    <2> QED BY <2>3, <2>4
<1>6. run[1] = p /\ run[Len(text) + 1] = <<"objectAfter", p[2]>>
    <2>1. (4 * n) % 4 = 0 /\ 4 * n # 1 /\ 4 * n \in 1 .. 4 * n /\ 1 \in 1 .. 4 * n
        OBVIOUS
    <2> QED BY <1>4, <2>1
<1>7. ASSUME NEW k \in 1 .. Len(text) PROVE Takes(run[k], text[k], run[k + 1])
    <2>1. k \in 1 .. 4 * n - 1 /\ k \in 1 .. 4 * n /\ k + 1 \in 1 .. 4 * n /\ k + 1 # 1
        BY <1>4
    <2>2. run[k + 1] = <<state(k + 1), p[2]>>
        BY <2>1
    <2>3. PICK here : here = state(k)
        OBVIOUS
    <2>4. /\ k # 1 => run[k] = <<here, p[2]>>
          /\ k = 1 => run[k] = p /\ k % 4 = 1
        BY <2>1, <2>3
    <2>5. Around(p[2]) = "objectAfter"
        BY Grammar DEF Around
    <2> HIDE DEF run
    <2>6. /\ run[k][2] = p[2]
          /\ \/ run[k][1] = here
             \/ k % 4 = 1 /\ run[k][1] \in {"objectFirst", "name"}
        BY <2>4
    <2>7. CASE k % 4 = 1 /\ text[k] = "string" /\ (k + 1) % 4 = 2
        BY <2>2, <2>3, <2>6, <2>7 DEF Takes
    <2>8. CASE k % 4 = 2 /\ text[k] = "colon"  /\ (k + 1) % 4 = 3
        BY <2>2, <2>3, <2>6, <2>8 DEF Takes
    <2>9. CASE k % 4 = 3 /\ text[k] = "scalar" /\ (k + 1) % 4 = 0
        BY <2>2, <2>3, <2>5, <2>6, <2>9 DEF Takes, ValueStates
    <2>10. CASE k % 4 = 0 /\ text[k] = "comma"  /\ (k + 1) % 4 = 1
        BY <2>2, <2>3, <2>6, <2>10 DEF Takes
    <2> QED BY <1>3, <2>1, <2>7, <2>8, <2>9, <2>10
<1> HIDE DEF run
<1>8. Reads(p, text, <<"objectAfter", p[2]>>)
    BY <1>5, <1>6, <1>7 DEF Reads, ReadsIn
<1> QED BY <1>4, <1>8 DEF text

\* A value is read wherever one may stand, up to past it.
LEMMA ReadsValue ==
    ASSUME NEW p \in Configs, p[1] \in ValueStates, NEW value \in Written
    PROVE  /\ value \in Seq(Tokens) /\ value # << >>
           /\ Reads(p, value, <<Around(p[2]), p[2]>>)
<1> DEFINE q == <<Around(p[2]), p[2]>>
<1>1. p[2] \in Seq(Kinds) /\ q \in Configs
    BY AroundIsState DEF Configs
<1>2. CASE value = <<"scalar">>
    <2>1. Takes(p, "scalar", q)
        BY DEF Takes
    <2>2. <<"scalar">> \in Seq(Tokens) /\ <<"scalar">> # << >>
        BY DEF Tokens
    <2> HIDE DEF q
    <2> QED BY <1>1, <1>2, <2>1, <2>2, ReadsOne DEF Reads, q
<1>3. ASSUME NEW n \in Lengths, value = StringArray(n) PROVE value \in Seq(Tokens) /\ value # << >> /\ Reads(p, value, q)
    <2> DEFINE stack == Append(p[2], "array")
               first == <<"arrayFirst", stack>>
               after == <<"arrayAfter", stack>>
               texts == Listed(<<"scalar">>, n)
    <2>1. n \in Nat
        BY LengthsAssumption
    <2>2. /\ stack \in Seq(Kinds) /\ stack # << >> /\ stack[Len(stack)] = "array"
          /\ Outer(stack) = p[2]
          /\ first \in Configs /\ after \in Configs
        <3>1. stack \in Seq(Kinds) /\ stack # << >> /\ stack[Len(stack)] = "array"
            BY <1>1 DEF Kinds
        <3>2. Outer(stack) = p[2]
            BY <1>1 DEF Outer
        <3> QED BY <3>1, <3>2 DEF Configs, States, ValueStates
    <2>3. Takes(p, "openArray", first)
        BY Grammar DEF Takes
    <2>4. Takes(first, "closeArray", q) /\ Takes(after, "closeArray", q)
        BY <2>2, Grammar DEF Takes
    <2> HIDE DEF stack, first, after, q
    <2>5. Reads(p, <<"openArray">>, first)
        BY <2>2, <2>3, ReadsOne DEF Reads
    <2>6. Reads(first, <<"closeArray">>, q) /\ Reads(after, <<"closeArray">>, q)
        BY <1>1, <2>2, <2>4, ReadsOne DEF Reads
    <2>7. /\ <<"openArray">> \in Seq(Tokens) /\ <<"closeArray">> \in Seq(Tokens)
        BY DEF Tokens
    <2>8. value = (<<"openArray">> \o texts) \o <<"closeArray">>
        BY <1>3 DEF StringArray
    <2>9. texts \in Seq(Tokens) /\ \E r \in {first, after} : Reads(first, texts, r)
        <3>1. CASE n = 0
            <4>1. texts = << >>
                BY <3>1 DEF Listed
            <4> QED BY <2>2, <4>1, ReadsNothing DEF Reads
        <3>2. CASE n # 0
            <4>1. first[1] \in {"arrayFirst", "arrayValue"} /\ first[2] = stack /\ after = <<"arrayAfter", first[2]>>
                BY DEF first, after
            <4> HIDE DEF texts
            <4> QED BY <2>1, <2>2, <3>2, <4>1, ReadsStrings DEF texts
        <3> QED BY <3>1, <3>2
    <2> HIDE DEF texts
    <2>10. PICK r \in {first, after} : Reads(first, texts, r)
        BY <2>9
    <2>11. <<"openArray">> \o texts \in Seq(Tokens) /\ Reads(p, <<"openArray">> \o texts, r)
        BY <2>5, <2>7, <2>9, <2>10, ReadsOn, ConcatProperties DEF Reads
    <2>12. Reads(r, <<"closeArray">>, q)
        BY <2>6
    <2>13. Reads(p, value, q) /\ value \in Seq(Tokens)
        BY <2>7, <2>8, <2>11, <2>12, ReadsOn, ConcatProperties DEF Reads
    <2>14. Len(value) # 0
        <3>1. Len(value) = Len(<<"openArray">> \o texts) + 1 /\ Len(<<"openArray">> \o texts) \in Nat
            BY <2>7, <2>8, <2>11, ConcatProperties, LenProperties
        <3> QED BY <3>1
    <2> QED BY <2>13, <2>14
<1> QED BY <1>2, <1>3 DEF Written

\* After a key of an object its value comes.
LEMMA ReadsKey ==
    ASSUME TypeOK, Within("object"), NEW key \in FieldKeys
    PROVE  /\ key \in Seq(Tokens) /\ key # << >> /\ open \in Seq(Kinds) /\ open[Len(open)] = "object"
           /\ Now \in Configs /\ <<"memberValue", open>> \in Configs
           /\ Reads(Now, key, <<"memberValue", open>>)
<1> DEFINE colon == <<"colon", open>>
           name  == <<"name", open>>
           value == <<"memberValue", open>>
<1>1. /\ open \in Seq(Kinds) /\ open[Len(open)] = "object" /\ open # << >> /\ ~owed
      /\ needSep \in BOOLEAN
    BY DEF TypeOK, Within
<1>2. /\ Now = <<IF needSep THEN "objectAfter" ELSE "objectFirst", open>>
      /\ Now \in Configs /\ colon \in Configs /\ name \in Configs /\ value \in Configs
    BY <1>1, Grammar DEF Now, Follows, Configs, States, ValueStates
<1>3. /\ Takes(<<"objectFirst", open>>, "string", colon) /\ Takes(<<"objectAfter", open>>, "comma", name)
      /\ Takes(name, "string", colon) /\ Takes(colon, "colon", value)
    BY DEF Takes
<1>4. <<"comma">> \in Seq(Tokens) /\ <<"string">> \in Seq(Tokens) /\ <<"colon">> \in Seq(Tokens)
    BY DEF Tokens
<1> HIDE DEF colon, name, value
<1>5. /\ Reads(name, <<"string">>, colon) /\ Reads(colon, <<"colon">>, value)
    BY <1>2, <1>3, ReadsOne DEF Reads
<1>6. /\ KeyTokens = <<"string">> \o <<"colon">> /\ KeyTokens \in Seq(Tokens)
      /\ KeyTokens # << >>
    BY DEF KeyTokens, Tokens
<1>7. Reads(name, KeyTokens, value)
    BY <1>4, <1>5, <1>6, ReadsOn DEF Reads
<1>8. CASE needSep
    <2>1. Now = <<"objectAfter", open>>
        BY <1>2, <1>8
    <2>2. Reads(Now, <<"comma">>, name)
        BY <1>2, <1>3, <2>1, ReadsOne DEF Reads
    <2>3. key = <<"comma">> \o KeyTokens
        BY <1>8, KeysAgree DEF Comma
    <2>4. Reads(Now, key, value) /\ key \in Seq(Tokens)
        BY <1>4, <1>6, <1>7, <2>2, <2>3, ReadsOn, ConcatProperties DEF Reads
    <2>5. key # << >>
        BY <1>6, <2>3
    <2> QED BY <1>1, <1>2, <2>4, <2>5 DEF value
<1>9. CASE ~needSep
    <2>1. Now = <<"objectFirst", open>>
        BY <1>2, <1>9
    <2>2. Reads(Now, <<"string">>, colon)
        BY <1>2, <1>3, <2>1, ReadsOne DEF Reads
    <2>3. key = KeyTokens
        BY <1>9, <1>6, KeysAgree DEF Comma, KeyTokens
    <2>4. Reads(Now, key, value) /\ key \in Seq(Tokens)
        BY <1>4, <1>5, <1>6, <2>2, <2>3, ReadsOn, ConcatProperties DEF Reads
    <2> QED BY <1>1, <1>2, <1>6, <2>3, <2>4 DEF value
<1> QED BY <1>1, <1>8, <1>9

\* Before an element the comma that is due, after which a value comes.
LEMMA ReadsComma ==
    ASSUME TypeOK, Within("array")
    PROVE  /\ Comma \in Seq(Tokens) /\ open \in Seq(Kinds) /\ open[Len(open)] = "array"
           /\ Now \in Configs
           /\ \E p \in Configs : /\ p = <<IF needSep THEN "arrayValue" ELSE "arrayFirst", open>>
                                 /\ Reads(Now, Comma, p)
<1>1. /\ open \in Seq(Kinds) /\ open[Len(open)] = "array" /\ open # << >> /\ ~owed
      /\ needSep \in BOOLEAN
    BY DEF TypeOK, Within
<1>2. /\ Now = <<IF needSep THEN "arrayAfter" ELSE "arrayFirst", open>>
      /\ Now \in Configs /\ <<"arrayValue", open>> \in Configs /\ <<"arrayFirst", open>> \in Configs
    BY <1>1, Grammar DEF Now, Follows, Configs, States, ValueStates
<1>3. CASE needSep
    <2>1. Takes(Now, "comma", <<"arrayValue", open>>)
        BY <1>2, <1>3 DEF Takes
    <2>2. Comma = <<"comma">> /\ <<"comma">> \in Seq(Tokens)
        BY <1>3 DEF Comma, Tokens
    <2> QED BY <1>1, <1>2, <1>3, <2>1, <2>2, ReadsOne DEF Reads
<1>4. CASE ~needSep
    <2>1. Comma = << >> /\ << >> \in Seq(Tokens)
        BY <1>4 DEF Comma
    <2> QED BY <1>1, <1>2, <1>4, <2>1, ReadsNothing DEF Reads
<1> QED BY <1>3, <1>4

-----------------------------------------------------------------------------
(* The bit follows from the reading.                                       *)

\* The last token tells what the automaton is past.
LEMMA Due == IInv => CommaWhenDue
<1> SUFFICES ASSUME IInv PROVE CommaWhenDue
    OBVIOUS
<1>1. buf \in Seq(Tokens) /\ needSep \in BOOLEAN /\ open \in Seq(Kinds) /\ owed \in BOOLEAN
    BY DEF IInv, TypeOK
<1>2. ASSUME open # << >>, ~owed
      PROVE  needSep <=> buf[Len(buf)] \notin {"openObject", "openArray"}
    <2>1. buf # << >>
        BY <1>2 DEF IInv
    <2>2. PICK o \in Configs : Takes(o, buf[Len(buf)], Now)
        BY <1>1, <2>1, LastTaken DEF IInv, WellFormed
    <2>3. PICK kind \in Kinds : kind = open[Len(open)] /\ open # << >>
        BY <1>1, <1>2, AroundIsState
    <2>4. Now[1] = IF needSep THEN AfterItem[kind] ELSE First[kind]
        BY <1>2, <2>3 DEF Now, Follows
    <2>5. CASE buf[Len(buf)] \in {"openObject", "openArray"}
        <3>1. Now[1] \in {"objectFirst", "arrayFirst"}
            BY <2>2, <2>5, Grammar DEF Takes
        <3> QED BY <1>1, <2>3, <2>4, <2>5, <3>1, Grammar
    <2>6. CASE buf[Len(buf)] \notin {"openObject", "openArray"}
        <3>1. \A stack \in Seq(Kinds) : Around(stack) \notin {"objectFirst", "arrayFirst"}
            BY AroundIsState, Grammar
        <3>2. o[2] \in Seq(Kinds) /\ (o[2] # << >> => Outer(o[2]) \in Seq(Kinds))
            <4>1. o[2] \in Seq(Kinds)
                BY DEF Configs
            <4>2. o[2] # << >> => Outer(o[2]) \in Seq(Kinds)
                BY <4>1 DEF Outer
            <4> QED BY <4>1, <4>2
        <3>3. Now[1] \notin {"objectFirst", "arrayFirst"}
            BY <2>2, <2>6, <3>1, <3>2, Grammar DEF Takes
        <3> QED BY <1>1, <2>3, <2>4, <2>6, <3>3, Grammar
    <2> QED BY <2>5, <2>6
<1> QED BY <1>2 DEF CommaWhenDue, IInv

\* The kind of a container without an item shows in the last token.
LEMMA OpenerIsLast ==
    ASSUME IInv, Within("array")
    PROVE  /\ buf # << >>
           /\ needSep = FALSE => buf[Len(buf)] = "openArray"
<1>1. buf \in Seq(Tokens) /\ needSep \in BOOLEAN /\ buf # << >>
    BY DEF IInv, TypeOK, Within
<1>2. ASSUME needSep = FALSE PROVE buf[Len(buf)] = "openArray"
    <2>1. Now[1] = "arrayFirst"
        BY <1>2, Grammar DEF Now, Follows, Within
    <2>2. PICK o \in Configs : Takes(o, buf[Len(buf)], Now)
        BY <1>1, LastTaken DEF IInv, WellFormed
    <2>3. buf[Len(buf)] \in {"openObject", "openArray"}
        BY <1>2, Due DEF CommaWhenDue, Within
    <2> QED BY <2>1, <2>2, <2>3, Grammar DEF Takes
<1> QED BY <1>1, <1>2

-----------------------------------------------------------------------------
(* The invariant is inductive.                                             *)

LEMMA Initial == Init => IInv
<1> SUFFICES ASSUME Init PROVE IInv
    OBVIOUS
<1>1. open = << >> /\ buf = << >> /\ owed = FALSE /\ needSep = FALSE
    BY DEF Init
<1>2. << >> \in Seq(Tokens) /\ << >> \in Seq(Kinds)
    OBVIOUS
<1>3. TypeOK
    BY <1>1, <1>2 DEF TypeOK
<1>4. Now = Start
    BY <1>1 DEF Now, Follows, Start
<1>5. Start \in Configs
    BY <1>2 DEF Start, Configs, States, ValueStates
<1>6. Reads(Start, << >>, Start)
    BY <1>5, ReadsNothing DEF Reads
<1> QED BY <1>1, <1>3, <1>4, <1>6 DEF IInv, WellFormed

\* A call that appends what the automaton reads, from where it was to where it is then.
LEMMA Appending ==
    ASSUME IInv, NEW text \in Seq(Tokens), buf' = buf \o text,
           Reads(Now, text, Now'),
           needSep' \in BOOLEAN, open' \in Seq(Kinds), owed' \in BOOLEAN,
           owed' => needSep' /\ open' # << >>,
           open' # << >> => buf' # << >>
    PROVE  IInv'
<1>1. buf \in Seq(Tokens) /\ Reads(Start, buf, Now)
    BY DEF IInv, TypeOK, WellFormed
<1>2. buf' \in Seq(Tokens)
    BY <1>1, ConcatProperties
<1>3. Reads(Start, buf', Now')
    BY <1>1, ReadsOn DEF Reads
<1> QED BY <1>2, <1>3 DEF IInv, TypeOK, WellFormed

\* Three texts join either way, and are not empty if the last is not.
LEMMA JoinedTwice ==
    ASSUME NEW x \in Seq(Tokens), NEW y \in Seq(Tokens), NEW z \in Seq(Tokens)
    PROVE  /\ (x \o y) \o z = x \o (y \o z) /\ y \o z \in Seq(Tokens)
           /\ x \o z \in Seq(Tokens)
           /\ z # << >> => x \o z # << >>
OBVIOUS

\* A text that is no container's opener leaves the stack: where the automaton is after it.
LEMMA PastItem ==
    ASSUME IInv, UNCHANGED open, open # << >>, needSep' = TRUE, owed' = FALSE
    PROVE  Now' = <<AfterItem[open[Len(open)]], open>>
BY DEF Now, Follows

\* The automaton after an opener.
LEMMA PastOpener ==
    ASSUME NEW kind \in Kinds, open \in Seq(Kinds), open' = Append(open, kind),
           needSep' = FALSE, owed' = FALSE
    PROVE  /\ Now' = <<First[kind], Append(open, kind)>>
           /\ Now' \in Configs /\ open' \in Seq(Kinds) /\ open' # << >>
<1>1. open' \in Seq(Kinds) /\ open' # << >> /\ open'[Len(open')] = kind
    OBVIOUS
<1>2. Now' = <<First[kind], open'>>
    BY <1>1 DEF Now, Follows
<1>3. First[kind] \in States
    BY Grammar DEF States, ValueStates
<1> QED BY <1>1, <1>2, <1>3 DEF Configs

LEMMA FieldStep == IInv /\ Field => IInv'
<1> SUFFICES ASSUME IInv, Field PROVE IInv'
    OBVIOUS
<1>1. PICK key \in FieldKeys, value \in Written :
        /\ Within("object") /\ buf' = buf \o key \o value
        /\ needSep' = TRUE /\ UNCHANGED <<open, owed>>
    BY DEF Field
<1> DEFINE p == <<"memberValue", open>>
<1>2. TypeOK /\ buf \in Seq(Tokens) /\ open # << >> /\ owed' = FALSE
    BY <1>1, Zenon DEF IInv, TypeOK, Within
<1>3. /\ key \in Seq(Tokens) /\ p \in Configs /\ open \in Seq(Kinds)
      /\ open[Len(open)] = "object" /\ Reads(Now, key, p)
    BY <1>1, <1>2, ReadsKey
<1>4. p[1] \in ValueStates /\ p[2] = open
    BY DEF ValueStates
<1>5. Now' = <<Around(open), open>>
    BY <1>1, <1>2, <1>3, PastItem DEF Around
<1> HIDE DEF p
<1>6. value \in Seq(Tokens) /\ value # << >> /\ Reads(p, value, Now')
    BY <1>3, <1>4, <1>5, ReadsValue
<1>7. Reads(Now, key \o value, Now')
    BY <1>3, <1>6, ReadsOn DEF Reads
<1>8. /\ buf' = buf \o (key \o value) /\ key \o value \in Seq(Tokens)
    BY <1>1, <1>2, <1>3, <1>6, JoinedTwice
<1>9. buf' # << >>
    BY <1>2, <1>3, <1>6, <1>8, JoinedTwice
<1> QED BY <1>1, <1>2, <1>3, <1>7, <1>8, <1>9, Appending

LEMMA ElementStep == IInv /\ Element => IInv'
<1> SUFFICES ASSUME IInv, Element PROVE IInv'
    OBVIOUS
<1>1. PICK value \in Written :
        /\ Within("array") /\ buf' = buf \o Comma \o value
        /\ needSep' = TRUE /\ UNCHANGED <<open, owed>>
    BY DEF Element
<1>2. TypeOK /\ buf \in Seq(Tokens) /\ open # << >> /\ owed' = FALSE
    BY <1>1, Zenon DEF IInv, TypeOK, Within
<1>3. Comma \in Seq(Tokens) /\ open \in Seq(Kinds) /\ open[Len(open)] = "array"
    BY <1>1, <1>2, ReadsComma
<1>4. PICK p \in Configs : /\ p = <<IF needSep THEN "arrayValue" ELSE "arrayFirst", open>>
                           /\ Reads(Now, Comma, p)
    BY <1>1, <1>2, ReadsComma
<1>5. p[1] \in ValueStates /\ p[2] = open
    BY <1>4 DEF ValueStates
<1>6. Now' = <<Around(open), open>>
    BY <1>1, <1>2, <1>3, PastItem DEF Around
<1>7. value \in Seq(Tokens) /\ value # << >> /\ Reads(p, value, Now')
    BY <1>5, <1>6, ReadsValue
<1>8. Reads(Now, Comma \o value, Now')
    BY <1>3, <1>4, <1>7, ReadsOn DEF Reads
<1>9. /\ buf' = buf \o (Comma \o value) /\ Comma \o value \in Seq(Tokens)
    BY <1>1, <1>2, <1>3, <1>7, JoinedTwice
<1>10. buf' # << >>
    BY <1>2, <1>3, <1>7, <1>9, JoinedTwice
<1> QED BY <1>1, <1>2, <1>3, <1>8, <1>9, <1>10, Appending

\* An opener is taken wherever a value may stand.
LEMMA TakesOpener ==
    ASSUME NEW kind \in Kinds, NEW p \in Configs, p[1] \in ValueStates, p[2] = open,
           open \in Seq(Kinds), open' = Append(open, kind), needSep' = FALSE, owed' = FALSE
    PROVE  Reads(p, <<Opener[kind]>>, Now') /\ <<Opener[kind]>> \in Seq(Tokens)
<1>1. Now' = <<First[kind], Append(p[2], kind)>> /\ Now' \in Configs
    BY PastOpener
<1>2. Takes(p, Opener[kind], Now')
    BY <1>1 DEF Takes
<1>3. Opener[kind] \in Tokens
    BY Grammar DEF Tokens
<1> QED BY <1>1, <1>2, <1>3, ReadsOne DEF Reads

LEMMA BeginFieldStep == ASSUME NEW kind \in Kinds PROVE IInv /\ BeginField(kind) => IInv'
<1> SUFFICES ASSUME IInv, BeginField(kind) PROVE IInv'
    OBVIOUS
<1>1. PICK key \in FieldKeys :
        /\ Within("object") /\ buf' = buf \o key \o <<Opener[kind]>>
        /\ needSep' = FALSE /\ open' = Append(open, kind) /\ UNCHANGED owed
    BY DEF BeginField
<1> DEFINE p == <<"memberValue", open>>
<1>2. TypeOK /\ buf \in Seq(Tokens) /\ owed' = FALSE
    BY <1>1, Zenon DEF IInv, TypeOK, Within
<1>3. key \in Seq(Tokens) /\ p \in Configs /\ open \in Seq(Kinds) /\ Reads(Now, key, p)
    BY <1>1, <1>2, ReadsKey
<1>4. p[1] \in ValueStates /\ p[2] = open
    BY DEF ValueStates
<1>5. Now' \in Configs /\ open' \in Seq(Kinds)
    BY <1>1, <1>2, <1>3, PastOpener
<1> HIDE DEF p
<1>6. Reads(p, <<Opener[kind]>>, Now') /\ <<Opener[kind]>> \in Seq(Tokens)
    BY <1>1, <1>2, <1>3, <1>4, TakesOpener
<1>7. Reads(Now, key \o <<Opener[kind]>>, Now')
    BY <1>3, <1>6, ReadsOn DEF Reads
<1>8. /\ buf' = buf \o (key \o <<Opener[kind]>>) /\ key \o <<Opener[kind]>> \in Seq(Tokens)
    BY <1>1, <1>2, <1>3, <1>6, JoinedTwice
<1>9. buf' # << >>
    <2>1. <<Opener[kind]>> # << >>
        OBVIOUS
    <2> QED BY <1>2, <1>3, <1>6, <1>8, <2>1, JoinedTwice
<1> QED BY <1>1, <1>2, <1>5, <1>7, <1>8, <1>9, Appending

LEMMA BeginElementStep == ASSUME NEW kind \in Kinds PROVE IInv /\ BeginElement(kind) => IInv'
<1> SUFFICES ASSUME IInv, BeginElement(kind) PROVE IInv'
    OBVIOUS
<1>1. /\ Within("array") /\ buf' = buf \o Comma \o <<Opener[kind]>>
      /\ needSep' = FALSE /\ open' = Append(open, kind) /\ UNCHANGED owed
    BY DEF BeginElement
<1>2. TypeOK /\ buf \in Seq(Tokens) /\ owed' = FALSE
    BY <1>1, Zenon DEF IInv, TypeOK, Within
<1>3. Comma \in Seq(Tokens) /\ open \in Seq(Kinds)
    BY <1>1, <1>2, ReadsComma
<1>4. PICK p \in Configs : /\ p = <<IF needSep THEN "arrayValue" ELSE "arrayFirst", open>>
                           /\ Reads(Now, Comma, p)
    BY <1>1, <1>2, ReadsComma
<1>5. p[1] \in ValueStates /\ p[2] = open
    BY <1>4 DEF ValueStates
<1>6. Now' \in Configs /\ open' \in Seq(Kinds)
    BY <1>1, <1>2, <1>3, PastOpener
<1>7. Reads(p, <<Opener[kind]>>, Now') /\ <<Opener[kind]>> \in Seq(Tokens)
    BY <1>1, <1>2, <1>3, <1>5, TakesOpener
<1>8. Reads(Now, Comma \o <<Opener[kind]>>, Now')
    BY <1>3, <1>4, <1>7, ReadsOn DEF Reads
<1>9. /\ buf' = buf \o (Comma \o <<Opener[kind]>>) /\ Comma \o <<Opener[kind]>> \in Seq(Tokens)
    BY <1>1, <1>2, <1>3, <1>7, JoinedTwice
<1>10. buf' # << >>
    <2>1. <<Opener[kind]>> # << >>
        OBVIOUS
    <2> QED BY <1>2, <1>3, <1>7, <1>9, <2>1, JoinedTwice
<1> QED BY <1>1, <1>2, <1>6, <1>8, <1>9, <1>10, Appending

\* A lone key is read up to its colon, and owed says that the member's value is next.
LEMMA KeyAloneStep == IInv /\ KeyAlone => IInv'
<1> SUFFICES ASSUME IInv, KeyAlone PROVE IInv'
    OBVIOUS
<1>1. PICK key \in FieldKeys :
        /\ Within("object") /\ buf' = buf \o key
        /\ needSep' = TRUE /\ owed' = TRUE /\ UNCHANGED open
    BY DEF KeyAlone
<1>2. TypeOK /\ buf \in Seq(Tokens) /\ open # << >>
    BY <1>1, Zenon DEF IInv, TypeOK, Within
<1>3. /\ key \in Seq(Tokens) /\ key # << >> /\ open \in Seq(Kinds) /\ open[Len(open)] = "object"
      /\ Reads(Now, key, <<"memberValue", open>>)
    BY <1>1, <1>2, ReadsKey
<1>4. Now' = <<"memberValue", open>>
    BY <1>1, <1>2, <1>3 DEF Now, Follows
<1>5. buf' # << >>
    BY <1>1, <1>2, <1>3, JoinedTwice
<1> QED BY <1>1, <1>2, <1>3, <1>4, <1>5, Appending

\* A lone comma, or nothing at the start of an array, where the last token tells which.
LEMMA CommaAloneStep == IInv /\ CommaAlone => IInv'
<1> SUFFICES ASSUME IInv, CommaAlone PROVE IInv'
    OBVIOUS
<1>1. /\ Within("array") /\ buf' = buf \o Comma
      /\ needSep' = TRUE /\ owed' = TRUE /\ UNCHANGED open
    BY DEF CommaAlone
<1>2. TypeOK /\ buf \in Seq(Tokens) /\ open # << >>
    BY <1>1, Zenon DEF IInv, TypeOK, Within
<1>3. Comma \in Seq(Tokens) /\ open \in Seq(Kinds) /\ open[Len(open)] = "array"
    BY <1>1, <1>2, ReadsComma
<1>4. PICK p \in Configs : /\ p = <<IF needSep THEN "arrayValue" ELSE "arrayFirst", open>>
                           /\ Reads(Now, Comma, p)
    BY <1>1, <1>2, ReadsComma
<1>5. buf # << >> /\ (needSep = FALSE => buf[Len(buf)] = "openArray")
    BY <1>1, OpenerIsLast
<1>6. buf' # << >> /\ buf'[Len(buf')] = IF needSep THEN "comma" ELSE buf[Len(buf)]
    <2>1. CASE needSep
        <3>1. buf' = Append(buf, "comma")
            BY <1>1, <1>2, <2>1 DEF Comma
        <3>2. Append(buf, "comma") # << >> /\ Append(buf, "comma")[Len(Append(buf, "comma"))] = "comma"
            BY <1>2
        <3> QED BY <2>1, <3>1, <3>2
    <2>2. CASE ~needSep
        BY <1>1, <1>2, <1>5, <2>2 DEF Comma
    <2> QED BY <2>1, <2>2
<1>7. Now' = p
    <2>1. Now' = <<IF buf'[Len(buf')] = "openArray" THEN "arrayFirst" ELSE "arrayValue", open>>
        BY <1>1, <1>2, <1>3 DEF Now, Follows
    <2>2. CASE needSep
        BY <1>4, <1>6, <2>1, <2>2
    <2>3. CASE ~needSep
        <3>1. needSep = FALSE
            BY <1>2, <2>3 DEF TypeOK
        <3> QED BY <1>4, <1>5, <1>6, <2>1, <2>3, <3>1
    <2> QED BY <2>2, <2>3
<1>8. Reads(Now, Comma, Now')
    BY <1>4, <1>7
<1> QED BY <1>1, <1>2, <1>3, <1>6, <1>8, Appending

LEMMA RawMembersStep == IInv /\ RawMembers => IInv'
<1> SUFFICES ASSUME IInv, RawMembers PROVE IInv'
    OBVIOUS
<1>1. PICK n \in Lengths :
        /\ Within("object")
        /\ IF n = 0 THEN UNCHANGED builder
           ELSE buf' = buf \o Comma \o Members(n) /\ needSep' = TRUE
        /\ UNCHANGED <<open, owed>>
    BY DEF RawMembers
<1>2. TypeOK /\ buf \in Seq(Tokens) /\ open # << >> /\ owed' = FALSE
    BY <1>1, Zenon DEF IInv, TypeOK, Within
<1>3. CASE n = 0
    BY <1>1, <1>3 DEF builder, IInv, TypeOK, WellFormed, Now, Follows
<1>4. CASE n # 0
    <2>1. /\ open \in Seq(Kinds) /\ open[Len(open)] = "object" /\ ~owed /\ needSep \in BOOLEAN
          /\ n \in Nat
        BY <1>1, <1>2, LengthsAssumption DEF TypeOK, Within
    <2> DEFINE p == <<IF needSep THEN "name" ELSE "objectFirst", open>>
    <2>2. p \in Configs /\ Now \in Configs
        BY <1>2, <2>1, Grammar DEF Now, Follows, Configs, States, ValueStates
    <2>3. Reads(Now, Comma, p) /\ Comma \in Seq(Tokens)
        <3>1. CASE needSep
            <4>1. Takes(Now, "comma", p)
                BY <1>2, <2>1, <3>1, Grammar DEF Now, Follows, Takes
            <4>2. Comma = <<"comma">> /\ <<"comma">> \in Seq(Tokens)
                BY <3>1 DEF Comma, Tokens
            <4> HIDE DEF p
            <4> QED BY <2>2, <4>1, <4>2, ReadsOne DEF Reads
        <3>2. CASE ~needSep
            <4>1. Now = p
                BY <1>2, <2>1, <3>2, Grammar DEF Now, Follows
            <4>2. Comma = << >> /\ << >> \in Seq(Tokens)
                BY <3>2 DEF Comma
            <4> HIDE DEF p
            <4> QED BY <2>2, <4>1, <4>2, ReadsNothing DEF Reads
        <3> QED BY <3>1, <3>2
    <2>4. p[1] \in {"objectFirst", "name"} /\ p[2] = open
        OBVIOUS
    <2> HIDE DEF p
    <2>5. Members(n) \in Seq(Tokens) /\ Reads(p, Members(n), <<"objectAfter", open>>)
        BY <1>2, <1>4, <2>1, <2>2, <2>4, ReadsMembers
    <2>6. needSep' = TRUE /\ buf' = buf \o Comma \o Members(n) /\ UNCHANGED open
        BY <1>1, <1>4
    <2>7. Now' = <<"objectAfter", open>>
        BY <1>2, <2>1, <2>6, PastItem, Grammar
    <2>8. Reads(Now, Comma \o Members(n), Now')
        BY <2>3, <2>5, <2>7, ReadsOn DEF Reads
    <2>9. buf' = buf \o (Comma \o Members(n)) /\ Comma \o Members(n) \in Seq(Tokens)
        BY <1>2, <2>3, <2>5, <2>6, JoinedTwice
    <2>10. buf' # << >>
        <3>1. buf # << >>
            BY <1>2 DEF IInv
        <3> QED BY <1>2, <2>9, <3>1
    <2> QED BY <1>2, <2>1, <2>6, <2>8, <2>9, <2>10, Appending
<1> QED BY <1>3, <1>4

\* Where the document or a value that is owed may come.
LEMMA ValueComes ==
    ASSUME IInv, owed \/ buf = << >>
    PROVE  /\ Now \in Configs /\ Now[1] \in ValueStates /\ Now[2] = open /\ open \in Seq(Kinds)
           /\ owed => needSep = TRUE /\ open # << >>
           /\ ~owed => open = << >>
<1>1. /\ open \in Seq(Kinds) /\ owed \in BOOLEAN /\ needSep \in BOOLEAN
      /\ owed => needSep = TRUE /\ open # << >>
      /\ ~owed => open = << >>
    BY Zenon DEF IInv, TypeOK
<1>2. CASE owed
    <2>1. PICK kind \in Kinds : kind = open[Len(open)]
        BY <1>1, <1>2, AroundIsState
    <2>2. Now[1] \in ValueStates /\ Now[2] = open
        BY <1>1, <1>2, <2>1, Grammar DEF Now, Follows, ValueStates
    <2> QED BY <1>1, <2>2 DEF Now, Configs, States
<1>3. CASE ~owed
    <2>1. Now[1] \in ValueStates /\ Now[2] = open
        BY <1>1, <1>3 DEF Now, Follows, ValueStates
    <2> QED BY <1>1, <2>1 DEF Now, Configs, States
<1> QED BY <1>2, <1>3

\* The document's opener, or that of the value owed to the innermost container.
LEMMA BeginStep == ASSUME NEW kind \in Kinds PROVE IInv /\ Begin(kind) => IInv'
<1> SUFFICES ASSUME IInv, Begin(kind) PROVE IInv'
    OBVIOUS
<1>1. /\ owed \/ buf = << >>
      /\ buf' = Append(buf, Opener[kind])
      /\ needSep' = FALSE /\ open' = Append(open, kind) /\ owed' = FALSE
    BY DEF Begin
<1>2. buf \in Seq(Tokens)
    BY DEF IInv, TypeOK
<1>3. Now \in Configs /\ Now[1] \in ValueStates /\ Now[2] = open /\ open \in Seq(Kinds)
    BY <1>1, ValueComes
<1>4. Now' \in Configs /\ open' \in Seq(Kinds)
    BY <1>1, <1>3, PastOpener
<1>5. Reads(Now, <<Opener[kind]>>, Now') /\ <<Opener[kind]>> \in Seq(Tokens)
    BY <1>1, <1>3, TakesOpener
<1>6. buf' = buf \o <<Opener[kind]>> /\ buf' # << >>
    BY <1>1, <1>2
<1> QED BY <1>1, <1>4, <1>5, <1>6, Appending

\* A bare value: needSep is as the lone key or comma set it, which is what it must be.
LEMMA RawStep == IInv /\ Raw => IInv'
<1> SUFFICES ASSUME IInv, Raw PROVE IInv'
    OBVIOUS
<1>1. /\ owed \/ buf = << >>
      /\ buf' = Append(buf, "scalar") /\ owed' = FALSE /\ UNCHANGED <<needSep, open>>
    BY DEF Raw
<1>2. buf \in Seq(Tokens) /\ needSep \in BOOLEAN
    BY DEF IInv, TypeOK
<1>3. /\ Now \in Configs /\ Now[1] \in ValueStates /\ Now[2] = open /\ open \in Seq(Kinds)
      /\ owed => needSep = TRUE /\ open # << >>
      /\ ~owed => open = << >>
    BY <1>1, ValueComes
<1>4. buf' = buf \o <<"scalar">> /\ buf' # << >> /\ <<"scalar">> \in Seq(Tokens)
    BY <1>1, <1>2 DEF Tokens
<1>5. Now' = <<Around(open), open>>
    <2>1. CASE owed
        BY <1>1, <1>3, <2>1 DEF Now, Follows, Around
    <2>2. CASE ~owed
        BY <1>1, <1>3, <1>4, <2>2 DEF Now, Follows, Around
    <2> QED BY <2>1, <2>2
<1>6. Now' \in Configs
    BY <1>3, <1>5, AroundIsState DEF Configs
<1>7. Takes(Now, "scalar", Now')
    BY <1>3, <1>5 DEF Takes
<1>8. Reads(Now, <<"scalar">>, Now')
    BY <1>3, <1>6, <1>7, ReadsOne DEF Reads
<1> QED BY <1>1, <1>2, <1>3, <1>4, <1>8, Appending

\* A closer is read from either side of the items, and the closed container was an item.
LEMMA EndStep == IInv /\ End => IInv'
<1> SUFFICES ASSUME IInv, End PROVE IInv'
    OBVIOUS
<1>1. /\ open # << >> /\ ~owed
      /\ buf' = Append(buf, Closer[open[Len(open)]])
      /\ needSep' = TRUE /\ open' = SubSeq(open, 1, Len(open) - 1) /\ UNCHANGED owed
    BY DEF End
<1>2. /\ buf \in Seq(Tokens) /\ needSep \in BOOLEAN /\ open \in Seq(Kinds) /\ owed' = FALSE
    BY <1>1, Zenon DEF IInv, TypeOK
<1>3. PICK kind \in Kinds : kind = open[Len(open)]
    BY <1>1, <1>2, AroundIsState
<1>4. Now = <<IF needSep THEN AfterItem[kind] ELSE First[kind], open>>
    BY <1>1, <1>3 DEF Now, Follows
<1>5. Now \in Configs
    <2>1. AfterItem[kind] \in States /\ First[kind] \in States
        BY Grammar DEF States, ValueStates
    <2> QED BY <1>2, <1>4, <2>1 DEF Configs
<1>6. open' = Outer(open) /\ open' \in Seq(Kinds)
    BY <1>1, <1>2 DEF Outer
<1>7. <<Closer[kind]>> \in Seq(Tokens) /\ buf' = buf \o <<Closer[kind]>> /\ buf' # << >>
    <2>1. Closer[kind] \in Tokens
        BY Grammar DEF Tokens
    <2>2. buf' = Append(buf, Closer[kind])
        BY <1>1, <1>3
    <2> QED BY <1>2, <2>1, <2>2
<1>8. Now' = <<Around(open'), open'>>
    BY <1>1, <1>2, <1>7 DEF Now, Follows, Around
<1>9. Now' \in Configs
    BY <1>6, <1>8, AroundIsState DEF Configs
<1>10. Takes(Now, Closer[kind], Now')
    BY <1>1, <1>3, <1>4, <1>6, <1>8 DEF Takes
<1>11. Reads(Now, <<Closer[kind]>>, Now')
    BY <1>5, <1>9, <1>10, ReadsOne DEF Reads
<1> QED BY <1>1, <1>2, <1>6, <1>7, <1>11, Appending

LEMMA ResetStep == IInv /\ Reset => IInv'
<1> SUFFICES ASSUME IInv, Reset PROVE IInv'
    OBVIOUS
<1>1. buf' = << >> /\ needSep' = FALSE /\ open' = << >> /\ owed' = FALSE
    BY DEF Reset
<1>2. << >> \in Seq(Tokens) /\ << >> \in Seq(Kinds)
    OBVIOUS
<1>3. Now' = Start /\ Start \in Configs
    <2>1. Now' = Start
        BY <1>1 DEF Now, Follows, Start
    <2>2. Start \in Configs
        BY <1>2 DEF Start, Configs, States, ValueStates
    <2> QED BY <2>1, <2>2
<1>4. Reads(Start, << >>, Start)
    BY <1>3, ReadsNothing DEF Reads
<1>5. TypeOK'
    BY <1>1, <1>2 DEF TypeOK
<1> QED BY <1>1, <1>3, <1>4, <1>5 DEF IInv, WellFormed

LEMMA Inductive == IInv /\ [Next]_vars => IInv'
<1> SUFFICES ASSUME IInv, [Next]_vars PROVE IInv'
    OBVIOUS
<1>1. CASE Next
    BY <1>1, FieldStep, KeyAloneStep, ElementStep, CommaAloneStep, RawMembersStep, RawStep, EndStep,
       ResetStep, BeginFieldStep, BeginElementStep, BeginStep DEF Next
<1>2. CASE UNCHANGED vars
    BY <1>2 DEF vars, IInv, TypeOK, WellFormed, Now, Follows
<1> QED BY <1>1, <1>2

\* Whatever the calls so far, the automaton has read all of the text and is where open,
\* owed and needSep say (sep, BeginObject, EndObject, precomputedKey).
THEOREM Invariance == Spec => []IInv
BY Initial, Inductive, PTL DEF Spec

\* The one bit says of the innermost container whether it has an item, at any depth.
THEOREM CommasDue == Spec => []CommaWhenDue
BY Invariance, Due, PTL

\* Once the caller has closed what it opened, the text is one value ("JSON to a buffer").
THEOREM WritesOneValue == Spec => []OneValue
<1>1. IInv => OneValue
    BY DEF IInv, WellFormed, Now, Follows, OneValue
<1> QED BY <1>1, Invariance, PTL

-----------------------------------------------------------------------------
(* What a text's reading is made of, and that there is one at most.        *)

Less == OpToRel(<, Nat)

\* A set of naturals has a least element.
LEMMA LeastNat ==
    ASSUME NEW S \in SUBSET Nat, S # {}
    PROVE  \E n \in S : \A m \in S : n <= m
<1>1. IsWellFoundedOn(Less, Nat)
    BY NatLessThanWellFounded DEF OpToRel, Less
<1>2. PICK n \in S : \A m \in S : <<m, n>> \notin Less
    BY <1>1, WFMin
<1>3. ASSUME NEW m \in S PROVE n <= m
    <2>1. m \in Nat /\ n \in Nat
        OBVIOUS
    <2>2. ~(m < n)
        BY <1>2, <2>1 DEF OpToRel, Less
    <2> QED BY <2>1, <2>2
<1> QED BY <1>3

\* What reads two texts, one after the other, is somewhere between them.
LEMMA ReadsBoth ==
    ASSUME NEW C, NEW p, NEW q, NEW S, NEW x \in Seq(S), NEW y \in Seq(S),
           ReadsIn(C, p, x \o y, q)
    PROVE  \E r \in C : ReadsIn(C, p, x, r) /\ ReadsIn(C, r, y, q)
<1>1. PICK m \in Nat, n \in Nat : m = Len(x) /\ n = Len(y) /\ Len(x \o y) = m + n
    BY LenProperties, ConcatProperties
<1>2. PICK run \in Seq(C) :
        /\ Len(run) = m + n + 1 /\ run[1] = p /\ run[m + n + 1] = q
        /\ \A k \in 1 .. m + n : Takes(run[k], (x \o y)[k], run[k + 1])
    BY <1>1 DEF ReadsIn
<1>3. \A k \in 1 .. m + n + 1 : run[k] \in C
    BY <1>2, ElementOfSeq
<1> DEFINE a == [k \in 1 .. m + 1 |-> run[k]]
           b == [k \in 1 .. n + 1 |-> run[k + m]]
<1>4. a \in Seq(C) /\ Len(a) = m + 1 /\ \A k \in 1 .. m + 1 : a[k] = run[k]
    BY <1>3
<1>5. \A k \in 1 .. n + 1 : k + m \in 1 .. m + n + 1
    OBVIOUS
<1>6. b \in Seq(C) /\ Len(b) = n + 1 /\ \A k \in 1 .. n + 1 : b[k] = run[k + m]
    BY <1>3, <1>5
<1> HIDE DEF a, b
<1>7. ReadsIn(C, p, x, run[m + 1])
    <2>1. a[1] = p /\ a[Len(x) + 1] = run[m + 1]
        BY <1>1, <1>2, <1>4
    <2>2. \A k \in 1 .. Len(x) : Takes(a[k], x[k], a[k + 1])
        <3>1. ASSUME NEW k \in 1 .. Len(x) PROVE Takes(a[k], x[k], a[k + 1])
            <4>1. k \in 1 .. m + n /\ k \in 1 .. m + 1 /\ k + 1 \in 1 .. m + 1 /\ (x \o y)[k] = x[k]
                BY <1>1, ConcatProperties
            <4> QED BY <1>2, <1>4, <4>1
        <3> QED BY <3>1
    <2> QED BY <1>1, <1>4, <2>1, <2>2 DEF ReadsIn
<1>8. ReadsIn(C, run[m + 1], y, q)
    <2>1. b[1] = run[m + 1] /\ b[Len(y) + 1] = q
        BY <1>1, <1>2, <1>6
    <2>2. \A k \in 1 .. Len(y) : Takes(b[k], y[k], b[k + 1])
        <3>1. ASSUME NEW k \in 1 .. Len(y) PROVE Takes(b[k], y[k], b[k + 1])
            <4>1. /\ k + m \in 1 .. m + n /\ k \in 1 .. n + 1 /\ k + 1 \in 1 .. n + 1
                  /\ k + m - m = k /\ k + m > m
                  /\ k + 1 + m = k + m + 1
                BY <1>1
            <4>2. (x \o y)[k + m] = y[k]
                BY <1>1, <4>1, ConcatProperties
            <4>3. b[k] = run[k + m] /\ b[k + 1] = run[k + m + 1]
                BY <1>6, <4>1
            <4> QED BY <1>2, <4>1, <4>2, <4>3
        <3> QED BY <3>1
    <2> QED BY <1>1, <1>6, <2>1, <2>2 DEF ReadsIn
<1>9. run[m + 1] \in C
    BY <1>3
<1> QED BY <1>7, <1>8, <1>9

\* A text that is not empty is its first token and the rest.
LEMMA FirstAndRest ==
    ASSUME NEW S, NEW x \in Seq(S), x # << >>
    PROVE  /\ x[1] \in S /\ <<x[1]>> \in Seq(S) /\ Tail(x) \in Seq(S)
           /\ x = <<x[1]>> \o Tail(x)
           /\ Len(x) \in Nat /\ Len(Tail(x)) = Len(x) - 1 /\ Len(x) >= 1
<1>1. /\ x[1] \in S /\ Tail(x) \in Seq(S)
      /\ Len(x) \in Nat /\ Len(Tail(x)) = Len(x) - 1 /\ Len(x) >= 1
    BY EmptySeq, LenProperties, ElementOfSeq, HeadTailProperties
<1>2. x = <<x[1]>> \o Tail(x)
    BY <1>1
<1> QED BY <1>1, <1>2

\* The first token is taken in one step.
LEMMA FirstTaken ==
    ASSUME NEW C, NEW p, NEW q, NEW S, NEW x \in Seq(S), x # << >>, ReadsIn(C, p, x, q)
    PROVE  \E r \in C : Takes(p, x[1], r) /\ ReadsIn(C, r, Tail(x), q)
<1>1. PICK r \in C : ReadsIn(C, p, <<x[1]>>, r) /\ ReadsIn(C, r, Tail(x), q)
    BY FirstAndRest, ReadsBoth
<1>2. PICK run \in Seq(C) :
        /\ Len(run) = Len(<<x[1]>>) + 1 /\ run[1] = p /\ run[Len(<<x[1]>>) + 1] = r
        /\ \A k \in 1 .. Len(<<x[1]>>) : Takes(run[k], <<x[1]>>[k], run[k + 1])
    BY <1>1 DEF ReadsIn
<1>3. Len(<<x[1]>>) = 1 /\ 1 \in 1 .. 1 /\ <<x[1]>>[1] = x[1]
    OBVIOUS
<1>4. Takes(p, x[1], r)
    BY <1>2, <1>3
<1> QED BY <1>1, <1>4

\* Where nothing is read the automaton stays.
LEMMA StaysPut ==
    ASSUME NEW C, NEW p, NEW q, ReadsIn(C, p, << >>, q)
    PROVE  p = q
BY DEF ReadsIn

\* The automaton takes a token in one way at most.
LEMMA TakesOnce ==
    ASSUME NEW p, NEW q, NEW r, NEW t, Takes(p, t, q), Takes(p, t, r)
    PROVE  q = r
BY Grammar DEF Takes, ValueStates

\* So it reads a text in one way at most.
LEMMA ReadsOnce ==
    ASSUME NEW C, NEW p, NEW q, NEW r, NEW S, NEW x \in Seq(S), ReadsIn(C, p, x, q), ReadsIn(C, p, x, r)
    PROVE  q = r
<1>1. PICK n \in Nat : n = Len(x)
    BY LenProperties
<1>2. PICK a \in Seq(C) :
        /\ Len(a) = n + 1 /\ a[1] = p /\ a[n + 1] = q
        /\ \A k \in 1 .. n : Takes(a[k], x[k], a[k + 1])
    BY <1>1 DEF ReadsIn
<1>3. PICK b \in Seq(C) :
        /\ Len(b) = n + 1 /\ b[1] = p /\ b[n + 1] = r
        /\ \A k \in 1 .. n : Takes(b[k], x[k], b[k + 1])
    BY <1>1 DEF ReadsIn
<1> DEFINE D == {k \in 1 .. n + 1 : a[k] # b[k]}
<1>4. D = {}
    <2>1. SUFFICES ASSUME D # {} PROVE FALSE
        OBVIOUS
    <2>2. D \in SUBSET Nat
        OBVIOUS
    <2>3. PICK k \in D : \A j \in D : k <= j
        BY <2>1, <2>2, LeastNat
    <2>4. k \in 1 .. n + 1 /\ a[k] # b[k]
        OBVIOUS
    <2>5. k # 1
        BY <1>2, <1>3, <2>4
    <2>6. k - 1 \in 1 .. n /\ k - 1 \in 1 .. n + 1 /\ (k - 1) + 1 = k /\ ~(k <= k - 1)
        BY <2>4, <2>5
    <2>7. a[k - 1] = b[k - 1]
        BY <2>3, <2>6
    <2>8. Takes(a[k - 1], x[k - 1], a[k]) /\ Takes(a[k - 1], x[k - 1], b[k])
        BY <1>2, <1>3, <2>6, <2>7
    <2> QED BY <2>4, <2>8, TakesOnce
<1> QED BY <1>2, <1>3, <1>4

\* What is read within a set of configurations is read within every larger one.
LEMMA Widened ==
    ASSUME NEW C, NEW D, C \subseteq D, NEW p, NEW q, NEW x, ReadsIn(C, p, x, q)
    PROVE  ReadsIn(D, p, x, q)
<1>1. \A run \in Seq(C) : run \in Seq(D)
    OBVIOUS
<1> QED BY <1>1 DEF ReadsIn

\* A token opens or closes one container at most.
LEMMA DepthSteps ==
    ASSUME NEW c \in Configs, NEW d \in Configs, NEW t, Takes(c, t, d)
    PROVE  /\ Len(c[2]) \in Nat /\ Len(d[2]) \in Nat
           /\ Len(d[2]) <= Len(c[2]) + 1 /\ Len(c[2]) <= Len(d[2]) + 1
<1>1. c[2] \in Seq(Kinds) /\ d[2] \in Seq(Kinds) /\ Len(c[2]) \in Nat /\ Len(d[2]) \in Nat
    BY LenProperties DEF Configs
<1>2. CASE d[2] = c[2]
    BY <1>1, <1>2
<1>3. ASSUME NEW kind \in Kinds, d[2] = Append(c[2], kind)
      PROVE  Len(d[2]) = Len(c[2]) + 1
    BY <1>1, <1>3
<1>4. ASSUME c[2] # << >>, d[2] = Outer(c[2])
      PROVE  Len(d[2]) = Len(c[2]) - 1
    BY <1>1, <1>4 DEF Outer
<1>5. \/ d[2] = c[2]
      \/ \E kind \in Kinds : d[2] = Append(c[2], kind)
      \/ c[2] # << >> /\ d[2] = Outer(c[2])
    BY DEF Takes
<1> QED BY <1>1, <1>2, <1>3, <1>4, <1>5

\* A text that is one value has a closer for each opener, so that no more containers are
\* ever open than half its tokens.
LEMMA Shallow ==
    ASSUME NEW S, NEW x \in Seq(S), Reads(Start, x, Done)
    PROVE  ReadsIn(Nested(Len(x) \div 2), Start, x, Done)
<1>1. PICK n \in Nat : n = Len(x)
    BY LenProperties
<1>2. PICK run \in Seq(Configs) :
        /\ Len(run) = n + 1 /\ run[1] = Start /\ run[n + 1] = Done
        /\ \A k \in 1 .. n : Takes(run[k], x[k], run[k + 1])
    BY <1>1 DEF Reads, ReadsIn
<1>3. \A k \in 1 .. n + 1 : run[k] \in Configs
    BY <1>2, ElementOfSeq
<1> DEFINE Depth(k) == Len(run[k][2])
<1>4. \A k \in 1 .. n + 1 : Depth(k) \in Nat
    <2>1. \A c \in Configs : Len(c[2]) \in Nat
        BY LenProperties DEF Configs
    <2> QED BY <1>3, <2>1
<1>5. \A k \in 1 .. n : Depth(k + 1) <= Depth(k) + 1 /\ Depth(k) <= Depth(k + 1) + 1
    <2>1. ASSUME NEW k \in 1 .. n PROVE Depth(k + 1) <= Depth(k) + 1 /\ Depth(k) <= Depth(k + 1) + 1
        <3>1. k \in 1 .. n + 1 /\ k + 1 \in 1 .. n + 1
            OBVIOUS
        <3> QED BY <1>2, <1>3, <3>1, DepthSteps
    <2> QED BY <2>1
<1>6. Depth(1) = 0 /\ Depth(n + 1) = 0
    BY <1>2 DEF Start, Done
<1> HIDE DEF Depth
<1> DEFINE Late == {k \in 1 .. n + 1 : Depth(k) > k - 1}
           Early == {j \in 0 .. n : Depth(n + 1 - j) > j}
<1>7. Late = {}
    <2>1. SUFFICES ASSUME Late # {} PROVE FALSE
        OBVIOUS
    <2>2. Late \in SUBSET Nat
        OBVIOUS
    <2>3. PICK k \in Late : \A j \in Late : k <= j
        BY <2>1, <2>2, LeastNat
    <2>4. k \in 1 .. n + 1 /\ Depth(k) > k - 1 /\ k # 1
        BY <1>6
    <2>5. k - 1 \in 1 .. n /\ k - 1 \in 1 .. n + 1 /\ (k - 1) + 1 = k /\ ~(k <= k - 1)
        BY <2>4
    <2>6. Depth(k - 1) <= k - 1 - 1
        BY <1>4, <2>3, <2>5
    <2>7. Depth(k) <= Depth(k - 1) + 1
        BY <1>5, <2>5
    <2> QED BY <1>4, <2>4, <2>5, <2>6, <2>7
<1>8. Early = {}
    <2>1. SUFFICES ASSUME Early # {} PROVE FALSE
        OBVIOUS
    <2>2. Early \in SUBSET Nat
        OBVIOUS
    <2>3. PICK j \in Early : \A i \in Early : j <= i
        BY <2>1, <2>2, LeastNat
    <2>4. j \in 0 .. n /\ Depth(n + 1 - j) > j /\ j # 0
        BY <1>6
    <2>5. j - 1 \in 0 .. n /\ ~(j <= j - 1) /\ n + 1 - j \in 1 .. n /\ (n + 1 - j) + 1 = n + 1 - (j - 1)
        BY <2>4
    <2>6. Depth(n + 1 - (j - 1)) <= j - 1
        <3>1. n + 1 - (j - 1) \in 1 .. n + 1
            BY <2>4
        <3>2. ~(Depth(n + 1 - (j - 1)) > j - 1)
            BY <2>3, <2>5
        <3> QED BY <1>4, <2>5, <3>1, <3>2
    <2>7. Depth(n + 1 - j) <= Depth(n + 1 - (j - 1)) + 1
        BY <1>5, <2>5
    <2>8. Depth(n + 1 - j) \in Nat /\ Depth(n + 1 - (j - 1)) \in Nat
        BY <1>4, <2>4
    <2> QED BY <2>4, <2>6, <2>7, <2>8
<1>9. ASSUME NEW k \in 1 .. n + 1 PROVE Depth(k) <= n \div 2
    <2>1. Depth(k) <= k - 1
        BY <1>4, <1>7
    <2>2. Depth(k) <= n + 1 - k
        <3>1. n + 1 - k \in 0 .. n /\ n + 1 - (n + 1 - k) = k
            OBVIOUS
        <3>2. ~(Depth(n + 1 - (n + 1 - k)) > n + 1 - k)
            BY <1>8, <3>1
        <3> QED BY <1>4, <3>1, <3>2
    <2> QED BY <1>4, <2>1, <2>2
<1>10. \A k \in 1 .. n + 1 : run[k] \in Nested(n \div 2)
    BY <1>3, <1>9 DEF Nested, Depth
<1>11. run \in Seq(Nested(n \div 2))
    BY <1>2, <1>10
<1> QED BY <1>1, <1>2, <1>11 DEF ReadsIn

-----------------------------------------------------------------------------
(* The recursive definitions of the grammar satisfy their equations.       *)

Texts == Seq(Tokens) \ {<< >>}

\* The lists of at most k tokens, by the shorter ones that f gives.
Longer(Items, f, k) ==
    {x \in Items : Len(x) <= k} \union
    UNION {{x \o <<"comma">> \o y : y \in f[k - Len(x) - 1]} : x \in {z \in Items : Len(z) + 2 <= k}}

Lists(Items, n) == CHOOSE f : f = [k \in 0 .. n |-> Longer(Items, f, k)]

\* A list of two items or more.
Several(Items, f, k, l) ==
    \E x \in Items : /\ Len(x) + 2 <= k
                     /\ \E y \in f[k - Len(x) - 1] : l = x \o <<"comma">> \o y

\* What is in Longer.
LEMMA LongerIs ==
    ASSUME NEW Items, NEW k, NEW f, NEW l
    PROVE  l \in Longer(Items, f, k) <=> (l \in Items /\ Len(l) <= k) \/ Several(Items, f, k, l)
<1> DEFINE Begun(x) == {x \o <<"comma">> \o y : y \in f[k - Len(x) - 1]}
           Short == {z \in Items : Len(z) + 2 <= k}
<1>1. ASSUME NEW x PROVE l \in Begun(x) <=> \E y \in f[k - Len(x) - 1] : l = x \o <<"comma">> \o y
    OBVIOUS
<1>2. Longer(Items, f, k) = {x \in Items : Len(x) <= k} \union UNION {Begun(x) : x \in Short}
    BY DEF Longer
<1> HIDE DEF Begun
<1>3. l \in UNION {Begun(x) : x \in Short} <=> \E x \in Short : l \in Begun(x)
    OBVIOUS
<1>4. (\E x \in Short : l \in Begun(x)) <=> Several(Items, f, k, l)
    BY <1>1 DEF Several
<1> HIDE DEF Short
<1> QED BY <1>2, <1>3, <1>4

\* Longer asks f for shorter lists only.
LEMMA LongerAgrees ==
    ASSUME NEW Items \in SUBSET Texts, NEW k \in Nat, NEW f, NEW g,
           \A j \in 0 .. k - 1 : f[j] = g[j]
    PROVE  Longer(Items, f, k) = Longer(Items, g, k)
<1>1. ASSUME NEW x \in Items, Len(x) + 2 <= k
      PROVE  f[k - Len(x) - 1] = g[k - Len(x) - 1]
    <2>1. Len(x) \in Nat
        BY LenProperties DEF Texts
    <2>2. k - Len(x) - 1 \in 0 .. k - 1
        BY <1>1, <2>1
    <2> QED BY <2>2
<1>2. ASSUME NEW l PROVE l \in Longer(Items, f, k) <=> l \in Longer(Items, g, k)
    <2>1. Several(Items, f, k, l) <=> Several(Items, g, k, l)
        BY <1>1 DEF Several
    <2> QED BY <2>1, LongerIs
<1> QED BY <1>2

\* The lists of at most n tokens satisfy the equation that defines them, and are the grammar's.
LEMMA ListsAre ==
    ASSUME NEW Items \in SUBSET Texts, NEW n \in Nat
    PROVE  /\ Lists(Items, n) = [k \in 0 .. n |-> Longer(Items, Lists(Items, n), k)]
           /\ Json!Joined(Items, n) = Lists(Items, n)[n]
<1> DEFINE Solves(f, m) == f = [k \in 0 .. m |-> Longer(Items, f, k)]
           D == {m \in Nat : ~ \E f : Solves(f, m)}
<1>1. D = {}
    <2>1. SUFFICES ASSUME D # {} PROVE FALSE
        OBVIOUS
    <2>2. D \in SUBSET Nat
        OBVIOUS
    <2>3. PICK m \in D : \A j \in D : m <= j
        BY <2>1, <2>2, LeastNat
    <2>4. m \in Nat /\ ~ \E f : Solves(f, m)
        OBVIOUS
    <2>5. \E f : \A k \in 0 .. m - 1 : f[k] = Longer(Items, f, k)
        <3>1. CASE m = 0
            BY <3>1
        <3>2. CASE m # 0
            <4>1. m - 1 \in Nat /\ ~(m <= m - 1)
                BY <2>4, <3>2
            <4>2. PICK f : Solves(f, m - 1)
                BY <2>3, <4>1
            <4> QED BY <4>2
        <3> QED BY <3>1, <3>2
    <2>6. PICK f : \A k \in 0 .. m - 1 : f[k] = Longer(Items, f, k)
        BY <2>5
    <2> DEFINE g == [k \in 0 .. m |-> IF k = m THEN Longer(Items, f, m) ELSE f[k]]
    <2>7. \A k \in 0 .. m - 1 : g[k] = f[k]
        BY <2>4
    <2>8. ASSUME NEW k \in 0 .. m PROVE g[k] = Longer(Items, g, k)
        <3>1. k \in Nat /\ \A j \in 0 .. k - 1 : f[j] = g[j]
            BY <2>4, <2>7
        <3>2. g[k] = Longer(Items, f, k)
            BY <2>4, <2>6
        <3> HIDE DEF g
        <3> QED BY <3>1, <3>2, LongerAgrees
    <2>9. g = [k \in 0 .. m |-> g[k]]
        OBVIOUS
    <2>10. Solves(g, m)
        <3> HIDE DEF g
        <3> QED BY <2>8, <2>9
    <2> QED BY <2>4, <2>10
<1>2. \E f : Solves(f, n)
    BY <1>1
<1>3. Lists(Items, n) = [k \in 0 .. n |-> Longer(Items, Lists(Items, n), k)]
    BY <1>2, Zenon DEF Lists
<1>4. Json!Joined(Items, n) = Lists(Items, n)[n]
    BY DEF Json!Joined, Lists, Longer
<1> QED BY <1>3, <1>4

\* The levels of the grammar satisfy the equation that defines them.
LEMMA ValuesAre ==
    Json!Values = [d \in 0 .. MaxNesting |-> IF d = 0 THEN Json!Scalars ELSE Json!Nest(Json!Values[d - 1])]
<1> DEFINE Level(f, d) == IF d = 0 THEN Json!Scalars ELSE Json!Nest(f[d - 1])
           Solves(f, m) == f = [d \in 0 .. m |-> Level(f, d)]
           D == {m \in Nat : ~ \E f : Solves(f, m)}
<1>1. D = {}
    <2>1. SUFFICES ASSUME D # {} PROVE FALSE
        OBVIOUS
    <2>2. D \in SUBSET Nat
        OBVIOUS
    <2>3. PICK m \in D : \A j \in D : m <= j
        BY <2>1, <2>2, LeastNat
    <2>4. m \in Nat /\ ~ \E f : Solves(f, m)
        OBVIOUS
    <2>5. \E f : \A k \in 0 .. m - 1 : f[k] = Level(f, k)
        <3>1. CASE m = 0
            BY <3>1
        <3>2. CASE m # 0
            <4>1. m - 1 \in Nat /\ ~(m <= m - 1)
                BY <2>4, <3>2
            <4>2. PICK f : Solves(f, m - 1)
                BY <2>3, <4>1
            <4> HIDE DEF Level
            <4> QED BY <4>2
        <3> QED BY <3>1, <3>2
    <2>6. PICK f : \A k \in 0 .. m - 1 : f[k] = Level(f, k)
        BY <2>5
    <2> DEFINE g == [k \in 0 .. m |-> IF k = m THEN Level(f, m) ELSE f[k]]
    <2>7. \A k \in 0 .. m - 1 : g[k] = f[k]
        BY <2>4
    <2>8. ASSUME NEW k \in 0 .. m PROVE g[k] = Level(g, k)
        <3>1. g[k] = Level(f, k)
            BY <2>4, <2>6
        <3>2. k # 0 => k - 1 \in 0 .. m - 1
            BY <2>4
        <3>3. k # 0 => f[k - 1] = g[k - 1]
            BY <2>7, <3>2
        <3> HIDE DEF g
        <3> QED BY <3>1, <3>3
    <2>9. g = [k \in 0 .. m |-> g[k]]
        OBVIOUS
    <2>10. Solves(g, m)
        <3> HIDE DEF g, Level
        <3> QED BY <2>8, <2>9
    <2> QED BY <2>4, <2>10
<1>2. \E f : f = [d \in 0 .. MaxNesting |-> IF d = 0 THEN Json!Scalars ELSE Json!Nest(f[d - 1])]
    BY <1>1, BoundsAssumption
<1> HIDE DEF D, Solves, Level
<1> DEFINE f == CHOOSE f : f = [d \in 0 .. MaxNesting |-> IF d = 0 THEN Json!Scalars ELSE Json!Nest(f[d - 1])]
<1>3. f = [d \in 0 .. MaxNesting |-> IF d = 0 THEN Json!Scalars ELSE Json!Nest(f[d - 1])]
    BY <1>2, Zenon
<1>4. Json!Values = f
    BY DEF Json!Values
<1> QED BY <1>3, <1>4

-----------------------------------------------------------------------------
(* The values of the grammar, by what they are made of.                    *)

\* The items of a container of each kind whose values are those of inner.
ItemsIn(kind, inner) == IF kind = "array" THEN inner ELSE Json!Members(inner)

Bracketed(kind, list) == <<Opener[kind]>> \o list \o <<Closer[kind]>>

\* Two of a value's tokens are its brackets.
LEMMA RoomIsNat == Json!Room \in Nat /\ Json!Room + 2 = MaxWritten
BY BoundsAssumption DEF Json!Room

\* The values of one token.
LEMMA ScalarsAre == Json!Scalars = {<<"scalar">>, <<"string">>} /\ Json!Scalars \in SUBSET Texts
<1>1. Json!Scalars = {<<"scalar">>, <<"string">>}
    BY DEF Json!Scalars
<1>2. <<"scalar">> \in Texts /\ <<"string">> \in Texts
    BY DEF Texts, Tokens
<1> QED BY <1>1, <1>2

\* A member is a name, a colon and a value.
LEMMA MembersAre ==
    ASSUME NEW inner
    PROVE  \A m : m \in Json!Members(inner) <=>
               \E v \in inner : Len(v) + 2 <= Json!Room /\ m = <<"string", "colon">> \o v
<1>1. Json!Members(inner) =
        {<<s, "colon">> \o v : s \in {"string"}, v \in {u \in inner : Len(u) + 2 <= Json!Room}}
    BY DEF Json!Members
<1> QED BY <1>1

\* The items of a container, and the lists of them, are texts of one token or more.
LEMMA ItemsAreTexts ==
    ASSUME NEW inner \in SUBSET Texts, NEW kind \in Kinds
    PROVE  ItemsIn(kind, inner) \in SUBSET Texts
<1>1. ASSUME NEW v \in Texts PROVE <<"string", "colon">> \o v \in Texts
    BY DEF Texts, Tokens
<1>2. ASSUME NEW m \in Json!Members(inner) PROVE m \in Texts
    <2>1. PICK v \in inner : m = <<"string", "colon">> \o v
        BY MembersAre
    <2> QED BY <1>1, <2>1
<1> QED BY <1>2 DEF ItemsIn

\* No list is empty either: the shortest that was would hold an item that is.
LEMMA ListsAreTexts ==
    ASSUME NEW Items \in SUBSET Texts, NEW n \in Nat, NEW k \in 0 .. n
    PROVE  Lists(Items, n)[k] \in SUBSET Texts
<1> DEFINE f == Lists(Items, n)
           D == {j \in 0 .. n : f[j] \notin SUBSET Texts}
<1>1. f = [j \in 0 .. n |-> Longer(Items, f, j)]
    BY ListsAre
<1> HIDE DEF f
<1>2. D = {}
    <2>1. SUFFICES ASSUME D # {} PROVE FALSE
        OBVIOUS
    <2>2. D \in SUBSET Nat
        OBVIOUS
    <2>3. PICK m \in D : \A j \in D : m <= j
        BY <2>1, <2>2, LeastNat
    <2>4. PICK l \in f[m] : l \notin Texts
        OBVIOUS
    <2>5. l \in Longer(Items, f, m)
        BY <1>1, <2>4
    <2>6. PICK x \in Items : Len(x) + 2 <= m /\ \E y \in f[m - Len(x) - 1] : l = x \o <<"comma">> \o y
        <3>1. Several(Items, f, m, l)
            BY <2>4, <2>5, LongerIs
        <3> QED BY <3>1 DEF Several
    <2>11. PICK y \in f[m - Len(x) - 1] : l = x \o <<"comma">> \o y
        BY <2>6
    <2>7. x \in Seq(Tokens) /\ Len(x) \in Nat
        BY LenProperties DEF Texts
    <2>8. m - Len(x) - 1 \in 0 .. n /\ ~(m <= m - Len(x) - 1)
        BY <2>6, <2>7
    <2>9. y \in Seq(Tokens)
        BY <2>3, <2>8 DEF Texts
    <2>10. x \o <<"comma">> \o y \in Seq(Tokens) /\ x \o <<"comma">> \o y # << >>
        BY <2>7, <2>9 DEF Tokens
    <2> QED BY <2>4, <2>10, <2>11 DEF Texts
<1> QED BY <1>2 DEF f

\* The lists that a container may hold.
ListsIn(kind, inner) == Lists(ItemsIn(kind, inner), Json!Room)[Json!Room]

\* The lists that a container may hold are texts too.
LEMMA ListsInAreTexts ==
    ASSUME NEW inner \in SUBSET Texts, NEW kind \in Kinds
    PROVE  ListsIn(kind, inner) \in SUBSET Texts
<1>1. PICK r : r = Json!Room
    OBVIOUS
<1>2. r \in Nat /\ r \in 0 .. r
    BY <1>1, RoomIsNat
<1>3. ItemsIn(kind, inner) \in SUBSET Texts
    BY ItemsAreTexts
<1>4. Lists(ItemsIn(kind, inner), r)[r] \in SUBSET Texts
    BY <1>2, <1>3, ListsAreTexts
<1> QED BY <1>1, <1>4 DEF ListsIn

\* A nested value is a scalar, or the brackets of a kind around nothing or a list.
LEMMA NestIs ==
    ASSUME NEW inner \in SUBSET Texts
    PROVE  \A v : v \in Json!Nest(inner) <=>
               \/ v \in Json!Scalars
               \/ \E kind \in Kinds :
                     \E list \in {<< >>} \union ListsIn(kind, inner) :
                         v = Bracketed(kind, list)
<1> DEFINE In(kind) == {<< >>} \union ListsIn(kind, inner)
<1>1. /\ Json!Joined(inner, Json!Room) = ListsIn("array", inner)
      /\ Json!Joined(Json!Members(inner), Json!Room) =
           ListsIn("object", inner)
    BY RoomIsNat, ListsAre, ItemsAreTexts DEF ListsIn, ItemsIn, Kinds
<1>2. Json!Nest(inner) =
        Json!Scalars
        \union {<<"openArray">> \o e \o <<"closeArray">> : e \in In("array")}
        \union {<<"openObject">> \o m \o <<"closeObject">> : m \in In("object")}
    BY <1>1 DEF Json!Nest
<1> HIDE DEF In
<1>3. ASSUME NEW v
      PROVE  v \in Json!Nest(inner) <=>
               \/ v \in Json!Scalars
               \/ \E kind \in Kinds : \E list \in In(kind) : v = Bracketed(kind, list)
    BY <1>2, Grammar DEF Bracketed
<1> QED BY <1>3 DEF In

\* What the grammar's levels hold are texts.
LEMMA ValuesAreTexts ==
    ASSUME NEW d \in 0 .. MaxNesting
    PROVE  Json!Values[d] \in SUBSET Texts
<1> DEFINE D == {j \in 0 .. MaxNesting : Json!Values[j] \notin SUBSET Texts}
<1>1. MaxNesting \in Nat
    BY BoundsAssumption
<1>2. D = {}
    <2>1. SUFFICES ASSUME D # {} PROVE FALSE
        OBVIOUS
    <2>2. D \in SUBSET Nat
        OBVIOUS
    <2>3. PICK m \in D : \A j \in D : m <= j
        BY <2>1, <2>2, LeastNat
    <2>4. m # 0
        BY <1>1, ValuesAre, ScalarsAre
    <2>5. m - 1 \in 0 .. MaxNesting /\ ~(m <= m - 1)
        BY <1>1, <2>4
    <2>6. Json!Values[m - 1] \in SUBSET Texts
        BY <2>3, <2>5
    <2>7. Json!Values[m] = Json!Nest(Json!Values[m - 1])
        BY <1>1, <2>4, ValuesAre
    <2>8. ASSUME NEW v \in Json!Values[m] PROVE v \in Texts
        <3>1. CASE v \in Json!Scalars
            BY <3>1, ScalarsAre
        <3>2. CASE v \notin Json!Scalars
            <4> DEFINE inner == Json!Values[m - 1]
            <4>1. PICK kind \in Kinds :
                     \E list \in {<< >>} \union ListsIn(kind, inner) :
                         v = Bracketed(kind, list)
                BY <2>6, <2>7, <2>8, <3>2, NestIs
            <4>2. PICK list \in {<< >>} \union ListsIn(kind, inner) :
                     v = Bracketed(kind, list)
                BY <4>1
            <4>3. list \in Seq(Tokens)
                <5>1. ListsIn(kind, inner) \in SUBSET Texts
                    BY <2>6, ListsInAreTexts
                <5>2. << >> \in Seq(Tokens) /\ \A x \in Texts : x \in Seq(Tokens)
                    BY DEF Texts
                <5> HIDE DEF inner
                <5> QED BY <4>2, <5>1, <5>2
            <4>4. Opener[kind] \in Tokens /\ Closer[kind] \in Tokens
                BY Grammar DEF Tokens
            <4> HIDE DEF inner
            <4> QED BY <4>2, <4>3, <4>4 DEF Bracketed, Texts
        <3> QED BY <3>1, <3>2
    <2> QED BY <2>3, <2>8
<1> QED BY <1>2

\* The two rules of a list.
LEMMA OneItem ==
    ASSUME NEW Items \in SUBSET Texts, NEW n \in Nat, NEW k \in 0 .. n, NEW x \in Items, Len(x) <= k
    PROVE  x \in Lists(Items, n)[k]
<1>1. Lists(Items, n)[k] = Longer(Items, Lists(Items, n), k)
    BY ListsAre
<1> QED BY <1>1, LongerIs

\* A longer list is an item, a comma and a list.
LEMMA MoreItems ==
    ASSUME NEW Items \in SUBSET Texts, NEW n \in Nat, NEW k \in 0 .. n,
           NEW x \in Items, Len(x) + 2 <= k, NEW y \in Lists(Items, n)[k - Len(x) - 1]
    PROVE  x \o <<"comma">> \o y \in Lists(Items, n)[k]
<1>1. Lists(Items, n)[k] = Longer(Items, Lists(Items, n), k)
    BY ListsAre
<1>2. Several(Items, Lists(Items, n), k, x \o <<"comma">> \o y)
    BY DEF Several
<1> QED BY <1>1, <1>2, LongerIs

\* Three texts join either way.
LEMMA Regrouped ==
    ASSUME NEW x \in Seq(Tokens), NEW y \in Seq(Tokens), NEW z \in Seq(Tokens)
    PROVE  (x \o y) \o z = x \o (y \o z)
OBVIOUS

\* Two texts make a text.
LEMMA JoinedIsText ==
    ASSUME NEW x \in Seq(Tokens), NEW y \in Seq(Tokens)
    PROVE  x \o y \in Seq(Tokens)
OBVIOUS

\* Names for the two forms, which keep a proof that regroups a text from being about
\* anything else.
Glue(x, y) == x \o y
One(c) == <<c>>

\* The same, by those names.
LEMMA Glued == ASSUME NEW x \in Seq(Tokens), NEW y \in Seq(Tokens) PROVE Glue(x, y) \in Seq(Tokens)
BY JoinedIsText DEF Glue

\* A token is a text.
LEMMA OneIsText == ASSUME NEW c \in Tokens PROVE One(c) \in Seq(Tokens)
BY DEF One

\* The two ways to join three texts, by those names.
LEMMA GluedEither ==
    ASSUME NEW x \in Seq(Tokens), NEW y \in Seq(Tokens), NEW z \in Seq(Tokens)
    PROVE  Glue(Glue(x, y), z) = Glue(x, Glue(y, z))
BY Regrouped DEF Glue

\* An item and what follows the closer.
LEMMA ThenCloser ==
    ASSUME NEW x \in Seq(Tokens), NEW c \in Tokens, NEW after \in Seq(Tokens)
    PROVE  Glue(x, Glue(One(c), after)) = Glue(Glue(x, One(c)), after)
BY OneIsText, GluedEither

\* An item, a comma, a list and what follows its closer.
LEMMA ThenList ==
    ASSUME NEW x \in Seq(Tokens), NEW b \in Tokens, NEW y \in Seq(Tokens), NEW c \in Tokens,
           NEW rest \in Seq(Tokens)
    PROVE  Glue(x, Glue(One(b), Glue(Glue(y, One(c)), rest)))
              = Glue(Glue(Glue(Glue(x, One(b)), y), One(c)), rest)
<1>1. /\ One(b) \in Seq(Tokens) /\ One(c) \in Seq(Tokens)
      /\ Glue(y, One(c)) \in Seq(Tokens) /\ Glue(x, One(b)) \in Seq(Tokens)
      /\ Glue(Glue(y, One(c)), rest) \in Seq(Tokens)
    BY Glued, OneIsText
<1>2. Glue(x, Glue(One(b), Glue(Glue(y, One(c)), rest)))
         = Glue(Glue(x, One(b)), Glue(Glue(y, One(c)), rest))
    BY <1>1, GluedEither
<1>3. Glue(Glue(x, One(b)), Glue(Glue(y, One(c)), rest))
         = Glue(Glue(Glue(x, One(b)), Glue(y, One(c))), rest)
    BY <1>1, GluedEither
<1>4. Glue(Glue(x, One(b)), Glue(y, One(c))) = Glue(Glue(Glue(x, One(b)), y), One(c))
    BY <1>1, GluedEither
<1> QED BY <1>2, <1>3, <1>4

\* An opener, a list and what follows its closer.
LEMMA ThenBrackets ==
    ASSUME NEW o \in Tokens, NEW y \in Seq(Tokens), NEW c \in Tokens, NEW rest \in Seq(Tokens)
    PROVE  Glue(One(o), Glue(Glue(y, One(c)), rest)) = Glue(Glue(Glue(One(o), y), One(c)), rest)
<1>1. /\ One(o) \in Seq(Tokens) /\ One(c) \in Seq(Tokens) /\ Glue(y, One(c)) \in Seq(Tokens)
    BY Glued, OneIsText
<1>2. Glue(One(o), Glue(Glue(y, One(c)), rest)) = Glue(Glue(One(o), Glue(y, One(c))), rest)
    BY <1>1, GluedEither
<1>3. Glue(One(o), Glue(y, One(c))) = Glue(Glue(One(o), y), One(c))
    BY <1>1, GluedEither
<1> QED BY <1>2, <1>3

-----------------------------------------------------------------------------
(* What the automaton reads to the end is a value of the grammar.          *)

Past(stack) == <<Around(stack), stack>>

\* The states in which an item of each kind of container may start.
ItemStarts == [object |-> {"objectFirst", "name"}, array |-> {"arrayFirst", "arrayValue"}]

\* The text goes on with a value, which is one of the grammar's, and with what is read past it.
ValueAhead(m, p, text) ==
    \E v \in Texts, rest \in Seq(Tokens) :
        /\ text = v \o rest
        /\ ReadsIn(Nested(m), Past(p[2]), rest, Done)
        /\ Len(v) <= MaxWritten => v \in Json!Values[m - Len(p[2])]

\* It goes on with an item of the innermost container.
ItemAhead(m, stack, kind, text) ==
    \E x \in Texts, rest \in Seq(Tokens) :
        /\ text = x \o rest
        /\ ReadsIn(Nested(m), Past(Append(stack, kind)), rest, Done)
        /\ Len(x) <= Json!Room => x \in ItemsIn(kind, Json!Values[m - Len(stack) - 1])

\* It goes on with a list of items up to the closer.
ListAhead(m, stack, kind, text) ==
    \E list \in Texts, rest \in Seq(Tokens) :
        /\ text = list \o <<Closer[kind]>> \o rest
        /\ ReadsIn(Nested(m), Past(stack), rest, Done)
        /\ \A k \in 0 .. Json!Room :
              Len(list) <= k =>
                 list \in Lists(ItemsIn(kind, Json!Values[m - Len(stack) - 1]), Json!Room)[k]

\* A text that is read from where a value, or an item, may start begins with one unless it
\* begins with the closer.
AsValue(m, text) ==
    \A p \in Nested(m) :
        p[1] \in ValueStates /\ ReadsIn(Nested(m), p, text, Done) /\ text[1] # "closeArray" =>
            ValueAhead(m, p, text)

AsList(m, text) ==
    \A stack \in Seq(Kinds), kind \in Kinds :
        \A s \in ItemStarts[kind] :
            /\ Len(stack) < m
            /\ ReadsIn(Nested(m), <<s, Append(stack, kind)>>, text, Done)
            /\ text[1] # Closer[kind]
            => ListAhead(m, stack, kind, text)

\* So it is for every text of at most n tokens, or of fewer than n.
ValuesTo(m, n) == \A x \in Seq(Tokens) : Len(x) <= n => AsValue(m, x)
ListsBelow(m, n) == \A x \in Seq(Tokens) : Len(x) < n => AsList(m, x)

\* The levels of the grammar that a container's items and their own containers are of.
LEMMA Levels ==
    ASSUME NEW m \in 0 .. MaxNesting, NEW stack \in Seq(Kinds), NEW kind \in Kinds, Len(stack) < m
    PROVE  /\ Len(stack) \in Nat /\ m - Len(stack) \in 0 .. MaxNesting /\ m - Len(stack) # 0
           /\ m - Len(stack) - 1 \in 0 .. MaxNesting
           /\ Append(stack, kind) \in Seq(Kinds) /\ Len(Append(stack, kind)) = Len(stack) + 1
           /\ Append(stack, kind) # << >>
           /\ Append(stack, kind)[Len(Append(stack, kind))] = kind
           /\ Outer(Append(stack, kind)) = stack
           /\ Past(Append(stack, kind)) = <<AfterItem[kind], Append(stack, kind)>>
           /\ ItemsIn(kind, Json!Values[m - Len(stack) - 1]) \in SUBSET Texts
           /\ Json!Values[m - Len(stack)] = Json!Nest(Json!Values[m - Len(stack) - 1])
<1>1. MaxNesting \in Nat /\ Len(stack) \in Nat
    BY BoundsAssumption, LenProperties
<1>2. /\ m - Len(stack) \in 0 .. MaxNesting /\ m - Len(stack) # 0
      /\ m - Len(stack) - 1 \in 0 .. MaxNesting
    BY <1>1
<1>3. /\ Append(stack, kind) \in Seq(Kinds) /\ Len(Append(stack, kind)) = Len(stack) + 1
      /\ Append(stack, kind) # << >>
      /\ Append(stack, kind)[Len(Append(stack, kind))] = kind
    OBVIOUS
<1>4. Outer(Append(stack, kind)) = stack
    BY DEF Outer
<1>5. Past(Append(stack, kind)) = <<AfterItem[kind], Append(stack, kind)>>
    BY <1>3 DEF Past, Around
<1>6. ItemsIn(kind, Json!Values[m - Len(stack) - 1]) \in SUBSET Texts
    BY <1>2, ValuesAreTexts, ItemsAreTexts
<1>7. Json!Values[m - Len(stack)] = Json!Nest(Json!Values[m - Len(stack) - 1])
    BY <1>2, ValuesAre
<1> QED BY <1>1, <1>2, <1>3, <1>4, <1>5, <1>6, <1>7

\* An item of an array is a value, one of an object a name, a colon and a value.
LEMMA ItemBegins ==
    ASSUME NEW m \in 0 .. MaxNesting, NEW text \in Seq(Tokens),
           ValuesTo(m, Len(text)),
           NEW stack \in Seq(Kinds), NEW kind \in Kinds, NEW s \in ItemStarts[kind], Len(stack) < m,
           ReadsIn(Nested(m), <<s, Append(stack, kind)>>, text, Done), text[1] # Closer[kind]
    PROVE  ItemAhead(m, stack, kind, text)
<1> DEFINE inside == Append(stack, kind)
           C == Nested(m)
<1>1. /\ inside \in Seq(Kinds) /\ Len(inside) = Len(stack) + 1 /\ Len(stack) \in Nat
      /\ m - Len(inside) = m - Len(stack) - 1
      /\ \A t \in States : <<t, inside>> \in C
    <2>1. inside \in Seq(Kinds) /\ Len(inside) = Len(stack) + 1 /\ Len(stack) \in Nat
        BY Levels
    <2>2. Len(inside) <= m /\ m - Len(inside) = m - Len(stack) - 1
        BY <2>1, BoundsAssumption
    <2> HIDE DEF inside
    <2>3. \A t \in States : <<t, inside>> \in C
        BY <2>1, <2>2 DEF Nested, Configs
    <2> QED BY <2>1, <2>2, <2>3
<1> HIDE DEF inside, C
<1>2. ReadsIn(C, <<s, inside>>, text, Done)
    BY DEF inside, C
<1>3. MaxWritten >= Json!Room /\ MaxWritten = Json!Room + 2 /\ Json!Room \in Nat
    BY RoomIsNat
<1>4. CASE kind = "array"
    <2>1. s \in {"arrayFirst", "arrayValue"} /\ text[1] # "closeArray"
        BY <1>4, Grammar DEF ItemStarts
    <2>2. <<s, inside>> \in C /\ <<s, inside>>[1] \in ValueStates /\ <<s, inside>>[2] = inside
        BY <1>1, <2>1 DEF States, ValueStates
    <2>3. AsValue(m, text)
        <3>1. Len(text) <= Len(text)
            BY LenProperties
        <3> QED BY <3>1 DEF ValuesTo
    <2>4. ValueAhead(m, <<s, inside>>, text)
        BY <1>2, <2>1, <2>2, <2>3 DEF AsValue, C
    <2>5. PICK v \in Texts, rest \in Seq(Tokens) :
            /\ text = v \o rest
            /\ ReadsIn(C, Past(inside), rest, Done)
            /\ Len(v) <= MaxWritten => v \in Json!Values[m - Len(inside)]
        BY <2>2, <2>4 DEF ValueAhead, C
    <2>6. Len(v) \in Nat
        BY LenProperties DEF Texts
    <2>7. Len(v) <= Json!Room => v \in ItemsIn(kind, Json!Values[m - Len(stack) - 1])
        BY <1>1, <1>3, <1>4, <2>5, <2>6 DEF ItemsIn
    <2> QED BY <2>5, <2>7 DEF ItemAhead, inside, C
<1>5. CASE kind = "object"
    <2>1. s \in {"objectFirst", "name"} /\ text[1] # "closeObject" /\ <<s, inside>> \in C
        BY <1>1, <1>5, Grammar DEF ItemStarts, States, ValueStates
    <2>2. text # << >>
        <3>1. <<s, inside>> # Done
            BY <2>1 DEF Done
        <3> QED BY <1>2, <3>1, StaysPut
    <2> DEFINE after == Tail(text)
               value == Tail(after)
    <2>3. /\ text = <<text[1]>> \o after /\ after \in Seq(Tokens) /\ Len(after) = Len(text) - 1
          /\ Len(text) \in Nat
        BY <2>2, FirstAndRest
    <2>4. PICK q \in C : Takes(<<s, inside>>, text[1], q) /\ ReadsIn(C, q, after, Done)
        BY <1>2, <2>2, FirstTaken
    <2>5. text[1] = "string" /\ q = <<"colon", inside>>
        BY <2>1, <2>4, Grammar DEF Takes, ValueStates
    <2> HIDE DEF after
    <2>6. after # << >>
        <3>1. q # Done
            BY <2>5 DEF Done
        <3> QED BY <2>4, <3>1, StaysPut
    <2>7. /\ after = <<after[1]>> \o value /\ value \in Seq(Tokens) /\ Len(value) = Len(after) - 1
          /\ Len(after) \in Nat
        BY <2>3, <2>6, FirstAndRest
    <2>8. PICK r \in C : Takes(q, after[1], r) /\ ReadsIn(C, r, value, Done)
        BY <2>3, <2>4, <2>6, FirstTaken
    <2>9. after[1] = "colon" /\ r = <<"memberValue", inside>>
        BY <2>5, <2>8, Grammar DEF Takes, ValueStates
    <2> HIDE DEF value
    <2>10. value # << >>
        <3>1. r # Done
            BY <2>9 DEF Done
        <3> QED BY <2>8, <3>1, StaysPut
    <2>11. value[1] # "closeArray"
        <3>1. PICK o \in C : Takes(r, value[1], o)
            BY <2>7, <2>8, <2>10, FirstTaken
        <3> QED BY <2>9, <3>1, Grammar DEF Takes
    <2>12. AsValue(m, value)
        BY <2>3, <2>7 DEF ValuesTo
    <2>13. r[1] \in ValueStates /\ r[2] = inside
        BY <2>9 DEF ValueStates
    <2>14. ValueAhead(m, r, value)
        BY <2>8, <2>11, <2>12, <2>13 DEF AsValue, C
    <2>15. PICK v \in Texts, rest \in Seq(Tokens) :
            /\ value = v \o rest
            /\ ReadsIn(C, Past(inside), rest, Done)
            /\ Len(v) <= MaxWritten => v \in Json!Values[m - Len(inside)]
        BY <2>13, <2>14 DEF ValueAhead, C
    <2> DEFINE x == <<"string", "colon">> \o v
    <2>16. x \in Texts /\ Len(x) = Len(v) + 2 /\ Len(v) \in Nat
        BY LenProperties DEF Texts, Tokens
    <2>17. text = x \o rest
        <3>1. text = <<"string">> \o (<<"colon">> \o (v \o rest))
            BY <2>3, <2>5, <2>7, <2>9, <2>15
        <3>2. v \in Seq(Tokens)
            BY DEF Texts
        <3> QED BY <3>1, <3>2
    <2>18. Len(x) <= Json!Room => x \in ItemsIn(kind, Json!Values[m - Len(stack) - 1])
        <3>1. SUFFICES ASSUME Len(x) <= Json!Room PROVE x \in Json!Members(Json!Values[m - Len(stack) - 1])
            BY <1>5 DEF ItemsIn
        <3>2. v \in Json!Values[m - Len(stack) - 1]
            BY <1>1, <1>3, <2>15, <2>16, <3>1
        <3>3. Len(v) + 2 <= Json!Room
            BY <2>16, <3>1
        <3> QED BY <3>2, <3>3, MembersAre
    <2> HIDE DEF x
    <2> QED BY <2>15, <2>16, <2>17, <2>18 DEF ItemAhead, inside, C
<1> QED BY <1>4, <1>5, Grammar

\* A list is an item and the closer, or an item, a comma and a list.
LEMMA ListBegins ==
    ASSUME NEW m \in 0 .. MaxNesting, NEW text \in Seq(Tokens),
           ValuesTo(m, Len(text)),
           ListsBelow(m, Len(text))
    PROVE  AsList(m, text)
<1> SUFFICES ASSUME NEW stack \in Seq(Kinds), NEW kind \in Kinds, NEW s \in ItemStarts[kind],
                    Len(stack) < m, ReadsIn(Nested(m), <<s, Append(stack, kind)>>, text, Done),
                    text[1] # Closer[kind]
             PROVE  ListAhead(m, stack, kind, text)
    BY DEF AsList
<1> DEFINE inside == Append(stack, kind)
           C == Nested(m)
           Items == ItemsIn(kind, Json!Values[m - Len(stack) - 1])
<1>1. /\ inside \in Seq(Kinds) /\ inside # << >> /\ inside[Len(inside)] = kind
      /\ Outer(inside) = stack /\ Past(inside) = <<AfterItem[kind], inside>>
      /\ Items \in SUBSET Texts
    BY Levels
<1>2. ItemAhead(m, stack, kind, text)
    BY ItemBegins
<1> HIDE DEF inside, C, Items
<1>3. PICK x \in Texts, more \in Seq(Tokens) :
        /\ text = x \o more
        /\ ReadsIn(C, Past(inside), more, Done)
        /\ Len(x) <= Json!Room => x \in Items
    BY <1>2 DEF ItemAhead, inside, C, Items
<1>4. more # << >>
    <2>1. Past(inside) # Done
        BY <1>1 DEF Done
    <2> QED BY <1>3, <2>1, StaysPut
<1> DEFINE after == Tail(more)
<1>5. /\ more = <<more[1]>> \o after /\ after \in Seq(Tokens) /\ Len(after) = Len(more) - 1
      /\ Len(more) \in Nat
    BY <1>4, FirstAndRest
<1>6. PICK q \in C : Takes(Past(inside), more[1], q) /\ ReadsIn(C, q, after, Done)
    BY <1>3, <1>4, FirstTaken
<1> HIDE DEF after
<1>7. \/ more[1] = Closer[kind] /\ q = Past(stack)
      \/ more[1] = "comma" /\ \E t \in ItemStarts[kind] : q = <<t, inside>> /\ t \notin {First[kind], AfterItem[kind]}
    BY <1>1, <1>6, Grammar DEF Takes, ValueStates, ItemStarts, Past
<1>8. x \in Seq(Tokens) /\ x # << >> /\ Len(x) \in Nat /\ Len(x) # 0
    BY EmptySeq, LenProperties DEF Texts
<1>9. Json!Room \in Nat
    BY RoomIsNat
<1>10. CASE more[1] = Closer[kind] /\ q = Past(stack)
    <2>1. text = x \o <<Closer[kind]>> \o after
        <3>1. x \in Seq(Tokens) /\ after \in Seq(Tokens) /\ Closer[kind] \in Tokens
            BY <1>5, <1>8, Grammar DEF Tokens
        <3>2. text = Glue(x, Glue(One(Closer[kind]), after))
            BY <1>3, <1>5, <1>10 DEF Glue, One
        <3>3. text = Glue(Glue(x, One(Closer[kind])), after)
            BY <3>1, <3>2, ThenCloser
        <3> QED BY <3>3 DEF Glue, One
    <2>2. \A k \in 0 .. Json!Room : Len(x) <= k => x \in Lists(Items, Json!Room)[k]
        <3>1. ASSUME NEW k \in 0 .. Json!Room, Len(x) <= k PROVE x \in Lists(Items, Json!Room)[k]
            <4>1. Len(x) <= Json!Room
                BY <1>8, <1>9, <3>1
            <4> QED BY <1>1, <1>3, <1>9, <3>1, <4>1, OneItem
        <3> QED BY <3>1
    <2> QED BY <1>5, <1>6, <1>10, <2>1, <2>2 DEF ListAhead, C, Items
<1>11. ASSUME NEW t \in ItemStarts[kind], more[1] = "comma", q = <<t, inside>>,
              t \notin {First[kind], AfterItem[kind]}
       PROVE  ListAhead(m, stack, kind, text)
    <2>1. after # << >>
        <3>1. q # Done
            BY <1>1, <1>11 DEF Done
        <3> QED BY <1>6, <3>1, StaysPut
    <2>2. after[1] # Closer[kind]
        <3>1. PICK o \in C : Takes(q, after[1], o)
            BY <1>5, <1>6, <2>1, FirstTaken
        <3> QED BY <1>1, <1>11, <3>1, Grammar DEF Takes
    <2>3. Len(after) < Len(text)
        <3>1. Len(text) = Len(x) + Len(more)
            BY <1>3, <1>8, ConcatProperties
        <3> QED BY <1>5, <1>8, <3>1
    <2>4. ListAhead(m, stack, kind, after)
        BY <1>5, <1>6, <1>11, <2>2, <2>3 DEF ListsBelow, AsList, inside, C
    <2>5. PICK y \in Texts, rest \in Seq(Tokens) :
            /\ after = y \o <<Closer[kind]>> \o rest
            /\ ReadsIn(C, Past(stack), rest, Done)
            /\ \A k \in 0 .. Json!Room : Len(y) <= k => y \in Lists(Items, Json!Room)[k]
        BY <2>4 DEF ListAhead, C, Items
    <2>6. y \in Seq(Tokens) /\ y # << >> /\ Len(y) \in Nat /\ Len(y) # 0
        BY EmptySeq, LenProperties DEF Texts
    <2> DEFINE list == x \o <<"comma">> \o y
    <2>7. list \in Texts /\ Len(list) = Len(x) + 1 + Len(y)
        BY <1>8, <2>6 DEF Texts, Tokens
    <2>8. text = list \o <<Closer[kind]>> \o rest
        <3>1. Closer[kind] \in Tokens /\ "comma" \in Tokens
            BY Grammar DEF Tokens
        <3>2. text = Glue(x, Glue(One("comma"), Glue(Glue(y, One(Closer[kind])), rest)))
            BY <1>3, <1>5, <1>11, <2>5 DEF Glue, One
        <3>3. x \in Seq(Tokens) /\ y \in Seq(Tokens) /\ rest \in Seq(Tokens)
            BY <1>8, <2>6
        <3>4. text = Glue(Glue(Glue(Glue(x, One("comma")), y), One(Closer[kind])), rest)
            BY <3>1, <3>2, <3>3, ThenList
        <3> QED BY <3>4 DEF Glue, One
    <2>9. \A k \in 0 .. Json!Room : Len(list) <= k => list \in Lists(Items, Json!Room)[k]
        <3>1. ASSUME NEW k \in 0 .. Json!Room, Len(list) <= k PROVE list \in Lists(Items, Json!Room)[k]
            <4>1. /\ Len(x) <= Json!Room /\ Len(x) + 2 <= k
                  /\ k - Len(x) - 1 \in 0 .. Json!Room /\ Len(y) <= k - Len(x) - 1
                BY <1>8, <1>9, <2>6, <2>7, <3>1
            <4>2. x \in Items /\ y \in Lists(Items, Json!Room)[k - Len(x) - 1]
                BY <1>3, <2>5, <4>1
            <4> QED BY <1>1, <1>9, <4>1, <4>2, MoreItems
        <3> QED BY <3>1
    <2> HIDE DEF list
    <2> QED BY <2>5, <2>7, <2>8, <2>9 DEF ListAhead, C, Items
<1> QED BY <1>7, <1>10, <1>11

\* A value is a token, or brackets around nothing or a list.
LEMMA ValueBegins ==
    ASSUME NEW m \in 0 .. MaxNesting, NEW text \in Seq(Tokens),
           ListsBelow(m, Len(text))
    PROVE  AsValue(m, text)
<1> DEFINE C == Nested(m)
<1> SUFFICES ASSUME NEW p \in C, p[1] \in ValueStates, ReadsIn(C, p, text, Done),
                    text[1] # "closeArray"
             PROVE  ValueAhead(m, p, text)
    BY DEF AsValue
<1>1. /\ p[2] \in Seq(Kinds) /\ Len(p[2]) \in Nat /\ Len(p[2]) <= m /\ m \in Nat
      /\ m - Len(p[2]) \in 0 .. MaxNesting
    BY BoundsAssumption, LenProperties DEF Nested, Configs
<1> HIDE DEF C
<1>2. text # << >>
    <2>1. p # Done
        BY DEF Done, ValueStates
    <2> QED BY <2>1, StaysPut
<1> DEFINE after == Tail(text)
<1>3. /\ text = <<text[1]>> \o after /\ after \in Seq(Tokens) /\ Len(after) = Len(text) - 1
      /\ Len(text) \in Nat /\ text[1] \in Tokens
    BY <1>2, FirstAndRest
<1>4. PICK q \in C : Takes(p, text[1], q) /\ ReadsIn(C, q, after, Done)
    BY <1>2, FirstTaken
<1> HIDE DEF after
<1>5. \/ text[1] \in {"scalar", "string"} /\ q = Past(p[2])
      \/ \E kind \in Kinds : text[1] = Opener[kind] /\ q = <<First[kind], Append(p[2], kind)>>
    BY <1>4, Grammar DEF Takes, ValueStates, Past
<1>6. CASE text[1] \in {"scalar", "string"} /\ q = Past(p[2])
    <2> DEFINE v == <<text[1]>>
    <2>1. v \in Json!Scalars /\ v \in Texts
        BY <1>6, ScalarsAre
    <2>2. Json!Scalars \subseteq Json!Values[m - Len(p[2])]
        <3> DEFINE d == m - Len(p[2])
        <3> HIDE DEF d
        <3>1. d \in 0 .. MaxNesting
            BY <1>1 DEF d
        <3>2. CASE d = 0
            BY <3>1, <3>2, ValuesAre DEF d
        <3>3. CASE d # 0
            <4>1. d - 1 \in 0 .. MaxNesting /\ Json!Values[d] = Json!Nest(Json!Values[d - 1])
                BY <3>1, <3>3, ValuesAre, BoundsAssumption
            <4>2. Json!Values[d - 1] \in SUBSET Texts
                BY <4>1, ValuesAreTexts
            <4> QED BY <4>1, <4>2, NestIs DEF d
        <3> QED BY <3>2, <3>3
    <2> QED BY <1>3, <1>4, <1>6, <2>1, <2>2 DEF ValueAhead, C
<1>7. ASSUME NEW kind \in Kinds, text[1] = Opener[kind], q = <<First[kind], Append(p[2], kind)>>
      PROVE  ValueAhead(m, p, text)
    <2> DEFINE inner == Json!Values[m - Len(p[2]) - 1]
    <2>1. Len(p[2]) < m
        <3>1. Len(Append(p[2], kind)) = Len(p[2]) + 1
            BY <1>1
        <3> QED BY <1>1, <1>7, <3>1 DEF Nested, C
    <2>2. /\ Past(Append(p[2], kind)) = <<AfterItem[kind], Append(p[2], kind)>>
          /\ Outer(Append(p[2], kind)) = p[2] /\ Append(p[2], kind) # << >>
          /\ Json!Values[m - Len(p[2])] = Json!Nest(inner)
          /\ m - Len(p[2]) - 1 \in 0 .. MaxNesting
        <3>1. PICK stack \in Seq(Kinds) : stack = p[2]
            BY <1>1
        <3>2. Len(stack) < m
            BY <2>1, <3>1
        <3>3. /\ Past(Append(stack, kind)) = <<AfterItem[kind], Append(stack, kind)>>
              /\ Outer(Append(stack, kind)) = stack /\ Append(stack, kind) # << >>
              /\ Json!Values[m - Len(stack)] = Json!Nest(Json!Values[m - Len(stack) - 1])
              /\ m - Len(stack) - 1 \in 0 .. MaxNesting
            BY <3>2, Levels
        <3> QED BY <3>1, <3>3
    <2>3. inner \in SUBSET Texts
        BY <2>2, ValuesAreTexts
    <2> HIDE DEF inner
    <2>4. after # << >>
        <3>1. q # Done
            BY <1>7, <2>2 DEF Done
        <3> QED BY <1>4, <3>1, StaysPut
    <2>5. Opener[kind] \in Tokens /\ Closer[kind] \in Tokens
        BY Grammar DEF Tokens
    <2>6. CASE after[1] = Closer[kind]
        <3> DEFINE rest == Tail(after)
                   v == <<Opener[kind], Closer[kind]>>
        <3>1. /\ after = <<after[1]>> \o rest /\ rest \in Seq(Tokens)
            BY <1>3, <2>4, FirstAndRest
        <3>2. PICK r \in C : Takes(q, after[1], r) /\ ReadsIn(C, r, rest, Done)
            BY <1>3, <1>4, <2>4, FirstTaken
        <3> HIDE DEF rest
        <3>3. r = Past(p[2])
            BY <1>7, <2>2, <2>6, <3>2, Grammar DEF Takes, Past, ValueStates
        <3>4. v = Bracketed(kind, << >>) /\ v \in Texts
            BY <2>5 DEF Bracketed, Texts
        <3>5. text = v \o rest
            <4>1. text = Glue(One(Opener[kind]), Glue(One(Closer[kind]), rest))
                BY <1>3, <1>7, <2>6, <3>1 DEF Glue, One
            <4>2. text = Glue(Glue(One(Opener[kind]), One(Closer[kind])), rest)
                <5>1. One(Opener[kind]) \in Seq(Tokens)
                    BY <2>5, OneIsText
                <5> QED BY <2>5, <3>1, <4>1, <5>1, ThenCloser
            <4>3. v = Glue(One(Opener[kind]), One(Closer[kind]))
                BY DEF Glue, One
            <4>4. text = Glue(v, rest)
                BY <4>2, <4>3
            <4> QED BY <4>4 DEF Glue
        <3>6. v \in Json!Values[m - Len(p[2])]
            BY <2>2, <2>3, <3>4, NestIs
        <3> HIDE DEF v
        <3> QED BY <3>1, <3>2, <3>3, <3>4, <3>5, <3>6 DEF ValueAhead, C
    <2>7. CASE after[1] # Closer[kind]
        <3>1. AsList(m, after)
            BY <1>3 DEF ListsBelow
        <3>2. First[kind] \in ItemStarts[kind]
            BY Grammar DEF ItemStarts
        <3>3. ListAhead(m, p[2], kind, after)
            BY <1>1, <1>4, <1>7, <2>1, <2>7, <3>1, <3>2 DEF AsList, C
        <3>4. PICK list \in Texts, rest \in Seq(Tokens) :
                /\ after = list \o <<Closer[kind]>> \o rest
                /\ ReadsIn(C, Past(p[2]), rest, Done)
                /\ \A k \in 0 .. Json!Room :
                      Len(list) <= k => list \in Lists(ItemsIn(kind, inner), Json!Room)[k]
            BY <3>3 DEF ListAhead, C, inner
        <3> DEFINE v == Bracketed(kind, list)
        <3>5. list \in Seq(Tokens) /\ Len(list) \in Nat
            BY LenProperties DEF Texts
        <3>6. v \in Texts /\ Len(v) = Len(list) + 2
            BY <2>5, <3>5 DEF Bracketed, Texts
        <3>7. text = v \o rest
            <4>1. text = Glue(One(Opener[kind]), Glue(Glue(list, One(Closer[kind])), rest))
                BY <1>3, <1>7, <3>4 DEF Glue, One
            <4>2. text = Glue(Glue(Glue(One(Opener[kind]), list), One(Closer[kind])), rest)
                BY <2>5, <3>5, <4>1, ThenBrackets
            <4>3. v = Glue(Glue(One(Opener[kind]), list), One(Closer[kind]))
                BY DEF Glue, One, Bracketed
            <4>4. text = Glue(v, rest)
                BY <4>2, <4>3
            <4> QED BY <4>4 DEF Glue
        <3>8. Len(v) <= MaxWritten => v \in Json!Values[m - Len(p[2])]
            <4>1. SUFFICES ASSUME Len(v) <= MaxWritten PROVE v \in Json!Nest(inner)
                BY <2>2
            <4>2. list \in ListsIn(kind, inner)
                <5>1. Json!Room \in 0 .. Json!Room /\ Len(list) <= Json!Room
                    BY <3>5, <3>6, <4>1, RoomIsNat
                <5> QED BY <3>4, <5>1 DEF ListsIn
            <4> QED BY <2>3, <4>2, NestIs
        <3> HIDE DEF v
        <3> QED BY <3>4, <3>6, <3>7, <3>8 DEF ValueAhead, C
    <2> QED BY <2>6, <2>7
<1> QED BY <1>5, <1>6, <1>7

\* So every text begins as the states say, by the shortest that would not.
LEMMA Parsed ==
    ASSUME NEW m \in 0 .. MaxNesting, NEW text \in Seq(Tokens)
    PROVE  AsValue(m, text)
<1> DEFINE Fails(n) == \E x \in Seq(Tokens) : Len(x) = n /\ ~(AsValue(m, x) /\ AsList(m, x))
           D == {n \in Nat : Fails(n)}
<1>1. D = {}
    <2>1. SUFFICES ASSUME D # {} PROVE FALSE
        OBVIOUS
    <2>2. D \in SUBSET Nat
        OBVIOUS
    <2>3. PICK n \in D : \A j \in D : n <= j
        BY <2>1, <2>2, LeastNat
    <2>4. PICK x \in Seq(Tokens) : Len(x) = n /\ ~(AsValue(m, x) /\ AsList(m, x))
        BY <2>3
    <2>5. ASSUME NEW y \in Seq(Tokens), Len(y) < Len(x) PROVE AsValue(m, y) /\ AsList(m, y)
        <3>1. Len(y) \in Nat /\ Len(x) \in Nat /\ ~(n <= Len(y))
            BY <2>4, <2>5, LenProperties
        <3>2. ~Fails(Len(y))
            BY <2>3, <3>1
        <3> QED BY <3>2
    <2>6. AsValue(m, x)
        BY <2>5, ValueBegins DEF ListsBelow
    <2>7. ASSUME NEW y \in Seq(Tokens), Len(y) <= Len(x) PROVE AsValue(m, y)
        <3>1. Len(y) \in Nat /\ Len(x) \in Nat
            BY LenProperties
        <3>2. CASE Len(y) < Len(x)
            BY <2>5, <3>2
        <3>3. CASE Len(y) = Len(x)
            <4>1. ListsBelow(m, Len(y))
                BY <2>5, <3>3 DEF ListsBelow
            <4> QED BY <4>1, ValueBegins
        <3> QED BY <2>7, <3>1, <3>2, <3>3
    <2>8. AsList(m, x)
        BY <2>5, <2>7, ListBegins DEF ValuesTo, ListsBelow
    <2> QED BY <2>4, <2>6, <2>8
<1>2. Len(text) \in Nat
    BY LenProperties
<1>3. ~Fails(Len(text))
    BY <1>1, <1>2
<1> QED BY <1>3

\* What the automaton reads from the start to the end, within m open containers, is a
\* value of the grammar nested at most m deep.
THEOREM ReadIsValue ==
    ASSUME NEW m \in 0 .. MaxNesting, NEW text \in Seq(Tokens),
           ReadsIn(Nested(m), Start, text, Done), Len(text) <= MaxWritten
    PROVE  text \in Json!Values[m]
<1>1. m \in Nat
    BY BoundsAssumption
<1>2. << >> \in Seq(Kinds) /\ Len(<< >>) = 0
    OBVIOUS
<1>3. Start \in Nested(m) /\ Start[1] \in ValueStates /\ Start[2] = << >>
    <2>1. Start[1] \in ValueStates /\ Start[2] = << >> /\ Start \in Configs
        BY <1>2 DEF Start, Configs, States, ValueStates
    <2>2. Len(Start[2]) <= m
        BY <1>1, <1>2, <2>1
    <2> QED BY <2>1, <2>2 DEF Nested
<1>4. text # << >>
    <2>1. Start # Done
        BY DEF Start, Done
    <2> QED BY <2>1, StaysPut
<1>5. text[1] # "closeArray"
    <2>1. PICK q \in Nested(m) : Takes(Start, text[1], q)
        BY <1>4, FirstTaken
    <2> QED BY <2>1, Grammar DEF Takes, Start
<1>6. ValueAhead(m, Start, text)
    BY <1>3, <1>5, Parsed DEF AsValue
<1>7. PICK v \in Texts, rest \in Seq(Tokens) :
        /\ text = v \o rest /\ ReadsIn(Nested(m), Past(<< >>), rest, Done)
        /\ Len(v) <= MaxWritten => v \in Json!Values[m - Len(<< >>)]
    BY <1>3, <1>6 DEF ValueAhead
<1>8. Past(<< >>) = Done
    BY DEF Past, Around, Done
<1>9. rest = << >>
    <2>1. SUFFICES ASSUME rest # << >> PROVE FALSE
        OBVIOUS
    <2>2. PICK q \in Nested(m) : Takes(Done, rest[1], q)
        BY <1>7, <1>8, <2>1, FirstTaken
    <2> QED BY <2>2, Grammar DEF Takes, Done, ValueStates
<1>10. text = v
    <2>1. v \in Seq(Tokens)
        BY DEF Texts
    <2>2. v \o << >> = v
        BY <2>1, ConcatEmptySeq
    <2>3. text = v \o rest
        BY <1>7
    <2> QED BY <1>9, <2>2, <2>3, Zenon
<1>11. m - Len(<< >>) = m
    BY <1>1, <1>2
<1> QED BY <1>7, <1>10, <1>11

-----------------------------------------------------------------------------
(* And every value of the grammar is read to its end.                      *)

\* The values of level d are read from wherever one may start with d levels to go.
ReadsLevel(m, d) ==
    \A p \in Nested(m) : \A text \in Json!Values[d] :
        p[1] \in ValueStates /\ Len(p[2]) + d <= m =>
            ReadsIn(Nested(m), p, text, Past(p[2]))

\* What follows a value is within the bound that the value's place is within.
LEMMA PastIsNested ==
    ASSUME NEW m \in Nat, NEW stack \in Seq(Kinds), Len(stack) <= m
    PROVE  Past(stack) \in Nested(m)
BY AroundIsState DEF Past, Nested, Configs

\* Reading one text after another, by those names.
LEMMA ReadsGlued ==
    ASSUME NEW C, NEW p, NEW q, NEW r, NEW x \in Seq(Tokens), NEW y \in Seq(Tokens),
           ReadsIn(C, p, x, q), ReadsIn(C, q, y, r)
    PROVE  ReadsIn(C, p, Glue(x, y), r)
BY ReadsOn DEF Glue

\* A scalar or a string is read in one step.
LEMMA ScalarRead ==
    ASSUME NEW m \in Nat, NEW p \in Nested(m), p[1] \in ValueStates, NEW text \in Json!Scalars
    PROVE  ReadsIn(Nested(m), p, text, Past(p[2]))
<1>1. p[2] \in Seq(Kinds) /\ Len(p[2]) <= m
    BY DEF Nested, Configs
<1>2. Past(p[2]) \in Nested(m)
    BY <1>1, PastIsNested
<1>3. PICK t \in {"scalar", "string"} : text = <<t>>
    BY ScalarsAre
<1>4. Takes(p, t, Past(p[2]))
    BY <1>3 DEF Takes, Past
<1> QED BY <1>2, <1>3, <1>4, ReadsOne

\* So is an item of a container, and then a list of them.
LEMMA ItemRead ==
    ASSUME NEW m \in 0 .. MaxNesting, NEW d \in 0 .. MaxNesting, ReadsLevel(m, d),
           NEW kind \in Kinds, NEW inside \in Seq(Kinds), Len(inside) + d <= m,
           inside # << >>, inside[Len(inside)] = kind,
           NEW s \in ItemStarts[kind], NEW x \in ItemsIn(kind, Json!Values[d])
    PROVE  ReadsIn(Nested(m), <<s, inside>>, x, Past(inside))
<1> DEFINE C == Nested(m)
<1>1. Len(inside) \in Nat /\ d \in Nat /\ m \in Nat /\ Len(inside) <= m
    BY BoundsAssumption, LenProperties
<1>2. \A t \in States : <<t, inside>> \in C
    BY <1>1 DEF Nested, Configs
<1> HIDE DEF C
<1>3. CASE kind = "array"
    <2>1. s \in ValueStates /\ s \in States /\ x \in Json!Values[d]
        BY <1>3 DEF ItemStarts, ValueStates, States, ItemsIn
    <2> DEFINE p == <<s, inside>>
    <2>2. p \in C /\ p[1] \in ValueStates /\ p[2] = inside
        BY <1>2, <2>1
    <2> HIDE DEF p
    <2>3. ReadsIn(C, p, x, Past(p[2]))
        BY <2>1, <2>2 DEF ReadsLevel, C
    <2> QED BY <2>2, <2>3 DEF p, C
<1>4. CASE kind = "object"
    <2>1. s \in {"objectFirst", "name"} /\ x \in Json!Members(Json!Values[d])
        BY <1>4, Grammar DEF ItemStarts, ItemsIn
    <2>2. PICK v \in Json!Values[d] : x = <<"string", "colon">> \o v
        BY <2>1, MembersAre
    <2>3. v \in Seq(Tokens)
        BY ValuesAreTexts DEF Texts
    <2> DEFINE a == <<s, inside>>
               b == <<"colon", inside>>
               c == <<"memberValue", inside>>
    <2>4. /\ a \in C /\ b \in C /\ c \in C /\ c[1] \in ValueStates /\ c[2] = inside
          /\ Takes(a, "string", b) /\ Takes(b, "colon", c)
        BY <1>2, <2>1 DEF States, ValueStates, Takes
    <2> HIDE DEF a, b, c
    <2>5. ReadsIn(C, c, v, Past(c[2]))
        BY <2>4 DEF ReadsLevel, C
    <2>6. ReadsIn(C, a, <<"string">>, b) /\ ReadsIn(C, b, <<"colon">>, c)
        BY <2>4, ReadsOne
    <2>7. /\ <<"string">> \in Seq(Tokens) /\ <<"colon">> \in Seq(Tokens)
          /\ <<"string", "colon">> \in Seq(Tokens)
          /\ <<"string", "colon">> = <<"string">> \o <<"colon">>
        BY DEF Tokens
    <2>8. ReadsIn(C, a, <<"string", "colon">>, c)
        BY <2>6, <2>7, ReadsOn
    <2>9. ReadsIn(C, a, x, Past(inside))
        BY <2>2, <2>3, <2>4, <2>5, <2>7, <2>8, ReadsOn
    <2> QED BY <2>9 DEF a, C
<1> QED BY <1>3, <1>4, Grammar

\* A list of items is read from where its first may start to past its last.
LEMMA ListRead ==
    ASSUME NEW m \in 0 .. MaxNesting, NEW d \in 0 .. MaxNesting, ReadsLevel(m, d),
           NEW kind \in Kinds, NEW inside \in Seq(Kinds), Len(inside) + d <= m,
           inside # << >>, inside[Len(inside)] = kind,
           NEW list \in ListsIn(kind, Json!Values[d]), NEW s \in ItemStarts[kind]
    PROVE  ReadsIn(Nested(m), <<s, inside>>, list, Past(inside))
<1> DEFINE C == Nested(m)
           Items == ItemsIn(kind, Json!Values[d])
           n == Json!Room
           f == Lists(Items, n)
           ReadsEach(j) == \A l \in f[j] : \A t \in ItemStarts[kind] :
                              ReadsIn(C, <<t, inside>>, l, Past(inside))
           D == {j \in 0 .. n : ~ReadsEach(j)}
<1>1. Items \in SUBSET Texts /\ n \in Nat
    BY ValuesAreTexts, ItemsAreTexts, RoomIsNat
<1>2. f = [k \in 0 .. n |-> Longer(Items, f, k)]
    BY <1>1, ListsAre
<1>3. Len(inside) \in Nat /\ d \in Nat /\ m \in Nat /\ Len(inside) <= m
    BY BoundsAssumption, LenProperties
<1>4. \A t \in States : <<t, inside>> \in C
    BY <1>3 DEF Nested, Configs
<1>5. Past(inside) = <<AfterItem[kind], inside>> /\ Past(inside) \in C
    <2>1. Past(inside) \in C
        BY <1>3, PastIsNested
    <2> QED BY <2>1 DEF Past, Around
<1>6. \A x \in Items : \A t \in ItemStarts[kind] : ReadsIn(C, <<t, inside>>, x, Past(inside))
    BY ItemRead
<1>7. \A j \in 0 .. n : f[j] \in SUBSET Texts
    BY <1>1, ListsAreTexts
<1> HIDE DEF C, Items, n, f
<1>8. D = {}
    <2>1. SUFFICES ASSUME D # {} PROVE FALSE
        OBVIOUS
    <2>2. D \in SUBSET Nat
        BY <1>1
    <2>3. PICK k \in D : \A j \in D : k <= j
        BY <2>1, <2>2, LeastNat
    <2>4. k \in 0 .. n /\ k \in Nat
        BY <1>1
    <2>5. PICK l \in f[k], t \in ItemStarts[kind] : ~ReadsIn(C, <<t, inside>>, l, Past(inside))
        BY <2>3
    <2>6. l \in Longer(Items, f, k)
        BY <1>2, <2>4
    <2>7. (l \in Items /\ Len(l) <= k) \/ Several(Items, f, k, l)
        BY <2>6, LongerIs
    <2>8. CASE l \in Items
        BY <1>6, <2>5, <2>8
    <2>9. CASE Several(Items, f, k, l)
        <3>1. PICK x \in Items : /\ Len(x) + 2 <= k
                                 /\ \E y \in f[k - Len(x) - 1] : l = x \o <<"comma">> \o y
            BY <2>9 DEF Several
        <3>2. PICK j : j = k - Len(x) - 1
            OBVIOUS
        <3>3. PICK y \in f[j] : l = x \o <<"comma">> \o y
            BY <3>1, <3>2
        <3>4. x \in Seq(Tokens) /\ Len(x) \in Nat
            BY <1>1, LenProperties DEF Texts
        <3>5. j \in 0 .. n /\ j < k
            BY <1>1, <2>4, <3>1, <3>2, <3>4
        <3>6. y \in Seq(Tokens)
            BY <1>7, <3>5 DEF Texts
        <3>7. ReadsEach(j)
            BY <2>3, <2>4, <3>5
        <3>8. PICK u \in ItemStarts[kind] : /\ <<u, inside>> \in C
                                            /\ Takes(Past(inside), "comma", <<u, inside>>)
            <4>1. CASE kind = "array"
                <5>1. "arrayValue" \in ItemStarts[kind] /\ "arrayValue" \in States
                    BY <4>1 DEF ItemStarts, States, ValueStates
                <5>2. Takes(Past(inside), "comma", <<"arrayValue", inside>>)
                    BY <1>5, <4>1, Grammar DEF Takes
                <5> QED BY <1>4, <5>1, <5>2
            <4>2. CASE kind = "object"
                <5>1. "name" \in ItemStarts[kind] /\ "name" \in States
                    BY <4>2 DEF ItemStarts, States, ValueStates
                <5>2. Takes(Past(inside), "comma", <<"name", inside>>)
                    BY <1>5, <4>2, Grammar DEF Takes
                <5> QED BY <1>4, <5>1, <5>2
            <4> QED BY <4>1, <4>2, Grammar
        <3>9. ReadsIn(C, <<t, inside>>, x, Past(inside))
            BY <1>6
        <3>10. ReadsIn(C, Past(inside), <<"comma">>, <<u, inside>>) /\ <<"comma">> \in Seq(Tokens)
            BY <1>5, <3>8, ReadsOne DEF Tokens
        <3>11. ReadsIn(C, <<u, inside>>, y, Past(inside))
            BY <3>7
        <3> DEFINE comma == One("comma")
        <3>12. comma \in Seq(Tokens) /\ ReadsIn(C, Past(inside), comma, <<u, inside>>)
            BY <3>10 DEF One
        <3>13. l = Glue(Glue(x, comma), y)
            BY <3>3 DEF Glue, One
        <3> HIDE DEF comma
        <3>14. ReadsIn(C, <<t, inside>>, Glue(x, comma), <<u, inside>>) /\ Glue(x, comma) \in Seq(Tokens)
            BY <3>4, <3>9, <3>12, ReadsGlued, Glued
        <3>15. ReadsIn(C, <<t, inside>>, l, Past(inside))
            BY <3>6, <3>11, <3>13, <3>14, ReadsGlued
        <3> QED BY <2>5, <3>15
    <2> QED BY <2>7, <2>8, <2>9
<1>9. list \in f[n] /\ n \in 0 .. n
    BY <1>1 DEF ListsIn, f, Items, n
<1>10. ReadsEach(n)
    BY <1>8, <1>9
<1> QED BY <1>9, <1>10 DEF C

\* A value whose items are of level d.
LEMMA NestRead ==
    ASSUME NEW m \in 0 .. MaxNesting, NEW d \in 0 .. MaxNesting, ReadsLevel(m, d),
           NEW p \in Nested(m), p[1] \in ValueStates, Len(p[2]) + d + 1 <= m,
           NEW text \in Json!Nest(Json!Values[d])
    PROVE  ReadsIn(Nested(m), p, text, Past(p[2]))
<1>1. CASE text \in Json!Scalars
    BY <1>1, ScalarRead, BoundsAssumption
<1>2. ASSUME NEW kind \in Kinds, NEW list \in {<< >>} \union ListsIn(kind, Json!Values[d]),
             text = Bracketed(kind, list)
      PROVE  ReadsIn(Nested(m), p, text, Past(p[2]))
    <2>1. PICK stack \in Seq(Kinds) : stack = p[2]
        BY DEF Nested, Configs
    <2>2. PICK inside \in Seq(Kinds) : inside = Append(stack, kind)
        <3>1. Append(stack, kind) \in Seq(Kinds)
            OBVIOUS
        <3> QED BY <3>1
    <2>3. /\ Len(stack) \in Nat /\ d \in Nat /\ m \in Nat /\ Len(stack) < m
          /\ Len(inside) = Len(stack) + 1
        BY <2>1, <2>2, BoundsAssumption, LenProperties
    <2>4. /\ inside # << >> /\ inside[Len(inside)] = kind /\ Outer(inside) = stack
          /\ Past(inside) = <<AfterItem[kind], inside>>
        BY <2>2, <2>3, Levels
    <2>5. Len(inside) + d <= m /\ Len(inside) <= m /\ Len(stack) <= m
        BY <2>1, <2>3
    <2> DEFINE C == Nested(m)
               a == <<First[kind], inside>>
               open1 == <<Opener[kind]>>
               shut1 == <<Closer[kind]>>
    <2>6. a \in C /\ Past(inside) \in C /\ Past(stack) \in C
        <3>1. First[kind] \in States
            BY Grammar DEF States, ValueStates
        <3> QED BY <2>3, <2>5, <3>1, PastIsNested DEF Nested, Configs
    <2>7. Takes(p, Opener[kind], a)
        BY <2>1, <2>2 DEF Takes
    <2>8. Takes(Past(inside), Closer[kind], Past(stack)) /\ Takes(a, Closer[kind], Past(stack))
        BY <2>4 DEF Takes, Past
    <2> HIDE DEF C, a
    <2>9. ReadsIn(C, p, open1, a)
        BY <2>6, <2>7, ReadsOne DEF C
    <2>10. open1 \in Seq(Tokens) /\ shut1 \in Seq(Tokens)
        BY Grammar DEF Tokens
    <2>11. CASE list = << >>
        <3>1. ReadsIn(C, a, shut1, Past(stack))
            BY <2>6, <2>8, ReadsOne
        <3>2. text = open1 \o shut1
            BY <1>2, <2>11 DEF Bracketed
        <3> HIDE DEF open1, shut1
        <3> QED BY <2>1, <2>9, <2>10, <3>1, <3>2, ReadsOn DEF C
    <2>12. CASE list # << >>
        <3>1. list \in ListsIn(kind, Json!Values[d])
            BY <2>12
        <3>2. list \in Seq(Tokens)
            BY <3>1, ListsInAreTexts, ValuesAreTexts DEF Texts
        <3>3. First[kind] \in ItemStarts[kind]
            BY Grammar DEF ItemStarts
        <3>4. ReadsIn(C, a, list, Past(inside))
            BY <2>4, <2>5, <3>1, <3>3, ListRead DEF C, a
        <3>5. ReadsIn(C, Past(inside), shut1, Past(stack))
            BY <2>6, <2>8, ReadsOne
        <3> DEFINE begun == open1 \o list
        <3>6. text = begun \o shut1
            BY <1>2 DEF Bracketed
        <3> HIDE DEF open1, shut1
        <3>7. ReadsIn(C, p, begun, Past(inside)) /\ begun \in Seq(Tokens)
            BY <2>9, <2>10, <3>2, <3>4, ReadsOn
        <3> HIDE DEF begun
        <3> QED BY <2>1, <2>10, <3>5, <3>6, <3>7, ReadsOn DEF C
    <2> QED BY <2>11, <2>12
<1>3. Json!Values[d] \in SUBSET Texts
    BY ValuesAreTexts
<1>4. \/ text \in Json!Scalars
      \/ \E kind \in Kinds :
            \E list \in {<< >>} \union ListsIn(kind, Json!Values[d]) : text = Bracketed(kind, list)
    BY <1>3, NestIs
<1> QED BY <1>1, <1>2, <1>4

\* So every level is read, by the lowest that would not be.
LEMMA LevelRead ==
    ASSUME NEW m \in 0 .. MaxNesting, NEW d \in 0 .. MaxNesting
    PROVE  ReadsLevel(m, d)
<1> DEFINE D == {j \in 0 .. MaxNesting : ~ReadsLevel(m, j)}
<1>1. D = {}
    <2>1. SUFFICES ASSUME D # {} PROVE FALSE
        OBVIOUS
    <2>2. D \in SUBSET Nat /\ MaxNesting \in Nat /\ m \in Nat
        BY BoundsAssumption
    <2>3. PICK k \in D : \A j \in D : k <= j
        BY <2>1, <2>2, LeastNat
    <2>4. k \in 0 .. MaxNesting /\ k \in Nat
        BY <2>2
    <2>5. PICK p \in Nested(m), text \in Json!Values[k] :
            /\ p[1] \in ValueStates /\ Len(p[2]) + k <= m
            /\ ~ReadsIn(Nested(m), p, text, Past(p[2]))
        BY <2>3 DEF ReadsLevel
    <2>6. CASE k = 0
        <3>1. text \in Json!Scalars
            BY <2>4, <2>6, ValuesAre
        <3> QED BY <2>2, <2>5, <3>1, ScalarRead
    <2>7. CASE k # 0
        <3>1. PICK j \in 0 .. MaxNesting : j = k - 1
            <4>1. k - 1 \in 0 .. MaxNesting
                BY <2>2, <2>4, <2>7
            <4> QED BY <4>1
        <3>2. text \in Json!Nest(Json!Values[j])
            BY <2>4, <2>7, <3>1, ValuesAre
        <3>3. ReadsLevel(m, j)
            <4>1. ~(k <= j)
                BY <2>4, <3>1
            <4> QED BY <2>3, <4>1
        <3>4. Len(p[2]) + j + 1 <= m
            <4>1. Len(p[2]) \in Nat
                <5>1. p[2] \in Seq(Kinds)
                    BY DEF Nested, Configs
                <5> QED BY <5>1, LenProperties
            <4> QED BY <2>4, <2>5, <3>1, <4>1
        <3> QED BY <2>5, <3>2, <3>3, <3>4, NestRead
    <2> QED BY <2>6, <2>7
<1> QED BY <1>1

\* A value nested at most m deep is read from the start to the end within m open containers.
THEOREM ValueIsRead ==
    ASSUME NEW m \in 0 .. MaxNesting, NEW text \in Json!Values[m]
    PROVE  ReadsIn(Nested(m), Start, text, Done)
<1>1. m \in Nat /\ << >> \in Seq(Kinds) /\ Len(<< >>) = 0
    BY BoundsAssumption
<1>2. Start[1] \in ValueStates /\ Start[2] = << >> /\ Start \in Nested(m) /\ Len(Start[2]) + m <= m
    <2>1. Start[1] \in ValueStates /\ Start[2] = << >> /\ Start \in Configs
        BY <1>1 DEF Start, Configs, States, ValueStates
    <2>2. Len(Start[2]) <= m /\ Len(Start[2]) + m <= m
        BY <1>1, <2>1
    <2> QED BY <2>1, <2>2 DEF Nested
<1>3. Past(<< >>) = Done
    BY DEF Past, Around, Done
<1>4. ReadsLevel(m, m)
    BY LevelRead
<1> QED BY <1>2, <1>3, <1>4 DEF ReadsLevel

-----------------------------------------------------------------------------
(* Where a text may go on.                                                 *)

\* What a viable text is the start of.
LEMMA ViableIs ==
    ASSUME NEW m \in 0 .. MaxNesting, NEW x
    PROVE  x \in Json!Viable[m] <=>
              \E v \in Json!Values[m] : \E k \in 0 .. Len(v \o <<"end">>) : x = SubSeq(v \o <<"end">>, 1, k)
<1>1. Json!Viable[m] = Json!PrefixesOf(Json!Documents[m])
    BY DEF Json!Viable
<1>2. Json!Documents[m] = {v \o <<"end">> : v \in Json!Values[m]}
    BY DEF Json!Documents
<1> DEFINE texts == Json!Documents[m]
<1>3. x \in Json!PrefixesOf(texts) <=> \E t \in texts : \E k \in 0 .. Len(t) : x = SubSeq(t, 1, k)
    <2> HIDE DEF texts
    <2> QED BY DEF Json!PrefixesOf
<1> QED BY <1>1, <1>2, <1>3

\* The start of a value is viable.
LEMMA PrefixIsViable ==
    ASSUME NEW m \in 0 .. MaxNesting, NEW x \in Seq(Tokens), NEW y \in Seq(Tokens),
           x \o y \in Json!Values[m]
    PROVE  x \in Json!Viable[m]
<1> DEFINE S == Tokens \union {"end"}
           v == x \o y
           text == v \o <<"end">>
<1>1. x \in Seq(S) /\ y \in Seq(S) /\ v \in Seq(S) /\ <<"end">> \in Seq(S)
    OBVIOUS
<1>2. PICK k \in Nat, n \in Nat : k = Len(x) /\ n = Len(v) /\ k <= n
    BY LenProperties, ConcatProperties
<1>3. text \in Seq(S) /\ Len(text) = n + 1 /\ \A i \in 1 .. n : text[i] = v[i]
    <2> HIDE DEF v
    <2> QED BY <1>1, <1>2
<1>4. \A i \in 1 .. k : v[i] = x[i]
    BY <1>1, <1>2
<1> HIDE DEF v, text
<1>5. SubSeq(text, 1, k) = x
    <2>1. \A i \in 1 .. k : text[i] = x[i] /\ x[i] \in S
        BY <1>1, <1>2, <1>3, <1>4, ElementOfSeq
    <2>2. SubSeq(text, 1, k) \in Seq(S) /\ Len(SubSeq(text, 1, k)) = k
        BY <1>2, <1>3
    <2>3. \A i \in 1 .. k : SubSeq(text, 1, k)[i] = x[i]
        BY <1>2, <1>3, <2>1
    <2> HIDE DEF S
    <2> QED BY <1>1, <1>2, <2>2, <2>3, SeqEqual
<1>6. k \in 0 .. Len(text)
    BY <1>2, <1>3
<1>7. v \in Json!Values[m]
    BY DEF v
<1> QED BY <1>5, <1>6, <1>7, ViableIs DEF text

\* Where no step takes the token that comes, no value goes on with it; nor does one end
\* unless the automaton is at its end.
THEOREM StuckIsNotViable ==
    ASSUME NEW m \in 0 .. MaxNesting, NEW r \in Seq(Tokens), NEW t, NEW q \in Nested(m),
           ReadsIn(Nested(m), Start, r, q),
           ~ \E c \in Nested(m) : Takes(q, t, c),
           t = "end" => q # Done
    PROVE  Append(r, t) \notin Json!Viable[m]
<1> DEFINE C == Nested(m)
<1>1. SUFFICES ASSUME Append(r, t) \in Json!Viable[m] PROVE FALSE
    OBVIOUS
<1>2. PICK v \in Json!Values[m] :
        \E k \in 0 .. Len(v \o <<"end">>) : Append(r, t) = SubSeq(v \o <<"end">>, 1, k)
    BY <1>1, ViableIs
<1> DEFINE S == Tokens \union {"end"}
           text == v \o <<"end">>
<1>3. v \in Seq(Tokens) /\ v \in Seq(S) /\ r \in Seq(S)
    BY ValuesAreTexts DEF Texts
<1>4. PICK n \in Nat, l \in Nat : n = Len(v) /\ l = Len(r)
    BY LenProperties
<1>5. /\ text \in Seq(S) /\ Len(text) = n + 1 /\ text[n + 1] = "end"
      /\ \A i \in 1 .. n : text[i] = v[i]
    BY <1>3, <1>4
<1>6. PICK k \in 0 .. n + 1 : Append(r, t) = SubSeq(text, 1, k)
    BY <1>2, <1>5
<1> HIDE DEF text, C
<1>7. Len(Append(r, t)) = l + 1 /\ Append(r, t)[l + 1] = t /\ \A i \in 1 .. l : Append(r, t)[i] = r[i]
    <2>1. r \in Seq(S \union {t}) /\ t \in S \union {t}
        BY <1>3
    <2> QED BY <1>4, <2>1
<1>8. k = l + 1
    <2>1. Len(SubSeq(text, 1, k)) = k
        BY <1>5
    <2> QED BY <1>6, <1>7, <2>1
<1>9. t = text[l + 1] /\ \A i \in 1 .. l : r[i] = text[i]
    <2>1. \A i \in 1 .. k : SubSeq(text, 1, k)[i] = text[i]
        BY <1>5
    <2> QED BY <1>4, <1>6, <1>7, <1>8, <2>1
<1>10. ReadsIn(C, Start, v, Done)
    BY ValueIsRead DEF C
<1>11. CASE l = n
    <2>1. t = "end"
        BY <1>5, <1>9, <1>11
    <2>2. v = r
        <3>1. \A i \in 1 .. n : v[i] = r[i]
            BY <1>5, <1>9, <1>11
        <3> QED BY <1>3, <1>4, <1>11, <3>1, SeqEqual
    <2> QED BY <1>10, <2>1, <2>2, ReadsOnce DEF C
<1>12. CASE l < n
    <2> DEFINE rest == SubSeq(v, l + 2, n)
    <2>1. t = v[l + 1] /\ l + 1 \in 1 .. n
        BY <1>4, <1>5, <1>9, <1>12
    <2>2. t \in Tokens
        BY <1>3, <1>4, <2>1, ElementOfSeq
    <2>3. rest \in Seq(Tokens) /\ Len(rest) = n - l - 1 /\ \A i \in 1 .. n - l - 1 : rest[i] = v[l + 1 + i]
        BY <1>3, <1>4, <2>1
    <2> HIDE DEF rest
    <2>4. One(t) \in Seq(Tokens) /\ Len(One(t)) = 1 /\ One(t)[1] = t /\ One(t) # << >>
        BY <2>2 DEF One
    <2> DEFINE more == One(t) \o rest
    <2>5. /\ more \in Seq(Tokens) /\ Len(more) = n - l /\ more[1] = t
          /\ \A i \in 2 .. n - l : more[i] = v[l + i]
        <3>1. /\ more \in Seq(Tokens) /\ Len(more) = Len(One(t)) + Len(rest)
              /\ \A i \in 1 .. Len(One(t)) + Len(rest) :
                    more[i] = IF i <= Len(One(t)) THEN One(t)[i] ELSE rest[i - Len(One(t))]
            <4>1. rest \in Seq(Tokens) /\ One(t) \in Seq(Tokens)
                BY <2>3, <2>4
            <4> QED BY <4>1, ConcatProperties
        <3> HIDE DEF more
        <3>2. Len(more) = n - l
            BY <1>4, <2>1, <2>3, <2>4, <3>1
        <3>3. more[1] = t
            BY <1>4, <2>1, <2>3, <2>4, <3>1
        <3>4. ASSUME NEW i \in 2 .. n - l PROVE more[i] = v[l + i]
            <4>1. i \in 1 .. 1 + (n - l - 1) /\ ~(i <= 1) /\ i - 1 \in 1 .. n - l - 1 /\ l + 1 + (i - 1) = l + i
                BY <1>4, <2>1
            <4>2. more[i] = rest[i - 1]
                BY <1>4, <2>3, <2>4, <3>1, <4>1
            <4> QED BY <2>3, <4>1, <4>2
        <3> QED BY <3>1, <3>2, <3>3, <3>4
    <2> HIDE DEF more
    <2>6. v = r \o more
        <3> DEFINE w == r \o more
        <3>0. /\ w \in Seq(Tokens) /\ Len(w) = Len(r) + Len(more)
              /\ \A i \in 1 .. Len(r) + Len(more) : w[i] = IF i <= Len(r) THEN r[i] ELSE more[i - Len(r)]
            BY <2>5, ConcatProperties
        <3> HIDE DEF w
        <3>1. w \in Seq(Tokens) /\ Len(w) = n
            BY <1>4, <1>12, <2>5, <3>0
        <3>2. ASSUME NEW i \in 1 .. n PROVE v[i] = w[i]
            <4>1. CASE i <= l
                <5>1. w[i] = r[i]
                    BY <1>4, <1>12, <2>5, <3>0, <4>1
                <5>2. r[i] = v[i]
                    BY <1>4, <1>5, <1>9, <4>1
                <5> QED BY <5>1, <5>2
            <4>2. CASE i > l
                <5>1. i - l \in 1 .. n - l /\ i \in 1 .. l + (n - l) /\ ~(i <= l)
                    BY <1>4, <1>12, <4>2
                <5>2. w[i] = more[i - l]
                    BY <1>4, <2>5, <3>0, <5>1
                <5>3. CASE i - l = 1
                    <6>1. i = l + 1
                        BY <1>4, <5>3
                    <6> QED BY <2>1, <2>5, <5>2, <5>3, <6>1
                <5>4. CASE i - l # 1
                    <6>1. i - l \in 2 .. n - l /\ l + (i - l) = i
                        BY <1>4, <5>1, <5>4
                    <6> QED BY <2>5, <5>2, <6>1
                <5> QED BY <5>3, <5>4
            <4> QED BY <1>4, <4>1, <4>2
        <3>3. v = w
            BY <1>3, <1>4, <3>1, <3>2, SeqEqual
        <3> QED BY <3>3 DEF w
    <2>7. PICK c \in C : ReadsIn(C, Start, r, c) /\ ReadsIn(C, c, more, Done)
        BY <1>10, <2>5, <2>6, ReadsBoth
    <2>8. c = q
        BY <2>7, ReadsOnce DEF C
    <2>9. more # << >>
        BY <1>4, <1>12, <2>5
    <2>10. PICK d \in C : Takes(q, more[1], d)
        BY <2>5, <2>7, <2>8, <2>9, FirstTaken
    <2> QED BY <2>5, <2>10 DEF C
<1>13. l = n \/ l < n
    BY <1>4, <1>8
<1> QED BY <1>11, <1>12, <1>13

-----------------------------------------------------------------------------
(* What the caller has written is the start of a value it may complete.    *)

\* Where the innermost container may close.
LEMMA CloserTaken ==
    ASSUME NEW stack \in Seq(Kinds), stack # << >>, NEW kind \in Kinds, kind = stack[Len(stack)],
           NEW s \in {First[kind], AfterItem[kind]}
    PROVE  /\ <<s, stack>> \in Configs /\ Past(Outer(stack)) \in Configs
           /\ Takes(<<s, stack>>, Closer[kind], Past(Outer(stack)))
           /\ Outer(stack) \in Seq(Kinds) /\ Len(Outer(stack)) = Len(stack) - 1
<1>1. Outer(stack) \in Seq(Kinds) /\ Len(Outer(stack)) = Len(stack) - 1
    BY DEF Outer
<1>2. s \in States
    BY Grammar DEF States, ValueStates
<1>3. Takes(<<s, stack>>, Closer[kind], Past(Outer(stack)))
    BY DEF Takes, Past
<1>4. Past(Outer(stack)) \in Configs
    BY <1>1, AroundIsState DEF Past, Configs
<1> QED BY <1>1, <1>2, <1>3, <1>4 DEF Configs

\* One token, and then a text.
LEMMA ReadsFirst ==
    ASSUME NEW p \in Configs, NEW q \in Configs, NEW t \in Tokens, Takes(p, t, q),
           NEW z \in Seq(Tokens), Reads(q, z, Done)
    PROVE  \E x \in Seq(Tokens) : Len(x) = Len(z) + 1 /\ Reads(p, x, Done)
<1>1. Reads(p, One(t), q)
    BY ReadsOne DEF Reads, One
<1>2. One(t) \in Seq(Tokens) /\ Len(One(t)) = 1
    BY DEF One
<1>3. Reads(p, Glue(One(t), z), Done)
    BY <1>1, <1>2, ReadsGlued DEF Reads
<1>4. Glue(One(t), z) \in Seq(Tokens) /\ Len(Glue(One(t), z)) = Len(One(t)) + Len(z)
    BY <1>2, ConcatProperties DEF Glue
<1>5. Len(z) \in Nat
    BY LenProperties
<1> QED BY <1>2, <1>3, <1>4, <1>5

\* Past a value, one closer for each open container leads to the end.
LEMMA ClosersFollow ==
    ASSUME NEW stack \in Seq(Kinds)
    PROVE  \E z \in Seq(Tokens) : Len(z) = Len(stack) /\ Reads(Past(stack), z, Done)
<1> DEFINE Closes(x) == \E z \in Seq(Tokens) : Len(z) = Len(x) /\ Reads(Past(x), z, Done)
           Fails(n) == \E x \in Seq(Kinds) : Len(x) = n /\ ~Closes(x)
           D == {n \in Nat : Fails(n)}
<1>1. D = {}
    <2>1. SUFFICES ASSUME D # {} PROVE FALSE
        OBVIOUS
    <2>2. D \in SUBSET Nat
        OBVIOUS
    <2>3. PICK n \in D : \A j \in D : n <= j
        BY <2>1, <2>2, LeastNat
    <2>4. PICK x \in Seq(Kinds) : Len(x) = n /\ ~Closes(x)
        BY <2>3
    <2>5. CASE x = << >>
        <3>1. Past(x) = Done /\ Done \in Configs
            <4>1. << >> \in Seq(Kinds)
                OBVIOUS
            <4> QED BY <2>5, <4>1 DEF Past, Around, Done, Configs, States
        <3>2. Reads(Past(x), << >>, Done)
            BY <3>1, ReadsNothing DEF Reads
        <3>3. << >> \in Seq(Tokens) /\ Len(<< >>) = Len(x)
            BY <2>5
        <3> QED BY <2>4, <3>2, <3>3
    <2>6. CASE x # << >>
        <3>1. PICK kind \in Kinds : kind = x[Len(x)]
            BY <2>6, AroundIsState
        <3>2. Past(x) = <<AfterItem[kind], x>> /\ Closer[kind] \in Tokens
            BY <2>6, <3>1, Grammar DEF Past, Around, Tokens
        <3>3. /\ Past(x) \in Configs /\ Past(Outer(x)) \in Configs
              /\ Takes(Past(x), Closer[kind], Past(Outer(x)))
              /\ Outer(x) \in Seq(Kinds) /\ Len(Outer(x)) = Len(x) - 1
            BY <2>6, <3>1, <3>2, CloserTaken
        <3>4. Len(x) \in Nat /\ Len(Outer(x)) \in Nat /\ ~(n <= Len(Outer(x)))
            BY <2>4, <3>3, LenProperties
        <3>5. Closes(Outer(x))
            <4>1. ~Fails(Len(Outer(x)))
                BY <2>3, <3>4
            <4> QED BY <3>3, <4>1
        <3>6. PICK z \in Seq(Tokens) : Len(z) = Len(Outer(x)) /\ Reads(Past(Outer(x)), z, Done)
            BY <3>5
        <3>7. \E y \in Seq(Tokens) : Len(y) = Len(z) + 1 /\ Reads(Past(x), y, Done)
            BY <3>2, <3>3, <3>6, ReadsFirst
        <3>8. Len(z) + 1 = Len(x)
            BY <3>3, <3>4, <3>6
        <3> QED BY <2>4, <3>7, <3>8
    <2> QED BY <2>5, <2>6
<1>2. Len(stack) \in Nat
    BY LenProperties
<1>3. ~Fails(Len(stack))
    BY <1>1, <1>2
<1> QED BY <1>3

\* The value that is owed and the closers lead from now to the end.
LEMMA MayComplete ==
    ASSUME IInv, buf # << >>
    PROVE  \E rest \in Seq(Tokens) : Len(buf) + Len(rest) = Completed /\ Reads(Now, rest, Done)
<1>1. /\ open \in Seq(Kinds) /\ owed \in BOOLEAN /\ needSep \in BOOLEAN /\ buf \in Seq(Tokens)
      /\ owed => needSep = TRUE /\ open # << >>
    BY Zenon DEF IInv, TypeOK
<1>2. Len(buf) \in Nat /\ Len(open) \in Nat
    BY <1>1, LenProperties
<1>3. CASE owed
    <2>1. Now \in Configs /\ Now[1] \in ValueStates /\ Now[2] = open
        BY <1>3, ValueComes
    <2>2. Takes(Now, "scalar", Past(open)) /\ "scalar" \in Tokens
        BY <2>1 DEF Takes, Past, Tokens
    <2>3. Past(open) \in Configs
        BY <1>1, AroundIsState DEF Past, Configs
    <2>4. PICK z \in Seq(Tokens) : Len(z) = Len(open) /\ Reads(Past(open), z, Done)
        BY <1>1, ClosersFollow
    <2>5. PICK x \in Seq(Tokens) : Len(x) = Len(z) + 1 /\ Reads(Now, x, Done)
        BY <2>1, <2>2, <2>3, <2>4, ReadsFirst
    <2>6. Len(buf) + Len(x) = Completed
        BY <1>2, <1>3, <2>4, <2>5 DEF Completed
    <2> QED BY <2>5, <2>6
<1>4. CASE ~owed /\ open = << >>
    <2>1. Now = Done
        BY <1>4 DEF Now, Follows, Done
    <2>2. Done \in Configs
        <3>1. << >> \in Seq(Kinds)
            OBVIOUS
        <3> QED BY <3>1 DEF Done, Configs, States
    <2>3. Reads(Now, << >>, Done)
        BY <2>1, <2>2, ReadsNothing DEF Reads
    <2>4. << >> \in Seq(Tokens) /\ Len(<< >>) = 0 /\ Len(open) = 0
        BY <1>4
    <2>5. Len(buf) + Len(<< >>) = Completed
        BY <1>2, <1>4, <2>4 DEF Completed
    <2> QED BY <2>3, <2>4, <2>5
<1>5. CASE ~owed /\ open # << >>
    <2>1. PICK kind \in Kinds : kind = open[Len(open)]
        BY <1>1, <1>5, AroundIsState
    <2>2. PICK s \in {First[kind], AfterItem[kind]} : Now = <<s, open>>
        BY <1>5, <2>1 DEF Now, Follows
    <2>3. /\ Now \in Configs /\ Past(Outer(open)) \in Configs
          /\ Takes(Now, Closer[kind], Past(Outer(open)))
          /\ Outer(open) \in Seq(Kinds) /\ Len(Outer(open)) = Len(open) - 1
        BY <1>1, <1>5, <2>1, <2>2, CloserTaken
    <2>4. PICK z \in Seq(Tokens) : Len(z) = Len(Outer(open)) /\ Reads(Past(Outer(open)), z, Done)
        BY <2>3, ClosersFollow
    <2>5. Closer[kind] \in Tokens
        BY Grammar DEF Tokens
    <2>6. PICK x \in Seq(Tokens) : Len(x) = Len(z) + 1 /\ Reads(Now, x, Done)
        BY <2>3, <2>4, <2>5, ReadsFirst
    <2>7. Len(buf) + Len(x) = Completed
        BY <1>2, <1>5, <2>3, <2>4, <2>6 DEF Completed
    <2> QED BY <2>6, <2>7
<1> QED BY <1>3, <1>4, <1>5

\* A text that is read to the end is a value, of as many tokens and as deep as that takes.
LEMMA CompleteIsValue ==
    ASSUME NEW text \in Seq(Tokens), Reads(Start, text, Done),
           Len(text) <= MaxWritten, Len(text) \div 2 <= MaxNesting
    PROVE  text \in Json!Values[MaxNesting]
<1>1. Nested(Len(text) \div 2) \subseteq Nested(MaxNesting)
    <2>1. PICK d \in Nat, n \in Nat : d = Len(text) \div 2 /\ n = MaxNesting /\ d <= n
        <3>1. Len(text) \in Nat /\ MaxNesting \in Nat
            BY LenProperties, BoundsAssumption
        <3>2. Len(text) \div 2 \in Nat
            BY <3>1
        <3> QED BY <3>1, <3>2
    <2>2. ASSUME NEW c \in Nested(d) PROVE c \in Nested(n)
        <3>1. c \in Configs /\ c[2] \in Seq(Kinds) /\ Len(c[2]) <= d
            BY DEF Nested, Configs
        <3>2. Len(c[2]) \in Nat
            BY <3>1, LenProperties
        <3>3. Len(c[2]) <= n
            BY <2>1, <3>1, <3>2
        <3> QED BY <3>1, <3>3 DEF Nested
    <2> QED BY <2>1, <2>2
<1>2. ReadsIn(Nested(MaxNesting), Start, text, Done)
    BY <1>1, Shallow, Widened
<1>3. MaxNesting \in 0 .. MaxNesting
    BY BoundsAssumption
<1> QED BY <1>2, <1>3, ReadIsValue

\* What the caller has written, completed, is read to the end, and so is a value.
LEMMA TextIsValue == IInv => WritesValues
<1> SUFFICES ASSUME IInv PROVE WritesValues
    OBVIOUS
<1>1. CommaWhenDue
    BY Due
<1>2. ASSUME buf # << >>, Completed <= MaxWritten, Completed \div 2 <= MaxNesting
      PROVE  buf \in IF open = << >> THEN Json!Values[MaxNesting] ELSE Json!Viable[MaxNesting]
    <2>1. buf \in Seq(Tokens) /\ Reads(Start, buf, Now)
        BY DEF IInv, TypeOK, WellFormed
    <2>2. PICK rest \in Seq(Tokens) : Len(buf) + Len(rest) = Completed /\ Reads(Now, rest, Done)
        BY <1>2, MayComplete
    <2>3. PICK text \in Seq(Tokens) : text = buf \o rest /\ Len(text) = Completed
        <3>1. buf \o rest \in Seq(Tokens) /\ Len(buf \o rest) = Len(buf) + Len(rest)
            BY <2>1, ConcatProperties
        <3> QED BY <2>2, <3>1
    <2>4. Reads(Start, text, Done)
        BY <2>1, <2>2, <2>3, ReadsOn DEF Reads
    <2>5. text \in Json!Values[MaxNesting]
        BY <1>2, <2>3, <2>4, CompleteIsValue
    <2>6. CASE open = << >>
        <3>1. Now = Done
            BY <1>2, <2>6 DEF Now, Follows, Done
        <3>2. Len(buf) \in Nat /\ ReadsIn(Configs, Start, buf, Done)
            BY <2>1, <3>1, LenProperties DEF Reads
        <3>3. Completed = Len(buf)
            <4>1. ~owed
                BY <2>6, Zenon DEF IInv
            <4>2. Len(open) = 0
                BY <2>6
            <4> QED BY <3>2, <4>1, <4>2 DEF Completed
        <3>4. buf \in Json!Values[MaxNesting]
            BY <1>2, <2>1, <3>2, <3>3, CompleteIsValue DEF Reads
        <3> QED BY <2>6, <3>4
    <2>7. CASE open # << >>
        <3>1. MaxNesting \in 0 .. MaxNesting
            BY BoundsAssumption
        <3>2. buf \in Json!Viable[MaxNesting]
            BY <2>1, <2>3, <2>5, <3>1, PrefixIsViable
        <3> QED BY <2>7, <3>2
    <2> QED BY <2>6, <2>7
<1> QED BY <1>1, <1>2 DEF WritesValues

\* Whatever the caller writes under its contract is the start of a value of the grammar,
\* and is that value once everything opened is closed: for every bound on the text and on
\* how deep it nests, within which it can be completed ("JSON to a buffer", sep).
THEOREM WrittenIsValue == Spec => []WritesValues
BY Invariance, TextIsValue, PTL
=============================================================================
