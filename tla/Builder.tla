------------------------------- MODULE Builder -------------------------------
(***************************************************************************)
(* The Builder of builder.go and fieldkey.go: it appends JSON to a buffer  *)
(* and keeps one bit, needSep, that says whether the next field or element *)
(* takes a comma.  It knows nothing of the containers that are open: every *)
(* opener clears the bit and every closer sets it, which is right only if  *)
(* the closed container was an item of the one around it.                  *)
(*                                                                         *)
(* The caller makes the calls that the comments of the code allow: fields  *)
(* in objects, elements in arrays, closers for what it opened, and one     *)
(* value after a key or a comma that it left alone with an empty raw.  The *)
(* buffer is a sequence of tokens; any scalar, or raw value, is a scalar.  *)
(***************************************************************************)
EXTENDS Naturals, Sequences

CONSTANT Lengths    \* how many strings or members one call may write

ASSUME LengthsAssumption == Lengths \subseteq Nat

VARIABLES
    buf, needSep,   \* the Builder's fields
    open,           \* the caller's: the kinds of the containers that it opened
    owed            \* the caller's: a value must come that takes no separator

builder == <<buf, needSep>>
vars    == <<buf, needSep, open, owed>>

Kinds  == {"object", "array"}
Opener == [object |-> "openObject", array |-> "openArray"]
Closer == [object |-> "closeObject", array |-> "closeArray"]

\* A key, and the comma before it or before an element when one is due.
KeyTokens == <<"string", "colon">>

Comma == IF needSep THEN <<"comma">> ELSE << >>

\* precomputedKey cuts the comma off the prefix unless it is due.
Prefix == <<"comma">> \o KeyTokens
Precomputed == IF needSep THEN Prefix ELSE SubSeq(Prefix, 2, Len(Prefix))

\* The two ways to write the key of a field.
FieldKeys == {Comma \o KeyTokens, Precomputed}

\* n copies of item with commas between them.
Listed(item, n) ==
    LET width == Len(item) + 1
    IN  [k \in 1 .. (IF n = 0 THEN 0 ELSE width * n - 1) |->
            (item \o <<"comma">>)[((k - 1) % width) + 1]]

\* appendStringArray of n strings, by BeginArray, AddStringElement and EndArray.
StringArray(n) == <<"openArray">> \o Listed(<<"scalar">>, n) \o <<"closeArray">>

\* What the value writers write: a scalar, or an array of strings.
Written == {<<"scalar">>} \union {StringArray(n) : n \in Lengths}

Init == buf = << >> /\ needSep = FALSE /\ open = << >> /\ owed = FALSE

Within(kind) == open # << >> /\ open[Len(open)] = kind /\ ~owed

\* The Field and FieldKey writers of values, and AddRawJSONField of a raw value.
Field == \E key \in FieldKeys, value \in Written :
    /\ Within("object")
    /\ buf' = buf \o key \o value
    /\ needSep' = TRUE
    /\ UNCHANGED <<open, owed>>

\* BeginObjectField, BeginArrayField and their FieldKey twins.
BeginField(kind) == \E key \in FieldKeys :
    /\ Within("object")
    /\ buf' = buf \o key \o <<Opener[kind]>>
    /\ needSep' = FALSE
    /\ open' = Append(open, kind)
    /\ UNCHANGED owed

\* AddRawJSONField, AddRawBytesField and AddRawJSONFieldKey of an empty raw.
KeyAlone == \E key \in FieldKeys :
    /\ Within("object")
    /\ buf' = buf \o key
    /\ needSep' = TRUE
    /\ owed' = TRUE
    /\ UNCHANGED open

\* The Element writers.
Element == \E value \in Written :
    /\ Within("array")
    /\ buf' = buf \o Comma \o value
    /\ needSep' = TRUE
    /\ UNCHANGED <<open, owed>>

\* BeginObjectElement and BeginArrayElement.
BeginElement(kind) ==
    /\ Within("array")
    /\ buf' = buf \o Comma \o <<Opener[kind]>>
    /\ needSep' = FALSE
    /\ open' = Append(open, kind)
    /\ UNCHANGED owed

\* AddRawJSONElement of an empty raw.
CommaAlone ==
    /\ Within("array")
    /\ buf' = buf \o Comma
    /\ needSep' = TRUE
    /\ owed' = TRUE
    /\ UNCHANGED open

Members(n) == Listed(<<"string", "colon", "scalar">>, n)

\* Mutant of RawMembers: an object without a member writes its comma.
RawMembersAlways == \E n \in Lengths :
    /\ Within("object")
    /\ buf' = buf \o Comma \o Members(n)
    /\ needSep' = TRUE
    /\ UNCHANGED <<open, owed>>

\* AddRawMembers of an object of n members.
RawMembers == \E n \in Lengths :
    /\ Within("object")
    /\ IF n = 0
       THEN UNCHANGED builder
       ELSE buf' = buf \o Comma \o Members(n) /\ needSep' = TRUE
    /\ UNCHANGED <<open, owed>>

\* BeginObject and BeginArray: the document, or the value that is owed.
Begin(kind) ==
    /\ owed \/ buf = << >>
    /\ buf' = Append(buf, Opener[kind])
    /\ needSep' = FALSE
    /\ open' = Append(open, kind)
    /\ owed' = FALSE

\* AppendRaw and AppendRawString of the document or of the value that is owed, which
\* leave needSep as it is.
Raw ==
    /\ owed \/ buf = << >>
    /\ buf' = Append(buf, "scalar")
    /\ owed' = FALSE
    /\ UNCHANGED <<needSep, open>>

\* EndObject and EndArray.
End ==
    /\ open # << >> /\ ~owed
    /\ buf' = Append(buf, Closer[open[Len(open)]])
    /\ needSep' = TRUE
    /\ open' = SubSeq(open, 1, Len(open) - 1)
    /\ UNCHANGED owed

\* Reset, which Acquire calls too, whatever the last caller left unfinished.
Reset ==
    /\ buf' = << >> /\ needSep' = FALSE
    /\ open' = << >> /\ owed' = FALSE

Next == \/ Field \/ KeyAlone \/ Element \/ CommaAlone \/ RawMembers \/ Raw \/ End \/ Reset
        \/ \E kind \in Kinds : BeginField(kind) \/ BeginElement(kind) \/ Begin(kind)

Spec == Init /\ [][Next]_vars

-----------------------------------------------------------------------------
Tokens == {"openObject", "closeObject", "openArray", "closeArray",
           "comma", "colon", "string", "scalar"}

TypeOK == /\ buf \in Seq(Tokens)
          /\ needSep \in BOOLEAN
          /\ open \in Seq(Kinds)
          /\ owed \in BOOLEAN

\* The bit says whether the innermost open container has an item, though it was set and
\* cleared within containers that are closed by now, and however the value of a lone key
\* or comma was written (sep, BeginObject, EndObject, precomputedKey).
CommaWhenDue ==
    /\ TypeOK
    /\ open # << >> /\ ~owed => (needSep <=> buf[Len(buf)] \notin {"openObject", "openArray"})
    /\ owed => needSep
=============================================================================
