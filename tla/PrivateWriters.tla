--------------------------- MODULE PrivateWriters ---------------------------
(***************************************************************************)
(* What the pools of pool.go and ndjson.go promise: every goroutine works  *)
(* as if its Builder and its BatchWriter were new and its own, and what    *)
(* Build returned to it stays as it was.                                   *)
(***************************************************************************)
EXTENDS Naturals, Sequences

CONSTANTS
    Goroutines,
    None            \* stands for no writer, or no result

VARIABLES
    text,           \* what each goroutine wrote into its Builder, or None
    batch,          \* the lines and the record count of its BatchWriter, or None
    result          \* what Build returned to it last, or None

vars == <<text, batch, result>>

Init == /\ text = [g \in Goroutines |-> None]
        /\ batch = [g \in Goroutines |-> None]
        /\ result = [g \in Goroutines |-> None]

\* A Builder or a BatchWriter starts empty.
AcquireBuilder(g) == /\ text[g] = None
                     /\ text' = [text EXCEPT ![g] = << >>]
                     /\ UNCHANGED <<batch, result>>

AcquireBatch(g) == /\ batch[g] = None
                   /\ batch' = [batch EXCEPT ![g] = [lines |-> << >>, count |-> 0]]
                   /\ UNCHANGED <<text, result>>

\* Reset empties it again.
ResetBuilder(g) == /\ text[g] # None
                   /\ text' = [text EXCEPT ![g] = << >>]
                   /\ UNCHANGED <<batch, result>>

ResetBatch(g) == /\ batch[g] # None
                 /\ batch' = [batch EXCEPT ![g] = [lines |-> << >>, count |-> 0]]
                 /\ UNCHANGED <<text, result>>

\* A value takes a comma if it is not the first.
Write(g) == /\ text[g] # None
            /\ text' = [text EXCEPT ![g] =
                   IF @ = << >> THEN <<g>> ELSE @ \o <<"comma", g>>]
            /\ UNCHANGED <<batch, result>>

AppendRecord(g) == /\ text[g] # None /\ batch[g] # None
                   /\ batch' = [batch EXCEPT ![g] =
                          [lines |-> @.lines \o text[g] \o <<"newline">>, count |-> @.count + 1]]
                   /\ UNCHANGED <<text, result>>

Return(g) == /\ text[g] # None
             /\ result' = [result EXCEPT ![g] = text[g]]
             /\ UNCHANGED <<text, batch>>

ReleaseBuilder(g) == /\ text[g] # None
                     /\ text' = [text EXCEPT ![g] = None]
                     /\ UNCHANGED <<batch, result>>

ReleaseBatch(g) == /\ batch[g] # None
                   /\ batch' = [batch EXCEPT ![g] = None]
                   /\ UNCHANGED <<text, result>>

Next == \E g \in Goroutines :
    \/ AcquireBuilder(g) \/ Write(g) \/ Return(g) \/ ReleaseBuilder(g)
    \/ AcquireBatch(g) \/ AppendRecord(g) \/ ReleaseBatch(g)
    \/ ResetBuilder(g) \/ ResetBatch(g)

Spec == Init /\ [][Next]_vars
=============================================================================
