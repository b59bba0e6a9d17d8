-------------------------------- MODULE Pool --------------------------------
(***************************************************************************)
(* The pools of pool.go and ndjson.go.  Goroutines take a Builder or a     *)
(* BatchWriter from a pool that they share, or a new one; write into it;   *)
(* append what the Builder holds to the batch, or get a copy of it from    *)
(* Build; and give both back.  Between any two steps of one goroutine the  *)
(* others take theirs.                                                     *)
(*                                                                         *)
(* sync.Pool is external: Get hands out a pooled writer or none, also when *)
(* the pool has some, and the collector may drop what is pooled.  A caller *)
(* keeps the rule of Release: it does not use a writer that it gave back.  *)
(***************************************************************************)
EXTENDS Naturals, Sequences, FiniteSets

CONSTANTS
    Goroutines,
    Builders,       \* the Builders that there may be
    Batches,        \* the BatchWriters that there may be
    None,           \* nil
    BufferSize,     \* poolBufferSize and batchPoolBufferSize, of each kind of writer
    MaxRetain,      \* poolMaxRetain and batchPoolMaxRetain
    LongestText,    \* bound: what a goroutine writes at most into one Builder
    Rooms,          \* bound: what callers of Grow ask for
    MostRecords     \* bound: the records of one batch

Kinds   == {"builder", "batch"}
Writers == [builder |-> Builders, batch |-> Batches]

Bytes == Goroutines \union {"comma", "newline"}

ASSUME PoolAssumption ==
    /\ None \notin Builders \union Batches
    /\ None \notin Seq(Bytes) /\ None \notin [lines : Seq(Bytes), count : Nat]
    /\ Builders \intersect Batches = {}
    /\ BufferSize \in [Kinds -> Nat] /\ MaxRetain \in [Kinds -> Nat]
    /\ LongestText \in Nat /\ Rooms \subseteq Nat /\ MostRecords \in Nat

VARIABLES
    pooled,         \* of each kind: the writers in the pool
    buf, capacity,  \* of each writer: buf and its cap
    needSep,        \* of each Builder
    count,          \* of each BatchWriter
    held,           \* the Builder and the BatchWriter that each goroutine has
    phase,          \* what each does with them: "clearing", "using" or "returning"
    result          \* what Build returned to each

fields == <<buf, capacity, needSep, count>>
vars   == <<pooled, fields, held, phase, result>>

\* The capacity that append gives a buffer for what it needs is external: at least that.
\* The room that it adds past it is that of a Grow before.
Grown(old, needed) == IF needed <= old THEN old ELSE needed

Init == /\ pooled = [kind \in Kinds |-> {}]
        /\ buf = [w \in Builders \union Batches |-> << >>]
        /\ capacity = [w \in Builders \union Batches |-> 0]
        /\ needSep = [w \in Builders |-> FALSE]
        /\ count = [w \in Batches |-> 0]
        /\ held = [g \in Goroutines |-> [kind \in Kinds |-> None]]
        /\ phase = [g \in Goroutines |-> [kind \in Kinds |-> "idle"]]
        /\ result = [g \in Goroutines |-> None]

Unused(kind) == Writers[kind] \ (pooled[kind] \union {held[g][kind] : g \in Goroutines})

Takes(g, kind, w, next) ==
    /\ phase[g][kind] = "idle"
    /\ held' = [held EXCEPT ![g][kind] = w]
    /\ phase' = [phase EXCEPT ![g][kind] = next]

\* A writer that is made, or that nobody has any longer, which keeps the states few.
Empties(w, size) ==
    /\ buf' = [b \in Builders \union Batches |-> IF b = w THEN << >> ELSE buf[b]]
    /\ capacity' = [b \in Builders \union Batches |-> IF b = w THEN size ELSE capacity[b]]
    /\ needSep' = [b \in Builders |-> b # w /\ needSep[b]]
    /\ count' = [b \in Batches |-> IF b = w THEN 0 ELSE count[b]]

Using(g, kind) == phase[g][kind] = "using"

\* Acquire finds a writer: another goroutine's steps may come before it is reset.
Get(g, kind) == \E w \in pooled[kind] :
    /\ Takes(g, kind, w, "clearing")
    /\ pooled' = [pooled EXCEPT ![kind] = @ \ {w}]
    /\ UNCHANGED <<fields, result>>

\* Acquire finds none and makes one; any that is not in use may stand for it.
New(g, kind) == \E w \in Unused(kind) :
    /\ Takes(g, kind, w, "using")
    /\ Empties(w, BufferSize[kind])
    /\ UNCHANGED <<pooled, result>>

\* Mutant of ResetBuilder: the bytes go and the separator stays due.
ResetBytes(g) ==
    LET b == held[g]["builder"]
    IN  /\ phase[g]["builder"] \in {"clearing", "using"}
        /\ phase' = [phase EXCEPT ![g]["builder"] = "using"]
        /\ buf' = [buf EXCEPT ![b] = << >>]
        /\ UNCHANGED <<pooled, capacity, needSep, count, held, result>>

\* Builder.Reset, of Acquire or of the caller.
ResetBuilder(g) ==
    LET b == held[g]["builder"]
    IN  /\ phase[g]["builder"] \in {"clearing", "using"}
        /\ phase' = [phase EXCEPT ![g]["builder"] = "using"]
        /\ buf' = [buf EXCEPT ![b] = << >>]
        /\ needSep' = [needSep EXCEPT ![b] = FALSE]
        /\ UNCHANGED <<pooled, capacity, count, held, result>>

\* BatchWriter.Reset, of AcquireBatchWriter or of the caller.
ResetBatch(g) ==
    LET w == held[g]["batch"]
    IN  /\ phase[g]["batch"] \in {"clearing", "using"}
        /\ phase' = [phase EXCEPT ![g]["batch"] = "using"]
        /\ buf' = [buf EXCEPT ![w] = << >>]
        /\ count' = [count EXCEPT ![w] = 0]
        /\ UNCHANGED <<pooled, capacity, needSep, held, result>>

\* Builder.Grow and BatchWriter.Grow, for n more bytes.
Grow(g, kind, n) ==
    LET w == held[g][kind]
    IN  /\ Using(g, kind)
        /\ Len(buf[w]) + n <= LongestText
        /\ capacity' = [capacity EXCEPT ![w] = Grown(@, Len(buf[w]) + n)]
        /\ UNCHANGED <<pooled, buf, needSep, count, held, phase, result>>

\* An Element writer: a comma when one is due, then the value.
Write(g) ==
    LET b    == held[g]["builder"]
        text == buf[b] \o (IF needSep[b] THEN <<"comma">> ELSE << >>) \o <<g>>
    IN  /\ Using(g, "builder")
        /\ Len(text) <= LongestText
        /\ buf' = [buf EXCEPT ![b] = text]
        /\ capacity' = [capacity EXCEPT ![b] = Grown(@, Len(text))]
        /\ needSep' = [needSep EXCEPT ![b] = TRUE]
        /\ UNCHANGED <<pooled, count, held, phase, result>>

\* BatchWriter.Append of Builder.Bytes: the record is copied, with its newline, after
\* one growth of the buffer.
AppendRecord(g) ==
    LET w     == held[g]["batch"]
        lines == buf[w] \o buf[held[g]["builder"]] \o <<"newline">>
    IN  /\ Using(g, "builder") /\ Using(g, "batch")
        /\ count[w] < MostRecords
        /\ buf' = [buf EXCEPT ![w] = lines]
        /\ capacity' = [capacity EXCEPT ![w] = Grown(@, Len(lines))]
        /\ count' = [count EXCEPT ![w] = @ + 1]
        /\ UNCHANGED <<pooled, needSep, held, phase, result>>

\* Mutant of Return: Build releases the Builder, and the deferred call does it again.
ReturnReleased(g) ==
    LET b == held[g]["builder"]
    IN  /\ Using(g, "builder")
        /\ result' = [result EXCEPT ![g] = buf[b]]
        /\ phase' = [phase EXCEPT ![g]["builder"] = "returning"]
        /\ pooled' = [pooled EXCEPT !["builder"] = @ \union {b}]
        /\ UNCHANGED <<fields, held>>

\* fn has returned, and Build copies what it wrote.
Return(g) ==
    /\ Using(g, "builder")
    /\ result' = [result EXCEPT ![g] = buf[held[g]["builder"]]]
    /\ phase' = [phase EXCEPT ![g]["builder"] = "returning"]
    /\ UNCHANGED <<pooled, fields, held>>

\* Mutants of Kept: whatever its capacity, and nil as well.
KeptAny(kind, w) == w # None
KeptNil(kind, w) == w = None \/ capacity[w] <= MaxRetain[kind]

Kept(kind, w) == w # None /\ capacity[w] <= MaxRetain[kind]

\* Release and ReleaseBatchWriter: of the caller, who may have none, or deferred by
\* Build, which calls it also when fn panics and nothing is copied.
Release(g, kind) ==
    /\ phase[g][kind] # "clearing"
    /\ IF Kept(kind, held[g][kind])
       THEN pooled' = [pooled EXCEPT ![kind] = @ \union {held[g][kind]}] /\ UNCHANGED fields
       ELSE Empties(held[g][kind], 0) /\ UNCHANGED pooled
    /\ held' = [held EXCEPT ![g][kind] = None]
    /\ phase' = [phase EXCEPT ![g][kind] = "idle"]
    /\ UNCHANGED result

\* The collector drops a pooled writer.
Collect(kind) == \E w \in pooled[kind] :
    /\ pooled' = [pooled EXCEPT ![kind] = @ \ {w}]
    /\ Empties(w, 0)
    /\ UNCHANGED <<held, phase, result>>

Next == \/ \E g \in Goroutines : \/ ResetBuilder(g) \/ ResetBatch(g)
                                 \/ Write(g) \/ AppendRecord(g) \/ Return(g)
                                 \/ \E kind \in Kinds : Get(g, kind) \/ New(g, kind) \/ Release(g, kind)
                                 \/ \E kind \in Kinds, n \in Rooms : Grow(g, kind, n)
        \/ \E kind \in Kinds : Collect(kind)

Spec == Init /\ [][Next]_vars

-----------------------------------------------------------------------------
TypeOK == /\ pooled \in [Kinds -> SUBSET (Builders \union Batches)]
          /\ buf \in [Builders \union Batches -> Seq(Bytes)]
          /\ capacity \in [Builders \union Batches -> Nat]
          /\ needSep \in [Builders -> BOOLEAN]
          /\ count \in [Batches -> Nat]
          /\ held \in [Goroutines -> [Kinds -> Builders \union Batches \union {None}]]
          /\ phase \in [Goroutines -> [Kinds -> {"idle", "clearing", "using", "returning"}]]
          /\ result \in [Goroutines -> Seq(Bytes) \union {None}]

\* Nobody shares a writer: one that a goroutine holds is neither in the pool nor held by
\* another, whatever the order of Get, Release and the deferred Release of Build.
Exclusive == \A kind \in Kinds, g \in Goroutines : held[g][kind] # None =>
    /\ held[g][kind] \in Writers[kind] \ pooled[kind]
    /\ \A other \in Goroutines \ {g} : held[other][kind] # held[g][kind]

\* The pool retains no buffer past its limit, though the buffer grew while the writer
\* was out (README.md: "Bounds what the pool retains").
RetainsLittle == \A kind \in Kinds : \A w \in pooled[kind] :
    Len(buf[w]) <= capacity[w] /\ capacity[w] <= MaxRetain[kind]

\* A goroutine sees its Builder once Acquire has reset it and until Build or its caller
\* gives it back.
OwnText == [g \in Goroutines |->
    IF phase[g]["builder"] \in {"using", "returning"} THEN buf[held[g]["builder"]] ELSE None]

OwnBatch == [g \in Goroutines |->
    IF phase[g]["batch"] = "using"
    THEN [lines |-> buf[held[g]["batch"]], count |-> count[held[g]["batch"]]]
    ELSE None]

Private == INSTANCE PrivateWriters WITH text <- OwnText, batch <- OwnBatch

\* Pooling cannot be told from new writers: nothing that another goroutine or an earlier
\* use left behind shows in a Builder, a batch, its count or a result of Build, and what
\* Build returned stays.
ImplementsPrivateWriters == Private!Spec
=============================================================================
