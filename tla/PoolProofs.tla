----------------------------- MODULE PoolProofs -----------------------------
(***************************************************************************)
(* Pool for any number of goroutines, writers, sizes and limits: nobody    *)
(* shares a writer, the pools retain no large buffer, and pooled writers   *)
(* cannot be told from new ones.                                           *)
(*                                                                         *)
(* A writer is at one place: in the pool of its kind, with one goroutine,  *)
(* or nowhere.  What is in its buffer matters only to the one who has it.  *)
(***************************************************************************)
EXTENDS Pool, SequenceTheorems, TLAPS

All == Builders \union Batches

\* The pools hold writers of their kind, and a goroutine that is not idle has one.
Placed == \A kind \in Kinds :
    /\ pooled[kind] \subseteq Writers[kind]
    /\ \A g \in Goroutines : held[g][kind] = None <=> phase[g][kind] = "idle"

\* No text is longer than its buffer.
Roomy == \A w \in All : Len(buf[w]) <= capacity[w]

\* No pooled buffer is past the limit.
Little == \A kind \in Kinds : \A w \in pooled[kind] : capacity[w] <= MaxRetain[kind]

\* In a Builder that was reset, a comma is due exactly after something.
Commas == \A g \in Goroutines :
    phase[g]["builder"] \in {"using", "returning"} =>
        (needSep[held[g]["builder"]] <=> buf[held[g]["builder"]] # << >>)

IInv == TypeOK /\ Placed /\ Exclusive /\ Roomy /\ Little /\ Commas

LEMMA InitInvariant == Init => IInv
<1> SUFFICES ASSUME Init PROVE IInv
    OBVIOUS
<1> USE PoolAssumption DEF Init
<1>1. TypeOK
    BY DEF TypeOK, Kinds
<1>2. Placed /\ Exclusive /\ Little /\ Commas
    BY DEF Placed, Exclusive, Little, Commas, Kinds
<1>3. Roomy
    BY DEF Roomy, All
<1> QED BY <1>1, <1>2, <1>3 DEF IInv

-----------------------------------------------------------------------------
\* A writer that a goroutine has is one of its kind.
LEMMA Holds ==
    ASSUME IInv, NEW g \in Goroutines, NEW kind \in Kinds, phase[g][kind] # "idle"
    PROVE  /\ held[g][kind] \in Writers[kind] /\ held[g][kind] \in All
           /\ held[g][kind] # None
           /\ held[g][kind] \notin pooled[kind]
           /\ \A other \in Goroutines \ {g} : held[other][kind] # held[g][kind]
    BY DEF IInv, Placed, Exclusive, Kinds, Writers, All

\* A step that neither moves a writer nor pools one: what changes is of writers that are
\* held, and fits their buffers.
LEMMA InPlace ==
    ASSUME IInv, TypeOK', UNCHANGED <<pooled, held>>,
           \A g \in Goroutines, kind \in Kinds : phase'[g][kind] = "idle" <=> phase[g][kind] = "idle",
           \A w \in All : capacity'[w] # capacity[w] =>
               \E g \in Goroutines, kind \in Kinds : w = held[g][kind]
    PROVE  Placed' /\ Exclusive' /\ Little'
<1>1. Placed'
    BY DEF IInv, Placed
<1>2. Exclusive'
    BY DEF IInv, Exclusive
<1>3. ASSUME NEW kind \in Kinds, NEW w \in pooled[kind] PROVE capacity'[w] = capacity[w]
    <2>1. w \in Writers[kind] /\ w \in All
        BY <1>3 DEF IInv, Placed, Kinds, Writers, All
    <2>2. ASSUME NEW g \in Goroutines, NEW k \in Kinds, w = held[g][k] PROVE FALSE
        <3>1. held[g][k] # None
            BY <2>1, <2>2, PoolAssumption DEF All
        <3>2. held[g][k] \in Writers[k] \ pooled[k]
            BY <3>1 DEF IInv, Exclusive
        <3>3. k = kind
            BY <2>1, <2>2, <3>2, PoolAssumption DEF Kinds, Writers
        <3> QED BY <3>2, <3>3, <2>2, <1>3
    <2> QED BY <2>1, <2>2
<1>4. Little'
    BY <1>3 DEF IInv, Little
<1> QED BY <1>1, <1>2, <1>4

\* A goroutine whose Builder a step leaves alone still owes the comma it did.
LEMMA CommaKept ==
    ASSUME IInv, NEW h \in Goroutines,
           phase[h]["builder"] \in {"using", "returning"},
           held'[h]["builder"] = held[h]["builder"],
           needSep'[held[h]["builder"]] = needSep[held[h]["builder"]],
           buf'[held[h]["builder"]] = buf[held[h]["builder"]]
    PROVE  needSep'[held'[h]["builder"]] <=> buf'[held'[h]["builder"]] # << >>
    BY Zenon DEF IInv, Commas

-----------------------------------------------------------------------------
(* Taking and giving back.                                                 *)

LEMMA GetStep ==
    ASSUME IInv, NEW g \in Goroutines, NEW kind \in Kinds, Get(g, kind)
    PROVE  IInv'
<1>1. PICK w \in pooled[kind] :
          /\ Takes(g, kind, w, "clearing")
          /\ pooled' = [pooled EXCEPT ![kind] = @ \ {w}]
          /\ UNCHANGED <<fields, result>>
    BY DEF Get
<1>2. w \in Writers[kind] /\ w \in All /\ w # None
    BY PoolAssumption DEF IInv, Placed, Kinds, Writers, All
<1>3. TypeOK'
    BY <1>1, <1>2 DEF IInv, TypeOK, Takes, fields, All
<1>4. Placed'
    BY <1>1, <1>2 DEF IInv, TypeOK, Placed, Takes, Kinds
<1>5. Exclusive'
    BY <1>1, <1>2 DEF IInv, TypeOK, Exclusive, Takes, Kinds
<1>6. Roomy' /\ Little'
    BY <1>1 DEF IInv, TypeOK, Roomy, Little, fields, Kinds
<1>7. Commas'
    BY <1>1 DEF IInv, TypeOK, Commas, Takes, fields, Kinds
<1> QED BY <1>3, <1>4, <1>5, <1>6, <1>7 DEF IInv

\* A writer that nobody has, or that its last user gives up, is emptied: no text that a
\* goroutine still sees is of it.
LEMMA Emptied ==
    ASSUME IInv, NEW w, NEW size \in Nat, Empties(w, size)
    PROVE  /\ buf' \in [All -> Seq(Bytes)] /\ capacity' \in [All -> Nat]
           /\ needSep' \in [Builders -> BOOLEAN] /\ count' \in [Batches -> Nat]
           /\ Roomy'
           /\ \A v \in All : v # w => buf'[v] = buf[v] /\ capacity'[v] = capacity[v]
           /\ \A v \in Builders : v # w => needSep'[v] = needSep[v]
           /\ \A v \in Batches : v # w => count'[v] = count[v]
           /\ w \in All => buf'[w] = << >>
           /\ w \in Builders => ~needSep'[w]
<1>1. /\ buf' \in [All -> Seq(Bytes)] /\ capacity' \in [All -> Nat]
      /\ needSep' \in [Builders -> BOOLEAN] /\ count' \in [Batches -> Nat]
    BY DEF IInv, TypeOK, Empties, All
<1>2. ASSUME NEW v \in All PROVE Len(buf'[v]) <= capacity'[v]
    <2>1. CASE v = w
        BY <2>1 DEF Empties, All
    <2>2. CASE v # w
        BY <2>2 DEF IInv, Roomy, Empties, All
    <2> QED BY <2>1, <2>2
<1>3. \A v \in All : /\ v # w => buf'[v] = buf[v] /\ capacity'[v] = capacity[v]
                     /\ v = w => buf'[v] = << >>
    BY DEF Empties, All
<1>4. /\ \A v \in Builders : v # w => needSep'[v] = needSep[v]
      /\ w \in Builders => ~needSep'[w]
    BY DEF IInv, TypeOK, Empties
<1>5. \A v \in Batches : v # w => count'[v] = count[v]
    BY DEF Empties
<1> QED BY <1>1, <1>2, <1>3, <1>4, <1>5 DEF Roomy

LEMMA NewStep ==
    ASSUME IInv, NEW g \in Goroutines, NEW kind \in Kinds, New(g, kind)
    PROVE  IInv'
<1>1. PICK w \in Unused(kind) :
          /\ Takes(g, kind, w, "using")
          /\ Empties(w, BufferSize[kind])
          /\ UNCHANGED <<pooled, result>>
    BY DEF New
<1>2. /\ w \in Writers[kind] /\ w \in All /\ w # None
      /\ w \notin pooled[kind]
      /\ \A h \in Goroutines : held[h][kind] # w
    BY PoolAssumption DEF Unused, Kinds, Writers, All
<1>3. BufferSize[kind] \in Nat
    BY PoolAssumption
<1>4. /\ buf' \in [All -> Seq(Bytes)] /\ capacity' \in [All -> Nat]
      /\ needSep' \in [Builders -> BOOLEAN] /\ count' \in [Batches -> Nat]
      /\ Roomy'
      /\ \A v \in All : v # w => buf'[v] = buf[v] /\ capacity'[v] = capacity[v]
      /\ \A v \in Builders : v # w => needSep'[v] = needSep[v]
      /\ w \in All => buf'[w] = << >>
      /\ w \in Builders => ~needSep'[w]
    BY <1>1, <1>3, Emptied
<1>5. TypeOK'
    BY <1>1, <1>2, <1>4 DEF IInv, TypeOK, Takes, All
<1>6. Placed'
    BY <1>1, <1>2 DEF IInv, TypeOK, Placed, Takes, Kinds
<1>7. Exclusive'
    BY <1>1, <1>2 DEF IInv, TypeOK, Exclusive, Takes, Kinds
<1>8. Little'
    <2>1. ASSUME NEW k \in Kinds, NEW v \in pooled[k] PROVE v # w /\ v \in All
        BY <1>2, <2>1, PoolAssumption DEF IInv, Placed, Kinds, Writers, All
    <2> QED BY <1>1, <1>4, <2>1 DEF IInv, Little
<1>9. Commas'
    <2>1. CASE kind = "builder"
        <3>1. ASSUME NEW h \in Goroutines, h # g, phase[h]["builder"] \in {"using", "returning"}
              PROVE  held[h]["builder"] \in Builders /\ held[h]["builder"] # w
            BY <1>2, <2>1, <3>1, Holds DEF Kinds, Writers
        <3>2. w \in Builders
            BY <1>2, <2>1 DEF Writers
        <3>3. /\ held'[g]["builder"] = w
              /\ \A h \in Goroutines \ {g} : /\ held'[h]["builder"] = held[h]["builder"]
                                             /\ phase'[h]["builder"] = phase[h]["builder"]
            BY <1>1, <2>1 DEF IInv, TypeOK, Takes, Kinds
        <3>4. ASSUME NEW h \in Goroutines \ {g}, phase'[h]["builder"] \in {"using", "returning"}
              PROVE  needSep'[held'[h]["builder"]] <=> buf'[held'[h]["builder"]] # << >>
            BY <1>4, <3>1, <3>3, <3>4, CommaKept DEF All
        <3>5. ~needSep'[held'[g]["builder"]] /\ buf'[held'[g]["builder"]] = << >>
            BY <1>2, <1>4, <3>2, <3>3
        <3> QED BY <3>4, <3>5, Zenon DEF Commas
    <2>2. CASE kind = "batch"
        <3>1. ASSUME NEW h \in Goroutines, phase[h]["builder"] \in {"using", "returning"}
              PROVE  held[h]["builder"] \in Builders /\ held[h]["builder"] # w
            BY <1>2, <2>2, <3>1, Holds, PoolAssumption DEF Kinds, Writers
        <3>2. \A h \in Goroutines : /\ held'[h]["builder"] = held[h]["builder"]
                                    /\ phase'[h]["builder"] = phase[h]["builder"]
            BY <1>1, <2>2 DEF IInv, TypeOK, Takes, Kinds
        <3>3. ASSUME NEW h \in Goroutines, phase'[h]["builder"] \in {"using", "returning"}
              PROVE  needSep'[held'[h]["builder"]] <=> buf'[held'[h]["builder"]] # << >>
            BY <1>4, <3>1, <3>2, <3>3, CommaKept DEF All
        <3> QED BY <3>3, Zenon DEF Commas
    <2> QED BY <2>1, <2>2 DEF Kinds
<1> QED BY <1>4, <1>5, <1>6, <1>7, <1>8, <1>9 DEF IInv

\* Giving a writer back, to the pool or to nobody.
LEMMA ReleaseStep ==
    ASSUME IInv, NEW g \in Goroutines, NEW kind \in Kinds, Release(g, kind)
    PROVE  IInv'
<1> DEFINE w == held[g][kind]
<1>1. /\ held' = [held EXCEPT ![g][kind] = None]
      /\ phase' = [phase EXCEPT ![g][kind] = "idle"]
      /\ UNCHANGED result
    BY DEF Release
<1>2. /\ \A h \in Goroutines, k \in Kinds : (h # g \/ k # kind) =>
            held'[h][k] = held[h][k] /\ phase'[h][k] = phase[h][k]
      /\ held'[g][kind] = None /\ phase'[g][kind] = "idle"
    BY <1>1 DEF IInv, TypeOK
<1>3. ASSUME NEW k \in Kinds, NEW h \in Goroutines
      PROVE  held'[h][k] = None <=> phase'[h][k] = "idle"
    <2>1. CASE h = g /\ k = kind
        BY <1>2, <2>1
    <2>2. CASE h # g \/ k # kind
        BY <1>2, <2>2 DEF IInv, Placed
    <2> QED BY <2>1, <2>2
<1>6. ASSUME NEW h \in Goroutines, NEW k \in Kinds, h # g \/ k # kind, w # None
      PROVE  held[h][k] # w
    BY <1>6, PoolAssumption DEF IInv, Exclusive, Kinds, Writers
<1>4. CASE Kept(kind, w)
    <2>1. pooled' = [pooled EXCEPT ![kind] = @ \union {w}] /\ UNCHANGED fields /\ w # None
        BY <1>4 DEF Release, Kept
    <2>2. w \in Writers[kind] /\ w \in All
        BY <2>1 DEF IInv, Exclusive, Kinds, Writers, All
    <2>3. TypeOK'
        BY <1>1, <2>1, <2>2 DEF IInv, TypeOK, fields, All
    <2>4. Placed'
        <3>1. \A k \in Kinds : pooled'[k] \subseteq Writers[k]
            BY <2>1, <2>2 DEF IInv, TypeOK, Placed
        <3> QED BY <1>3, <3>1 DEF Placed
    <2>5. Exclusive'
        <3>1. ASSUME NEW k \in Kinds, NEW h \in Goroutines, held'[h][k] # None
              PROVE  /\ held'[h][k] \in Writers[k] \ pooled'[k]
                     /\ \A o \in Goroutines \ {h} : held'[o][k] # held'[h][k]
            <4>1. (h # g \/ k # kind) /\ held'[h][k] = held[h][k] /\ held[h][k] # w
                BY <1>2, <1>6, <2>1, <3>1
            <4>2. held'[h][k] \in Writers[k] \ pooled'[k]
                BY <2>1, <3>1, <4>1 DEF IInv, TypeOK, Exclusive
            <4>3. \A o \in Goroutines \ {h} : held'[o][k] # held'[h][k]
                BY <1>2, <3>1, <4>1 DEF IInv, Exclusive
            <4> QED BY <4>2, <4>3
        <3> QED BY <3>1 DEF Exclusive
    <2>6. Roomy' /\ Little'
        BY <1>4, <2>1 DEF IInv, TypeOK, Roomy, Little, fields, Kinds, Kept
    <2>7. Commas'
        <3>1. ASSUME NEW h \in Goroutines, phase'[h]["builder"] \in {"using", "returning"}
              PROVE  needSep'[held'[h]["builder"]] <=> buf'[held'[h]["builder"]] # << >>
            BY <1>2, <2>1, <3>1, CommaKept DEF fields, Kinds
        <3> QED BY <3>1, Zenon DEF Commas
    <2> QED BY <2>3, <2>4, <2>5, <2>6, <2>7 DEF IInv
<1>5. CASE ~Kept(kind, w)
    <2>1. Empties(w, 0) /\ UNCHANGED pooled
        BY <1>5 DEF Release
    <2>2. /\ buf' \in [All -> Seq(Bytes)] /\ capacity' \in [All -> Nat]
          /\ needSep' \in [Builders -> BOOLEAN] /\ count' \in [Batches -> Nat]
          /\ Roomy'
          /\ \A v \in All : v # w => buf'[v] = buf[v] /\ capacity'[v] = capacity[v]
          /\ \A v \in Builders : v # w => needSep'[v] = needSep[v]
        BY <2>1, Emptied
    <2>3. TypeOK'
        BY <1>1, <2>1, <2>2 DEF IInv, TypeOK, All
    <2>4. Placed'
        BY <1>3, <2>1 DEF IInv, Placed
    <2>5. Exclusive'
        <3>1. ASSUME NEW k \in Kinds, NEW h \in Goroutines, held'[h][k] # None
              PROVE  /\ held'[h][k] \in Writers[k] \ pooled'[k]
                     /\ \A o \in Goroutines \ {h} : held'[o][k] # held'[h][k]
            BY <1>2, <2>1, <3>1 DEF IInv, Exclusive
        <3> QED BY <3>1 DEF Exclusive
    <2>6. Little'
        <3>1. ASSUME NEW k \in Kinds, NEW v \in pooled[k] PROVE v # w /\ v \in All
            BY <3>1, PoolAssumption DEF IInv, Placed, Exclusive, Kinds, Writers, All
        <3> QED BY <2>1, <2>2, <3>1 DEF IInv, Little
    <2>7. Commas'
        <3>1. ASSUME NEW h \in Goroutines, phase'[h]["builder"] \in {"using", "returning"}
              PROVE  needSep'[held'[h]["builder"]] <=> buf'[held'[h]["builder"]] # << >>
            <4>1. h # g \/ kind # "builder"
                BY <1>2, <3>1
            <4>2. /\ phase[h]["builder"] \in {"using", "returning"}
                  /\ held'[h]["builder"] = held[h]["builder"]
                BY <1>2, <3>1, <4>1 DEF Kinds
            <4>3. held[h]["builder"] \in Builders /\ held[h]["builder"] # None
                BY <4>2, Holds DEF Kinds, Writers
            <4>4. held[h]["builder"] # w
                BY <1>6, <4>1, <4>3 DEF Kinds
            <4> QED BY <2>2, <4>2, <4>3, <4>4, CommaKept DEF All
        <3> QED BY <3>1, Zenon DEF Commas
    <2> QED BY <2>2, <2>3, <2>4, <2>5, <2>6, <2>7 DEF IInv
<1> QED BY <1>4, <1>5

LEMMA CollectStep ==
    ASSUME IInv, NEW kind \in Kinds, Collect(kind)
    PROVE  IInv'
<1>1. PICK w \in pooled[kind] :
          /\ pooled' = [pooled EXCEPT ![kind] = @ \ {w}]
          /\ Empties(w, 0)
          /\ UNCHANGED <<held, phase, result>>
    BY DEF Collect
<1>2. w \in Writers[kind] /\ w \in All /\ w # None
    BY PoolAssumption DEF IInv, Placed, Kinds, Writers, All
<1>3. /\ buf' \in [All -> Seq(Bytes)] /\ capacity' \in [All -> Nat]
      /\ needSep' \in [Builders -> BOOLEAN] /\ count' \in [Batches -> Nat]
      /\ Roomy'
      /\ \A v \in All : v # w => buf'[v] = buf[v] /\ capacity'[v] = capacity[v]
      /\ \A v \in Builders : v # w => needSep'[v] = needSep[v]
    BY <1>1, Emptied
<1>4. TypeOK'
    BY <1>1, <1>3 DEF IInv, TypeOK, All
<1>5. Placed' /\ Exclusive'
    BY <1>1 DEF IInv, TypeOK, Placed, Exclusive, Kinds
<1>6. Little'
    <2>1. ASSUME NEW k \in Kinds, NEW v \in pooled'[k] PROVE v \in pooled[k] /\ v # w /\ v \in All
        BY <1>1, <1>2, <2>1, PoolAssumption DEF IInv, TypeOK, Placed, Kinds, Writers, All
    <2> QED BY <1>3, <2>1 DEF IInv, Little
<1>7. Commas'
    <2>1. ASSUME NEW h \in Goroutines, phase[h]["builder"] \in {"using", "returning"}
          PROVE  held[h]["builder"] \in Builders /\ held[h]["builder"] # w
        <3>1. held[h]["builder"] \in Builders /\ held[h]["builder"] \notin pooled["builder"]
            BY <2>1, Holds DEF Kinds, Writers
        <3> QED BY <1>2, <3>1, PoolAssumption DEF Kinds, Writers
    <2>2. ASSUME NEW h \in Goroutines, phase'[h]["builder"] \in {"using", "returning"}
          PROVE  needSep'[held'[h]["builder"]] <=> buf'[held'[h]["builder"]] # << >>
        BY <1>1, <1>3, <2>1, <2>2, CommaKept DEF All
    <2> QED BY <2>2, Zenon DEF Commas
<1> QED BY <1>3, <1>4, <1>5, <1>6, <1>7 DEF IInv

-----------------------------------------------------------------------------
(* Using.                                                                  *)

\* What append gives a buffer holds what it needs.
LEMMA GrownHolds ==
    ASSUME NEW old \in Nat, NEW needed \in Nat
    PROVE  Grown(old, needed) \in Nat /\ needed <= Grown(old, needed) /\ old <= Grown(old, needed)
    BY DEF Grown

\* The comma of every goroutine but the one whose Builder a step changes.
LEMMA OthersCommas ==
    ASSUME IInv, NEW g \in Goroutines, phase[g]["builder"] # "idle",
           UNCHANGED held,
           \A h \in Goroutines \ {g} : phase'[h]["builder"] = phase[h]["builder"],
           \A v \in Builders : v # held[g]["builder"] =>
               needSep'[v] = needSep[v] /\ buf'[v] = buf[v],
           phase'[g]["builder"] \in {"using", "returning"} =>
               (needSep'[held[g]["builder"]] <=> buf'[held[g]["builder"]] # << >>)
    PROVE  Commas'
<1>1. ASSUME NEW h \in Goroutines \ {g}, phase'[h]["builder"] \in {"using", "returning"}
      PROVE  needSep'[held'[h]["builder"]] <=> buf'[held'[h]["builder"]] # << >>
    <2>1. phase[h]["builder"] \in {"using", "returning"}
        BY <1>1
    <2>2. held[h]["builder"] \in Builders /\ held[h]["builder"] # held[g]["builder"]
        BY <2>1, Holds DEF Kinds, Writers
    <2> QED BY <2>1, <2>2, CommaKept
<1> QED BY <1>1, Zenon DEF Commas

LEMMA ResetBuilderStep ==
    ASSUME IInv, NEW g \in Goroutines, ResetBuilder(g)
    PROVE  IInv'
<1> DEFINE b == held[g]["builder"]
<1>1. b \in Builders /\ b \in All
    BY Holds DEF ResetBuilder, Kinds, Writers, All
<1>2. TypeOK'
    BY <1>1 DEF IInv, TypeOK, ResetBuilder, Kinds, All
<1>3. Placed' /\ Exclusive' /\ Little'
    <2>1. \A h \in Goroutines, k \in Kinds : phase'[h][k] = "idle" <=> phase[h][k] = "idle"
        BY DEF IInv, TypeOK, ResetBuilder, Kinds
    <2> QED BY <1>2, <2>1, InPlace DEF ResetBuilder
<1>4. Roomy'
    <2>1. ASSUME NEW v \in All PROVE Len(buf'[v]) <= capacity'[v]
        <3>1. CASE v = b
            <4>1. buf'[v] = << >> /\ capacity'[v] = capacity[v] /\ capacity[v] \in Nat
                BY <1>1, <3>1 DEF IInv, TypeOK, ResetBuilder, All
            <4> QED BY <4>1
        <3>2. CASE v # b
            BY <3>2 DEF IInv, TypeOK, Roomy, ResetBuilder, All
        <3> QED BY <3>1, <3>2
    <2> QED BY <2>1 DEF Roomy
<1>5. Commas'
    <2>1. /\ ~needSep'[b] /\ buf'[b] = << >>
          /\ \A v \in Builders : v # b => needSep'[v] = needSep[v] /\ buf'[v] = buf[v]
        BY <1>1 DEF IInv, TypeOK, ResetBuilder
    <2>2. \A h \in Goroutines \ {g} : phase'[h]["builder"] = phase[h]["builder"]
        BY DEF IInv, TypeOK, ResetBuilder
    <2> QED BY <2>1, <2>2, OthersCommas DEF ResetBuilder
<1> QED BY <1>2, <1>3, <1>4, <1>5 DEF IInv

LEMMA ResetBatchStep ==
    ASSUME IInv, NEW g \in Goroutines, ResetBatch(g)
    PROVE  IInv'
<1> DEFINE w == held[g]["batch"]
<1>1. w \in Batches /\ w \in All /\ w \notin Builders
    BY Holds, PoolAssumption DEF ResetBatch, Kinds, Writers, All
<1>2. TypeOK'
    BY <1>1 DEF IInv, TypeOK, ResetBatch, Kinds, All
<1>3. Placed' /\ Exclusive' /\ Little'
    <2>1. \A h \in Goroutines, k \in Kinds : phase'[h][k] = "idle" <=> phase[h][k] = "idle"
        BY DEF IInv, TypeOK, ResetBatch, Kinds
    <2> QED BY <1>2, <2>1, InPlace DEF ResetBatch
<1>4. Roomy'
    <2>1. ASSUME NEW v \in All PROVE Len(buf'[v]) <= capacity'[v]
        <3>1. CASE v = w
            <4>1. buf'[v] = << >> /\ capacity'[v] = capacity[v] /\ capacity[v] \in Nat
                BY <1>1, <3>1 DEF IInv, TypeOK, ResetBatch, All
            <4> QED BY <4>1
        <3>2. CASE v # w
            BY <3>2 DEF IInv, TypeOK, Roomy, ResetBatch, All
        <3> QED BY <3>1, <3>2
    <2> QED BY <2>1 DEF Roomy
<1>5. Commas'
    <2>1. ASSUME NEW h \in Goroutines, phase'[h]["builder"] \in {"using", "returning"}
          PROVE  needSep'[held'[h]["builder"]] <=> buf'[held'[h]["builder"]] # << >>
        <3>1. phase'[h]["builder"] = phase[h]["builder"] /\ held' = held /\ needSep' = needSep
            BY DEF IInv, TypeOK, ResetBatch, Kinds
        <3>2. held[h]["builder"] \in Builders
            BY <2>1, <3>1, Holds DEF Kinds, Writers
        <3>3. buf'[held[h]["builder"]] = buf[held[h]["builder"]]
            BY <1>1, <3>2 DEF IInv, TypeOK, ResetBatch
        <3> QED BY <2>1, <3>1, <3>3, CommaKept
    <2> QED BY <2>1, Zenon DEF Commas
<1> QED BY <1>2, <1>3, <1>4, <1>5 DEF IInv

LEMMA GrowStep ==
    ASSUME IInv, NEW g \in Goroutines, NEW kind \in Kinds, NEW n \in Nat, Grow(g, kind, n)
    PROVE  IInv'
<1> DEFINE w == held[g][kind]
<1>1. w \in All
    BY Holds DEF Grow, Using
<1>2. /\ capacity[w] \in Nat /\ Len(buf[w]) \in Nat /\ Len(buf[w]) <= capacity[w]
      /\ capacity' = [capacity EXCEPT ![w] = Grown(capacity[w], Len(buf[w]) + n)]
    BY <1>1 DEF IInv, TypeOK, Roomy, Grow, All
<1>3. PICK c \in Nat : c = Grown(capacity[w], Len(buf[w]) + n) /\ Len(buf[w]) <= c
    <2>1. Len(buf[w]) + n \in Nat /\ Len(buf[w]) <= Len(buf[w]) + n
        BY <1>2
    <2>2. /\ Grown(capacity[w], Len(buf[w]) + n) \in Nat
          /\ capacity[w] <= Grown(capacity[w], Len(buf[w]) + n)
        BY <1>2, <2>1, GrownHolds
    <2> QED BY <1>2, <2>2
<1>4. TypeOK'
    BY <1>1, <1>2, <1>3 DEF IInv, TypeOK, Grow, All
<1>5. Placed' /\ Exclusive' /\ Little'
    <2>1. \A v \in All : capacity'[v] # capacity[v] => v = held[g][kind]
        BY <1>2 DEF IInv, TypeOK, All
    <2> QED BY <1>4, <2>1, InPlace DEF Grow
<1>6. Roomy'
    <2>1. ASSUME NEW v \in All PROVE Len(buf'[v]) <= capacity'[v]
        <3>1. CASE v = w
            <4>1. buf'[v] = buf[w] /\ capacity'[v] = c
                BY <1>1, <1>2, <1>3, <3>1 DEF IInv, TypeOK, Grow, All
            <4> QED BY <1>3, <4>1
        <3>2. CASE v # w
            <4>1. buf'[v] = buf[v] /\ capacity'[v] = capacity[v]
                BY <1>2, <3>2 DEF IInv, TypeOK, Grow, All
            <4> QED BY <4>1 DEF IInv, Roomy
        <3> QED BY <3>1, <3>2
    <2> QED BY <2>1 DEF Roomy
<1>7. Commas'
    BY Zenon DEF IInv, Commas, Grow
<1> QED BY <1>4, <1>5, <1>6, <1>7 DEF IInv

\* A text that is written to a held writer fits the buffer that append gives it.
LEMMA Written ==
    ASSUME IInv, NEW w \in All, NEW text \in Seq(Bytes),
           buf' = [buf EXCEPT ![w] = text],
           capacity' = [capacity EXCEPT ![w] = Grown(@, Len(text))]
    PROVE  /\ buf' \in [All -> Seq(Bytes)] /\ capacity' \in [All -> Nat]
           /\ Roomy'
           /\ \A v \in All : v # w => capacity'[v] = capacity[v] /\ buf'[v] = buf[v]
           /\ buf'[w] = text
<1>1. capacity[w] \in Nat /\ Len(text) \in Nat
    BY DEF IInv, TypeOK, All
<1>2. PICK c \in Nat : c = Grown(capacity[w], Len(text)) /\ Len(text) <= c
    BY <1>1, GrownHolds
<1>3. /\ \A v \in All : v # w => capacity'[v] = capacity[v] /\ buf'[v] = buf[v]
      /\ buf'[w] = text /\ capacity'[w] = c
    BY <1>2 DEF IInv, TypeOK, All
<1>4. ASSUME NEW v \in All PROVE Len(buf'[v]) <= capacity'[v]
    <2>1. CASE v = w
        BY <1>2, <1>3, <2>1
    <2>2. CASE v # w
        BY <1>3, <2>2 DEF IInv, Roomy
    <2> QED BY <2>1, <2>2
<1>5. buf' \in [All -> Seq(Bytes)] /\ capacity' \in [All -> Nat]
    BY <1>2 DEF IInv, TypeOK, All
<1> QED BY <1>3, <1>4, <1>5 DEF Roomy

LEMMA WriteStep ==
    ASSUME IInv, NEW g \in Goroutines, Write(g)
    PROVE  IInv'
<1> DEFINE b == held[g]["builder"]
           text == buf[b] \o (IF needSep[b] THEN <<"comma">> ELSE << >>) \o <<g>>
<1>1. b \in Builders /\ b \in All
    BY Holds DEF Write, Using, Kinds, Writers, All
<1>2. text \in Seq(Bytes) /\ text # << >>
    <2>1. buf[b] \in Seq(Bytes)
        BY <1>1 DEF IInv, TypeOK, All
    <2>2. (IF needSep[b] THEN <<"comma">> ELSE << >>) \in Seq(Bytes) /\ <<g>> \in Seq(Bytes)
        <3>1. "comma" \in Bytes /\ g \in Bytes
            BY DEF Bytes
        <3>2. <<"comma">> \in Seq(Bytes) /\ << >> \in Seq(Bytes) /\ <<g>> \in Seq(Bytes)
            BY <3>1
        <3>3. CASE needSep[b]
            BY <3>2, <3>3, Zenon
        <3>4. CASE ~needSep[b]
            BY <3>2, <3>4, Zenon
        <3> QED BY <3>3, <3>4
    <2>3. \A s, t \in Seq(Bytes) : s \o t \o <<g>> \in Seq(Bytes) /\ s \o t \o <<g>> # << >>
        BY <2>2
    <2> QED BY <2>1, <2>2, <2>3
<1>3. /\ buf' = [buf EXCEPT ![b] = text]
      /\ capacity' = [capacity EXCEPT ![b] = Grown(@, Len(text))]
      /\ needSep' = [needSep EXCEPT ![b] = TRUE]
      /\ UNCHANGED <<pooled, count, held, phase, result>>
    BY DEF Write
<1> HIDE DEF text
<1>4. /\ buf' \in [All -> Seq(Bytes)] /\ capacity' \in [All -> Nat]
      /\ Roomy'
      /\ \A v \in All : v # b => capacity'[v] = capacity[v] /\ buf'[v] = buf[v]
      /\ buf'[b] = text
    BY <1>1, <1>2, <1>3, Written
<1>5. TypeOK'
    BY <1>1, <1>3, <1>4 DEF IInv, TypeOK, All
<1>6. Placed' /\ Exclusive' /\ Little'
    <2>1. "builder" \in Kinds /\ \A v \in All : capacity'[v] # capacity[v] => v = held[g]["builder"]
        BY <1>4 DEF Kinds
    <2> QED BY <1>3, <1>5, <2>1, InPlace
<1>7. Commas'
    <2>1. needSep'[b] /\ \A v \in Builders : v # b => needSep'[v] = needSep[v] /\ buf'[v] = buf[v]
        BY <1>1, <1>3, <1>4 DEF IInv, TypeOK, All
    <2>2. phase[g]["builder"] # "idle"
        BY DEF Write, Using
    <2> QED BY <1>2, <1>3, <1>4, <2>1, <2>2, OthersCommas
<1> QED BY <1>4, <1>5, <1>6, <1>7 DEF IInv

LEMMA AppendRecordStep ==
    ASSUME IInv, NEW g \in Goroutines, AppendRecord(g)
    PROVE  IInv'
<1> DEFINE w == held[g]["batch"]
           lines == buf[w] \o buf[held[g]["builder"]] \o <<"newline">>
<1>1. w \in Batches /\ w \in All /\ w \notin Builders
    BY Holds, PoolAssumption DEF AppendRecord, Using, Kinds, Writers, All
<1>2. lines \in Seq(Bytes)
    <2>1. held[g]["builder"] \in All
        BY Holds DEF AppendRecord, Using, Kinds
    <2>2. buf[w] \in Seq(Bytes) /\ buf[held[g]["builder"]] \in Seq(Bytes) /\ <<"newline">> \in Seq(Bytes)
        BY <1>1, <2>1 DEF IInv, TypeOK, All, Bytes
    <2> QED BY <2>2
<1>3. /\ buf' = [buf EXCEPT ![w] = lines]
      /\ capacity' = [capacity EXCEPT ![w] = Grown(@, Len(lines))]
      /\ count' = [count EXCEPT ![w] = @ + 1]
      /\ UNCHANGED <<pooled, needSep, held, phase, result>>
    BY DEF AppendRecord
<1> HIDE DEF lines
<1>4. /\ buf' \in [All -> Seq(Bytes)] /\ capacity' \in [All -> Nat]
      /\ Roomy'
      /\ \A v \in All : v # w => capacity'[v] = capacity[v] /\ buf'[v] = buf[v]
    BY <1>1, <1>2, <1>3, Written
<1>5. TypeOK'
    <2>1. count' \in [Batches -> Nat]
        BY <1>1, <1>3 DEF IInv, TypeOK
    <2> QED BY <1>3, <1>4, <2>1 DEF IInv, TypeOK, All
<1>6. Placed' /\ Exclusive' /\ Little'
    <2>1. "batch" \in Kinds /\ \A v \in All : capacity'[v] # capacity[v] => v = held[g]["batch"]
        BY <1>4 DEF Kinds
    <2> QED BY <1>3, <1>5, <2>1, InPlace
<1>7. Commas'
    <2>1. ASSUME NEW h \in Goroutines, phase'[h]["builder"] \in {"using", "returning"}
          PROVE  needSep'[held'[h]["builder"]] <=> buf'[held'[h]["builder"]] # << >>
        <3>1. held[h]["builder"] \in Builders
            BY <1>3, <2>1, Holds DEF Kinds, Writers
        <3>2. buf'[held[h]["builder"]] = buf[held[h]["builder"]]
            BY <1>1, <1>4, <3>1 DEF All
        <3> QED BY <1>3, <2>1, <3>2, CommaKept
    <2> QED BY <2>1, Zenon DEF Commas
<1> QED BY <1>4, <1>5, <1>6, <1>7 DEF IInv

LEMMA ReturnStep ==
    ASSUME IInv, NEW g \in Goroutines, Return(g)
    PROVE  IInv'
<1> DEFINE b == held[g]["builder"]
<1>1. b \in Builders /\ b \in All
    BY Holds DEF Return, Using, Kinds, Writers, All
<1>2. TypeOK'
    BY <1>1 DEF IInv, TypeOK, Return, fields, All, Kinds
<1>3. Placed' /\ Exclusive' /\ Little'
    <2>1. \A h \in Goroutines, k \in Kinds : phase'[h][k] = "idle" <=> phase[h][k] = "idle"
        BY DEF IInv, TypeOK, Return, Using, Kinds
    <2> QED BY <1>2, <2>1, InPlace DEF Return, fields
<1>4. Roomy'
    BY DEF IInv, Roomy, Return, fields
<1>5. Commas'
    <2>1. needSep'[b] <=> buf'[b] # << >>
        BY Zenon DEF IInv, Commas, Return, Using, fields
    <2>2. \A h \in Goroutines \ {g} : phase'[h]["builder"] = phase[h]["builder"]
        BY DEF IInv, TypeOK, Return
    <2> QED BY <2>1, <2>2, OthersCommas DEF Return, Using, fields
<1> QED BY <1>2, <1>3, <1>4, <1>5 DEF IInv

-----------------------------------------------------------------------------
LEMMA StepInvariant == IInv /\ [Next]_vars => IInv'
<1> SUFFICES ASSUME IInv, [Next]_vars PROVE IInv'
    OBVIOUS
<1>1. CASE UNCHANGED vars
    BY <1>1 DEF vars, fields, IInv, TypeOK, Placed, Exclusive, Roomy, Little, Commas
<1>2. ASSUME NEW g \in Goroutines, ResetBuilder(g) PROVE IInv'
    BY <1>2, ResetBuilderStep
<1>3. ASSUME NEW g \in Goroutines, ResetBatch(g) PROVE IInv'
    BY <1>3, ResetBatchStep
<1>4. ASSUME NEW g \in Goroutines, Write(g) PROVE IInv'
    BY <1>4, WriteStep
<1>5. ASSUME NEW g \in Goroutines, AppendRecord(g) PROVE IInv'
    BY <1>5, AppendRecordStep
<1>6. ASSUME NEW g \in Goroutines, Return(g) PROVE IInv'
    BY <1>6, ReturnStep
<1>7. ASSUME NEW g \in Goroutines, NEW kind \in Kinds, Get(g, kind) PROVE IInv'
    BY <1>7, GetStep
<1>8. ASSUME NEW g \in Goroutines, NEW kind \in Kinds, New(g, kind) PROVE IInv'
    BY <1>8, NewStep
<1>9. ASSUME NEW g \in Goroutines, NEW kind \in Kinds, Release(g, kind) PROVE IInv'
    BY <1>9, ReleaseStep
<1>10. ASSUME NEW g \in Goroutines, NEW kind \in Kinds, NEW n \in Rooms, Grow(g, kind, n) PROVE IInv'
    BY <1>10, GrowStep, PoolAssumption
<1>11. ASSUME NEW kind \in Kinds, Collect(kind) PROVE IInv'
    BY <1>11, CollectStep
<1> QED BY <1>1, <1>2, <1>3, <1>4, <1>5, <1>6, <1>7, <1>8, <1>9, <1>10, <1>11 DEF Next

\* The invariant holds throughout.
THEOREM Invariance == Spec => []IInv
<1> QED BY InitInvariant, StepInvariant, PTL DEF Spec

\* Every variable keeps its type.
THEOREM TypeCorrect == Spec => []TypeOK
<1>1. IInv => TypeOK
    BY DEF IInv
<1> QED BY <1>1, Invariance, PTL

\* No writer is ever at two places: a Builder that Release or the deferred Release of Build
\* gives back has one owner at most after it, in every interleaving.
THEOREM NobodyShares == Spec => []Exclusive
<1>1. IInv => Exclusive
    BY DEF IInv
<1> QED BY <1>1, Invariance, PTL

\* No pooled buffer is past the limit of its pool (Release, ReleaseBatchWriter).
THEOREM PoolsStaySmall == Spec => []RetainsLittle
<1>1. IInv => RetainsLittle
    <2>1. ASSUME IInv, NEW kind \in Kinds, NEW w \in pooled[kind]
          PROVE  Len(buf[w]) <= capacity[w] /\ capacity[w] <= MaxRetain[kind]
        BY <2>1 DEF IInv, Placed, Roomy, Little, Kinds, Writers, All
    <2> QED BY <2>1 DEF RetainsLittle
<1> QED BY <1>1, Invariance, PTL

-----------------------------------------------------------------------------
(* Pooled writers are as new ones: each step is one of PrivateWriters, or a stutter.  *)

\* What a goroutine sees stays when its writer does.
LEMMA SeesText ==
    ASSUME NEW h \in Goroutines,
           held'[h]["builder"] = held[h]["builder"],
           phase'[h]["builder"] = phase[h]["builder"],
           phase[h]["builder"] # "idle" =>
               buf'[held[h]["builder"]] = buf[held[h]["builder"]]
    PROVE  OwnText'[h] = OwnText[h]
    BY DEF OwnText

LEMMA SeesBatch ==
    ASSUME NEW h \in Goroutines,
           held'[h]["batch"] = held[h]["batch"],
           phase'[h]["batch"] = phase[h]["batch"],
           phase[h]["batch"] # "idle" =>
               /\ buf'[held[h]["batch"]] = buf[held[h]["batch"]]
               /\ count'[held[h]["batch"]] = count[held[h]["batch"]]
    PROVE  OwnBatch'[h] = OwnBatch[h]
    BY DEF OwnBatch

\* Who sees a text has it in a Builder, and it is not nil.
LEMMA Seen ==
    ASSUME IInv, NEW g \in Goroutines
    PROVE  /\ phase[g]["builder"] \in {"using", "returning"} =>
                 OwnText[g] = buf[held[g]["builder"]] /\ OwnText[g] # None
           /\ phase[g]["builder"] \in {"idle", "clearing"} => OwnText[g] = None
           /\ phase[g]["batch"] = "using" =>
                 /\ OwnBatch[g] = [lines |-> buf[held[g]["batch"]],
                                   count |-> count[held[g]["batch"]]]
                 /\ OwnBatch[g] # None
           /\ phase[g]["batch"] # "using" => OwnBatch[g] = None
<1>1. ASSUME phase[g]["builder"] \in {"using", "returning"}
      PROVE  OwnText[g] = buf[held[g]["builder"]] /\ OwnText[g] # None
    <2>1. held[g]["builder"] \in All
        BY <1>1, Holds DEF Kinds
    <2>2. buf[held[g]["builder"]] \in Seq(Bytes)
        BY <2>1 DEF IInv, TypeOK, All
    <2> QED BY <1>1, <2>2, PoolAssumption DEF OwnText
<1>2. phase[g]["builder"] \in {"idle", "clearing"} => OwnText[g] = None
    BY DEF OwnText
<1>3. ASSUME phase[g]["batch"] = "using"
      PROVE  /\ OwnBatch[g] = [lines |-> buf[held[g]["batch"]], count |-> count[held[g]["batch"]]]
             /\ OwnBatch[g] # None
    <2>1. held[g]["batch"] \in All /\ held[g]["batch"] \in Batches
        BY <1>3, Holds DEF Kinds, Writers
    <2>2. buf[held[g]["batch"]] \in Seq(Bytes) /\ count[held[g]["batch"]] \in Nat
        BY <2>1 DEF IInv, TypeOK, All
    <2>3. [lines |-> buf[held[g]["batch"]], count |-> count[held[g]["batch"]]]
              \in [lines : Seq(Bytes), count : Nat]
        BY <2>2
    <2> QED BY <1>3, <2>3, PoolAssumption DEF OwnBatch
<1>4. phase[g]["batch"] # "using" => OwnBatch[g] = None
    BY DEF OwnBatch
<1> QED BY <1>1, <1>2, <1>3, <1>4

\* What all see, from what each does.
LEMMA AllSee ==
    /\ (\A h \in Goroutines : OwnText'[h] = OwnText[h]) => OwnText' = OwnText
    /\ (\A h \in Goroutines : OwnBatch'[h] = OwnBatch[h]) => OwnBatch' = OwnBatch
    /\ \A g \in Goroutines : \A t :
         (\A h \in Goroutines \ {g} : OwnText'[h] = OwnText[h]) /\ OwnText'[g] = t
            => OwnText' = [OwnText EXCEPT ![g] = t]
    /\ \A g \in Goroutines : \A t :
         (\A h \in Goroutines \ {g} : OwnBatch'[h] = OwnBatch[h]) /\ OwnBatch'[g] = t
            => OwnBatch' = [OwnBatch EXCEPT ![g] = t]
<1>1. /\ OwnText = [h \in Goroutines |-> OwnText[h]] /\ OwnText' = [h \in Goroutines |-> OwnText'[h]]
      /\ OwnBatch = [h \in Goroutines |-> OwnBatch[h]] /\ OwnBatch' = [h \in Goroutines |-> OwnBatch'[h]]
    BY DEF OwnText, OwnBatch
<1> QED BY <1>1

\* Only one's own writer is touched: a step that changes the writer w, which g holds or
\* nobody, and what g holds of that kind.
LeavesOthers(g, kind, w) ==
    /\ \A v \in All : v # w => buf'[v] = buf[v]
    /\ \A v \in Batches : v # w => count'[v] = count[v]
    /\ \A h \in Goroutines, k \in Kinds : (h # g \/ k # kind) =>
           /\ held'[h][k] = held[h][k] /\ phase'[h][k] = phase[h][k]
           /\ phase[h][k] = "idle" \/ held[h][k] # w

LEMMA OthersSee ==
    ASSUME IInv, NEW g \in Goroutines, NEW kind \in Kinds, NEW w, LeavesOthers(g, kind, w)
    PROVE  /\ \A h \in Goroutines \ {g} : OwnText'[h] = OwnText[h] /\ OwnBatch'[h] = OwnBatch[h]
           /\ kind = "batch" => OwnText'[g] = OwnText[g]
           /\ kind = "builder" => OwnBatch'[g] = OwnBatch[g]
<1>1. ASSUME NEW h \in Goroutines, h # g \/ kind = "batch" PROVE OwnText'[h] = OwnText[h]
    <2>1. /\ held'[h]["builder"] = held[h]["builder"] /\ phase'[h]["builder"] = phase[h]["builder"]
          /\ phase[h]["builder"] = "idle" \/ held[h]["builder"] # w
        BY <1>1 DEF Kinds, LeavesOthers
    <2>2. phase[h]["builder"] # "idle" => held[h]["builder"] \in All
        BY Holds DEF Kinds
    <2> QED BY <2>1, <2>2, SeesText DEF LeavesOthers
<1>2. ASSUME NEW h \in Goroutines, h # g \/ kind = "builder" PROVE OwnBatch'[h] = OwnBatch[h]
    <2>1. /\ held'[h]["batch"] = held[h]["batch"] /\ phase'[h]["batch"] = phase[h]["batch"]
          /\ phase[h]["batch"] = "idle" \/ held[h]["batch"] # w
        BY <1>2 DEF Kinds, LeavesOthers
    <2>2. phase[h]["batch"] # "idle" => held[h]["batch"] \in All /\ held[h]["batch"] \in Batches
        BY Holds DEF Kinds, Writers
    <2> QED BY <2>1, <2>2, SeesBatch DEF LeavesOthers
<1> QED BY <1>1, <1>2

\* A writer that a goroutine has is nobody else's, of either kind.
LEMMA Alone ==
    ASSUME IInv, NEW g \in Goroutines, NEW kind \in Kinds, held[g][kind] # None,
           NEW h \in Goroutines, NEW k \in Kinds, h # g \/ k # kind
    PROVE  phase[h][k] = "idle" \/ held[h][k] # held[g][kind]
    BY Holds, PoolAssumption DEF IInv, Exclusive, Kinds, Writers

\* A writer that is pooled, or in use nowhere, is nobody's.
LEMMA Nobodys ==
    ASSUME IInv, NEW kind \in Kinds, NEW w \in Writers[kind],
           w \in pooled[kind] \/ \A h \in Goroutines : held[h][kind] # w,
           NEW h \in Goroutines, NEW k \in Kinds
    PROVE  phase[h][k] = "idle" \/ held[h][k] # w
    BY Holds, PoolAssumption DEF IInv, Exclusive, Kinds, Writers

LEMMA GetRefines ==
    ASSUME IInv, NEW g \in Goroutines, NEW kind \in Kinds, Get(g, kind)
    PROVE  UNCHANGED Private!vars
<1>1. PICK w \in pooled[kind] :
          /\ phase[g][kind] = "idle"
          /\ phase' = [phase EXCEPT ![g][kind] = "clearing"]
          /\ held' = [held EXCEPT ![g][kind] = w]
          /\ UNCHANGED <<fields, result>>
    BY DEF Get, Takes
<1>2. \A h \in Goroutines, k \in Kinds :
          IF h = g /\ k = kind THEN phase[h][k] = "idle" /\ phase'[h][k] = "clearing"
          ELSE held'[h][k] = held[h][k] /\ phase'[h][k] = phase[h][k]
    BY <1>1 DEF IInv, TypeOK
<1>3. ASSUME NEW h \in Goroutines PROVE OwnText'[h] = OwnText[h]
    <2>1. CASE h = g /\ kind = "builder"
        BY <1>2, <2>1 DEF OwnText, Kinds
    <2>2. CASE ~(h = g /\ kind = "builder")
        BY <1>1, <1>2, <2>2, SeesText DEF fields, Kinds
    <2> QED BY <2>1, <2>2
<1>4. ASSUME NEW h \in Goroutines PROVE OwnBatch'[h] = OwnBatch[h]
    <2>1. CASE h = g /\ kind = "batch"
        BY <1>2, <2>1 DEF OwnBatch, Kinds
    <2>2. CASE ~(h = g /\ kind = "batch")
        BY <1>1, <1>2, <2>2, SeesBatch DEF fields, Kinds
    <2> QED BY <2>1, <2>2
<1> QED BY <1>1, <1>3, <1>4, AllSee DEF Private!vars

LEMMA NewRefines ==
    ASSUME IInv, NEW g \in Goroutines, NEW kind \in Kinds, New(g, kind)
    PROVE  Private!AcquireBuilder(g) \/ Private!AcquireBatch(g)
<1>1. PICK w \in Unused(kind) :
          /\ Takes(g, kind, w, "using")
          /\ Empties(w, BufferSize[kind])
          /\ UNCHANGED <<pooled, result>>
    BY DEF New
<1>2. /\ w \in Writers[kind] /\ w \in All
      /\ \A h \in Goroutines : held[h][kind] # w
    BY DEF Unused, Kinds, Writers, All
<1>3. /\ phase[g][kind] = "idle" /\ phase'[g][kind] = "using" /\ held'[g][kind] = w
      /\ \A h \in Goroutines, k \in Kinds : (h # g \/ k # kind) =>
             held'[h][k] = held[h][k] /\ phase'[h][k] = phase[h][k]
    BY <1>1 DEF IInv, TypeOK, Takes
<1>4. /\ \A v \in All : v # w => buf'[v] = buf[v]
      /\ \A v \in Batches : v # w => count'[v] = count[v]
      /\ buf'[w] = << >> /\ (w \in Batches => count'[w] = 0)
    BY <1>1, <1>2 DEF Empties, All
<1>5. \A h \in Goroutines, k \in Kinds : phase[h][k] = "idle" \/ held[h][k] # w
    BY <1>2, Nobodys
<1>6. /\ \A h \in Goroutines \ {g} : OwnText'[h] = OwnText[h] /\ OwnBatch'[h] = OwnBatch[h]
      /\ kind = "batch" => OwnText'[g] = OwnText[g]
      /\ kind = "builder" => OwnBatch'[g] = OwnBatch[g]
    <2>1. LeavesOthers(g, kind, w)
        BY <1>3, <1>4, <1>5 DEF LeavesOthers
    <2> QED BY <2>1, OthersSee
<1>7. CASE kind = "builder"
    <2>1. OwnText'[g] = << >> /\ OwnText[g] = None
        BY <1>3, <1>4, <1>7 DEF OwnText
    <2>2. OwnText' = [OwnText EXCEPT ![g] = << >>] /\ OwnBatch' = OwnBatch
        BY <1>6, <1>7, <2>1, AllSee
    <2> QED BY <1>1, <2>1, <2>2 DEF Private!AcquireBuilder
<1>8. CASE kind = "batch"
    <2>1. OwnBatch'[g] = [lines |-> << >>, count |-> 0] /\ OwnBatch[g] = None
        BY <1>2, <1>3, <1>4, <1>8 DEF OwnBatch, Writers
    <2>2. OwnBatch' = [OwnBatch EXCEPT ![g] = [lines |-> << >>, count |-> 0]] /\ OwnText' = OwnText
        BY <1>6, <1>8, <2>1, AllSee
    <2> QED BY <1>1, <2>1, <2>2 DEF Private!AcquireBatch
<1> QED BY <1>7, <1>8 DEF Kinds

LEMMA ResetBuilderRefines ==
    ASSUME IInv, NEW g \in Goroutines, ResetBuilder(g)
    PROVE  Private!AcquireBuilder(g) \/ Private!ResetBuilder(g)
<1> DEFINE b == held[g]["builder"]
<1>1. /\ phase[g]["builder"] \in {"clearing", "using"}
      /\ phase' = [phase EXCEPT ![g]["builder"] = "using"]
      /\ buf' = [buf EXCEPT ![b] = << >>]
      /\ UNCHANGED <<count, held, result>>
    BY DEF ResetBuilder
<1>2. b \in All /\ b # None /\ "builder" \in Kinds
    BY <1>1, Holds DEF Kinds
<1>3. /\ phase'[g]["builder"] = "using"
      /\ \A h \in Goroutines, k \in Kinds : (h # g \/ k # "builder") =>
             held'[h][k] = held[h][k] /\ phase'[h][k] = phase[h][k]
    BY <1>1, <1>2 DEF IInv, TypeOK
<1>4. /\ \A v \in All : v # b => buf'[v] = buf[v]
      /\ buf'[b] = << >>
    BY <1>1, <1>2 DEF IInv, TypeOK, All
<1>5. \A h \in Goroutines, k \in Kinds : (h # g \/ k # "builder") =>
          phase[h][k] = "idle" \/ held[h][k] # b
    BY <1>2, Alone
<1>6. /\ \A h \in Goroutines \ {g} : OwnText'[h] = OwnText[h] /\ OwnBatch'[h] = OwnBatch[h]
      /\ OwnBatch'[g] = OwnBatch[g]
    <2>1. LeavesOthers(g, "builder", b)
        BY <1>1, <1>2, <1>3, <1>4, <1>5 DEF LeavesOthers
    <2> QED BY <1>2, <2>1, OthersSee
<1>7. OwnText'[g] = << >>
    BY <1>1, <1>3, <1>4 DEF OwnText
<1>8. OwnText' = [OwnText EXCEPT ![g] = << >>] /\ OwnBatch' = OwnBatch
    BY <1>6, <1>7, AllSee
<1>9. OwnText[g] = None \/ OwnText[g] # None
    OBVIOUS
<1> QED BY <1>1, <1>8, <1>9 DEF Private!AcquireBuilder, Private!ResetBuilder

LEMMA ResetBatchRefines ==
    ASSUME IInv, NEW g \in Goroutines, ResetBatch(g)
    PROVE  Private!AcquireBatch(g) \/ Private!ResetBatch(g)
<1> DEFINE w == held[g]["batch"]
<1>1. /\ phase[g]["batch"] \in {"clearing", "using"}
      /\ phase' = [phase EXCEPT ![g]["batch"] = "using"]
      /\ buf' = [buf EXCEPT ![w] = << >>]
      /\ count' = [count EXCEPT ![w] = 0]
      /\ UNCHANGED <<held, result>>
    BY DEF ResetBatch
<1>2. w \in All /\ w \in Batches /\ w # None /\ "batch" \in Kinds
    BY <1>1, Holds DEF Kinds, Writers
<1>3. /\ phase'[g]["batch"] = "using"
      /\ \A h \in Goroutines, k \in Kinds : (h # g \/ k # "batch") =>
             held'[h][k] = held[h][k] /\ phase'[h][k] = phase[h][k]
    BY <1>1, <1>2 DEF IInv, TypeOK
<1>4. /\ \A v \in All : v # w => buf'[v] = buf[v]
      /\ \A v \in Batches : v # w => count'[v] = count[v]
      /\ buf'[w] = << >> /\ count'[w] = 0
    BY <1>1, <1>2 DEF IInv, TypeOK, All
<1>5. \A h \in Goroutines, k \in Kinds : (h # g \/ k # "batch") =>
          phase[h][k] = "idle" \/ held[h][k] # w
    BY <1>2, Alone
<1>6. /\ \A h \in Goroutines \ {g} : OwnText'[h] = OwnText[h] /\ OwnBatch'[h] = OwnBatch[h]
      /\ OwnText'[g] = OwnText[g]
    <2>1. LeavesOthers(g, "batch", w)
        BY <1>2, <1>3, <1>4, <1>5 DEF LeavesOthers
    <2> QED BY <1>2, <2>1, OthersSee
<1>7. OwnBatch'[g] = [lines |-> << >>, count |-> 0]
    BY <1>1, <1>3, <1>4 DEF OwnBatch
<1>8. OwnBatch' = [OwnBatch EXCEPT ![g] = [lines |-> << >>, count |-> 0]] /\ OwnText' = OwnText
    BY <1>6, <1>7, AllSee
<1> QED BY <1>1, <1>8 DEF Private!AcquireBatch, Private!ResetBatch

LEMMA GrowRefines ==
    ASSUME NEW g, NEW kind, NEW n, Grow(g, kind, n)
    PROVE  UNCHANGED Private!vars
    BY DEF Grow, Private!vars, OwnText, OwnBatch

\* The comma that a Builder writes is the one between two values, by Commas.
LEMMA WriteRefines ==
    ASSUME IInv, NEW g \in Goroutines, Write(g)
    PROVE  Private!Write(g)
<1> DEFINE b    == held[g]["builder"]
           text == buf[b] \o (IF needSep[b] THEN <<"comma">> ELSE << >>) \o <<g>>
           seen == IF OwnText[g] = << >> THEN <<g>> ELSE OwnText[g] \o <<"comma", g>>
<1>1. /\ phase[g]["builder"] = "using"
      /\ buf' = [buf EXCEPT ![b] = text]
      /\ UNCHANGED <<count, held, phase, result>>
    BY DEF Write, Using
<1>2. b \in All /\ b # None /\ "builder" \in Kinds
    BY <1>1, Holds DEF Kinds
<1>3. OwnText[g] = buf[b] /\ OwnText[g] # None
    BY <1>1, Seen
<1>4. text = seen
    <2>1. buf[b] \in Seq(Bytes) /\ "comma" \in Bytes /\ g \in Bytes
        BY <1>2 DEF IInv, TypeOK, All, Bytes
    <2>2. needSep[b] <=> buf[b] # << >>
        BY <1>1, Zenon DEF IInv, Commas
    <2>3. CASE needSep[b]
        <3>1. text = buf[b] \o <<"comma">> \o <<g>>
            BY <2>3, Zenon
        <3>2. seen = buf[b] \o <<"comma", g>>
            BY <1>3, <2>2, <2>3, Zenon
        <3>3. \A s \in Seq(Bytes) : s \o <<"comma">> \o <<g>> = s \o <<"comma", g>>
            BY <2>1
        <3> QED BY <2>1, <3>1, <3>2, <3>3
    <2>4. CASE ~needSep[b]
        <3>1. text = buf[b] \o << >> \o <<g>> /\ buf[b] = << >> /\ seen = <<g>>
            BY <1>3, <2>2, <2>4, Zenon
        <3>2. << >> \o << >> \o <<g>> = <<g>>
            OBVIOUS
        <3> QED BY <3>1, <3>2
    <2> QED BY <2>3, <2>4
<1> HIDE DEF text, seen
<1>5. /\ \A v \in All : v # b => buf'[v] = buf[v]
      /\ buf'[b] = seen
    BY <1>1, <1>2, <1>4 DEF IInv, TypeOK, All
<1>6. /\ \A h \in Goroutines \ {g} : OwnText'[h] = OwnText[h] /\ OwnBatch'[h] = OwnBatch[h]
      /\ OwnBatch'[g] = OwnBatch[g]
    <2>1. \A h \in Goroutines, k \in Kinds : (h # g \/ k # "builder") =>
              phase[h][k] = "idle" \/ held[h][k] # b
        BY <1>2, Alone
    <2>2. LeavesOthers(g, "builder", b)
        BY <1>1, <1>5, <2>1 DEF LeavesOthers
    <2> QED BY <1>2, <2>2, OthersSee
<1>7. OwnText'[g] = seen
    BY <1>1, <1>5 DEF OwnText
<1>8. OwnText' = [OwnText EXCEPT ![g] = seen] /\ OwnBatch' = OwnBatch
    BY <1>6, <1>7, AllSee
<1> QED BY <1>1, <1>3, <1>8 DEF Private!Write, seen

LEMMA AppendRecordRefines ==
    ASSUME IInv, NEW g \in Goroutines, AppendRecord(g)
    PROVE  Private!AppendRecord(g)
<1> DEFINE w     == held[g]["batch"]
           lines == buf[w] \o buf[held[g]["builder"]] \o <<"newline">>
<1>1. /\ phase[g]["builder"] = "using" /\ phase[g]["batch"] = "using"
      /\ buf' = [buf EXCEPT ![w] = lines]
      /\ count' = [count EXCEPT ![w] = @ + 1]
      /\ UNCHANGED <<held, phase, result>>
    BY DEF AppendRecord, Using
<1>2. w \in All /\ w \in Batches /\ w # None /\ "batch" \in Kinds
    BY <1>1, Holds DEF Kinds, Writers
<1>3. /\ OwnText[g] = buf[held[g]["builder"]] /\ OwnText[g] # None
      /\ OwnBatch[g] = [lines |-> buf[w], count |-> count[w]] /\ OwnBatch[g] # None
    BY <1>1, Seen
<1> HIDE DEF lines
<1>4. /\ \A v \in All : v # w => buf'[v] = buf[v]
      /\ \A v \in Batches : v # w => count'[v] = count[v]
      /\ buf'[w] = lines /\ count'[w] = count[w] + 1
    BY <1>1, <1>2 DEF IInv, TypeOK, All
<1>5. /\ \A h \in Goroutines \ {g} : OwnText'[h] = OwnText[h] /\ OwnBatch'[h] = OwnBatch[h]
      /\ OwnText'[g] = OwnText[g]
    <2>1. \A h \in Goroutines, k \in Kinds : (h # g \/ k # "batch") =>
              phase[h][k] = "idle" \/ held[h][k] # w
        BY <1>2, Alone
    <2>2. LeavesOthers(g, "batch", w)
        BY <1>1, <1>4, <2>1 DEF LeavesOthers
    <2> QED BY <1>2, <2>2, OthersSee
<1>6. OwnBatch'[g] = [lines |-> lines, count |-> count[w] + 1]
    BY <1>1, <1>4 DEF OwnBatch
<1>7. OwnBatch' = [OwnBatch EXCEPT ![g] = [lines |-> lines, count |-> count[w] + 1]]
      /\ OwnText' = OwnText
    BY <1>5, <1>6, AllSee
<1>8. [lines |-> lines, count |-> count[w] + 1]
        = [lines |-> OwnBatch[g].lines \o OwnText[g] \o <<"newline">>, count |-> OwnBatch[g].count + 1]
    BY <1>3 DEF lines
<1> QED BY <1>1, <1>3, <1>7, <1>8 DEF Private!AppendRecord

LEMMA ReturnRefines ==
    ASSUME IInv, NEW g \in Goroutines, Return(g)
    PROVE  Private!Return(g)
<1>1. /\ phase[g]["builder"] = "using"
      /\ result' = [result EXCEPT ![g] = buf[held[g]["builder"]]]
      /\ phase' = [phase EXCEPT ![g]["builder"] = "returning"]
      /\ UNCHANGED <<buf, count, held>>
    BY DEF Return, Using, fields
<1>2. OwnText[g] = buf[held[g]["builder"]] /\ OwnText[g] # None
    BY <1>1, Seen
<1>3. /\ phase'[g]["builder"] = "returning"
      /\ \A h \in Goroutines, k \in Kinds : (h # g \/ k # "builder") => phase'[h][k] = phase[h][k]
    BY <1>1 DEF IInv, TypeOK, Kinds
<1>4. ASSUME NEW h \in Goroutines PROVE OwnText'[h] = OwnText[h] /\ OwnBatch'[h] = OwnBatch[h]
    <2>1. OwnText'[g] = OwnText[g]
        BY <1>1, <1>3 DEF OwnText
    <2>2. h # g => OwnText'[h] = OwnText[h]
        BY <1>1, <1>3, SeesText DEF Kinds
    <2>3. OwnBatch'[h] = OwnBatch[h]
        BY <1>1, <1>3, SeesBatch DEF Kinds
    <2> QED BY <2>1, <2>2, <2>3
<1> QED BY <1>1, <1>2, <1>4, AllSee DEF Private!Return

\* Giving back a writer ends what its holder sees; with none, or a batch that Build never
\* gives back, nothing changes.
LEMMA ReleaseRefines ==
    ASSUME IInv, NEW g \in Goroutines, NEW kind \in Kinds, Release(g, kind)
    PROVE  \/ UNCHANGED Private!vars
           \/ Private!ReleaseBuilder(g) \/ Private!ReleaseBatch(g)
<1> DEFINE w == held[g][kind]
<1>1. /\ phase[g][kind] # "clearing"
      /\ held' = [held EXCEPT ![g][kind] = None]
      /\ phase' = [phase EXCEPT ![g][kind] = "idle"]
      /\ UNCHANGED result
      /\ UNCHANGED fields \/ Empties(w, 0)
    BY DEF Release
<1>2. /\ phase'[g][kind] = "idle"
      /\ \A h \in Goroutines, k \in Kinds : (h # g \/ k # kind) =>
             held'[h][k] = held[h][k] /\ phase'[h][k] = phase[h][k]
    BY <1>1 DEF IInv, TypeOK
<1>3. /\ \A v \in All : v # w => buf'[v] = buf[v]
      /\ \A v \in Batches : v # w => count'[v] = count[v]
    BY <1>1 DEF Empties, fields, All
<1>4. \A h \in Goroutines, k \in Kinds : (h # g \/ k # kind) =>
          phase[h][k] = "idle" \/ held[h][k] # w
    <2>1. CASE w = None
        BY <2>1 DEF IInv, Placed
    <2>2. CASE w # None
        BY <2>2, Alone
    <2> QED BY <2>1, <2>2
<1>5. /\ \A h \in Goroutines \ {g} : OwnText'[h] = OwnText[h] /\ OwnBatch'[h] = OwnBatch[h]
      /\ kind = "batch" => OwnText'[g] = OwnText[g]
      /\ kind = "builder" => OwnBatch'[g] = OwnBatch[g]
    <2>1. LeavesOthers(g, kind, w)
        BY <1>2, <1>3, <1>4 DEF LeavesOthers
    <2> QED BY <2>1, OthersSee
<1>6. CASE kind = "builder"
    <2>1. OwnText'[g] = None
        BY <1>2, <1>6 DEF OwnText
    <2>2. OwnText' = [OwnText EXCEPT ![g] = None] /\ OwnBatch' = OwnBatch
        BY <1>5, <1>6, <2>1, AllSee
    <2>3. OwnText[g] = None => OwnText' = OwnText
        BY <1>5, <2>1, AllSee
    <2> QED BY <1>1, <2>2, <2>3 DEF Private!vars, Private!ReleaseBuilder
<1>7. CASE kind = "batch"
    <2>1. OwnBatch'[g] = None
        BY <1>2, <1>7 DEF OwnBatch
    <2>2. OwnBatch' = [OwnBatch EXCEPT ![g] = None] /\ OwnText' = OwnText
        BY <1>5, <1>7, <2>1, AllSee
    <2>3. OwnBatch[g] = None => OwnBatch' = OwnBatch
        BY <1>5, <2>1, AllSee
    <2> QED BY <1>1, <2>2, <2>3 DEF Private!vars, Private!ReleaseBatch
<1> QED BY <1>6, <1>7 DEF Kinds

LEMMA CollectRefines ==
    ASSUME IInv, NEW kind \in Kinds, Collect(kind)
    PROVE  UNCHANGED Private!vars
<1>1. PICK w \in pooled[kind] : Empties(w, 0) /\ UNCHANGED <<held, phase, result>>
    BY DEF Collect
<1>2. /\ \A v \in All : v # w => buf'[v] = buf[v]
      /\ \A v \in Batches : v # w => count'[v] = count[v]
    BY <1>1 DEF Empties, All
<1>3. \A h \in Goroutines, k \in Kinds : phase[h][k] = "idle" \/ held[h][k] # w
    <2>1. w \in Writers[kind]
        BY DEF IInv, Placed
    <2> QED BY <2>1, Nobodys
<1>4. ASSUME NEW h \in Goroutines PROVE OwnText'[h] = OwnText[h] /\ OwnBatch'[h] = OwnBatch[h]
    <2>1. /\ phase[h]["builder"] # "idle" => buf'[held[h]["builder"]] = buf[held[h]["builder"]]
          /\ phase[h]["batch"] # "idle" => /\ buf'[held[h]["batch"]] = buf[held[h]["batch"]]
                                           /\ count'[held[h]["batch"]] = count[held[h]["batch"]]
        BY <1>2, <1>3, Holds DEF Kinds, Writers
    <2> QED BY <1>1, <2>1, SeesText, SeesBatch
<1> QED BY <1>1, <1>4, AllSee DEF Private!vars

-----------------------------------------------------------------------------
LEMMA StepRefines == IInv /\ [Next]_vars => [Private!Next]_(Private!vars)
<1> SUFFICES ASSUME IInv, [Next]_vars PROVE Private!Next \/ UNCHANGED Private!vars
    OBVIOUS
<1>1. CASE UNCHANGED vars
    BY <1>1 DEF vars, fields, Private!vars, OwnText, OwnBatch
<1>2. ASSUME NEW g \in Goroutines,
             ResetBuilder(g) \/ ResetBatch(g) \/ Write(g) \/ AppendRecord(g) \/ Return(g)
      PROVE  Private!Next
    BY <1>2, ResetBuilderRefines, ResetBatchRefines, WriteRefines, AppendRecordRefines,
       ReturnRefines DEF Private!Next
<1>3. ASSUME NEW g \in Goroutines, NEW kind \in Kinds, Get(g, kind)
      PROVE  UNCHANGED Private!vars
    BY <1>3, GetRefines
<1>4. ASSUME NEW g \in Goroutines, NEW kind \in Kinds, New(g, kind) PROVE Private!Next
    BY <1>4, NewRefines DEF Private!Next
<1>5. ASSUME NEW g \in Goroutines, NEW kind \in Kinds, Release(g, kind)
      PROVE  Private!Next \/ UNCHANGED Private!vars
    BY <1>5, ReleaseRefines DEF Private!Next
<1>6. ASSUME NEW g \in Goroutines, NEW kind \in Kinds, NEW n \in Rooms, Grow(g, kind, n)
      PROVE  UNCHANGED Private!vars
    BY <1>6, GrowRefines
<1>7. ASSUME NEW kind \in Kinds, Collect(kind) PROVE UNCHANGED Private!vars
    BY <1>7, CollectRefines
<1> QED BY <1>1, <1>2, <1>3, <1>4, <1>5, <1>6, <1>7 DEF Next

\* Pooling cannot be told from new writers (pool.go, ndjson.go): whatever the interleaving
\* of Acquire, Reset, writes, Build and Release, and whatever the collector drops.
THEOREM Refinement == Spec => ImplementsPrivateWriters
<1>1. Init => Private!Init
    BY DEF Init, Private!Init, OwnText, OwnBatch, Kinds
<1> QED BY <1>1, Invariance, StepRefines, PTL DEF Spec, ImplementsPrivateWriters, Private!Spec
=============================================================================
