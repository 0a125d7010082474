------------------------- MODULE RawEventPathProofs -------------------------
(***************************************************************************)
(* Theorems about RawEventPath for every size of the queue, number of      *)
(* retries, share of a tick and bound on callbacks, crashes and replays:   *)
(* types, the offset at the broker, the order of trades in the state, and  *)
(* that the path implements EventLedger.                                   *)
(***************************************************************************)
EXTENDS RawEventPath, SequenceTheorems, FiniteSetTheorems, TLAPS

-----------------------------------------------------------------------------
(* The elements of a sequence.                                             *)

LEMMA RangeIs ==
  ASSUME NEW S, NEW s \in Seq(S)
  PROVE  /\ Range(s) \subseteq S
         /\ \A x : x \in Range(s) <=> \E i \in 1 .. Len(s) : s[i] = x
BY DEF Range

LEMMA RangeAppend ==
  ASSUME NEW S, NEW s \in Seq(S), NEW e \in S
  PROVE  Range(Append(s, e)) = Range(s) \cup {e}
<1>1. Append(s, e) \in Seq(S) /\ Len(Append(s, e)) = Len(s) + 1 /\ Len(s) \in Nat
  OBVIOUS
<1>2. ASSUME NEW x  PROVE x \in Range(Append(s, e)) <=> x \in Range(s) \cup {e}
  <2>1. x \in Range(Append(s, e)) <=> \E i \in 1 .. Len(s) + 1 : Append(s, e)[i] = x
    BY <1>1, RangeIs
  <2>2. x \in Range(s) <=> \E i \in 1 .. Len(s) : s[i] = x
    BY RangeIs
  <2>3. \A i \in 1 .. Len(s) : Append(s, e)[i] = s[i] /\ i \in 1 .. Len(s) + 1
    BY <1>1
  <2>4. Append(s, e)[Len(s) + 1] = e /\ Len(s) + 1 \in 1 .. Len(s) + 1
    BY <1>1
  <2>5. \A i \in 1 .. Len(s) + 1 : i \in 1 .. Len(s) \/ i = Len(s) + 1
    BY <1>1
  <2> QED  BY <2>1, <2>2, <2>3, <2>4, <2>5
<1> QED  BY <1>2

LEMMA RangeTail ==
  ASSUME NEW S, NEW s \in Seq(S), s # <<>>
  PROVE  Range(s) = {Head(s)} \cup Range(Tail(s))
<1>1. Tail(s) \in Seq(S) /\ Len(Tail(s)) = Len(s) - 1 /\ Len(s) \in Nat \ {0} /\ Head(s) = s[1]
  OBVIOUS
<1>2. \A i \in 1 .. Len(s) - 1 : Tail(s)[i] = s[i + 1] /\ i + 1 \in 1 .. Len(s)
  BY <1>1
<1>3. \A i \in 1 .. Len(s) : i = 1 \/ (i - 1 \in 1 .. Len(s) - 1 /\ Tail(s)[i - 1] = s[i])
  BY <1>1
<1>4. ASSUME NEW x  PROVE x \in Range(s) <=> x = s[1] \/ x \in Range(Tail(s))
  <2>1. x \in Range(s) <=> \E i \in 1 .. Len(s) : s[i] = x
    BY RangeIs
  <2>2. x \in Range(Tail(s)) <=> \E i \in 1 .. Len(s) - 1 : Tail(s)[i] = x
    <3> DEFINE t == Tail(s)
    <3>1. t \in Seq(S) /\ Len(t) = Len(s) - 1
      BY <1>1
    <3> HIDE DEF t
    <3>2. x \in Range(t) <=> \E i \in 1 .. Len(s) - 1 : t[i] = x
      BY <3>1, RangeIs
    <3> QED  BY <3>2 DEF t
  <2>3. 1 \in 1 .. Len(s)
    BY <1>1
  <2> QED  BY <2>1, <2>2, <2>3, <1>2, <1>3
<1> QED  BY <1>1, <1>4

LEMMA RangeFinite ==
  ASSUME NEW S, S \subseteq Nat, NEW n \in Nat, \A x \in S : x <= n, NEW s \in Seq(S)
  PROVE  Range(s) \subseteq Nat /\ IsFiniteSet(Range(s))
<1>1. Range(s) \subseteq Nat /\ \A x \in Range(s) : x <= n
  BY RangeIs
<1> QED  BY <1>1, FS_BoundedSetOfNaturals

\* What is written with a bound on its domain is a sequence.
LEMMA FunctionIsSeq ==
  ASSUME NEW S, NEW n \in Nat, NEW f \in [1 .. n -> S]
  PROVE  f \in Seq(S) /\ Len(f) = n
OBVIOUS

\* A finite set of numbers has a greatest one.
LEMMA Greatest ==
  ASSUME NEW S, S \subseteq Nat, S # {}, IsFiniteSet(S)
  PROVE  \E m \in S : \A x \in S : x <= m
<1> DEFINE Above(x) == {y \in S : y > x}
           T == {Above(x) : x \in S}
           R == StrictSubsetOrdering(S)
<1>1. T \subseteq FiniteSubsetsOf(S) /\ T # {}
  <2>1. ASSUME NEW x \in S  PROVE Above(x) \in FiniteSubsetsOf(S)
    BY FS_Subset DEF FiniteSubsetsOf
  <2> QED  BY <2>1
<1>2. IsWellFoundedOn(R, FiniteSubsetsOf(S))
  BY FS_StrictSubsetOrderingWellFounded
<1>3. \E M \in T : \A Y \in T : <<Y, M>> \notin R
  <2> HIDE DEF T, R
  <2> QED  BY <1>1, <1>2, WFMin
<1>4. PICK m \in S : \A x \in S : <<Above(x), Above(m)>> \notin R
  BY <1>3
<1>5. ASSUME NEW x \in S, x > m  PROVE FALSE
  <2>1. Above(x) \subseteq Above(m) /\ x \in Above(m) /\ x \notin Above(x)
    <3>1. x \in Nat /\ m \in Nat
      BY <1>5
    <3>2. ASSUME NEW y \in S, y > x  PROVE y > m
      <4>1. y \in Nat
        OBVIOUS
      <4> QED  BY <3>1, <3>2, <4>1, <1>5
    <3>3. ~(x > x) /\ x > m
      BY <3>1, <1>5
    <3> QED  BY <3>2, <3>3
  <2>2. Above(x) \in SUBSET S /\ Above(m) \in SUBSET S
    OBVIOUS
  <2> HIDE DEF Above
  <2>3. <<Above(x), Above(m)>> \in R
    BY <2>1, <2>2 DEF StrictSubsetOrdering
  <2> QED  BY <2>3, <1>4
<1> QED  BY <1>5

\* A finite set of numbers can be counted through in its order.
Enumerates(s, S) ==
  s \in [1 .. Cardinality(S) -> S] /\ \A i, j \in DOMAIN s : i < j => s[i] < s[j]

LEMMA Enumeration ==
  ASSUME NEW S, S \subseteq Nat, IsFiniteSet(S)
  PROVE  \E s : Enumerates(s, S)
<1> DEFINE T == {X \in FiniteSubsetsOf(S) : ~ \E s : Enumerates(s, X)}
           R == StrictSubsetOrdering(S)
<1> SUFFICES ASSUME T # {} PROVE FALSE
  BY DEF FiniteSubsetsOf
<1>1. IsWellFoundedOn(R, FiniteSubsetsOf(S))
  BY FS_StrictSubsetOrderingWellFounded
<1>2. \E X \in T : \A Y \in T : <<Y, X>> \notin R
  <2>1. T \subseteq FiniteSubsetsOf(S)
    OBVIOUS
  <2> HIDE DEF T, R
  <2> QED  BY <1>1, <2>1, WFMin
<1>3. PICK X \in T : \A Y \in T : <<Y, X>> \notin R
  BY <1>2
<1>4. X \subseteq S /\ IsFiniteSet(X) /\ ~ \E s : Enumerates(s, X)
  BY DEF FiniteSubsetsOf
<1>5. CASE X = {}
  <2>1. Cardinality(X) = 0
    BY <1>5, FS_EmptySet
  <2>2. [i \in 1 .. 0 |-> 0] \in [1 .. 0 -> X]
    OBVIOUS
  <2>3. Enumerates([i \in 1 .. 0 |-> 0], X)
    BY <2>1, <2>2 DEF Enumerates
  <2> QED  BY <2>3, <1>4
<1>6. CASE X # {}
  <2>1. PICK m \in X : \A x \in X : x <= m
    BY <1>4, <1>6, Greatest
  <2>9. m \in Nat /\ m \in X /\ \A x \in X : x \in Nat
    BY <1>4, <2>1
  <2> DEFINE Y == X \ {m}
             c == Cardinality(Y)
  <2>2. IsFiniteSet(Y) /\ Cardinality(X) = c + 1 /\ c \in Nat
    <3>1. IsFiniteSet(Y) /\ Cardinality(Y) = Cardinality(X) - 1
      BY <1>4, <2>1, FS_RemoveElement
    <3>2. Cardinality(X) \in Nat /\ Cardinality(Y) \in Nat
      BY <1>4, <3>1, FS_CardinalityType
    <3> QED  BY <3>1, <3>2
  <2>3. Y \in FiniteSubsetsOf(S) /\ <<Y, X>> \in R
    BY <2>1, <2>2, <1>4 DEF FiniteSubsetsOf, StrictSubsetOrdering
  <2>4. PICK s : Enumerates(s, Y)
    BY <2>3, <1>3
  <2>5. s \in [1 .. c -> Y] /\ \A i, j \in 1 .. c : i < j => s[i] < s[j]
    BY <2>4 DEF Enumerates
  <2>10. \A y \in Y : y \in X /\ y < m
    BY <2>1, <2>9
  <2> HIDE DEF Y, c
  <2> DEFINE t == [i \in 1 .. c + 1 |-> IF i = c + 1 THEN m ELSE s[i]]
  <2>11. \A i \in 1 .. c + 1 : i = c + 1 \/ i \in 1 .. c
    BY <2>2
  <2>6. t \in [1 .. c + 1 -> X]
    BY <2>2, <2>5, <2>9, <2>10, <2>11
  <2>7. ASSUME NEW i \in 1 .. c + 1, NEW j \in 1 .. c + 1, i < j  PROVE t[i] < t[j]
    <3>1. i \in 1 .. c /\ s[i] \in Y /\ t[i] = s[i]
      BY <2>2, <2>5, <2>7
    <3>2. CASE j = c + 1
      <4>1. t[j] = m
        BY <3>2
      <4> HIDE DEF t
      <4> QED  BY <4>1, <3>1, <2>10
    <3>3. CASE j # c + 1
      <4>1. t[j] = s[j] /\ j \in 1 .. c
        BY <3>3, <2>11
      <4> HIDE DEF t
      <4> QED  BY <4>1, <3>1, <2>5, <2>7
    <3> QED  BY <3>2, <3>3
  <2>8. Enumerates(t, X)
    <3> HIDE DEF t
    <3>1. DOMAIN t = 1 .. c + 1
      BY <2>6
    <3> QED  BY <2>2, <2>6, <2>7, <3>1 DEF Enumerates
  <2> QED  BY <2>8, <1>4
<1> QED  BY <1>5, <1>6

LEMMA RangeEmpty == Range(<<>>) = {}
BY DEF Range

-----------------------------------------------------------------------------
(* Types.  A callback that is anywhere has been received.                  *)

Seen == 1 .. Len(kinds)
Records == [id : Seen, offset : Nat]

QueueTypes ==
  /\ kinds \in Seq(Kinds) /\ Len(kinds) <= MaxCallbacks
  /\ items \in Seq(Seen \cup {Marker}) /\ Len(items) <= QueueSize
  /\ coalesced \in Seen \cup {Marker}
  /\ superseded \subseteq Seen /\ rejections \subseteq Seen

LoopTypes ==
  /\ pc \in {"down", "drain", "publish", "process", "persist"}
  /\ owned \in Modes
  /\ hand \in Seen \cup {Marker} /\ tries \in 0 .. Retries
  /\ ingested \in Seq(Seen) /\ Len(ingested) <= MaxRaw
  /\ pc = "publish" => Len(ingested) < MaxRaw
  /\ batch \in Seq(Records) /\ Len(batch) <= MaxRaw /\ next \in 0 .. Len(batch)

StoreTypes ==
  /\ log \in Seq(Seen)
  /\ position \in Nat /\ offset \in Nat /\ brokerOffset \in Nat
  /\ {spoolFile, opRecords, state, rawFile} \subseteq Seq(Seen)
  /\ handled \subseteq Seen /\ lost \subseteq Seen
  /\ crashes \in 0 .. MaxCrashes /\ replays \in 0 .. MaxReplays
  /\ opIndex \in -1 .. Len(opRecords)

Types == QueueTypes /\ LoopTypes /\ StoreTypes

(* The queue: no callback waits twice, and the marker of the one that may  *)
(* be replaced is there once as long as that callback waits.               *)
QueueInv ==
  /\ \A i, j \in 1 .. Len(items) : items[i] = items[j] => i = j
  /\ (coalesced # Marker) = (Marker \in Range(items))
  /\ coalesced # Marker => coalesced \notin Range(items)
  /\ (hand # Marker) = (pc = "publish")
  /\ hand # Marker => hand \notin Range(items) /\ hand # coalesced
  /\ pc = "down" => items = <<>> /\ ingested = <<>> /\ batch = <<>> /\ next = 0
  /\ pc \in {"drain", "publish"} => batch = <<>> /\ next = 0

(* Where a callback is.  What waits has been neither rejected, replaced    *)
(* nor lost, every callback is somewhere, what is in the spool has been    *)
(* rejected, and the operator, who works while the process is down, has    *)
(* published what he has passed.                                           *)
LedgerInv ==
  /\ InMemory \cap (rejections \cup superseded \cup lost) = {}
  /\ Seen \subseteq Range(log) \cup rejections \cup superseded \cup InMemory \cup lost

SpoolInv == Range(spoolFile) \cup Range(opRecords) \subseteq rejections

ReplayInv ==
  /\ opIndex >= 0 => pc = "down" /\ opRecords = spoolFile
  /\ \A i \in 1 .. opIndex : opRecords[i] \in Range(log)

(* What a record of the topic needs not wait for any more, and the records *)
(* the tick has in hand.                                                   *)
Covered == handled \cup rejections \cup lost
BatchIds(from) == {batch[i].id : i \in from .. Len(batch)}

(* The offset: the runtime that owns the path counts no further than the   *)
(* topic reaches and has every record of the topic in its tick or behind   *)
(* it; the consumer that polls has everything up to its position there.    *)
OffsetInv ==
  /\ brokerOffset <= Len(log) /\ offset <= Len(log) /\ position <= Len(log)
  /\ \A i \in 1 .. brokerOffset : log[i] \in Covered
  /\ \A i \in 1 .. next : batch[i].id \in handled
  /\ pc = "persist" => next = Len(batch)

OwnedInv ==
  owned =>
    /\ pc \in {"process", "persist"} =>
         Len(batch) = Len(ingested) /\ \A i \in 1 .. Len(batch) : batch[i].id = ingested[i]
    /\ pc # "persist" => offset + Len(ingested) <= Len(log)
    /\ Range(log) \subseteq Covered \cup Range(ingested) \cup {hand}

PolledInv ==
  ~owned =>
    /\ \A i \in 1 .. position : log[i] \in Covered \cup BatchIds(next + 1)
    /\ pc \in {"process", "persist"} /\ batch # <<>> => batch[Len(batch)].offset = position

(* The order of trades: those in the state come before those of this tick, *)
(* and these before the one in hand and those that wait.                   *)
Ascending(s) ==
  \A i, j \in 1 .. Len(s) : i < j /\ IsTick(s[i]) /\ IsTick(s[j]) => s[i] < s[j]
Precedes(S, T) == \A m \in S, n \in T : IsTick(m) /\ IsTick(n) => m < n
Waiting == {ingested[i] : i \in (next + 1) .. Len(ingested)}

OrderInv ==
  owned =>
    /\ Ascending(state) /\ Ascending(ingested) /\ Ascending(items)
    /\ Precedes(Range(state), Waiting)
    /\ Precedes(Range(state) \cup Range(ingested), Range(items) \cup {hand})
    /\ Precedes({hand}, Range(items))
    /\ ~IsTick(Marker) /\ ~IsTick(coalesced)

LEMMA InitTypes == Init => Types /\ QueueInv
<1> SUFFICES ASSUME Init PROVE Types /\ QueueInv
  OBVIOUS
<1> USE BoundsAssumption
<1>1. Len(<<>>) = 0 /\ \A S : <<>> \in Seq(S)
  OBVIOUS
<1>2. QueueTypes
  BY <1>1 DEF Init, QueueTypes, Marker
<1>3. LoopTypes
  BY <1>1 DEF Init, LoopTypes, Marker
<1>4. StoreTypes
  BY <1>1 DEF Init, StoreTypes
<1>5. QueueInv
  BY <1>1, RangeEmpty DEF Init, QueueInv
<1> QED  BY <1>2, <1>3, <1>4, <1>5 DEF Types

\* A new callback is seen: what was a sequence of seen ones still is.
LEMMA SeenGrows ==
  ASSUME QueueTypes, NEW k \in Kinds, kinds' = Append(kinds, k)
  PROVE  /\ Seen' = Seen \cup {Len(kinds) + 1} /\ Len(kinds) + 1 \notin Seen /\ Len(kinds) \in Nat
         /\ kinds' \in Seq(Kinds) /\ Len(kinds') = Len(kinds) + 1
         /\ Seq(Seen) \subseteq Seq(Seen') /\ Seq(Records) \subseteq Seq(Records')
         /\ Seq(Seen \cup {Marker}) \subseteq Seq(Seen' \cup {Marker})
<1>1. /\ kinds' \in Seq(Kinds) /\ Len(kinds') = Len(kinds) + 1 /\ Len(kinds) \in Nat
  BY DEF QueueTypes
<1>2. Seen' = Seen \cup {Len(kinds) + 1} /\ Len(kinds) + 1 \notin Seen
  BY <1>1 DEF Seen
<1>3. Records \subseteq Records'
  BY <1>2 DEF Records
<1>4. \A S, T : S \subseteq T => Seq(S) \subseteq Seq(T)
  BY SeqMonotonic
<1> QED  BY <1>1, <1>2, <1>3, <1>4

LEMMA ReceiveTypes ==
  ASSUME Types, QueueInv, NEW kind \in Kinds, ReceiveCallback(kind)
  PROVE  Types' /\ QueueInv'
<1> DEFINE n == Len(kinds) + 1
<1> USE BoundsAssumption DEF Types
<1>1. /\ kinds' = Append(kinds, kind) /\ Push(n, kind) /\ Len(kinds) < MaxCallbacks
      /\ UNCHANGED <<loopVars, brokerVars, spoolFile, stateVars, crashVars, opVars>>
  <2>1. Len(kinds) \in Nat /\ MaxPolled \in Nat /\ MaxCallbacks \in Nat /\ MaxPolled <= MaxCallbacks
    BY DEF QueueTypes
  <2>2. Len(kinds) < (IF owned THEN MaxCallbacks ELSE MaxPolled)
    BY DEF ReceiveCallback
  <2>3. Len(kinds) < MaxCallbacks
    BY <2>1, <2>2
  <2> QED  BY <2>3 DEF ReceiveCallback
<1>2. /\ Seen' = Seen \cup {n} /\ n \notin Seen /\ n \in Nat \ {0}
      /\ kinds' \in Seq(Kinds) /\ Len(kinds') <= MaxCallbacks
      /\ Seq(Seen) \subseteq Seq(Seen') /\ Seq(Records) \subseteq Seq(Records')
      /\ Seq(Seen \cup {Marker}) \subseteq Seq(Seen' \cup {Marker})
  <2>1. QueueTypes
    OBVIOUS
  <2>2. MaxCallbacks \in Nat
    OBVIOUS
  <2>3. /\ Seen' = Seen \cup {n} /\ n \notin Seen /\ Len(kinds) \in Nat
        /\ kinds' \in Seq(Kinds) /\ Len(kinds') = Len(kinds) + 1
        /\ Seq(Seen) \subseteq Seq(Seen') /\ Seq(Records) \subseteq Seq(Records')
        /\ Seq(Seen \cup {Marker}) \subseteq Seq(Seen' \cup {Marker})
    BY <1>1, <2>1, SeenGrows
  <2>4. Len(kinds') <= MaxCallbacks /\ n \in Nat \ {0}
    BY <1>1, <2>2, <2>3
  <2> QED  BY <2>3, <2>4
<1> HIDE DEF n
<1>3. LoopTypes'
  BY <1>1, <1>2 DEF LoopTypes, loopVars
<1>4. StoreTypes'
  BY <1>1, <1>2 DEF StoreTypes, brokerVars, stateVars, crashVars, opVars
<1>5. /\ UNCHANGED <<pc, hand, ingested, batch, next>> /\ n # Marker /\ n # hand /\ n # coalesced
      /\ n \notin Range(items)
  <2>1. Range(items) \subseteq Seen \cup {Marker}
    BY RangeIs DEF QueueTypes
  <2> QED  BY <1>1, <1>2, <2>1 DEF loopVars, LoopTypes, QueueTypes, Marker
<1>6. QueueTypes' /\ QueueInv'
  <2>1. CASE kind = "queue" /\ coalesced # Marker
    <3>1. coalesced' = n /\ superseded' = superseded \cup {coalesced} /\ UNCHANGED <<items, rejections>>
      BY <1>1, <2>1 DEF Push
    <3>2. QueueTypes'
      BY <1>2, <3>1, <2>1 DEF QueueTypes
    <3>3. QueueInv'
      BY <1>2, <1>5, <3>1, <2>1 DEF QueueInv
    <3> QED  BY <3>2, <3>3
  <2>2. CASE ~(kind = "queue" /\ coalesced # Marker) /\ Len(items) >= QueueSize
    <3>1. rejections' = rejections \cup {n} /\ UNCHANGED <<items, coalesced, superseded>>
      BY <1>1, <2>2 DEF Push, Reject
    <3>2. QueueTypes'
      BY <1>2, <3>1 DEF QueueTypes
    <3>3. QueueInv'
      BY <1>5, <3>1 DEF QueueInv
    <3> QED  BY <3>2, <3>3
  <2>3. CASE ~(kind = "queue" /\ coalesced # Marker) /\ ~(Len(items) >= QueueSize)
    <3> DEFINE e == IF kind = "queue" THEN Marker ELSE n
    <3>1. /\ items' = Append(items, e) /\ coalesced' = (IF kind = "queue" THEN n ELSE coalesced)
          /\ UNCHANGED <<superseded, rejections>>
      BY <1>1, <2>3 DEF Push
    <3>2. e \in Seen' \cup {Marker} /\ e \notin Range(items) /\ (kind = "queue" => coalesced = Marker)
      BY <1>2, <1>5, <2>3 DEF QueueInv
    <3>3. e = Marker <=> kind = "queue"
      BY <1>5
    <3>4. items \in Seq(Seen' \cup {Marker}) /\ Len(items) \in Nat /\ Len(items) < QueueSize
      BY <1>2, <2>3 DEF QueueTypes
    <3>8. e = n \/ e = Marker
      OBVIOUS
    <3> HIDE DEF e
    <3>5. /\ items' \in Seq(Seen' \cup {Marker}) /\ Len(items') = Len(items) + 1
          /\ \A i \in 1 .. Len(items) : items'[i] = items[i]
          /\ items'[Len(items) + 1] = e
          /\ Range(items') = Range(items) \cup {e}
      BY <3>1, <3>2, <3>4, RangeAppend, AppendProperties
    <3>6. QueueTypes'
      BY <1>2, <3>1, <3>4, <3>5 DEF QueueTypes
    <3>7. QueueInv'
      <4>1. \A i \in 1 .. Len(items) : items[i] # e
        BY <3>2, <3>4, RangeIs
      <4>2. \A i, j \in 1 .. Len(items') : items'[i] = items'[j] => i = j
        BY SMTT(30), <4>1, <3>4, <3>5 DEF QueueInv
      <4>3. (coalesced' # Marker) = (Marker \in Range(items'))
        BY <3>1, <3>2, <3>3, <3>5, <1>5 DEF QueueInv
      <4>4. coalesced' # Marker => coalesced' \notin Range(items')
        BY <3>1, <3>2, <3>3, <3>5, <3>8, <1>5 DEF QueueInv
      <4>5. hand' # Marker => hand' \notin Range(items') /\ hand' # coalesced'
        BY <3>1, <3>5, <3>8, <1>5 DEF QueueInv
      <4>6. (hand' # Marker) = (pc' = "publish")
        BY <1>5 DEF QueueInv
      <4>7. pc # "down"
        BY DEF ReceiveCallback
      <4> QED  BY <4>2, <4>3, <4>4, <4>5, <4>6, <4>7, <1>5 DEF QueueInv
    <3> QED  BY <3>6, <3>7
  <2> QED  BY <2>1, <2>2, <2>3
<1> QED  BY <1>3, <1>4, <1>6


\* No other action receives one.
LEMMA SameSeen ==
  ASSUME kinds' = kinds
  PROVE  Seen' = Seen /\ Records' = Records /\ (\A n : IsTick(n)' <=> IsTick(n))
BY DEF Seen, Records, IsTick

\* What the marker of a queue stands for.
LEMMA PoppedIs ==
  ASSUME Types, QueueInv, items # <<>>
  PROVE  /\ Popped \in Seen /\ Popped # Marker
         /\ Popped \notin Range(Tail(items))
         /\ Popped = (IF Head(items) = Marker THEN coalesced ELSE Head(items))
         /\ Head(items) \notin Range(Tail(items))
         /\ Range(items) = {Head(items)} \cup Range(Tail(items))
         /\ Tail(items) \in Seq(Seen \cup {Marker}) /\ Len(Tail(items)) = Len(items) - 1
         /\ \A i \in 1 .. Len(Tail(items)) : Tail(items)[i] = items[i + 1] /\ i + 1 \in 1 .. Len(items)
<1>1. items \in Seq(Seen \cup {Marker})
  BY DEF Types, QueueTypes
<1>2. /\ Tail(items) \in Seq(Seen \cup {Marker}) /\ Len(Tail(items)) = Len(items) - 1
      /\ Len(items) \in Nat \ {0} /\ Head(items) = items[1] /\ Head(items) \in Seen \cup {Marker}
      /\ \A i \in 1 .. Len(Tail(items)) : Tail(items)[i] = items[i + 1] /\ i + 1 \in 1 .. Len(items) /\ i + 1 # 1
  BY <1>1
<1>3. Range(items) = {Head(items)} \cup Range(Tail(items))
  BY <1>1, RangeTail
<1>4. Head(items) \notin Range(Tail(items))
  <2> DEFINE t == Tail(items)
  <2>1. t \in Seq(Seen \cup {Marker}) /\ \A i \in 1 .. Len(t) : t[i] = items[i + 1] /\ i + 1 \in 1 .. Len(items) /\ i + 1 # 1
    BY <1>2
  <2> HIDE DEF t
  <2>2. \A x : x \in Range(t) <=> \E i \in 1 .. Len(t) : t[i] = x
    BY <2>1, RangeIs
  <2>3. \A i \in 1 .. Len(t) : t[i] # items[1]
    BY <2>1, <1>2 DEF QueueInv
  <2>4. items[1] \notin Range(t)
    BY <2>2, <2>3
  <2> QED  BY <2>4, <1>2 DEF t
<1>5. Popped \in Seen /\ Popped # Marker /\ Popped \notin Range(Tail(items))
  <2>1. \A n \in Seen : n # Marker
    BY DEF Seen, Marker, Types, QueueTypes
  <2>2. CASE Head(items) = Marker
    <3>1. coalesced # Marker /\ coalesced \in Seen /\ coalesced \notin Range(items)
      BY <2>2, <1>3 DEF QueueInv, Types, QueueTypes
    <3> QED  BY <3>1, <2>2, <1>3 DEF Popped
  <2>3. CASE Head(items) # Marker
    BY <2>3, <2>1, <1>2, <1>4 DEF Popped
  <2> QED  BY <2>2, <2>3
<1> QED  BY <1>2, <1>3, <1>4, <1>5 DEF Popped

LEMMA DrainTypes ==
  ASSUME Types, QueueInv, DrainOnce
  PROVE  Types' /\ QueueInv'
<1> USE BoundsAssumption DEF Types
<1>1. /\ items # <<>> /\ pc = "drain" /\ Len(ingested) < MaxRaw /\ items' = Tail(items)
      /\ coalesced' = (IF Head(items) = Marker THEN Marker ELSE coalesced)
      /\ kinds' = kinds
      /\ UNCHANGED <<kinds, superseded, owned, ingested, batch, next, brokerVars, spoolFile, stateVars, crashVars, opVars>>
      /\ \/ hand' = Popped /\ tries' = 0 /\ pc' = "publish" /\ UNCHANGED rejections
         \/ rejections' = rejections \cup {Popped} /\ UNCHANGED <<hand, tries, pc>>
  BY DEF DrainOnce, Reject
<1>2. /\ Popped \in Seen /\ Popped # Marker /\ Popped \notin Range(items')
      /\ Popped = (IF Head(items) = Marker THEN coalesced ELSE Head(items))
      /\ Head(items) \notin Range(items')
      /\ Range(items) = {Head(items)} \cup Range(items')
      /\ items' \in Seq(Seen \cup {Marker}) /\ Len(items') = Len(items) - 1
      /\ \A i \in 1 .. Len(items') : items'[i] = items[i + 1] /\ i + 1 \in 1 .. Len(items)
  BY <1>1, PoppedIs
<1>3. Seen' = Seen /\ Records' = Records
  BY <1>1, SameSeen
<1>4. QueueTypes'
  <2>1. Len(items) \in Nat
    BY DEF QueueTypes
  <2> QED  BY <1>1, <1>2, <1>3, <2>1 DEF QueueTypes
<1>5. LoopTypes'
  BY SMTT(30), <1>1, <1>2, <1>3 DEF LoopTypes
<1>6. StoreTypes'
  BY <1>1, <1>3 DEF StoreTypes, brokerVars, stateVars, crashVars, opVars
<1>7. QueueInv'
  <2>1. \A i, j \in 1 .. Len(items') : items'[i] = items'[j] => i = j
    <3>1. \A i, j \in 1 .. Len(items') : items'[i] = items'[j] => i + 1 = j + 1
      BY SMTT(30), <1>2 DEF QueueInv
    <3>2. Len(items') \in Nat
      BY <1>2
    <3> QED  BY <3>1, <3>2
  <2>2. (coalesced' # Marker) = (Marker \in Range(items'))
    BY <1>1, <1>2 DEF QueueInv
  <2>3. coalesced' # Marker => coalesced' \notin Range(items')
    BY <1>1, <1>2 DEF QueueInv
  <2>4. (hand' # Marker) = (pc' = "publish")
    BY <1>1, <1>2 DEF QueueInv
  <2>5. hand' # Marker => hand' \notin Range(items') /\ hand' # coalesced'
    BY <1>1, <1>2 DEF QueueInv
  <2>6. pc' # "down" /\ batch' = <<>> /\ next' = 0
    BY <1>1 DEF QueueInv
  <2> QED  BY <2>1, <2>2, <2>3, <2>4, <2>5, <2>6 DEF QueueInv
<1> QED  BY <1>4, <1>5, <1>6, <1>7

LEMMA PublishTypes ==
  ASSUME Types, QueueInv, NEW attempt \in Attempts, Publish(attempt)
  PROVE  Types' /\ QueueInv'
<1> USE BoundsAssumption DEF Types
<1>1. /\ pc = "publish" /\ kinds' = kinds /\ log' \in {log, Append(log, hand)}
      /\ UNCHANGED <<queueVars, owned, batch, next, position, offset, brokerOffset, stateVars, crashVars, opVars>>
      /\ \/ Acknowledged \/ Retry \/ GiveUp
  BY DEF Publish, queueVars
<1>2. Seen' = Seen /\ Records' = Records
  BY <1>1, SameSeen
<1>3. hand \in Seen /\ hand # Marker
  BY <1>1 DEF LoopTypes, QueueInv
<1>4. log \in Seq(Seen) /\ ingested \in Seq(Seen) /\ spoolFile \in Seq(Seen)
  BY DEF StoreTypes, LoopTypes
<1>5. /\ Append(log, hand) \in Seq(Seen) /\ Append(spoolFile, hand) \in Seq(Seen)
      /\ Append(ingested, hand) \in Seq(Seen) /\ Len(Append(ingested, hand)) = Len(ingested) + 1
      /\ Len(ingested) \in Nat
  BY <1>3, <1>4, AppendProperties
<1>6. LoopTypes' /\ rejections' \subseteq Seen /\ spoolFile' \in Seq(Seen) /\ (hand' # Marker) = (pc' = "publish")
      /\ (hand' = hand \/ hand' = Marker) /\ pc' \in {"drain", "publish"}
  <2>1. CASE Acknowledged
    <3>1. MaxRaw \in Nat /\ Len(ingested) < MaxRaw
      BY <1>1 DEF LoopTypes
    <3>2. ingested' \in Seq(Seen) /\ Len(ingested') <= MaxRaw
      <4>1. ingested' = Append(ingested, hand)
        BY <2>1 DEF Acknowledged
      <4>2. Len(ingested) + 1 <= MaxRaw
        BY <1>5, <3>1
      <4> HIDE DEF Types
      <4> QED  BY <1>5, <4>1, <4>2
    <3> QED  BY <1>1, <1>2, <1>4, <2>1, <3>2 DEF Acknowledged, LoopTypes, QueueTypes
  <2>2. CASE Retry
    <3>1. tries' \in 0 .. Retries
      BY <2>2 DEF Retry, LoopTypes
    <3> QED  BY <1>1, <1>2, <1>3, <1>4, <2>2, <3>1 DEF Retry, LoopTypes, QueueTypes
  <2>3. CASE GiveUp
    BY <1>1, <1>2, <1>3, <1>4, <1>5, <2>3 DEF GiveUp, Reject, LoopTypes, QueueTypes
  <2> QED  BY <1>1, <2>1, <2>2, <2>3
<1>7. QueueTypes'
  BY <1>1, <1>2, <1>6 DEF QueueTypes, queueVars
<1>8. StoreTypes'
  <2>1. log' \in Seq(Seen)
    BY <1>1, <1>4, <1>5
  <2> QED  BY SMTT(30), <1>1, <1>2, <1>6, <2>1 DEF StoreTypes, stateVars, crashVars, opVars
<1>9. QueueInv'
  BY <1>1, <1>6 DEF QueueInv, queueVars
<1> QED  BY <1>6, <1>7, <1>8, <1>9

LEMMA TakeTypes ==
  ASSUME Types, QueueInv, TakeIngested \/ Poll
  PROVE  Types' /\ QueueInv'
<1> USE BoundsAssumption DEF Types
<1>1. /\ kinds' = kinds /\ pc = "drain" /\ pc' = "process" /\ next' = 0
      /\ UNCHANGED <<queueVars, owned, hand, tries, ingested, log, offset, brokerOffset, spoolFile, rejections,
                     stateVars, crashVars, opVars>>
  BY DEF TakeIngested, Poll, Drained, queueVars, brokerVars
<1>2. Seen' = Seen /\ Records' = Records
  BY <1>1, SameSeen
<1>3. batch' \in Seq(Records) /\ Len(batch') <= MaxRaw /\ Len(batch') \in Nat /\ position' \in Nat
  <2>1. CASE TakeIngested
    <3>1. ingested \in Seq(Seen) /\ Len(ingested) \in Nat /\ Len(ingested) <= MaxRaw
      BY DEF LoopTypes
    <3>4. \A i \in 1 .. Len(ingested) : ingested[i] \in Seen
      BY <3>1
    <3>2. batch' \in [1 .. Len(ingested) -> Records]
      BY <2>1, <3>1, <3>4 DEF TakeIngested, Records
    <3>3. batch' \in Seq(Records) /\ Len(batch') = Len(ingested)
      BY <3>1, <3>2, FunctionIsSeq
    <3> QED  BY <3>1, <3>3, <2>1 DEF TakeIngested, brokerVars, StoreTypes
  <2>2. CASE Poll
    <3>1. PICK n \in 0 .. PollMax :
            /\ position + n <= Len(log) /\ position' = position + n
            /\ batch' = [i \in 1 .. (IF n < MaxRaw THEN n ELSE MaxRaw) |->
                           [id |-> log[position + i], offset |-> position + i]]
      BY <2>2 DEF Poll
    <3> DEFINE k == IF n < MaxRaw THEN n ELSE MaxRaw
    <3>2. k \in Nat /\ k <= n /\ k <= MaxRaw /\ n \in Nat
      OBVIOUS
    <3>3. position \in Nat /\ log \in Seq(Seen) /\ Len(log) \in Nat
      BY DEF StoreTypes
    <3> HIDE DEF k
    <3>4. \A i \in 1 .. k : position + i \in 1 .. Len(log) /\ position + i \in Nat
      BY SMTT(30), <3>1, <3>2, <3>3
    <3>5. \A i \in 1 .. k : log[position + i] \in Seen
      BY <3>3, <3>4, ElementOfSeq
    <3>6. batch' = [i \in 1 .. k |-> [id |-> log[position + i], offset |-> position + i]]
      BY <3>1 DEF k
    <3>7. batch' \in [1 .. k -> Records]
      BY <3>4, <3>5, <3>6 DEF Records
    <3>8. batch' \in Seq(Records) /\ Len(batch') = k
      BY <3>2, <3>7, FunctionIsSeq
    <3> QED  BY <3>1, <3>2, <3>3, <3>8
  <2> QED  BY <2>1, <2>2
<1>4. QueueTypes'
  BY <1>1, <1>2 DEF QueueTypes, queueVars
<1>5. LoopTypes'
  BY <1>1, <1>2, <1>3 DEF LoopTypes
<1>6. StoreTypes'
  BY <1>1, <1>2, <1>3 DEF StoreTypes, stateVars, crashVars, opVars
<1>7. QueueInv'
  BY <1>1 DEF QueueInv, queueVars
<1> QED  BY <1>4, <1>5, <1>6, <1>7

LEMMA ProcessTypes ==
  ASSUME Types, QueueInv, Process
  PROVE  Types' /\ QueueInv'
<1> USE BoundsAssumption DEF Types
<1> DEFINE n == batch[next + 1].id
<1>1. /\ kinds' = kinds /\ pc = "process" /\ next < Len(batch) /\ next' = next + 1
      /\ handled' = handled \cup {n} /\ (state' = state \/ state' = Append(state, n))
      /\ UNCHANGED <<queueVars, owned, pc, hand, tries, ingested, batch, brokerVars, spoolFile, rejections, rawFile,
                     crashVars, opVars>>
  BY DEF Process, queueVars
<1>2. Seen' = Seen /\ Records' = Records
  BY <1>1, SameSeen
<1>3. n \in Seen /\ next + 1 \in 0 .. Len(batch)
  <2>1. batch \in Seq(Records) /\ Len(batch) \in Nat /\ next \in 0 .. Len(batch)
    BY DEF LoopTypes
  <2>3. next + 1 \in 1 .. Len(batch)
    BY <1>1, <2>1
  <2>2. batch[next + 1] \in Records
    BY <2>1, <2>3, ElementOfSeq
  <2> QED  BY <2>3, <2>2 DEF Records
<1> HIDE DEF n
<1>4. state \in Seq(Seen) /\ Append(state, n) \in Seq(Seen)
  BY <1>3, AppendProperties DEF StoreTypes
<1>5. QueueTypes'
  BY <1>1, <1>2 DEF QueueTypes, queueVars
<1>6. LoopTypes'
  BY <1>1, <1>2, <1>3 DEF LoopTypes
<1>7. StoreTypes'
  BY <1>1, <1>2, <1>3, <1>4 DEF StoreTypes, brokerVars, crashVars, opVars
<1>8. QueueInv'
  BY <1>1 DEF QueueInv, queueVars
<1> QED  BY <1>5, <1>6, <1>7, <1>8

LEMMA CommitTypes ==
  ASSUME Types, QueueInv, Commit
  PROVE  Types' /\ QueueInv'
<1> USE BoundsAssumption DEF Types
<1>1. /\ kinds' = kinds /\ pc = "process" /\ pc' = "persist"
      /\ UNCHANGED <<queueVars, owned, hand, tries, ingested, batch, next, log, position, spoolFile,
                     rejections, stateVars, crashVars, opVars>>
  BY DEF Commit, queueVars
<1>2. Seen' = Seen /\ Records' = Records
  BY <1>1, SameSeen
<1>3. offset' \in Nat /\ brokerOffset' \in Nat
  <2>1. offset \in Nat /\ brokerOffset \in Nat /\ batch \in Seq(Records) /\ Len(batch) \in Nat
    BY DEF StoreTypes, LoopTypes
  <2>2. CASE batch = <<>>
    BY <2>1, <2>2 DEF Commit
  <2>3. CASE batch # <<>>
    <3>1. batch[Len(batch)] \in Records
      BY <2>1, <2>3
    <3>2. batch[Len(batch)].offset \in Nat /\ offset + Len(batch) \in Nat
      BY <2>1, <3>1 DEF Records
    <3>3. offset' = IF owned THEN offset + Len(batch) ELSE batch[Len(batch)].offset
      BY <2>3 DEF Commit
    <3>4. brokerOffset' \in {offset', brokerOffset}
      BY <2>3 DEF Commit
    <3> QED  BY <2>1, <3>2, <3>3, <3>4
  <2> QED  BY <2>2, <2>3
<1>4. QueueTypes'
  BY <1>1, <1>2 DEF QueueTypes, queueVars
<1>5. LoopTypes'
  BY <1>1, <1>2 DEF LoopTypes
<1>6. StoreTypes'
  BY <1>1, <1>2, <1>3 DEF StoreTypes, stateVars, crashVars, opVars
<1>7. QueueInv'
  BY <1>1 DEF QueueInv, queueVars
<1> QED  BY <1>4, <1>5, <1>6, <1>7

LEMMA PersistTypes ==
  ASSUME Types, QueueInv, Persist
  PROVE  Types' /\ QueueInv'
<1> USE BoundsAssumption DEF Types
<1>1. /\ kinds' = kinds /\ pc = "persist" /\ rawFile' = rawFile \o ingested
      /\ pc' = "drain" /\ ingested' = <<>> /\ batch' = <<>> /\ next' = 0
      /\ UNCHANGED <<queueVars, owned, hand, tries, brokerVars, spoolFile, rejections, state,
                     handled, crashVars, opVars>>
  BY DEF Persist, queueVars
<1>2. Seen' = Seen /\ Records' = Records
  BY <1>1, SameSeen
<1>3. rawFile \o ingested \in Seq(Seen)
  BY ConcatProperties DEF StoreTypes, LoopTypes
<1>4. Len(<<>>) = 0 /\ \A S : <<>> \in Seq(S)
  OBVIOUS
<1>5. QueueTypes'
  BY <1>1, <1>2 DEF QueueTypes, queueVars
<1>6. LoopTypes'
  BY <1>1, <1>2, <1>4 DEF LoopTypes
<1>7. StoreTypes'
  BY <1>1, <1>2, <1>3 DEF StoreTypes, brokerVars, crashVars, opVars
<1>8. QueueInv'
  BY <1>1 DEF QueueInv, queueVars
<1> QED  BY <1>5, <1>6, <1>7, <1>8

LEMMA CrashTypes ==
  ASSUME Types, QueueInv, Crash
  PROVE  Types' /\ QueueInv'
<1> USE BoundsAssumption DEF Types
<1>1. /\ pc # "down" /\ crashes < MaxCrashes /\ crashes' = crashes + 1
      /\ lost' = lost \cup InMemory \cup Unprocessed
      /\ pc' = "down" /\ items' = <<>> /\ coalesced' = Marker /\ hand' = Marker /\ tries' = 0
      /\ ingested' = <<>> /\ batch' = <<>> /\ next' = 0 /\ offset' = 0
      /\ UNCHANGED <<kinds, superseded, owned, log, position, brokerOffset, spoolFile, rejections, stateVars,
                     opVars>>
  BY DEF Crash
<1>2. Seen' = Seen /\ Records' = Records
  BY <1>1, SameSeen
<1>3. Len(<<>>) = 0 /\ Range(<<>>) = {} /\ \A S : <<>> \in Seq(S)
  BY RangeEmpty
<1>4. lost' \subseteq Seen
  <2>1. InMemory \subseteq Seen
    <3>1. Range(items) \subseteq Seen \cup {Marker}
      BY RangeIs DEF QueueTypes
    <3> QED  BY <3>1 DEF InMemory, Queued, QueueTypes, LoopTypes
  <2>2. Unprocessed \subseteq Seen
    <3>1. Range(ingested) \subseteq Seen
      BY RangeIs DEF LoopTypes
    <3>2. batch \in Seq(Records) /\ Len(batch) \in Nat /\ next \in Nat
      BY DEF LoopTypes
    <3>3. ASSUME NEW i \in (next + 1) .. Len(batch)  PROVE batch[i].id \in Seen
      <4>1. i \in 1 .. Len(batch)
        BY <3>2
      <4>2. batch[i] \in Records
        BY <3>2, <4>1, ElementOfSeq
      <4> QED  BY <4>2 DEF Records
    <3> QED  BY <3>1, <3>3 DEF Unprocessed
  <2>3. lost \subseteq Seen
    BY DEF StoreTypes
  <2> QED  BY <1>1, <2>1, <2>2, <2>3
<1>5. QueueTypes'
  <2>1. QueueSize \in Nat
    OBVIOUS
  <2> QED  BY <1>1, <1>2, <1>3, <2>1 DEF QueueTypes
<1>6. LoopTypes'
  <2>1. MaxRaw \in Nat /\ Retries \in Nat
    OBVIOUS
  <2> QED  BY <1>1, <1>2, <1>3, <2>1 DEF LoopTypes
<1>7. StoreTypes'
  <2>1. crashes' \in 0 .. MaxCrashes
    BY <1>1 DEF StoreTypes
  <2> QED  BY <1>1, <1>2, <1>4, <2>1 DEF StoreTypes, stateVars, opVars
<1>8. QueueInv'
  BY <1>1, <1>3 DEF QueueInv
<1> QED  BY <1>5, <1>6, <1>7, <1>8

\* The raw file, replayed: each of its callbacks once and in order.
LEMMA ReplayedIs ==
  ASSUME Types
  PROVE  /\ Replayed \in Seq(Seen)
         /\ \A i, j \in 1 .. Len(Replayed) : i < j => Replayed[i] < Replayed[j]
<1> DEFINE S == Range(rawFile)
<1>1. S \subseteq Seen
  BY RangeIs DEF Types, StoreTypes
<1>2. S \subseteq Nat /\ IsFiniteSet(S)
  <2>1. Len(kinds) \in Nat
    BY DEF Types, QueueTypes
  <2>2. S \subseteq Nat /\ \A x \in S : x <= Len(kinds)
    BY <1>1, <2>1 DEF Seen
  <2> HIDE DEF S
  <2> QED  BY <2>1, <2>2, FS_BoundedSetOfNaturals
<1>3. PICK s : Enumerates(s, S)
  <2> HIDE DEF S
  <2> QED  BY <1>2, Enumeration
<1>4. Replayed \in [1 .. Cardinality(S) -> S] /\ \A i, j \in DOMAIN Replayed : i < j => Replayed[i] < Replayed[j]
  BY <1>3 DEF Replayed, Enumerates
<1>5. Cardinality(S) \in Nat
  <2> HIDE DEF S
  <2> QED  BY <1>2, FS_CardinalityType
<1> HIDE DEF S
<1>6. Replayed \in [1 .. Cardinality(S) -> Seen]
  BY <1>1, <1>4
<1>7. Replayed \in Seq(Seen) /\ Len(Replayed) = Cardinality(S)
  BY <1>5, <1>6, FunctionIsSeq
<1>8. DOMAIN Replayed = 1 .. Len(Replayed)
  BY <1>4, <1>7
<1> QED  BY <1>4, <1>7, <1>8

LEMMA RestartTypes ==
  ASSUME Types, QueueInv, Restart
  PROVE  Types' /\ QueueInv'
<1> USE BoundsAssumption DEF Types
<1>1. /\ kinds' = kinds /\ pc = "down" /\ pc' = "drain" /\ position' = brokerOffset
      /\ (state' = state \/ state' = Replayed)
      /\ UNCHANGED <<queueVars, owned, hand, tries, ingested, batch, next, log, offset, brokerOffset, spoolFile,
                     rejections, rawFile, handled, crashVars, opVars>>
  BY DEF Restart, queueVars
<1>2. Seen' = Seen /\ Records' = Records
  BY <1>1, SameSeen
<1>3. Replayed \in Seq(Seen)
  BY ReplayedIs
<1>4. QueueTypes'
  BY <1>1, <1>2 DEF QueueTypes, queueVars
<1>5. LoopTypes'
  BY <1>1, <1>2 DEF LoopTypes
<1>6. StoreTypes'
  <2>1. state' \in Seq(Seen)
    BY <1>1, <1>3 DEF StoreTypes
  <2> QED  BY <1>1, <1>2, <2>1 DEF StoreTypes, crashVars, opVars
<1>7. QueueInv'
  BY <1>1 DEF QueueInv, queueVars
<1> QED  BY <1>4, <1>5, <1>6, <1>7

\* What the operator has still to publish.
LEMMA PendingIs ==
  ASSUME Types, opIndex >= 0
  PROVE  /\ Pending \in Seq(Seen)
         /\ Pending # <<>> => opIndex + 1 \in 1 .. Len(opRecords) /\ Head(Pending) = opRecords[opIndex + 1]
         /\ Pending = <<>> => opIndex = Len(opRecords)
         /\ \A x : x \in Range(Pending) <=> \E i \in 1 .. Len(opRecords) : i > opIndex /\ opRecords[i] = x
<1> DEFINE n == Len(opRecords)
<1>1. opRecords \in Seq(Seen) /\ n \in Nat /\ opIndex \in 0 .. n
  BY DEF Types, StoreTypes
<1>2. \A i \in opIndex + 1 .. n : opRecords[i] \in Seen
  BY <1>1, ElementOfSeq
<1>3. /\ Pending \in Seq(Seen) /\ Len(Pending) = n - opIndex
      /\ \A i \in 1 .. n - opIndex : Pending[i] = opRecords[opIndex + i]
  <2>1. /\ SubSeq(opRecords, opIndex + 1, n) \in Seq(Seen)
        /\ Len(SubSeq(opRecords, opIndex + 1, n)) =
             (IF opIndex + 1 <= n THEN n - (opIndex + 1) + 1 ELSE 0)
        /\ \A i \in 1 .. n - (opIndex + 1) + 1 :
             SubSeq(opRecords, opIndex + 1, n)[i] = opRecords[(opIndex + 1) + i - 1]
    <3>1. opIndex + 1 \in Int /\ n \in Int
      BY <1>1
    <3> HIDE DEF n
    <3> QED  BY <1>2, <3>1, SubSeqProperties
  <2>2. Pending = SubSeq(opRecords, opIndex + 1, n)
    BY DEF Pending
  <2> HIDE DEF n
  <2>3. n - (opIndex + 1) + 1 = n - opIndex
        /\ (IF opIndex + 1 <= n THEN n - (opIndex + 1) + 1 ELSE 0) = n - opIndex
        /\ \A i \in 1 .. n - opIndex : (opIndex + 1) + i - 1 = opIndex + i
    BY <1>1
  <2> QED  BY <2>1, <2>2, <2>3
<1> DEFINE p == Pending
<1>4. p \in Seq(Seen) /\ Len(p) = n - opIndex /\ \A i \in 1 .. n - opIndex : p[i] = opRecords[opIndex + i]
  BY <1>3
<1> HIDE DEF p
<1>5. p # <<>> => opIndex + 1 \in 1 .. n /\ Head(p) = opRecords[opIndex + 1]
  BY <1>1, <1>4
<1>6. p = <<>> => opIndex = n
  BY <1>1, <1>4
<1>7. ASSUME NEW x  PROVE x \in Range(p) <=> \E i \in 1 .. n : i > opIndex /\ opRecords[i] = x
  <2>1. x \in Range(p) <=> \E i \in 1 .. n - opIndex : p[i] = x
    BY <1>4, RangeIs
  <2>2. \A i \in 1 .. n - opIndex : opIndex + i \in 1 .. n /\ opIndex + i > opIndex
    BY <1>1
  <2>3. \A i \in 1 .. n : i > opIndex => i - opIndex \in 1 .. n - opIndex /\ opIndex + (i - opIndex) = i
    BY <1>1
  <2> HIDE DEF n
  <2>4. ASSUME NEW i \in 1 .. n, i > opIndex, opRecords[i] = x  PROVE \E k \in 1 .. n - opIndex : p[k] = x
    BY <2>3, <2>4, <1>4
  <2>5. ASSUME NEW k \in 1 .. n - opIndex, p[k] = x  PROVE \E i \in 1 .. n : i > opIndex /\ opRecords[i] = x
    BY <2>2, <2>5, <1>4
  <2> QED  BY <2>1, <2>4, <2>5
<1> QED  BY <1>4, <1>5, <1>6, <1>7 DEF p

LEMMA OperatorTypes ==
  ASSUME Types, QueueInv, Operator
  PROVE  Types' /\ QueueInv'
<1> USE BoundsAssumption DEF Types
<1>1. /\ kinds' = kinds
      /\ UNCHANGED <<queueVars, loopVars, position, offset, brokerOffset, rejections, stateVars, crashVars>>
  BY DEF Operator, LoadSpool, ReplayRecord, ReplayDone, OperatorStops, queueVars, brokerVars, opVars
<1>2. Seen' = Seen /\ Records' = Records
  BY <1>1, SameSeen
<1>3. /\ log' \in Seq(Seen) /\ spoolFile' \in Seq(Seen) /\ opRecords' \in Seq(Seen)
      /\ opIndex' \in -1 .. Len(opRecords') /\ replays' \in 0 .. MaxReplays
  <2>1. /\ log \in Seq(Seen) /\ spoolFile \in Seq(Seen) /\ opRecords \in Seq(Seen)
        /\ opIndex \in -1 .. Len(opRecords) /\ replays \in 0 .. MaxReplays
        /\ Len(opRecords) \in Nat /\ Len(spoolFile) \in Nat
    BY SMTT(30) DEF StoreTypes
  <2>2. Len(<<>>) = 0 /\ <<>> \in Seq(Seen) /\ MaxReplays \in Nat
    OBVIOUS
  <2>3. CASE LoadSpool
    BY <2>1, <2>2, <2>3 DEF LoadSpool, brokerVars
  <2>4. CASE ReplayRecord
    <3>1. /\ opIndex >= 0 /\ Pending # <<>> /\ UNCHANGED replays
          /\ \/ log' = Append(log, Head(Pending)) /\ opIndex' = opIndex + 1 /\ UNCHANGED <<opRecords, spoolFile>>
             \/ /\ log' \in {log, Append(log, Head(Pending))} /\ spoolFile' = Pending
                /\ opRecords' = <<>> /\ opIndex' = -1
      BY <2>4 DEF ReplayRecord, OperatorEnds
    <3>2. Pending \in Seq(Seen) /\ opIndex + 1 \in 1 .. Len(opRecords) /\ Head(Pending) = opRecords[opIndex + 1]
      BY <3>1, PendingIs
    <3>3. Head(Pending) \in Seen
      BY SMTT(30), <2>1, <3>2, ElementOfSeq
    <3>4. Append(log, Head(Pending)) \in Seq(Seen)
      BY <2>1, <3>3, AppendProperties
    <3>5. log' \in Seq(Seen)
      BY <2>1, <3>1, <3>4
    <3>6. spoolFile' \in Seq(Seen) /\ opRecords' \in Seq(Seen)
      BY <2>1, <2>2, <3>1, <3>2
    <3>7. opIndex' \in -1 .. Len(opRecords')
      <4>1. CASE opIndex' = opIndex + 1 /\ opRecords' = opRecords
        BY <4>1, <3>2, <2>1
      <4>2. CASE opIndex' = -1 /\ opRecords' = <<>>
        BY <4>2, <2>2
      <4> QED  BY <3>1, <4>1, <4>2
    <3> QED  BY <2>1, <3>1, <3>5, <3>6, <3>7
  <2>5. CASE ReplayDone
    BY <2>1, <2>2, <2>5 DEF ReplayDone, OperatorEnds, brokerVars
  <2>6. CASE OperatorStops
    BY <2>1, <2>2, <2>6 DEF OperatorStops, OperatorEnds, brokerVars
  <2> QED  BY <2>3, <2>4, <2>5, <2>6 DEF Operator
<1>4. QueueTypes'
  BY <1>1, <1>2 DEF QueueTypes, queueVars
<1>5. LoopTypes'
  BY <1>1, <1>2 DEF LoopTypes, loopVars
<1>6. StoreTypes'
  BY <1>1, <1>2, <1>3 DEF StoreTypes, stateVars, crashVars
<1>7. QueueInv'
  BY <1>1 DEF QueueInv, queueVars, loopVars
<1> QED  BY <1>4, <1>5, <1>6, <1>7

LEMMA StutterTypes ==
  ASSUME Types, QueueInv, UNCHANGED vars
  PROVE  Types' /\ QueueInv'
<1>1. Seen' = Seen /\ Records' = Records
  BY SameSeen DEF vars, queueVars
<1> QED  BY <1>1 DEF vars, queueVars, loopVars, brokerVars, stateVars, crashVars, opVars,
              Types, QueueTypes, LoopTypes, StoreTypes, QueueInv

LEMMA StepTypes ==
  ASSUME Types, QueueInv, [Next]_vars
  PROVE  Types' /\ QueueInv'
BY ReceiveTypes, DrainTypes, PublishTypes, TakeTypes, ProcessTypes, CommitTypes, PersistTypes, CrashTypes,
   RestartTypes, OperatorTypes, StutterTypes DEF Next, Loop

-----------------------------------------------------------------------------
(* The ledger: no callback is dropped.                                     *)

\* Where a step may put callbacks, and that it forgets none.
LedgerStep ==
  /\ Seen \subseteq Seen' /\ Seen' \ Seen \subseteq InMemory' \cup rejections'
  /\ (Seen' \ Seen) \cap (Range(log') \cup Range(spoolFile') \cup superseded' \cup lost') = {}
  /\ Range(log) \subseteq Range(log') /\ Range(log') \subseteq Range(log) \cup Range(spoolFile) \cup InMemory
  /\ Range(spoolFile) \subseteq Range(spoolFile') \cup Range(log')
  /\ Range(spoolFile') \subseteq Range(spoolFile) \cup InMemory
  /\ rejections \subseteq rejections' /\ rejections' \subseteq rejections \cup InMemory \cup (Seen' \ Seen)
  /\ superseded \subseteq superseded' /\ superseded' \subseteq superseded \cup InMemory
  /\ lost \subseteq lost' /\ lost' \subseteq lost \cup InMemory \cup Unprocessed
  /\ InMemory \subseteq InMemory' \cup Range(log') \cup rejections' \cup superseded' \cup lost'
  /\ InMemory' \subseteq InMemory \cup (Seen' \ Seen)
  /\ InMemory' \cap ((rejections' \ rejections) \cup (superseded' \ superseded) \cup (lost' \ lost)) = {}

LEMMA MemoryIs ==
  ASSUME Types
  PROVE  /\ InMemory = ((Range(items) \cup {coalesced}) \ {Marker}) \cup ({hand} \ {Marker})
         /\ InMemory \subseteq Seen /\ Marker \notin Seen
         /\ Range(log) \subseteq Seen /\ Range(spoolFile) \subseteq Seen /\ Range(opRecords) \subseteq Seen
         /\ rejections \subseteq Seen /\ superseded \subseteq Seen /\ lost \subseteq Seen
<1>1. Range(items) \subseteq Seen \cup {Marker}
  BY RangeIs DEF Types, QueueTypes
<1>2. Range(log) \subseteq Seen /\ Range(spoolFile) \subseteq Seen /\ Range(opRecords) \subseteq Seen
  BY RangeIs DEF Types, StoreTypes
<1>3. Marker \notin Seen
  BY DEF Seen, Marker
<1> QED  BY <1>1, <1>2, <1>3 DEF InMemory, Queued, Types, QueueTypes, LoopTypes, StoreTypes

\* A step that leaves queue, hand and files alone leaves every callback where
\* it is.
LEMMA LedgerQuiet ==
  ASSUME Types, LedgerInv,
         UNCHANGED <<kinds, items, coalesced, superseded, hand, log, spoolFile, rejections, lost, opRecords>>
  PROVE  LedgerStep
<1>1. Seen' = Seen /\ InMemory' = InMemory
  BY SameSeen DEF InMemory, Queued
<1> QED  BY <1>1, MemoryIs DEF LedgerStep, LedgerInv

LEMMA ReceiveLedger ==
  ASSUME Types, Types', QueueInv, LedgerInv, NEW kind \in Kinds, ReceiveCallback(kind)
  PROVE  LedgerStep
<1> DEFINE n == Len(kinds) + 1
<1>1. /\ kinds' = Append(kinds, kind) /\ Push(n, kind)
      /\ UNCHANGED <<hand, log, spoolFile, lost, opRecords>>
  BY DEF ReceiveCallback, loopVars, brokerVars, crashVars, opVars
<1>2. Seen' = Seen \cup {n} /\ n \notin Seen
  BY <1>1, SeenGrows DEF Types
<1>3. /\ InMemory = ((Range(items) \cup {coalesced}) \ {Marker}) \cup ({hand} \ {Marker})
      /\ InMemory \subseteq Seen /\ Marker \notin Seen /\ Marker \notin Seen'
      /\ Range(log) \subseteq Seen /\ Range(spoolFile) \subseteq Seen /\ Range(opRecords) \subseteq Seen
      /\ rejections \subseteq Seen /\ superseded \subseteq Seen /\ lost \subseteq Seen
  BY MemoryIs DEF Seen, Marker
<1>4. InMemory' = ((Range(items') \cup {coalesced'}) \ {Marker}) \cup ({hand'} \ {Marker})
  BY DEF InMemory, Queued
<1>5. CASE kind = "queue" /\ coalesced # Marker
  <2>1. coalesced' = n /\ superseded' = superseded \cup {coalesced} /\ UNCHANGED <<items, rejections>>
    BY <1>1, <1>5 DEF Push
  <2>2. coalesced \in InMemory /\ coalesced \notin Range(items) /\ coalesced # hand
    BY <1>3, <1>5 DEF QueueInv
  <2>3. InMemory' = (InMemory \ {coalesced}) \cup {n}
    BY <1>1, <1>2, <1>3, <1>4, <2>1, <2>2
  <2> QED  BY <1>1, <1>2, <1>3, <2>1, <2>2, <2>3 DEF LedgerStep, LedgerInv
<1>6. CASE ~(kind = "queue" /\ coalesced # Marker) /\ Len(items) >= QueueSize
  <2>1. rejections' = rejections \cup {n} /\ UNCHANGED <<items, coalesced, superseded>>
    BY <1>1, <1>6 DEF Push, Reject
  <2>2. InMemory' = InMemory
    BY <1>1, <1>3, <1>4, <2>1
  <2> QED  BY <1>1, <1>2, <1>3, <2>1, <2>2 DEF LedgerStep, LedgerInv
<1>7. CASE ~(kind = "queue" /\ coalesced # Marker) /\ ~(Len(items) >= QueueSize)
  <2> DEFINE e == IF kind = "queue" THEN Marker ELSE n
  <2>1. /\ items' = Append(items, e) /\ coalesced' = (IF kind = "queue" THEN n ELSE coalesced)
        /\ UNCHANGED <<superseded, rejections>>
    BY <1>1, <1>7 DEF Push
  <2>2. Range(items') = Range(items) \cup {e}
    <3>1. items \in Seq(Seen \cup {n, Marker}) /\ e \in Seen \cup {n, Marker}
      BY SeqMonotonic DEF Types, QueueTypes
    <3> HIDE DEF e, n
    <3> QED  BY <2>1, <3>1, RangeAppend
  <2>3. kind = "queue" => coalesced = Marker
    BY <1>7
  <2>4. InMemory' = InMemory \cup {n}
    BY <1>1, <1>2, <1>3, <1>4, <2>1, <2>2, <2>3
  <2> QED  BY <1>1, <1>2, <1>3, <2>1, <2>4 DEF LedgerStep, LedgerInv
<1> QED  BY <1>5, <1>6, <1>7

LEMMA DrainLedger ==
  ASSUME Types, QueueInv, LedgerInv, DrainOnce
  PROVE  LedgerStep
<1>1. /\ items # <<>> /\ pc = "drain" /\ items' = Tail(items)
      /\ coalesced' = (IF Head(items) = Marker THEN Marker ELSE coalesced)
      /\ UNCHANGED <<kinds, superseded, log, spoolFile, lost, opRecords>>
      /\ \/ hand' = Popped /\ UNCHANGED rejections
         \/ rejections' = rejections \cup {Popped} /\ UNCHANGED hand
  BY DEF DrainOnce, Reject, brokerVars, crashVars, opVars
<1>2. /\ Popped \in Seen /\ Popped # Marker /\ Popped \notin Range(items')
      /\ Popped = (IF Head(items) = Marker THEN coalesced ELSE Head(items))
      /\ Head(items) \notin Range(items')
      /\ Range(items) = {Head(items)} \cup Range(items')
  BY <1>1, PoppedIs
<1>3. hand = Marker
  BY <1>1 DEF QueueInv
<1>4. /\ InMemory = ((Range(items) \cup {coalesced}) \ {Marker}) \cup ({hand} \ {Marker})
      /\ InMemory' = ((Range(items') \cup {coalesced'}) \ {Marker}) \cup ({hand'} \ {Marker})
  BY DEF InMemory, Queued
<1>5. Seen' = Seen
  BY <1>1, SameSeen
<1>6. Popped \in InMemory
  BY <1>2, <1>4
<1>7. (coalesced # Marker => coalesced \notin Range(items))
  BY DEF QueueInv
<1>8. CASE hand' = Popped /\ UNCHANGED rejections
  <2>1. InMemory' = InMemory
    BY <1>1, <1>2, <1>3, <1>4, <1>7, <1>8
  <2> QED  BY <1>1, <1>5, <1>8, <2>1, MemoryIs DEF LedgerStep, LedgerInv
<1>9. CASE rejections' = rejections \cup {Popped} /\ UNCHANGED hand
  <2>1. InMemory' = InMemory \ {Popped}
    BY <1>1, <1>2, <1>3, <1>4, <1>7, <1>9
  <2> QED  BY <1>1, <1>5, <1>6, <1>9, <2>1, MemoryIs DEF LedgerStep, LedgerInv
<1> QED  BY <1>1, <1>8, <1>9

LEMMA PublishLedger ==
  ASSUME Types, QueueInv, LedgerInv, NEW attempt \in Attempts, Publish(attempt)
  PROVE  LedgerStep
<1>1. /\ UNCHANGED <<kinds, items, coalesced, superseded, lost, opRecords>>
      /\ pc = "publish"
      /\ \/ Acknowledged /\ log' = Append(log, hand)
         \/ Retry /\ log' \in {log, Append(log, hand)}
         \/ GiveUp /\ log' \in {log, Append(log, hand)}
  BY DEF Publish, queueVars, crashVars, opVars
<1>2. Seen' = Seen
  BY <1>1, SameSeen
<1>3. hand \in Seen /\ hand # Marker /\ hand \notin Range(items) /\ hand # coalesced
  BY <1>1 DEF QueueInv, Types, LoopTypes
<1>4. Range(Append(log, hand)) = Range(log) \cup {hand} /\ Range(Append(spoolFile, hand)) = Range(spoolFile) \cup {hand}
  BY <1>3, RangeAppend DEF Types, StoreTypes
<1>5. /\ InMemory = ((Range(items) \cup {coalesced}) \ {Marker}) \cup ({hand} \ {Marker})
      /\ InMemory' = ((Range(items') \cup {coalesced'}) \ {Marker}) \cup ({hand'} \ {Marker})
  BY DEF InMemory, Queued
<1>6. hand \in InMemory /\ Range(log) \subseteq Range(log') /\ Range(log') \subseteq Range(log) \cup {hand}
  BY <1>1, <1>3, <1>4, <1>5
<1>7. CASE Acknowledged /\ log' = Append(log, hand)
  <2>1. hand' = Marker /\ UNCHANGED <<spoolFile, rejections>>
    BY <1>7 DEF Acknowledged
  <2>2. InMemory' = InMemory \ {hand} /\ hand \in Range(log')
    BY <1>1, <1>3, <1>4, <1>5, <1>7, <2>1
  <2> QED  BY <1>1, <1>2, <1>6, <2>1, <2>2, MemoryIs DEF LedgerStep, LedgerInv
<1>8. CASE Retry
  <2>1. UNCHANGED <<hand, spoolFile, rejections>>
    BY <1>8 DEF Retry
  <2>2. InMemory' = InMemory
    BY <1>1, <1>5, <2>1
  <2> QED  BY <1>1, <1>2, <1>6, <2>1, <2>2, MemoryIs DEF LedgerStep, LedgerInv
<1>9. CASE GiveUp
  <2>1. hand' = Marker /\ spoolFile' = Append(spoolFile, hand) /\ rejections' = rejections \cup {hand}
    BY <1>9 DEF GiveUp, Reject
  <2>2. InMemory' = InMemory \ {hand} /\ Range(spoolFile') = Range(spoolFile) \cup {hand}
    BY <1>1, <1>3, <1>4, <1>5, <2>1
  <2> QED  BY <1>1, <1>2, <1>6, <2>1, <2>2, MemoryIs DEF LedgerStep, LedgerInv
<1> QED  BY <1>1, <1>7, <1>8, <1>9

LEMMA CrashLedger ==
  ASSUME Types, QueueInv, LedgerInv, Crash
  PROVE  LedgerStep
<1>1. /\ lost' = lost \cup InMemory \cup Unprocessed
      /\ items' = <<>> /\ coalesced' = Marker /\ hand' = Marker
      /\ UNCHANGED <<kinds, superseded, log, spoolFile, rejections, opRecords>>
  BY DEF Crash, opVars
<1>2. Seen' = Seen
  BY <1>1, SameSeen
<1>3. InMemory' = {}
  BY <1>1, RangeEmpty DEF InMemory, Queued
<1> QED  BY <1>1, <1>2, <1>3, MemoryIs DEF LedgerStep, LedgerInv

LEMMA OperatorLedger ==
  ASSUME Types, LedgerInv, ReplayInv, Operator
  PROVE  LedgerStep
<1>1. /\ UNCHANGED <<kinds, items, coalesced, superseded, hand, rejections, lost>>
  BY DEF Operator, LoadSpool, ReplayRecord, ReplayDone, OperatorStops, queueVars, loopVars, crashVars
<1>2. Seen' = Seen /\ InMemory' = InMemory
  BY <1>1, SameSeen DEF InMemory, Queued
<1>3. /\ Range(log) \subseteq Range(log') /\ Range(log') \subseteq Range(log) \cup Range(spoolFile)
      /\ Range(spoolFile) \subseteq Range(spoolFile') \cup Range(log')
      /\ Range(spoolFile') \subseteq Range(spoolFile)
  <2>1. CASE LoadSpool
    BY <2>1 DEF LoadSpool, brokerVars
  <2>2. CASE OperatorStops
    BY <2>2, RangeEmpty DEF OperatorStops, OperatorEnds, brokerVars
  <2>3. ASSUME opIndex >= 0
        PROVE  /\ opRecords = spoolFile /\ opIndex \in Nat
               /\ \A x : x \in Range(spoolFile) => x \in Range(Pending) \/ x \in Range(log)
               /\ Range(Pending) \subseteq Range(spoolFile)
               /\ Pending # <<>> => Head(Pending) \in Seen /\ Head(Pending) \in Range(Pending)
               /\ Range(Append(log, Head(Pending))) = Range(log) \cup {Head(Pending)} \/ Pending = <<>>
    <3>1. opRecords = spoolFile /\ opIndex \in Nat /\ opRecords \in Seq(Seen) /\ Len(opRecords) \in Nat
          /\ log \in Seq(Seen)
      BY <2>3 DEF ReplayInv, Types, StoreTypes
    <3>2. \A x : x \in Range(Pending) <=> \E i \in 1 .. Len(opRecords) : i > opIndex /\ opRecords[i] = x
      BY <2>3, PendingIs
    <3>3. \A x : x \in Range(opRecords) <=> \E i \in 1 .. Len(opRecords) : opRecords[i] = x
      BY <3>1, RangeIs
    <3>4. \A i \in 1 .. Len(opRecords) : i > opIndex \/ i \in 1 .. opIndex
      BY <3>1
    <3>5. \A i \in 1 .. opIndex : opRecords[i] \in Range(log)
      BY DEF ReplayInv
    <3>6. \A x : x \in Range(opRecords) => x \in Range(Pending) \/ x \in Range(log)
      BY <3>2, <3>3, <3>4, <3>5
    <3>7. Range(Pending) \subseteq Range(opRecords)
      BY <3>2, <3>3
    <3>8. Pending # <<>> => Head(Pending) \in Seen /\ Head(Pending) \in Range(Pending)
      <4>1. Pending \in Seq(Seen)
        BY <2>3, PendingIs
      <4> HIDE DEF Pending
      <4> QED  BY <4>1, RangeTail, HeadTailProperties
    <3> QED  BY <3>1, <3>6, <3>7, <3>8, RangeAppend
  <2>4. CASE ReplayRecord
    <3>1. /\ opIndex >= 0 /\ Pending # <<>>
          /\ \/ log' = Append(log, Head(Pending)) /\ UNCHANGED <<opRecords, spoolFile>>
             \/ log' \in {log, Append(log, Head(Pending))} /\ spoolFile' = Pending /\ opRecords' = <<>>
      BY <2>4 DEF ReplayRecord, OperatorEnds
    <3> QED  BY <3>1, <2>3, RangeEmpty
  <2>5. CASE ReplayDone
    <3>1. opIndex >= 0 /\ Pending = <<>> /\ spoolFile' = <<>> /\ opRecords' = <<>> /\ log' = log
      BY <2>5 DEF ReplayDone, OperatorEnds, brokerVars
    <3> QED  BY <3>1, <2>3, RangeEmpty
  <2> QED  BY <2>1, <2>2, <2>4, <2>5 DEF Operator
<1> QED  BY <1>1, <1>2, <1>3, MemoryIs DEF LedgerStep, LedgerInv

LEMMA StepLedger ==
  ASSUME Types, Types', QueueInv, LedgerInv, ReplayInv, [Next]_vars
  PROVE  LedgerStep
<1>1. CASE TakeIngested \/ Poll \/ Process \/ Commit \/ Persist \/ Restart \/ UNCHANGED vars
  <2>1. UNCHANGED <<kinds, items, coalesced, superseded, hand, log, spoolFile, rejections, lost, opRecords>>
    BY <1>1 DEF TakeIngested, Poll, Process, Commit, Persist, Restart, vars, queueVars, loopVars, brokerVars,
                stateVars, crashVars, opVars
  <2> QED  BY <2>1, LedgerQuiet
<1> QED  BY <1>1, ReceiveLedger, DrainLedger, PublishLedger, CrashLedger, OperatorLedger DEF Next, Loop

LEMMA LedgerKept ==
  ASSUME Types, Types', LedgerInv, LedgerStep
  PROVE  LedgerInv'
<1>1. /\ InMemory \subseteq Seen
      /\ rejections \subseteq Seen /\ superseded \subseteq Seen /\ lost \subseteq Seen
  BY MemoryIs
<1> QED  BY <1>1 DEF LedgerInv, LedgerStep

\* The operator works on the spool file he has loaded while no process can
\* add to it.
LEMMA ReplayKept ==
  ASSUME ~ReplayBesideRuntime, Types, LedgerStep, ReplayInv, [Next]_vars
  PROVE  ReplayInv'
<1>1. opIndex \in -1 .. Len(opRecords) /\ Len(opRecords) \in Nat
  BY DEF Types, StoreTypes
<1>2. Range(log) \subseteq Range(log')
  BY DEF LedgerStep
<1>3. CASE UNCHANGED <<pc, opIndex, opRecords, spoolFile>>
  BY <1>2, <1>3 DEF ReplayInv
<1>4. CASE opIndex = -1 /\ UNCHANGED <<opIndex, opRecords>>
  BY <1>4 DEF ReplayInv
<1>5. pc # "down" => opIndex = -1
  BY <1>1 DEF ReplayInv
<1>6. CASE Loop \/ Crash \/ (\E kind \in Kinds : ReceiveCallback(kind))
  <2>1. pc # "down" /\ UNCHANGED <<opIndex, opRecords>>
    BY <1>6 DEF Loop, Crash, ReceiveCallback, DrainOnce, Publish, TakeIngested, Poll, Drained, Process, Commit,
                Persist, opVars
  <2> QED  BY <2>1, <1>4, <1>5
<1>7. CASE Restart
  BY <1>7, <1>4 DEF Restart, opVars
<1>8. CASE UNCHANGED vars
  BY <1>8, <1>3 DEF vars, loopVars, opVars
<1>9. CASE LoadSpool
  BY <1>9 DEF LoadSpool, ReplayInv, loopVars
<1>10. CASE ReplayRecord
  <2>1. opIndex >= 0 /\ Pending # <<>> /\ pc' = pc
    BY <1>10 DEF ReplayRecord, loopVars
  <2>2. CASE opRecords' = <<>> /\ opIndex' = -1
    BY <2>2 DEF ReplayInv
  <2>3. CASE log' = Append(log, Head(Pending)) /\ opIndex' = opIndex + 1 /\ UNCHANGED <<opRecords, spoolFile>>
    <3>1. opIndex + 1 \in 1 .. Len(opRecords) /\ Head(Pending) = opRecords[opIndex + 1]
      BY <2>1, PendingIs
    <3>2. Head(Pending) \in Range(log')
      <4>1. Head(Pending) \in Seen /\ log \in Seq(Seen)
        BY <3>1, ElementOfSeq DEF Types, StoreTypes
      <4> QED  BY <4>1, <2>3, RangeAppend
    <3>3. \A i \in 1 .. opIndex' : i \in 1 .. opIndex \/ i = opIndex + 1
      BY <1>1, <2>1, <2>3
    <3> QED  BY <1>2, <2>1, <2>3, <3>1, <3>2, <3>3 DEF ReplayInv
  <2> QED  BY <1>10, <2>2, <2>3 DEF ReplayRecord, OperatorEnds
<1>11. CASE ReplayDone \/ OperatorStops
  BY <1>11 DEF ReplayDone, OperatorStops, OperatorEnds, ReplayInv
<1> QED  BY <1>6, <1>7, <1>8, <1>9, <1>10, <1>11 DEF Next, Operator

LEMMA InitLedger == Init => LedgerInv /\ ReplayInv /\ \A n \in Callbacks : PlaceOf(n) = "unseen"
<1> SUFFICES ASSUME Init PROVE LedgerInv /\ ReplayInv /\ \A n \in Callbacks : PlaceOf(n) = "unseen"
  OBVIOUS
<1>1. Seen = {} /\ Range(<<>>) = {} /\ Len(<<>>) = 0 /\ InMemory = {}
  BY RangeEmpty DEF Init, Seen, InMemory, Queued
<1>2. LedgerInv /\ ReplayInv
  BY <1>1 DEF Init, LedgerInv, ReplayInv
<1>3. \A n \in Callbacks : n > Len(kinds)
  BY <1>1 DEF Init, Callbacks
<1> QED  BY <1>2, <1>3 DEF PlaceOf

\* Each callback moves along Moves.
LEMMA PlaceMoves ==
  ASSUME Types, Types', LedgerInv, LedgerInv', LedgerStep, NEW n \in Callbacks
  PROVE  /\ PlaceOf(n)' \in Ledger!Places
         /\ PlaceOf(n)' # PlaceOf(n) => <<PlaceOf(n), PlaceOf(n)'>> \in Ledger!Moves
<1>1. /\ n > Len(kinds) <=> n \notin Seen
      /\ n > Len(kinds') <=> n \notin Seen'
  <2>1. n \in Nat \ {0} /\ Len(kinds) \in Nat /\ Len(kinds') \in Nat
    BY DEF Callbacks, Types, QueueTypes
  <2> QED  BY <2>1 DEF Seen
<1>2. PlaceOf(n) = IF n \notin Seen THEN "unseen"
         ELSE IF n \in Range(log) THEN "published"
         ELSE IF n \in Range(spoolFile) THEN "spooled"
         ELSE IF n \in rejections THEN "quarantined"
         ELSE IF n \in superseded THEN "superseded"
         ELSE IF n \in InMemory THEN "memory"
         ELSE IF n \in lost THEN "lost"
         ELSE "dropped"
  BY <1>1 DEF PlaceOf
<1>3. PlaceOf(n)' = IF n \notin Seen' THEN "unseen"
         ELSE IF n \in Range(log') THEN "published"
         ELSE IF n \in Range(spoolFile') THEN "spooled"
         ELSE IF n \in rejections' THEN "quarantined"
         ELSE IF n \in superseded' THEN "superseded"
         ELSE IF n \in InMemory' THEN "memory"
         ELSE IF n \in lost' THEN "lost"
         ELSE "dropped"
  BY <1>1 DEF PlaceOf
<1> DEFINE moves == Ledger!Moves
           places == Ledger!Places
<1>4. /\ \A p \in {"memory", "quarantined"} : <<"unseen", p>> \in moves
      /\ \A p \in {"superseded", "published", "spooled", "quarantined", "lost"} : <<"memory", p>> \in moves
      /\ <<"spooled", "published">> \in moves
      /\ places = {"unseen", "memory", "superseded", "published", "spooled", "quarantined", "lost"}
  BY DEF Ledger!Moves, Ledger!Places
<1> HIDE DEF moves, places
<1>5. /\ InMemory \subseteq Seen
      /\ Range(log) \subseteq Seen /\ Range(spoolFile) \subseteq Seen
      /\ rejections \subseteq Seen /\ superseded \subseteq Seen /\ lost \subseteq Seen
  BY MemoryIs
<1>6. CASE n \notin Seen
  <2>1. PlaceOf(n) = "unseen"
    BY <1>2, <1>6
  <2>2. PlaceOf(n)' \in {"unseen", "memory", "quarantined"}
    BY <1>3, <1>6 DEF LedgerStep
  <2> QED  BY <1>4, <2>1, <2>2 DEF moves, places
<1>7. CASE n \in Seen /\ n \in Range(log)
  <2>1. n \in Seen' /\ n \in Range(log')
    BY <1>7 DEF LedgerStep
  <2> QED  BY <1>2, <1>3, <1>4, <1>7, <2>1 DEF moves, places
<1>8. CASE n \in Seen /\ n \notin Range(log) /\ n \in Range(spoolFile)
  <2>1. n \in Seen' /\ (n \in Range(log') \/ n \in Range(spoolFile'))
    BY <1>8 DEF LedgerStep
  <2>2. PlaceOf(n) = "spooled" /\ PlaceOf(n)' \in {"spooled", "published"}
    BY <1>2, <1>3, <1>8, <2>1
  <2> QED  BY <1>4, <2>2 DEF moves, places
<1>9. CASE n \in Seen /\ n \notin Range(log) /\ n \notin Range(spoolFile) /\ n \in InMemory
  <2>1. n \notin rejections /\ n \notin superseded
    BY <1>9 DEF LedgerInv
  <2>2. PlaceOf(n) = "memory"
    BY <1>2, <1>9, <2>1
  <2>3. n \in Seen' /\ n \in Range(log') \cup rejections' \cup superseded' \cup InMemory' \cup lost'
    BY <1>9 DEF LedgerStep
  <2>4. PlaceOf(n)' \in {"memory", "superseded", "published", "spooled", "quarantined", "lost"}
    BY <1>3, <2>3
  <2> QED  BY <1>4, <2>2, <2>4 DEF moves, places
<1>10. CASE n \in Seen /\ n \notin Range(log) /\ n \notin Range(spoolFile) /\ n \notin InMemory
  <2>1. /\ n \in Seen' /\ n \notin Range(log') /\ n \notin Range(spoolFile') /\ n \notin InMemory'
        /\ n \in rejections' <=> n \in rejections
        /\ n \in superseded' <=> n \in superseded
        /\ n \in lost => n \in lost'
    BY <1>10 DEF LedgerStep
  <2>2. n \in rejections \/ n \in superseded \/ n \in lost
    BY <1>10 DEF LedgerInv
  <2>3. PlaceOf(n)' = PlaceOf(n) /\ PlaceOf(n) \in {"quarantined", "superseded", "lost"}
    BY <1>2, <1>3, <1>10, <2>1, <2>2
  <2> QED  BY <1>4, <2>3 DEF moves, places
<1> QED  BY <1>6, <1>7, <1>8, <1>9, <1>10

\* The path implements EventLedger: whatever queue, publisher, spool and
\* replay do, a callback moves along its moves only and none is dropped in
\* silence, as long as the spool is replayed while the process is down (the
\* runbook's order; beside a running process the replay can drop records).
THEOREM PathImplementsLedger ==
  ASSUME ~ReplayBesideRuntime
  PROVE  Spec => NothingDropped
<1> DEFINE I == Types /\ QueueInv /\ LedgerInv /\ ReplayInv
<1>1. Init => I /\ Ledger!Init
  BY InitTypes, InitLedger DEF Ledger!Init
<1>2. I /\ [Next]_vars => I' /\ LedgerStep
  <2> SUFFICES ASSUME I, [Next]_vars PROVE I' /\ LedgerStep
    OBVIOUS
  <2>1. Types' /\ QueueInv'
    BY StepTypes
  <2>2. LedgerStep
    BY <2>1, StepLedger
  <2>3. LedgerInv' /\ ReplayInv'
    BY <2>1, <2>2, LedgerKept, ReplayKept
  <2> QED  BY <2>1, <2>2, <2>3
<1>3. I /\ I' /\ LedgerStep => Ledger!Next
  BY PlaceMoves DEF Ledger!Next
<1>4. Ledger!Next => [Ledger!Next]_([n \in Callbacks |-> PlaceOf(n)])
  OBVIOUS
<1> HIDE DEF I
<1> QED  BY <1>1, <1>2, <1>3, PTL DEF Spec, NothingDropped, Ledger!Spec

-----------------------------------------------------------------------------
(* The offset at the broker.                                               *)

\* What the operator does to topic and spool, whoever runs beside him.
LEMMA OperatorSpool ==
  ASSUME Types, SpoolInv, Operator
  PROVE  /\ \/ log' = log
            \/ \E e \in Seen \cap rejections : log' = Append(log, e)
         /\ Range(spoolFile') \cup Range(opRecords') \subseteq rejections
<1>1. CASE LoadSpool
  BY <1>1 DEF LoadSpool, brokerVars, SpoolInv
<1>2. CASE ReplayDone \/ OperatorStops
  BY <1>2, RangeEmpty DEF ReplayDone, OperatorStops, OperatorEnds, brokerVars, SpoolInv
<1>3. CASE ReplayRecord
  <2>1. /\ opIndex >= 0 /\ Pending # <<>> /\ log' \in {log, Append(log, Head(Pending))}
        /\ \/ UNCHANGED <<opRecords, spoolFile>>
           \/ spoolFile' = Pending /\ opRecords' = <<>>
    BY <1>3 DEF ReplayRecord, OperatorEnds
  <2>2. opRecords \in Seq(Seen)
    BY DEF Types, StoreTypes
  <2>3. /\ opIndex + 1 \in 1 .. Len(opRecords) /\ Head(Pending) = opRecords[opIndex + 1]
        /\ \A x : x \in Range(Pending) <=> \E i \in 1 .. Len(opRecords) : i > opIndex /\ opRecords[i] = x
    BY <2>1, PendingIs
  <2>4. \A x : x \in Range(opRecords) <=> \E i \in 1 .. Len(opRecords) : opRecords[i] = x
    BY <2>2, RangeIs
  <2>5. Range(Pending) \subseteq Range(opRecords) /\ Head(Pending) \in Range(opRecords)
    BY <2>3, <2>4
  <2>6. Head(Pending) \in Seen \cap rejections
    BY <2>2, <2>3, <2>5, ElementOfSeq DEF SpoolInv
  <2> QED  BY <2>1, <2>5, <2>6, RangeEmpty DEF SpoolInv
<1> QED  BY <1>1, <1>2, <1>3 DEF Operator

\* What every step keeps: the topic grows at its end, and what is behind the
\* tick stays there.
LEMMA StepGrows ==
  ASSUME Types, QueueInv, SpoolInv, [Next]_vars
  PROVE  /\ log' = log \/ \E e \in Seen : log' = Append(log, e)
         /\ Len(log) \in Nat /\ Len(log') \in Nat /\ Len(log) <= Len(log')
         /\ \A i \in 1 .. Len(log) : log'[i] = log[i]
         /\ handled \subseteq handled' /\ rejections \subseteq rejections' /\ lost \subseteq lost'
         /\ owned' = owned /\ SpoolInv'
<1>1. \/ log' = log
      \/ \E e \in Seen : log' = Append(log, e)
  <2>1. ASSUME NEW attempt \in Attempts, Publish(attempt)  PROVE log' = log \/ \E e \in Seen : log' = Append(log, e)
    <3>1. hand \in Seen
      BY <2>1 DEF Publish, QueueInv, Types, LoopTypes
    <3> QED  BY <2>1, <3>1 DEF Publish
  <2>2. CASE Operator
    BY <2>2, OperatorSpool
  <2> QED  BY <2>1, <2>2 DEF Next, Loop, ReceiveCallback, DrainOnce, TakeIngested, Poll, Process, Commit, Persist,
                   Crash, Restart, vars, brokerVars
<1>2. log \in Seq(Seen)
  BY DEF Types, StoreTypes
<1>3. /\ Len(log) \in Nat /\ Len(log') \in Nat /\ Len(log) <= Len(log')
      /\ \A i \in 1 .. Len(log) : log'[i] = log[i]
  <2>1. CASE log' = log
    BY <1>2, <2>1
  <2>2. ASSUME NEW e \in Seen, log' = Append(log, e)  PROVE <1>3!1
    BY <1>2, <2>2, AppendProperties
  <2> QED  BY <1>1, <2>1, <2>2
<1>4. handled \subseteq handled' /\ rejections \subseteq rejections' /\ lost \subseteq lost' /\ owned' = owned
  BY DEF Next, Loop, Operator, ReceiveCallback, Push, Reject, DrainOnce, Publish, Acknowledged, Retry, GiveUp,
         TakeIngested, Poll, Process, Commit, Persist, Crash, Restart, LoadSpool, ReplayRecord, ReplayDone,
         OperatorStops, vars, loopVars, stateVars, crashVars
<1>5. SpoolInv'
  <2>1. CASE Operator
    BY <1>4, <2>1, OperatorSpool DEF SpoolInv
  <2>2. ASSUME NEW attempt \in Attempts, Publish(attempt)  PROVE SpoolInv'
    <3>1. CASE GiveUp
      <4>1. hand \in Seen
        BY <2>2 DEF Publish, QueueInv, Types, LoopTypes
      <4>2. Range(Append(spoolFile, hand)) = Range(spoolFile) \cup {hand}
        BY <4>1, RangeAppend DEF Types, StoreTypes
      <4> QED  BY <2>2, <3>1, <4>2 DEF Publish, GiveUp, Reject, opVars, SpoolInv
    <3>2. CASE Acknowledged \/ Retry
      BY <2>2, <3>2 DEF Publish, Acknowledged, Retry, opVars, SpoolInv
    <3> QED  BY <2>2, <3>1, <3>2 DEF Publish
  <2>3. CASE UNCHANGED <<spoolFile, opRecords>>
    BY <2>3, <1>4 DEF SpoolInv
  <2> QED  BY <2>1, <2>2, <2>3 DEF Next, Loop, ReceiveCallback, DrainOnce, TakeIngested, Poll, Process, Commit,
                   Persist, Crash, Restart, vars, opVars
<1> QED  BY <1>1, <1>3, <1>4, <1>5

Offsets == OffsetInv /\ OwnedInv /\ PolledInv

\* What every step does to the offset, spelled out.
LEMMA OffsetGrows ==
  ASSUME Types, QueueInv, SpoolInv, Offsets, [Next]_vars
  PROVE  /\ Covered \subseteq Covered'
         /\ \A i \in 1 .. brokerOffset : log'[i] \in Covered'
         /\ brokerOffset <= Len(log') /\ offset <= Len(log') /\ position <= Len(log')
         /\ \A i \in 1 .. Len(log) : log'[i] = log[i]
         /\ Len(log) \in Nat /\ Len(log') \in Nat /\ Len(log) <= Len(log')
         /\ handled \subseteq handled' /\ owned' = owned
<1>1. /\ Len(log) \in Nat /\ Len(log') \in Nat /\ Len(log) <= Len(log')
      /\ \A i \in 1 .. Len(log) : log'[i] = log[i]
      /\ handled \subseteq handled' /\ rejections \subseteq rejections' /\ lost \subseteq lost' /\ owned' = owned
  BY StepGrows
<1>2. Covered \subseteq Covered'
  BY <1>1 DEF Covered
<1>3. /\ brokerOffset \in Nat /\ offset \in Nat /\ position \in Nat
      /\ brokerOffset <= Len(log) /\ offset <= Len(log) /\ position <= Len(log)
  BY DEF Types, StoreTypes, Offsets, OffsetInv
<1>4. \A i \in 1 .. brokerOffset : i \in 1 .. Len(log)
  BY <1>1, <1>3
<1>5. \A i \in 1 .. brokerOffset : log[i] \in Covered
  BY DEF Offsets, OffsetInv
<1>6. \A i \in 1 .. brokerOffset : log'[i] \in Covered'
  BY <1>1, <1>2, <1>4, <1>5
<1>7. brokerOffset <= Len(log') /\ offset <= Len(log') /\ position <= Len(log')
  BY <1>1, <1>3
<1> QED  BY <1>1, <1>2, <1>6, <1>7

\* Beside the tick: nothing it has in hand changes.
LEMMA BesideOffsets ==
  ASSUME Types, QueueInv, SpoolInv, Offsets, [Next]_vars,
         UNCHANGED <<pc, hand, ingested, batch, next, position, offset, brokerOffset>>,
         Range(log') \subseteq Range(log) \cup Covered'
  PROVE  Offsets'
<1>1. /\ Covered \subseteq Covered'
      /\ \A i \in 1 .. brokerOffset : log'[i] \in Covered'
      /\ brokerOffset <= Len(log') /\ offset <= Len(log') /\ position <= Len(log')
      /\ \A i \in 1 .. Len(log) : log'[i] = log[i]
      /\ Len(log) \in Nat /\ Len(log') \in Nat /\ Len(log) <= Len(log')
      /\ handled \subseteq handled' /\ owned' = owned
  BY OffsetGrows
<1>2. OffsetInv'
  BY <1>1 DEF Offsets, OffsetInv
<1>3. OwnedInv'
  <2>1. offset \in Nat /\ Len(ingested) \in Nat
    BY DEF Types, StoreTypes, LoopTypes
  <2> QED  BY <1>1, <2>1 DEF Offsets, OwnedInv
<1>4. PolledInv'
  <2>1. \A i \in 1 .. position : i \in 1 .. Len(log)
    BY <1>1 DEF Offsets, OffsetInv, Types, StoreTypes
  <2>2. BatchIds(next + 1)' = BatchIds(next + 1)
    BY DEF BatchIds
  <2> QED  BY <1>1, <2>1, <2>2 DEF Offsets, PolledInv
<1> QED  BY <1>2, <1>3, <1>4 DEF Offsets

LEMMA PublishOffsets ==
  ASSUME Types, QueueInv, SpoolInv, Offsets, [Next]_vars, NEW attempt \in Attempts, Publish(attempt)
  PROVE  Offsets'
<1>1. /\ Covered \subseteq Covered'
      /\ \A i \in 1 .. brokerOffset : log'[i] \in Covered'
      /\ brokerOffset <= Len(log') /\ offset <= Len(log') /\ position <= Len(log')
      /\ \A i \in 1 .. Len(log) : log'[i] = log[i]
      /\ Len(log) \in Nat /\ Len(log') \in Nat /\ Len(log) <= Len(log')
      /\ handled \subseteq handled' /\ owned' = owned
  BY OffsetGrows
<1>2. /\ pc = "publish" /\ pc' \in {"drain", "publish"} /\ hand \in Seen
      /\ UNCHANGED <<batch, next, position, offset, brokerOffset>>
      /\ batch = <<>> /\ next = 0
  BY DEF Publish, Acknowledged, Retry, GiveUp, QueueInv, Types, LoopTypes
<1>3. Range(Append(log, hand)) = Range(log) \cup {hand} /\ Range(Append(ingested, hand)) = Range(ingested) \cup {hand}
      /\ Len(Append(log, hand)) = Len(log) + 1 /\ Len(Append(ingested, hand)) = Len(ingested) + 1
      /\ Len(ingested) \in Nat /\ offset \in Nat
  <2>1. log \in Seq(Seen) /\ ingested \in Seq(Seen)
    BY DEF Types, StoreTypes, LoopTypes
  <2> QED  BY <1>2, <2>1, RangeAppend, AppendProperties DEF Types, StoreTypes
<1>4. OffsetInv'
  BY <1>1, <1>2 DEF Offsets, OffsetInv
<1>5. PolledInv'
  <2>1. \A i \in 1 .. position : i \in 1 .. Len(log)
    BY <1>1 DEF Offsets, OffsetInv, Types, StoreTypes
  <2>2. BatchIds(next + 1)' = BatchIds(next + 1)
    BY <1>2 DEF BatchIds
  <2> QED  BY <1>1, <1>2, <2>1, <2>2 DEF Offsets, PolledInv
<1>6. OwnedInv'
  <2> SUFFICES ASSUME owned PROVE OwnedInv'
    BY <1>1 DEF OwnedInv
  <2>1. offset + Len(ingested) <= Len(log) /\ Range(log) \subseteq Covered \cup Range(ingested) \cup {hand}
    BY <1>2 DEF Offsets, OwnedInv
  <2>2. /\ \/ Acknowledged /\ log' = Append(log, hand)
           \/ Retry /\ log' \in {log, Append(log, hand)}
           \/ GiveUp /\ log' \in {log, Append(log, hand)}
    BY DEF Publish
  <2>3. Range(log') \subseteq Range(log) \cup {hand}
    BY <2>2, <1>3
  <2>4. CASE Acknowledged
    <3>1. ingested' = Append(ingested, hand) /\ log' = Append(log, hand)
      BY <2>2, <2>4, <1>2 DEF Acknowledged, Retry, GiveUp, QueueInv
    <3>2. offset' + Len(ingested') <= Len(log')
      BY <1>1, <1>2, <1>3, <2>1, <3>1
    <3>3. Range(log') \subseteq Covered' \cup Range(ingested')
      BY <1>1, <1>3, <2>1, <2>3, <3>1
    <3> QED  BY <1>2, <3>2, <3>3 DEF OwnedInv
  <2>5. CASE Retry
    <3>1. UNCHANGED <<hand, ingested>>
      BY <2>5 DEF Retry
    <3>2. offset' + Len(ingested') <= Len(log')
      BY <1>1, <1>2, <1>3, <2>1, <3>1
    <3> QED  BY <1>1, <1>2, <2>1, <2>3, <3>1, <3>2 DEF OwnedInv
  <2>6. CASE GiveUp
    <3>1. ingested' = ingested /\ hand \in Covered'
      BY <2>6 DEF GiveUp, Reject, Covered
    <3>2. offset' + Len(ingested') <= Len(log')
      BY <1>1, <1>2, <1>3, <2>1, <3>1
    <3>3. Range(log') \subseteq Covered' \cup Range(ingested')
      BY <1>1, <2>1, <2>3, <3>1
    <3> QED  BY <1>2, <3>2, <3>3 DEF OwnedInv
  <2> QED  BY <2>2, <2>4, <2>5, <2>6
<1> QED  BY <1>4, <1>5, <1>6 DEF Offsets

LEMMA DrainOffsets ==
  ASSUME Types, QueueInv, SpoolInv, Offsets, [Next]_vars, DrainOnce
  PROVE  Offsets'
<1>1. /\ Covered \subseteq Covered'
      /\ \A i \in 1 .. brokerOffset : log'[i] \in Covered'
      /\ brokerOffset <= Len(log') /\ offset <= Len(log') /\ position <= Len(log')
      /\ \A i \in 1 .. Len(log) : log'[i] = log[i]
      /\ Len(log) \in Nat /\ Len(log') \in Nat /\ Len(log) <= Len(log')
      /\ handled \subseteq handled' /\ owned' = owned
  BY OffsetGrows
<1>2. /\ pc = "drain" /\ pc' \in {"drain", "publish"} /\ hand = Marker
      /\ UNCHANGED <<batch, next, ingested, log, position, offset, brokerOffset>>
  BY DEF DrainOnce, QueueInv, brokerVars
<1>3. Range(log) \subseteq Seen /\ Marker \notin Seen
  BY MemoryIs
<1>4. OffsetInv'
  BY <1>1, <1>2 DEF Offsets, OffsetInv
<1>5. OwnedInv'
  BY <1>1, <1>2, <1>3 DEF Offsets, OwnedInv
<1>6. PolledInv'
  <2>1. BatchIds(next + 1)' = BatchIds(next + 1)
    BY <1>2 DEF BatchIds
  <2> QED  BY <1>1, <1>2, <2>1 DEF Offsets, PolledInv
<1> QED  BY <1>4, <1>5, <1>6 DEF Offsets

LEMMA TakeOffsets ==
  ASSUME Types, QueueInv, SpoolInv, Offsets, [Next]_vars, TakeIngested
  PROVE  Offsets'
<1>1. /\ Covered \subseteq Covered'
      /\ \A i \in 1 .. brokerOffset : log'[i] \in Covered'
      /\ brokerOffset <= Len(log') /\ offset <= Len(log') /\ position <= Len(log')
      /\ \A i \in 1 .. Len(log) : log'[i] = log[i]
      /\ Len(log) \in Nat /\ Len(log') \in Nat /\ Len(log) <= Len(log')
      /\ handled \subseteq handled' /\ owned' = owned
  BY OffsetGrows
<1>2. /\ pc = "drain" /\ pc' = "process" /\ owned /\ next' = 0
      /\ UNCHANGED <<hand, ingested, log, position, offset, brokerOffset>>
      /\ batch' = [i \in 1 .. Len(ingested) |-> [id |-> ingested[i], offset |-> 0]]
  BY DEF TakeIngested, Drained, brokerVars
<1>3. OffsetInv'
  BY <1>1, <1>2 DEF Offsets, OffsetInv
<1>4. Len(batch') = Len(ingested) /\ \A i \in 1 .. Len(batch') : batch'[i].id = ingested[i]
  <2>1. Len(ingested) \in Nat
    BY DEF Types, LoopTypes
  <2>2. batch' \in [1 .. Len(ingested) -> {[id |-> ingested[i], offset |-> 0] : i \in 1 .. Len(ingested)}]
    BY <1>2
  <2>3. Len(batch') = Len(ingested)
    BY <2>1, <2>2, FunctionIsSeq
  <2> QED  BY <1>2, <2>3
<1>5. OwnedInv'
  BY <1>1, <1>2, <1>4 DEF Offsets, OwnedInv
<1>6. PolledInv'
  BY <1>1, <1>2 DEF PolledInv
<1> QED  BY <1>3, <1>5, <1>6 DEF Offsets

LEMMA PollOffsets ==
  ASSUME PollMax <= MaxRaw, Types, QueueInv, SpoolInv, Offsets, [Next]_vars, Poll
  PROVE  Offsets'
<1>1. /\ Covered \subseteq Covered'
      /\ \A i \in 1 .. brokerOffset : log'[i] \in Covered'
      /\ brokerOffset <= Len(log') /\ offset <= Len(log') /\ position <= Len(log')
      /\ \A i \in 1 .. Len(log) : log'[i] = log[i]
      /\ Len(log) \in Nat /\ Len(log') \in Nat /\ Len(log) <= Len(log')
      /\ handled \subseteq handled' /\ owned' = owned
  BY OffsetGrows
<1>2. /\ pc = "drain" /\ pc' = "process" /\ ~owned /\ next' = 0 /\ batch = <<>> /\ next = 0
      /\ UNCHANGED <<log, offset, brokerOffset>>
  BY DEF Poll, Drained, QueueInv
<1>3. PICK n \in 0 .. PollMax :
        /\ position + n <= Len(log) /\ position' = position + n
        /\ batch' = [i \in 1 .. (IF n < MaxRaw THEN n ELSE MaxRaw) |->
                       [id |-> log[position + i], offset |-> position + i]]
  BY DEF Poll
<1>4. n \in Nat /\ position \in Nat /\ (IF n < MaxRaw THEN n ELSE MaxRaw) = n
  <2>1. MaxRaw \in Nat /\ PollMax \in Nat
    BY BoundsAssumption
  <2>2. position \in Nat
    BY DEF Types, StoreTypes
  <2> QED  BY <2>1, <2>2
<1>5. /\ batch' = [i \in 1 .. n |-> [id |-> log[position + i], offset |-> position + i]]
      /\ position' = position + n /\ position + n <= Len(log)
  BY <1>3, <1>4
<1>6. Len(batch') = n /\ \A i \in 1 .. n : batch'[i].id = log[position + i] /\ batch'[i].offset = position + i
  <2>1. batch' \in [1 .. n -> {[id |-> log[position + i], offset |-> position + i] : i \in 1 .. n}]
    BY <1>5
  <2>2. Len(batch') = n
    BY <1>4, <2>1, FunctionIsSeq
  <2> QED  BY <1>5, <2>2
<1>7. OffsetInv'
  BY <1>1, <1>2, <1>4, <1>5 DEF Offsets, OffsetInv
<1>8. PolledInv'
  <2>1. ASSUME NEW i \in 1 .. position'  PROVE log'[i] \in Covered' \cup BatchIds(next + 1)'
    <3>1. CASE i \in 1 .. position
      <4>1. log[i] \in Covered \cup BatchIds(next + 1)
        BY <1>2, <3>1 DEF Offsets, PolledInv
      <4>2. BatchIds(next + 1) = {}
        BY <1>2 DEF BatchIds
      <4> QED  BY <1>1, <1>2, <4>1, <4>2
    <3>2. CASE i \notin 1 .. position
      <4>1. i - position \in 1 .. n /\ position + (i - position) = i
        BY <1>4, <1>5, <3>2
      <4>2. batch'[i - position].id = log[i]
        BY <1>6, <4>1
      <4>3. i - position \in (next + 1)' .. Len(batch')
        BY <1>2, <1>6, <4>1
      <4> QED  BY <1>2, <4>2, <4>3 DEF BatchIds
    <3> QED  BY <3>1, <3>2
  <2>2. batch' # <<>> => batch'[Len(batch')].offset = position'
    <3>1. batch' # <<>> => n \in 1 .. n
      <4>1. CASE n = 0
        BY <1>5, <4>1
      <4>2. CASE n # 0
        BY <1>4, <4>2
      <4> QED  BY <4>1, <4>2
    <3> QED  BY <1>5, <1>6, <3>1
  <2> QED  BY <2>1, <2>2 DEF PolledInv
<1>9. OwnedInv'
  BY <1>1, <1>2 DEF OwnedInv
<1> QED  BY <1>7, <1>8, <1>9 DEF Offsets

LEMMA ProcessOffsets ==
  ASSUME Types, QueueInv, SpoolInv, Offsets, [Next]_vars, Process
  PROVE  Offsets'
<1>1. /\ Covered \subseteq Covered'
      /\ \A i \in 1 .. brokerOffset : log'[i] \in Covered'
      /\ brokerOffset <= Len(log') /\ offset <= Len(log') /\ position <= Len(log')
      /\ \A i \in 1 .. Len(log) : log'[i] = log[i]
      /\ Len(log) \in Nat /\ Len(log') \in Nat /\ Len(log) <= Len(log')
      /\ handled \subseteq handled' /\ owned' = owned
  BY OffsetGrows
<1>2. /\ pc = "process" /\ next < Len(batch) /\ next' = next + 1 /\ handled' = handled \cup {batch[next + 1].id}
      /\ UNCHANGED <<pc, hand, ingested, batch, log, position, offset, brokerOffset>>
  BY DEF Process, brokerVars
<1>3. next \in Nat /\ Len(batch) \in Nat
  BY DEF Types, LoopTypes
<1>4. OffsetInv'
  <2>1. \A i \in 1 .. next' : i \in 1 .. next \/ i = next + 1
    BY <1>2, <1>3
  <2>2. \A i \in 1 .. next' : batch'[i].id \in handled'
    BY <1>2, <2>1 DEF Offsets, OffsetInv
  <2> QED  BY <1>1, <1>2, <2>2 DEF Offsets, OffsetInv
<1>5. OwnedInv'
  BY <1>1, <1>2 DEF Offsets, OwnedInv
<1>6. PolledInv'
  <2>1. BatchIds(next + 1) \subseteq BatchIds(next + 1)' \cup {batch[next + 1].id}
    <3>1. \A i \in next + 1 .. Len(batch) : i = next + 1 \/ i \in next' + 1 .. Len(batch')
      BY <1>2, <1>3
    <3> QED  BY <1>2, <3>1 DEF BatchIds
  <2>2. batch[next + 1].id \in Covered'
    BY <1>2 DEF Covered
  <2> QED  BY <1>1, <1>2, <2>1, <2>2 DEF Offsets, PolledInv
<1> QED  BY <1>4, <1>5, <1>6 DEF Offsets

\* After the last event of a tick the topic is covered: all of it where the
\* runtime owns the path, what was polled of it where it does not.
LEMMA CommitCovers ==
  ASSUME Types, QueueInv, Offsets, pc = "process", next = Len(batch)
  PROVE  /\ owned => Range(log) \subseteq Covered
         /\ ~owned => \A i \in 1 .. position : log[i] \in Covered
<1>1. \A i \in 1 .. Len(batch) : batch[i].id \in Covered
  BY DEF Offsets, OffsetInv, Covered
<1>2. ASSUME owned  PROVE Range(log) \subseteq Covered
  <2>1. Len(batch) = Len(ingested) /\ \A i \in 1 .. Len(batch) : batch[i].id = ingested[i]
    BY <1>2 DEF Offsets, OwnedInv
  <2>2. Range(ingested) \subseteq Covered
    <3>1. ingested \in Seq(Seen)
      BY DEF Types, LoopTypes
    <3> QED  BY <1>1, <2>1, <3>1, RangeIs
  <2>3. hand = Marker /\ Marker \notin Range(log)
    BY MemoryIs DEF QueueInv
  <2> QED  BY <1>2, <2>2, <2>3 DEF Offsets, OwnedInv
<1>3. ASSUME ~owned  PROVE \A i \in 1 .. position : log[i] \in Covered
  <2>1. BatchIds(next + 1) = {}
    BY DEF BatchIds, Types, LoopTypes
  <2> QED  BY <1>3, <2>1 DEF Offsets, PolledInv
<1> QED  BY <1>2, <1>3

LEMMA CommitOffsets ==
  ASSUME Types, QueueInv, SpoolInv, Offsets, [Next]_vars, Commit
  PROVE  Offsets'
<1>1. /\ Covered \subseteq Covered'
      /\ \A i \in 1 .. brokerOffset : log'[i] \in Covered'
      /\ brokerOffset <= Len(log') /\ offset <= Len(log') /\ position <= Len(log')
      /\ \A i \in 1 .. Len(log) : log'[i] = log[i]
      /\ Len(log) \in Nat /\ Len(log') \in Nat /\ Len(log) <= Len(log')
      /\ handled \subseteq handled' /\ owned' = owned
  BY OffsetGrows
<1>2. /\ pc = "process" /\ pc' = "persist" /\ next = Len(batch)
      /\ UNCHANGED <<hand, ingested, batch, next, log, position>>
      /\ Covered' = Covered
  BY DEF Commit, stateVars, crashVars, Covered
<1>3. /\ offset \in Nat /\ brokerOffset \in Nat /\ position \in Nat /\ Len(batch) \in Nat /\ batch \in Seq(Records)
      /\ position <= Len(log) /\ offset <= Len(log)
  BY DEF Types, StoreTypes, LoopTypes, Offsets, OffsetInv
<1>4. /\ owned => Range(log) \subseteq Covered
      /\ ~owned => \A i \in 1 .. position : log[i] \in Covered
  BY <1>2, CommitCovers
<1>5. /\ offset' \in Nat /\ offset' <= Len(log')
      /\ brokerOffset' = brokerOffset \/ (brokerOffset' = offset' /\ (owned \/ offset' = position))
  <2>1. CASE batch = <<>>
    BY <2>1, <1>1, <1>3 DEF Commit
  <2>2. CASE batch # <<>> /\ owned
    <3>1. offset' = offset + Len(batch) /\ brokerOffset' \in {offset', brokerOffset}
      BY <2>2 DEF Commit
    <3>2. Len(batch) = Len(ingested) /\ offset + Len(ingested) <= Len(log)
      BY <1>2, <2>2 DEF Offsets, OwnedInv
    <3> QED  BY <1>2, <1>3, <2>2, <3>1, <3>2
  <2>3. CASE batch # <<>> /\ ~owned
    <3>1. offset' = batch[Len(batch)].offset /\ brokerOffset' = offset'
      BY <2>3 DEF Commit
    <3>2. batch[Len(batch)].offset = position
      BY <1>2, <2>3 DEF Offsets, PolledInv
    <3> QED  BY <1>2, <1>3, <3>1, <3>2
  <2> QED  BY <2>1, <2>2, <2>3
<1>6. brokerOffset' <= Len(log') /\ \A i \in 1 .. brokerOffset' : log'[i] \in Covered'
  <2>1. CASE brokerOffset' = brokerOffset
    BY <1>1, <2>1
  <2>2. CASE brokerOffset' = offset' /\ owned
    <3>3. Len(log') = Len(log) /\ log \in Seq(Seen)
      BY <1>2 DEF Types, StoreTypes
    <3>1. log \in Seq(Seen) /\ \A i \in 1 .. offset' : i \in 1 .. Len(log)
      BY <1>1, <1>5, <3>3
    <3>2. \A i \in 1 .. offset' : log[i] \in Range(log)
      BY <3>1, RangeIs
    <3> QED  BY <1>2, <1>4, <1>5, <2>2, <3>2
  <2>3. CASE brokerOffset' = offset' /\ ~owned /\ offset' = position
    BY <1>2, <1>4, <1>5, <2>3
  <2> QED  BY <1>5, <2>1, <2>2, <2>3
<1>7. OffsetInv'
  BY <1>1, <1>2, <1>5, <1>6 DEF Offsets, OffsetInv
<1>8. OwnedInv'
  BY <1>1, <1>2 DEF Offsets, OwnedInv
<1>9. PolledInv'
  <2>1. BatchIds(next + 1)' = BatchIds(next + 1)
    BY <1>2 DEF BatchIds
  <2> QED  BY <1>1, <1>2, <2>1 DEF Offsets, PolledInv
<1> QED  BY <1>7, <1>8, <1>9 DEF Offsets

LEMMA PersistOffsets ==
  ASSUME Types, QueueInv, SpoolInv, Offsets, [Next]_vars, Persist
  PROVE  Offsets'
<1>1. /\ Covered \subseteq Covered'
      /\ \A i \in 1 .. brokerOffset : log'[i] \in Covered'
      /\ brokerOffset <= Len(log') /\ offset <= Len(log') /\ position <= Len(log')
      /\ \A i \in 1 .. Len(log) : log'[i] = log[i]
      /\ Len(log) \in Nat /\ Len(log') \in Nat /\ Len(log) <= Len(log')
      /\ handled \subseteq handled' /\ owned' = owned
  BY OffsetGrows
<1>2. /\ pc = "persist" /\ pc' = "drain" /\ ingested' = <<>> /\ batch' = <<>> /\ next' = 0
      /\ UNCHANGED <<hand, log, position, offset, brokerOffset>> /\ Covered' = Covered
  BY DEF Persist, brokerVars, crashVars, Covered
<1>3. OffsetInv'
  BY <1>1, <1>2 DEF Offsets, OffsetInv
<1>4. OwnedInv'
  <2> SUFFICES ASSUME owned PROVE OwnedInv'
    BY <1>1 DEF OwnedInv
  <2>1. Len(batch) = Len(ingested) /\ \A i \in 1 .. Len(ingested) : ingested[i] \in Covered
    BY <1>2 DEF Offsets, OffsetInv, OwnedInv, Covered
  <2>2. Range(ingested) \subseteq Covered
    <3>1. ingested \in Seq(Seen)
      BY DEF Types, LoopTypes
    <3> QED  BY <2>1, <3>1, RangeIs
  <2>3. offset' + Len(ingested') <= Len(log')
    <3>1. Len(<<>>) = 0 /\ offset \in Nat
      BY DEF Types, StoreTypes
    <3> QED  BY <1>1, <1>2, <3>1
  <2> QED  BY <1>2, <2>2, <2>3 DEF Offsets, OwnedInv
<1>5. PolledInv'
  <2>1. BatchIds(next + 1) = {}
    <3>1. next = Len(batch) /\ Len(batch) \in Nat
      BY <1>2 DEF Offsets, OffsetInv, Types, LoopTypes
    <3> QED  BY <3>1 DEF BatchIds
  <2> QED  BY <1>1, <1>2, <2>1 DEF Offsets, PolledInv
<1> QED  BY <1>3, <1>4, <1>5 DEF Offsets

LEMMA CrashOffsets ==
  ASSUME Types, QueueInv, SpoolInv, Offsets, [Next]_vars, Crash
  PROVE  Offsets'
<1>1. /\ Covered \subseteq Covered'
      /\ \A i \in 1 .. brokerOffset : log'[i] \in Covered'
      /\ brokerOffset <= Len(log') /\ offset <= Len(log') /\ position <= Len(log')
      /\ \A i \in 1 .. Len(log) : log'[i] = log[i]
      /\ Len(log) \in Nat /\ Len(log') \in Nat /\ Len(log) <= Len(log')
      /\ handled \subseteq handled' /\ owned' = owned
  BY OffsetGrows
<1>2. /\ pc' = "down" /\ ingested' = <<>> /\ batch' = <<>> /\ next' = 0 /\ offset' = 0 /\ hand' = Marker
      /\ UNCHANGED <<log, position, brokerOffset>>
      /\ InMemory \cup Unprocessed \subseteq Covered'
  BY DEF Crash, Covered
<1>3. OffsetInv'
  BY <1>1, <1>2 DEF Offsets, OffsetInv
<1>4. BatchIds(next + 1) \subseteq Covered'
  BY <1>2 DEF BatchIds, Unprocessed
<1>5. OwnedInv'
  <2> SUFFICES ASSUME owned PROVE OwnedInv'
    BY <1>1 DEF OwnedInv
  <2>1. Range(ingested) \subseteq Covered'
    <3>1. ingested \in Seq(Seen)
      BY DEF Types, LoopTypes
    <3>2. CASE pc \in {"drain", "publish"}
      BY <1>2, <3>2 DEF Unprocessed
    <3>3. CASE pc = "down"
      BY <3>3, RangeEmpty DEF QueueInv
    <3>4. CASE pc \in {"process", "persist"}
      <4>1. Len(batch) = Len(ingested) /\ \A i \in 1 .. Len(batch) : batch[i].id = ingested[i]
        BY <3>4 DEF Offsets, OwnedInv
      <4>2. \A i \in 1 .. Len(batch) : i \in 1 .. next \/ i \in next + 1 .. Len(batch)
        BY DEF Types, LoopTypes
      <4>3. \A i \in 1 .. next : batch[i].id \in Covered'
        BY <1>1 DEF Offsets, OffsetInv, Covered
      <4>4. \A i \in 1 .. Len(ingested) : ingested[i] \in Covered'
        BY <1>4, <4>1, <4>2, <4>3 DEF BatchIds
      <4> QED  BY <3>1, <4>4, RangeIs
    <3> QED  BY <3>2, <3>3, <3>4 DEF Types, LoopTypes
  <2>2. hand # Marker => hand \in Covered'
    BY <1>2 DEF InMemory
  <2>3. Marker \notin Range(log)
    BY MemoryIs
  <2>4. Range(log') \subseteq Covered'
    BY <1>1, <1>2, <2>1, <2>2, <2>3 DEF Offsets, OwnedInv
  <2>5. offset' + Len(ingested') <= Len(log')
    BY <1>1, <1>2
  <2> QED  BY <1>2, <2>4, <2>5 DEF OwnedInv
<1>6. PolledInv'
  BY <1>1, <1>2, <1>4 DEF Offsets, PolledInv
<1> QED  BY <1>3, <1>5, <1>6 DEF Offsets

LEMMA RestartOffsets ==
  ASSUME Types, QueueInv, SpoolInv, Offsets, [Next]_vars, Restart
  PROVE  Offsets'
<1>1. /\ Covered \subseteq Covered'
      /\ \A i \in 1 .. brokerOffset : log'[i] \in Covered'
      /\ brokerOffset <= Len(log') /\ offset <= Len(log') /\ position <= Len(log')
      /\ \A i \in 1 .. Len(log) : log'[i] = log[i]
      /\ Len(log) \in Nat /\ Len(log') \in Nat /\ Len(log) <= Len(log')
      /\ handled \subseteq handled' /\ owned' = owned
  BY OffsetGrows
<1>2. /\ pc = "down" /\ pc' = "drain" /\ position' = brokerOffset
      /\ UNCHANGED <<hand, ingested, batch, next, log, offset, brokerOffset>>
  BY DEF Restart
<1>3. OffsetInv'
  BY <1>1, <1>2 DEF Offsets, OffsetInv
<1>4. OwnedInv'
  BY <1>1, <1>2 DEF Offsets, OwnedInv
<1>5. PolledInv'
  BY <1>1, <1>2 DEF PolledInv
<1> QED  BY <1>3, <1>4, <1>5 DEF Offsets

LEMMA StepOffsets ==
  ASSUME owned \/ PollMax <= MaxRaw, Types, QueueInv, SpoolInv, Offsets, [Next]_vars
  PROVE  Offsets'
<1>1. CASE (\E kind \in Kinds : ReceiveCallback(kind)) \/ UNCHANGED vars
  <2>1. UNCHANGED <<pc, hand, ingested, batch, next, position, offset, brokerOffset, log>>
    BY <1>1 DEF ReceiveCallback, loopVars, brokerVars, vars
  <2> QED  BY <2>1, BesideOffsets
<1>2. CASE Operator
  <2>1. UNCHANGED <<pc, hand, ingested, batch, next, position, offset, brokerOffset>>
    BY <1>2 DEF Operator, LoadSpool, ReplayRecord, ReplayDone, OperatorStops, loopVars, brokerVars
  <2>2. Range(log') \subseteq Range(log) \cup Covered'
    <3>1. log' = log \/ \E e \in Seen \cap rejections : log' = Append(log, e)
      BY <1>2, OperatorSpool
    <3>2. rejections \subseteq Covered'
      BY StepGrows DEF Covered
    <3>3. ASSUME NEW e \in Seen \cap rejections, log' = Append(log, e)  PROVE Range(log') = Range(log) \cup {e}
      BY <3>3, RangeAppend DEF Types, StoreTypes
    <3> QED  BY <3>1, <3>2, <3>3
  <2> QED  BY <2>1, <2>2, BesideOffsets
<1>3. Poll => PollMax <= MaxRaw
  BY DEF Poll
<1> QED  BY <1>1, <1>2, <1>3, DrainOffsets, PublishOffsets, TakeOffsets, PollOffsets, ProcessOffsets, CommitOffsets,
            PersistOffsets, CrashOffsets, RestartOffsets DEF Next, Loop

-----------------------------------------------------------------------------
(* The order of trades.                                                    *)

\* Appending to a sequence in order what none of it comes after.
LEMMA AscendingAppend ==
  ASSUME NEW S, NEW s \in Seq(S), NEW e \in S, Ascending(s), Precedes(Range(s), {e})
  PROVE  Ascending(Append(s, e))
<1>1. /\ Len(s) \in Nat /\ Len(Append(s, e)) = Len(s) + 1
      /\ \A i \in 1 .. Len(s) : Append(s, e)[i] = s[i]
      /\ Append(s, e)[Len(s) + 1] = e
  BY AppendProperties
<1>2. \A i \in 1 .. Len(s) : IsTick(s[i]) /\ IsTick(e) => s[i] < e
  BY RangeIs DEF Precedes
<1>3. \A i \in 1 .. Len(s) + 1 : i \in 1 .. Len(s) \/ i = Len(s) + 1
  BY <1>1
<1> DEFINE t == Append(s, e)
<1> SUFFICES ASSUME NEW i \in 1 .. Len(s) + 1, NEW j \in 1 .. Len(s) + 1, i < j, IsTick(t[i]), IsTick(t[j])
             PROVE  t[i] < t[j]
  BY <1>1 DEF Ascending
<1>4. i \in 1 .. Len(s) /\ t[i] = s[i]
  BY <1>1, <1>3
<1>5. CASE j \in 1 .. Len(s)
  <2>1. t[j] = s[j]
    BY <1>1, <1>5
  <2> HIDE DEF t
  <2> QED  BY <1>4, <1>5, <2>1 DEF Ascending
<1>6. CASE j = Len(s) + 1
  <2>1. t[j] = e
    BY <1>1, <1>6
  <2> HIDE DEF t
  <2> QED  BY <1>2, <1>4, <2>1
<1> QED  BY <1>3, <1>5, <1>6

LEMMA MarkerIsNoTick == ASSUME Types PROVE ~IsTick(Marker)
<1>1. DOMAIN kinds = 1 .. Len(kinds)
  BY DEF Types, QueueTypes
<1> QED  BY <1>1 DEF IsTick, Marker

LEMMA ReceiveOrder ==
  ASSUME Types, Types', QueueInv, OrderInv, NEW kind \in Kinds, ReceiveCallback(kind)
  PROVE  OrderInv'
<1> DEFINE n == Len(kinds) + 1
           T(m) == m \in DOMAIN kinds' /\ kinds'[m] = "tick"
<1>1. /\ kinds' = Append(kinds, kind) /\ Push(n, kind)
      /\ UNCHANGED <<owned, hand, ingested, next, state>>
  BY DEF ReceiveCallback, loopVars, stateVars
<1>2. Seen' = Seen \cup {n} /\ n \notin Seen /\ Len(kinds) \in Nat /\ kinds \in Seq(Kinds)
  BY <1>1, SeenGrows DEF Types, QueueTypes
<1>3. \A m \in Seen : m < n
  BY <1>2 DEF Seen
<1>4. \A m \in Seen \cup {Marker} : T(m) <=> IsTick(m)
  <2>1. /\ DOMAIN kinds = 1 .. Len(kinds) /\ DOMAIN kinds' = 1 .. Len(kinds) + 1
        /\ \A m \in 1 .. Len(kinds) : kinds'[m] = kinds[m]
    BY <1>1, <1>2, AppendProperties
  <2>2. \A m \in Seen : T(m) <=> IsTick(m)
    BY <1>2, <2>1 DEF IsTick, Seen
  <2>3. ~IsTick(Marker) /\ ~T(Marker)
    BY <1>2, <2>1 DEF IsTick, Marker
  <2> QED  BY <2>2, <2>3
<1>5. T(n) <=> kind = "tick"
  <2>1. kinds'[n] = kind /\ n \in DOMAIN kinds'
    BY <1>1, <1>2, AppendProperties
  <2> QED  BY <2>1 DEF IsTick
<1> HIDE DEF n, T
<1>14. \A m : T(m) <=> IsTick(m)'
  BY DEF T, IsTick
<1> SUFFICES ASSUME owned PROVE OrderInv'
  BY <1>1 DEF OrderInv
<1>6. /\ state \in Seq(Seen) /\ ingested \in Seq(Seen) /\ items \in Seq(Seen \cup {Marker})
      /\ hand \in Seen \cup {Marker} /\ next \in Nat /\ coalesced \in Seen \cup {Marker}
      /\ Range(state) \subseteq Seen /\ Range(ingested) \subseteq Seen /\ Waiting \subseteq Seen
      /\ Range(items) \subseteq Seen \cup {Marker}
  <2>1. state \in Seq(Seen) /\ ingested \in Seq(Seen) /\ items \in Seq(Seen \cup {Marker}) /\ next \in Nat
    BY DEF Types, StoreTypes, LoopTypes, QueueTypes
  <2>2. \A i \in next + 1 .. Len(ingested) : i \in 1 .. Len(ingested)
    BY <2>1
  <2>3. Waiting \subseteq Seen
    BY <2>1, <2>2, ElementOfSeq DEF Waiting
  <2> QED  BY <2>1, <2>3, RangeIs DEF Types, QueueTypes, LoopTypes
<1>7. /\ Ascending(state)' /\ Ascending(ingested)' /\ Precedes(Range(state), Waiting)'
  <2>1. \A i \in 1 .. Len(state) : state[i] \in Seen
    BY <1>6, ElementOfSeq
  <2>2. \A i \in 1 .. Len(ingested) : ingested[i] \in Seen
    BY <1>6, ElementOfSeq
  <2>3. Ascending(state)'
    BY <1>1, <1>4, <1>14, <2>1 DEF OrderInv, Ascending
  <2>4. Ascending(ingested)'
    BY <1>1, <1>4, <1>14, <2>2 DEF OrderInv, Ascending
  <2>5. Waiting' = Waiting
    BY <1>1 DEF Waiting
  <2> QED  BY <1>1, <1>4, <1>6, <1>14, <2>3, <2>4, <2>5 DEF OrderInv, Precedes
<1>8. \E more : Range(items') \subseteq Range(items) \cup more /\ more \subseteq {n, Marker}
  <2>1. items' = items \/ \E e \in {n, Marker} : items' = Append(items, e)
    BY <1>1 DEF Push
  <2>2. ASSUME NEW e \in {n, Marker}, items' = Append(items, e)  PROVE Range(items') = Range(items) \cup {e}
    <3>1. items \in Seq(Seen \cup {n, Marker})
      BY <1>6, SeqMonotonic
    <3> QED  BY <2>2, <3>1, RangeAppend
  <2> QED  BY <2>1, <2>2
<1>9. \A m \in Seen : \A k \in Range(items') : T(m) /\ T(k) /\ k \notin Range(items) => m < k
  BY <1>3, <1>4, <1>8, MarkerIsNoTick
<1>10. Precedes(Range(state) \cup Range(ingested), Range(items) \cup {hand})'
  <2>1. ASSUME NEW m \in Range(state) \cup Range(ingested), NEW k \in Range(items') \cup {hand}, T(m), T(k)
        PROVE  m < k
    <3>1. m \in Seen
      BY <1>6
    <3>2. CASE k \in Range(items) \cup {hand}
      BY <1>4, <1>6, <2>1, <3>1, <3>2 DEF OrderInv, Precedes
    <3>3. CASE k \in Range(items') /\ k \notin Range(items)
      BY <1>9, <2>1, <3>1, <3>3
    <3> QED  BY <3>2, <3>3
  <2> QED  BY <1>1, <1>14, <2>1 DEF Precedes
<1>11. Precedes({hand}, Range(items))'
  <2>1. ASSUME NEW k \in Range(items'), T(hand), T(k)  PROVE hand < k
    <3>1. hand \in Seen
      BY <1>4, <1>6, <2>1, MarkerIsNoTick
    <3>2. CASE k \in Range(items)
      BY <1>4, <1>6, <2>1, <3>2 DEF OrderInv, Precedes
    <3>3. CASE k \notin Range(items)
      BY <1>9, <2>1, <3>1, <3>3
    <3> QED  BY <3>2, <3>3
  <2> QED  BY <1>1, <1>14, <2>1 DEF Precedes
<1>12. Ascending(items)'
  <2>1. CASE items' = items
    <3>1. \A i \in 1 .. Len(items) : items[i] \in Seen \cup {Marker}
      BY <1>6, ElementOfSeq
    <3> QED  BY <1>4, <1>14, <2>1, <3>1 DEF OrderInv, Ascending
  <2>2. ASSUME NEW e \in {n, Marker}, items' = Append(items, e)  PROVE Ascending(items)'
    <3>1. items \in Seq(Seen \cup {n, Marker})
      BY <1>6, SeqMonotonic
    <3>2. /\ Len(items) \in Nat /\ Len(items') = Len(items) + 1
          /\ \A i \in 1 .. Len(items) : items'[i] = items[i] /\ items[i] \in Seen \cup {Marker}
          /\ items'[Len(items) + 1] = e
      BY <1>6, <2>2, <3>1, AppendProperties, ElementOfSeq
    <3>3. \A i \in 1 .. Len(items') : i \in 1 .. Len(items) \/ i = Len(items) + 1
      BY <3>2
    <3>4. \A i \in 1 .. Len(items) : T(items[i]) /\ T(e) => items[i] < e
      BY <1>3, <1>4, <3>2, MarkerIsNoTick
    <3>5. ASSUME NEW i \in 1 .. Len(items'), NEW j \in 1 .. Len(items'), i < j, T(items'[i]), T(items'[j])
          PROVE  items'[i] < items'[j]
      <4>1. i \in 1 .. Len(items)
        BY <3>2, <3>3, <3>5
      <4>2. CASE j \in 1 .. Len(items)
        <5>1. IsTick(items[i]) /\ IsTick(items[j]) /\ items'[i] = items[i] /\ items'[j] = items[j]
          BY <1>4, <3>2, <3>5, <4>1, <4>2
        <5> QED  BY <3>5, <4>1, <4>2, <5>1 DEF OrderInv, Ascending
      <4>3. CASE j = Len(items) + 1
        BY <3>2, <3>4, <3>5, <4>1, <4>3
      <4> QED  BY <3>3, <4>2, <4>3
    <3> QED  BY <1>14, <3>5 DEF Ascending
  <2> QED  BY <1>1, <2>1, <2>2 DEF Push
<1>13. ~IsTick(Marker)' /\ ~IsTick(coalesced)'
  <2>1. coalesced' = coalesced \/ (coalesced' = n /\ kind = "queue")
    BY <1>1 DEF Push
  <2>2. ~T(Marker) /\ ~T(coalesced')
    BY <1>4, <1>5, <1>6, <2>1 DEF OrderInv
  <2> QED  BY <1>14, <2>2
<1> QED  BY <1>7, <1>10, <1>11, <1>12, <1>13 DEF OrderInv

\* What the order is about, while no callback arrives.
LEMMA OrderFacts ==
  ASSUME Types, kinds' = kinds
  PROVE  /\ \A m : IsTick(m)' <=> IsTick(m)
         /\ ~IsTick(Marker) /\ next \in Nat
         /\ state \in Seq(Seen) /\ ingested \in Seq(Seen) /\ items \in Seq(Seen \cup {Marker})
         /\ Waiting \subseteq Range(ingested)
<1>1. /\ state \in Seq(Seen) /\ ingested \in Seq(Seen) /\ items \in Seq(Seen \cup {Marker}) /\ next \in Nat
  BY DEF Types, StoreTypes, LoopTypes, QueueTypes
<1>2. \A i \in next + 1 .. Len(ingested) : i \in 1 .. Len(ingested)
  BY <1>1
<1>3. Waiting \subseteq Range(ingested)
  BY <1>1, <1>2, RangeIs DEF Waiting
<1> QED  BY <1>1, <1>3, SameSeen, MarkerIsNoTick

\* A step that moves nothing along, or takes the whole tick away.
LEMMA QuietOrder ==
  ASSUME Types, OrderInv, UNCHANGED <<kinds, owned, items, coalesced, hand, state>>,
         \/ UNCHANGED <<ingested, next>>
         \/ ingested' = <<>> /\ next' = 0
  PROVE  OrderInv'
<1> SUFFICES ASSUME owned PROVE OrderInv'
  BY DEF OrderInv
<1>1. /\ \A m : IsTick(m)' <=> IsTick(m)
      /\ next \in Nat
  BY OrderFacts
<1>2. CASE UNCHANGED <<ingested, next>>
  <2>1. Waiting' = Waiting
    BY <1>2 DEF Waiting
  <2> QED  BY <1>1, <1>2, <2>1 DEF OrderInv, Ascending, Precedes
<1>3. CASE ingested' = <<>> /\ next' = 0
  <2>1. Range(ingested') = {} /\ Len(ingested') = 0
    BY <1>3, RangeEmpty
  <2>2. Ascending(ingested)'
    BY <2>1 DEF Ascending
  <2>3. Precedes(Range(state), Waiting)'
    <3>3. Waiting' = {}
      BY <1>3, <2>1 DEF Waiting
    <3> QED  BY <3>3 DEF Precedes
  <2> QED  BY <1>1, <2>1, <2>2, <2>3 DEF OrderInv, Ascending, Precedes
<1> QED  BY <1>2, <1>3

LEMMA DrainOrder ==
  ASSUME Types, QueueInv, OrderInv, DrainOnce
  PROVE  OrderInv'
<1>1. /\ pc = "drain" /\ items # <<>> /\ items' = Tail(items)
      /\ coalesced' = (IF Head(items) = Marker THEN Marker ELSE coalesced)
      /\ UNCHANGED <<kinds, owned, ingested, next, state>>
      /\ hand' = Popped \/ hand' = hand
  BY DEF DrainOnce, stateVars
<1> SUFFICES ASSUME owned PROVE OrderInv'
  BY <1>1 DEF OrderInv
<1>2. /\ \A m : IsTick(m)' <=> IsTick(m)
      /\ ~IsTick(Marker) /\ next \in Nat
      /\ items \in Seq(Seen \cup {Marker})
  BY <1>1, OrderFacts
<1>3. /\ Popped = (IF Head(items) = Marker THEN coalesced ELSE Head(items))
      /\ Range(items) = {Head(items)} \cup Range(items')
      /\ items' \in Seq(Seen \cup {Marker})
      /\ \A i \in 1 .. Len(items') : items'[i] = items[i + 1] /\ i + 1 \in 1 .. Len(items)
      /\ Len(items') \in Nat
  BY <1>1, PoppedIs
<1>4. hand = Marker
  BY <1>1 DEF QueueInv
<1>5. IsTick(hand') => hand' = Head(items)
  BY <1>1, <1>2, <1>3, <1>4 DEF OrderInv
<1>6. Ascending(state)' /\ Ascending(ingested)' /\ Precedes(Range(state), Waiting)'
  <2>1. Waiting' = Waiting
    BY <1>1 DEF Waiting
  <2> QED  BY <1>1, <1>2, <2>1 DEF OrderInv, Ascending, Precedes
<1>7. Ascending(items)'
  <2>1. \A i, j \in 1 .. Len(items') : i < j => i + 1 < j + 1
    BY <1>3
  <2> QED  BY <1>2, <1>3, <2>1 DEF OrderInv, Ascending
<1>8. Precedes(Range(state) \cup Range(ingested), Range(items) \cup {hand})'
  BY <1>1, <1>2, <1>3, <1>5 DEF OrderInv, Precedes
<1>9. Precedes({hand}, Range(items))'
  <2>1. ASSUME NEW k \in Range(items'), IsTick(Head(items)), IsTick(k)  PROVE Head(items) < k
    <3>1. PICK i \in 1 .. Len(items') : items'[i] = k
      BY <1>3, RangeIs
    <3>2. 1 \in 1 .. Len(items) /\ i + 1 \in 1 .. Len(items) /\ 1 < i + 1 /\ items[i + 1] = k /\ Head(items) = items[1]
      BY <1>1, <1>2, <1>3, <3>1
    <3> QED  BY <2>1, <3>2 DEF OrderInv, Ascending
  <2> QED  BY <1>2, <1>5, <2>1 DEF Precedes
<1>10. ~IsTick(Marker)' /\ ~IsTick(coalesced)'
  BY <1>1, <1>2 DEF OrderInv
<1> QED  BY <1>6, <1>7, <1>8, <1>9, <1>10 DEF OrderInv

LEMMA PublishOrder ==
  ASSUME Types, QueueInv, OrderInv, NEW attempt \in Attempts, Publish(attempt)
  PROVE  OrderInv'
<1>1. /\ UNCHANGED <<kinds, owned, items, coalesced, next, state>> /\ pc = "publish"
      /\ \/ ingested' = Append(ingested, hand) /\ hand' = Marker
         \/ ingested' = ingested /\ (hand' = hand \/ hand' = Marker)
  BY DEF Publish, Acknowledged, Retry, GiveUp, queueVars, stateVars
<1> SUFFICES ASSUME owned PROVE OrderInv'
  BY <1>1 DEF OrderInv
<1>2. /\ \A m : IsTick(m)' <=> IsTick(m)
      /\ ~IsTick(Marker) /\ next = 0
      /\ ingested \in Seq(Seen) /\ hand \in Seen /\ Waiting \subseteq Range(ingested)
  BY <1>1, OrderFacts DEF QueueInv, Types, LoopTypes
<1>3. CASE ingested' = ingested /\ (hand' = hand \/ hand' = Marker)
  <2>1. Waiting' = Waiting
    BY <1>1, <1>3 DEF Waiting
  <2> QED  BY <1>1, <1>2, <1>3, <2>1 DEF OrderInv, Ascending, Precedes
<1>4. CASE ingested' = Append(ingested, hand) /\ hand' = Marker
  <2>1. Precedes(Range(ingested), {hand})
    BY DEF OrderInv, Precedes
  <2>2. Ascending(Append(ingested, hand))
    BY <1>2, <2>1, AscendingAppend DEF OrderInv
  <2>3. Ascending(ingested)'
    BY <1>2, <1>4, <2>2 DEF Ascending
  <2>4. Range(ingested') = Range(ingested) \cup {hand}
    BY <1>2, <1>4, RangeAppend
  <2>5. Waiting' \subseteq Waiting \cup {hand}
    <3>1. /\ Len(ingested) \in Nat /\ Len(ingested') = Len(ingested) + 1
          /\ \A i \in 1 .. Len(ingested) : ingested'[i] = ingested[i]
          /\ ingested'[Len(ingested) + 1] = hand
      BY <1>2, <1>4, AppendProperties
    <3>2. \A i \in 1 .. Len(ingested') : i \in 1 .. Len(ingested) \/ i = Len(ingested) + 1
      BY <3>1
    <3> QED  BY <1>1, <1>2, <3>1, <3>2 DEF Waiting
  <2>6. Precedes(Range(state), Waiting)'
    BY <1>1, <1>2, <2>5 DEF OrderInv, Precedes
  <2>7. Ascending(state)' /\ Ascending(items)' /\ ~IsTick(Marker)' /\ ~IsTick(coalesced)'
    BY <1>1, <1>2 DEF OrderInv, Ascending
  <2>8. Precedes(Range(state) \cup Range(ingested), Range(items) \cup {hand})'
    BY <1>1, <1>2, <1>4, <2>4 DEF OrderInv, Precedes
  <2>9. Precedes({hand}, Range(items))'
    BY <1>2, <1>4 DEF Precedes
  <2> QED  BY <2>3, <2>6, <2>7, <2>8, <2>9 DEF OrderInv
<1> QED  BY <1>1, <1>3, <1>4

LEMMA ProcessOrder ==
  ASSUME Types, QueueInv, OwnedInv, OrderInv, Process
  PROVE  OrderInv'
<1>1. /\ UNCHANGED <<kinds, owned, items, coalesced, hand, ingested>> /\ pc = "process"
      /\ next' = next + 1 /\ next < Len(batch)
      /\ state' = state \/ state' = Append(state, batch[next + 1].id)
  BY DEF Process, queueVars
<1> SUFFICES ASSUME owned PROVE OrderInv'
  BY <1>1 DEF OrderInv
<1>2. /\ \A m : IsTick(m)' <=> IsTick(m)
      /\ ~IsTick(Marker) /\ next \in Nat
      /\ state \in Seq(Seen) /\ ingested \in Seq(Seen) /\ Waiting \subseteq Range(ingested)
  BY <1>1, OrderFacts
<1> DEFINE n == ingested[next + 1]
<1>3. /\ next + 1 \in 1 .. Len(ingested) /\ next + 1 \in next + 1 .. Len(ingested) /\ n = batch[next + 1].id
      /\ Len(ingested) \in Nat
  <2>1. Len(batch) = Len(ingested) /\ \A i \in 1 .. Len(batch) : batch[i].id = ingested[i]
    BY <1>1 DEF OwnedInv
  <2> QED  BY <1>1, <1>2, <2>1
<1>4. n \in Seen /\ n \in Waiting /\ n \in Range(ingested)
  BY <1>2, <1>3, ElementOfSeq DEF Waiting
<1>5. Waiting' \subseteq Waiting /\ \A m \in Waiting' : IsTick(n) /\ IsTick(m) => n < m
  <2>1. \A i \in next' + 1 .. Len(ingested') :
          i \in next + 1 .. Len(ingested) /\ i \in 1 .. Len(ingested) /\ next + 1 < i
    <3>1. Len(ingested') = Len(ingested) /\ next' + 1 = next + 2
      BY <1>1, <1>2
    <3> HIDE DEF n
    <3> QED  BY <1>2, <1>3, <3>1
  <2> QED  BY <1>1, <1>3, <2>1 DEF OrderInv, Ascending, Waiting
<1> HIDE DEF n
<1>6. Ascending(ingested)' /\ Ascending(items)' /\ ~IsTick(Marker)' /\ ~IsTick(coalesced)'
      /\ Precedes({hand}, Range(items))'
  BY <1>1, <1>2 DEF OrderInv, Ascending, Precedes
<1>7. CASE state' = state
  <2>1. Ascending(state)'
    BY <1>2, <1>7 DEF OrderInv, Ascending
  <2>2. Precedes(Range(state), Waiting)' /\ Precedes(Range(state) \cup Range(ingested), Range(items) \cup {hand})'
    BY <1>1, <1>2, <1>5, <1>7 DEF OrderInv, Precedes
  <2> QED  BY <1>6, <2>1, <2>2 DEF OrderInv
<1>8. CASE state' = Append(state, n)
  <2>1. Ascending(Append(state, n))
    <3>1. Precedes(Range(state), {n})
      BY <1>4 DEF OrderInv, Precedes
    <3> QED  BY <1>2, <1>4, <3>1, AscendingAppend DEF OrderInv
  <2>2. Ascending(state)'
    BY <1>2, <1>8, <2>1 DEF Ascending
  <2>3. Range(state') = Range(state) \cup {n}
    BY <1>2, <1>4, <1>8, RangeAppend
  <2>4. Precedes(Range(state), Waiting)'
    BY <1>2, <1>5, <2>3 DEF OrderInv, Precedes
  <2>5. Precedes(Range(state) \cup Range(ingested), Range(items) \cup {hand})'
    BY <1>1, <1>2, <1>4, <2>3 DEF OrderInv, Precedes
  <2> QED  BY <1>6, <2>2, <2>4, <2>5 DEF OrderInv
<1> QED  BY <1>1, <1>3, <1>7, <1>8

\* Without a process nothing waits, so that either state recovered is fine.
LEMMA RestOrder ==
  ASSUME Types, kinds' = kinds, Range(items') = {}, Len(items') = 0, Range(ingested') = {}, Len(ingested') = 0,
         next' = 0, hand' = Marker, coalesced' = Marker, Ascending(state')
  PROVE  OrderInv'
<1>1. /\ \A m : IsTick(m)' <=> IsTick(m)
      /\ ~IsTick(Marker)
  BY OrderFacts
<1>2. Ascending(state)'
  BY <1>1 DEF Ascending
<1>3. Ascending(ingested)' /\ Ascending(items)'
  BY DEF Ascending
<1>4. Waiting' = {}
  BY DEF Waiting
<1> QED  BY <1>1, <1>2, <1>3, <1>4 DEF OrderInv, Precedes

LEMMA StepOrder ==
  ASSUME Types, Types', QueueInv, OwnedInv, OrderInv, [Next]_vars
  PROVE  OrderInv'
<1>1. CASE Operator \/ UNCHANGED vars
  <2>1. UNCHANGED <<kinds, owned, items, coalesced, hand, state, ingested, next>>
    BY <1>1 DEF Operator, LoadSpool, ReplayRecord, ReplayDone, OperatorStops, queueVars, loopVars, stateVars, vars
  <2> QED  BY <2>1, QuietOrder
<1>2. CASE TakeIngested
  <2>1. UNCHANGED <<kinds, owned, items, coalesced, hand, state, ingested, next>>
    BY <1>2 DEF TakeIngested, Drained, QueueInv, queueVars, stateVars
  <2> QED  BY <2>1, QuietOrder
<1>3. CASE Poll
  BY <1>3 DEF Poll, OrderInv
<1>4. CASE Commit
  <2>1. UNCHANGED <<kinds, owned, items, coalesced, hand, state, ingested, next>>
    BY <1>4 DEF Commit, queueVars, stateVars
  <2> QED  BY <2>1, QuietOrder
<1>5. CASE Persist
  <2>1. UNCHANGED <<kinds, owned, items, coalesced, hand, state>> /\ ingested' = <<>> /\ next' = 0
    BY <1>5 DEF Persist, queueVars
  <2> QED  BY <2>1, QuietOrder
<1>6. CASE Crash
  <2>1. /\ kinds' = kinds /\ items' = <<>> /\ ingested' = <<>> /\ next' = 0 /\ hand' = Marker /\ coalesced' = Marker
        /\ state' = state /\ owned' = owned
    BY <1>6 DEF Crash, stateVars
  <2>2. owned => Ascending(state')
    BY <2>1 DEF OrderInv
  <2>3. Len(<<>>) = 0
    OBVIOUS
  <2>4. owned => OrderInv'
    BY <2>1, <2>2, <2>3, RangeEmpty, RestOrder
  <2> QED  BY <2>1, <2>4 DEF OrderInv
<1>7. CASE Restart
  <2>1. /\ kinds' = kinds /\ items' = <<>> /\ ingested' = <<>> /\ next' = 0 /\ hand' = Marker /\ coalesced' = Marker
        /\ owned' = owned /\ (state' = state \/ state' = Replayed)
    <3>1. pc = "down" /\ items = <<>> /\ ingested = <<>> /\ next = 0 /\ hand = Marker
      BY <1>7 DEF Restart, QueueInv
    <3>2. coalesced = Marker
      BY <3>1, RangeEmpty DEF QueueInv
    <3> QED  BY <1>7, <3>1, <3>2 DEF Restart, queueVars
  <2>2. Ascending(Replayed)
    BY ReplayedIs DEF Ascending
  <2>3. owned => Ascending(state')
    BY <2>1, <2>2 DEF OrderInv
  <2>4. Len(<<>>) = 0
    OBVIOUS
  <2>5. owned => OrderInv'
    BY <2>1, <2>3, <2>4, RangeEmpty, RestOrder
  <2> QED  BY <2>1, <2>5 DEF OrderInv
<1> QED  BY <1>1, <1>2, <1>3, <1>4, <1>5, <1>6, <1>7, ReceiveOrder, DrainOrder, PublishOrder, ProcessOrder
         DEF Next, Loop

-----------------------------------------------------------------------------
(* The theorems.                                                           *)

Inv == Types /\ QueueInv /\ SpoolInv

LEMMA InitInv == Init => Inv
<1>1. Init => SpoolInv
  BY RangeEmpty DEF Init, SpoolInv
<1> QED  BY <1>1, InitTypes DEF Inv

LEMMA StepInv == Inv /\ [Next]_vars => Inv'
BY StepTypes, StepGrows DEF Inv

LEMMA InitOrder == Init => OrderInv
<1> SUFFICES ASSUME Init PROVE OrderInv
  OBVIOUS
<1>1. Range(<<>>) = {} /\ Len(<<>>) = 0
  BY RangeEmpty
<1>2. ~IsTick(Marker)
  BY InitTypes, MarkerIsNoTick
<1>3. Waiting = {}
  BY <1>1 DEF Init, Waiting
<1> QED  BY <1>1, <1>2, <1>3 DEF Init, OrderInv, Ascending, Precedes

LEMMA InitOffsets == Init => Offsets
<1> SUFFICES ASSUME Init PROVE Offsets
  OBVIOUS
<1>1. Range(<<>>) = {} /\ Len(<<>>) = 0
  BY RangeEmpty
<1>2. OffsetInv
  BY <1>1 DEF Init, OffsetInv
<1>3. OwnedInv
  BY <1>1 DEF Init, OwnedInv
<1>4. PolledInv
  BY <1>1 DEF Init, PolledInv
<1> QED  BY <1>2, <1>3, <1>4 DEF Offsets

\* The runtime that owns its path has the invariant of the offset whatever the
\* consumer it does not use would poll.
LEMMA StepOwned ==
  ASSUME Inv, owned => Offsets, [Next]_vars
  PROVE  owned' => Offsets'
<1>1. owned' = owned
  BY StepGrows DEF Inv
<1>2. owned => Offsets'
  BY StepOffsets DEF Inv
<1> QED  BY <1>1, <1>2

\* The offset at the broker covers no record nobody has handled, in crashes,
\* late deliveries, refused commits and replays by the operator, also beside
\* the runtime.  A consumer that polls must not fetch more than the tick keeps:
\* the runtime, which owns its path in production, never polls.
THEOREM CommittedIsHandled ==
  ASSUME FALSE \in Modes => PollMax <= MaxRaw
  PROVE  Spec => []OffsetCovered
<1>1. Init => Inv /\ Offsets
  BY InitInv, InitOffsets
<1>2. Inv /\ Offsets /\ [Next]_vars => (Inv /\ Offsets)'
  <2> SUFFICES ASSUME Inv, Offsets, [Next]_vars PROVE (Inv /\ Offsets)'
    OBVIOUS
  <2>1. Inv'
    BY StepInv
  <2>2. owned \/ PollMax <= MaxRaw
    <3>1. owned \in BOOLEAN /\ owned \in Modes
      BY BoundsAssumption DEF Inv, Types, LoopTypes
    <3>2. ~owned => owned = FALSE
      BY <3>1
    <3> QED  BY <3>1, <3>2
  <2>3. Offsets'
    BY <2>2, StepOffsets DEF Inv
  <2> QED  BY <2>1, <2>3
<1>3. Inv /\ Offsets => OffsetCovered
  BY DEF Offsets, OffsetInv, OffsetCovered, Covered
<1> QED  BY <1>1, <1>2, <1>3, PTL DEF Spec

\* Nothing the consumer knows of the topic is beyond its end.
PositionInv ==
  /\ position <= Len(log) /\ brokerOffset <= Len(log)
  /\ \A i \in 1 .. Len(batch) : batch[i].offset <= Len(log)

LEMMA StepPosition ==
  ASSUME Inv, Inv', owned => Offsets, PositionInv, [Next]_vars
  PROVE  PositionInv'
<1>0. Types
  BY DEF Inv
<1>1. Len(log) \in Nat /\ Len(log') \in Nat /\ Len(log) <= Len(log') /\ owned' = owned
  BY StepGrows DEF Inv
<1>2. /\ position \in Nat /\ brokerOffset \in Nat /\ batch \in Seq(Records) /\ Len(batch) \in Nat
      /\ ingested \in Seq(Seen) /\ Len(ingested) \in Nat
  <2>1. /\ position \in Nat /\ brokerOffset \in Nat /\ batch \in Seq(Records)
        /\ ingested \in Seq(Seen)
    BY <1>0 DEF Types, StoreTypes, LoopTypes
  <2> QED  BY <2>1, LenProperties
<1>3. \A i \in 1 .. Len(batch) : batch[i].offset \in Nat
  <2> SUFFICES ASSUME NEW i \in 1 .. Len(batch) PROVE batch[i].offset \in Nat
    OBVIOUS
  <2>1. batch[i] \in Records
    BY <1>2, ElementOfSeq
  <2> QED  BY <2>1 DEF Records
<1>4. brokerOffset <= Len(log') /\ position <= Len(log') /\ \A i \in 1 .. Len(batch) : batch[i].offset <= Len(log')
  BY <1>1, <1>2, <1>3 DEF PositionInv
<1>5. CASE UNCHANGED <<position, brokerOffset, batch>>
  BY <1>4, <1>5 DEF PositionInv
<1>6. CASE UNCHANGED <<position, brokerOffset>> /\ batch' = <<>>
  <2>1. Len(<<>>) = 0
    OBVIOUS
  <2> QED  BY <1>4, <1>6, <2>1 DEF PositionInv
<1>7. CASE TakeIngested
  <2>1. batch' = [i \in 1 .. Len(ingested) |-> [id |-> ingested[i], offset |-> 0]]
        /\ UNCHANGED <<position, brokerOffset, log>>
    BY <1>7 DEF TakeIngested, brokerVars
  <2>2. batch' \in [1 .. Len(ingested) -> {[id |-> ingested[i], offset |-> 0] : i \in 1 .. Len(ingested)}]
    BY <2>1
  <2>3. Len(batch') = Len(ingested)
    BY <1>2, <2>2, FunctionIsSeq
  <2>4. \A i \in 1 .. Len(batch') : batch'[i].offset = 0
    BY <2>1, <2>3
  <2>5. 0 <= Len(log')
    BY <1>1
  <2> QED  BY <1>4, <2>1, <2>4, <2>5 DEF PositionInv
<1>8. CASE Poll
  <2>1. PICK n \in 0 .. PollMax :
          /\ position + n <= Len(log) /\ position' = position + n
          /\ batch' = [i \in 1 .. (IF n < MaxRaw THEN n ELSE MaxRaw) |->
                         [id |-> log[position + i], offset |-> position + i]]
    BY <1>8 DEF Poll
  <2> DEFINE k == IF n < MaxRaw THEN n ELSE MaxRaw
  <2>2. k \in Nat /\ k <= n /\ n \in Nat
    <3>1. MaxRaw \in Nat /\ PollMax \in Nat
      BY BoundsAssumption
    <3> QED  BY <3>1
  <2> HIDE DEF k
  <2>3. batch' = [i \in 1 .. k |-> [id |-> log[position + i], offset |-> position + i]]
    BY <2>1 DEF k
  <2>4. batch' \in [1 .. k -> {[id |-> log[position + i], offset |-> position + i] : i \in 1 .. k}]
    BY <2>3
  <2>5. Len(batch') = k
    BY <2>2, <2>4, FunctionIsSeq
  <2>6. \A i \in 1 .. Len(batch') : batch'[i].offset = position + i
    BY <2>3, <2>5
  <2>7. \A i \in 1 .. k : position + i <= Len(log)
    BY <1>1, <1>2, <2>1, <2>2
  <2>8. log' = log /\ brokerOffset' = brokerOffset
    BY <1>8 DEF Poll
  <2> QED  BY <1>4, <2>1, <2>5, <2>6, <2>7, <2>8 DEF PositionInv
<1>9. CASE Commit
  <2>1. UNCHANGED <<batch, log, position>>
    BY <1>9 DEF Commit
  <2>2. brokerOffset' <= Len(log')
    <3>1. CASE owned
      BY <3>1, <1>1, StepOwned DEF Offsets, OffsetInv
    <3>2. CASE ~owned
      <4>1. brokerOffset' = brokerOffset \/ (batch # <<>> /\ brokerOffset' = batch[Len(batch)].offset)
        BY <1>9, <3>2 DEF Commit
      <4>2. batch # <<>> => Len(batch) \in 1 .. Len(batch)
        BY <1>2
      <4> QED  BY <1>4, <4>1, <4>2
    <3> QED  BY <3>1, <3>2
  <2> QED  BY <1>4, <2>1, <2>2 DEF PositionInv
<1>10. CASE Restart
  <2>1. UNCHANGED <<batch, log, brokerOffset>> /\ position' = brokerOffset
    BY <1>10 DEF Restart
  <2> QED  BY <1>4, <2>1 DEF PositionInv
<1>11. CASE Crash \/ Persist
  BY <1>11, <1>6 DEF Crash, Persist, brokerVars
<1>12. CASE Operator \/ DrainOnce \/ Process \/ (\E attempt \in Attempts : Publish(attempt))
            \/ (\E kind \in Kinds : ReceiveCallback(kind)) \/ UNCHANGED vars
  BY <1>12, <1>5 DEF Operator, LoadSpool, ReplayRecord, ReplayDone, OperatorStops, DrainOnce, Process, Publish,
                     ReceiveCallback, loopVars, brokerVars, vars
<1> QED  BY <1>7, <1>8, <1>9, <1>10, <1>11, <1>12 DEF Next, Loop

\* Every variable holds what the code keeps there, and the consumer stands
\* nowhere beyond the end of the topic.
THEOREM PathTypeCorrect == Spec => []TypeOK
<1> DEFINE I == Inv /\ (owned => Offsets) /\ PositionInv
<1>1. Init => I
  <2>1. Init => PositionInv
    <3>1. Len(<<>>) = 0
      OBVIOUS
    <3> QED  BY <3>1 DEF Init, PositionInv
  <2> QED  BY <2>1, InitInv, InitOffsets
<1>2. I /\ [Next]_vars => I'
  BY StepInv, StepOwned, StepPosition
<1>3. I => TypeOK
  <2> SUFFICES ASSUME I PROVE TypeOK
    OBVIOUS
  <2>1. Types /\ QueueInv /\ position <= Len(log)
    BY DEF Inv, PositionInv
  <2>2. Len(kinds) \in Nat /\ MaxCallbacks \in Nat /\ Len(kinds) <= MaxCallbacks
    BY <2>1, BoundsAssumption DEF Types, QueueTypes
  <2>3. Seen \subseteq Callbacks
    BY <2>2 DEF Seen, Callbacks
  <2>4. Seq(Seen) \subseteq Seq(Callbacks) /\ Seq(Seen \cup {Marker}) \subseteq Seq(Callbacks \cup {Marker})
    BY <2>3, SeqMonotonic
  <2>5. position \in 0 .. Len(log)
    <3>1. position \in Nat /\ Len(log) \in Nat
      BY <2>1 DEF Types, StoreTypes
    <3> QED  BY <2>1, <3>1
  <2>6. /\ kinds \in Seq(Kinds) /\ Len(kinds) <= MaxCallbacks
        /\ items \in Seq(Callbacks \cup {Marker}) /\ Len(items) <= QueueSize
        /\ (coalesced # Marker) = (Marker \in Range(items))
        /\ rejections \cup superseded \subseteq Callbacks
    BY <2>1, <2>3, <2>4 DEF Types, QueueTypes, QueueInv
  <2>7. /\ pc \in {"down", "drain", "publish", "process", "persist"}
        /\ (hand # Marker) = (pc = "publish")
        /\ tries \in 0 .. Retries /\ next \in 0 .. Len(batch)
        /\ ingested \in Ids /\ Len(ingested) <= MaxRaw /\ Len(batch) <= MaxRaw
    BY <2>1, <2>4 DEF Types, LoopTypes, QueueInv, Ids
  <2>8. /\ log \in Ids /\ {state, rawFile} \subseteq Ids
        /\ offset \in Nat /\ brokerOffset \in Nat
        /\ {spoolFile, opRecords} \subseteq Ids
        /\ handled \cup lost \subseteq Callbacks
        /\ crashes \in 0 .. MaxCrashes /\ replays \in 0 .. MaxReplays /\ opIndex \in -1 .. Len(opRecords)
    BY <2>1, <2>3, <2>4 DEF Types, StoreTypes, Ids
  <2> QED  BY <2>5, <2>6, <2>7, <2>8 DEF TypeOK
<1> QED  BY <1>1, <1>2, <1>3, PTL DEF Spec

\* The runtime that owns its path counts each trade once and in the order of
\* the callbacks, whatever is retried, delivered late, lost or recovered.
THEOREM TradesInOrder == Spec => []TicksOnceInOrder
<1> DEFINE I == Inv /\ (owned => Offsets) /\ OrderInv
<1>1. Init => I
  BY InitInv, InitOffsets, InitOrder
<1>2. I /\ [Next]_vars => I'
  <2> SUFFICES ASSUME I, [Next]_vars PROVE I'
    OBVIOUS
  <2>1. Inv' /\ (owned' => Offsets') /\ owned' = owned
    BY StepInv, StepOwned, StepGrows DEF Inv
  <2>2. owned => OrderInv'
    BY <2>1, StepOrder DEF Inv, Offsets
  <2> QED  BY <2>1, <2>2 DEF OrderInv
<1>3. I => TicksOnceInOrder
  BY DEF OrderInv, Ascending, TicksOnceInOrder
<1> QED  BY <1>1, <1>2, <1>3, PTL DEF Spec

=============================================================================
