---------------------------- MODULE HashMapProofs ----------------------------
(***************************************************************************)
(* Proofs about HashMap for every set of keys, every hash function, every  *)
(* least capacity, and tables of any size.                                 *)
(***************************************************************************)
EXTENDS HashMap, TLAPS, FiniteSetTheorems, SequenceTheorems, WellFoundedInduction

(* A set of naturals that is not empty has a least element. *)
LEMMA MinNat ==
  ASSUME NEW S \in SUBSET Nat, S # {}
  PROVE  Min(S) \in S /\ \A x \in S : Min(S) <= x
<1>1. IsWellFoundedOn(OpToRel(<, Nat), Nat)
  BY NatLessThanWellFounded
<1>2. PICK x \in S : \A y \in S : ~(<<y, x>> \in OpToRel(<, Nat))
  BY <1>1, WFMin, Zenon
<1>3. ASSUME NEW y \in S
      PROVE  x <= y
  <2>1. x \in Nat /\ y \in Nat
    OBVIOUS
  <2>2. ~(<<y, x>> \in OpToRel(<, Nat))
    BY <1>2, Zenon
  <2>3. ~(y < x)
    BY <2>1, <2>2 DEF OpToRel
  <2>4. QED
    BY <2>1, <2>3
<1>4. QED
  BY <1>3 DEF Min

-----------------------------------------------------------------------------
(* The probes for a key visit every slot. *)
LEMMA ProbeSlots ==
  ASSUME NEW k \in Key, capacity \in Nat \ {0}
  PROVE  /\ \A d \in Slots : Probe(k, d) \in Slots
         /\ \A i \in Slots : \E d \in Slots : Probe(k, d) = i
<1> DEFINE s == Hash[k] % capacity
<1>1. s \in 0 .. capacity - 1
  BY HashMapAssumption
<1>2. \A d : Probe(k, d) = IF s + d < capacity THEN s + d ELSE s + d - capacity
  BY DEF Probe
<1> HIDE DEF s
<1>3. \A d \in Slots : Probe(k, d) \in Slots
  BY <1>1, <1>2 DEF Slots
<1>4. ASSUME NEW i \in Slots
      PROVE  \E d \in Slots : Probe(k, d) = i
  <2> DEFINE d == IF i >= s THEN i - s ELSE i - s + capacity
  <2>1. d \in Slots /\ (IF s + d < capacity THEN s + d ELSE s + d - capacity) = i
    BY <1>1 DEF Slots
  <2>2. QED
    BY <1>2, <2>1
<1>5. QED
  BY <1>3, <1>4

-----------------------------------------------------------------------------
(* The slots on the way to a probe have all been used. *)
Reached(k, d) == \A e \in 0 .. d - 1 : At(k, e) # Empty

(* A key is where its probes lead, and in one slot only. *)
Placed ==
  \A i \in Used : \E d \in Slots :
    Probe(entries[i].key, d) = i /\ Reached(entries[i].key, d)

Unique == \A i, j \in Used : entries[i].key = entries[j].key => i = j

(* What _mapFindEntry() finds, in a table with a slot that has no key. *)
LEMMA FindEntrySpec ==
  ASSUME TypeOK, Placed, capacity # 0, NEW k \in Key,
         \E i \in Slots : entries[i].key = Undef
  PROVE  /\ FindEntry(k) \in Slots
         /\ Found(k) <=> \E i \in Used : entries[i].key = k
         /\ Found(k) => entries[FindEntry(k)].key = k
         /\ ~Found(k) => entries[FindEntry(k)].key = Undef
         /\ \E d \in Slots : Probe(k, d) = FindEntry(k) /\ Reached(k, d)
         /\ Stops(k) # {} \/ Tombs(k) # {}
<1> USE HashMapAssumption
<1>1. capacity \in Nat \ {0} /\ entries \in [Slots -> Slot] /\ Slots \subseteq Nat
  BY DEF TypeOK, Slot, Slots
<1>2. /\ \A d \in Slots : Probe(k, d) \in Slots
      /\ \A i \in Slots : \E d \in Slots : Probe(k, d) = i
  BY <1>1, ProbeSlots
<1>3. \A d \in Slots : At(k, d) \in Slot /\ At(k, d) = entries[Probe(k, d)]
  BY <1>1, <1>2 DEF At
<1>4. \A x \in Slot : x.key = Undef => x = Tombstone \/ x = Empty
  BY DEF Slot, Entry
<1>5. Tombstone.key = Undef /\ Empty.key = Undef /\ Undef # k /\ Tombstone # Empty
  BY DEF Tombstone, Empty
<1>6. Stops(k) \in SUBSET Nat /\ Tombs(k) \in SUBSET Nat /\ Tombs(k) \subseteq Slots
  BY <1>1 DEF Stops, Tombs, Passed
<1>7. CASE Stops(k) = {}
  <2>1. \A d \in Slots : d \in Passed(k) /\ At(k, d) # Empty /\ At(k, d).key # k
    BY <1>7 DEF Passed, Stops
  <2>2. PICK i \in Slots : entries[i].key = Undef
    OBVIOUS
  <2>3. PICK d \in Slots : Probe(k, d) = i
    BY <1>2
  <2>4. At(k, d) = Tombstone
    BY <1>3, <1>4, <2>1, <2>2, <2>3
  <2>5. Tombs(k) # {}
    BY <2>1, <2>4 DEF Tombs
  <2>6. Min(Tombs(k)) \in Tombs(k)
    BY <1>6, <2>5, MinNat
  <2>7. ~Found(k) /\ FindEntry(k) = Probe(k, Min(Tombs(k)))
    BY <1>7, <2>5 DEF Found, FindEntry
  <2>8. Min(Tombs(k)) \in Slots /\ At(k, Min(Tombs(k))) = Tombstone
    BY <1>6, <2>6 DEF Tombs
  <2>9. Reached(k, Min(Tombs(k)))
    <3>1. \A e \in 0 .. Min(Tombs(k)) - 1 : e \in Slots
      BY <1>1, <2>8 DEF Slots
    <3>2. QED
      BY <2>1, <3>1 DEF Reached
  <2>10. ~\E j \in Used : entries[j].key = k
    <3> SUFFICES ASSUME NEW j \in Slots, entries[j].key = k
                 PROVE  FALSE
      BY DEF Used
    <3>1. PICK c \in Slots : Probe(k, c) = j
      BY <1>2
    <3>2. QED
      BY <1>3, <2>1, <3>1
  <2>11. QED
    BY <1>2, <1>3, <1>5, <2>5, <2>7, <2>8, <2>9, <2>10
<1>8. CASE Stops(k) # {}
  <2> DEFINE m == Min(Stops(k))
  <2>1. m \in Stops(k) /\ \A x \in Stops(k) : m <= x
    BY <1>6, <1>8, MinNat
  <2> HIDE DEF m
  <2>2. m \in Slots /\ (At(k, m).key = k \/ At(k, m) = Empty)
    BY <2>1 DEF Stops
  <2>3. \A d \in 0 .. m - 1 : d \in Slots /\ At(k, d) # Empty /\ At(k, d).key # k
    <3> SUFFICES ASSUME NEW d \in 0 .. m - 1
                 PROVE  d \in Slots /\ d \notin Stops(k)
      BY DEF Stops
    <3>1. QED
      BY <1>1, <1>6, <2>1, <2>2 DEF Slots
  <2>4. Reached(k, m)
    BY <2>3 DEF Reached
  <2>5. Found(k) <=> At(k, m).key = k
    BY <1>8 DEF Found, m
  <2>6. Found(k) => FindEntry(k) = Probe(k, m)
    BY DEF FindEntry, m
  <2>7. CASE Found(k)
    BY <1>2, <1>3, <1>5, <1>8, <2>2, <2>4, <2>5, <2>6, <2>7 DEF Used
  <2>8. CASE ~Found(k)
    <3>1. At(k, m) = Empty
      BY <2>2, <2>5, <2>8
    <3>2. ~\E j \in Used : entries[j].key = k
      <4> SUFFICES ASSUME NEW j \in Used, entries[j].key = k
                   PROVE  FALSE
        OBVIOUS
      <4>1. PICK c \in Slots : Probe(k, c) = j /\ Reached(k, c)
        BY DEF Placed
      <4>2. c \in Stops(k) /\ j \in Slots
        BY <1>3, <4>1 DEF Stops, Used
      <4>3. m <= c /\ m # c
        BY <1>3, <1>5, <2>1, <3>1, <4>1, <4>2
      <4>4. m \in 0 .. c - 1
        BY <1>1, <2>2, <4>3
      <4>5. QED
        BY <3>1, <4>1, <4>4 DEF Reached
    <3>3. CASE Tombs(k) = {}
      <4>1. FindEntry(k) = Probe(k, m)
        BY <3>3 DEF FindEntry, m
      <4>2. QED
        BY <1>2, <1>3, <1>5, <1>8, <2>2, <2>4, <2>8, <3>1, <3>2, <4>1
    <3>4. CASE Tombs(k) # {}
      <4> DEFINE t == Min(Tombs(k))
      <4>1. t \in Tombs(k)
        BY <1>6, <3>4, MinNat
      <4>2. FindEntry(k) = Probe(k, t)
        BY <2>8, <3>4 DEF FindEntry
      <4> HIDE DEF t
      <4>3. t \in Slots /\ At(k, t) = Tombstone /\ t < m
        BY <1>6, <2>1, <4>1 DEF Tombs, Passed
      <4>4. Reached(k, t)
        <5>1. \A e \in 0 .. t - 1 : e \in 0 .. m - 1
          BY <1>1, <2>2, <4>3
        <5>2. QED
          BY <2>3, <5>1 DEF Reached
      <4>5. QED
        BY <1>2, <1>3, <1>5, <1>8, <2>8, <3>2, <4>2, <4>3, <4>4
    <3>5. QED
      BY <3>3, <3>4
  <2>9. QED
    BY <1>8, <2>7, <2>8
<1>9. QED
  BY <1>7, <1>8

-----------------------------------------------------------------------------
(* The inductive invariant.  What the runs check does not hold of itself:   *)
(* that a probe finds its key needs every slot on the way to have been      *)
(* used, and that the copies of _mapResize() are new keys needs the entries *)
(* still to be copied to be apart from those in the table.                  *)

OldUnique == \A i, j \in Waiting : old[i].key = old[j].key => i = j

Apart == \A i \in Used, j \in Waiting : entries[i].key # old[j].key

Load ==
  /\ phase # "set" => count <= (capacity * MAP_LOAD_PERCENT) \div 100
  /\ phase = "set" => ~AboutToFill

Phases ==
  /\ phase = "idle" => old = NoEntries
  /\ phase = "set" => arg \in Entry
  /\ capacity = 0 => phase = "idle"
  /\ capacity # 0 => capacity >= MIN_CAPACITY

IInv ==
  /\ TypeOK /\ Placed /\ Unique /\ OldUnique /\ Apart
  /\ CountOfEntries /\ Load /\ Phases

(* The entries in the table and those to be copied are finitely many. *)
LEMMA Finite ==
  ASSUME TypeOK
  PROVE  /\ IsFiniteSet(Slots) /\ Cardinality(Slots) = capacity
         /\ IsFiniteSet(Used) /\ Cardinality(Used) \in Nat
         /\ Cardinality(Used) <= capacity
         /\ Cardinality(Used) = capacity => Used = Slots
         /\ IsFiniteSet(Waiting) /\ Cardinality(Waiting) \in Nat
<1>1. IsFiniteSet(Slots) /\ Cardinality(Slots) = capacity
  BY FS_Interval, HashMapAssumption DEF TypeOK, Slots
<1>2. /\ IsFiniteSet(Used) /\ Cardinality(Used) <= Cardinality(Slots)
      /\ Cardinality(Used) = Cardinality(Slots) => Used = Slots
  BY <1>1, FS_Subset DEF Used
<1>3. PICK n \in 0 .. MaxCapacity : old \in [0 .. n - 1 -> Slot]
  BY DEF TypeOK
<1>4. IsFiniteSet(0 .. n - 1)
  BY <1>3, FS_Interval, HashMapAssumption
<1>5. Waiting \subseteq 0 .. n - 1
  BY <1>3 DEF Waiting
<1>6. IsFiniteSet(Waiting)
  BY <1>4, <1>5, FS_Subset
<1>7. QED
  BY <1>1, <1>2, <1>6, FS_CardinalityType

(* There is a slot without a key. *)
LEMMA FreeSlot ==
  ASSUME TypeOK, CountOfEntries, Load, capacity # 0
  PROVE  \E i \in Slots : entries[i].key = Undef
<1>1. count < capacity
  <2>1. capacity \in Nat \ {0} /\ count \in Nat
    BY HashMapAssumption DEF TypeOK
  <2>2. count <= (capacity * 75) \div 100
    BY <2>1 DEF Load, AboutToFill, MAP_LOAD_PERCENT
  <2>3. QED
    BY <2>1, <2>2
<1>2. Used # Slots
  <2>1. Cardinality(Used) # Cardinality(Slots)
    BY <1>1, Finite, HashMapAssumption DEF CountOfEntries, TypeOK
  <2>2. QED
    BY <2>1
<1>3. QED
  BY <1>2 DEF Used

(* A probe that leads to a slot still does when no slot becomes unused. *)
LEMMA StillReached ==
  ASSUME capacity \in Nat \ {0}, capacity' = capacity,
         \A j \in Slots : entries[j] # Empty => entries'[j] # Empty,
         NEW k \in Key, NEW d \in Slots, Reached(k, d)
  PROVE  Slots' = Slots /\ Probe(k, d)' = Probe(k, d) /\ Reached(k, d)'
<1>1. Slots' = Slots
  BY DEF Slots
<1>2. \A e : Probe(k, e)' = Probe(k, e)
  BY DEF Probe
<1>3. \A e \in 0 .. d - 1 : Probe(k, e) \in Slots /\ At(k, e) # Empty
  <2>1. \A e \in 0 .. d - 1 : e \in Slots
    BY DEF Slots
  <2>2. QED
    BY <2>1, ProbeSlots DEF Reached
<1>4. \A e \in 0 .. d - 1 : At(k, e)' # Empty
  BY <1>2, <1>3 DEF At
<1>5. QED
  BY <1>1, <1>2, <1>4 DEF Reached

-----------------------------------------------------------------------------
(* _mapInsertEntry() replaces the value of a key or fills a slot without    *)
(* one, and leaves every key where its probes lead.                         *)
LEMMA InsertKeepsTable ==
  ASSUME TypeOK, Placed, Unique, capacity # 0, capacity' = capacity,
         \E i \in Slots : entries[i].key = Undef,
         NEW k \in Key, NEW v \in Val, Insert(k, v)
  PROVE  /\ entries' \in [Slots -> Slot]
         /\ Placed' /\ Unique'
         /\ Found(k) <=> \E i \in Used : entries[i].key = k
         /\ Found(k) => Cardinality(Used') = Cardinality(Used)
         /\ ~Found(k) => Cardinality(Used') = Cardinality(Used) + 1
         /\ \A i \in Used' : entries'[i].key = k \/ (i \in Used /\ entries'[i] = entries[i])
<1> DEFINE f == FindEntry(k)
<1>1. /\ f \in Slots
      /\ Found(k) <=> \E i \in Used : entries[i].key = k
      /\ Found(k) => entries[f].key = k
      /\ ~Found(k) => entries[f].key = Undef
      /\ \E d \in Slots : Probe(k, d) = f /\ Reached(k, d)
  BY FindEntrySpec
<1>2. entries' = [entries EXCEPT ![f] = [key |-> k, value |-> v]]
  BY DEF Insert
<1> HIDE DEF f
<1>3. /\ capacity \in Nat \ {0} /\ entries \in [Slots -> Slot] /\ Slots' = Slots
      /\ k # Undef /\ [key |-> k, value |-> v] \in Slot
      /\ [key |-> k, value |-> v].key = k /\ [key |-> k, value |-> v] # Empty
  BY HashMapAssumption DEF TypeOK, Slots, Slot, Entry, Empty
<1>4. /\ entries' \in [Slots -> Slot]
      /\ entries'[f] = [key |-> k, value |-> v]
      /\ \A i \in Slots : i # f => entries'[i] = entries[i]
  BY <1>1, <1>2, <1>3
<1>5. /\ Used' = Used \cup {f} /\ f \in Used'
      /\ Found(k) <=> f \in Used
  BY <1>1, <1>3, <1>4 DEF Used
<1>6. \A j \in Slots : entries[j] # Empty => entries'[j] # Empty
  BY <1>3, <1>4
<1>7. Placed'
  <2> SUFFICES ASSUME NEW i \in Used'
               PROVE  \E d \in Slots' : Probe(entries[i].key, d)' = i /\ Reached(entries[i].key, d)'
    BY DEF Placed
  <2>1. PICK j \in Key, d \in Slots : /\ entries'[i].key = j
                                     /\ Probe(j, d) = i /\ Reached(j, d)
    <3>1. CASE i = f
      BY <1>1, <1>3, <1>4, <3>1
    <3>2. CASE i # f
      <4>1. i \in Used /\ i \in Slots /\ entries'[i] = entries[i]
        BY <1>4, <1>5, <3>2 DEF Used
      <4>2. entries[i].key \in Key
        BY <1>3, <4>1 DEF Used, Slot, Entry, Tombstone, Empty
      <4>3. QED
        BY <4>1, <4>2 DEF Placed
    <3>3. QED
      BY <3>1, <3>2
  <2>2. Probe(j, d)' = Probe(j, d) /\ Reached(j, d)'
    BY <1>3, <1>6, <2>1, StillReached
  <2>3. QED
    BY <1>3, <2>1, <2>2 DEF Reached, At, Probe
<1>8. \A i \in Used' : entries'[i].key = k \/ (i \in Used /\ entries'[i] = entries[i])
  BY <1>3, <1>4, <1>5 DEF Used
<1>9. Unique'
  <2> SUFFICES ASSUME NEW i \in Used', NEW j \in Used', entries'[i].key = entries'[j].key
               PROVE  i = j
    BY DEF Unique
  <2>1. \A x \in Used : entries[x].key = k => x = f
    BY <1>1, <1>5 DEF Unique
  <2>2. \A x \in Used' : entries'[x].key = k => x = f
    BY <1>3, <1>4, <1>5, <2>1 DEF Used
  <2>3. QED
    BY <1>8, <2>2 DEF Unique
<1>10. IsFiniteSet(Used) /\ Cardinality(Used) \in Nat
  BY Finite
<1>11. /\ Found(k) => Cardinality(Used') = Cardinality(Used)
       /\ ~Found(k) => Cardinality(Used') = Cardinality(Used) + 1
  <2>1. CASE Found(k)
    <3>1. Used' = Used
      BY <1>5, <2>1
    <3>2. QED
      BY <2>1, <3>1
  <2>2. CASE ~Found(k)
    <3>1. Cardinality(Used \cup {f}) = Cardinality(Used) + 1
      BY <1>5, <1>10, <2>2, FS_AddElement
    <3>2. QED
      BY <1>5, <2>2, <3>1
  <2>3. QED
    BY <2>1, <2>2
<1>12. QED
  BY <1>1, <1>4, <1>7, <1>8, <1>9, <1>11

-----------------------------------------------------------------------------
(* _mapResize() begins with an empty table, and with every entry of the old *)
(* one to be copied.                                                        *)
LEMMA ResizeKeepsEntries ==
  ASSUME TypeOK, NEW c \in 1 .. MaxCapacity, NEW table \in [Slots -> Slot],
         \A i, j \in Slots : table[i].key # Undef /\ table[i].key = table[j].key => i = j,
         Resize(c, table)
  PROVE  /\ entries' \in [Slots' -> Slot] /\ capacity' = c
         /\ \E n \in 0 .. MaxCapacity : old' \in [0 .. n - 1 -> Slot]
         /\ next' \in Nat
         /\ Placed' /\ Unique' /\ OldUnique' /\ Apart'
         /\ Used' = {} /\ Waiting' = {i \in Slots : table[i].key # Undef}
<1>1. /\ entries' = [i \in 0 .. c - 1 |-> Empty] /\ capacity' = c
      /\ old' = table /\ next' = 0
  BY DEF Resize
<1>2. Slots' = 0 .. c - 1 /\ Empty \in Slot /\ Empty.key = Undef
  BY <1>1 DEF Slots, Slot, Empty
<1>3. entries' \in [Slots' -> Slot]
  BY <1>1, <1>2
<1>4. \E n \in 0 .. MaxCapacity : old' \in [0 .. n - 1 -> Slot]
  BY <1>1 DEF TypeOK, Slots
<1>5. Used' = {}
  BY <1>1, <1>2 DEF Used
<1>6. Waiting' = {i \in Slots : table[i].key # Undef}
  BY <1>1 DEF Waiting, Slots
<1>7. OldUnique'
  BY <1>1, <1>6 DEF OldUnique
<1>8. Placed' /\ Unique' /\ Apart'
  BY <1>5 DEF Placed, Unique, Apart
<1>9. QED
  BY <1>1, <1>3, <1>4, <1>5, <1>6, <1>7, <1>8

(* When nothing waits to be copied, the loop of _mapResize() has ended. *)
LEMMA NothingWaiting ==
  ASSUME TypeOK, next \notin DOMAIN old
  PROVE  Waiting = {} /\ Cardinality(Waiting) = 0
<1>1. PICK n \in 0 .. MaxCapacity : old \in [0 .. n - 1 -> Slot]
  BY DEF TypeOK
<1>2. DOMAIN old = 0 .. n - 1 /\ n \in Nat /\ next \in Nat
  BY <1>1 DEF TypeOK
<1>3. Waiting = {}
  BY <1>2 DEF Waiting
<1>4. QED
  BY <1>3, FS_EmptySet

(* Before the first operation. *)
LEMMA InitInvariant == Init => IInv
<1> SUFFICES ASSUME Init
             PROVE  IInv
  OBVIOUS
<1> USE HashMapAssumption DEF Init
<1>1. Slots = {} /\ Used = {} /\ Waiting = {} /\ DOMAIN NoEntries = {}
  BY DEF Slots, Used, Waiting, NoEntries
<1>2. TypeOK
  <2>1. NoEntries \in [Slots -> Slot] /\ NoEntries \in [0 .. 0 - 1 -> Slot]
    BY <1>1 DEF NoEntries
  <2>2. 0 \in 0 .. MaxCapacity
    OBVIOUS
  <2>3. \E n \in 0 .. MaxCapacity : old \in [0 .. n - 1 -> Slot]
    BY <2>1, <2>2
  <2>4. QED
    BY <2>1, <2>2, <2>3 DEF TypeOK
<1>3. Placed /\ Unique /\ OldUnique /\ Apart
  BY <1>1 DEF Placed, Unique, OldUnique, Apart
<1>4. CountOfEntries
  BY <1>1, FS_EmptySet DEF CountOfEntries
<1>5. Load /\ Phases
  BY DEF Load, Phases, MAP_LOAD_PERCENT
<1>6. QED
  BY <1>2, <1>3, <1>4, <1>5 DEF IInv

-----------------------------------------------------------------------------
(* mapGet() and mapRemoveKey() of an absent key read the map only. *)
LEMMA ReadsKeep ==
  ASSUME IInv, UNCHANGED <<entries, capacity, count, old, next, phase, arg>>,
         result' \in Val \cup {Undef, Null}
  PROVE  IInv'
<1>1. Slots' = Slots /\ Used' = Used /\ Waiting' = Waiting
  BY DEF Slots, Used, Waiting
<1>2. TypeOK'
  BY <1>1 DEF IInv, TypeOK
<1>3. OldUnique' /\ Apart' /\ Unique' /\ CountOfEntries'
  BY <1>1 DEF IInv, OldUnique, Apart, Unique, CountOfEntries
<1>4. Placed'
  BY <1>1 DEF IInv, Placed, Probe, Reached, At
<1>5. Load' /\ Phases'
  BY DEF IInv, Load, AboutToFill, Phases
<1>6. QED
  BY <1>2, <1>3, <1>4, <1>5 DEF IInv

(* What mapGet() returns is a value of the map. *)
LEMMA GetKeeps ==
  ASSUME IInv, NEW k \in Key, MapGet(k)
  PROVE  IInv'
<1>1. CASE capacity # 0 /\ Found(k)
  <2>1. /\ FindEntry(k) \in Slots
        /\ entries[FindEntry(k)].key = k
    BY <1>1, FreeSlot, FindEntrySpec DEF IInv
  <2>2. entries[FindEntry(k)] \in Entry
    BY <2>1, HashMapAssumption DEF IInv, TypeOK, Slot, Entry, Tombstone, Empty
  <2>3. result' \in Val
    BY <1>1, <2>2 DEF MapGet, Entry
  <2>4. QED
    BY <2>3, ReadsKeep DEF MapGet
<1>2. CASE ~(capacity # 0 /\ Found(k))
  BY <1>2, ReadsKeep DEF MapGet
<1>3. QED
  BY <1>1, <1>2

-----------------------------------------------------------------------------
(* A map that is idle has no old entries. *)
LEMMA NoEntriesType ==
  /\ NoEntries \in [0 .. 0 - 1 -> Slot]
  /\ DOMAIN NoEntries = {}
  /\ \E n \in 0 .. MaxCapacity : NoEntries \in [0 .. n - 1 -> Slot]
<1>1. NoEntries \in [0 .. 0 - 1 -> Slot] /\ DOMAIN NoEntries = {}
  BY DEF NoEntries
<1>2. 0 \in 0 .. MaxCapacity
  BY HashMapAssumption
<1>3. QED
  BY <1>1, <1>2

(* What growing by two, at least to the least capacity m, leaves room for. *)
LEMMA GrowthLeavesRoom ==
  ASSUME NEW c \in Nat, NEW n \in Nat, NEW m \in Nat, m >= 2,
         c = 0 \/ c >= m, n <= (c * 75) \div 100, NEW g, g = AtLeastMin(c * 2),
         MIN_CAPACITY = m
  PROVE  g \in Nat /\ g >= m /\ n + 1 <= (g * 75) \div 100
<1>1. g = IF c * 2 < m THEN m ELSE c * 2
  BY DEF AtLeastMin
<1>2. g \in Nat /\ g >= 2 * c /\ g >= 2 /\ g >= m
  BY <1>1
<1>3. n * 100 <= c * 75 /\ (c = 0 \/ c >= 2)
  OBVIOUS
<1>4. (n + 1) * 100 <= g * 75
  BY <1>2, <1>3
<1>5. QED
  BY <1>2, <1>4

(* mapSet() inserts its entry in a table that is not about to fill. *)
LEMMA SetEntryKeeps ==
  ASSUME IInv, capacity # 0, Waiting = {}, ~AboutToFill,
         NEW k \in Key, NEW v \in Val, SetEntry(k, v),
         old' = NoEntries, next' \in Nat
  PROVE  IInv'
<1>1. /\ Insert(k, v) /\ capacity' = capacity /\ result' = result
      /\ count' = IF Found(k) THEN count ELSE count + 1
      /\ phase' = "idle" /\ arg' = [key |-> Undef, value |-> Undef]
  BY DEF SetEntry
<1>2. /\ entries' \in [Slots -> Slot] /\ Placed' /\ Unique'
      /\ Found(k) => Cardinality(Used') = Cardinality(Used)
      /\ ~Found(k) => Cardinality(Used') = Cardinality(Used) + 1
  BY <1>1, FreeSlot, InsertKeepsTable DEF IInv
<1>3. Waiting' = {} /\ Slots' = Slots
  BY <1>1, NoEntriesType DEF Waiting, Slots
<1>4. TypeOK'
  <2>1. entries' \in [Slots' -> Slot] /\ capacity' \in 0 .. MaxCapacity
    BY <1>1, <1>2, <1>3 DEF IInv, TypeOK
  <2>2. count' \in Nat
    BY <1>1 DEF IInv, TypeOK
  <2>3. \E n \in 0 .. MaxCapacity : old' \in [0 .. n - 1 -> Slot]
    BY NoEntriesType
  <2>4. result' \in Val \cup {Undef, Null}
    BY <1>1 DEF IInv, TypeOK
  <2>5. QED
    BY <1>1, <2>1, <2>2, <2>3, <2>4 DEF TypeOK
<1>5. OldUnique' /\ Apart'
  BY <1>3 DEF OldUnique, Apart
<1>6. CountOfEntries'
  <2>1. count = Cardinality(Used) + 0 /\ Cardinality(Used) \in Nat
    BY Finite, FS_EmptySet DEF IInv, CountOfEntries
  <2>2. QED
    BY <1>1, <1>2, <1>3, <2>1, FS_EmptySet DEF CountOfEntries
<1>7. Load'
  <2>1. count \in Nat /\ capacity \in Nat
    BY HashMapAssumption DEF IInv, TypeOK
  <2>2. QED
    BY <1>1, <2>1 DEF Load, AboutToFill, MAP_LOAD_PERCENT
<1>8. Phases'
  BY <1>1 DEF IInv, Phases
<1>9. QED
  BY <1>2, <1>4, <1>5, <1>6, <1>7, <1>8 DEF IInv

(* mapSet() *)
LEMMA SetKeeps ==
  ASSUME IInv, NEW k \in Key, NEW v \in Val, MapSet(k, v)
  PROVE  IInv'
<1>1. /\ phase = "idle" /\ old = NoEntries /\ Waiting = {}
      /\ capacity \in Nat /\ count \in Nat /\ (capacity = 0 \/ capacity >= MIN_CAPACITY)
      /\ count <= (capacity * 75) \div 100 /\ count = Cardinality(Used)
      /\ Cardinality(Used) \in Nat
  <2>1. phase = "idle" /\ old = NoEntries
    BY DEF IInv, Phases, MapSet
  <2>2. Waiting = {}
    BY <2>1, NoEntriesType DEF Waiting
  <2>3. count = Cardinality(Used) /\ Cardinality(Used) \in Nat
    BY <2>2, Finite, FS_EmptySet DEF IInv, CountOfEntries
  <2>4. QED
    BY <2>1, <2>2, <2>3, HashMapAssumption DEF IInv, TypeOK, Load, Phases, MAP_LOAD_PERCENT
<1>2. CASE AboutToFill
  <2>1. /\ Grown <= MaxCapacity /\ Resize(Grown, entries)
        /\ phase' = "set" /\ arg' = [key |-> k, value |-> v]
        /\ UNCHANGED <<count, result>>
    BY <1>2 DEF MapSet
  <2>2. PICK c, table : c = Grown /\ table = entries
    OBVIOUS
  <2>3. /\ c \in 1 .. MaxCapacity /\ c >= MIN_CAPACITY
        /\ count + 1 <= (c * 75) \div 100
    <3>1. c = AtLeastMin(capacity * 2) /\ c <= MaxCapacity
      BY <2>1, <2>2 DEF Grown, GROW_FACTOR
    <3>2. MIN_CAPACITY \in Nat /\ MIN_CAPACITY >= 2
      BY HashMapAssumption
    <3>3. PICK d \in Nat, n \in Nat : d = capacity /\ n = count
      BY <1>1
    <3>4. c \in Nat /\ c >= MIN_CAPACITY /\ n + 1 <= (c * 75) \div 100
      BY <1>1, <3>1, <3>2, <3>3, GrowthLeavesRoom
    <3>5. QED
      BY <3>1, <3>2, <3>3, <3>4, HashMapAssumption
  <2>4. table \in [Slots -> Slot]
    BY <2>2 DEF IInv, TypeOK
  <2>5. \A i, j \in Slots : table[i].key # Undef /\ table[i].key = table[j].key => i = j
    BY <2>2 DEF IInv, Unique, Used
  <2>6. /\ entries' \in [Slots' -> Slot] /\ capacity' = c
        /\ \E n \in 0 .. MaxCapacity : old' \in [0 .. n - 1 -> Slot]
        /\ next' \in Nat
        /\ Placed' /\ Unique' /\ OldUnique' /\ Apart'
        /\ Used' = {} /\ Waiting' = {i \in Slots : table[i].key # Undef}
    BY <2>1, <2>2, <2>3, <2>4, <2>5, ResizeKeepsEntries DEF IInv
  <2>7. TypeOK'
    <3>1. c \in 0 .. MaxCapacity /\ arg' \in Entry
      BY <2>1, <2>3, HashMapAssumption DEF Entry
    <3>2. QED
      BY <2>1, <2>6, <3>1 DEF IInv, TypeOK
  <2>8. CountOfEntries'
    <3>1. Waiting' = Used
      BY <2>2, <2>6 DEF Used
    <3>2. Cardinality(Used') = 0 /\ Cardinality(Waiting') = Cardinality(Used)
      BY <2>6, <3>1, FS_EmptySet
    <3>3. count' = Cardinality(Used') + Cardinality(Waiting')
      BY <1>1, <2>1, <3>2
    <3>4. QED
      BY <3>3 DEF CountOfEntries
  <2>9. Load' /\ Phases'
    <3>1. Load'
      BY <1>1, <2>1, <2>3, <2>6 DEF Load, AboutToFill, MAP_LOAD_PERCENT
    <3>2. arg' \in Entry
      BY <2>1 DEF Entry
    <3>3. Phases'
      BY <2>1, <2>3, <2>6, <3>2, HashMapAssumption DEF Phases
    <3>4. QED
      BY <3>1, <3>3
  <2>10. QED
    BY <2>6, <2>7, <2>8, <2>9 DEF IInv
<1>3. CASE ~AboutToFill
  <2>1. SetEntry(k, v) /\ old' = old /\ next' = next
    BY <1>3 DEF MapSet
  <2>2. capacity # 0
    BY <1>1, <1>3 DEF AboutToFill, MAP_LOAD_PERCENT
  <2>3. QED
    BY <1>1, <1>3, <2>1, <2>2, SetEntryKeeps DEF IInv, TypeOK
<1>4. QED
  BY <1>2, <1>3

(* The insertion that follows the resizing. *)
LEMMA SetResizedKeeps ==
  ASSUME IInv, MapSetResized
  PROVE  IInv'
<1>1. /\ phase = "set" /\ next \notin DOMAIN old /\ old' = NoEntries /\ next' = 0
      /\ SetEntry(arg.key, arg.value)
  BY DEF MapSetResized, Resized
<1>2. PICK k \in Key, v \in Val : k = arg.key /\ v = arg.value
  BY <1>1 DEF IInv, Phases, Entry
<1>3. Waiting = {} /\ ~AboutToFill /\ capacity # 0
  BY <1>1, NothingWaiting DEF IInv, Load, Phases
<1>4. SetEntry(k, v)
  BY <1>1, <1>2
<1>5. QED
  BY <1>1, <1>3, <1>4, SetEntryKeeps

-----------------------------------------------------------------------------
(* The loop of _mapResize() moves an entry from the ones to be copied to    *)
(* the ones in the table.                                                   *)
LEMMA CopyKeeps ==
  ASSUME IInv, CopyEntry
  PROVE  IInv'
<1>1. PICK n \in 0 .. MaxCapacity : old \in [0 .. n - 1 -> Slot]
  BY DEF IInv, TypeOK
<1>2. /\ DOMAIN old = 0 .. n - 1 /\ next \in 0 .. n - 1 /\ next' = next + 1
      /\ UNCHANGED <<capacity, count, old, phase, arg, result>>
      /\ Slots' = Slots /\ n \in Nat
  BY <1>1, HashMapAssumption DEF CopyEntry, Slots
<1>3. Waiting' = Waiting \ {next}
  BY <1>2 DEF Waiting
<1>4. /\ IsFiniteSet(Waiting) /\ Cardinality(Waiting) \in Nat
      /\ Cardinality(Used) \in Nat
  BY Finite DEF IInv
<1>5. OldUnique'
  BY <1>2, <1>3 DEF IInv, OldUnique
<1>6. CASE old[next].key = Undef
  <2>1. entries' = entries
    BY <1>6 DEF CopyEntry
  <2>2. Waiting' = Waiting /\ Used' = Used
    BY <1>2, <1>3, <1>6, <2>1 DEF Waiting, Used
  <2>3. TypeOK'
    <3>1. next' \in Nat
      BY <1>2
    <3>2. QED
      BY <1>2, <2>1, <3>1 DEF IInv, TypeOK
  <2>4. Placed' /\ Unique'
    BY <1>2, <2>1, <2>2 DEF IInv, Placed, Unique, Probe, Reached, At
  <2>5. Apart' /\ CountOfEntries'
    BY <1>2, <2>1, <2>2 DEF IInv, Apart, CountOfEntries
  <2>6. Load' /\ Phases'
    BY <1>2 DEF IInv, Load, AboutToFill, Phases
  <2>7. QED
    BY <1>5, <2>3, <2>4, <2>5, <2>6 DEF IInv
<1>7. CASE old[next].key # Undef
  <2>1. /\ Insert(old[next].key, old[next].value)
        /\ old[next] \in Entry /\ next \in Waiting
        /\ capacity # 0
    <3>1. old[next] \in Entry
      BY <1>1, <1>2, <1>7 DEF Slot, Tombstone, Empty
    <3>2. capacity # 0
      <4>1. old # NoEntries
        BY <1>2, NoEntriesType
      <4>2. QED
        BY <4>1 DEF IInv, Phases
    <3>3. QED
      BY <1>2, <1>7, <3>1, <3>2 DEF CopyEntry, Waiting
  <2>2. PICK k \in Key, v \in Val : k = old[next].key /\ v = old[next].value
    BY <2>1 DEF Entry
  <2>3. Insert(k, v)
    BY <2>1, <2>2
  <2>4. /\ entries' \in [Slots -> Slot] /\ Placed' /\ Unique'
        /\ Found(k) <=> \E i \in Used : entries[i].key = k
        /\ ~Found(k) => Cardinality(Used') = Cardinality(Used) + 1
        /\ \A i \in Used' : entries'[i].key = k \/ (i \in Used /\ entries'[i] = entries[i])
    BY <1>2, <2>1, <2>3, FreeSlot, InsertKeepsTable DEF IInv
  <2>5. ~Found(k)
    BY <2>1, <2>2, <2>4 DEF IInv, Apart
  <2>6. TypeOK'
    <3>1. next' \in Nat
      BY <1>2
    <3>2. QED
      BY <1>2, <2>4, <3>1 DEF IInv, TypeOK
  <2>7. Apart'
    <3> SUFFICES ASSUME NEW i \in Used', NEW j \in Waiting'
                 PROVE  entries'[i].key # old[j].key
      BY <1>2 DEF Apart
    <3>1. j \in Waiting /\ j # next /\ old[j].key # k
      BY <1>3, <2>1, <2>2 DEF IInv, OldUnique
    <3>2. QED
      BY <2>4, <3>1 DEF IInv, Apart
  <2>8. CountOfEntries'
    <3>1. Cardinality(Waiting') = Cardinality(Waiting) - 1
      BY <1>3, <1>4, <2>1, FS_RemoveElement
    <3>2. count' = Cardinality(Used') + Cardinality(Waiting')
      BY <1>2, <1>4, <2>4, <2>5, <3>1 DEF IInv, CountOfEntries
    <3>3. QED
      BY <3>2 DEF CountOfEntries
  <2>9. Load' /\ Phases'
    BY <1>2 DEF IInv, Load, AboutToFill, Phases
  <2>10. QED
    BY <1>5, <2>4, <2>6, <2>7, <2>8, <2>9 DEF IInv
<1>8. QED
  BY <1>6, <1>7

(* The end of the resizing that follows a removal. *)
LEMMA RemoveResizedKeeps ==
  ASSUME IInv, MapRemoveResized
  PROVE  IInv'
<1>1. /\ next \notin DOMAIN old /\ old' = NoEntries /\ next' = 0 /\ phase' = "idle"
      /\ UNCHANGED <<entries, capacity, count, arg, result>> /\ phase = "remove"
  BY DEF MapRemoveResized, Resized
<1>2. /\ Slots' = Slots /\ Used' = Used
      /\ Waiting' = {} /\ Waiting = {}
  BY <1>1, NothingWaiting, NoEntriesType DEF IInv, Slots, Used, Waiting
<1>3. TypeOK'
  <2>1. \E n \in 0 .. MaxCapacity : old' \in [0 .. n - 1 -> Slot]
    BY <1>1, NoEntriesType
  <2>2. QED
    BY <1>1, <1>2, <2>1 DEF IInv, TypeOK
<1>4. Placed' /\ Unique'
  BY <1>1, <1>2 DEF IInv, Placed, Unique, Probe, Reached, At
<1>5. OldUnique' /\ Apart' /\ CountOfEntries'
  BY <1>1, <1>2 DEF IInv, OldUnique, Apart, CountOfEntries
<1>6. Load' /\ Phases'
  BY <1>1 DEF IInv, Load, AboutToFill, Phases
<1>7. QED
  BY <1>3, <1>4, <1>5, <1>6 DEF IInv

-----------------------------------------------------------------------------
(* What shrinking by four, at least to the least capacity, leaves room for. *)
LEMMA ShrinkingLeavesRoom ==
  ASSUME NEW c \in Nat, NEW n \in Nat, MIN_CAPACITY \in Nat,
         c > MIN_CAPACITY, c \div 4 > (n * 100) \div 75,
         NEW g, g = AtLeastMin(c \div 4)
  PROVE  g \in Nat /\ g >= MIN_CAPACITY /\ g <= c /\ n <= (g * 75) \div 100
<1>1. g = IF c \div 4 < MIN_CAPACITY THEN MIN_CAPACITY ELSE c \div 4
  BY DEF AtLeastMin
<1>2. g \in Nat /\ g >= MIN_CAPACITY /\ g >= c \div 4 /\ g <= c
  BY <1>1
<1>3. n * 100 <= (c \div 4) * 75
  OBVIOUS
<1>4. n * 100 <= g * 75
  BY <1>2, <1>3
<1>5. QED
  BY <1>2, <1>4

(* Nothing added to a count. *)
LEMMA AddNothing == \A n \in Nat : n = 0 + n /\ n = n + 0
OBVIOUS

(* mapRemoveKey() of a key that is present: the other entries stay in the   *)
(* table, or in the ones to be copied, and a tombstone keeps their probes.  *)
LEMMA RemoveKeeps ==
  ASSUME IInv, NEW k \in Key, MapRemoveKey(k)
  PROVE  IInv'
<1> DEFINE f == FindEntry(k)
           removed == [entries EXCEPT ![f] = Tombstone]
<1>1. /\ phase = "idle" /\ old = NoEntries /\ Waiting = {} /\ capacity # 0
      /\ count = Cardinality(Used) /\ count \in Nat /\ capacity \in Nat \ {0}
      /\ count <= (capacity * 75) \div 100
  <2>1. phase = "idle" /\ old = NoEntries /\ capacity # 0
    BY DEF IInv, Phases, MapRemoveKey
  <2>2. Waiting = {}
    BY <2>1, NoEntriesType DEF Waiting
  <2>3. count = Cardinality(Used)
    BY <2>2, Finite, FS_EmptySet DEF IInv, CountOfEntries
  <2>4. QED
    BY <2>1, <2>2, <2>3, HashMapAssumption DEF IInv, TypeOK, Load, MAP_LOAD_PERCENT
<1>2. f \in Slots /\ entries[f].key = k /\ f \in Used /\ k # Undef
  <2>1. f \in Slots /\ entries[f].key = k
    BY <1>1, FreeSlot, FindEntrySpec DEF IInv, MapRemoveKey
  <2>2. QED
    BY <2>1, HashMapAssumption DEF Used
<1>3. /\ result' = entries[f].value /\ count' = count - 1 /\ arg' = arg
      /\ count = 1 => /\ entries' = NoEntries /\ capacity' = 0
                      /\ UNCHANGED <<old, next, phase>>
      /\ count # 1 /\ TooFew(count - 1) => Resize(Shrunk, removed) /\ phase' = "remove"
      /\ count # 1 /\ ~TooFew(count - 1) =>
           entries' = removed /\ UNCHANGED <<capacity, old, next, phase>>
  BY DEF MapRemoveKey
<1>4. result' \in Val
  <2>1. entries[f] \in Entry
    BY <1>2, HashMapAssumption DEF IInv, TypeOK, Slot, Tombstone, Empty
  <2>2. QED
    BY <1>3, <2>1 DEF Entry
<1>5. /\ removed \in [Slots -> Slot] /\ removed[f] = Tombstone
      /\ Tombstone.key = Undef /\ Tombstone # Empty
      /\ \A i \in Slots : i # f => removed[i] = entries[i]
  BY <1>2 DEF IInv, TypeOK, Slot, Tombstone, Empty
<1>6. count - 1 \in Nat /\ count' \in Nat /\ Cardinality(Used \ {f}) = count - 1
  <2>1. IsFiniteSet(Used) /\ Cardinality(Used) \in Nat
    BY Finite DEF IInv
  <2>2. /\ IsFiniteSet(Used \ {f}) /\ Cardinality(Used \ {f}) = Cardinality(Used) - 1
        /\ Cardinality(Used \ {f}) \in Nat
    BY <1>2, <2>1, FS_RemoveElement, FS_CardinalityType
  <2>3. QED
    BY <1>1, <1>3, <2>2
<1> HIDE DEF f, removed
<1>11. count' \in Nat
  BY <1>6
<1>7. CASE count = 1
  <2>1. /\ entries' = NoEntries /\ capacity' = 0 /\ count' = 0
        /\ UNCHANGED <<old, next, phase>>
    BY <1>3, <1>7
  <2>2. Slots' = {} /\ Used' = {} /\ Waiting' = {}
    <3>1. Slots' = {}
      BY <2>1 DEF Slots
    <3>2. QED
      BY <1>1, <2>1, <3>1, NoEntriesType DEF Used, Waiting
  <2>3. TypeOK'
    <3>1. entries' \in [Slots' -> Slot]
      BY <2>1, <2>2, NoEntriesType DEF NoEntries
    <3>2. capacity' \in 0 .. MaxCapacity
      BY <2>1, HashMapAssumption
    <3>3. QED
      BY <1>3, <1>4, <2>1, <3>1, <3>2 DEF IInv, TypeOK
  <2>4. Placed' /\ Unique' /\ OldUnique' /\ Apart'
    BY <2>2 DEF Placed, Unique, OldUnique, Apart
  <2>5. CountOfEntries'
    BY <2>1, <2>2, FS_EmptySet DEF CountOfEntries
  <2>6. Load' /\ Phases'
    BY <1>1, <2>1 DEF Load, Phases, MAP_LOAD_PERCENT
  <2>7. QED
    BY <2>3, <2>4, <2>5, <2>6 DEF IInv
<1>8. CASE count # 1 /\ TooFew(count - 1)
  <2>1. Resize(Shrunk, removed) /\ phase' = "remove"
    BY <1>3, <1>8
  <2>2. PICK c, table : c = Shrunk /\ table = removed
    OBVIOUS
  <2>3. c \in Nat /\ c >= MIN_CAPACITY /\ c <= capacity /\ count - 1 <= (c * 75) \div 100
    <3>1. PICK d \in Nat, n \in Nat : d = capacity /\ n = count - 1
      BY <1>1, <1>6
    <3>2. d > MIN_CAPACITY /\ d \div 4 > (n * 100) \div 75 /\ c = AtLeastMin(d \div 4)
      BY <1>8, <2>2, <3>1 DEF TooFew, Shrunk, GROW_FACTOR, MAP_LOAD_PERCENT
    <3>3. QED
      BY <3>1, <3>2, ShrinkingLeavesRoom, HashMapAssumption
  <2>4. c \in 1 .. MaxCapacity
    BY <2>3, HashMapAssumption DEF IInv, TypeOK
  <2>5. table \in [Slots -> Slot]
    BY <1>5, <2>2
  <2>6. \A i, j \in Slots : table[i].key # Undef /\ table[i].key = table[j].key => i = j
    BY <1>5, <2>2 DEF IInv, Unique, Used
  <2>7. /\ entries' \in [Slots' -> Slot] /\ capacity' = c
        /\ \E n \in 0 .. MaxCapacity : old' \in [0 .. n - 1 -> Slot]
        /\ next' \in Nat
        /\ Placed' /\ Unique' /\ OldUnique' /\ Apart'
        /\ Used' = {} /\ Waiting' = {i \in Slots : table[i].key # Undef}
    BY <2>1, <2>2, <2>4, <2>5, <2>6, ResizeKeepsEntries DEF IInv
  <2>8. TypeOK'
    <3>1. capacity' \in 0 .. MaxCapacity
      BY <2>4, <2>7, HashMapAssumption
    <3>2. QED
      BY <1>3, <1>4, <1>6, <2>1, <2>7, <3>1 DEF IInv, TypeOK
  <2>9. CountOfEntries'
    <3>1. Waiting' = Used \ {f}
      BY <1>2, <1>5, <2>2, <2>7 DEF Used
    <3>2. Cardinality(Used') = 0 /\ Cardinality(Waiting') = count'
      BY <1>3, <1>6, <2>7, <3>1, FS_EmptySet
    <3>3. count' = 0 + count'
      BY <1>11, AddNothing
    <3>4. QED
      BY <3>2, <3>3 DEF CountOfEntries
  <2>10. Load'
    BY <1>3, <2>1, <2>3, <2>7 DEF Load, MAP_LOAD_PERCENT
  <2>11. Phases'
    BY <2>1, <2>3, <2>4, <2>7 DEF Phases
  <2>12. QED
    BY <2>7, <2>8, <2>9, <2>10, <2>11 DEF IInv
<1>9. CASE count # 1 /\ ~TooFew(count - 1)
  <2>1. entries' = removed /\ UNCHANGED <<capacity, old, next, phase>>
    BY <1>3, <1>9
  <2>2. Slots' = Slots /\ Waiting' = {} /\ Used' = Used \ {f}
    <3>1. Slots' = Slots
      BY <2>1 DEF Slots
    <3>2. QED
      BY <1>1, <1>2, <1>5, <2>1, <3>1, NoEntriesType DEF Used, Waiting
  <2>3. TypeOK'
    BY <1>3, <1>4, <1>5, <1>6, <2>1, <2>2 DEF IInv, TypeOK
  <2>4. Placed'
    <3> SUFFICES ASSUME NEW i \in Used'
                 PROVE  \E d \in Slots' : Probe(entries[i].key, d)' = i /\ Reached(entries[i].key, d)'
      BY DEF Placed
    <3>1. i \in Used /\ i \in Slots /\ entries'[i] = entries[i]
      BY <1>5, <2>1, <2>2 DEF Used
    <3>2. entries[i].key \in Key
      BY <3>1, HashMapAssumption DEF IInv, TypeOK, Used, Slot, Entry, Tombstone, Empty
    <3>3. PICK j \in Key, d \in Slots : j = entries[i].key /\ Probe(j, d) = i /\ Reached(j, d)
      BY <3>1, <3>2 DEF IInv, Placed
    <3>4. \A x \in Slots : entries[x] # Empty => entries'[x] # Empty
      BY <1>5, <2>1
    <3>5. Probe(j, d)' = Probe(j, d) /\ Reached(j, d)'
      BY <1>1, <2>1, <3>3, <3>4, StillReached
    <3>6. QED
      BY <2>2, <3>1, <3>3, <3>5 DEF Reached, At, Probe
  <2>5. Unique' /\ OldUnique' /\ Apart'
    <3>1. \A i \in Used' : i \in Used /\ entries'[i] = entries[i]
      BY <1>5, <2>1, <2>2 DEF Used
    <3>2. QED
      BY <2>2, <3>1 DEF IInv, Unique, OldUnique, Apart
  <2>6. CountOfEntries'
    <3>1. Cardinality(Waiting') = 0 /\ Cardinality(Used') = count'
      BY <1>3, <1>6, <2>2, FS_EmptySet
    <3>2. count' = count' + 0
      BY <1>11, AddNothing
    <3>3. QED
      BY <3>1, <3>2 DEF CountOfEntries
  <2>7. Load' /\ Phases'
    BY <1>1, <1>3, <2>1 DEF IInv, Load, Phases, MAP_LOAD_PERCENT
  <2>8. QED
    BY <2>3, <2>4, <2>5, <2>6, <2>7 DEF IInv
<1>10. QED
  BY <1>7, <1>8, <1>9

-----------------------------------------------------------------------------
(* Every step keeps the invariant. *)
LEMMA NextKeeps == IInv /\ [Next]_vars => IInv'
<1> SUFFICES ASSUME IInv, [Next]_vars
             PROVE  IInv'
  OBVIOUS
<1>1. ASSUME NEW k \in Key, NEW v \in Val, MapSet(k, v)
      PROVE  IInv'
  BY <1>1, SetKeeps
<1>2. ASSUME NEW k \in Key, MapGet(k)
      PROVE  IInv'
  BY <1>2, GetKeeps
<1>3. ASSUME NEW k \in Key, MapRemoveAbsent(k)
      PROVE  IInv'
  BY <1>3, ReadsKeep DEF MapRemoveAbsent
<1>4. ASSUME NEW k \in Key, MapRemoveKey(k)
      PROVE  IInv'
  BY <1>4, RemoveKeeps
<1>5. CASE CopyEntry
  BY <1>5, CopyKeeps
<1>6. CASE MapSetResized
  BY <1>6, SetResizedKeeps
<1>7. CASE MapRemoveResized
  BY <1>7, RemoveResizedKeeps
<1>8. CASE UNCHANGED vars
  BY <1>8, ReadsKeep DEF vars, IInv, TypeOK
<1>9. QED
  BY <1>1, <1>2, <1>3, <1>4, <1>5, <1>6, <1>7, <1>8 DEF Next

(* The invariant holds of every map the operations can make. *)
THEOREM Invariant == Spec => []IInv
<1>1. QED
  BY InitInvariant, NextKeeps, PTL DEF Spec

(* The table has its capacity, and its slots hold entries, tombstones or    *)
(* nothing.                                                                 *)
THEOREM TypeCorrect == Spec => []TypeOK
<1>1. IInv => TypeOK
  BY DEF IInv
<1>2. QED
  BY <1>1, Invariant, PTL

(* The count is kept through removals, and while a resize moves entries. *)
THEOREM CountCorrect == Spec => []CountOfEntries
<1>1. IInv => CountOfEntries
  BY DEF IInv
<1>2. QED
  BY <1>1, Invariant, PTL

(* A key that is in the table is found at its slot. *)
THEOREM KeysFound == Spec => []EveryKeyFound
<1>1. IInv => EveryKeyFound
  <2> SUFFICES ASSUME IInv, NEW i \in Used
               PROVE  Found(entries[i].key) /\ FindEntry(entries[i].key) = i
    BY DEF EveryKeyFound
  <2>1. i \in Slots /\ capacity \in Nat /\ capacity # 0
    BY HashMapAssumption DEF Used, Slots, IInv, TypeOK
  <2>2. PICK k \in Key : k = entries[i].key
    BY <2>1, HashMapAssumption DEF IInv, TypeOK, Used, Slot, Entry, Tombstone, Empty
  <2>3. /\ FindEntry(k) \in Slots
        /\ Found(k) <=> \E j \in Used : entries[j].key = k
        /\ Found(k) => entries[FindEntry(k)].key = k
    BY <2>1, FreeSlot, FindEntrySpec DEF IInv
  <2>4. Found(k) /\ entries[FindEntry(k)].key = k
    BY <2>2, <2>3
  <2>5. FindEntry(k) \in Used
    BY <2>3, <2>4, HashMapAssumption DEF Used
  <2>6. FindEntry(k) = i
    BY <2>2, <2>4, <2>5 DEF IInv, Unique
  <2>7. QED
    BY <2>2, <2>4, <2>6
<1>2. QED
  BY <1>1, Invariant, PTL

(* The assertion of _mapFindEntry() holds: there is always a tombstone or a *)
(* free slot for a key that is absent, whatever was inserted and removed.   *)
THEOREM RoomForAKey == Spec => []RoomLeft
<1>1. IInv => RoomLeft
  <2> SUFFICES ASSUME IInv, capacity # 0, NEW k \in Key
               PROVE  Stops(k) # {} \/ Tombs(k) # {}
    BY DEF RoomLeft, IInv, Load
  <2>1. QED
    BY FreeSlot, FindEntrySpec DEF IInv
<1>2. QED
  BY <1>1, Invariant, PTL

-----------------------------------------------------------------------------
(* The refinement.  A set of entries with one entry for a key is a mapping. *)

OneForAKey(pairs) == \A p, q \in pairs : p.key = q.key => p = q

LEMMA MappingValues ==
  ASSUME NEW S, OneForAKey(S)
  PROVE  /\ \A k : k \in DOMAIN Mapping(S) <=> \E p \in S : p.key = k
         /\ \A p \in S : p.key \in DOMAIN Mapping(S) /\ Mapping(S)[p.key] = p.value
         /\ Mapping(S) = [k \in DOMAIN Mapping(S) |-> Mapping(S)[k]]
<1> DEFINE value(k) == (CHOOSE q \in S : q.key = k).value
<1>1. ASSUME NEW p \in S
      PROVE  value(p.key) = p.value
  BY DEF OneForAKey
<1>2. Mapping(S) = [k \in {p.key : p \in S} |-> value(k)]
  BY DEF Mapping
<1> HIDE DEF value
<1>3. \A k : k \in DOMAIN Mapping(S) <=> \E p \in S : p.key = k
  BY <1>2
<1>4. Mapping(S) = [k \in DOMAIN Mapping(S) |-> Mapping(S)[k]]
  BY <1>2
<1>5. \A p \in S : Mapping(S)[p.key] = p.value
  BY <1>1, <1>2
<1>6. \A p \in S : p.key \in DOMAIN Mapping(S)
  BY <1>3
<1>7. QED
  BY <1>3, <1>4, <1>5, <1>6

(* A function of the same keys and the same values is that mapping. *)
LEMMA MappingIs ==
  ASSUME NEW S, OneForAKey(S), NEW g, g = [k \in DOMAIN g |-> g[k]],
         \A k : k \in DOMAIN g <=> \E p \in S : p.key = k,
         \A p \in S : g[p.key] = p.value
  PROVE  Mapping(S) = g
<1>1. /\ DOMAIN Mapping(S) = DOMAIN g
      /\ Mapping(S) = [k \in DOMAIN g |-> Mapping(S)[k]]
  BY MappingValues
<1>2. ASSUME NEW k \in DOMAIN g
      PROVE  Mapping(S)[k] = g[k]
  <2>1. PICK p \in S : p.key = k
    OBVIOUS
  <2>2. Mapping(S)[p.key] = p.value /\ g[p.key] = p.value
    BY MappingValues
  <2>3. QED
    BY <2>1, <2>2
<1>3. QED
  BY <1>1, <1>2

(* A mapping with one pair more, or another value for its key, *)
With(f, k, v) == [j \in DOMAIN f \cup {k} |-> IF j = k THEN v ELSE f[j]]

(* and without one. *)
Without(f, k) == [j \in DOMAIN f \ {k} |-> f[j]]

(* A key is put in a mapping. *)
LEMMA PutMapping ==
  ASSUME NEW S, NEW T, NEW k, NEW v, OneForAKey(S), OneForAKey(T),
         T = {p \in S : p.key # k} \cup {[key |-> k, value |-> v]}
  PROVE  Mapping(T) = With(Mapping(S), k, v)
<1> DEFINE g == [j \in DOMAIN Mapping(S) \cup {k} |-> IF j = k THEN v ELSE Mapping(S)[j]]
           e == [key |-> k, value |-> v]
<1>1. g = [j \in DOMAIN g |-> g[j]] /\ DOMAIN g = DOMAIN Mapping(S) \cup {k}
  OBVIOUS
<1>2. e.key = k /\ e.value = v /\ e \in T
  OBVIOUS
<1>3. \A p \in T : p = e \/ (p \in S /\ p.key # k)
  OBVIOUS
<1>4. \A j : j \in DOMAIN g <=> \E p \in T : p.key = j
  <2>1. \A j : j \in DOMAIN Mapping(S) <=> \E p \in S : p.key = j
    BY MappingValues
  <2>2. ASSUME NEW p \in S, p.key # k
        PROVE  p \in T
    BY <2>2
  <2>3. QED
    BY <1>1, <1>2, <1>3, <2>1, <2>2
<1>5. \A p \in T : g[p.key] = p.value
  <2> SUFFICES ASSUME NEW p \in T
               PROVE  g[p.key] = p.value
    OBVIOUS
  <2>1. CASE p = e
    BY <1>2, <2>1
  <2>2. CASE p \in S /\ p.key # k
    <3>1. p.key \in DOMAIN Mapping(S) /\ Mapping(S)[p.key] = p.value
      BY <2>2, MappingValues
    <3>2. QED
      BY <2>2, <3>1
  <2>3. QED
    BY <1>3, <2>1, <2>2
<1> HIDE DEF g
<1>6. Mapping(T) = g
  BY <1>1, <1>4, <1>5, MappingIs
<1>7. QED
  BY <1>6 DEF g, With

(* A key is removed from a mapping. *)
LEMMA RemoveMapping ==
  ASSUME NEW S, NEW T, NEW k, OneForAKey(S), OneForAKey(T),
         T = {p \in S : p.key # k}
  PROVE  Mapping(T) = Without(Mapping(S), k)
<1> DEFINE g == [j \in DOMAIN Mapping(S) \ {k} |-> Mapping(S)[j]]
<1>1. g = [j \in DOMAIN g |-> g[j]] /\ DOMAIN g = DOMAIN Mapping(S) \ {k}
  OBVIOUS
<1>2. \A j : j \in DOMAIN g <=> \E p \in T : p.key = j
  <2>1. \A j : j \in DOMAIN Mapping(S) <=> \E p \in S : p.key = j
    BY MappingValues
  <2>2. QED
    BY <1>1, <2>1
<1>3. ASSUME NEW p \in T
      PROVE  g[p.key] = p.value
  <2>1. p \in S /\ p.key # k
    OBVIOUS
  <2>2. p.key \in DOMAIN Mapping(S) /\ Mapping(S)[p.key] = p.value
    BY <2>1, MappingValues
  <2>3. QED
    BY <2>1, <2>2
<1> HIDE DEF g
<1>4. Mapping(T) = g
  BY <1>1, <1>2, <1>3, MappingIs
<1>5. QED
  BY <1>4 DEF g, Without

-----------------------------------------------------------------------------
(* The entries in the table, and those still to be copied. *)
Stored == {entries[i] : i \in Used}
Held == {old[i] : i \in Waiting}

(* _mapInsertEntry() puts a pair in place of that of its key. *)
LEMMA InsertStores ==
  ASSUME TypeOK, Placed, Unique, capacity # 0, capacity' = capacity,
         \E i \in Slots : entries[i].key = Undef,
         NEW k \in Key, NEW v \in Val, Insert(k, v)
  PROVE  Stored' = {p \in Stored : p.key # k} \cup {[key |-> k, value |-> v]}
<1> DEFINE f == FindEntry(k)
           e == [key |-> k, value |-> v]
<1>1. /\ f \in Slots
      /\ Found(k) <=> \E i \in Used : entries[i].key = k
      /\ Found(k) => entries[f].key = k
      /\ ~Found(k) => entries[f].key = Undef
  BY FindEntrySpec
<1>2. entries' = [entries EXCEPT ![f] = e]
  BY DEF Insert
<1> HIDE DEF f
<1>3. /\ entries \in [Slots -> Slot] /\ Slots' = Slots /\ k # Undef /\ e.key = k
  BY HashMapAssumption DEF TypeOK, Slots
<1> HIDE DEF e
<1>4. entries'[f] = e /\ \A i \in Slots : i # f => entries'[i] = entries[i]
  BY <1>1, <1>2, <1>3
<1>5. Used' = Used \cup {f}
  BY <1>1, <1>3, <1>4 DEF Used
<1>6. \A i \in Used : i # f <=> entries[i].key # k
  BY <1>1, <1>3 DEF Unique, Used
<1>7. \A p : p \in Stored' <=> \E i \in Used \cup {f} : entries'[i] = p
  BY <1>5 DEF Stored
<1>8. \A p : p \in Stored <=> \E i \in Used : entries[i] = p
  BY DEF Stored
<1>9. \A i \in Used : i \in Slots
  BY DEF Used
<1>10. ASSUME NEW p \in Stored'
       PROVE  p \in {q \in Stored : q.key # k} \cup {e}
  BY <1>4, <1>6, <1>7, <1>8, <1>9
<1>11. ASSUME NEW p \in {q \in Stored : q.key # k} \cup {e}
       PROVE  p \in Stored'
  BY <1>4, <1>6, <1>7, <1>8, <1>9
<1>12. QED
  BY <1>10, <1>11 DEF e

(* A key has one pair, in the table or waiting. *)
LEMMA OnePairForAKey == IInv => OneForAKey(Pairs)
<1> SUFFICES ASSUME IInv, NEW p \in Pairs, NEW q \in Pairs, p.key = q.key
             PROVE  p = q
  BY DEF OneForAKey
<1>1. /\ (\E i \in Used : entries[i] = p) \/ \E i \in Waiting : old[i] = p
      /\ (\E i \in Used : entries[i] = q) \/ \E i \in Waiting : old[i] = q
  BY DEF Pairs
<1>2. QED
  BY <1>1 DEF IInv, Unique, OldUnique, Apart

(* A map that is idle, or has copied all its entries, is its table. *)
LEMMA OnlyTheTable ==
  ASSUME Waiting = {}
  PROVE  Pairs = Stored /\ Held = {}
BY DEF Pairs, Stored, Held

(* Whether a key is found, and where, is what the mapping says of it. *)
LEMMA FoundInContents ==
  ASSUME IInv, Waiting = {}, NEW k \in Key
  PROVE  /\ k \in DOMAIN Contents <=> capacity # 0 /\ Found(k)
         /\ k \in DOMAIN Contents => Contents[k] = entries[FindEntry(k)].value
<1>1. OneForAKey(Stored) /\ Contents = Mapping(Stored)
  BY OnePairForAKey, OnlyTheTable DEF Contents
<1>2. k \in DOMAIN Contents <=> \E p \in Stored : p.key = k
  BY <1>1, MappingValues
<1>3. (\E p \in Stored : p.key = k) <=> \E i \in Used : entries[i].key = k
  BY DEF Stored
<1>4. CASE capacity = 0
  <2>1. Used = {}
    BY <1>4 DEF Used, Slots
  <2>2. QED
    BY <1>2, <1>3, <1>4, <2>1
<1>5. CASE capacity # 0
  <2>1. /\ Found(k) <=> \E i \in Used : entries[i].key = k
        /\ FindEntry(k) \in Slots
        /\ Found(k) => entries[FindEntry(k)].key = k
    BY <1>5, FreeSlot, FindEntrySpec DEF IInv
  <2>2. ASSUME Found(k)
        PROVE  Contents[k] = entries[FindEntry(k)].value
    <3>1. entries[FindEntry(k)] \in Stored /\ entries[FindEntry(k)].key = k
      BY <2>1, <2>2, HashMapAssumption DEF Stored, Used
    <3>2. QED
      BY <1>1, <3>1, MappingValues
  <2>3. QED
    BY <1>2, <1>3, <1>5, <2>1, <2>2
<1>6. QED
  BY <1>4, <1>5

-----------------------------------------------------------------------------
(* mapSet(), once the table has room, is the dictionary's Put. *)
LEMMA SetEntryPuts ==
  ASSUME IInv, IInv', capacity # 0, Waiting = {}, ~AboutToFill,
         NEW k \in Key, NEW v \in Val, SetEntry(k, v), old' = NoEntries
  PROVE  Dict!Put(k, v)
<1>1. Insert(k, v) /\ capacity' = capacity /\ result' = result
  BY DEF SetEntry
<1>2. Stored' = {p \in Stored : p.key # k} \cup {[key |-> k, value |-> v]}
  BY <1>1, FreeSlot, InsertStores DEF IInv
<1>3. Waiting' = {}
  BY NoEntriesType DEF Waiting
<1>4. Pairs = Stored /\ Pairs' = Stored'
  BY <1>3, OnlyTheTable DEF Pairs, Stored
<1>5. OneForAKey(Pairs) /\ OneForAKey(Pairs)'
  BY OnePairForAKey, PTL
<1>6. PICK S, T : S = Pairs /\ T = Pairs' /\ OneForAKey(S) /\ OneForAKey(T)
  BY <1>5 DEF OneForAKey
<1>7. Mapping(T) = With(Mapping(S), k, v)
  <2>1. T = {p \in S : p.key # k} \cup {[key |-> k, value |-> v]}
    BY <1>2, <1>4, <1>6
  <2>2. OneForAKey(S) /\ OneForAKey(T)
    BY <1>6
  <2>3. QED
    BY <2>1, <2>2, PutMapping
<1>8. Contents = Mapping(S) /\ Contents' = Mapping(T)
  BY <1>6 DEF Contents, Mapping
<1>9. QED
  BY <1>1, <1>7, <1>8 DEF Dict!Put, With

(* _mapResize() leaves the mapping as it is when it begins, *)
LEMMA ResizeKeepsPairs ==
  ASSUME TypeOK, NEW c \in 1 .. MaxCapacity, NEW table \in [Slots -> Slot],
         Resize(c, table)
  PROVE  Pairs' = {table[i] : i \in {j \in Slots : table[j].key # Undef}}
<1>1. /\ entries' = [i \in 0 .. c - 1 |-> Empty] /\ capacity' = c
      /\ old' = table /\ next' = 0
  BY DEF Resize
<1>2. Used' = {}
  BY <1>1 DEF Used, Slots, Empty
<1>3. Waiting' = {j \in Slots : table[j].key # Undef}
  BY <1>1 DEF Waiting, Slots
<1>4. QED
  BY <1>1, <1>2, <1>3 DEF Pairs

(* and with each entry that it copies. *)
LEMMA CopyKeepsPairs ==
  ASSUME IInv, CopyEntry
  PROVE  Pairs' = Pairs
<1>1. PICK n \in 0 .. MaxCapacity : old \in [0 .. n - 1 -> Slot]
  BY DEF IInv, TypeOK
<1>2. /\ DOMAIN old = 0 .. n - 1 /\ next \in 0 .. n - 1 /\ next' = next + 1
      /\ capacity' = capacity /\ old' = old /\ n \in Nat /\ Slots' = Slots
  BY <1>1, HashMapAssumption DEF CopyEntry, Slots
<1>3. Waiting' = Waiting \ {next}
  BY <1>2 DEF Waiting
<1>4. CASE old[next].key = Undef
  <2>1. entries' = entries
    BY <1>4 DEF CopyEntry
  <2>2. Waiting' = Waiting /\ Used' = Used
    BY <1>2, <1>3, <1>4, <2>1 DEF Waiting, Used
  <2>3. QED
    BY <1>2, <2>1, <2>2 DEF Pairs
<1>5. CASE old[next].key # Undef
  <2>1. /\ Insert(old[next].key, old[next].value)
        /\ old[next] \in Entry /\ next \in Waiting /\ capacity # 0
    <3>1. old[next] \in Entry
      BY <1>1, <1>2, <1>5 DEF Slot, Tombstone, Empty
    <3>2. capacity # 0
      <4>1. old # NoEntries
        BY <1>2, NoEntriesType
      <4>2. QED
        BY <4>1 DEF IInv, Phases
    <3>3. QED
      BY <1>2, <1>5, <3>1, <3>2 DEF CopyEntry, Waiting
  <2>2. PICK k \in Key, v \in Val : old[next] = [key |-> k, value |-> v]
    BY <2>1 DEF Entry
  <2>3. Insert(k, v) /\ old[next].key = k
    BY <2>1, <2>2
  <2>4. Stored' = {p \in Stored : p.key # k} \cup {old[next]}
    BY <1>2, <2>1, <2>2, <2>3, FreeSlot, InsertStores DEF IInv
  <2>5. \A p \in Stored : p.key # k
    BY <2>1, <2>3 DEF IInv, Apart, Stored
  <2>6. Stored' = Stored \cup {old[next]}
    BY <2>4, <2>5
  <2>7. Held = Held' \cup {old[next]}
    BY <1>2, <1>3, <2>1 DEF Held
  <2>8. QED
    BY <2>6, <2>7 DEF Pairs, Stored, Held
<1>6. QED
  BY <1>4, <1>5

(* mapRemoveKey() of a key that is present is the dictionary's Remove. *)
LEMMA RemoveRemoves ==
  ASSUME IInv, IInv', NEW k \in Key, MapRemoveKey(k)
  PROVE  Dict!Remove(k)
<1> DEFINE f == FindEntry(k)
           removed == [entries EXCEPT ![f] = Tombstone]
<1>1. /\ phase = "idle" /\ old = NoEntries /\ Waiting = {} /\ capacity # 0 /\ Found(k)
      /\ count = Cardinality(Used) /\ capacity \in Nat \ {0}
  <2>1. phase = "idle" /\ old = NoEntries /\ capacity # 0 /\ Found(k)
    BY DEF IInv, Phases, MapRemoveKey
  <2>2. Waiting = {}
    BY <2>1, NoEntriesType DEF Waiting
  <2>3. count = Cardinality(Used)
    BY <2>2, Finite, FS_EmptySet DEF IInv, CountOfEntries
  <2>4. QED
    BY <2>1, <2>2, <2>3, HashMapAssumption DEF IInv, TypeOK
<1>2. f \in Slots /\ entries[f].key = k /\ f \in Used
  <2>1. f \in Slots /\ entries[f].key = k
    BY <1>1, FreeSlot, FindEntrySpec DEF IInv
  <2>2. QED
    BY <2>1, HashMapAssumption DEF Used
<1>3. /\ result' = entries[f].value
      /\ count = 1 => entries' = NoEntries /\ capacity' = 0 /\ old' = old
      /\ count # 1 /\ TooFew(count - 1) => Resize(Shrunk, removed)
      /\ count # 1 /\ ~TooFew(count - 1) =>
           entries' = removed /\ capacity' = capacity /\ old' = old
  BY DEF MapRemoveKey
<1>4. /\ removed \in [Slots -> Slot] /\ removed[f] = Tombstone /\ Tombstone.key = Undef
      /\ \A i \in Slots : i # f => removed[i] = entries[i]
  BY <1>2 DEF IInv, TypeOK, Slot, Tombstone
<1> HIDE DEF f, removed
<1>5. /\ \A i \in Used : i # f <=> entries[i].key # k
      /\ \A p : p \in Stored <=> \E i \in Used : entries[i] = p
  BY <1>2 DEF IInv, Unique, Stored
<1>6. {j \in Slots : removed[j].key # Undef} = Used \ {f}
  BY <1>2, <1>4 DEF Used
<1>7. {removed[i] : i \in Used \ {f}} = {p \in Stored : p.key # k}
  <2>1. \A i \in Used \ {f} : removed[i] = entries[i]
    BY <1>4 DEF Used
  <2>2. ASSUME NEW p \in {removed[i] : i \in Used \ {f}}
        PROVE  p \in {q \in Stored : q.key # k}
    BY <1>5, <2>1
  <2>3. ASSUME NEW p \in {q \in Stored : q.key # k}
        PROVE  p \in {removed[i] : i \in Used \ {f}}
    BY <1>5, <2>1
  <2>4. QED
    BY <2>2, <2>3
<1>8. Pairs' = {p \in Stored : p.key # k}
  <2>1. CASE count = 1
    <3>1. Used' = {} /\ Waiting' = {}
      <4>1. entries' = NoEntries /\ capacity' = 0 /\ old' = NoEntries
        BY <1>1, <1>3, <2>1
      <4>2. QED
        BY <4>1, NoEntriesType DEF Used, Waiting, Slots
    <3>2. Used \ {f} = {}
      <4>1. IsFiniteSet(Used) /\ Cardinality(Used) = 1
        BY <1>1, <2>1, Finite DEF IInv
      <4>2. IsFiniteSet(Used \ {f}) /\ Cardinality(Used \ {f}) = 0
        BY <1>2, <4>1, FS_RemoveElement
      <4>3. QED
        BY <4>2, FS_EmptySet
    <3>3. QED
      BY <1>7, <3>1, <3>2 DEF Pairs
  <2>2. CASE count # 1 /\ TooFew(count - 1)
    <3>1. Resize(Shrunk, removed)
      BY <1>3, <2>2
    <3>2. Shrunk \in 1 .. MaxCapacity
      <4>1. capacity' = Shrunk /\ capacity' \in 0 .. MaxCapacity
        BY <3>1 DEF Resize, IInv, TypeOK
      <4>2. Shrunk # 0
        BY <1>1, HashMapAssumption DEF Shrunk, AtLeastMin, GROW_FACTOR
      <4>3. QED
        BY <4>1, <4>2, HashMapAssumption
    <3>3. PICK c, table : c = Shrunk /\ table = removed
      OBVIOUS
    <3>4. Pairs' = {table[i] : i \in {j \in Slots : table[j].key # Undef}}
      BY <1>4, <3>1, <3>2, <3>3, ResizeKeepsPairs DEF IInv
    <3>5. QED
      BY <1>6, <1>7, <3>3, <3>4
  <2>3. CASE count # 1 /\ ~TooFew(count - 1)
    <3>1. entries' = removed /\ capacity' = capacity /\ old' = NoEntries
      BY <1>1, <1>3, <2>3
    <3>2. Used' = Used \ {f} /\ Waiting' = {}
      BY <1>6, <3>1, NoEntriesType DEF Used, Slots, Waiting
    <3>3. QED
      BY <1>7, <3>1, <3>2 DEF Pairs
  <2>4. QED
    BY <2>1, <2>2, <2>3
<1>9. OneForAKey(Pairs) /\ OneForAKey(Pairs)'
  BY OnePairForAKey, PTL
<1>10. PICK S, T : S = Pairs /\ T = Pairs' /\ OneForAKey(S) /\ OneForAKey(T)
  BY <1>9 DEF OneForAKey
<1>11. Mapping(T) = Without(Mapping(S), k)
  <2>1. T = {p \in S : p.key # k}
    BY <1>1, <1>8, <1>10, OnlyTheTable
  <2>2. OneForAKey(S) /\ OneForAKey(T)
    BY <1>10
  <2>3. QED
    BY <2>1, <2>2, RemoveMapping
<1>12. Contents = Mapping(S) /\ Contents' = Mapping(T)
  BY <1>10 DEF Contents, Mapping
<1>13. k \in DOMAIN Contents /\ Contents[k] = entries[f].value
  BY <1>1, FoundInContents DEF f
<1>14. QED
  BY <1>3, <1>11, <1>12, <1>13 DEF Dict!Remove, Dict!Lookup, Without

-----------------------------------------------------------------------------
(* Steps that keep the pairs, and those that only read, are no step of the  *)
(* dictionary.                                                              *)
LEMMA SamePairs ==
  ASSUME Pairs' = Pairs
  PROVE  Contents' = Contents
BY DEF Contents, Mapping

(* mapSet() *)
LEMMA SetPuts ==
  ASSUME IInv, IInv', NEW k \in Key, NEW v \in Val, MapSet(k, v)
  PROVE  Dict!Put(k, v) \/ UNCHANGED Dict!vars
<1>1. phase = "idle" /\ old = NoEntries /\ Waiting = {}
  <2>1. phase = "idle" /\ old = NoEntries
    BY DEF IInv, Phases, MapSet
  <2>2. QED
    BY <2>1, NoEntriesType DEF Waiting
<1>2. CASE AboutToFill
  <2>1. Resize(Grown, entries) /\ result' = result
    BY <1>2 DEF MapSet
  <2>2. PICK c, table : c = Grown /\ table = entries
    OBVIOUS
  <2>3. c \in 1 .. MaxCapacity /\ table \in [Slots -> Slot]
    <3>1. c <= MaxCapacity
      BY <1>2, <2>2 DEF MapSet
    <3>2. c = IF capacity * 2 < MIN_CAPACITY THEN MIN_CAPACITY ELSE capacity * 2
      BY <2>2 DEF Grown, AtLeastMin, GROW_FACTOR
    <3>3. capacity \in Nat
      BY HashMapAssumption DEF IInv, TypeOK
    <3>4. c \in 1 .. MaxCapacity
      BY <3>1, <3>2, <3>3, HashMapAssumption
    <3>5. QED
      BY <2>2, <3>4 DEF IInv, TypeOK
  <2>4. Pairs' = {table[i] : i \in {j \in Slots : table[j].key # Undef}}
    BY <2>1, <2>2, <2>3, ResizeKeepsPairs DEF IInv
  <2>5. Pairs' = Pairs
    BY <1>1, <2>2, <2>4 DEF Pairs, Used
  <2>6. QED
    BY <2>1, <2>5, SamePairs DEF Dict!vars
<1>3. CASE ~AboutToFill
  <2>1. SetEntry(k, v) /\ old' = old
    BY <1>3 DEF MapSet
  <2>2. capacity # 0
    <3>1. count \in Nat
      BY DEF IInv, TypeOK
    <3>2. QED
      BY <1>3, <3>1 DEF AboutToFill, MAP_LOAD_PERCENT
  <2>3. QED
    BY <1>1, <1>3, <2>1, <2>2, SetEntryPuts
<1>4. QED
  BY <1>2, <1>3

LEMMA SetResizedPuts ==
  ASSUME IInv, IInv', MapSetResized
  PROVE  \E k \in Key, v \in Val : Dict!Put(k, v)
<1>1. /\ phase = "set" /\ next \notin DOMAIN old /\ old' = NoEntries
      /\ SetEntry(arg.key, arg.value)
  BY DEF MapSetResized, Resized
<1>2. PICK k \in Key, v \in Val : k = arg.key /\ v = arg.value
  BY <1>1 DEF IInv, Phases, Entry
<1>3. Waiting = {} /\ ~AboutToFill /\ capacity # 0
  BY <1>1, NothingWaiting DEF IInv, Load, Phases
<1>4. SetEntry(k, v)
  BY <1>1, <1>2
<1>5. QED
  BY <1>1, <1>3, <1>4, SetEntryPuts

(* mapGet(), and mapRemoveKey() of an absent key. *)
LEMMA GetGets ==
  ASSUME IInv, NEW k \in Key, MapGet(k)
  PROVE  Dict!Get(k)
<1>1. phase = "idle" /\ UNCHANGED <<entries, capacity, count, old, next, phase, arg>>
  BY DEF MapGet
<1>2. Waiting = {} /\ Pairs' = Pairs
  BY <1>1, NoEntriesType DEF IInv, Phases, Waiting, Pairs, Used, Slots
<1>3. Contents' = Contents
  BY <1>2, SamePairs
<1>4. QED
  BY <1>2, <1>3, FoundInContents DEF MapGet, Dict!Get, Dict!Lookup

LEMMA RemoveAbsentRemoves ==
  ASSUME IInv, NEW k \in Key, MapRemoveAbsent(k)
  PROVE  Dict!Remove(k)
<1>1. /\ phase = "idle" /\ UNCHANGED <<entries, capacity, count, old, next, phase, arg>>
      /\ result' = Null /\ ~(capacity # 0 /\ Found(k))
  BY DEF MapRemoveAbsent
<1>2. Waiting = {} /\ Pairs' = Pairs
  BY <1>1, NoEntriesType DEF IInv, Phases, Waiting, Pairs, Used, Slots
<1>3. Contents' = Contents
  BY <1>2, SamePairs
<1>4. k \notin DOMAIN Contents
  BY <1>1, <1>2, FoundInContents
<1>5. Contents = [j \in DOMAIN Contents |-> Contents[j]]
  BY OnePairForAKey, MappingValues DEF Contents
<1>6. Contents = [j \in DOMAIN Contents \ {k} |-> Contents[j]]
  BY <1>4, <1>5
<1>7. QED
  BY <1>1, <1>3, <1>4, <1>6 DEF Dict!Remove

(* The table implements the dictionary, for every set of keys and values,   *)
(* every hash function and every table size: neither collisions, tombstones *)
(* nor the copying into a new table can lose, keep or confuse an entry.     *)
THEOREM MapImplementsDictionary == Spec => MapIsDictionary
<1>1. Init => Dict!Init
  <2> SUFFICES ASSUME Init
               PROVE  Dict!Init
    OBVIOUS
  <2>1. Used = {} /\ Waiting = {}
    BY NoEntriesType, HashMapAssumption DEF Init, Used, Waiting, Slots
  <2>2. Pairs = {}
    BY <2>1 DEF Pairs
  <2>3. Mapping(Pairs) = [k \in {} |-> Undef]
    BY <2>2 DEF Mapping
  <2>4. QED
    BY <2>3 DEF Init, Dict!Init, Contents
<1>2. IInv /\ IInv' /\ [Next]_vars => [Dict!Next]_(Dict!vars)
  <2> SUFFICES ASSUME IInv, IInv', [Next]_vars
               PROVE  Dict!Next \/ UNCHANGED Dict!vars
    OBVIOUS
  <2>1. ASSUME NEW k \in Key, NEW v \in Val, MapSet(k, v)
        PROVE  Dict!Next \/ UNCHANGED Dict!vars
    BY <2>1, SetPuts DEF Dict!Next
  <2>2. ASSUME NEW k \in Key, MapGet(k)
        PROVE  Dict!Next
    BY <2>2, GetGets DEF Dict!Next
  <2>3. ASSUME NEW k \in Key, MapRemoveAbsent(k)
        PROVE  Dict!Next
    BY <2>3, RemoveAbsentRemoves DEF Dict!Next
  <2>4. ASSUME NEW k \in Key, MapRemoveKey(k)
        PROVE  Dict!Next
    BY <2>4, RemoveRemoves DEF Dict!Next
  <2>5. CASE CopyEntry
    BY <2>5, CopyKeepsPairs, SamePairs DEF CopyEntry, Dict!vars
  <2>6. CASE MapSetResized
    BY <2>6, SetResizedPuts DEF Dict!Next
  <2>7. CASE MapRemoveResized
    <3>1. /\ entries' = entries /\ capacity' = capacity /\ old' = NoEntries
          /\ next \notin DOMAIN old /\ result' = result
      BY <2>7 DEF MapRemoveResized, Resized
    <3>2. Used' = Used /\ Waiting' = {} /\ Waiting = {}
      BY <3>1, NothingWaiting, NoEntriesType DEF IInv, Used, Slots, Waiting
    <3>3. Pairs' = Pairs
      BY <3>1, <3>2 DEF Pairs
    <3>4. QED
      BY <3>1, <3>3, SamePairs DEF Dict!vars
  <2>8. CASE UNCHANGED vars
    BY <2>8, SamePairs DEF vars, Pairs, Used, Waiting, Slots, Dict!vars
  <2>9. QED
    BY <2>1, <2>2, <2>3, <2>4, <2>5, <2>6, <2>7, <2>8 DEF Next
<1>3. QED
  BY <1>1, <1>2, Invariant, PTL DEF Spec, MapIsDictionary, Dict!Spec
=============================================================================
