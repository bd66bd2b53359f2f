------------------------------- MODULE HashMap -------------------------------
(***************************************************************************)
(* The map object of pk_var.c: open addressing with linear probing.  A     *)
(* removed entry becomes a tombstone, which later lookups step over and    *)
(* insertions fill again; the table is rebuilt without them when it grows  *)
(* or shrinks.                                                             *)
(*                                                                         *)
(* A key stands for the values isValuesEqual() does not tell apart.  The   *)
(* loop of _mapResize() that copies the old entries is a step per entry;   *)
(* a probe of _mapFindEntry() is a single definition.                      *)
(***************************************************************************)
EXTENDS Naturals, FiniteSets, FiniteSetsExt

CONSTANTS
  Key,            (* the hashable keys                                      *)
  Val,            (* the values                                             *)
  Undef, Null,    (* VAR_UNDEFINED, VAR_NULL                                *)
  Hash,           (* varHashValue() of each key                             *)
  MIN_CAPACITY,
  MaxCapacity     (* bound: the largest table                               *)

GROW_FACTOR == 2
MAP_LOAD_PERCENT == 75

ASSUME HashMapAssumption ==
  /\ Undef \notin Key
  /\ Undef \notin Val
  /\ Null # Undef
  /\ Hash \in [Key -> Nat]
  /\ MIN_CAPACITY \in Nat \ {0, 1}
  /\ MaxCapacity \in Nat

VARIABLES
  entries,    (* self->entries, with self->capacity slots                   *)
  capacity,   (* self->capacity                                             *)
  count,      (* self->count                                                *)
  old,        (* old_entries, while _mapResize() copies them                *)
  next,       (* the index its loop is at                                   *)
  phase,      (* "idle", or the operation that is resizing the table        *)
  arg,        (* the key and the value mapSet() inserts once it has resized *)
  result      (* what mapGet() or mapRemoveKey() returned last              *)

vars == <<entries, capacity, count, old, next, phase, arg, result>>

(* A fault: a removed entry that looks like one that was never used.  (The  *)
(* definitions said to be faults are only there to see that the properties  *)
(* below detect them.)                                                       *)
EmptyTombstone == [key |-> Undef, value |-> FALSE]

Tombstone == [key |-> Undef, value |-> TRUE]
Empty     == [key |-> Undef, value |-> FALSE]
Entry     == [key : Key, value : Val]

(* An entry of the table, or what marks that there is none. *)
Slot == Entry \cup {Tombstone, Empty}

NoEntries == [i \in {} |-> Empty]

-----------------------------------------------------------------------------
(* _mapFindEntry() *)

Slots == 0 .. capacity - 1

(* The slot of the d-th probe for a key, modulo the capacity. *)
Probe(k, d) ==
  LET start == Hash[k] % capacity
  IN  IF start + d < capacity THEN start + d ELSE start + d - capacity

At(k, d) == entries[Probe(k, d)]

(* The probes the loop ends at: the key, or a slot that was never used. *)
Stops(k) == {d \in Slots : At(k, d).key = k \/ At(k, d) = Empty}

(* The probes it makes before. *)
Passed(k) == {d \in Slots : \A s \in Stops(k) : d < s}

Tombs(k) == {d \in Passed(k) : At(k, d) = Tombstone}

Found(k) == Stops(k) # {} /\ At(k, Min(Stops(k))).key = k

(* A fault: a tombstone is taken although the key follows it. *)
FirstTombstone(k) ==
  Probe(k, IF Tombs(k) # {} THEN Min(Tombs(k)) ELSE Min(Stops(k)))

(* The slot of the key or, if it is absent, the slot to insert it in: the   *)
(* first tombstone before the first free slot, if there is one.  (If there  *)
(* is neither, the code asserts, then returns NULL.)                        *)
FindEntry(k) ==
  Probe(k, IF Tombs(k) # {} /\ ~Found(k) THEN Min(Tombs(k)) ELSE Min(Stops(k)))

(* _mapInsertEntry() *)
Insert(k, v) == entries' = [entries EXCEPT ![FindEntry(k)] = [key |-> k, value |-> v]]

-----------------------------------------------------------------------------
(* Resizing. *)

(* A fault: a new key may fill the last slot. *)
AboutToOverflow == count + 1 > capacity

(* One more key would pass the load percentage. *)
AboutToFill == count + 1 > (capacity * MAP_LOAD_PERCENT) \div 100

AtLeastMin(c) == IF c < MIN_CAPACITY THEN MIN_CAPACITY ELSE c

Grown == AtLeastMin(capacity * GROW_FACTOR)

Shrunk == AtLeastMin(capacity \div (GROW_FACTOR * GROW_FACTOR))

(* n entries are so few that the table is shrunk. *)
TooFew(n) ==
  /\ capacity > MIN_CAPACITY
  /\ capacity \div (GROW_FACTOR * GROW_FACTOR) > (n * 100) \div MAP_LOAD_PERCENT

(* _mapResize(): the new table is empty, the given entries are to be copied. *)
Resize(c, table) ==
  /\ entries' = [i \in 0 .. c - 1 |-> Empty]
  /\ capacity' = c
  /\ old' = table
  /\ next' = 0

(* The loop of _mapResize(): tombstones and free slots are skipped. *)
CopyEntry ==
  /\ next \in DOMAIN old
  /\ next' = next + 1
  /\ IF old[next].key = Undef
     THEN UNCHANGED entries
     ELSE Insert(old[next].key, old[next].value)
  /\ UNCHANGED <<capacity, count, old, phase, arg, result>>

(* Its end: the old entries are freed. *)
Resized ==
  /\ next \notin DOMAIN old
  /\ old' = NoEntries
  /\ next' = 0

-----------------------------------------------------------------------------
(* The operations. *)

Init ==
  /\ entries = NoEntries
  /\ capacity = 0
  /\ count = 0
  /\ old = NoEntries
  /\ next = 0
  /\ phase = "idle"
  /\ arg = [key |-> Undef, value |-> Undef]
  /\ result = Undef

(* The insertion at the end of mapSet(). *)
SetEntry(k, v) ==
  /\ Insert(k, v)
  /\ count' = IF Found(k) THEN count ELSE count + 1
  /\ phase' = "idle"
  /\ arg' = [key |-> Undef, value |-> Undef]
  /\ UNCHANGED <<capacity, result>>

(* mapSet(), when it does not resize and when it does. *)
MapSet(k, v) ==
  /\ phase = "idle"
  /\ IF AboutToFill
     THEN /\ Grown <= MaxCapacity
          /\ Resize(Grown, entries)
          /\ phase' = "set"
          /\ arg' = [key |-> k, value |-> v]
          /\ UNCHANGED <<count, result>>
     ELSE SetEntry(k, v) /\ UNCHANGED <<old, next>>

MapSetResized ==
  /\ phase = "set"
  /\ Resized
  /\ SetEntry(arg.key, arg.value)

(* mapGet() *)
MapGet(k) ==
  /\ phase = "idle"
  /\ result' = IF capacity # 0 /\ Found(k) THEN entries[FindEntry(k)].value ELSE Undef
  /\ UNCHANGED <<entries, capacity, count, old, next, phase, arg>>

(* mapRemoveKey() of an absent key, *)
MapRemoveAbsent(k) ==
  /\ phase = "idle"
  /\ capacity = 0 \/ ~Found(k)
  /\ result' = Null
  /\ UNCHANGED <<entries, capacity, count, old, next, phase, arg>>

(* and of a present one: the last one leaves no table, and the table is      *)
(* rebuilt if few are left.                                                 *)
MapRemoveKey(k) ==
  /\ phase = "idle"
  /\ capacity # 0
  /\ Found(k)
  /\ LET removed == [entries EXCEPT ![FindEntry(k)] = Tombstone]
     IN  /\ result' = entries[FindEntry(k)].value
         /\ count' = count - 1
         /\ IF count = 1
            THEN /\ entries' = NoEntries
                 /\ capacity' = 0
                 /\ UNCHANGED <<old, next, phase>>
            ELSE IF TooFew(count - 1)
            THEN Resize(Shrunk, removed) /\ phase' = "remove"
            ELSE entries' = removed /\ UNCHANGED <<capacity, old, next, phase>>
  /\ UNCHANGED arg

MapRemoveResized ==
  /\ phase = "remove"
  /\ Resized
  /\ phase' = "idle"
  /\ UNCHANGED <<entries, capacity, count, arg, result>>

Next ==
  \/ \E k \in Key, v \in Val : MapSet(k, v)
  \/ \E k \in Key : MapGet(k) \/ MapRemoveAbsent(k) \/ MapRemoveKey(k)
  \/ CopyEntry
  \/ MapSetResized
  \/ MapRemoveResized

Spec == Init /\ [][Next]_vars

-----------------------------------------------------------------------------
(* Properties. *)

TypeOK ==
  /\ capacity \in 0 .. MaxCapacity
  /\ entries \in [Slots -> Slot]
  /\ count \in Nat
  /\ \E n \in 0 .. MaxCapacity : old \in [0 .. n - 1 -> Slot]
  /\ next \in Nat
  /\ phase \in {"idle", "set", "remove"}
  /\ arg \in Entry \cup {[key |-> Undef, value |-> Undef]}
  /\ result \in Val \cup {Undef, Null}

Used == {i \in Slots : entries[i].key # Undef}
Waiting == {i \in DOMAIN old : i >= next /\ old[i].key # Undef}

(* A key sits in one slot, and probing for it finds that slot: no free slot *)
(* lies on the way, whatever was removed, inserted and copied before.       *)
EveryKeyFound ==
  \A i \in Used : Found(entries[i].key) /\ FindEntry(entries[i].key) = i

(* The count is that of the entries in the table and of those still to be   *)
(* copied.                                                                  *)
CountOfEntries == count = Cardinality(Used) + Cardinality(Waiting)

(* The table is never so full that the probes for an absent key find no      *)
(* slot for it, where _mapFindEntry() would return no entry.                *)
RoomLeft ==
  /\ phase # "set" => count <= (capacity * MAP_LOAD_PERCENT) \div 100
  /\ phase = "set" => ~AboutToFill
  /\ capacity # 0 => \A k \in Key : Stops(k) # {} \/ Tombs(k) # {}

(* The map is a dictionary of the entries in the table and of those still   *)
(* to be copied.                                                            *)
Pairs == {entries[i] : i \in Used} \cup {old[i] : i \in Waiting}

Mapping(pairs) == [k \in {p.key : p \in pairs} |-> (CHOOSE p \in pairs : p.key = k).value]

Contents == Mapping(Pairs)

Dict == INSTANCE Dictionary WITH dict <- Contents, Absent <- Undef

MapIsDictionary == Dict!Spec
=============================================================================
