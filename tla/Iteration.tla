------------------------------ MODULE Iteration ------------------------------
(* The sequences of a program and the for loop over them: the buffers that   *)
(* hold the elements of lists (pk_buffers.h, pk_var.c), their subscripts and *)
(* sums (pk_core.c), and the instructions OP_ITER_TEST and OP_ITER, whose    *)
(* body may change what is iterated.  A map is the table of HashMap.         *)
(*                                                                           *)
(* Numbers are counted in halves: 2 is one, 1 is a half.                     *)
EXTENDS Integers, Sequences, FiniteSets, SequencesExt

CONSTANTS
  Value,          \* The values of elements.
  Junk,           \* What a buffer holds where nothing was written.
  Error,          \* The result of an operation that fails.
  Key, Undef, Null, Hash, MaxCapacity, \* Of HashMap, its values being 1.
  MIN_CAPACITY,
  Subjects,       \* The kinds of sequence a run works on.
  Texts, Ranges,  \* The strings, and the ranges, pairs of numbers.
  MaxLists, MaxElements, \* Bounds: the lists, and the elements of all of them.
  MaxChanges,     \* Bound, by subject: the changes made during a loop.
  MaxIteration    \* Bound: the iterations of a loop.

GROW_FACTOR == 2

ASSUME IterationAssumption ==
  /\ Junk \notin Value /\ Error \notin Value /\ Undef \notin Key
  /\ Subjects \subseteq {"list", "map", "string", "range"}
  /\ {MIN_CAPACITY, MaxLists, MaxElements, MaxIteration} \subseteq Nat
  /\ MaxChanges \in [Subjects -> Nat]

VARIABLES
  subject,  \* The kind of sequence worked on.
  lists,    \* The elements of each list: a pkVarBuffer.
  sum,      \* The list that is the value of an addition, or 0.
  result,   \* The value of a subscript.
  text, range,                                        \* A string and a range.
  entries, capacity, count, old, next, phase, arg, found, \* A map, see HashMap.
  at,       \* "straight", "iterate", "body" or "done": where the loop is.
  over,     \* The list iterated.
  iterator, \* The local @iterator of the loop.
  visited,  \* Followed: the values the loop variable had.
  changes,  \* Followed: the changes made in the body.
  shrunk, moved, \* Followed: in the loop, an element was removed, the table rebuilt.
  stayed    \* Followed: the keys that were in the map ever since the loop began.

map == <<entries, capacity, count, old, next, phase, arg, found>>
loop == <<at, over, iterator, visited, changes, shrunk, moved, stayed>>
vars == <<subject, lists, sum, result, text, range, map, loop>>

M == INSTANCE HashMap WITH Val <- {1}, result <- found

-----------------------------------------------------------------------------
(* pk_buffers.h: an element is at its index plus one; the capacity is the    *)
(* length of the data.                                                       *)

(* utilPowerOf2Ceil() *)
PowerOf2Ceil(n) == CHOOSE p \in {2 ^ k : k \in 0 .. n} : p >= n /\ p < 2 * n

Junks(n) == [i \in 1 .. n |-> Junk]
EmptyBuffer == [data |-> <<>>, count |-> 0]

(* pkVarBufferReserve() *)
Reserve(b, size) ==
  LET ceil == PowerOf2Ceil(size)
      new  == IF ceil < MIN_CAPACITY THEN MIN_CAPACITY ELSE ceil
  IN  IF Len(b.data) >= size THEN b
      ELSE [b EXCEPT !.data = @ \o Junks(new - Len(@))]

(* pkVarBufferWrite() *)
Write(b, v) ==
  LET r == Reserve(b, b.count + 1)
  IN  [data |-> [r.data EXCEPT ![b.count + 1] = v], count |-> b.count + 1]

(* pkVarBufferConcat() *)
Concat(b, c) ==
  LET r == Reserve(b, b.count + c.count)
  IN  [data  |-> [i \in DOMAIN r.data |->
                    IF i - b.count \in 1 .. c.count THEN c.data[i - b.count] ELSE r.data[i]],
       count |-> b.count + c.count]

(* newList(): the nulls it fills the buffer with are not elements. *)
NewBuffer(size) == IF size > 0 THEN Reserve(EmptyBuffer, size) ELSE EmptyBuffer

(* What is read at an index; beyond the buffer it is not of it. *)
Read(b, index) == IF index < Len(b.data) THEN b.data[index + 1] ELSE Junk

Elements(b) == SubSeq(b.data, 1, b.count)

-----------------------------------------------------------------------------
(* The lists. *)

List == 1 .. Len(lists)

(* A fault: each element is overwritten by the one before it in turn. *)
InsertedAscending(b, index, v) ==
  LET w == Write(b, v)
  IN  [w EXCEPT !.data = [i \in DOMAIN w.data |-> IF i > index /\ i <= w.count THEN v ELSE w.data[i]]]

(* listInsert(): the elements from the index on are shifted, from the last.  *)
Inserted(b, index, v) ==
  LET w == Write(b, Junk)
  IN  [w EXCEPT !.data = [i \in DOMAIN w.data |->
                            CASE i = index + 1 -> v
                              [] i > index + 1 /\ i <= w.count -> w.data[i - 1]
                              [] OTHER -> w.data[i]]]

(* listRemoveAt(): the elements after the index are shifted, from the first. *)
(* The buffer is shrunk before the count is; what is left at the last        *)
(* element's place is not an element.                                        *)
Removed(b, index) ==
  LET data == [i \in DOMAIN b.data |->
                 CASE i > index /\ i < b.count -> b.data[i + 1]
                   [] i = b.count -> Junk
                   [] OTHER -> b.data[i]]
      half == Len(data) \div GROW_FACTOR
  IN  [data  |-> IF half >= b.count THEN SubSeq(data, 1, half) ELSE data,
       count |-> b.count - 1]

(* rangeAsList(): room for the whole part of the difference, and the numbers *)
(* up to the end of the range; none if the range goes down.                  *)
RangeAsList(r) ==
  LET numbers == [i \in 1 .. (r.to - r.from + 1) \div 2 |-> r.from + 2 * (i - 1)]
  IN  IF r.from < r.to
      THEN FoldLeft(Write, NewBuffer((r.to - r.from) \div 2), numbers)
      ELSE NewBuffer(0)

(* The value of the expression before is popped. *)
Popped == sum' = 0 /\ result' = Null

(* The body of a loop may change what it iterates, so often. *)
Changing ==
  /\ at \in {"straight", "body"}
  /\ phase = "idle"
  /\ at = "body" => changes < MaxChanges[subject]
  /\ changes' = IF at = "body" THEN changes + 1 ELSE changes

(* There is room for n more elements. *)
Room(n) == FoldLeft(LAMBDA total, b : total + b.count, n, lists) <= MaxElements

(* OP_PUSH_LIST of the size of the literal, then OP_LIST_APPEND of each. *)
PushList(n) ==
  /\ at = "straight" /\ subject = "list"
  /\ Len(lists) < MaxLists
  /\ Room(n)
  /\ \E elements \in [1 .. n -> Value] :
       lists' = Append(lists, FoldLeft(Write, NewBuffer(n), elements))
  /\ Popped
  /\ UNCHANGED <<subject, text, range, map, loop>>

(* list_append() *)
ListAppend(l, v) ==
  /\ Changing
  /\ Room(1)
  /\ lists' = [lists EXCEPT ![l] = Write(@, v)]
  /\ Popped
  /\ UNCHANGED <<subject, text, range, map,
                 at, over, iterator, visited, shrunk, moved, stayed>>

ListInsert(l, index, v) ==
  /\ Changing
  /\ Room(1)
  /\ index <= lists[l].count
  /\ lists' = [lists EXCEPT ![l] = Inserted(@, index, v)]
  /\ shrunk' = (at = "body")
  /\ Popped
  /\ UNCHANGED <<subject, text, range, map,
                 at, over, iterator, visited, moved, stayed>>

ListRemoveAt(l, index) ==
  /\ Changing
  /\ index < lists[l].count
  /\ lists' = [lists EXCEPT ![l] = Removed(@, index)]
  /\ shrunk' = (at = "body")
  /\ Popped
  /\ UNCHANGED <<subject, text, range, map,
                 at, over, iterator, visited, moved, stayed>>

(* validateInteger() and validateIndex() *)
ValidIndex(i, size) == i % 2 = 0 /\ i >= 0 /\ i \div 2 < size

(* varGetSubscript() of a list and of a string; of a map it is MapGet. *)
GetSubscript(l, i) ==
  /\ at = "straight"
  /\ result' = IF ValidIndex(i, lists[l].count) THEN Read(lists[l], i \div 2) ELSE Error
  /\ sum' = 0
  /\ UNCHANGED <<subject, lists, text, range, map, loop>>

GetCharacter(i) ==
  /\ at = "straight" /\ subject = "string"
  /\ result' = IF ValidIndex(i, Len(text)) THEN text[i \div 2 + 1] ELSE Error
  /\ UNCHANGED <<subject, lists, sum, text, range, map, loop>>

(* varsetSubscript() *)
SetSubscript(l, i, v) ==
  /\ Changing
  /\ IF ValidIndex(i, lists[l].count)
     THEN lists' = [lists EXCEPT ![l].data[i \div 2 + 1] = v] /\ result' = v
     ELSE result' = Error /\ UNCHANGED lists
  /\ sum' = 0
  /\ UNCHANGED <<subject, text, range, map,
                 at, over, iterator, visited, shrunk, moved, stayed>>

(* varAdd() of lists, listJoin(): an operand itself if the other is empty. *)
ListJoin(l, m) ==
  /\ at = "straight"
  /\ CASE lists[l].count = 0 -> sum' = m /\ UNCHANGED lists
       [] lists[l].count # 0 /\ lists[m].count = 0 -> sum' = l /\ UNCHANGED lists
       [] OTHER ->
            LET size == lists[l].count + lists[m].count
            IN  /\ Len(lists) < MaxLists
                /\ Room(size)
                /\ lists' = Append(lists, Concat(Concat(NewBuffer(size), lists[l]), lists[m]))
                /\ sum' = Len(lists')
  /\ result' = Null
  /\ UNCHANGED <<subject, text, range, map, loop>>

(* The attribute as_list of a range. *)
GetAsList ==
  /\ at = "straight" /\ subject = "range"
  /\ Len(lists) < MaxLists
  /\ lists' = Append(lists, RangeAsList(range))
  /\ Popped
  /\ UNCHANGED <<subject, text, range, map, loop>>

Worked == IF subject = "list" THEN List ELSE {}

ListOperation ==
  \/ \E n \in 0 .. MaxElements : PushList(n)
  \/ \E l \in Worked :
       \/ \E v \in Value : ListAppend(l, v)
       \/ \E i \in 0 .. MaxElements : ListRemoveAt(l, i) \/ \E v \in Value : ListInsert(l, i, v)
       \/ \E i \in -1 .. 2 * MaxElements :
            GetSubscript(l, i) \/ \E v \in Value : SetSubscript(l, i, v)
       \/ \E m \in List : ListJoin(l, m)

-----------------------------------------------------------------------------
(* The map: OP_MAP_INSERT or an assignment, and map_remove().  A table that  *)
(* is resized is rebuilt in steps.                                           *)

UsedKeys == {entries[i].key : i \in DOMAIN entries} \ {Undef}

MapOperation ==
  /\ Changing /\ subject = "map"
  /\ \E k \in Key :
       \/ M!MapSet(k, 1) /\ UNCHANGED stayed
       \/ (M!MapRemoveAbsent(k) \/ M!MapRemoveKey(k)) /\ stayed' = stayed \ {k}
  /\ moved' = (moved \/ (at = "body" /\ capacity' # capacity))
  /\ UNCHANGED <<subject, lists, sum, result, text, range,
                 at, over, iterator, visited, shrunk>>

MapResizing ==
  /\ M!CopyEntry \/ M!MapSetResized \/ M!MapRemoveResized
  /\ UNCHANGED <<subject, lists, sum, result, text, range, loop>>

-----------------------------------------------------------------------------
(* The loop. *)

(* OP_ITER_TEST of a value that is not an object. *)
NotIterable ==
  /\ at = "straight"
  /\ result' = Error
  /\ sum' = 0
  /\ UNCHANGED <<subject, lists, text, range, map, loop>>

(* The locals @Sequence, @iterator and the loop variable are pushed, and     *)
(* OP_ITER_TEST finds an object.                                             *)
StartLoop(l) ==
  /\ at = "straight"
  /\ phase = "idle"
  /\ at' = "iterate"
  /\ over' = l
  /\ iterator' = 0
  /\ visited' = <<>>
  /\ changes' = 0
  /\ shrunk' = FALSE
  /\ moved' = FALSE
  /\ stayed' = UsedKeys
  /\ Popped
  /\ UNCHANGED <<subject, lists, text, range, map>>

(* OP_ITER finds a value, and where to go on after it; or there is no more.  *)
Visit(value, n) ==
  /\ visited' = Append(visited, value)
  /\ iterator' = n
  /\ at' = "body"

Exit ==
  /\ at' = "done"
  /\ UNCHANGED <<iterator, visited>>

IterText ==
  IF iterator >= Len(text) THEN Exit ELSE Visit(text[iterator + 1], iterator + 1)

IterList ==
  IF iterator >= lists[over].count THEN Exit
  ELSE Visit(Read(lists[over], iterator), iterator + 1)

(* The slots from the iterator on that hold a key. *)
Ahead == {i \in DOMAIN entries : i >= iterator /\ entries[i].key # Undef}

(* A fault: the iterator counts the keys, not the slots. *)
IterMapByCount ==
  IF Ahead = {} THEN Exit
  ELSE LET slot == CHOOSE i \in Ahead : \A j \in Ahead : i <= j
       IN  Visit(entries[slot].key, iterator + 1)

IterMap ==
  IF Ahead = {} THEN Exit
  ELSE LET slot == CHOOSE i \in Ahead : \A j \in Ahead : i <= j
       IN  Visit(entries[slot].key, slot + 1)

(* A fault: a range that goes down is counted up. *)
IterRangeEndless ==
  LET current == range.from + 2 * iterator
  IN  IF range.from = range.to \/ current = range.to THEN Exit ELSE Visit(current, iterator + 1)

(* A range goes up or down, until it is at its end exactly. *)
IterRange ==
  LET current == IF range.from <= range.to THEN range.from + 2 * iterator
                                           ELSE range.from - 2 * iterator
  IN  IF range.from = range.to \/ current = range.to THEN Exit
      ELSE Visit(current, iterator + 1)

Iter ==
  /\ at = "iterate"
  /\ CASE subject = "string" -> IterText
       [] subject = "list"   -> IterList
       [] subject = "map"    -> IterMap
       [] subject = "range"  -> IterRange
  /\ UNCHANGED <<subject, lists, sum, result, text, range, map,
                 over, changes, shrunk, moved, stayed>>

(* OP_LOOP, at the end of the body. *)
EndBody ==
  /\ at = "body"
  /\ iterator < MaxIteration
  /\ phase = "idle"
  /\ at' = "iterate"
  /\ UNCHANGED <<subject, lists, sum, result, text, range, map,
                 over, iterator, visited, changes, shrunk, moved, stayed>>

(* After the last iteration, or a break, the locals of the loop are popped. *)
EndLoop ==
  /\ at \in {"body", "done"}
  /\ phase = "idle"
  /\ at' = "straight"
  /\ over' = 0
  /\ iterator' = 0
  /\ visited' = <<>>
  /\ changes' = 0
  /\ shrunk' = FALSE
  /\ moved' = FALSE
  /\ stayed' = {}
  /\ UNCHANGED <<subject, lists, sum, result, text, range, map>>

Init ==
  /\ subject \in Subjects
  /\ lists = <<>>
  /\ sum = 0
  /\ result = Null
  /\ text \in IF subject = "string" THEN Texts ELSE {<<>>}
  /\ range \in IF subject = "range" THEN Ranges ELSE {[from |-> 0, to |-> 0]}
  /\ M!Init
  /\ at = "straight"
  /\ over = 0
  /\ iterator = 0
  /\ visited = <<>>
  /\ changes = 0
  /\ shrunk = FALSE
  /\ moved = FALSE
  /\ stayed = {}

Next ==
  \/ ListOperation
  \/ \E i \in -1 .. 2 * MaxElements : GetCharacter(i)
  \/ GetAsList
  \/ MapOperation
  \/ MapResizing
  \/ \E l \in IF subject = "list" THEN List ELSE {0} : StartLoop(l)
  \/ NotIterable
  \/ Iter
  \/ EndBody
  \/ EndLoop

(* The interpreter goes on: a resize with its copying, a loop with its next  *)
(* iteration.  Nothing need happen in the body.                              *)
Spec == Init /\ [][Next]_vars /\ WF_vars(MapResizing) /\ WF_vars(Iter) /\ WF_vars(EndBody)

-----------------------------------------------------------------------------
(* Properties *)

PowersOf2 == {2 ^ k : k \in 0 .. MaxElements}

TypeOK ==
  /\ subject \in Subjects
  /\ Len(lists) <= MaxLists
  /\ \A l \in List : /\ lists[l].count \in 0 .. Len(lists[l].data)
                     /\ Len(lists[l].data) \in PowersOf2 \cup {0}
  /\ sum \in 0 .. Len(lists)
  /\ at \in {"straight", "iterate", "body", "done"}
  /\ iterator \in 0 .. MaxIteration
  /\ changes \in 0 .. MaxChanges[subject]
  /\ M!TypeOK

Element == Value \cup {r.from + 2 * i : r \in Ranges, i \in 0 .. MaxElements}

(* Whatever room buffers get and lose, the lists of a program are sequences: *)
(* the loops that shift elements, the copies at a growth, the shrinking      *)
(* before the count is, and sums (pk_var.c, listInsert() to listJoin()).     *)
Implemented == INSTANCE Lists WITH
                 Value <- Element,
                 content <- [l \in List |-> Elements(lists[l])]

ListsAreSequences == Implemented!Spec

(* No value is made of memory that was not written: an element, what a       *)
(* subscript gives, what a loop visits.                                      *)
NoJunkRead ==
  /\ \A l \in List : \A i \in 1 .. lists[l].count : lists[l].data[i] # Junk
  /\ result # Junk
  /\ \A i \in 1 .. Len(visited) : visited[i] # Junk

(* What a loop visits that nothing was inserted in or removed from. *)
Counted(r) ==
  LET n == IF r.from <= r.to THEN r.to - r.from ELSE r.from - r.to
  IN  [i \in 1 .. n \div 2 |-> IF r.from <= r.to THEN r.from + 2 * (i - 1)
                                               ELSE r.from - 2 * (i - 1)]

(* A loop to its end over a string, a list or a range visits all of it in    *)
(* order; over a list that grows in the body, what was appended as well.     *)
LoopsVisitInOrder ==
  at = "done" =>
    CASE subject = "string" -> visited = text
      [] subject = "range"  -> visited = Counted(range)
      [] subject = "list"   -> /\ ~shrunk => Len(visited) = lists[over].count
                               /\ changes = 0 => visited = Elements(lists[over])
      [] OTHER              -> TRUE

(* OP_ITER keeps a slot of the table between iterations.  A body may insert  *)
(* and remove keys as it likes: unless the table is rebuilt, each key that   *)
(* is there throughout is visited, and once.                                 *)
StayingKeysAreVisited ==
  at = "done" /\ subject = "map" /\ ~moved =>
    \A k \in stayed : Cardinality({i \in 1 .. Len(visited) : visited[i] = k}) = 1

(* Whatever is read is there, and loops visit all they should. *)
LoopsVisitAll == TypeOK /\ NoJunkRead /\ LoopsVisitInOrder /\ StayingKeysAreVisited

(* A loop whose body makes finitely many changes ends, if a range ends at a  *)
(* whole number of steps.                                                    *)
Endless == subject = "range" /\ (range.to - range.from) % 2 # 0

LoopsEnd == at \in {"iterate", "body"} /\ ~Endless ~> at \in {"straight", "done"}
=============================================================================
