-------------------------------- MODULE Lists --------------------------------
(* What the lists of a program promise: each is a sequence, changed in one   *)
(* place at a time, and no operation on one changes another.                 *)
EXTENDS Naturals, Sequences

CONSTANT Value

VARIABLES
  content, \* The sequence each list is, by the list's number.
  sum      \* The list that is the value of an addition, or 0.

vars == <<content, sum>>

Init ==
  /\ content = <<>>
  /\ sum = 0

List == 1 .. Len(content)

(* A list is made of any values. *)
Create ==
  /\ Len(content') = Len(content) + 1
  /\ SubSeq(content', 1, Len(content)) = content
  /\ content'[Len(content')] \in Seq(Value)
  /\ sum' = 0

(* Before the element at i, or after the last. *)
InsertAt(l, i, v) ==
  /\ content' = [content EXCEPT ![l] = SubSeq(@, 1, i - 1) \o <<v>> \o SubSeq(@, i, Len(@))]
  /\ sum' = 0

RemoveAt(l, i) ==
  /\ content' = [content EXCEPT ![l] = SubSeq(@, 1, i - 1) \o SubSeq(@, i + 1, Len(@))]
  /\ sum' = 0

Replace(l, i, v) ==
  /\ content' = [content EXCEPT ![l][i] = v]
  /\ sum' = 0

(* The sum of two lists may be one of them. *)
Add(l, m) ==
  /\ \/ UNCHANGED content
     \/ content' = Append(content, content[l] \o content[m])
  /\ sum' \in 1 .. Len(content')
  /\ content'[sum'] = content[l] \o content[m]

(* The sum is used. *)
Use ==
  /\ sum' = 0
  /\ UNCHANGED content

Next ==
  \/ Use
  \/ Create
  \/ \E l \in List :
       \/ \E i \in 1 .. Len(content[l]) + 1, v \in Value : InsertAt(l, i, v)
       \/ \E i \in 1 .. Len(content[l]) : RemoveAt(l, i) \/ \E v \in Value : Replace(l, i, v)
       \/ \E m \in List : Add(l, m)

Spec == Init /\ [][Next]_vars
=============================================================================
