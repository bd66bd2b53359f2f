--------------------------- MODULE CompilerProofs ---------------------------
(***************************************************************************)
(* Proofs about Compiler for careful programs of any length, nesting and   *)
(* size.                                                                   *)
(***************************************************************************)
EXTENDS Compiler, TLAPS, SequenceTheorems, FiniteSetTheorems

(* A level is a function of the parser at work, with what it knows of its  *)
(* place: the scope depth and the number of functions there, and, of an    *)
(* expression, how many locals there are when it has been compiled.        *)
Kinds == Blocks \cup Expressions \cup {"class", "elsif"}
Level == [kind : Kinds, height : Nat, depth : Int, fn : Nat, own : Nat]

Bodies == Blocks \cup {"elsif"}
Nests  == {"script", "then", "else", "elsif", "while", "for", "sequence"}
Opening == {"function", "literal", "class"}
Looping == {"condition", "while", "for"}

(* The scopes that each is deeper than what it is in. *)
Scopes(kind) ==
  CASE kind \in {"function", "literal", "for"} -> 2
    [] kind \in {"class", "then", "else", "elsif", "while", "sequence"} -> 1
    [] OTHER -> 0

LevelOk(a) ==
  /\ a.fn >= 1 /\ a.depth >= DEPTH_GLOBAL
  /\ a.kind \in {"statement", "return", "if", "condition"} => a.own = a.height
  /\ a.kind \in {"local", "sequence"} => a.own = a.height + 1
  /\ a.kind = "field" => a.own = 0 /\ a.height = 1
  /\ a.kind = "for" => a.height >= 3

(* What may be in what. *)
Under(a, b) ==
  /\ b.kind # "script"
  /\ b.depth = a.depth + Scopes(b.kind)
  /\ b.fn = IF b.kind \in Opening THEN a.fn + 1 ELSE a.fn
  /\ a.kind \in Expressions <=> b.kind \in {"or", "local", "literal"}
  /\ a.kind = "class" <=> b.kind = "field"
  /\ b.kind \in {"function", "class"} => a.kind = "script"
  /\ b.kind = "or" => b.own = a.own /\ a.height <= b.height
  /\ b.kind = "local" => a.kind = "statement" /\ b.height = a.height
  /\ b.kind = "literal" => a.own = 0

Script == [kind |-> "script", height |-> 0, depth |-> DEPTH_GLOBAL, fn |-> 1, own |-> 0]

Nested(lv) ==
  /\ lv \in Seq(Level) /\ lv # <<>>
  /\ lv[1] = Script
  /\ \A i \in 1 .. Len(lv) : LevelOk(lv[i])
  /\ \A i \in 1 .. Len(lv) - 1 : Under(lv[i], lv[i + 1])
  /\ \A i, j \in 1 .. Len(lv) : i < j =>
       /\ lv[i].depth <= lv[j].depth /\ lv[i].fn <= lv[j].fn
       /\ lv[i].kind \in Expressions /\ lv[i].fn = lv[j].fn => lv[j].kind \in Expressions

(* The height of the stack in the innermost level, with so many locals. *)
TopOk(a, h, m, new) ==
  /\ a.kind \in Bodies => h = m
  /\ a.kind = "class" => h = 1 /\ m = 0
  /\ a.kind \in Expressions => h >= a.height /\ m = IF new THEN a.own + 1 ELSE a.own
  /\ new => a.kind = "statement" /\ h = a.height + 1

(* And in one that waits for a function to be compiled. *)
WaitOk(a, h) ==
  /\ a.kind \in Bodies => h = 0
  /\ a.kind \in Expressions => h >= a.height

Heights(lv, f, m) ==
  /\ Last(lv).fn = Len(f)
  /\ \A i \in 1 .. Len(lv) :
       /\ f[lv[i].fn].depth < lv[i].depth
       /\ lv[i].kind \in {"function", "literal"} => lv[i].depth - 2 <= f[lv[i].fn].depth
       /\ lv[i].kind \in Nests => lv[i].height <= IF lv[i].fn = Len(f) THEN m ELSE 0
  /\ \A i \in 1 .. Len(lv) - 1 :
       lv[i + 1].kind \in Opening => WaitOk(lv[i], f[lv[i].fn].height)

(* Each local in its slot, those of a level behind those of the levels it is in. *)
Slots(lv, f, loc) ==
  /\ \A j \in 1 .. Len(loc) :
       loc[j].slot = j - 1 /\ Last(f).depth < loc[j].depth
  /\ \A i \in 1 .. Len(lv) : lv[i].fn = Len(f) =>
       \A j \in 1 .. Len(loc) :
         /\ lv[i].kind \in Nests =>
              (loc[j].depth < lv[i].depth <=> j <= lv[i].height)
         /\ lv[i].kind = "for" =>
              (loc[j].depth < lv[i].depth - 1 <=> j <= lv[i].height - 3)

(* No local is deeper than the scope. *)
Shallow(lv, loc) == \A j \in 1 .. Len(loc) : loc[j].depth <= Last(lv).depth

Shape(lv, f, loc) == Nested(lv) /\ Heights(lv, f, Len(loc)) /\ Slots(lv, f, loc)

(* The loops, by the levels that are theirs. *)
LoopOk(a, l) ==
  /\ l.depth = IF a.kind = "condition" THEN a.depth ELSE a.depth - 1
  /\ l.start = [fn |-> a.fn, height |-> a.height]
  /\ l.patches \subseteq {l.start}
  /\ a.kind = "condition" => l.patches = {}

LoopsOk(lv, at, lp) ==
  /\ at \in Seq(Nat) /\ Len(at) = Len(lp)
  /\ \A m \in 1 .. Len(lp) :
       at[m] \in 1 .. Len(lv) /\ lv[at[m]].kind \in Looping /\ LoopOk(lv[at[m]], lp[m])
  /\ \A m, n \in 1 .. Len(lp) : m < n => at[m] < at[n]
  /\ \A i \in 1 .. Len(lv) : lv[i].kind \in Looping => \E m \in 1 .. Len(lp) : at[m] = i

(* The size counted is more than is below a function and in it. *)
RoomOk(base, f, sz) ==
  /\ base \in Seq(Nat) /\ Len(base) = Len(f)
  /\ \A k \in 1 .. Len(f) - 1 : base[k] + f[k].height <= base[k + 1]
  /\ \A k \in 1 .. Len(f) : f[k].height <= f[k].size
  /\ Last(base) + Last(f).height <= sz

FuncType == [depth : Int, size : Nat, height : Nat, code : Seq(Bytes)]
LocalType == [depth : Nat, slot : Nat]
LoopType == [depth : Int, start : Places, patches : SUBSET Places]

FuncOk(f) ==
  f \in Seq(FuncType) /\ f # <<>> /\ \A i \in 1 .. Len(f) : Len(f[i].code) <= 3

Types ==
  /\ scope_depth \in Int /\ scope_depth >= DEPTH_GLOBAL
  /\ locals \in Seq(LocalType)
  /\ stack_size \in Nat
  /\ FuncOk(func)
  /\ loop \in Seq(LoopType)
  /\ new_local \in BOOLEAN /\ is_last_call \in BOOLEAN
  /\ \A j \in jumps : j.from \in Places /\ j.to \in Places
  /\ \A p \in patched : p.at \in {"return", "end"} /\ p.byte \in Bytes

(* After a call, in an expression, the call is the last of the code. *)
Calls ==
  is_last_call /\ parse # <<>> =>
    /\ Top.kind \notin {"script", "class"} => Fn.code # <<>>
    /\ Top.kind \in Expressions => Len(Fn.code) >= 2 /\ Fn.code[Len(Fn.code) - 1] = "CALL"

Parsed(lv) == [i \in 1 .. Len(lv) |-> [kind |-> lv[i].kind, height |-> lv[i].height]]

Scoped(lv) ==
  /\ parse = Parsed(lv) /\ scope_depth = Last(lv).depth
  /\ Shape(lv, func, locals) /\ Shallow(lv, locals)
  /\ TopOk(Last(lv), Fn.height, Len(locals), new_local)

Ended == parse = <<>> /\ locals = <<>>
Open  == \E lv, at : Scoped(lv) /\ LoopsOk(lv, at, loop)
Room  == \E base : RoomOk(base, func, stack_size)

Inv == Types /\ Calls /\ JumpsAgree /\ ReturnedCall /\ (Ended \/ Open) /\ Room

-----------------------------------------------------------------------------
(* Sequences. *)
LEMMA LastOf ==
  ASSUME NEW S, NEW s \in Seq(S), s # <<>>
  PROVE  Len(s) \in Nat \ {0} /\ Last(s) \in S
<1>1. Len(s) \in Nat /\ Len(s) # 0
  OBVIOUS
<1>2. Len(s) \in 1 .. Len(s)
  BY <1>1
<1>3. QED
  BY <1>1, <1>2, ElementOfSeq DEF Last

LEMMA Truncated ==
  ASSUME NEW S, NEW s \in Seq(S), NEW n \in 0 .. Len(s)
  PROVE  /\ SubSeq(s, 1, n) \in Seq(S)
         /\ Len(SubSeq(s, 1, n)) = n
         /\ \A i \in 1 .. n : SubSeq(s, 1, n)[i] = s[i]
<1>1. 1 \in 1 .. Len(s) + 1 /\ n \in 1 - 1 .. Len(s) /\ n - 1 + 1 = n
  OBVIOUS
<1>2. QED
  BY <1>1, SubSeqProperties

LEMMA FrontOf ==
  ASSUME NEW S, NEW s \in Seq(S), s # <<>>
  PROVE  /\ Front(s) \in Seq(S)
         /\ Len(Front(s)) = Len(s) - 1
         /\ \A i \in 1 .. Len(s) - 1 : Front(s)[i] = s[i]
<1>1. Len(s) \in Nat /\ Len(s) # 0
  OBVIOUS
<1>2. Len(s) - 1 \in 0 .. Len(s)
  BY <1>1
<1>3. QED
  BY <1>2, Truncated DEF Front

(* The last of a sequence replaced. *)
LEMMA Replaced ==
  ASSUME NEW S, NEW s \in Seq(S), s # <<>>, NEW x \in S
  PROVE  /\ Front(s) \o <<x>> \in Seq(S)
         /\ Len(Front(s) \o <<x>>) = Len(s)
         /\ Front(s) \o <<x>> # <<>>
         /\ Last(Front(s) \o <<x>>) = x
         /\ \A i \in 1 .. Len(s) - 1 : (Front(s) \o <<x>>)[i] = s[i]
<1>1. Len(s) \in Nat /\ Len(s) # 0
  OBVIOUS
<1>2. /\ Front(s) \in Seq(S)
      /\ Len(Front(s)) = Len(s) - 1
      /\ \A i \in 1 .. Len(s) - 1 : Front(s)[i] = s[i]
  BY FrontOf
<1>3. Front(s) \o <<x>> = Append(Front(s), x)
  BY <1>2
<1>4. /\ Append(Front(s), x) \in Seq(S)
      /\ Len(Append(Front(s), x)) = Len(s)
      /\ Append(Front(s), x)[Len(s)] = x
      /\ \A i \in 1 .. Len(s) - 1 : Append(Front(s), x)[i] = s[i]
  BY <1>1, <1>2, AppendProperties
<1>5. Append(Front(s), x) # <<>>
  BY <1>1, <1>4
<1>6. QED
  BY <1>3, <1>4, <1>5 DEF Last

(* One appended. *)
LEMMA Appended ==
  ASSUME NEW S, NEW s \in Seq(S), NEW x \in S
  PROVE  /\ Append(s, x) \in Seq(S) /\ Append(s, x) # <<>>
         /\ Len(Append(s, x)) = Len(s) + 1 /\ Len(s) \in Nat
         /\ Last(Append(s, x)) = x /\ Append(s, x)[Len(s) + 1] = x
         /\ \A i \in 1 .. Len(s) : Append(s, x)[i] = s[i]
         /\ Front(Append(s, x)) = s
<1>1. /\ Append(s, x) \in Seq(S) /\ Append(s, x) # <<>>
      /\ Len(Append(s, x)) = Len(s) + 1 /\ Len(s) \in Nat
      /\ Append(s, x)[Len(s) + 1] = x
      /\ \A i \in 1 .. Len(s) : Append(s, x)[i] = s[i]
  BY AppendProperties
<1>2. ASSUME NEW t \in Seq(S), t # <<>>
      PROVE  /\ Front(t) \in Seq(S) /\ Len(Front(t)) = Len(t) - 1
             /\ \A i \in 1 .. Len(t) - 1 : Front(t)[i] = t[i]
  BY <1>2, FrontOf
<1>3. /\ Front(Append(s, x)) \in Seq(S) /\ Len(Front(Append(s, x))) = Len(s)
      /\ \A i \in 1 .. Len(s) : Front(Append(s, x))[i] = s[i]
  <2>1. Len(Append(s, x)) - 1 = Len(s)
    BY <1>1
  <2>2. QED
    BY <1>1, <1>2, <2>1
<1>4. \A u, v \in Seq(S) : Len(u) = Len(v) /\ (\A i \in 1 .. Len(v) : u[i] = v[i]) => u = v
  OBVIOUS
<1>5. Front(Append(s, x)) = s
  BY <1>3, <1>4
<1>6. QED
  BY <1>1, <1>5 DEF Last

LEMMA Rejoined ==
  ASSUME NEW S, NEW s \in Seq(S), s # <<>>
  PROVE  Append(Front(s), Last(s)) = s
<1> DEFINE t == Front(s) \o <<Last(s)>>
<1>1. Len(s) \in Nat \ {0} /\ Last(s) \in S
  BY LastOf
<1>2. /\ t \in Seq(S) /\ Len(t) = Len(s) /\ Last(t) = Last(s)
      /\ \A i \in 1 .. Len(s) - 1 : t[i] = s[i]
  BY <1>1, Replaced
<1>3. Front(s) \in Seq(S)
  BY FrontOf
<1>4. t = Append(Front(s), Last(s))
  BY <1>3
<1> HIDE DEF t
<1>5. \A i \in 1 .. Len(s) : i \in 1 .. Len(s) - 1 \/ i = Len(s)
  BY <1>1
<1>6. \A i \in 1 .. Len(s) : t[i] = s[i]
  BY <1>2, <1>5 DEF Last
<1>7. \A u, v \in Seq(S) : Len(u) = Len(v) /\ (\A i \in 1 .. Len(v) : u[i] = v[i]) => u = v
  OBVIOUS
<1>8. QED
  BY <1>2, <1>4, <1>6, <1>7

(* LastThree() keeps the end of the code. *)
LEMMA LastThreeOf ==
  ASSUME NEW S, NEW s \in Seq(S)
  PROVE  /\ LastThree(s) \in Seq(S)
         /\ Len(LastThree(s)) = IF Len(s) <= 3 THEN Len(s) ELSE 3
         /\ \A k \in 0 .. 2 : k < Len(s) => LastThree(s)[Len(LastThree(s)) - k] = s[Len(s) - k]
<1> DEFINE n == Len(s)
           m == Larger(1, n - 2)
           t == SubSeq(s, m, n)
<1>1. n \in Nat
  OBVIOUS
<1> HIDE DEF n
<1>2. m \in Nat \ {0} /\ n - m + 1 = (IF n <= 3 THEN n ELSE 3) /\ m <= n + 1
  BY <1>1 DEF Larger
<1> HIDE DEF m
<1>3. m \in 1 .. Len(s) + 1 /\ n \in m - 1 .. Len(s)
  BY <1>1, <1>2 DEF n
<1>4. /\ t \in Seq(S) /\ Len(t) = n - m + 1
      /\ \A i \in 1 .. n - m + 1 : t[i] = s[m + i - 1]
  BY <1>3, SubSeqProperties
<1>5. LastThree(s) = t
  BY DEF LastThree, m, n
<1> HIDE DEF t
<1>6. ASSUME NEW k \in 0 .. 2, k < n
      PROVE  t[Len(t) - k] = s[n - k]
  <2>1. Len(t) - k \in 1 .. n - m + 1 /\ m + (Len(t) - k) - 1 = n - k
    BY <1>1, <1>2, <1>4, <1>6
  <2>2. QED
    BY <1>4, <2>1
<1>7. QED
  BY <1>2, <1>4, <1>5, <1>6 DEF n

LEMMA PopsTyped ==
  ASSUME NEW n \in Nat
  PROVE  Pops(n) \in Seq(Bytes) /\ Operands(n) \in Seq(Bytes) /\ Len(Operands(n)) = n
BY DEF Pops, Operands, Bytes

(* What compilerPopLocals() counts, of locals in the order of their depth. *)
LEMMA PoppedNat ==
  ASSUME NEW depth \in Int, locals \in Seq(LocalType)
  PROVE  Popped(depth) \in Nat
<1> DEFINE S == {i \in 1 .. Len(locals) : locals[i].depth >= depth}
<1>1. IsFiniteSet(1 .. Len(locals))
  BY FS_Interval
<1>2. IsFiniteSet(S)
  BY <1>1, FS_Subset
<1>3. QED
  BY <1>2, FS_CardinalityType DEF Popped

LEMMA PoppedIs ==
  ASSUME locals \in Seq(LocalType), NEW depth \in Int, NEW h \in 0 .. Len(locals),
         \A j \in 1 .. Len(locals) : locals[j].depth < depth <=> j <= h
  PROVE  Popped(depth) = Len(locals) - h /\ Kept(depth) = SubSeq(locals, 1, h)
<1> DEFINE n == Len(locals)
<1>1. n \in Nat /\ h \in Nat /\ h <= n
  OBVIOUS
<1>2. \A j \in 1 .. n : locals[j].depth \in Int
  <2>1. \A j \in 1 .. n : locals[j] \in LocalType
    BY ElementOfSeq
  <2>2. QED
    BY <2>1 DEF LocalType
<1>3. {i \in 1 .. n : locals[i].depth >= depth} = h + 1 .. n
  <2>1. ASSUME NEW i \in 1 .. n
        PROVE  locals[i].depth >= depth <=> i >= h + 1
    <3>1. locals[i].depth \in Int /\ (locals[i].depth < depth <=> i <= h) /\ i \in Int
      BY <1>2
    <3>2. QED
      BY <1>1, <3>1
  <2>2. QED
    BY <1>1, <2>1
<1>4. Popped(depth) = Cardinality(h + 1 .. n)
  BY <1>3 DEF Popped
<1>5. Cardinality(h + 1 .. n) = n - h
  <2>1. h + 1 \in Int /\ n \in Int
    BY <1>1
  <2>2. Cardinality(h + 1 .. n) = IF h + 1 > n THEN 0 ELSE n - (h + 1) + 1
    BY <2>1, FS_Interval
  <2>3. QED
    BY <1>1, <2>2
<1>6. Kept(depth) = SubSeq(locals, 1, n - (n - h))
  BY <1>4, <1>5 DEF Kept
<1>7. n - (n - h) = h
  BY <1>1
<1>8. QED
  BY <1>4, <1>5, <1>6, <1>7

-----------------------------------------------------------------------------
(* Code is emitted: the innermost function changes, but for its depth. *)
SameBut(f, g) ==
  /\ FuncOk(g) /\ Len(g) = Len(f) /\ Last(g).depth = Last(f).depth
  /\ \A i \in 1 .. Len(f) - 1 : g[i] = f[i]

LEMMA EmittingIs ==
  ASSUME stack_size \in Nat, NEW f \in FuncType, NEW code \in Seq(Bytes),
         NEW counted \in Int, NEW pushed \in Int, f.height + pushed >= 0
  PROVE  LET g == Emitting(f, code, counted, pushed) IN
         /\ g \in FuncType /\ g.depth = f.depth /\ g.height = f.height + pushed
         /\ g.size >= f.size /\ g.size >= stack_size + counted
         /\ g.code = LastThree(f.code \o code) /\ Len(g.code) <= 3
<1> DEFINE g == Emitting(f, code, counted, pushed)
<1>1. f.depth \in Int /\ f.size \in Nat /\ f.height \in Nat /\ f.code \in Seq(Bytes)
  BY DEF FuncType
<1>2. f.code \o code \in Seq(Bytes)
  BY <1>1, ConcatProperties
<1>3. /\ LastThree(f.code \o code) \in Seq(Bytes)
      /\ Len(LastThree(f.code \o code)) <= 3
  <2>1. /\ LastThree(f.code \o code) \in Seq(Bytes)
        /\ Len(LastThree(f.code \o code)) = IF Len(f.code \o code) <= 3 THEN Len(f.code \o code) ELSE 3
    BY <1>2, LastThreeOf
  <2>2. Len(f.code \o code) \in Nat
    BY <1>2
  <2>3. QED
    BY <2>1, <2>2
<1>4. /\ Larger(f.size, stack_size + counted) \in Nat
      /\ Larger(f.size, stack_size + counted) >= f.size
      /\ Larger(f.size, stack_size + counted) >= stack_size + counted
  BY <1>1 DEF Larger
<1>5. f.height + pushed \in Nat
  BY <1>1
<1>6. g = [depth |-> f.depth, size |-> Larger(f.size, stack_size + counted),
           height |-> f.height + pushed, code |-> LastThree(f.code \o code)]
  <2> DEFINE s == Larger(f.size, stack_size + counted)
             c == LastThree(f.code \o code)
  <2>1. g = [f EXCEPT !.size = s, !.height = f.height + pushed, !.code = c]
    BY DEF Emitting
  <2> HIDE DEF s, c
  <2>2. QED
    BY <2>1 DEF FuncType, s, c
<1> HIDE DEF g
<1>7. QED
  BY <1>1, <1>3, <1>4, <1>5, <1>6 DEF FuncType, g

LEMMA FnOf ==
  ASSUME FuncOk(func)
  PROVE  /\ Len(func) \in Nat \ {0} /\ func \in Seq(FuncType)
         /\ Fn \in FuncType /\ Fn.depth \in Int /\ Fn.size \in Nat /\ Fn.height \in Nat
         /\ Fn.code \in Seq(Bytes) /\ Len(Fn.code) \in Nat /\ Len(Fn.code) <= 3
<1>1. func \in Seq(FuncType) /\ func # <<>> /\ \A i \in 1 .. Len(func) : Len(func[i].code) <= 3
  BY DEF FuncOk
<1>2. Len(func) \in Nat \ {0} /\ Fn \in FuncType
  BY <1>1, LastOf DEF Fn
<1>3. Len(Fn.code) <= 3
  BY <1>1, <1>2 DEF Fn, Last
<1>4. Fn.code \in Seq(Bytes) /\ Fn.depth \in Int /\ Fn.size \in Nat /\ Fn.height \in Nat
  BY <1>2 DEF FuncType
<1>5. QED
  BY <1>1, <1>2, <1>3, <1>4

LEMMA InnermostOf ==
  ASSUME NEW f, FuncOk(f)
  PROVE  /\ Len(f) \in Nat \ {0} /\ f[Len(f)] = Last(f) /\ Last(f) \in FuncType
         /\ f[Len(f)].depth \in Int /\ Last(f).height \in Nat
<1>1. f \in Seq(FuncType) /\ f # <<>>
  BY DEF FuncOk
<1>2. Len(f) \in Nat \ {0} /\ Last(f) \in FuncType
  BY <1>1, LastOf
<1>3. Last(f).depth \in Int /\ Last(f).height \in Nat
  BY <1>2 DEF FuncType
<1>4. QED
  BY <1>2, <1>3 DEF Last

(* The innermost function replaced. *)
LEMMA FnReplaced ==
  ASSUME NEW f, FuncOk(f), NEW g \in FuncType, g.depth = Last(f).depth, Len(g.code) <= 3
  PROVE  LET h == Front(f) \o <<g>> IN SameBut(f, h) /\ Last(h) = g
<1> DEFINE h == Front(f) \o <<g>>
<1>1. f \in Seq(FuncType) /\ f # <<>> /\ \A i \in 1 .. Len(f) : Len(f[i].code) <= 3
  BY DEF FuncOk
<1>2. /\ h \in Seq(FuncType) /\ Len(h) = Len(f) /\ h # <<>> /\ Last(h) = g
      /\ \A i \in 1 .. Len(f) - 1 : h[i] = f[i]
  BY <1>1, Replaced
<1>3. Len(f) \in Nat \ {0}
  BY <1>1, LastOf
<1> HIDE DEF h
<1>4. \A i \in 1 .. Len(h) : Len(h[i].code) <= 3
  <2>1. h[Len(f)] = g
    BY <1>2 DEF Last
  <2>2. \A i \in 1 .. Len(f) : i \in 1 .. Len(f) - 1 \/ i = Len(f)
    BY <1>3
  <2>3. QED
    BY <1>1, <1>2, <2>1, <2>2
<1>5. SameBut(f, h) /\ Last(h) = g
  BY <1>2, <1>4 DEF SameBut, FuncOk
<1>6. QED
  BY <1>5 DEF h

LEMMA RoomEmitted ==
  ASSUME NEW f, FuncOk(f), NEW sz \in Nat, NEW base, RoomOk(base, f, sz),
         NEW g, SameBut(f, g), NEW c \in Int, NEW p \in Int, p <= c,
         Last(g).height = Last(f).height + p, Last(g).height <= Last(g).size
  PROVE  RoomOk(base, g, sz + c) /\ sz + c \in Nat
<1>1. f \in Seq(FuncType) /\ g \in Seq(FuncType) /\ f # <<>> /\ g # <<>> /\ Len(g) = Len(f)
  BY DEF SameBut, FuncOk
<1>2. Len(f) \in Nat \ {0} /\ Last(f) \in FuncType /\ Last(g) \in FuncType
  BY <1>1, LastOf
<1>3. \A i \in 1 .. Len(f) : i \in 1 .. Len(f) - 1 \/ i = Len(f)
  BY <1>2
<1>4. /\ base \in Seq(Nat) /\ Len(base) = Len(f)
      /\ \A k \in 1 .. Len(f) - 1 : base[k] + f[k].height <= base[k + 1]
      /\ \A k \in 1 .. Len(f) : f[k].height <= f[k].size
      /\ Last(base) + Last(f).height <= sz
  BY DEF RoomOk
<1>5. base # <<>>
  BY <1>2, <1>4
<1>6. Last(base) \in Nat /\ Last(f).height \in Nat /\ Last(g).height \in Nat
  BY <1>2, <1>4, <1>5, LastOf DEF FuncType
<1>7. Last(base) + Last(g).height <= sz + c /\ sz + c \in Nat
  BY <1>4, <1>6
<1>8. \A k \in 1 .. Len(g) - 1 : g[k] = f[k]
  BY <1>1 DEF SameBut
<1>9. \A k \in 1 .. Len(g) : g[k].height <= g[k].size
  BY <1>1, <1>3, <1>4, <1>8 DEF Last
<1>10. QED
  BY <1>1, <1>4, <1>7, <1>8, <1>9 DEF RoomOk

(* What Emit() does to what the compiler counts with. *)
LEMMA EmitOk ==
  ASSUME stack_size \in Nat, FuncOk(func), Room, NEW code \in Seq(Bytes),
         NEW counted \in Int, NEW pushed \in Int, pushed <= counted, Fn.height + pushed >= 0,
         Emit(code, counted, pushed)
  PROVE  /\ stack_size' \in Nat /\ SameBut(func, func') /\ Room'
         /\ Fn'.height = Fn.height + pushed /\ Fn'.code = LastThree(Fn.code \o code)
<1> DEFINE g == Emitting(Fn, code, counted, pushed)
<1>1. /\ Len(func) \in Nat \ {0} /\ func \in Seq(FuncType)
      /\ Fn \in FuncType /\ Fn.height \in Nat
  BY FnOf
<1>2. /\ g \in FuncType /\ g.depth = Fn.depth /\ g.height = Fn.height + pushed
      /\ g.size >= Fn.size /\ g.size >= stack_size + counted
      /\ g.code = LastThree(Fn.code \o code) /\ Len(g.code) <= 3
  BY <1>1, EmittingIs
<1>3. func' = Front(func) \o <<g>> /\ stack_size' = stack_size + counted
  BY DEF Emit
<1> HIDE DEF g
<1>4. SameBut(func, func') /\ Last(func') = g
  BY <1>2, <1>3, FnReplaced DEF Fn
<1>5. PICK base : RoomOk(base, func, stack_size)
  BY DEF Room
<1>6. base \in Seq(Nat) /\ base # <<>> /\ Last(base) + Fn.height <= stack_size
  BY <1>1, <1>5 DEF RoomOk, Fn
<1>7. Last(base) \in Nat
  BY <1>6, LastOf
<1>8. g.height <= g.size
  <2>1. g.height \in Nat /\ g.size \in Nat
    BY <1>2 DEF FuncType
  <2>2. Fn.height <= stack_size
    BY <1>1, <1>6, <1>7
  <2>3. Fn.height + pushed <= stack_size + counted
    BY <1>1, <2>2
  <2>4. QED
    BY <1>1, <1>2, <2>1, <2>3
<1>9. RoomOk(base, func', stack_size + counted) /\ stack_size + counted \in Nat
  <2>1. Last(func').height = Last(func).height + pushed /\ Last(func').height <= Last(func').size
    BY <1>2, <1>4, <1>8 DEF Fn
  <2>2. QED
    BY <1>4, <1>5, <2>1, RoomEmitted
<1>10. QED
  BY <1>2, <1>3, <1>4, <1>9 DEF Room, Fn

-----------------------------------------------------------------------------
(* The levels of the parser: one is entered, or left. *)
LEMMA LevelsOf ==
  ASSUME NEW lv, Nested(lv)
  PROVE  /\ lv \in Seq(Level) /\ lv # <<>> /\ Len(lv) \in Nat \ {0}
         /\ \A i \in 1 .. Len(lv) :
              /\ lv[i] \in Level /\ lv[i].kind \in Kinds /\ lv[i].height \in Nat
              /\ lv[i].depth \in Int /\ lv[i].fn \in Nat \ {0} /\ lv[i].own \in Nat
              /\ LevelOk(lv[i])
         /\ Last(lv) = lv[Len(lv)] /\ Len(lv) \in 1 .. Len(lv)
<1>1. lv \in Seq(Level) /\ lv # <<>> /\ \A i \in 1 .. Len(lv) : LevelOk(lv[i])
  BY DEF Nested
<1>2. Len(lv) \in Nat \ {0} /\ Len(lv) \in 1 .. Len(lv)
  BY <1>1, LastOf
<1>3. \A i \in 1 .. Len(lv) : lv[i] \in Level
  BY <1>1, ElementOfSeq
<1>4. \A i \in 1 .. Len(lv) : lv[i].fn >= 1
  BY <1>1 DEF LevelOk
<1>5. QED
  BY <1>1, <1>2, <1>3, <1>4 DEF Level, Last

LEMMA NestedPush ==
  ASSUME NEW lv, Nested(lv), NEW a \in Level, LevelOk(a), Under(Last(lv), a)
  PROVE  Nested(Append(lv, a))
<1> DEFINE n == Len(lv)
           w == Append(lv, a)
<1>1. /\ lv \in Seq(Level) /\ lv # <<>> /\ n \in Nat \ {0}
      /\ \A i \in 1 .. n : /\ lv[i].depth \in Int /\ lv[i].fn \in Nat /\ LevelOk(lv[i])
                            /\ lv[i].kind \in Kinds
      /\ Last(lv) = lv[n] /\ n \in 1 .. n
  BY LevelsOf
<1>2. /\ w \in Seq(Level) /\ w # <<>> /\ Len(w) = n + 1 /\ w[n + 1] = a
      /\ \A i \in 1 .. n : w[i] = lv[i]
  BY <1>1, Appended
<1>3. \A i \in 1 .. n + 1 : i \in 1 .. n \/ i = n + 1
  BY <1>1
<1>4. w[1] = Script
  BY <1>1, <1>2 DEF Nested
<1>5. \A i \in 1 .. Len(w) : LevelOk(w[i])
  BY <1>1, <1>2, <1>3
<1>6. ASSUME NEW i \in 1 .. Len(w) - 1
      PROVE  Under(w[i], w[i + 1])
  <2>1. CASE i = n
    BY <1>1, <1>2, <2>1
  <2>2. CASE i # n
    <3>1. i \in 1 .. Len(lv) - 1 /\ i \in 1 .. n /\ i + 1 \in 1 .. n
      BY <1>1, <1>2, <2>2
    <3>2. Under(lv[i], lv[i + 1])
      BY <3>1 DEF Nested
    <3>3. QED
      BY <1>2, <3>1, <3>2
  <2>3. QED
    BY <2>1, <2>2
<1>7. /\ lv[n].depth <= a.depth /\ lv[n].fn <= a.fn
      /\ lv[n].kind \in Expressions /\ lv[n].fn = a.fn => a.kind \in Expressions
  <2>1. Under(lv[n], a)
    BY <1>1
  <2>2. a.depth = lv[n].depth + Scopes(a.kind) /\ Scopes(a.kind) \in {0, 1, 2}
    BY <2>1 DEF Under, Scopes
  <2>3. a.fn = IF a.kind \in Opening THEN lv[n].fn + 1 ELSE lv[n].fn
    BY <2>1 DEF Under
  <2>4. lv[n].depth \in Int /\ lv[n].fn \in Nat
    BY <1>1
  <2>5. lv[n].kind \in Expressions => a.kind \in {"or", "local", "literal"}
    BY <2>1 DEF Under
  <2>6. lv[n].depth <= a.depth
    BY <2>2, <2>4
  <2>7. QED
    BY <2>3, <2>4, <2>5, <2>6 DEF Opening, Expressions
<1>8. ASSUME NEW i \in 1 .. Len(w), NEW j \in 1 .. Len(w), i < j
      PROVE  /\ w[i].depth <= w[j].depth /\ w[i].fn <= w[j].fn
             /\ w[i].kind \in Expressions /\ w[i].fn = w[j].fn => w[j].kind \in Expressions
  <2>1. i \in 1 .. n
    BY <1>1, <1>2, <1>8
  <2>2. CASE j \in 1 .. n
    BY <1>2, <1>8, <2>1, <2>2 DEF Nested
  <2>3. CASE j = n + 1
    <3>1. w[i] = lv[i] /\ w[j] = a
      BY <1>2, <2>1, <2>3
    <3>2. CASE i = n
      BY <1>7, <3>1, <3>2
    <3>3. CASE i # n
      <4>1. i < n
        BY <1>1, <2>1, <3>3
      <4>2. /\ lv[i].depth <= lv[n].depth /\ lv[i].fn <= lv[n].fn
            /\ lv[i].kind \in Expressions /\ lv[i].fn = lv[n].fn => lv[n].kind \in Expressions
        BY <1>1, <2>1, <4>1 DEF Nested
      <4>3. /\ lv[i].depth \in Int /\ lv[n].depth \in Int /\ a.depth \in Int
            /\ lv[i].fn \in Nat /\ lv[n].fn \in Nat /\ a.fn \in Nat
        BY <1>1, <2>1 DEF Level
      <4>4. /\ lv[i].depth <= a.depth /\ lv[i].fn <= a.fn
            /\ lv[i].fn = a.fn => lv[i].fn = lv[n].fn /\ lv[n].fn = a.fn
        BY <1>7, <4>2, <4>3
      <4>5. QED
        BY <1>7, <3>1, <4>2, <4>4
    <3>4. QED
      BY <3>2, <3>3
  <2>4. QED
    BY <1>2, <1>3, <2>2, <2>3
<1> HIDE DEF w
<1>9. Nested(w)
  BY <1>2, <1>4, <1>5, <1>6, <1>8 DEF Nested
<1>10. QED
  BY <1>9 DEF w

(* Some levels are left. *)
LEMMA NestedPop ==
  ASSUME NEW lv, Nested(lv), Last(lv).kind # "script"
  PROVE  /\ Nested(Front(lv)) /\ Len(lv) >= 2 /\ Len(Front(lv)) = Len(lv) - 1
         /\ \A i \in 1 .. Len(lv) - 1 : Front(lv)[i] = lv[i]
         /\ Last(Front(lv)) = lv[Len(lv) - 1] /\ Under(Last(Front(lv)), Last(lv))
<1> DEFINE n == Len(lv)
           w == Front(lv)
<1>1. /\ lv \in Seq(Level) /\ lv # <<>> /\ n \in Nat \ {0}
      /\ Last(lv) = lv[n] /\ n \in 1 .. n
      /\ \A i \in 1 .. n : LevelOk(lv[i])
  BY LevelsOf
<1>2. w \in Seq(Level) /\ Len(w) = n - 1 /\ \A i \in 1 .. n - 1 : w[i] = lv[i]
  BY <1>1, FrontOf
<1>3. n # 1
  BY <1>1 DEF Nested, Script
<1>4. n >= 2 /\ 1 \in 1 .. n - 1 /\ n - 1 \in 1 .. n - 1 /\ (n - 1) + 1 = n
  <2>1. n \in Nat \ {0}
    BY <1>1
  <2> HIDE DEF n
  <2>2. QED
    BY <1>3, <2>1
<1>5. w # <<>> /\ w[1] = Script
  BY <1>2, <1>4 DEF Nested
<1>6. \A i \in 1 .. n - 1 : i \in 1 .. n
  BY <1>1
<1>7. ASSUME NEW i \in 1 .. Len(w) - 1
      PROVE  Under(w[i], w[i + 1])
  <2>1. i \in 1 .. n - 1 /\ i + 1 \in 1 .. n - 1
    BY <1>2, <1>4
  <2>2. Under(lv[i], lv[i + 1])
    BY <2>1 DEF Nested
  <2>3. QED
    BY <1>2, <2>1, <2>2
<1>8. Under(lv[n - 1], lv[n])
  BY <1>4 DEF Nested
<1>9. \A i, j \in 1 .. Len(w) : i < j =>
        /\ w[i].depth <= w[j].depth /\ w[i].fn <= w[j].fn
        /\ w[i].kind \in Expressions /\ w[i].fn = w[j].fn => w[j].kind \in Expressions
  BY <1>2, <1>6 DEF Nested
<1> HIDE DEF w
<1>10. Nested(w)
  BY <1>1, <1>2, <1>5, <1>6, <1>7, <1>9 DEF Nested
<1>11. QED
  BY <1>1, <1>2, <1>4, <1>8, <1>10 DEF w, Last

(* Every level is of a function on the stack, and not deeper than the last. *)
LEMMA LevelsBelow ==
  ASSUME NEW lv, Nested(lv)
  PROVE  /\ \A i \in 1 .. Len(lv) : lv[i].fn \in 1 .. Last(lv).fn /\ lv[i].depth <= Last(lv).depth
         /\ \A i \in 1 .. Len(lv) - 1 : lv[i + 1].kind \in Opening => lv[i].fn \in 1 .. Last(lv).fn - 1
         /\ \A i \in 1 .. Len(lv) : lv[i].kind \in Expressions /\ lv[i].fn = Last(lv).fn
                                       => Last(lv).kind \in Expressions
<1> DEFINE n == Len(lv)
<1>1. /\ n \in Nat \ {0} /\ n \in 1 .. n /\ Last(lv) = lv[n]
      /\ \A i \in 1 .. n : lv[i].depth \in Int /\ lv[i].fn \in Nat \ {0}
  BY LevelsOf
<1>2. ASSUME NEW i \in 1 .. n
      PROVE  /\ lv[i].fn \in 1 .. lv[n].fn /\ lv[i].depth <= lv[n].depth
             /\ lv[i].kind \in Expressions /\ lv[i].fn = lv[n].fn => lv[n].kind \in Expressions
  <2>1. CASE i = n
    BY <1>1, <2>1
  <2>2. CASE i # n
    <3>1. i < n
      BY <1>1, <2>2
    <3>2. /\ lv[i].depth <= lv[n].depth /\ lv[i].fn <= lv[n].fn
          /\ lv[i].kind \in Expressions /\ lv[i].fn = lv[n].fn => lv[n].kind \in Expressions
      BY <1>1, <3>1 DEF Nested
    <3>3. QED
      BY <1>1, <3>2
  <2>3. QED
    BY <2>1, <2>2
<1>3. ASSUME NEW i \in 1 .. n - 1, lv[i + 1].kind \in Opening
      PROVE  lv[i].fn \in 1 .. lv[n].fn - 1
  <2>1. i \in 1 .. n /\ i + 1 \in 1 .. n
    BY <1>1
  <2>2. Under(lv[i], lv[i + 1])
    BY DEF Nested
  <2>3. lv[i + 1].fn = lv[i].fn + 1
    BY <1>3, <2>2 DEF Under
  <2>4. lv[i + 1].fn \in 1 .. lv[n].fn /\ lv[i].fn \in Nat \ {0} /\ lv[n].fn \in Nat
    BY <1>1, <1>2, <2>1
  <2>5. QED
    BY <2>3, <2>4
<1>4. QED
  BY <1>1, <1>2, <1>3

(* Code is emitted. *)
LEMMA ShapeEmit ==
  ASSUME NEW lv, NEW f, NEW loc, Shape(lv, f, loc), NEW g, SameBut(f, g)
  PROVE  Shape(lv, g, loc)
<1>1. Nested(lv) /\ Heights(lv, f, Len(loc)) /\ Slots(lv, f, loc)
  BY DEF Shape
<1>2. /\ \A i \in 1 .. Len(lv) : lv[i].fn \in 1 .. Last(lv).fn
      /\ \A i \in 1 .. Len(lv) - 1 : lv[i + 1].kind \in Opening => lv[i].fn \in 1 .. Last(lv).fn - 1
  BY <1>1, LevelsBelow
<1>3. Last(lv).fn = Len(f) /\ Len(g) = Len(f) /\ Last(g).depth = Last(f).depth
  BY <1>1 DEF Heights, SameBut
<1>4. \A i \in 1 .. Len(f) - 1 : g[i] = f[i]
  BY DEF SameBut
<1>5. Len(f) \in Nat
  BY <1>3 DEF SameBut, FuncOk
<1>6. \A i \in 1 .. Len(lv) : g[lv[i].fn].depth = f[lv[i].fn].depth
  <2>1. \A k \in 1 .. Len(f) : k \in 1 .. Len(f) - 1 \/ k = Len(f)
    BY <1>5
  <2>2. \A k \in 1 .. Len(f) : g[k].depth = f[k].depth
    BY <1>3, <1>4, <2>1 DEF Last
  <2>3. QED
    BY <1>2, <1>3, <2>2
<1>7. Heights(lv, g, Len(loc))
  BY <1>1, <1>2, <1>3, <1>4, <1>6 DEF Heights
<1>8. Slots(lv, g, loc)
  BY <1>1, <1>3 DEF Slots
<1>9. QED
  BY <1>1, <1>7, <1>8 DEF Shape

LEMMA LocalOf ==
  ASSUME NEW loc \in Seq(LocalType), NEW j \in 1 .. Len(loc)
  PROVE  loc[j] \in LocalType /\ loc[j].depth \in Nat /\ loc[j].slot \in Nat
<1>1. loc[j] \in LocalType
  BY ElementOfSeq
<1>2. QED
  BY <1>1 DEF LocalType

(* A level is entered in the same function. *)
LEMMA ShapePush ==
  ASSUME NEW lv, NEW f, NEW loc \in Seq(LocalType), Shape(lv, f, loc),
         NEW a \in Level, LevelOk(a), Under(Last(lv), a), a.kind \notin Opening,
         f[Len(f)].depth \in Int,
         a.kind \in Nests => a.height <= Len(loc),
         \A j \in 1 .. Len(loc) :
           /\ a.kind \in Nests => (loc[j].depth < a.depth <=> j <= a.height)
           /\ a.kind = "for" => (loc[j].depth < a.depth - 1 <=> j <= a.height - 3)
  PROVE  Shape(Append(lv, a), f, loc)
<1> DEFINE n == Len(lv)
           w == Append(lv, a)
<1>1. Nested(lv) /\ Heights(lv, f, Len(loc)) /\ Slots(lv, f, loc)
  BY DEF Shape
<1>2. /\ lv \in Seq(Level) /\ n \in Nat \ {0} /\ n \in 1 .. n
      /\ Last(lv) = lv[n] /\ lv[n].depth \in Int
  BY <1>1, LevelsOf
<1>3. /\ Len(w) = n + 1 /\ w[n + 1] = a /\ Last(w) = a /\ \A i \in 1 .. n : w[i] = lv[i]
  BY <1>2, Appended
<1>4. Nested(w)
  BY <1>1, NestedPush
<1> HIDE DEF w
<1>5. \A i \in 1 .. n + 1 : i \in 1 .. n \/ i = n + 1
  BY <1>2
<1>6. a.fn = Len(f) /\ lv[n].depth <= a.depth
  <2>1. a.depth = lv[n].depth + Scopes(a.kind) /\ a.fn = lv[n].fn
    BY <1>2 DEF Under
  <2>2. Scopes(a.kind) \in {0, 1, 2}
    BY DEF Scopes
  <2>3. lv[n].fn = Len(f)
    BY <1>1, <1>2 DEF Heights
  <2>4. lv[n].depth <= a.depth
    BY <1>2, <2>1, <2>2
  <2>5. QED
    BY <2>1, <2>3, <2>4
<1>7. f[a.fn].depth < a.depth
  <2>1. f[lv[n].fn].depth < lv[n].depth /\ lv[n].fn = Len(f)
    BY <1>1, <1>2 DEF Heights
  <2>2. a.depth \in Int
    BY DEF Level
  <2>3. QED
    BY <1>2, <1>6, <2>1, <2>2
<1>8. Heights(w, f, Len(loc))
  <2>1. Last(w).fn = Len(f)
    BY <1>3, <1>6
  <2>2. \A i \in 1 .. Len(w) :
          /\ f[w[i].fn].depth < w[i].depth
          /\ w[i].kind \in {"function", "literal"} => w[i].depth - 2 <= f[w[i].fn].depth
          /\ w[i].kind \in Nests => w[i].height <= IF w[i].fn = Len(f) THEN Len(loc) ELSE 0
    <3>1. a.kind \notin {"function", "literal"}
      BY DEF Opening
    <3>2. QED
      BY <1>1, <1>3, <1>5, <1>6, <1>7, <3>1 DEF Heights
  <2>3. ASSUME NEW i \in 1 .. Len(w) - 1, w[i + 1].kind \in Opening
        PROVE  WaitOk(w[i], f[w[i].fn].height)
    <3>1. i + 1 # n + 1
      BY <1>3, <2>3
    <3>2. i \in 1 .. n /\ i + 1 \in 1 .. n /\ i \in 1 .. Len(lv) - 1
      BY <1>2, <1>3, <3>1
    <3>3. QED
      BY <1>1, <1>3, <2>3, <3>2 DEF Heights
  <2>4. QED
    BY <2>1, <2>2, <2>3 DEF Heights
<1>9. Slots(w, f, loc)
  BY <1>1, <1>3, <1>5 DEF Slots
<1>10. Shape(w, f, loc)
  BY <1>4, <1>8, <1>9 DEF Shape
<1>11. QED
  BY <1>10 DEF w

(* A level is left, in the same function, and locals with it. *)
LEMMA ShapePop ==
  ASSUME NEW lv, NEW f, NEW loc \in Seq(LocalType), Shape(lv, f, loc),
         Last(lv).kind # "script", Last(lv).kind \notin Opening,
         NEW m \in 0 .. Len(loc),
         \A i \in 1 .. Len(lv) - 1 : lv[i].fn = Len(f) /\ lv[i].kind \in Nests => lv[i].height <= m
  PROVE  Shape(Front(lv), f, SubSeq(loc, 1, m))
<1> DEFINE n == Len(lv)
           w == Front(lv)
           kept == SubSeq(loc, 1, m)
<1>1. Nested(lv) /\ Heights(lv, f, Len(loc)) /\ Slots(lv, f, loc)
  BY DEF Shape
<1>2. /\ Nested(w) /\ n >= 2 /\ Len(w) = n - 1
      /\ \A i \in 1 .. n - 1 : w[i] = lv[i]
      /\ Last(w) = lv[n - 1] /\ Under(Last(w), Last(lv))
  BY <1>1, NestedPop
<1>3. n \in Nat \ {0} /\ Last(lv) = lv[n]
  BY <1>1, LevelsOf
<1>4. Last(w).fn = Len(f)
  <2>1. Last(lv).fn = Last(w).fn
    BY <1>2 DEF Under
  <2>2. QED
    BY <1>1, <2>1 DEF Heights
<1>5. kept \in Seq(LocalType) /\ Len(kept) = m /\ \A i \in 1 .. m : kept[i] = loc[i]
  BY Truncated
<1>6. \A i \in 1 .. n - 1 : i \in 1 .. n
  BY <1>3
<1>7. \A j \in 1 .. m : j \in 1 .. Len(loc) /\ j <= m
  OBVIOUS
<1> HIDE DEF w, kept
<1>8. Heights(w, f, m)
  <2>1. \A i \in 1 .. Len(w) :
          /\ f[w[i].fn].depth < w[i].depth
          /\ w[i].kind \in {"function", "literal"} => w[i].depth - 2 <= f[w[i].fn].depth
          /\ w[i].kind \in Nests => w[i].height <= IF w[i].fn = Len(f) THEN m ELSE 0
    BY <1>1, <1>2, <1>6 DEF Heights, w
  <2>2. ASSUME NEW i \in 1 .. Len(w) - 1, w[i + 1].kind \in Opening
        PROVE  WaitOk(w[i], f[w[i].fn].height)
    <3>1. i \in 1 .. n - 1 /\ i + 1 \in 1 .. n - 1
      BY <1>2, <1>3
    <3>2. QED
      BY <1>1, <1>2, <2>2, <3>1 DEF Heights
  <2>3. QED
    BY <1>4, <2>1, <2>2 DEF Heights, w
<1>9. Slots(w, f, kept)
  BY <1>1, <1>2, <1>5, <1>6, <1>7 DEF Slots
<1>10. Shape(w, f, kept)
  BY <1>2, <1>5, <1>8, <1>9 DEF Shape, w
<1>11. QED
  BY <1>10 DEF w, kept

(* A local is added to those of the innermost scope. *)
LEMMA ShapeLocal ==
  ASSUME NEW lv, NEW f, NEW loc \in Seq(LocalType), Shape(lv, f, loc), FuncOk(f),
         NEW l \in LocalType, l.slot = Len(loc), l.depth = Last(lv).depth
  PROVE  Shape(lv, f, Append(loc, l))
<1> DEFINE n == Len(loc)
           more == Append(loc, l)
<1>1. Nested(lv) /\ Heights(lv, f, n) /\ Slots(lv, f, loc)
  BY DEF Shape
<1>2. more \in Seq(LocalType) /\ Len(more) = n + 1 /\ n \in Nat /\ more[n + 1] = l
      /\ \A j \in 1 .. n : more[j] = loc[j]
  BY Appended
<1>3. \A j \in 1 .. n + 1 : j \in 1 .. n \/ j = n + 1
  BY <1>2
<1>4. Last(lv) = lv[Len(lv)] /\ Len(lv) \in 1 .. Len(lv)
      /\ \A i \in 1 .. Len(lv) : lv[i].depth \in Int /\ lv[i].height \in Nat
  BY <1>1, LevelsOf
<1>5. \A i \in 1 .. Len(lv) : lv[i].depth <= l.depth
  BY <1>1, LevelsBelow
<1>6. Last(lv).fn = Len(f) /\ Last(f).depth < l.depth
  BY <1>1, <1>4 DEF Heights, Last
<1>7. \A i \in 1 .. Len(lv) : lv[i].kind \in Nests =>
        lv[i].height <= IF lv[i].fn = Len(f) THEN n + 1 ELSE 0
  <2>1. \A h \in Nat : h <= n => h <= n + 1
    BY <1>2
  <2>2. QED
    BY <1>1, <1>4, <2>1 DEF Heights
<1>8. l.depth \in Nat
  BY DEF LocalType
<1> HIDE DEF more
<1>9. Heights(lv, f, n + 1)
  BY <1>1, <1>7 DEF Heights
<1>10. \A j \in 1 .. n + 1 : more[j].slot = j - 1 /\ Last(f).depth < more[j].depth
  <2>1. \A j \in 1 .. n : more[j].slot = j - 1 /\ Last(f).depth < more[j].depth
    BY <1>1, <1>2 DEF Slots
  <2>2. more[n + 1].slot = (n + 1) - 1 /\ Last(f).depth < more[n + 1].depth
    BY <1>2, <1>6
  <2>3. QED
    BY <1>3, <2>1, <2>2
<1>11. ASSUME NEW i \in 1 .. Len(lv), lv[i].fn = Len(f)
       PROVE  /\ lv[i].kind \in Nests => ~(l.depth < lv[i].depth) /\ ~(n + 1 <= lv[i].height)
              /\ lv[i].kind = "for" => ~(l.depth < lv[i].depth - 1) /\ ~(n + 1 <= lv[i].height - 3)
  <2>1. lv[i].depth \in Int /\ lv[i].height \in Nat /\ lv[i].depth <= l.depth
    BY <1>4, <1>5
  <2>2. lv[i].kind \in Nests => lv[i].height <= n
    BY <1>1, <1>11 DEF Heights
  <2>3. lv[i].kind = "for" => lv[i].kind \in Nests
    BY DEF Nests
  <2>4. QED
    BY <1>2, <1>8, <2>1, <2>2, <2>3
<1>12. ASSUME NEW i \in 1 .. Len(lv), lv[i].fn = Len(f), NEW j \in 1 .. n + 1
       PROVE  /\ lv[i].kind \in Nests => (more[j].depth < lv[i].depth <=> j <= lv[i].height)
              /\ lv[i].kind = "for" => (more[j].depth < lv[i].depth - 1 <=> j <= lv[i].height - 3)
  <2>1. CASE j \in 1 .. n
    BY <1>1, <1>2, <1>12, <2>1 DEF Slots
  <2>2. CASE j = n + 1
    BY <1>2, <1>11, <1>12, <2>2
  <2>3. QED
    BY <1>3, <2>1, <2>2
<1>13. Slots(lv, f, more)
  BY <1>2, <1>10, <1>12 DEF Slots
<1>14. Shape(lv, f, more)
  BY <1>1, <1>2, <1>9, <1>13 DEF Shape
<1>15. QED
  BY <1>14 DEF more

(* A function is begun where there are no locals: its parameters are the *)
(* first of its own.                                                     *)
LEMMA ShapeOpen ==
  ASSUME NEW lv, NEW f, Shape(lv, f, <<>>), FuncOk(f),
         NEW a \in Level, LevelOk(a), Under(Last(lv), a), a.kind \in Opening,
         NEW g \in FuncType, g.depth = Last(lv).depth,
         WaitOk(Last(lv), Last(f).height),
         NEW loc \in Seq(LocalType),
         \A j \in 1 .. Len(loc) : loc[j].slot = j - 1 /\ loc[j].depth = g.depth + 1
  PROVE  Shape(Append(lv, a), Append(f, g), loc)
<1> DEFINE n == Len(lv)
           w == Append(lv, a)
           h == Append(f, g)
<1>1. Nested(lv) /\ Heights(lv, f, 0)
  BY DEF Shape
<1>2. /\ lv \in Seq(Level) /\ n \in Nat \ {0} /\ n \in 1 .. n
      /\ Last(lv) = lv[n] /\ lv[n].depth \in Int
      /\ \A i \in 1 .. n : lv[i].height \in Nat
  BY <1>1, LevelsOf
<1>3. /\ Len(w) = n + 1 /\ w[n + 1] = a /\ Last(w) = a /\ \A i \in 1 .. n : w[i] = lv[i]
  BY <1>2, Appended
<1>4. f \in Seq(FuncType) /\ f # <<>>
  BY DEF FuncOk
<1>5. /\ Len(h) = Len(f) + 1 /\ Len(f) \in Nat \ {0} /\ h[Len(f) + 1] = g /\ Last(h) = g
      /\ \A i \in 1 .. Len(f) : h[i] = f[i]
  BY <1>4, Appended, LastOf
<1>6. Nested(w)
  BY <1>1, NestedPush
<1> HIDE DEF w, h
<1>7. \A i \in 1 .. n + 1 : i \in 1 .. n \/ i = n + 1
  BY <1>2
<1>8. a.fn = Len(f) + 1 /\ a.depth = lv[n].depth + Scopes(a.kind) /\ lv[n].fn = Len(f)
  BY <1>1, <1>2 DEF Under, Heights
<1>9. \A i \in 1 .. n : lv[i].fn \in 1 .. Len(f)
  BY <1>1, <1>2, <1>8, LevelsBelow
<1>10. g.depth < a.depth /\ (a.kind \in {"function", "literal"} => a.depth - 2 <= g.depth)
  <2>1. CASE a.kind = "class"
    <3>1. Scopes(a.kind) = 1
      BY <2>1 DEF Scopes
    <3>2. QED
      BY <1>2, <1>8, <2>1, <3>1
  <2>2. CASE a.kind # "class"
    <3>1. Scopes(a.kind) = 2
      BY <2>2 DEF Scopes, Opening
    <3>2. QED
      BY <1>2, <1>8, <3>1
  <2>3. QED
    BY <2>1, <2>2
<1>11. a.kind \notin Nests
  BY DEF Nests, Opening
<1>12. Len(loc) \in Nat
  OBVIOUS
<1>13. Heights(w, h, Len(loc))
  <2>1. Last(w).fn = Len(h)
    BY <1>3, <1>5, <1>8
  <2>2. ASSUME NEW i \in 1 .. n
        PROVE  /\ h[w[i].fn].depth < w[i].depth
               /\ w[i].kind \in {"function", "literal"} => w[i].depth - 2 <= h[w[i].fn].depth
               /\ w[i].kind \in Nests => w[i].height <= IF w[i].fn = Len(h) THEN Len(loc) ELSE 0
    <3>1. w[i] = lv[i] /\ h[w[i].fn] = f[lv[i].fn]
      BY <1>3, <1>5, <1>9
    <3>2. lv[i].fn # Len(h)
      BY <1>5, <1>9
    <3>3. lv[i].kind \in Nests => lv[i].height <= 0
      BY <1>1 DEF Heights
    <3>4. QED
      BY <1>1, <3>1, <3>2, <3>3 DEF Heights
  <2>3. /\ h[w[n + 1].fn].depth < w[n + 1].depth
        /\ w[n + 1].kind \in {"function", "literal"} => w[n + 1].depth - 2 <= h[w[n + 1].fn].depth
        /\ w[n + 1].kind \notin Nests
    BY <1>3, <1>5, <1>8, <1>10, <1>11
  <2>4. ASSUME NEW i \in 1 .. Len(w) - 1, w[i + 1].kind \in Opening
        PROVE  WaitOk(w[i], h[w[i].fn].height)
    <3>1. i \in 1 .. n /\ Len(w) = n + 1 /\ n \in Nat
      BY <1>2, <1>3
    <3>2. w[i] = lv[i] /\ h[w[i].fn] = f[lv[i].fn]
      BY <1>3, <1>5, <1>9, <3>1
    <3>3. CASE i = n
      BY <1>2, <1>8, <3>2, <3>3 DEF Last
    <3>4. CASE i # n
      <4>1. i \in 1 .. Len(lv) - 1 /\ i + 1 \in 1 .. n
        BY <3>1, <3>4
      <4>2. lv[i + 1].kind \in Opening
        BY <1>3, <2>4, <4>1
      <4>3. QED
        BY <1>1, <3>2, <4>1, <4>2 DEF Heights
    <3>5. QED
      BY <3>3, <3>4
  <2>5. QED
    BY <1>3, <1>7, <2>1, <2>2, <2>3, <2>4 DEF Heights
<1>14. Slots(w, h, loc)
  <2>1. ASSUME NEW j \in 1 .. Len(loc)
        PROVE  loc[j].slot = j - 1 /\ Last(h).depth < loc[j].depth
    <3>1. g.depth \in Int
      BY <1>2
    <3>2. QED
      BY <1>5, <3>1
  <2>2. \A i \in 1 .. Len(w) : w[i].fn = Len(h) => w[i].kind \notin Nests
    <3>1. \A i \in 1 .. n : lv[i].fn # Len(h)
      BY <1>5, <1>9
    <3>2. QED
      BY <1>3, <1>7, <1>11, <3>1
  <2>3. QED
    BY <2>1, <2>2 DEF Slots, Nests
<1>15. Shape(w, h, loc)
  BY <1>6, <1>13, <1>14 DEF Shape
<1>16. QED
  BY <1>15 DEF w, h

(* A function ends, and all locals with it; what it was in had none. *)
LEMMA ShapeClose ==
  ASSUME NEW lv, NEW f, NEW loc \in Seq(LocalType), Shape(lv, f, loc), FuncOk(f),
         Last(lv).kind \in Opening
  PROVE  /\ Shape(Front(lv), Front(f), <<>>) /\ FuncOk(Front(f)) /\ Len(Front(f)) = Len(f) - 1
         /\ Len(f) >= 2 /\ WaitOk(Last(Front(lv)), Last(Front(f)).height)
         /\ \A i \in 1 .. Len(f) - 1 : Front(f)[i] = f[i]
<1> DEFINE n == Len(lv)
           w == Front(lv)
           h == Front(f)
<1>1. Nested(lv) /\ Heights(lv, f, Len(loc)) /\ Slots(lv, f, loc)
  BY DEF Shape
<1>2. Last(lv).kind # "script"
  BY DEF Opening
<1>3. /\ Nested(w) /\ n >= 2 /\ Len(w) = n - 1
      /\ \A i \in 1 .. n - 1 : w[i] = lv[i]
      /\ Last(w) = lv[n - 1] /\ Under(Last(w), Last(lv))
  BY <1>1, <1>2, NestedPop
<1>4. /\ n \in Nat \ {0} /\ Last(lv) = lv[n]
      /\ \A i \in 1 .. n : lv[i].height \in Nat /\ lv[i].fn \in Nat \ {0}
  BY <1>1, LevelsOf
<1>5. f \in Seq(FuncType) /\ f # <<>> /\ \A i \in 1 .. Len(f) : Len(f[i].code) <= 3
  BY DEF FuncOk
<1>6. h \in Seq(FuncType) /\ Len(h) = Len(f) - 1 /\ Len(f) \in Nat \ {0}
      /\ \A i \in 1 .. Len(f) - 1 : h[i] = f[i]
  BY <1>5, FrontOf, LastOf
<1>7. Last(lv).fn = Last(w).fn + 1 /\ Last(lv).fn = Len(f)
  BY <1>1, <1>3 DEF Under, Heights
<1>8. n - 1 \in 1 .. n /\ n - 1 \in 1 .. n - 1
  BY <1>3, <1>4
<1>9. Last(w).fn \in Nat \ {0}
  BY <1>3, <1>4, <1>8
<1> HIDE DEF w, h
<1>10. Last(w).fn = Len(h) /\ Len(f) >= 2
  BY <1>6, <1>7, <1>9
<1>11. \A i \in 1 .. n - 1 : i \in 1 .. n /\ lv[i].fn \in 1 .. Len(f) - 1
  <2>1. \A i \in 1 .. Len(w) : w[i].fn \in 1 .. Last(w).fn
    BY <1>3, LevelsBelow DEF w
  <2>2. Last(w).fn = Len(f) - 1 /\ Len(w) = n - 1
    BY <1>3, <1>6, <1>10 DEF w
  <2>3. \A i \in 1 .. n - 1 : w[i] = lv[i]
    BY <1>3 DEF w
  <2>4. \A i \in 1 .. n - 1 : i \in 1 .. n
    BY <1>4
  <2>5. QED
    BY <2>1, <2>2, <2>3, <2>4
<1>12. Heights(w, h, 0)
  <2>1. ASSUME NEW i \in 1 .. Len(w)
        PROVE  /\ h[w[i].fn].depth < w[i].depth
               /\ w[i].kind \in {"function", "literal"} => w[i].depth - 2 <= h[w[i].fn].depth
               /\ w[i].kind \in Nests => w[i].height <= IF w[i].fn = Len(h) THEN 0 ELSE 0
    <3>1. i \in 1 .. n - 1 /\ i \in 1 .. n /\ w[i] = lv[i] /\ h[w[i].fn] = f[lv[i].fn]
      BY <1>3, <1>6, <1>11
    <3>2. lv[i].fn # Len(f)
      BY <1>6, <1>11, <3>1
    <3>3. QED
      BY <1>1, <3>1, <3>2 DEF Heights
  <2>2. ASSUME NEW i \in 1 .. Len(w) - 1, w[i + 1].kind \in Opening
        PROVE  WaitOk(w[i], h[w[i].fn].height)
    <3>1. i \in 1 .. n - 1 /\ i + 1 \in 1 .. n - 1
      BY <1>3, <1>4
    <3>2. w[i] = lv[i] /\ w[i + 1] = lv[i + 1] /\ h[w[i].fn] = f[lv[i].fn]
      BY <1>3, <1>6, <1>11, <3>1
    <3>3. QED
      BY <1>1, <2>2, <3>1, <3>2 DEF Heights
  <2>3. QED
    BY <1>10, <2>1, <2>2 DEF Heights
<1>13. Slots(w, h, <<>>)
  BY DEF Slots
<1>14. Shape(w, h, <<>>)
  <2>1. Len(<<>>) = 0
    OBVIOUS
  <2>2. QED
    BY <1>3, <1>12, <1>13, <2>1 DEF Shape, w
<1>15. FuncOk(h)
  <2>1. h # <<>>
    BY <1>6, <1>10
  <2>2. QED
    BY <1>5, <1>6, <2>1 DEF FuncOk
<1>16. WaitOk(Last(w), Last(h).height)
  <2>1. (n - 1) + 1 = n
    BY <1>4
  <2>2. WaitOk(lv[n - 1], f[lv[n - 1].fn].height)
    BY <1>1, <1>4, <1>8, <2>1 DEF Heights
  <2>3. Last(h) = f[lv[n - 1].fn]
    BY <1>3, <1>6, <1>8, <1>10, <1>11 DEF Last
  <2>4. QED
    BY <1>3, <2>2, <2>3
<1>17. QED
  BY <1>6, <1>10, <1>14, <1>15, <1>16 DEF w, h

(* A block ends: the locals behind its height are those of its depth, of a *)
(* loop over a sequence also the three of the loop; with them left, what   *)
(* it was in goes on.                                                      *)
Depth(a)  == IF a.kind = "for" THEN a.depth - 1 ELSE a.depth
Height(a) == IF a.kind = "for" THEN a.height - 3 ELSE a.height

LEMMA BlockEnds ==
  ASSUME NEW lv, NEW f, NEW loc \in Seq(LocalType), Shape(lv, f, loc),
         Last(lv).kind \in Nests \ {"script", "sequence"}
  PROVE  LET k    == Height(Last(lv))
             kept == SubSeq(loc, 1, k)
         IN /\ k \in 0 .. Len(loc) /\ Depth(Last(lv)) \in Int
            /\ \A j \in 1 .. Len(loc) : loc[j].depth < Depth(Last(lv)) <=> j <= k
            /\ Shape(Front(lv), f, kept) /\ Shallow(Front(lv), kept)
            /\ Last(Front(lv)).kind \in Bodies /\ Last(Front(lv)).depth = Depth(Last(lv)) - 1
            /\ kept \in Seq(LocalType) /\ Len(kept) = k
<1> DEFINE n == Len(lv)
           a == lv[n]
           b == lv[n - 1]
           k == Height(a)
           kept == SubSeq(loc, 1, k)
<1>1. Nested(lv) /\ Heights(lv, f, Len(loc)) /\ Slots(lv, f, loc)
  BY DEF Shape
<1>2. /\ n \in Nat \ {0} /\ n \in 1 .. n /\ Last(lv) = a
      /\ \A i \in 1 .. n : /\ lv[i] \in Level /\ lv[i].kind \in Kinds /\ lv[i].height \in Nat
                            /\ lv[i].depth \in Int /\ lv[i].fn \in Nat \ {0}
                            /\ LevelOk(lv[i])
  BY <1>1, LevelsOf
<1>3. a.kind \in {"then", "else", "elsif", "while", "for"} /\ a.kind \notin Opening
  BY <1>2 DEF Nests, Opening
<1>4. /\ Nested(Front(lv)) /\ n >= 2 /\ Len(Front(lv)) = n - 1
      /\ \A i \in 1 .. n - 1 : Front(lv)[i] = lv[i]
      /\ Last(Front(lv)) = b /\ Under(b, a)
  BY <1>1, <1>2, <1>3, NestedPop
<1>5. a.height \in Nat /\ a.depth \in Int /\ (a.kind = "for" => a.height >= 3)
  BY <1>2 DEF LevelOk
<1>6. a.fn = Len(f) /\ a.height <= Len(loc)
  <2>1. a.fn = Len(f)
    BY <1>1, <1>2 DEF Heights
  <2>2. QED
    BY <1>1, <1>2, <2>1 DEF Heights
<1>7. k \in 0 .. Len(loc) /\ Depth(a) \in Int /\ k <= a.height
  <2>1. Len(loc) \in Nat
    OBVIOUS
  <2>2. QED
    BY <1>5, <1>6, <2>1 DEF Height, Depth
<1>8. \A j \in 1 .. Len(loc) : loc[j].depth < Depth(a) <=> j <= k
  <2>1. CASE a.kind = "for"
    BY <1>1, <1>2, <1>6, <2>1 DEF Slots, Height, Depth
  <2>2. CASE a.kind # "for"
    BY <1>1, <1>2, <1>6, <2>2 DEF Slots, Height, Depth
  <2>3. QED
    BY <2>1, <2>2
<1>9. b.depth = Depth(a) - 1 /\ b.depth \in Int
  <2>1. a.depth = b.depth + Scopes(a.kind)
    BY <1>4 DEF Under
  <2>2. n - 1 \in 1 .. n
    BY <1>2, <1>4
  <2>3. b.depth \in Int
    BY <1>2, <2>2
  <2>4. CASE a.kind = "for"
    BY <1>5, <2>1, <2>3, <2>4 DEF Scopes, Depth
  <2>5. CASE a.kind # "for"
    <3>1. Scopes(a.kind) = 1
      BY <1>3, <2>5 DEF Scopes
    <3>2. QED
      BY <1>5, <2>1, <2>3, <2>5, <3>1 DEF Depth
  <2>6. QED
    BY <2>3, <2>4, <2>5
<1>10. b.kind \in Bodies
  <2>1. n - 1 \in 1 .. n
    BY <1>2, <1>4
  <2>2. b.kind \in Kinds
    BY <1>2, <2>1
  <2>3. b.kind \notin Expressions /\ b.kind # "class"
    BY <1>3, <1>4 DEF Under
  <2>4. QED
    BY <2>2, <2>3 DEF Kinds, Bodies
<1> HIDE DEF k, a, b
<1>11. ASSUME NEW i \in 1 .. n - 1, lv[i].fn = Len(f), lv[i].kind \in Nests
       PROVE  lv[i].height <= k
  <2>1. i \in 1 .. n /\ lv[i].height \in Nat /\ lv[i].depth \in Int
    BY <1>2
  <2>2. lv[i].depth <= b.depth
    <3>1. \A m \in 1 .. Len(Front(lv)) : Front(lv)[m].depth <= Last(Front(lv)).depth
      BY <1>4, LevelsBelow
    <3>2. QED
      BY <1>4, <3>1
  <2>3. CASE lv[i].height = 0
    BY <1>7, <2>3
  <2>4. CASE lv[i].height # 0
    <3>1. lv[i].height <= Len(loc)
      BY <1>1, <1>11, <2>1 DEF Heights
    <3>2. lv[i].height \in 1 .. Len(loc)
      BY <2>1, <2>4, <3>1
    <3>3. loc[lv[i].height].depth < lv[i].depth
      BY <1>1, <1>11, <2>1, <3>2 DEF Slots
    <3>4. loc[lv[i].height].depth \in Nat
      BY <3>2, LocalOf
    <3>5. loc[lv[i].height].depth < Depth(a)
      BY <1>7, <1>9, <2>1, <2>2, <3>3, <3>4
    <3>6. QED
      BY <1>8, <3>2, <3>5
  <2>5. QED
    BY <2>3, <2>4
<1>12. Shape(Front(lv), f, kept)
  BY <1>2, <1>3, <1>7, <1>11, ShapePop
<1>13. kept \in Seq(LocalType) /\ Len(kept) = k /\ \A j \in 1 .. k : kept[j] = loc[j]
  BY <1>7, Truncated
<1>14. Shallow(Front(lv), kept)
  <2>1. ASSUME NEW j \in 1 .. k
        PROVE  loc[j].depth <= b.depth
    <3>1. j \in 1 .. Len(loc) /\ j <= k
      BY <1>7
    <3>2. loc[j].depth \in Nat /\ loc[j].depth < Depth(a)
      BY <1>8, <3>1, LocalOf
    <3>3. QED
      BY <1>7, <1>9, <3>2
  <2>2. QED
    BY <1>4, <1>13, <2>1 DEF Shallow
<1>15. QED
  BY <1>2, <1>4, <1>7, <1>8, <1>9, <1>10, <1>12, <1>13, <1>14 DEF k

(* An expression is entered, or a block without locals of its own. *)
LEMMA EnterExpression ==
  ASSUME NEW lv, NEW f, NEW loc \in Seq(LocalType), Shape(lv, f, loc), Shallow(lv, loc), FuncOk(f),
         NEW a \in Level, LevelOk(a), Under(Last(lv), a),
         a.kind \in Expressions \ {"sequence"}
  PROVE  /\ Shape(Append(lv, a), f, loc) /\ Shallow(Append(lv, a), loc)
         /\ a.depth = Last(lv).depth
<1>1. a.kind \notin Opening /\ a.kind \notin Nests /\ a.kind # "for" /\ a.kind # "sequence"
  BY DEF Expressions, Opening, Nests
<1>2. f[Len(f)].depth \in Int
  BY InnermostOf
<1>3. Shape(Append(lv, a), f, loc)
  BY <1>1, <1>2, ShapePush
<1>4. lv \in Seq(Level) /\ lv # <<>>
  BY DEF Shape, Nested
<1>5. Last(Append(lv, a)) = a
  BY <1>4, Appended
<1>6. a.depth = Last(lv).depth
  <2>1. a.depth = Last(lv).depth + 0
    BY <1>1 DEF Under, Scopes, Expressions
  <2>2. Last(lv).depth \in Int
    BY LevelsOf DEF Shape
  <2>3. QED
    BY <2>1, <2>2
<1>7. Shallow(Append(lv, a), loc)
  BY <1>5, <1>6 DEF Shallow
<1>8. QED
  BY <1>3, <1>6, <1>7

LEMMA EnterBlock ==
  ASSUME NEW lv, NEW f, NEW loc \in Seq(LocalType), Shape(lv, f, loc), Shallow(lv, loc), FuncOk(f),
         NEW a \in Level, LevelOk(a), Under(Last(lv), a),
         a.kind \in Nests \ {"script", "for"}, a.height = Len(loc)
  PROVE  /\ Shape(Append(lv, a), f, loc) /\ Shallow(Append(lv, a), loc)
         /\ a.depth = Last(lv).depth + 1
<1>1. a.kind \notin Opening /\ a.kind # "for"
  BY DEF Opening, Nests
<1>2. f[Len(f)].depth \in Int
  BY InnermostOf
<1>3. lv \in Seq(Level) /\ lv # <<>>
  BY DEF Shape, Nested
<1>4. Last(Append(lv, a)) = a
  BY <1>3, Appended
<1>5. a.depth = Last(lv).depth + 1
  <2>1. Scopes(a.kind) = 1
    BY DEF Scopes, Nests
  <2>2. QED
    BY <2>1 DEF Under
<1>6. ASSUME NEW j \in 1 .. Len(loc)
      PROVE  (loc[j].depth < a.depth <=> j <= a.height) /\ loc[j].depth <= a.depth
  <2>1. loc[j].depth <= Last(lv).depth
    BY DEF Shallow
  <2>2. loc[j].depth \in Nat /\ Last(lv).depth \in Int /\ j <= Len(loc)
    BY LevelsOf, LocalOf DEF Shape
  <2>3. QED
    BY <1>5, <2>1, <2>2
<1>7. a.height <= Len(loc)
  OBVIOUS
<1>8. Shape(Append(lv, a), f, loc)
  BY <1>1, <1>2, <1>6, <1>7, ShapePush
<1>9. Shallow(Append(lv, a), loc)
  BY <1>4, <1>6 DEF Shallow
<1>10. QED
  BY <1>5, <1>8, <1>9

(* An expression ends. *)
LEMMA LeaveExpression ==
  ASSUME NEW lv, NEW f, NEW loc \in Seq(LocalType), Shape(lv, f, loc), Shallow(lv, loc),
         Last(lv).kind \in Expressions
  PROVE  /\ Shape(Front(lv), f, loc) /\ Under(Last(Front(lv)), Last(lv))
         /\ Last(lv).kind # "sequence" =>
              Shallow(Front(lv), loc) /\ Last(Front(lv)).depth = Last(lv).depth
<1> DEFINE n == Len(lv)
<1>1. Nested(lv) /\ Heights(lv, f, Len(loc))
  BY DEF Shape
<1>2. Last(lv).kind # "script" /\ Last(lv).kind \notin Opening
  BY DEF Expressions, Opening
<1>3. /\ n \in Nat \ {0} /\ Last(lv) = lv[n]
      /\ \A i \in 1 .. n : lv[i].depth \in Int
  BY <1>1, LevelsOf
<1>4. n >= 2 /\ Last(Front(lv)) = lv[n - 1] /\ Under(Last(Front(lv)), Last(lv))
  BY <1>1, <1>2, NestedPop
<1>5. Len(loc) \in 0 .. Len(loc) /\ SubSeq(loc, 1, Len(loc)) = loc
  <2>1. Len(loc) \in 0 .. Len(loc)
    OBVIOUS
  <2>2. /\ SubSeq(loc, 1, Len(loc)) \in Seq(LocalType) /\ Len(SubSeq(loc, 1, Len(loc))) = Len(loc)
        /\ \A i \in 1 .. Len(loc) : SubSeq(loc, 1, Len(loc))[i] = loc[i]
    BY <2>1, Truncated
  <2>3. \A u, v \in Seq(LocalType) : Len(u) = Len(v) /\ (\A i \in 1 .. Len(v) : u[i] = v[i]) => u = v
    OBVIOUS
  <2>4. QED
    BY <2>1, <2>2, <2>3
<1>6. \A i \in 1 .. n - 1 : lv[i].fn = Len(f) /\ lv[i].kind \in Nests => lv[i].height <= Len(loc)
  <2>1. \A i \in 1 .. n - 1 : i \in 1 .. n
    BY <1>3
  <2>2. QED
    BY <1>1, <2>1 DEF Heights
<1>7. Shape(Front(lv), f, SubSeq(loc, 1, Len(loc)))
  BY <1>2, <1>5, <1>6, ShapePop
<1>8. ASSUME Last(lv).kind # "sequence"
      PROVE  Last(Front(lv)).depth = Last(lv).depth
  <2>1. Last(lv).depth = Last(Front(lv)).depth + 0
    BY <1>4, <1>8 DEF Under, Scopes, Expressions
  <2>2. n - 1 \in 1 .. n
    BY <1>3, <1>4
  <2>3. Last(Front(lv)).depth \in Int
    BY <1>3, <1>4, <2>2
  <2>4. QED
    BY <2>1, <2>3
<1>9. QED
  BY <1>4, <1>5, <1>7, <1>8 DEF Shallow

-----------------------------------------------------------------------------
(* The loops, as levels are entered and left. *)
LEMMA LoopsEnter ==
  ASSUME NEW lv, Nested(lv), NEW at, NEW lp, LoopsOk(lv, at, lp),
         NEW a \in Level, a.kind \notin Looping
  PROVE  LoopsOk(Append(lv, a), at, lp)
<1> DEFINE n == Len(lv)
           w == Append(lv, a)
<1>1. lv \in Seq(Level) /\ n \in Nat \ {0}
  BY LevelsOf
<1>2. Len(w) = n + 1 /\ w[n + 1] = a /\ \A i \in 1 .. n : w[i] = lv[i]
  BY <1>1, Appended
<1>3. \A i \in 1 .. n : i \in 1 .. n + 1
  BY <1>1
<1>4. \A i \in 1 .. n + 1 : i \in 1 .. n \/ i = n + 1
  BY <1>1
<1> HIDE DEF w
<1>5. \A m \in 1 .. Len(lp) :
        at[m] \in 1 .. Len(w) /\ w[at[m]].kind \in Looping /\ LoopOk(w[at[m]], lp[m])
  BY <1>2, <1>3 DEF LoopsOk
<1>6. \A i \in 1 .. Len(w) : w[i].kind \in Looping => \E m \in 1 .. Len(lp) : at[m] = i
  BY <1>2, <1>4 DEF LoopsOk
<1>7. LoopsOk(w, at, lp)
  BY <1>5, <1>6 DEF LoopsOk
<1>8. QED
  BY <1>7 DEF w

LEMMA LoopsLeave ==
  ASSUME NEW lv, Nested(lv), NEW at, NEW lp, LoopsOk(lv, at, lp), Last(lv).kind \notin Looping
  PROVE  LoopsOk(Front(lv), at, lp)
<1> DEFINE n == Len(lv)
           w == Front(lv)
<1>1. lv \in Seq(Level) /\ lv # <<>> /\ n \in Nat \ {0} /\ Last(lv) = lv[n]
  BY LevelsOf
<1>2. Len(w) = n - 1 /\ \A i \in 1 .. n - 1 : w[i] = lv[i]
  BY <1>1, FrontOf
<1>3. \A i \in 1 .. n - 1 : i \in 1 .. n
  BY <1>1
<1>4. \A i \in 1 .. n : i \in 1 .. n - 1 \/ i = n
  BY <1>1
<1> HIDE DEF w
<1>5. ASSUME NEW m \in 1 .. Len(lp)
      PROVE  at[m] \in 1 .. Len(w) /\ w[at[m]].kind \in Looping /\ LoopOk(w[at[m]], lp[m])
  <2>1. at[m] \in 1 .. n /\ lv[at[m]].kind \in Looping /\ LoopOk(lv[at[m]], lp[m])
    BY DEF LoopsOk
  <2>2. at[m] # n
    BY <1>1, <2>1
  <2>3. at[m] \in 1 .. n - 1
    BY <1>4, <2>1, <2>2
  <2>4. QED
    BY <1>2, <2>1, <2>3
<1>6. \A i \in 1 .. Len(w) : w[i].kind \in Looping => \E m \in 1 .. Len(lp) : at[m] = i
  BY <1>2, <1>3 DEF LoopsOk
<1>7. LoopsOk(w, at, lp)
  BY <1>5, <1>6 DEF LoopsOk
<1>8. QED
  BY <1>7 DEF w

LEMMA LoopsBegin ==
  ASSUME NEW lv, Nested(lv), NEW at, NEW lp \in Seq(LoopType), LoopsOk(lv, at, lp),
         NEW a \in Level, a.kind \in Looping, NEW l \in LoopType, LoopOk(a, l)
  PROVE  LoopsOk(Append(lv, a), Append(at, Len(lv) + 1), Append(lp, l))
<1> DEFINE n == Len(lv)
           w == Append(lv, a)
           k == Len(lp)
           bt == Append(at, n + 1)
           mp == Append(lp, l)
<1>1. lv \in Seq(Level) /\ n \in Nat \ {0}
  BY LevelsOf
<1>2. Len(w) = n + 1 /\ w[n + 1] = a /\ \A i \in 1 .. n : w[i] = lv[i]
  BY <1>1, Appended
<1>3. at \in Seq(Nat) /\ Len(at) = k /\ n + 1 \in Nat
  BY <1>1 DEF LoopsOk
<1>4. /\ bt \in Seq(Nat) /\ Len(bt) = k + 1 /\ k \in Nat /\ bt[k + 1] = n + 1
      /\ \A m \in 1 .. k : bt[m] = at[m]
  BY <1>3, Appended
<1>5. Len(mp) = k + 1 /\ mp[k + 1] = l /\ \A m \in 1 .. k : mp[m] = lp[m]
  BY Appended
<1>6. \A m \in 1 .. k + 1 : m \in 1 .. k \/ m = k + 1
  BY <1>4
<1>7. \A i \in 1 .. n + 1 : i \in 1 .. n \/ i = n + 1
  BY <1>1
<1>8. \A m \in 1 .. k : at[m] \in 1 .. n /\ lv[at[m]].kind \in Looping /\ LoopOk(lv[at[m]], lp[m])
  BY DEF LoopsOk
<1> HIDE DEF w, bt, mp, n, k
<1>9. ASSUME NEW m \in 1 .. Len(mp)
      PROVE  bt[m] \in 1 .. Len(w) /\ w[bt[m]].kind \in Looping /\ LoopOk(w[bt[m]], mp[m])
  <2>1. CASE m \in 1 .. k
    <3>1. bt[m] = at[m] /\ mp[m] = lp[m] /\ at[m] \in 1 .. n
      BY <1>4, <1>5, <1>8, <2>1
    <3>2. bt[m] \in 1 .. n + 1
      BY <1>1, <3>1
    <3>3. QED
      BY <1>2, <1>8, <2>1, <3>1, <3>2
  <2>2. CASE m = k + 1
    <3>1. n + 1 \in 1 .. n + 1
      BY <1>1
    <3>2. QED
      BY <1>2, <1>4, <1>5, <2>2, <3>1
  <2>3. QED
    BY <1>5, <1>6, <2>1, <2>2
<1>10. ASSUME NEW i \in 1 .. Len(mp), NEW j \in 1 .. Len(mp), i < j
       PROVE  bt[i] < bt[j]
  <2>1. i \in 1 .. k
    BY <1>4, <1>5, <1>10
  <2>2. CASE j \in 1 .. k
    <3>1. at[i] < at[j]
      BY <1>10, <2>1, <2>2 DEF LoopsOk, k
    <3>2. QED
      BY <1>4, <2>1, <2>2, <3>1
  <2>3. CASE j = k + 1
    <3>1. at[i] \in 1 .. n
      BY <1>8, <2>1
    <3>2. QED
      BY <1>1, <1>4, <2>1, <2>3, <3>1
  <2>4. QED
    BY <1>5, <1>6, <2>2, <2>3
<1>11. ASSUME NEW i \in 1 .. Len(w), w[i].kind \in Looping
       PROVE  \E m \in 1 .. Len(mp) : bt[m] = i
  <2>1. \A m \in 1 .. k : m \in 1 .. k + 1
    BY <1>4
  <2>2. k + 1 \in 1 .. k + 1
    BY <1>4
  <2>3. CASE i \in 1 .. n
    <3>1. lv[i].kind \in Looping
      BY <1>2, <1>11, <2>3
    <3>2. PICK m \in 1 .. k : at[m] = i
      BY <2>3, <3>1 DEF LoopsOk, n, k
    <3>3. QED
      BY <1>4, <1>5, <2>1, <3>2
  <2>4. CASE i = n + 1
    BY <1>4, <1>5, <2>2, <2>4
  <2>5. QED
    BY <1>2, <1>7, <2>3, <2>4
<1>12. LoopsOk(w, bt, mp)
  BY <1>4, <1>5, <1>9, <1>10, <1>11 DEF LoopsOk
<1>13. QED
  BY <1>12 DEF w, bt, mp, n

LEMMA LoopsEnd ==
  ASSUME NEW lv, Nested(lv), NEW at, NEW lp \in Seq(LoopType), LoopsOk(lv, at, lp),
         Last(lv).kind \in Looping
  PROVE  lp # <<>> /\ LoopOk(Last(lv), Last(lp)) /\ LoopsOk(Front(lv), Front(at), Front(lp))
<1> DEFINE n == Len(lv)
           w == Front(lv)
           k == Len(lp)
           bt == Front(at)
           mp == Front(lp)
<1>1. lv \in Seq(Level) /\ lv # <<>> /\ n \in Nat \ {0} /\ Last(lv) = lv[n] /\ n \in 1 .. n
  BY LevelsOf
<1>2. Len(w) = n - 1 /\ \A i \in 1 .. n - 1 : w[i] = lv[i]
  BY <1>1, FrontOf
<1>3. at \in Seq(Nat) /\ Len(at) = k /\ k \in Nat
  BY DEF LoopsOk
<1>4. PICK m \in 1 .. k : at[m] = n
  BY <1>1 DEF LoopsOk
<1>5. \A i \in 1 .. k : at[i] \in 1 .. n /\ lv[at[i]].kind \in Looping /\ LoopOk(lv[at[i]], lp[i])
  BY DEF LoopsOk
<1>6. \A i, j \in 1 .. k : i < j => at[i] < at[j]
  BY DEF LoopsOk
<1> HIDE DEF n, k
<1>7. m = k
  <2>1. SUFFICES ASSUME m # k PROVE FALSE
    OBVIOUS
  <2>2. m < k /\ k \in 1 .. k
    BY <1>3, <1>4, <2>1
  <2>3. at[m] < at[k] /\ at[k] \in 1 .. n
    BY <1>4, <1>5, <1>6, <2>2
  <2>4. QED
    BY <1>1, <1>4, <2>3
<1>8. k \in Nat \ {0} /\ k \in 1 .. k /\ at[k] = n /\ LoopOk(Last(lv), lp[k])
  BY <1>1, <1>3, <1>4, <1>5, <1>7
<1>9. lp # <<>> /\ at # <<>>
  BY <1>3, <1>8 DEF k
<1>10. Len(mp) = k - 1 /\ \A i \in 1 .. k - 1 : mp[i] = lp[i]
  BY <1>9, FrontOf DEF k
<1>11. bt \in Seq(Nat) /\ Len(bt) = k - 1 /\ \A i \in 1 .. k - 1 : bt[i] = at[i]
  BY <1>3, <1>9, FrontOf
<1> HIDE DEF w, bt, mp
<1>12. \A i \in 1 .. k - 1 : i \in 1 .. k /\ i < k
  BY <1>8
<1>13. \A i \in 1 .. n - 1 : i \in 1 .. n /\ i # n
  BY <1>1
<1>14. ASSUME NEW i \in 1 .. Len(mp)
       PROVE  bt[i] \in 1 .. Len(w) /\ w[bt[i]].kind \in Looping /\ LoopOk(w[bt[i]], mp[i])
  <2>1. i \in 1 .. k /\ i < k /\ bt[i] = at[i] /\ mp[i] = lp[i]
    BY <1>10, <1>11, <1>12
  <2>2. at[i] < n /\ at[i] \in 1 .. n
    BY <1>5, <1>6, <1>8, <2>1
  <2>3. at[i] \in 1 .. n - 1
    BY <1>1, <2>2
  <2>4. QED
    BY <1>2, <1>5, <2>1, <2>3
<1>15. \A i, j \in 1 .. Len(mp) : i < j => bt[i] < bt[j]
  BY <1>6, <1>10, <1>11, <1>12
<1>16. ASSUME NEW i \in 1 .. Len(w), w[i].kind \in Looping
       PROVE  \E j \in 1 .. Len(mp) : bt[j] = i
  <2>1. i \in 1 .. n /\ i # n /\ lv[i].kind \in Looping
    BY <1>2, <1>13, <1>16
  <2>2. PICK j \in 1 .. k : at[j] = i
    BY <2>1 DEF LoopsOk, n, k
  <2>3. j # k
    BY <1>8, <2>1, <2>2
  <2>4. j \in 1 .. k - 1
    BY <1>8, <2>2, <2>3
  <2>5. QED
    BY <1>10, <1>11, <2>2, <2>4
<1>17. LoopsOk(w, bt, mp)
  BY <1>10, <1>11, <1>14, <1>15, <1>16 DEF LoopsOk
<1>18. QED
  BY <1>8, <1>9, <1>17 DEF w, bt, mp, Last, k

(* What the innermost loop knows of itself changes. *)
LEMMA LoopsChange ==
  ASSUME NEW lv, NEW at, NEW lp \in Seq(LoopType), LoopsOk(lv, at, lp), lp # <<>>,
         NEW l \in LoopType, LoopOk(lv[at[Len(lp)]], l)
  PROVE  LoopsOk(lv, at, Front(lp) \o <<l>>)
<1> DEFINE k == Len(lp)
           mp == Front(lp) \o <<l>>
<1>1. /\ mp \in Seq(LoopType) /\ Len(mp) = k /\ Last(mp) = l
      /\ \A i \in 1 .. k - 1 : mp[i] = lp[i]
  BY Replaced
<1>2. k \in Nat \ {0}
  BY LastOf
<1> HIDE DEF mp
<1>3. \A i \in 1 .. k : i \in 1 .. k - 1 \/ i = k
  BY <1>2
<1>4. \A m \in 1 .. k :
        at[m] \in 1 .. Len(lv) /\ lv[at[m]].kind \in Looping /\ LoopOk(lv[at[m]], mp[m])
  BY <1>1, <1>3 DEF LoopsOk, Last
<1>5. LoopsOk(lv, at, mp)
  BY <1>1, <1>4 DEF LoopsOk
<1>6. QED
  BY <1>5 DEF mp

-----------------------------------------------------------------------------
(* The parser's chain is that of the levels. *)
Entry == [kind : Kinds, height : Nat]

LEMMA ParsedIs ==
  ASSUME NEW lv \in Seq(Level), lv # <<>>
  PROVE  /\ Parsed(lv) \in Seq(Entry) /\ Len(Parsed(lv)) = Len(lv) /\ Parsed(lv) # <<>>
         /\ Last(Parsed(lv)).kind = Last(lv).kind /\ Last(Parsed(lv)).height = Last(lv).height
<1>1. Len(lv) \in Nat \ {0} /\ Len(lv) \in 1 .. Len(lv)
  BY LastOf
<1>2. \A i \in 1 .. Len(lv) : lv[i].kind \in Kinds /\ lv[i].height \in Nat
  <2>1. \A i \in 1 .. Len(lv) : lv[i] \in Level
    BY ElementOfSeq
  <2>2. QED
    BY <2>1 DEF Level
<1>3. Parsed(lv) \in Seq(Entry) /\ Len(Parsed(lv)) = Len(lv)
  BY <1>1, <1>2 DEF Parsed, Entry
<1>4. Parsed(lv)[Len(lv)] = [kind |-> lv[Len(lv)].kind, height |-> lv[Len(lv)].height]
  BY <1>1 DEF Parsed
<1>5. Parsed(lv) # <<>>
  BY <1>1, <1>3
<1>6. QED
  BY <1>3, <1>4, <1>5 DEF Last

LEMMA ParsedEnter ==
  ASSUME NEW lv \in Seq(Level), NEW a \in Level
  PROVE  Parsed(Append(lv, a)) = Append(Parsed(lv), [kind |-> a.kind, height |-> a.height])
<1> DEFINE n == Len(lv)
           w == Append(lv, a)
           e == [kind |-> a.kind, height |-> a.height]
           p == Append(Parsed(lv), e)
<1>1. w \in Seq(Level) /\ w # <<>> /\ Len(w) = n + 1 /\ n \in Nat /\ w[n + 1] = a
      /\ \A i \in 1 .. n : w[i] = lv[i]
  BY Appended
<1>2. Parsed(w) \in Seq(Entry) /\ Len(Parsed(w)) = n + 1
  BY <1>1, ParsedIs
<1>3. Parsed(lv) \in Seq(Entry) /\ Len(Parsed(lv)) = n
  <2>1. CASE lv = <<>>
    BY <2>1 DEF Parsed
  <2>2. CASE lv # <<>>
    BY <2>2, ParsedIs
  <2>3. QED
    BY <2>1, <2>2
<1>4. e \in Entry
  BY DEF Level, Entry
<1> HIDE DEF w, e
<1>5. p \in Seq(Entry) /\ Len(p) = n + 1 /\ p[n + 1] = e /\ \A i \in 1 .. n : p[i] = Parsed(lv)[i]
  BY <1>3, <1>4, Appended
<1> HIDE DEF p
<1>6. ASSUME NEW i \in 1 .. n + 1
      PROVE  Parsed(w)[i] = p[i]
  <2>1. Parsed(w)[i] = [kind |-> w[i].kind, height |-> w[i].height]
    BY <1>1 DEF Parsed
  <2>2. CASE i \in 1 .. n
    <3>1. Parsed(lv)[i] = [kind |-> lv[i].kind, height |-> lv[i].height]
      BY <2>2 DEF Parsed
    <3>2. QED
      BY <1>1, <1>5, <2>1, <2>2, <3>1
  <2>3. CASE i = n + 1
    BY <1>1, <1>5, <2>1, <2>3 DEF e
  <2>4. QED
    BY <1>1, <2>2, <2>3
<1>7. \A u, v \in Seq(Entry) : Len(u) = Len(v) /\ (\A i \in 1 .. Len(v) : u[i] = v[i]) => u = v
  OBVIOUS
<1>8. Parsed(w) = p
  BY <1>2, <1>5, <1>6, <1>7
<1>9. QED
  BY <1>8 DEF w, p, e

LEMMA ParsedLeave ==
  ASSUME NEW lv \in Seq(Level), lv # <<>>
  PROVE  Parsed(Front(lv)) = Front(Parsed(lv))
<1> DEFINE w == Front(lv)
           a == Last(lv)
<1>1. w \in Seq(Level) /\ a \in Level /\ Len(w) = Len(lv) - 1 /\ Len(lv) \in Nat \ {0}
      /\ \A i \in 1 .. Len(lv) - 1 : w[i] = lv[i]
  BY FrontOf, LastOf
<1> HIDE DEF w
<1>2. Append(w, a) = lv
  BY Rejoined DEF w
<1>3. Parsed(lv) = Append(Parsed(w), [kind |-> a.kind, height |-> a.height])
  BY <1>1, <1>2, ParsedEnter
<1>4. Parsed(w) \in Seq(Entry)
  <2>1. CASE w = <<>>
    BY <2>1 DEF Parsed
  <2>2. CASE w # <<>>
    BY <1>1, <2>2, ParsedIs
  <2>3. QED
    BY <2>1, <2>2
<1>5. [kind |-> a.kind, height |-> a.height] \in Entry
  BY <1>1 DEF Level, Entry
<1>6. QED
  BY <1>3, <1>4, <1>5, Appended DEF w

(* What the invariant says of the place the parser is at. *)
LEMMA At ==
  ASSUME Types, NEW lv, Scoped(lv)
  PROVE  /\ Nested(lv) /\ Shape(lv, func, locals) /\ Shallow(lv, locals)
         /\ lv \in Seq(Level) /\ lv # <<>> /\ Last(lv) \in Level /\ LevelOk(Last(lv))
         /\ Last(lv).kind \in Kinds /\ Last(lv).height \in Nat /\ Last(lv).depth \in Int
         /\ Last(lv).fn = Len(func) /\ Last(lv).own \in Nat /\ scope_depth = Last(lv).depth
         /\ parse # <<>> /\ Top.kind = Last(lv).kind /\ Top.height = Last(lv).height
         /\ parse \in Seq(Entry) /\ Len(parse) = Len(lv)
         /\ TopOk(Last(lv), Fn.height, Len(locals), new_local) /\ Len(locals) \in Nat
         /\ FuncOk(func) /\ Len(func) \in Nat \ {0} /\ Fn.height \in Nat
<1>1. /\ parse = Parsed(lv) /\ scope_depth = Last(lv).depth
      /\ Shape(lv, func, locals) /\ Shallow(lv, locals)
      /\ TopOk(Last(lv), Fn.height, Len(locals), new_local)
  BY DEF Scoped
<1>2. Nested(lv) /\ Last(lv).fn = Len(func)
  BY <1>1 DEF Shape, Heights
<1>3. lv \in Seq(Level) /\ lv # <<>>
  BY <1>2, LevelsOf
<1>4. Last(lv) \in Level /\ LevelOk(Last(lv))
  BY <1>2, LevelsOf
<1>5. /\ Last(lv).kind \in Kinds /\ Last(lv).height \in Nat /\ Last(lv).depth \in Int
      /\ Last(lv).own \in Nat
  BY <1>4 DEF Level
<1>6. parse # <<>> /\ Top.kind = Last(lv).kind /\ Top.height = Last(lv).height
      /\ parse \in Seq(Entry) /\ Len(parse) = Len(lv)
  BY <1>1, <1>3, ParsedIs DEF Top
<1>7. Len(locals) \in Nat /\ FuncOk(func)
  BY DEF Types
<1>8. Len(func) \in Nat \ {0} /\ Fn.height \in Nat
  BY <1>7, FnOf
<1>9. QED
  BY <1>1, <1>2, <1>3, <1>4, <1>5, <1>6, <1>7, <1>8

LEMMA SameAgain ==
  ASSUME NEW f, FuncOk(f)
  PROVE  SameBut(f, f)
BY DEF SameBut

LEMMA BodyOk ==
  ASSUME NEW b, b.kind \in Bodies, NEW h
  PROVE  TopOk(b, h, h, FALSE)
BY DEF TopOk, Bodies, Blocks, Expressions

(* An expression is entered. *)
LEMMA Entered ==
  ASSUME Types, NEW lv, Scoped(lv), NEW a \in Level, LevelOk(a), Under(Last(lv), a),
         a.kind \in Expressions \ {"sequence"}, SameBut(func, func'),
         parse' = Enter(a.kind, a.height), scope_depth' = scope_depth, locals' = locals,
         TopOk(a, Last(func').height, Len(locals), new_local')
  PROVE  Scoped(Append(lv, a))'
<1> DEFINE w == Append(lv, a)
<1>1. /\ Shape(lv, func, locals) /\ Shallow(lv, locals) /\ lv \in Seq(Level)
      /\ FuncOk(func) /\ scope_depth = Last(lv).depth
  BY At
<1>2. locals \in Seq(LocalType)
  BY DEF Types
<1>3. Shape(w, func, locals) /\ Shallow(w, locals) /\ a.depth = Last(lv).depth
  BY <1>1, <1>2, EnterExpression
<1>4. parse' = Parsed(w)
  BY <1>1, ParsedEnter DEF Scoped, Enter
<1>5. Last(w) = a
  BY <1>1, Appended
<1> HIDE DEF w
<1>6. Shape(w, func', locals)
  BY <1>3, ShapeEmit
<1>7. Scoped(w)'
  BY <1>1, <1>3, <1>4, <1>5, <1>6 DEF Scoped, Fn
<1>8. QED
  BY <1>7 DEF w

(* An expression ends. *)
LEMMA Left ==
  ASSUME Types, NEW lv, Scoped(lv), Last(lv).kind \in Expressions \ {"sequence"}, SameBut(func, func'),
         parse' = Front(parse), scope_depth' = scope_depth, locals' = locals,
         TopOk(Last(Front(lv)), Last(func').height, Len(locals), new_local')
  PROVE  Scoped(Front(lv))'
<1> DEFINE w == Front(lv)
<1>1. /\ Shape(lv, func, locals) /\ Shallow(lv, locals) /\ lv \in Seq(Level) /\ lv # <<>>
      /\ FuncOk(func) /\ scope_depth = Last(lv).depth
  BY At
<1>2. locals \in Seq(LocalType)
  BY DEF Types
<1>3. Shape(w, func, locals) /\ Shallow(w, locals) /\ Last(w).depth = Last(lv).depth
  BY <1>1, <1>2, LeaveExpression
<1>4. parse' = Parsed(w)
  BY <1>1, ParsedLeave DEF Scoped
<1> HIDE DEF w
<1>5. Shape(w, func', locals)
  BY <1>3, ShapeEmit
<1>6. TopOk(Last(w), Last(func').height, Len(locals), new_local')
  BY DEF w
<1>7. Scoped(w)'
  BY <1>1, <1>3, <1>4, <1>5, <1>6 DEF Scoped, Fn
<1>8. QED
  BY <1>7 DEF w

(* The jumps of a step agree when they come from one height. *)
LEMMA JumpsFrom ==
  ASSUME FuncOk(func), NEW x \in Int, jumps' \subseteq {Jump(Here(x), Here(x))}
  PROVE  JumpsAgree' /\ \A j \in jumps' : j.from \in Places /\ j.to \in Places
<1>1. Len(func) \in Nat \ {0}
  BY FnOf
<1>2. Here(x) \in Places
  BY <1>1 DEF Here, Places
<1>3. \A j \in jumps' : j.from = Here(x) /\ j.to = Here(x)
  BY DEF Jump
<1>4. QED
  BY <1>2, <1>3 DEF JumpsAgree

(* Where the parser is, as long as it is anywhere. *)
LEMMA OpenIs ==
  ASSUME Inv, parse # <<>>
  PROVE  Open
BY DEF Inv, Ended

(* In an expression of a careful program no new name has been assigned. *)
LEMMA InExpressionIs ==
  ASSUME Types, Careless = {}, NEW lv, Scoped(lv), InExpression
  PROVE  /\ Last(lv).kind \in Expressions /\ new_local = FALSE
         /\ Fn.height >= Last(lv).height /\ Len(locals) = Last(lv).own
<1>1. Top.kind \in Expressions /\ (Top.kind = "statement" => ~new_local)
  BY DEF InExpression
<1>2. Top.kind = Last(lv).kind /\ TopOk(Last(lv), Fn.height, Len(locals), new_local)
  BY At
<1>3. new_local = FALSE
  BY <1>1, <1>2 DEF TopOk, Types
<1>4. QED
  BY <1>1, <1>2, <1>3 DEF TopOk

(* Code is emitted in an expression. *)
LEMMA WorkKeeps ==
  ASSUME Inv, Careless = {}, InExpression,
         NEW code \in Seq(Bytes), NEW counted \in Int, NEW pushed \in Int, pushed <= counted,
         Fn.height + pushed >= Top.height, Emit(code, counted, pushed),
         UNCHANGED <<parse, scope_depth, locals, loop, new_local>>,
         NoJump, NoPatch, is_last_call' \in BOOLEAN, Calls'
  PROVE  Inv'
<1>1. Types /\ Room
  BY DEF Inv
<1>2. parse # <<>>
  BY DEF InExpression
<1>3. PICK lv, at : Scoped(lv) /\ LoopsOk(lv, at, loop)
  BY <1>2, OpenIs DEF Open
<1>4. /\ Shape(lv, func, locals) /\ Top.height = Last(lv).height /\ Last(lv).height \in Nat
      /\ FuncOk(func) /\ Fn.height \in Nat
  BY <1>1, <1>3, At
<1>5. /\ Last(lv).kind \in Expressions /\ new_local = FALSE /\ Len(locals) = Last(lv).own
  BY <1>1, <1>3, InExpressionIs
<1>6. stack_size \in Nat /\ Fn.height + pushed >= 0
  BY <1>1, <1>4 DEF Types
<1>7. /\ stack_size' \in Nat /\ SameBut(func, func') /\ Room'
      /\ Fn'.height = Fn.height + pushed
  BY <1>1, <1>4, <1>6, EmitOk
<1>8. Types'
  BY <1>1, <1>7 DEF Types, NoJump, NoPatch, SameBut
<1>9. TopOk(Last(lv), Fn'.height, Len(locals), FALSE)
  BY <1>4, <1>5, <1>7 DEF TopOk, Bodies, Blocks, Expressions
<1>10. Scoped(lv)'
  <2>1. Shape(lv, func', locals)
    BY <1>4, <1>7, ShapeEmit
  <2>2. QED
    BY <1>3, <1>5, <1>9, <2>1 DEF Scoped
<1>11. Open'
  BY <1>3, <1>10 DEF Open
<1>12. QED
  BY <1>7, <1>8, <1>11 DEF Inv, NoJump, NoPatch, JumpsAgree, ReturnedCall

LEMMA CodeTyped == /\ \A n \in Nat : Operands(n) \in Seq(Bytes) /\ Len(Operands(n)) = n
                   /\ \A n \in Nat : Pops(n) \in Seq(Bytes)
                   /\ <<"CALL", "byte">> \in Seq(Bytes) /\ <<"POP">> \in Seq(Bytes)
                   /\ <<"byte">> \in Seq(Bytes) /\ <<>> \in Seq(Bytes)
<1>1. \A n \in Nat : Operands(n) \in Seq(Bytes) /\ Len(Operands(n)) = n /\ Pops(n) \in Seq(Bytes)
  BY PopsTyped
<1>2. /\ <<"CALL", "byte">> \in Seq(Bytes) /\ <<"POP">> \in Seq(Bytes)
      /\ <<"byte">> \in Seq(Bytes) /\ <<>> \in Seq(Bytes)
  BY DEF Bytes
<1>3. QED
  BY <1>1, <1>2

LEMMA PushKeeps ==
  ASSUME Inv, Careless = {}, Push
  PROVE  Inv'
<1>1. Types
  BY DEF Inv
<1>2. InExpression /\ parse # <<>>
  BY DEF Push, InExpression
<1>3. PICK lv, at : Scoped(lv) /\ LoopsOk(lv, at, loop)
  BY <1>2, OpenIs DEF Open
<1>4. Fn.height >= Top.height /\ Fn.height \in Nat /\ Top.height \in Nat
  BY <1>1, <1>2, <1>3, At, InExpressionIs
<1>5. Fn.height + 1 >= Top.height
  BY <1>4
<1>6. Calls'
  BY DEF Push, Calls
<1>7. QED
  <2>1. /\ Emit(Operands(2), 1, 1) /\ NoJump /\ NoPatch /\ is_last_call' \in BOOLEAN
        /\ UNCHANGED <<parse, scope_depth, locals, loop, new_local>>
    BY DEF Push
  <2>2. Operands(2) \in Seq(Bytes) /\ 1 \in Int /\ 1 <= 1
    BY CodeTyped
  <2>3. QED
    BY <1>2, <1>5, <1>6, <2>1, <2>2, WorkKeeps

LEMMA OperateKeeps ==
  ASSUME Inv, Careless = {}, NEW n \in 0 .. 2, Operate(n)
  PROVE  Inv'
<1>1. Types
  BY DEF Inv
<1>2. InExpression /\ parse # <<>>
  BY DEF Operate, InExpression
<1>3. PICK lv, at : Scoped(lv) /\ LoopsOk(lv, at, loop)
  BY <1>2, OpenIs DEF Open
<1>4. Fn.height \in Nat /\ Top.height \in Nat
  BY <1>1, <1>3, At
<1>5. Fn.height > Top.height + n
  BY DEF Operate
<1>6. Fn.height + (-n) >= Top.height /\ -n \in Int /\ -n <= -n
  BY <1>4, <1>5
<1>7. Calls'
  BY DEF Operate, Calls
<1>8. QED
  BY <1>2, <1>6, <1>7, CodeTyped, WorkKeeps DEF Operate

LEMMA CallKeeps ==
  ASSUME Inv, Careless = {}, NEW argc \in 0 .. MaxArgs, NEW chain \in BOOLEAN, Call(argc, chain)
  PROVE  Inv'
<1> DEFINE call == <<"CALL", "byte">>
<1>1. Types /\ Room
  BY DEF Inv
<1>2. InExpression /\ parse # <<>>
  BY DEF Call, InExpression
<1>3. PICK lv, at : Scoped(lv) /\ LoopsOk(lv, at, loop)
  BY <1>2, OpenIs DEF Open
<1>4. Fn.height \in Nat /\ Top.height \in Nat /\ FuncOk(func)
  BY <1>1, <1>3, At
<1>5. Fn.height > Top.height + argc /\ argc \in Nat
  BY CompilerAssumption DEF Call
<1>6. /\ Fn.height + (-argc) >= Top.height /\ -argc \in Int /\ -argc <= 0
      /\ Fn.height + (-argc) >= 0
  BY <1>4, <1>5
<1>7. call \in Seq(Bytes) /\ stack_size \in Nat /\ Fn.code \in Seq(Bytes)
  BY <1>1, <1>4, CodeTyped, FnOf DEF Types
<1>8. Fn'.code = LastThree(Fn.code \o call)
  <2>1. Emit(call, 0, -argc)
    BY DEF Call
  <2>2. 0 \in Int
    OBVIOUS
  <2> HIDE DEF call
  <2>3. QED
    BY <1>1, <1>4, <1>6, <1>7, <2>1, <2>2, EmitOk
<1>9. /\ Fn.code \o call \in Seq(Bytes) /\ Len(Fn.code \o call) = Len(Fn.code) + 2
      /\ Len(Fn.code) \in Nat /\ (Fn.code \o call)[Len(Fn.code) + 1] = "CALL"
  <2>1. /\ Len(call) = 2 /\ call[1] = "CALL" /\ Len(Fn.code) \in Nat
    BY <1>7
  <2>2. Fn.code \o call \in Seq(Bytes) /\ Len(Fn.code \o call) = Len(Fn.code) + Len(call)
        /\ \A i \in 1 .. Len(Fn.code) + Len(call) :
             (Fn.code \o call)[i] = IF i <= Len(Fn.code) THEN Fn.code[i] ELSE call[i - Len(Fn.code)]
    BY <1>7, ConcatProperties
  <2> HIDE DEF call
  <2>3. Len(Fn.code) + 1 \in 1 .. Len(Fn.code) + Len(call) /\ ~(Len(Fn.code) + 1 <= Len(Fn.code))
        /\ (Len(Fn.code) + 1) - Len(Fn.code) = 1
    BY <2>1
  <2>4. QED
    BY <2>1, <2>2, <2>3
<1> HIDE DEF call
<1>10. Len(Fn'.code) >= 2 /\ Fn'.code[Len(Fn'.code) - 1] = "CALL" /\ Fn'.code # <<>>
  <2>1. /\ LastThree(Fn.code \o call) \in Seq(Bytes)
        /\ Len(LastThree(Fn.code \o call)) = IF Len(Fn.code \o call) <= 3 THEN Len(Fn.code \o call) ELSE 3
        /\ \A k \in 0 .. 2 : k < Len(Fn.code \o call) =>
             LastThree(Fn.code \o call)[Len(LastThree(Fn.code \o call)) - k] = (Fn.code \o call)[Len(Fn.code \o call) - k]
    BY <1>9, LastThreeOf
  <2>2. 1 \in 0 .. 2 /\ 1 < Len(Fn.code \o call) /\ Len(Fn.code \o call) - 1 = Len(Fn.code) + 1
    BY <1>9
  <2>3. Len(LastThree(Fn.code \o call)) >= 2
    BY <1>9, <2>1
  <2>4. LastThree(Fn.code \o call)[Len(LastThree(Fn.code \o call)) - 1] = "CALL"
    BY <1>9, <2>1, <2>2
  <2>5. LastThree(Fn.code \o call) # <<>>
    BY <2>3
  <2>6. QED
    BY <1>8, <2>3, <2>4, <2>5
<1>11. Calls'
  BY <1>10 DEF Calls
<1>12. is_last_call' \in BOOLEAN
  BY DEF Call
<1>13. QED
  <2>1. /\ Emit(call, 0, -argc) /\ NoJump /\ NoPatch
        /\ UNCHANGED <<parse, scope_depth, locals, loop, new_local>>
    BY DEF Call, call
  <2>2. 0 \in Int
    OBVIOUS
  <2>3. QED
    BY <1>2, <1>6, <1>7, <1>11, <1>12, <2>1, <2>2, WorkKeeps

(* Expressions are entered and left. *)
LEMMA EnterKeeps ==
  ASSUME Inv, NEW lv, NEW at, Scoped(lv), LoopsOk(lv, at, loop),
         NEW a \in Level, LevelOk(a), Under(Last(lv), a),
         a.kind \in Expressions \ {"sequence", "condition"},
         stack_size' \in Nat, SameBut(func, func'), Room',
         parse' = Enter(a.kind, a.height), UNCHANGED <<scope_depth, locals, loop>>,
         new_local' \in BOOLEAN, TopOk(a, Last(func').height, Len(locals), new_local'),
         NoJump, NoPatch, is_last_call' = FALSE
  PROVE  Inv'
<1>1. Types
  BY DEF Inv
<1>2. Scoped(Append(lv, a))'
  BY <1>1, Entered
<1>3. LoopsOk(Append(lv, a), at, loop)
  <2>1. Nested(lv)
    BY <1>1, At
  <2>2. a.kind \notin Looping
    BY DEF Looping, Expressions
  <2>3. QED
    BY <2>1, <2>2, LoopsEnter
<1>4. Open'
  BY <1>2, <1>3 DEF Open
<1>5. Types'
  BY <1>1 DEF Types, SameBut, NoJump, NoPatch
<1>6. QED
  BY <1>4, <1>5 DEF Inv, Calls, NoJump, NoPatch, JumpsAgree, ReturnedCall

LEMMA LeaveKeeps ==
  ASSUME Inv, NEW lv, NEW at, Scoped(lv), LoopsOk(lv, at, loop),
         Last(lv).kind \in Expressions \ {"sequence", "condition"},
         stack_size' \in Nat, SameBut(func, func'), Room',
         parse' = Front(parse), UNCHANGED <<scope_depth, locals, loop>>,
         new_local' \in BOOLEAN, TopOk(Last(Front(lv)), Last(func').height, Len(locals), new_local'),
         JumpsAgree', \A j \in jumps' : j.from \in Places /\ j.to \in Places,
         ReturnedCall', \A p \in patched' : p.at \in {"return", "end"} /\ p.byte \in Bytes,
         is_last_call' \in BOOLEAN, Calls'
  PROVE  Inv'
<1>1. Types
  BY DEF Inv
<1>2. Scoped(Front(lv))'
  BY <1>1, Left
<1>3. LoopsOk(Front(lv), at, loop)
  <2>1. Nested(lv)
    BY <1>1, At
  <2>2. Last(lv).kind \notin Looping
    BY DEF Looping, Expressions
  <2>3. QED
    BY <2>1, <2>2, LoopsLeave
<1>4. Open'
  BY <1>2, <1>3 DEF Open
<1>5. Types'
  BY <1>1 DEF Types, SameBut
<1>6. QED
  BY <1>4, <1>5 DEF Inv

(* What an expression can be in. *)
LEMMA UnderIs ==
  ASSUME NEW a \in Level, NEW b \in Level, Under(a, b)
  PROVE  /\ b.kind \notin Opening \cup {"or", "local", "field"} => a.kind \in Bodies
         /\ b.kind = "field" => a.kind = "class"
         /\ b.kind = "or" => a.kind \in Expressions /\ b.own = a.own /\ a.height <= b.height
         /\ b.kind = "local" => a.kind = "statement" /\ b.height = a.height
<1>1. a.kind \in Kinds
  BY DEF Level
<1>2. /\ a.kind \in Expressions <=> b.kind \in {"or", "local", "literal"}
      /\ a.kind = "class" <=> b.kind = "field"
      /\ b.kind = "or" => b.own = a.own /\ a.height <= b.height
      /\ b.kind = "local" => a.kind = "statement" /\ b.height = a.height
  BY DEF Under
<1>3. QED
  BY <1>1, <1>2 DEF Kinds, Bodies, Opening

LEMMA ShortCircuitKeeps ==
  ASSUME Inv, Careless = {}, ShortCircuit
  PROVE  Inv'
<1>1. Types /\ Room
  BY DEF Inv
<1>2. InExpression /\ parse # <<>>
  BY DEF ShortCircuit, InExpression
<1>3. PICK lv, at : Scoped(lv) /\ LoopsOk(lv, at, loop)
  BY <1>2, OpenIs DEF Open
<1> DEFINE top == Last(lv)
           a == [kind |-> "or", height |-> Fn.height - 1, depth |-> top.depth,
                 fn |-> top.fn, own |-> top.own]
<1>4. /\ top.height \in Nat /\ top.depth \in Int /\ top.fn \in Nat /\ top.own \in Nat
      /\ LevelOk(top) /\ Top.height = top.height /\ FuncOk(func) /\ Fn.height \in Nat
      /\ Len(locals) \in Nat /\ stack_size \in Nat
  BY <1>1, <1>3, At DEF Types
<1>5. top.kind \in Expressions /\ new_local = FALSE /\ Len(locals) = top.own
  BY <1>1, <1>2, <1>3, InExpressionIs
<1>6. Fn.height > top.height
  BY <1>4 DEF ShortCircuit
<1> HIDE DEF top
<1>7. Fn.height - 1 \in Nat /\ Fn.height - 1 >= top.height /\ Fn.height + (-1) = Fn.height - 1
  BY <1>4, <1>6
<1>8. a \in Level /\ LevelOk(a)
  <2>1. a.fn >= 1 /\ a.depth >= DEPTH_GLOBAL
    BY <1>4 DEF LevelOk
  <2>2. QED
    BY <1>4, <1>7, <2>1 DEF Level, LevelOk, Kinds, Expressions
<1>9. Under(top, a)
  <2>1. top.depth + 0 = top.depth
    BY <1>4
  <2>2. top.height <= a.height
    BY <1>4, <1>7
  <2>3. Scopes(a.kind) = 0 /\ a.kind \notin Opening /\ top.kind # "class"
    BY <1>5 DEF Scopes, Opening, Expressions
  <2>4. QED
    BY <1>5, <2>1, <2>2, <2>3 DEF Under
<1>10. Emit(Operands(3), -1, -1)
  BY DEF ShortCircuit
<1>11. /\ stack_size' \in Nat /\ SameBut(func, func') /\ Room'
       /\ Fn'.height = Fn.height - 1
  <2>1. Operands(3) \in Seq(Bytes) /\ -1 \in Int /\ -1 <= -1 /\ Fn.height + (-1) >= 0
    BY <1>7, CodeTyped
  <2>2. QED
    BY <1>1, <1>4, <1>7, <1>10, <2>1, EmitOk
<1>12. TopOk(a, Last(func').height, Len(locals), FALSE)
  <2>1. Last(func').height = a.height /\ a.height \in Nat
    BY <1>7, <1>11 DEF Fn
  <2>2. a.kind = "or" /\ a.own = Len(locals)
    BY <1>5
  <2>3. QED
    BY <2>1, <2>2 DEF TopOk, Bodies, Blocks
<1>13. /\ parse' = Enter(a.kind, a.height) /\ UNCHANGED <<scope_depth, locals, loop>>
       /\ new_local' = FALSE /\ NoJump /\ NoPatch /\ is_last_call' = FALSE
  BY <1>5 DEF ShortCircuit
<1>14. a.kind \in Expressions \ {"sequence", "condition"}
  BY DEF Expressions
<1> HIDE DEF a
<1>15. QED
  BY <1>3, <1>8, <1>9, <1>11, <1>12, <1>13, <1>14, EnterKeeps DEF top

LEMMA EndShortCircuitKeeps ==
  ASSUME Inv, EndShortCircuit
  PROVE  Inv'
<1>1. Types /\ Room
  BY DEF Inv
<1>2. parse # <<>> /\ Top.kind = "or" /\ Fn.height = Top.height + 1
  BY DEF EndShortCircuit, Complete
<1>3. PICK lv, at : Scoped(lv) /\ LoopsOk(lv, at, loop)
  BY <1>2, OpenIs DEF Open
<1> DEFINE top == Last(lv)
           below == Last(Front(lv))
<1>4. /\ top.kind = "or" /\ top \in Level /\ top.height \in Nat /\ FuncOk(func) /\ Fn.height \in Nat
      /\ Fn.height = top.height + 1 /\ stack_size \in Nat /\ Nested(lv)
      /\ TopOk(top, Fn.height, Len(locals), new_local)
  BY <1>1, <1>2, <1>3, At DEF Types
<1>5. Under(below, top) /\ below \in Level
  <2>1. top.kind # "script"
    BY <1>4
  <2>2. Nested(Front(lv)) /\ Under(below, top)
    BY <1>4, <2>1, NestedPop
  <2>3. QED
    BY <2>2, LevelsOf
<1>6. below.kind \in Expressions /\ top.own = below.own /\ below.height <= top.height
  BY <1>4, <1>5, UnderIs
<1>7. new_local = FALSE /\ Len(locals) = top.own
  <2>1. new_local = FALSE
    BY <1>1, <1>4 DEF TopOk, Types
  <2>2. QED
    BY <1>4, <2>1 DEF TopOk, Expressions
<1> HIDE DEF top
<1>8. Emit(Operands(3), 1, 0)
  BY DEF EndShortCircuit
<1>9. /\ stack_size' \in Nat /\ SameBut(func, func') /\ Room' /\ Fn'.height = Fn.height
  <2>1. Operands(3) \in Seq(Bytes) /\ 1 \in Int /\ 0 \in Int /\ 0 <= 1
    BY CodeTyped
  <2>2. Fn.height + 0 >= 0 /\ Fn.height + 0 = Fn.height
    BY <1>4
  <2>3. QED
    BY <1>1, <1>4, <1>8, <2>1, <2>2, EmitOk
<1>10. TopOk(below, Last(func').height, Len(locals), FALSE)
  <2>1. Last(func').height = top.height + 1
    BY <1>4, <1>9 DEF Fn
  <2>2. below.height \in Nat
    BY <1>5 DEF Level
  <2>3. below.height <= Last(func').height
    BY <1>4, <1>6, <2>1, <2>2
  <2>4. below.kind \notin Bodies /\ below.kind # "class"
    BY <1>6 DEF Bodies, Blocks, Expressions
  <2>5. QED
    BY <1>6, <1>7, <2>3, <2>4 DEF TopOk
<1>11. JumpsAgree' /\ \A j \in jumps' : j.from \in Places /\ j.to \in Places
  <2>1. Top.height = Fn.height - 1 /\ Top.height \in Int
    BY <1>2, <1>3, <1>1, At
  <2>2. jumps' = {Jump(Here(Top.height), Here(Top.height))}
    BY <2>1 DEF EndShortCircuit
  <2>3. QED
    BY <1>4, <2>1, <2>2, JumpsFrom
<1>12. /\ parse' = Front(parse) /\ UNCHANGED <<scope_depth, locals, loop>>
       /\ new_local' = FALSE /\ patched' = {} /\ is_last_call' = FALSE
  BY <1>7 DEF EndShortCircuit, NoPatch
<1>13. Calls' /\ ReturnedCall'
  BY <1>12 DEF Calls, ReturnedCall
<1>14. top.kind \in Expressions \ {"sequence", "condition"}
  BY <1>4 DEF Expressions
<1>15. QED
  BY <1>3, <1>9, <1>10, <1>11, <1>12, <1>13, <1>14, LeaveKeeps DEF top

LEMMA EndAssignKeeps ==
  ASSUME Inv, EndAssign
  PROVE  Inv'
<1>1. Types /\ Room
  BY DEF Inv
<1>2. parse # <<>> /\ Top.kind = "local" /\ Fn.height = Top.height + 1
  BY DEF EndAssign, Complete
<1>3. PICK lv, at : Scoped(lv) /\ LoopsOk(lv, at, loop)
  BY <1>2, OpenIs DEF Open
<1> DEFINE top == Last(lv)
           below == Last(Front(lv))
<1>4. /\ top.kind = "local" /\ top \in Level /\ top.height \in Nat /\ FuncOk(func) /\ Fn.height \in Nat
      /\ Fn.height = top.height + 1 /\ stack_size \in Nat /\ Nested(lv) /\ LevelOk(top)
      /\ TopOk(top, Fn.height, Len(locals), new_local)
  BY <1>1, <1>2, <1>3, At DEF Types
<1>5. Under(below, top) /\ below \in Level /\ LevelOk(below)
  <2>1. top.kind # "script"
    BY <1>4
  <2>2. Nested(Front(lv)) /\ Under(below, top)
    BY <1>4, <2>1, NestedPop
  <2>3. QED
    BY <2>2, LevelsOf
<1>6. below.kind = "statement" /\ top.height = below.height /\ below.own = below.height
      /\ top.own = top.height + 1
  <2>1. below.kind = "statement" /\ top.height = below.height
    BY <1>4, <1>5, UnderIs
  <2>2. QED
    BY <1>4, <1>5, <2>1 DEF LevelOk
<1>7. new_local = FALSE /\ Len(locals) = top.own
  <2>1. new_local = FALSE
    BY <1>1, <1>4 DEF TopOk, Types
  <2>2. QED
    BY <1>4, <2>1 DEF TopOk, Expressions
<1> HIDE DEF top
<1>8. Emit(Operands(1), 0, 0)
  BY DEF EndAssign
<1>9. /\ stack_size' \in Nat /\ SameBut(func, func') /\ Room' /\ Fn'.height = Fn.height
  <2>1. Operands(1) \in Seq(Bytes) /\ 0 \in Int /\ 0 <= 0
    BY CodeTyped
  <2>2. Fn.height + 0 >= 0 /\ Fn.height + 0 = Fn.height
    BY <1>4
  <2>3. QED
    BY <1>1, <1>4, <1>8, <2>1, <2>2, EmitOk
<1>10. TopOk(below, Last(func').height, Len(locals), TRUE)
  <2>1. Last(func').height = below.height + 1 /\ Len(locals) = below.own + 1 /\ below.height \in Nat
    BY <1>4, <1>6, <1>7, <1>9 DEF Fn
  <2>2. below.height <= Last(func').height
    BY <2>1
  <2>3. below.kind \notin Bodies /\ below.kind # "class"
    BY <1>6 DEF Bodies, Blocks
  <2>4. QED
    BY <1>6, <2>1, <2>2, <2>3 DEF TopOk
<1>11. /\ parse' = Front(parse) /\ UNCHANGED <<scope_depth, locals, loop>>
       /\ new_local' = TRUE /\ jumps' = {} /\ patched' = {} /\ is_last_call' = FALSE
  BY DEF EndAssign, NoPatch, NoJump
<1>12. Calls' /\ ReturnedCall' /\ JumpsAgree'
  BY <1>11 DEF Calls, ReturnedCall, JumpsAgree
<1>13. top.kind \in Expressions \ {"sequence", "condition"}
  BY <1>4 DEF Expressions
<1>14. QED
  BY <1>3, <1>9, <1>10, <1>11, <1>12, <1>13, LeaveKeeps DEF top

LEMMA EndFieldKeeps ==
  ASSUME Inv, EndField
  PROVE  Inv'
<1>1. Types /\ Room
  BY DEF Inv
<1>2. parse # <<>> /\ Top.kind = "field" /\ Fn.height = Top.height + 1
  BY DEF EndField, Complete
<1>3. PICK lv, at : Scoped(lv) /\ LoopsOk(lv, at, loop)
  BY <1>2, OpenIs DEF Open
<1> DEFINE top == Last(lv)
           below == Last(Front(lv))
<1>4. /\ top.kind = "field" /\ top \in Level /\ FuncOk(func) /\ Fn.height \in Nat
      /\ Fn.height = top.height + 1 /\ stack_size \in Nat /\ Nested(lv) /\ LevelOk(top)
      /\ TopOk(top, Fn.height, Len(locals), new_local)
      /\ lv \in Seq(Level) /\ lv # <<>> /\ parse = Parsed(lv)
  BY <1>1, <1>2, <1>3, At DEF Types, Scoped
<1>5. Under(below, top) /\ below \in Level /\ Front(lv) \in Seq(Level) /\ Front(lv) # <<>>
  <2>1. top.kind # "script"
    BY <1>4
  <2>2. Nested(Front(lv)) /\ Under(below, top)
    BY <1>4, <2>1, NestedPop
  <2>3. QED
    BY <2>2, LevelsOf
<1>6. below.kind = "class" /\ top.height = 1 /\ top.own = 0
  BY <1>4, <1>5, UnderIs DEF LevelOk
<1>7. new_local = FALSE /\ Len(locals) = 0
  <2>1. new_local = FALSE
    BY <1>1, <1>4 DEF TopOk, Types
  <2>2. QED
    BY <1>4, <1>6, <2>1 DEF TopOk, Expressions
<1> HIDE DEF top
<1>8. Emit(Operands(1), -1, -1)
  BY DEF EndField
<1>9. /\ stack_size' \in Nat /\ SameBut(func, func') /\ Room' /\ Fn'.height = Fn.height - 1
  <2>1. Operands(1) \in Seq(Bytes) /\ -1 \in Int /\ -1 <= -1
    BY CodeTyped
  <2>2. Fn.height + (-1) >= 0 /\ Fn.height + (-1) = Fn.height - 1
    BY <1>4, <1>6
  <2>3. QED
    BY <1>1, <1>4, <1>8, <2>1, <2>2, EmitOk
<1>10. TopOk(below, Last(func').height, Len(locals), FALSE)
  <2>1. Last(func').height = 1
    BY <1>4, <1>6, <1>9 DEF Fn
  <2>2. QED
    BY <1>6, <1>7, <2>1 DEF TopOk, Bodies, Blocks, Expressions
<1>11. /\ parse' = Front(parse) /\ UNCHANGED <<scope_depth, locals, loop, is_last_call>>
       /\ new_local' = FALSE /\ jumps' = {} /\ patched' = {}
  BY <1>7 DEF EndField, NoPatch, NoJump
<1>12. Calls'
  <2>1. parse' = Parsed(Front(lv))
    BY <1>4, <1>11, ParsedLeave
  <2>2. Top'.kind = "class"
    BY <1>5, <1>6, <2>1, ParsedIs DEF Top
  <2>3. "class" \notin Expressions
    BY DEF Expressions
  <2>4. QED
    BY <2>2, <2>3 DEF Calls
<1>13. ReturnedCall' /\ JumpsAgree' /\ is_last_call' \in BOOLEAN
  BY <1>1, <1>11 DEF ReturnedCall, JumpsAgree, Types
<1>14. top.kind \in Expressions \ {"sequence", "condition"}
  BY <1>4 DEF Expressions
<1>15. QED
  BY <1>3, <1>9, <1>10, <1>11, <1>12, <1>13, <1>14, LeaveKeeps DEF top

LEMMA ThreeAreSome ==
  \A t \in Seq(Bytes) : Len(t) = 3 => t # <<>>
OBVIOUS

LEMMA CodeStays ==
  ASSUME NEW s \in Seq(Bytes), NEW t \in Seq(Bytes), s # <<>> \/ t # <<>>
  PROVE  LastThree(s \o t) # <<>>
<1>1. s \o t \in Seq(Bytes) /\ Len(s \o t) = Len(s) + Len(t) /\ Len(s) \in Nat /\ Len(t) \in Nat
  BY ConcatProperties
<1>2. Len(s) # 0 \/ Len(t) # 0
  OBVIOUS
<1>3. Len(LastThree(s \o t)) = IF Len(s \o t) <= 3 THEN Len(s \o t) ELSE 3
  BY <1>1, LastThreeOf
<1>4. Len(LastThree(s \o t)) # 0
  BY <1>1, <1>2, <1>3
<1>5. QED
  BY <1>4

(* The flag of the last call, where no expression is being compiled. *)
LEMMA CallsOutside ==
  ASSUME NEW lv \in Seq(Level), lv # <<>>, parse' = Parsed(lv), Last(lv).kind \notin Expressions,
         is_last_call' => Last(lv).kind \in {"script", "class"} \/ Last(func').code # <<>>
  PROVE  Calls'
<1>1. Top'.kind = Last(lv).kind
  BY ParsedIs DEF Top
<1>2. QED
  BY <1>1 DEF Calls, Fn

LEMMA EndExpressionKeeps ==
  ASSUME Inv, EndExpression
  PROVE  Inv'
<1>1. Types /\ Room /\ Calls
  BY DEF Inv
<1>2. parse # <<>> /\ Top.kind = "statement" /\ Fn.height = Top.height + 1
  BY DEF EndExpression, Complete
<1>3. PICK lv, at : Scoped(lv) /\ LoopsOk(lv, at, loop)
  BY <1>2, OpenIs DEF Open
<1> DEFINE top == Last(lv)
           below == Last(Front(lv))
<1>4. /\ top.kind = "statement" /\ top \in Level /\ top.height \in Nat /\ FuncOk(func) /\ Fn.height \in Nat
      /\ Fn.height = top.height + 1 /\ stack_size \in Nat /\ Nested(lv) /\ LevelOk(top)
      /\ TopOk(top, Fn.height, Len(locals), new_local)
      /\ lv \in Seq(Level) /\ lv # <<>> /\ parse = Parsed(lv)
  BY <1>1, <1>2, <1>3, At DEF Types, Scoped
<1>5. Under(below, top) /\ below \in Level /\ Front(lv) \in Seq(Level) /\ Front(lv) # <<>>
  <2>1. top.kind # "script"
    BY <1>4
  <2>2. Nested(Front(lv)) /\ Under(below, top)
    BY <1>4, <2>1, NestedPop
  <2>3. QED
    BY <2>2, LevelsOf
<1>6. below.kind \in Bodies /\ top.own = top.height
  BY <1>4, <1>5, UnderIs DEF LevelOk, Opening
<1>7. Len(locals) = IF new_local THEN top.height + 1 ELSE top.height
  BY <1>4, <1>6 DEF TopOk, Expressions
<1> HIDE DEF top
<1>8. PICK code \in Seq(Bytes), n \in {-1, 0} :
        /\ Emit(code, n, n) /\ Fn.height + n = Len(locals)
  <2>1. CASE new_local
    <3>1. Emit(<<>>, 0, 0) /\ Fn.height + 0 = Len(locals)
      BY <1>4, <1>7, <2>1 DEF EndExpression
    <3>2. QED
      BY <3>1, CodeTyped
  <2>2. CASE ~new_local
    <3>1. Emit(<<"POP">>, -1, -1) /\ Fn.height + (-1) = Len(locals)
      BY <1>4, <1>7, <2>2 DEF EndExpression
    <3>2. QED
      BY <3>1, CodeTyped
  <2>3. QED
    BY <2>1, <2>2
<1>9. /\ stack_size' \in Nat /\ SameBut(func, func') /\ Room' /\ Fn'.height = Len(locals)
      /\ Fn'.code = LastThree(Fn.code \o code)
  <2>1. n \in Int /\ n <= n
    BY <1>8
  <2>2. Fn.height + n >= 0
    BY <1>8, <1>1 DEF Types
  <2>3. QED
    BY <1>1, <1>4, <1>8, <2>1, <2>2, EmitOk
<1>10. TopOk(below, Last(func').height, Len(locals), FALSE)
  BY <1>6, <1>9, BodyOk DEF Fn
<1>11. /\ parse' = Front(parse) /\ UNCHANGED <<scope_depth, locals, loop, is_last_call>>
       /\ new_local' = FALSE /\ jumps' = {} /\ patched' = {}
  BY DEF EndExpression, NoPatch, NoJump
<1>12. Calls'
  <2>1. parse' = Parsed(Front(lv))
    BY <1>4, <1>11, ParsedLeave
  <2>2. below.kind \notin Expressions
    BY <1>6 DEF Bodies, Blocks, Expressions
  <2>3. ASSUME is_last_call'
        PROVE  Last(func').code # <<>>
    <3>1. Fn.code # <<>>
      BY <1>1, <1>2, <1>11, <2>3 DEF Calls
    <3>2. Fn.code \in Seq(Bytes)
      BY <1>4, FnOf
    <3>3. QED
      BY <1>8, <1>9, <3>1, <3>2, CodeStays DEF Fn
  <2>4. QED
    BY <1>5, <2>1, <2>2, <2>3, CallsOutside
<1>13. ReturnedCall' /\ JumpsAgree' /\ is_last_call' \in BOOLEAN
  BY <1>1, <1>11 DEF ReturnedCall, JumpsAgree, Types
<1>14. top.kind \in Expressions \ {"sequence", "condition"}
  BY <1>4 DEF Expressions
<1>15. QED
  BY <1>3, <1>9, <1>10, <1>11, <1>12, <1>13, <1>14, LeaveKeeps DEF top

LEMMA EndReturnKeeps ==
  ASSUME Inv, EndReturn
  PROVE  Inv'
<1>1. Types /\ Room /\ Calls
  BY DEF Inv
<1>2. parse # <<>> /\ Top.kind = "return" /\ Fn.height = Top.height + 1
  BY DEF EndReturn, Complete
<1>3. PICK lv, at : Scoped(lv) /\ LoopsOk(lv, at, loop)
  BY <1>2, OpenIs DEF Open
<1> DEFINE top == Last(lv)
           below == Last(Front(lv))
<1>4. /\ top.kind = "return" /\ top \in Level /\ top.height \in Nat /\ FuncOk(func) /\ Fn.height \in Nat
      /\ Fn.height = top.height + 1 /\ stack_size \in Nat /\ Nested(lv) /\ LevelOk(top)
      /\ TopOk(top, Fn.height, Len(locals), new_local)
      /\ lv \in Seq(Level) /\ lv # <<>> /\ parse = Parsed(lv)
  BY <1>1, <1>2, <1>3, At DEF Types, Scoped
<1>5. Under(below, top) /\ below \in Level /\ Front(lv) \in Seq(Level) /\ Front(lv) # <<>>
  <2>1. top.kind # "script"
    BY <1>4
  <2>2. Nested(Front(lv)) /\ Under(below, top)
    BY <1>4, <2>1, NestedPop
  <2>3. QED
    BY <2>2, LevelsOf
<1>6. below.kind \in Bodies /\ top.own = top.height
  BY <1>4, <1>5, UnderIs DEF LevelOk, Opening
<1>7. Len(locals) = top.height /\ new_local = FALSE
  <2>1. new_local = FALSE
    BY <1>1, <1>4 DEF TopOk, Types
  <2>2. QED
    BY <1>4, <1>6, <2>1 DEF TopOk, Expressions
<1> HIDE DEF top
<1>8. Fn.code \in Seq(Bytes) /\ Len(Fn.code) \in Nat
  BY <1>4, FnOf
<1>9. ASSUME is_last_call
      PROVE  /\ Len(Fn.code) >= 2 /\ Fn.code[Len(Fn.code) - 1] = "CALL"
             /\ <<"TAIL_CALL", Fn.code[Len(Fn.code)], "byte">> \in Seq(Bytes)
  <2>1. Len(Fn.code) >= 2 /\ Fn.code[Len(Fn.code) - 1] = "CALL"
    BY <1>1, <1>2, <1>9 DEF Calls, Expressions
  <2>2. Len(Fn.code) \in 1 .. Len(Fn.code)
    BY <1>8, <2>1
  <2>3. Fn.code[Len(Fn.code)] \in Bytes
    BY <1>8, <2>2, ElementOfSeq
  <2>4. \A b \in Bytes : <<"TAIL_CALL", b, "byte">> \in Seq(Bytes)
    BY DEF Bytes
  <2>5. QED
    BY <2>1, <2>3, <2>4
<1>10. PICK code \in Seq(Bytes) : code # <<>> /\ Emit(code, -1, -1)
  <2>1. CASE TailCalls /\ is_last_call
    <3>1. Emit(<<"TAIL_CALL", Fn.code[Len(Fn.code)], "byte">>, -1, -1)
      BY <2>1 DEF EndReturn
    <3>2. \A b : <<"TAIL_CALL", b, "byte">> # <<>>
      OBVIOUS
    <3>3. QED
      BY <1>9, <2>1, <3>1, <3>2
  <2>2. CASE ~(TailCalls /\ is_last_call)
    <3>1. Emit(<<"byte">>, -1, -1)
      BY <2>2 DEF EndReturn
    <3>2. <<"byte">> # <<>>
      OBVIOUS
    <3>3. QED
      BY <3>1, <3>2, CodeTyped
  <2>3. QED
    BY <2>1, <2>2
<1>11. /\ stack_size' \in Nat /\ SameBut(func, func') /\ Room' /\ Fn'.height = Len(locals)
       /\ Fn'.code = LastThree(Fn.code \o code)
  <2>1. -1 \in Int /\ -1 <= -1
    OBVIOUS
  <2>2. Fn.height + (-1) >= 0 /\ Fn.height + (-1) = Len(locals)
    BY <1>4, <1>7
  <2>3. QED
    BY <1>1, <1>4, <1>10, <2>1, <2>2, EmitOk
<1>12. TopOk(below, Last(func').height, Len(locals), FALSE)
  BY <1>6, <1>11, BodyOk DEF Fn
<1>13. /\ parse' = Front(parse) /\ UNCHANGED <<scope_depth, locals, loop>>
       /\ new_local' = FALSE /\ jumps' = {} /\ is_last_call' \in BOOLEAN
  BY <1>7 DEF EndReturn, NoJump
<1>14. Calls'
  <2>1. parse' = Parsed(Front(lv))
    BY <1>4, <1>13, ParsedLeave
  <2>2. below.kind \notin Expressions
    BY <1>6 DEF Bodies, Blocks, Expressions
  <2>3. Last(func').code # <<>>
    BY <1>8, <1>10, <1>11, CodeStays DEF Fn
  <2>4. QED
    BY <1>5, <2>1, <2>2, <2>3, CallsOutside
<1>15. ReturnedCall' /\ \A p \in patched' : p.at \in {"return", "end"} /\ p.byte \in Bytes
  <2>1. CASE TailCalls /\ is_last_call
    <3>1. patched' = {[at |-> "return", byte |-> Fn.code[Len(Fn.code) - 1]]}
      BY <2>1 DEF EndReturn
    <3>2. patched' = {[at |-> "return", byte |-> "CALL"]}
      BY <1>9, <2>1, <3>1
    <3>3. QED
      BY <3>2 DEF ReturnedCall, Bytes
  <2>2. CASE ~(TailCalls /\ is_last_call)
    <3>1. patched' = {}
      BY <2>2 DEF EndReturn
    <3>2. QED
      BY <3>1 DEF ReturnedCall
  <2>3. QED
    BY <2>1, <2>2
<1>16. JumpsAgree'
  BY <1>13 DEF JumpsAgree
<1>17. top.kind \in Expressions \ {"sequence", "condition"}
  BY <1>4 DEF Expressions
<1>18. QED
  BY <1>3, <1>11, <1>12, <1>13, <1>14, <1>15, <1>16, <1>17, LeaveKeeps DEF top

-----------------------------------------------------------------------------
(* Between statements there is nothing on the stack but the locals. *)
LEMMA AtStatementIs ==
  ASSUME Types, NEW lv, Scoped(lv), Top.kind \in Bodies
  PROVE  Last(lv).kind \in Bodies /\ Fn.height = Len(locals) /\ new_local = FALSE
<1>1. Last(lv).kind \in Bodies /\ TopOk(Last(lv), Fn.height, Len(locals), new_local)
  BY At
<1>2. Last(lv).kind # "statement"
  BY <1>1 DEF Bodies, Blocks
<1>3. QED
  BY <1>1, <1>2 DEF TopOk, Types

(* A statement is begun, with an expression. *)
StatementLevel(lv, kind) ==
  [kind |-> kind, height |-> Len(locals), depth |-> Last(lv).depth, fn |-> Last(lv).fn,
   own |-> Len(locals)]

LEMMA StatementLevelIs ==
  ASSUME Types, NEW lv, Scoped(lv), Top.kind \in Bodies,
         NEW kind \in {"statement", "return", "if", "condition"}
  PROVE  LET a == StatementLevel(lv, kind) IN
         /\ a \in Level /\ LevelOk(a) /\ Under(Last(lv), a) /\ a.kind = kind
         /\ a.height = Fn.height /\ TopOk(a, Fn.height, Len(locals), FALSE)
<1> DEFINE a == StatementLevel(lv, kind)
           top == Last(lv)
<1>1. /\ top.depth \in Int /\ top.fn \in Nat /\ top.fn >= 1 /\ top.depth >= DEPTH_GLOBAL
      /\ Len(locals) \in Nat
  BY At DEF LevelOk
<1>2. top.kind \in Bodies /\ Fn.height = Len(locals)
  BY AtStatementIs
<1>3. a \in Level
  BY <1>1 DEF StatementLevel, Level, Kinds, Expressions
<1>4. LevelOk(a)
  BY <1>1 DEF StatementLevel, LevelOk
<1>5. Under(top, a)
  <2>1. top.depth + 0 = top.depth
    BY <1>1
  <2>2. a.kind \notin Opening /\ Scopes(a.kind) = 0
    BY DEF StatementLevel, Opening, Scopes
  <2>3. top.kind \notin Expressions /\ top.kind # "class"
    BY <1>2 DEF Bodies, Blocks, Expressions
  <2>4. QED
    BY <2>1, <2>2, <2>3 DEF StatementLevel, Under
<1>6. TopOk(a, Fn.height, Len(locals), FALSE)
  <2>1. Len(locals) >= Len(locals)
    BY <1>1
  <2>2. QED
    BY <1>2, <2>1 DEF StatementLevel, TopOk, Bodies, Blocks
<1>7. QED
  BY <1>2, <1>3, <1>4, <1>5, <1>6 DEF StatementLevel

LEMMA StatementKeeps ==
  ASSUME Inv, AtStatement, NEW kind \in {"statement", "return", "if"},
         parse' = Enter(kind, Fn.height), new_local' = FALSE \/ new_local' = new_local,
         UNCHANGED <<scope_depth, locals, stack_size, func, loop>>, NoJump, NoPatch
  PROVE  Inv'
<1>1. Types /\ Room
  BY DEF Inv
<1>2. parse # <<>> /\ Top.kind \in Bodies /\ is_last_call' = FALSE
  BY DEF AtStatement, Bodies
<1>3. PICK lv, at : Scoped(lv) /\ LoopsOk(lv, at, loop)
  BY <1>2, OpenIs DEF Open
<1> DEFINE a == StatementLevel(lv, kind)
<1>4. /\ a \in Level /\ LevelOk(a) /\ Under(Last(lv), a) /\ a.kind = kind
      /\ a.height = Fn.height /\ TopOk(a, Fn.height, Len(locals), FALSE)
  BY <1>1, <1>2, <1>3, StatementLevelIs
<1>5. new_local' = FALSE
  BY <1>1, <1>2, <1>3, AtStatementIs
<1>6. stack_size' \in Nat /\ Room' /\ FuncOk(func) /\ Last(func').height = Fn.height
  BY <1>1 DEF Types, Room, Fn
<1>7. SameBut(func, func')
  BY <1>6, SameAgain
<1>8. a.kind \in Expressions \ {"sequence", "condition"}
  BY <1>4 DEF Expressions
<1> HIDE DEF a
<1>9. QED
  BY <1>2, <1>3, <1>4, <1>5, <1>6, <1>7, <1>8, EnterKeeps

LEMMA ExpressionKeeps ==
  ASSUME Inv, Expression
  PROVE  Inv'
BY StatementKeeps DEF Expression

LEMMA ReturnKeeps ==
  ASSUME Inv, Return
  PROVE  Inv'
BY StatementKeeps DEF Return

LEMMA IfKeeps ==
  ASSUME Inv, If
  PROVE  Inv'
BY StatementKeeps DEF If

LEMMA FieldKeeps ==
  ASSUME Inv, Field
  PROVE  Inv'
<1>1. Types /\ Room
  BY DEF Inv
<1>2. parse # <<>> /\ Top.kind = "class"
  BY DEF Field
<1>3. PICK lv, at : Scoped(lv) /\ LoopsOk(lv, at, loop)
  BY <1>2, OpenIs DEF Open
<1> DEFINE top == Last(lv)
           a == [kind |-> "field", height |-> 1, depth |-> top.depth, fn |-> top.fn, own |-> 0]
<1>4. /\ top.kind = "class" /\ top.depth \in Int /\ top.fn \in Nat /\ LevelOk(top)
      /\ FuncOk(func) /\ TopOk(top, Fn.height, Len(locals), new_local)
  BY <1>1, <1>2, <1>3, At
<1>5. Fn.height = 1 /\ Len(locals) = 0 /\ new_local = FALSE
  BY <1>1, <1>4 DEF TopOk, Types
<1> HIDE DEF top
<1>6. a \in Level /\ LevelOk(a)
  <2>1. top.fn >= 1 /\ top.depth >= DEPTH_GLOBAL
    BY <1>4 DEF LevelOk
  <2>2. QED
    BY <1>4, <2>1 DEF Level, LevelOk, Kinds, Expressions
<1>7. Under(top, a)
  <2>1. top.depth + 0 = top.depth
    BY <1>4
  <2>2. a.kind \notin Opening /\ Scopes(a.kind) = 0 /\ top.kind \notin Expressions
    BY <1>4 DEF Opening, Scopes, Expressions
  <2>3. QED
    BY <1>4, <2>1, <2>2 DEF Under
<1>8. TopOk(a, Fn.height, Len(locals), FALSE)
  BY <1>5 DEF TopOk, Bodies, Blocks
<1>9. /\ parse' = Enter(a.kind, a.height) /\ UNCHANGED <<scope_depth, locals, loop>>
      /\ new_local' = FALSE /\ NoJump /\ NoPatch /\ is_last_call' = FALSE
      /\ stack_size' \in Nat /\ Room' /\ Last(func').height = Fn.height
  BY <1>1, <1>5 DEF Field, Types, Room, Fn
<1>10. SameBut(func, func')
  BY <1>4, SameAgain DEF Field
<1>11. a.kind \in Expressions \ {"sequence", "condition"}
  BY DEF Expressions
<1> HIDE DEF a
<1>12. QED
  BY <1>3, <1>6, <1>7, <1>8, <1>9, <1>10, <1>11, EnterKeeps DEF top

LEMMA AssignKeeps ==
  ASSUME Inv, Careless = {}, Assign
  PROVE  Inv'
<1>1. Types /\ Room
  BY DEF Inv
<1>2. InExpression /\ parse # <<>>
  BY DEF Assign, InExpression
<1>3. PICK lv, at : Scoped(lv) /\ LoopsOk(lv, at, loop)
  BY <1>2, OpenIs DEF Open
<1> DEFINE top == Last(lv)
           l == Local(scope_depth, Fn.height)
<1>0. PICK a : a = [kind |-> "local", height |-> Fn.height, depth |-> top.depth,
                    fn |-> top.fn, own |-> Fn.height + 1]
  OBVIOUS
<1> DEFINE w == Append(lv, a)
<1>4. /\ top.height \in Nat /\ top.depth \in Int /\ top.fn \in Nat
      /\ LevelOk(top) /\ Top.kind = top.kind /\ Top.height = top.height /\ FuncOk(func)
      /\ Fn.height \in Nat /\ scope_depth = top.depth /\ Nested(lv)
      /\ lv \in Seq(Level) /\ Shape(lv, func, locals) /\ Shallow(lv, locals)
  BY <1>1, <1>3, At
<1>5. top.kind = "statement" /\ Fn.height = top.height
  BY <1>4 DEF Assign
<1>6. new_local = FALSE /\ Len(locals) = Fn.height
  BY <1>1, <1>2, <1>3, <1>4, <1>5, InExpressionIs DEF LevelOk
<1>7. locals \in Seq(LocalType) /\ l \in LocalType /\ l.slot = Len(locals) /\ l.depth = top.depth
  <2>1. scope_depth \in Nat
    BY <1>1 DEF Assign, Types, DEPTH_GLOBAL
  <2>2. QED
    BY <1>1, <1>4, <1>6, <2>1 DEF Types, Local, LocalType
<1> HIDE DEF top
<1>8. a \in Level /\ LevelOk(a)
  <2>1. top.fn >= 1 /\ top.depth >= DEPTH_GLOBAL
    BY <1>4 DEF LevelOk
  <2>2. QED
    BY <1>4, <1>0, <2>1 DEF Level, LevelOk, Kinds, Expressions
<1>9. Under(top, a)
  <2>1. top.depth + 0 = top.depth
    BY <1>4
  <2>2. a.kind \notin Opening /\ Scopes(a.kind) = 0 /\ top.kind \in Expressions /\ top.kind # "class"
    BY <1>5, <1>0 DEF Opening, Scopes, Expressions
  <2>3. QED
    BY <1>5, <1>0, <2>1, <2>2 DEF Under
<1>10. a.kind \in Expressions \ {"sequence"} /\ a.kind \notin Looping
  BY <1>0 DEF Expressions, Looping
<1>11. locals' = Append(locals, l) /\ parse' = Enter(a.kind, a.height)
       /\ UNCHANGED <<scope_depth, stack_size, func, loop>> /\ new_local' = FALSE
       /\ jumps' = {} /\ patched' = {} /\ is_last_call' = FALSE
  BY <1>6, <1>0 DEF Assign, NoJump, NoPatch
<1>12. Last(w) = a
  BY <1>4, <1>8, Appended
<1>13. parse' = Parsed(w)
  <2>1. parse' = Append(Parsed(lv), [kind |-> a.kind, height |-> a.height])
    BY <1>3, <1>11 DEF Scoped, Enter
  <2>2. QED
    BY <1>4, <1>8, <2>1, ParsedEnter
<1>14. Shape(w, func, locals) /\ Shallow(w, locals) /\ a.depth = top.depth
  BY <1>4, <1>7, <1>8, <1>9, <1>10, EnterExpression DEF top
<1>15. LoopsOk(w, at, loop)
  BY <1>3, <1>4, <1>8, <1>10, LoopsEnter
<1> HIDE DEF w, l
<1>16. Shape(w, func, locals')
  BY <1>4, <1>7, <1>11, <1>12, <1>14, ShapeLocal
<1>17. /\ locals' \in Seq(LocalType) /\ Len(locals') = Len(locals) + 1 /\ Len(locals) \in Nat
       /\ locals'[Len(locals) + 1] = l /\ \A j \in 1 .. Len(locals) : locals'[j] = locals[j]
  BY <1>7, <1>11, Appended
<1>18. Shallow(w, locals')
  <2>1. \A j \in 1 .. Len(locals) + 1 : j \in 1 .. Len(locals) \/ j = Len(locals) + 1
    BY <1>17
  <2>2. \A j \in 1 .. Len(locals) : locals'[j].depth <= a.depth
    BY <1>12, <1>14, <1>17 DEF Shallow
  <2>3. locals'[Len(locals) + 1].depth <= a.depth
    BY <1>4, <1>7, <1>14, <1>17
  <2>4. QED
    BY <1>12, <1>17, <2>1, <2>2, <2>3 DEF Shallow
<1>19. TopOk(a, Fn.height, Len(locals'), FALSE)
  <2>1. Len(locals') = a.own /\ a.height = Fn.height /\ a.kind = "local"
    BY <1>6, <1>17, <1>0
  <2>2. a.height <= Fn.height
    BY <1>4, <2>1
  <2>3. QED
    BY <2>1, <2>2 DEF TopOk, Bodies, Blocks
<1>20. Scoped(w)'
  BY <1>4, <1>11, <1>12, <1>13, <1>14, <1>16, <1>18, <1>19 DEF Scoped, Fn
<1>21. Open'
  BY <1>11, <1>15, <1>20 DEF Open
<1>22. Types'
  BY <1>1, <1>11, <1>17 DEF Types
<1>23. Room' /\ Calls' /\ JumpsAgree' /\ ReturnedCall'
  BY <1>1, <1>11 DEF Room, Calls, JumpsAgree, ReturnedCall
<1>24. QED
  BY <1>21, <1>22, <1>23 DEF Inv

(* A block is begun in a body. *)
BlockLevel(lv, kind, m) ==
  [kind |-> kind, height |-> m, depth |-> Last(lv).depth + 1, fn |-> Last(lv).fn, own |-> m + 1]

LEMMA BlockLevelIs ==
  ASSUME NEW lv, NEW f, NEW loc \in Seq(LocalType), Shape(lv, f, loc), Shallow(lv, loc), FuncOk(f),
         Last(lv).kind \in Bodies, NEW kind \in Nests \ {"script", "for"}
  PROVE  LET a == BlockLevel(lv, kind, Len(loc))
             w == Append(lv, a)
         IN /\ a \in Level /\ LevelOk(a) /\ Under(Last(lv), a)
            /\ Shape(w, f, loc) /\ Shallow(w, loc)
            /\ w \in Seq(Level) /\ w # <<>> /\ Last(w) = a /\ Front(w) = lv
            /\ Parsed(w) = Append(Parsed(lv), [kind |-> kind, height |-> Len(loc)])
            /\ kind # "sequence" => TopOk(a, Len(loc), Len(loc), FALSE)
<1> DEFINE a == BlockLevel(lv, kind, Len(loc))
           top == Last(lv)
<1>1. /\ top.depth \in Int /\ top.fn \in Nat /\ LevelOk(top) /\ lv \in Seq(Level)
      /\ Len(loc) \in Nat
  BY LevelsOf DEF Shape
<1>2. top.fn >= 1 /\ top.depth + 1 >= DEPTH_GLOBAL /\ top.depth + 1 \in Int
  BY <1>1 DEF LevelOk, DEPTH_GLOBAL
<1>3. kind \in {"then", "else", "elsif", "while", "sequence"}
  BY DEF Nests
<1>4. a \in Level
  BY <1>1, <1>2, <1>3 DEF BlockLevel, Level, Kinds, Expressions, Blocks
<1>5. LevelOk(a)
  BY <1>2, <1>3 DEF BlockLevel, LevelOk
<1>6. Under(top, a)
  <2>1. a.kind \notin Opening /\ Scopes(a.kind) = 1
    BY <1>3 DEF BlockLevel, Opening, Scopes
  <2>2. top.kind \notin Expressions /\ top.kind # "class"
    BY DEF Bodies, Blocks, Expressions
  <2>3. QED
    BY <1>3, <2>1, <2>2 DEF BlockLevel, Under
<1>7. a.kind = kind /\ a.height = Len(loc)
  BY DEF BlockLevel
<1>8. Shape(Append(lv, a), f, loc) /\ Shallow(Append(lv, a), loc)
  BY <1>4, <1>5, <1>6, <1>7, EnterBlock
<1>9. /\ Append(lv, a) \in Seq(Level) /\ Append(lv, a) # <<>> /\ Last(Append(lv, a)) = a
      /\ Front(Append(lv, a)) = lv
  BY <1>1, <1>4, Appended
<1>10. Parsed(Append(lv, a)) = Append(Parsed(lv), [kind |-> kind, height |-> Len(loc)])
  BY <1>1, <1>4, <1>7, ParsedEnter
<1>11. kind # "sequence" => TopOk(a, Len(loc), Len(loc), FALSE)
  BY <1>3, <1>7, BodyOk DEF Bodies, Blocks
<1>12. QED
  BY <1>4, <1>5, <1>6, <1>8, <1>9, <1>10, <1>11

(* What a body is in, when an expression of a statement ends. *)
LEMMA BodyBelow ==
  ASSUME Types, NEW lv, Scoped(lv), Last(lv).kind \in {"statement", "return", "if", "condition", "sequence"}
  PROVE  /\ Last(Front(lv)).kind \in Bodies /\ Shape(Front(lv), func, locals)
         /\ Last(Front(lv)).fn = Last(lv).fn /\ Last(Front(lv)).depth \in Int
         /\ Last(lv).kind # "sequence" => /\ Shallow(Front(lv), locals)
                                          /\ Last(Front(lv)).depth = Last(lv).depth
         /\ Last(lv).kind = "sequence" => Last(lv).depth = Last(Front(lv)).depth + 1
         /\ Front(lv) \in Seq(Level) /\ Front(lv) # <<>>
         /\ Front(parse) = Parsed(Front(lv))
<1>1. /\ Shape(lv, func, locals) /\ Shallow(lv, locals) /\ lv \in Seq(Level) /\ lv # <<>>
      /\ Nested(lv) /\ Last(lv) \in Level /\ parse = Parsed(lv)
  BY At DEF Scoped
<1>2. locals \in Seq(LocalType)
  BY DEF Types
<1>3. Last(lv).kind \in Expressions
  BY DEF Expressions
<1>4. /\ Shape(Front(lv), func, locals) /\ Under(Last(Front(lv)), Last(lv))
      /\ Last(lv).kind # "sequence" =>
           Shallow(Front(lv), locals) /\ Last(Front(lv)).depth = Last(lv).depth
  BY <1>1, <1>2, <1>3, LeaveExpression
<1>5. Nested(Front(lv)) /\ Last(Front(lv)) \in Level /\ Front(lv) \in Seq(Level) /\ Front(lv) # <<>>
  <2>1. Nested(Front(lv))
    BY <1>4 DEF Shape
  <2>2. QED
    BY <2>1, LevelsOf
<1>6. Last(Front(lv)).kind \in Bodies
  BY <1>1, <1>4, <1>5, UnderIs DEF Opening
<1>7. Last(lv).fn = Last(Front(lv)).fn
  BY <1>4 DEF Under, Opening
<1>8. Last(lv).kind = "sequence" => Last(lv).depth = Last(Front(lv)).depth + 1
  BY <1>4 DEF Under, Scopes
<1>9. Front(parse) = Parsed(Front(lv))
  BY <1>1, ParsedLeave
<1>10. QED
  BY <1>4, <1>5, <1>6, <1>7, <1>8, <1>9 DEF Level

(* A condition is compiled, and its block begins. *)
LEMMA ConditionEnds ==
  ASSUME Types, Room, NEW lv, Scoped(lv), NEW from \in {"if", "condition"}, Complete(from),
         NEW kind \in {"then", "while"}, Emit(Operands(3), -1, -1),
         parse' = Instead(kind, Fn.height - 1), scope_depth' = scope_depth + 1,
         UNCHANGED <<locals, new_local>>
  PROVE  /\ stack_size' \in Nat /\ SameBut(func, func') /\ Room' /\ Fn'.code # <<>>
         /\ new_local = FALSE
         /\ \E a \in Level :
              /\ a.kind = kind /\ a.height = Last(lv).height /\ a.depth = Last(lv).depth + 1
              /\ a.fn = Last(lv).fn /\ Scoped(Append(Front(lv), a))'
<1> DEFINE top == Last(lv)
           below == Last(Front(lv))
<1>1. Top.kind = from /\ Fn.height = Top.height + 1
  BY DEF Complete
<1>2. /\ top.kind = from /\ top.height \in Nat /\ FuncOk(func) /\ Fn.height \in Nat
      /\ Fn.height = top.height + 1 /\ stack_size \in Nat /\ LevelOk(top)
      /\ TopOk(top, Fn.height, Len(locals), new_local) /\ scope_depth = top.depth
      /\ locals \in Seq(LocalType)
  BY <1>1, At DEF Types
<1>3. top.own = top.height
  BY <1>2 DEF LevelOk
<1>4. new_local = FALSE /\ Len(locals) = top.height
  <2>1. new_local = FALSE
    BY <1>2 DEF TopOk, Types
  <2>2. QED
    BY <1>2, <1>3, <2>1 DEF TopOk, Expressions
<1>5. /\ below.kind \in Bodies /\ Shape(Front(lv), func, locals) /\ Shallow(Front(lv), locals)
      /\ below.fn = top.fn /\ below.depth = top.depth /\ Front(parse) = Parsed(Front(lv))
  BY <1>2, BodyBelow
<1> HIDE DEF top, below
<1>6. /\ stack_size' \in Nat /\ SameBut(func, func') /\ Room' /\ Fn'.height = Fn.height - 1
      /\ Fn'.code = LastThree(Fn.code \o Operands(3))
  <2>1. Operands(3) \in Seq(Bytes) /\ -1 \in Int /\ -1 <= -1
    BY CodeTyped
  <2>2. Fn.height + (-1) >= 0 /\ Fn.height + (-1) = Fn.height - 1
    BY <1>2
  <2>3. QED
    BY <1>2, <2>1, <2>2, EmitOk
<1>7. Fn'.code # <<>>
  <2>1. Operands(3) \in Seq(Bytes) /\ Len(Operands(3)) = 3 /\ Fn.code \in Seq(Bytes)
    BY <1>2, CodeTyped, FnOf
  <2>2. \A t \in Seq(Bytes) : Len(t) = 3 => t # <<>>
    BY ThreeAreSome, Zenon
  <2>3. QED
    BY <1>6, <2>1, <2>2, CodeStays
<1>8. PICK a : a = BlockLevel(Front(lv), kind, Len(locals))
  OBVIOUS
<1> DEFINE w == Append(Front(lv), a)
<1>9. Shape(Front(lv), func', locals) /\ FuncOk(func')
  BY <1>5, <1>6, ShapeEmit DEF SameBut
<1>10. /\ a \in Level /\ Shape(w, func', locals) /\ Shallow(w, locals) /\ Last(w) = a
       /\ Parsed(w) = Append(Parsed(Front(lv)), [kind |-> kind, height |-> Len(locals)])
       /\ TopOk(a, Len(locals), Len(locals), FALSE)
  <2>1. kind \in Nests \ {"script", "for"} /\ kind # "sequence"
    BY DEF Nests
  <2>2. Last(Front(lv)).kind \in Bodies /\ Shallow(Front(lv), locals)
    BY <1>5 DEF below
  <2> HIDE DEF w
  <2>3. LET b == BlockLevel(Front(lv), kind, Len(locals))
            v == Append(Front(lv), b)
        IN /\ b \in Level /\ Shape(v, func', locals) /\ Shallow(v, locals) /\ Last(v) = b
           /\ Parsed(v) = Append(Parsed(Front(lv)), [kind |-> kind, height |-> Len(locals)])
           /\ TopOk(b, Len(locals), Len(locals), FALSE)
    BY <1>2, <1>9, <2>1, <2>2, BlockLevelIs
  <2>4. QED
    BY <1>8, <2>3 DEF w
<1>11. /\ a.kind = kind /\ a.height = top.height /\ a.depth = top.depth + 1 /\ a.fn = top.fn
  BY <1>4, <1>5, <1>8 DEF BlockLevel, below
<1> HIDE DEF w
<1>12. Scoped(w)'
  <2>1. parse' = Parsed(w)
    <3>1. Fn.height - 1 = Len(locals)
      BY <1>2, <1>4
    <3>2. QED
      BY <1>5, <1>10, <3>1 DEF Instead
  <2>2. scope_depth' = Last(w).depth
    BY <1>2, <1>10, <1>11
  <2>3. TopOk(a, Last(func').height, Len(locals), FALSE)
    <3>1. Last(func').height = Len(locals)
      BY <1>2, <1>4, <1>6 DEF Fn
    <3>2. QED
      BY <1>10, <3>1
  <2>4. QED
    BY <1>4, <1>10, <2>1, <2>2, <2>3 DEF Scoped, Fn
<1>13. QED
  BY <1>4, <1>6, <1>7, <1>10, <1>11, <1>12 DEF w, top

LEMMA ThenKeeps ==
  ASSUME Inv, Then
  PROVE  Inv'
<1>1. Types /\ Room
  BY DEF Inv
<1>2. Complete("if") /\ Emit(Operands(3), -1, -1) /\ parse' = Instead("then", Fn.height - 1)
      /\ scope_depth' = scope_depth + 1 /\ UNCHANGED <<locals, loop, new_local, is_last_call>>
      /\ jumps' = {} /\ patched' = {} /\ parse # <<>> /\ Top.kind = "if"
  BY DEF Then, NoJump, NoPatch, Complete
<1>3. PICK lv, at : Scoped(lv) /\ LoopsOk(lv, at, loop)
  BY <1>2, OpenIs DEF Open
<1>4. /\ stack_size' \in Nat /\ SameBut(func, func') /\ Room' /\ Fn'.code # <<>>
      /\ \E a \in Level : a.kind = "then" /\ Scoped(Append(Front(lv), a))'
  BY <1>1, <1>2, <1>3, ConditionEnds
<1>5. PICK a \in Level : a.kind = "then" /\ Scoped(Append(Front(lv), a))'
  BY <1>4
<1> DEFINE w == Append(Front(lv), a)
<1>6. Nested(lv) /\ Last(lv).kind = "if" /\ scope_depth \in Int /\ scope_depth >= DEPTH_GLOBAL
  BY <1>1, <1>2, <1>3, At DEF Types
<1>7. Nested(Front(lv))
  BY <1>6, NestedPop
<1>8. LoopsOk(Front(lv), at, loop)
  BY <1>3, <1>6, LoopsLeave DEF Looping
<1>9. LoopsOk(w, at, loop)
  BY <1>5, <1>7, <1>8, LoopsEnter DEF Looping
<1>10. w \in Seq(Level) /\ w # <<>> /\ Last(w) = a
  BY <1>7, LevelsOf, Appended
<1> HIDE DEF w
<1>11. Calls'
  <2>1. parse' = Parsed(w) /\ Last(w).kind \notin Expressions
    BY <1>5, <1>10 DEF Scoped, w, Expressions
  <2>2. QED
    BY <1>4, <1>10, <2>1, CallsOutside DEF Fn
<1>12. Open'
  BY <1>2, <1>5, <1>9 DEF Open, w
<1>13. Types'
  <2>1. scope_depth' \in Int /\ scope_depth' >= DEPTH_GLOBAL
    BY <1>2, <1>6 DEF DEPTH_GLOBAL
  <2>2. QED
    BY <1>1, <1>2, <1>4, <2>1 DEF Types, SameBut
<1>14. QED
  BY <1>2, <1>4, <1>11, <1>12, <1>13 DEF Inv, JumpsAgree, ReturnedCall

LEMMA DoKeeps ==
  ASSUME Inv, Do
  PROVE  Inv'
<1>1. Types /\ Room
  BY DEF Inv
<1>2. Complete("condition") /\ Emit(Operands(3), -1, -1) /\ parse' = Instead("while", Fn.height - 1)
      /\ scope_depth' = scope_depth + 1 /\ UNCHANGED <<locals, loop, new_local, is_last_call>>
      /\ jumps' = {} /\ patched' = {} /\ parse # <<>> /\ Top.kind = "condition"
  BY DEF Do, NoJump, NoPatch, Complete
<1>3. PICK lv, at : Scoped(lv) /\ LoopsOk(lv, at, loop)
  BY <1>2, OpenIs DEF Open
<1> DEFINE top == Last(lv)
<1>4. /\ stack_size' \in Nat /\ SameBut(func, func') /\ Room' /\ Fn'.code # <<>>
      /\ \E a \in Level :
           /\ a.kind = "while" /\ a.height = top.height /\ a.depth = top.depth + 1
           /\ a.fn = top.fn /\ Scoped(Append(Front(lv), a))'
  BY <1>1, <1>2, <1>3, ConditionEnds
<1>5. PICK a \in Level :
           /\ a.kind = "while" /\ a.height = top.height /\ a.depth = top.depth + 1
           /\ a.fn = top.fn /\ Scoped(Append(Front(lv), a))'
  BY <1>4
<1> DEFINE w == Append(Front(lv), a)
<1>6. /\ Nested(lv) /\ top.kind = "condition" /\ scope_depth \in Int /\ scope_depth >= DEPTH_GLOBAL
      /\ loop \in Seq(LoopType) /\ top.depth \in Int
  BY <1>1, <1>2, <1>3, At DEF Types
<1>7. Nested(Front(lv))
  BY <1>6, NestedPop
<1>8. loop # <<>> /\ LoopOk(top, Last(loop)) /\ LoopsOk(Front(lv), Front(at), Front(loop))
  BY <1>3, <1>6, LoopsEnd DEF Looping
<1>9. Last(loop) \in LoopType /\ Front(loop) \in Seq(LoopType) /\ Append(Front(loop), Last(loop)) = loop
  BY <1>6, <1>8, LastOf, FrontOf, Rejoined
<1>10. LoopOk(a, Last(loop))
  <2>1. (top.depth + 1) - 1 = top.depth
    BY <1>6
  <2>2. QED
    BY <1>5, <1>6, <1>8, <2>1 DEF LoopOk
<1>11. LoopsOk(w, Append(Front(at), Len(Front(lv)) + 1), loop)
  <2>1. a.kind \in Looping
    BY <1>5 DEF Looping
  <2>2. QED
    BY <1>7, <1>8, <1>9, <1>10, <2>1, LoopsBegin
<1>12. w \in Seq(Level) /\ w # <<>> /\ Last(w) = a
  BY <1>7, LevelsOf, Appended
<1> HIDE DEF w
<1>13. Calls'
  <2>1. parse' = Parsed(w) /\ Last(w).kind \notin Expressions
    BY <1>5, <1>12 DEF Scoped, w, Expressions
  <2>2. QED
    BY <1>4, <1>12, <2>1, CallsOutside DEF Fn
<1>14. Open'
  BY <1>2, <1>5, <1>11 DEF Open, w
<1>15. Types'
  <2>1. scope_depth' \in Int /\ scope_depth' >= DEPTH_GLOBAL
    BY <1>2, <1>6 DEF DEPTH_GLOBAL
  <2>2. QED
    BY <1>1, <1>2, <1>4, <2>1 DEF Types, SameBut
<1>16. QED
  BY <1>2, <1>4, <1>13, <1>14, <1>15 DEF Inv, JumpsAgree, ReturnedCall

LEMMA WhileKeeps ==
  ASSUME Inv, While
  PROVE  Inv'
<1>1. Types /\ Room
  BY DEF Inv
<1>2. parse # <<>> /\ Top.kind \in Bodies /\ is_last_call' = FALSE
  BY DEF While, AtStatement, Bodies
<1>3. PICK lv, at : Scoped(lv) /\ LoopsOk(lv, at, loop)
  BY <1>2, OpenIs DEF Open
<1>4. PICK a : a = StatementLevel(lv, "condition")
  OBVIOUS
<1> DEFINE l == NewLoop(Fn.height)
           w == Append(lv, a)
<1>5. /\ a \in Level /\ LevelOk(a) /\ Under(Last(lv), a) /\ a.kind = "condition"
      /\ a.height = Fn.height /\ TopOk(a, Fn.height, Len(locals), FALSE)
  BY <1>1, <1>2, <1>3, <1>4, StatementLevelIs
<1>6. new_local = FALSE
  BY <1>1, <1>2, <1>3, AtStatementIs
<1>7. /\ FuncOk(func) /\ Nested(lv) /\ scope_depth = Last(lv).depth /\ Last(lv).fn = Len(func)
      /\ Len(func) \in Nat \ {0} /\ Fn.height \in Nat /\ scope_depth \in Int
  BY <1>1, <1>3, At
<1>8. /\ loop' = Append(loop, l) /\ parse' = Enter(a.kind, a.height) /\ jumps' = {} /\ patched' = {}
      /\ UNCHANGED <<scope_depth, locals, stack_size, func>> /\ new_local' = FALSE
  BY <1>5, <1>6 DEF While, NoJump, NoPatch
<1>9. Scoped(w)'
  <2>1. SameBut(func, func')
    BY <1>7, <1>8, SameAgain
  <2>2. a.kind \in Expressions \ {"sequence"}
    BY <1>5 DEF Expressions
  <2>3. TopOk(a, Last(func').height, Len(locals), new_local')
    BY <1>5, <1>8 DEF Fn
  <2>4. QED
    BY <1>1, <1>3, <1>5, <1>8, <2>1, <2>2, <2>3, Entered
<1>10. l \in LoopType /\ LoopOk(a, l)
  <2>1. l = [depth |-> scope_depth, start |-> [fn |-> Len(func), height |-> Fn.height], patches |-> {}]
    BY DEF NewLoop, Here
  <2>2. a.depth = scope_depth /\ a.fn = Len(func)
    BY <1>4, <1>7 DEF StatementLevel
  <2> HIDE DEF l
  <2>3. QED
    BY <1>5, <1>7, <2>1, <2>2 DEF LoopType, Places, LoopOk
<1> HIDE DEF l
<1>11. loop \in Seq(LoopType)
  BY <1>1 DEF Types
<1>12. LoopsOk(w, Append(at, Len(lv) + 1), loop')
  BY <1>3, <1>5, <1>7, <1>8, <1>10, <1>11, LoopsBegin DEF Looping
<1>13. Open'
  BY <1>9, <1>12 DEF Open
<1>14. Types'
  <2>1. loop' \in Seq(LoopType)
    BY <1>8, <1>10, <1>11, Appended
  <2>2. QED
    BY <1>1, <1>2, <1>8, <2>1 DEF Types
<1>15. QED
  BY <1>1, <1>2, <1>8, <1>13, <1>14 DEF Inv, JumpsAgree, ReturnedCall, Calls, Room

-----------------------------------------------------------------------------
(* Blocks end. *)
LEMMA AfterBlockIs ==
  ASSUME Types, NEW lv, Scoped(lv), Last(lv).kind \in Nests \ {"script", "sequence"}
  PROVE  /\ Popped(scope_depth) = Len(locals) - Last(lv).height /\ Popped(scope_depth) \in Nat
         /\ Fn.height - Popped(scope_depth) = Last(lv).height
         /\ AfterBlock = Here(Last(lv).height) /\ Last(lv).height \in Nat
         /\ Top.height = Last(lv).height
<1> DEFINE a == Last(lv)
           n == Len(lv)
<1>1. /\ Nested(lv) /\ Shape(lv, func, locals) /\ a.height \in Nat /\ a.depth \in Int
      /\ a.fn = Len(func) /\ scope_depth = a.depth /\ Top.kind = a.kind /\ Top.height = a.height
      /\ Len(locals) \in Nat /\ Fn.height \in Nat
  BY At
<1>2. n \in 1 .. n /\ a = lv[n]
  BY <1>1, LevelsOf
<1>3. a.height <= Len(locals)
  BY <1>1, <1>2 DEF Shape, Heights
<1>4. \A j \in 1 .. Len(locals) : locals[j].depth < a.depth <=> j <= a.height
  BY <1>1, <1>2 DEF Shape, Slots
<1>5. a.height \in 0 .. Len(locals) /\ locals \in Seq(LocalType)
  BY <1>1, <1>3 DEF Types
<1>6. Popped(scope_depth) = Len(locals) - a.height
  BY <1>1, <1>4, <1>5, PoppedIs
<1>7. Fn.height = Len(locals)
  <2>1. Top.kind \in Bodies
    BY <1>1 DEF Nests, Bodies, Blocks
  <2>2. QED
    BY <2>1, AtStatementIs
<1> HIDE DEF a
<1>8. Fn.height - Popped(scope_depth) = a.height /\ Popped(scope_depth) \in Nat
  BY <1>1, <1>3, <1>6, <1>7
<1>9. QED
  BY <1>1, <1>6, <1>8 DEF AfterBlock, a

LEMMA LoopJumpsAgree ==
  ASSUME Types, NEW lv, Scoped(lv), Last(lv).kind \in {"while", "for"}, LoopOk(Last(lv), Loop)
  PROVE  LoopJumps \subseteq {Jump(Here(Last(lv).height), Here(Last(lv).height))}
<1> DEFINE h == Last(lv).height
<1>1. AfterBlock = Here(h) /\ Top.height = h
  BY AfterBlockIs DEF Nests
<1>2. Last(lv).fn = Len(func)
  BY At
<1>3. Loop.start = Here(h) /\ Loop.patches \subseteq {Here(h)}
  BY <1>2 DEF LoopOk, Here
<1>4. QED
  BY <1>1, <1>3 DEF LoopJumps

(* The locals of a block are popped, by the code and by the compiler. *)
LEMMA BlockLeft ==
  ASSUME Types, Room, NEW lv, Scoped(lv), Last(lv).kind \in Nests \ {"script", "sequence"},
         NEW code \in Seq(Bytes),
         Emit(code, -Popped(Depth(Last(lv))), -Popped(Depth(Last(lv)))),
         locals' = Kept(Depth(Last(lv)))
  PROVE  /\ stack_size' \in Nat /\ SameBut(func, func') /\ Room'
         /\ Fn'.height = Height(Last(lv)) /\ Fn'.code = LastThree(Fn.code \o code)
         /\ Fn.height - Popped(Depth(Last(lv))) = Height(Last(lv)) /\ Height(Last(lv)) \in Nat
         /\ locals' \in Seq(LocalType) /\ Len(locals') = Height(Last(lv)) /\ new_local = FALSE
         /\ Shape(Front(lv), func', locals') /\ Shallow(Front(lv), locals')
         /\ Last(Front(lv)).kind \in Bodies /\ Last(Front(lv)).depth = Depth(Last(lv)) - 1
         /\ Front(parse) = Parsed(Front(lv)) /\ FuncOk(func')
<1> DEFINE a == Last(lv)
           k == Height(a)
           d == Depth(a)
<1>1. /\ Shape(lv, func, locals) /\ Top.kind = a.kind /\ Len(locals) \in Nat /\ Fn.height \in Nat
      /\ lv \in Seq(Level) /\ lv # <<>> /\ FuncOk(func)
  BY At
<1>2. locals \in Seq(LocalType) /\ stack_size \in Nat
  BY DEF Types
<1>3. Fn.height = Len(locals) /\ new_local = FALSE
  <2>1. Top.kind \in Bodies
    BY <1>1 DEF Nests, Bodies, Blocks
  <2>2. QED
    BY <2>1, AtStatementIs
<1>4. LET kept == SubSeq(locals, 1, k)
      IN /\ k \in 0 .. Len(locals) /\ d \in Int
         /\ \A j \in 1 .. Len(locals) : locals[j].depth < d <=> j <= k
         /\ Shape(Front(lv), func, kept) /\ Shallow(Front(lv), kept)
         /\ Last(Front(lv)).kind \in Bodies /\ Last(Front(lv)).depth = d - 1
         /\ kept \in Seq(LocalType) /\ Len(kept) = k
  BY <1>1, <1>2, BlockEnds
<1> HIDE DEF k, d
<1>5. Popped(d) = Len(locals) - k /\ locals' = SubSeq(locals, 1, k)
  BY <1>2, <1>4, PoppedIs DEF d
<1>6. Fn.height - Popped(d) = k /\ k \in Nat /\ Fn.height + (-Popped(d)) = k /\ -Popped(d) \in Int
      /\ -Popped(d) <= -Popped(d) /\ Fn.height + (-Popped(d)) >= 0
  <2>1. \A x, y \in Nat : y <= x => /\ x - (x - y) = y /\ x + (-(x - y)) = y /\ -(x - y) \in Int
                                   /\ -(x - y) <= -(x - y) /\ x + (-(x - y)) >= 0
    OBVIOUS
  <2>2. k \in Nat /\ k <= Len(locals)
    BY <1>1, <1>4
  <2>3. QED
    BY <1>1, <1>3, <1>5, <2>1, <2>2
<1>7. /\ stack_size' \in Nat /\ SameBut(func, func') /\ Room' /\ Fn'.height = k
      /\ Fn'.code = LastThree(Fn.code \o code)
  <2>1. Emit(code, -Popped(d), -Popped(d))
    BY DEF d
  <2>2. /\ stack_size' \in Nat /\ SameBut(func, func') /\ Room' /\ Fn'.height = Fn.height + (-Popped(d))
        /\ Fn'.code = LastThree(Fn.code \o code)
    BY <1>1, <1>2, <1>6, <2>1, EmitOk
  <2>3. QED
    BY <1>6, <2>2
<1>8. Shape(Front(lv), func', locals') /\ Shallow(Front(lv), locals')
  BY <1>4, <1>5, <1>7, ShapeEmit
<1>9. Front(parse) = Parsed(Front(lv))
  BY <1>1, ParsedLeave DEF Scoped
<1>10. FuncOk(func')
  BY <1>7 DEF SameBut
<1>11. QED
  BY <1>3, <1>4, <1>5, <1>6, <1>7, <1>8, <1>9, <1>10 DEF k, d

(* A block is left, and maybe a loop with it. *)
LEMMA LeaveBlockKeeps ==
  ASSUME Inv, NEW lv, Scoped(lv), Last(lv).kind \in Nests \ {"script", "sequence"},
         NEW code \in Seq(Bytes),
         Emit(code, -Popped(Depth(Last(lv))), -Popped(Depth(Last(lv)))),
         locals' = Kept(Depth(Last(lv))), scope_depth' = Depth(Last(lv)) - 1,
         parse' = Front(parse), UNCHANGED <<new_local, is_last_call>>, NoPatch,
         JumpsAgree', \A j \in jumps' : j.from \in Places /\ j.to \in Places,
         NEW bt, LoopsOk(Front(lv), bt, loop'), loop' \in Seq(LoopType)
  PROVE  Inv'
<1> DEFINE w == Front(lv)
<1>1. Types /\ Room /\ Calls
  BY DEF Inv
<1>2. /\ stack_size' \in Nat /\ SameBut(func, func') /\ Room'
      /\ Fn'.height = Height(Last(lv)) /\ Fn'.code = LastThree(Fn.code \o code)
      /\ locals' \in Seq(LocalType) /\ Len(locals') = Height(Last(lv)) /\ new_local = FALSE
      /\ Shape(w, func', locals') /\ Shallow(w, locals')
      /\ Last(w).kind \in Bodies /\ Last(w).depth = Depth(Last(lv)) - 1
      /\ Front(parse) = Parsed(w)
  BY <1>1, BlockLeft
<1>3. w \in Seq(Level) /\ w # <<>> /\ Last(w).depth \in Int /\ LevelOk(Last(w))
  <2>1. Nested(w)
    BY <1>2 DEF Shape
  <2>2. QED
    BY <2>1, LevelsOf
<1>4. Fn.code \in Seq(Bytes) /\ Top.kind = Last(lv).kind /\ parse # <<>>
  BY <1>1, At, FnOf
<1> HIDE DEF w
<1>5. Scoped(w)'
  <2>1. TopOk(Last(w), Last(func').height, Len(locals'), FALSE)
    BY <1>2, BodyOk DEF Fn
  <2>2. QED
    BY <1>2, <2>1 DEF Scoped, Fn
<1>6. Open'
  BY <1>5 DEF Open, w
<1>7. Types'
  <2>1. scope_depth' \in Int /\ scope_depth' >= DEPTH_GLOBAL
    BY <1>2, <1>3 DEF LevelOk
  <2>2. QED
    BY <1>1, <1>2, <2>1 DEF Types, SameBut, NoPatch
<1>8. Calls'
  <2>1. Last(w).kind \notin Expressions
    BY <1>2 DEF Bodies, Blocks, Expressions
  <2>2. ASSUME is_last_call'
        PROVE  Last(func').code # <<>>
    <3>1. Top.kind \notin {"script", "class"}
      BY <1>4 DEF Nests
    <3>2. Fn.code # <<>>
      BY <1>1, <1>4, <2>2, <3>1 DEF Calls
    <3>3. QED
      BY <1>2, <1>4, <3>2, CodeStays DEF Fn
  <2>3. QED
    BY <1>2, <1>3, <2>1, <2>2, CallsOutside
<1>9. QED
  BY <1>2, <1>6, <1>7, <1>8 DEF Inv, NoPatch, ReturnedCall

LEMMA EndIfKeeps ==
  ASSUME Inv, EndIf
  PROVE  Inv'
<1>1. Types
  BY DEF Inv
<1>2. parse # <<>> /\ Top.kind \in {"then", "else", "elsif"}
  BY DEF EndIf
<1>3. PICK lv, at : Scoped(lv) /\ LoopsOk(lv, at, loop)
  BY <1>2, OpenIs DEF Open
<1> DEFINE a == Last(lv)
<1>4. /\ a.kind \in {"then", "else", "elsif"} /\ scope_depth = a.depth /\ Nested(lv) /\ FuncOk(func)
  BY <1>1, <1>2, <1>3, At
<1>5. /\ Top.height = a.height /\ AfterBlock = Here(a.height) /\ a.height \in Int
      /\ Popped(scope_depth) \in Nat
  BY <1>1, <1>3, <1>4, AfterBlockIs DEF Nests
<1>6. Depth(a) = scope_depth
  BY <1>4 DEF Depth
<1> HIDE DEF a
<1>7. JumpsAgree' /\ \A j \in jumps' : j.from \in Places /\ j.to \in Places
  <2>1. jumps' = {Jump(Here(a.height), Here(a.height))}
    BY <1>5 DEF EndIf
  <2>2. QED
    BY <1>4, <1>5, <2>1, JumpsFrom
<1>8. LoopsOk(Front(lv), at, loop')
  <2>1. loop' = loop
    BY DEF EndIf
  <2>2. QED
    BY <1>3, <1>4, <2>1, LoopsLeave DEF Looping, a
<1>9. loop' \in Seq(LoopType)
  BY <1>1 DEF EndIf, Types
<1>10. /\ Emit(Pops(Popped(Depth(a))) \o <<>>, -Popped(Depth(a)), -Popped(Depth(a)))
       /\ locals' = Kept(Depth(a)) /\ scope_depth' = Depth(a) - 1 /\ parse' = Front(parse)
       /\ UNCHANGED <<new_local, is_last_call>> /\ NoPatch
  BY <1>6 DEF EndIf, ExitBlock
<1>11. Pops(Popped(Depth(a))) \o <<>> \in Seq(Bytes)
  BY <1>5, <1>6, CodeTyped, ConcatProperties
<1>12. a.kind \in Nests \ {"script", "sequence"}
  BY <1>4 DEF Nests
<1>13. QED
  BY <1>3, <1>7, <1>8, <1>9, <1>10, <1>11, <1>12, LeaveBlockKeeps DEF a

LEMMA EndWhileKeeps ==
  ASSUME Inv, EndWhile
  PROVE  Inv'
<1>1. Types
  BY DEF Inv
<1>2. parse # <<>> /\ Top.kind = "while"
  BY DEF EndWhile
<1>3. PICK lv, at : Scoped(lv) /\ LoopsOk(lv, at, loop)
  BY <1>2, OpenIs DEF Open
<1> DEFINE a == Last(lv)
<1>4. /\ a.kind = "while" /\ scope_depth = a.depth /\ Nested(lv) /\ FuncOk(func) /\ a.height \in Int
      /\ loop \in Seq(LoopType)
  BY <1>1, <1>2, <1>3, At DEF Types
<1>5. Popped(scope_depth) \in Nat
  BY <1>1, <1>3, <1>4, AfterBlockIs DEF Nests
<1>6. Depth(a) = scope_depth
  BY <1>4 DEF Depth
<1>7. loop # <<>> /\ LoopOk(a, Loop) /\ LoopsOk(Front(lv), Front(at), Front(loop))
  BY <1>3, <1>4, LoopsEnd DEF Looping, Loop
<1>8. LoopJumps \subseteq {Jump(Here(a.height), Here(a.height))}
  BY <1>1, <1>3, <1>4, <1>7, LoopJumpsAgree
<1> HIDE DEF a
<1>9. JumpsAgree' /\ \A j \in jumps' : j.from \in Places /\ j.to \in Places
  <2>1. jumps' \subseteq {Jump(Here(a.height), Here(a.height))}
    BY <1>8 DEF EndWhile
  <2>2. QED
    BY <1>4, <2>1, JumpsFrom
<1>10. loop' = Front(loop) /\ loop' \in Seq(LoopType)
  BY <1>4, <1>7, FrontOf DEF EndWhile
<1>11. /\ Emit(Pops(Popped(Depth(a))) \o Operands(3), -Popped(Depth(a)), -Popped(Depth(a)))
       /\ locals' = Kept(Depth(a)) /\ scope_depth' = Depth(a) - 1 /\ parse' = Front(parse)
       /\ UNCHANGED <<new_local, is_last_call>> /\ NoPatch
  BY <1>6 DEF EndWhile, ExitBlock
<1>12. Pops(Popped(Depth(a))) \o Operands(3) \in Seq(Bytes)
  BY <1>5, <1>6, CodeTyped, ConcatProperties
<1>13. a.kind \in Nests \ {"script", "sequence"}
  BY <1>4 DEF Nests
<1>14. QED
  BY <1>3, <1>7, <1>9, <1>10, <1>11, <1>12, <1>13, LeaveBlockKeeps DEF a

LEMMA EndForKeeps ==
  ASSUME Inv, EndFor
  PROVE  Inv'
<1>1. Types
  BY DEF Inv
<1>2. parse # <<>> /\ Top.kind = "for"
  BY DEF EndFor
<1>3. PICK lv, at : Scoped(lv) /\ LoopsOk(lv, at, loop)
  BY <1>2, OpenIs DEF Open
<1> DEFINE a == Last(lv)
<1>4. /\ a.kind = "for" /\ scope_depth = a.depth /\ Nested(lv) /\ FuncOk(func) /\ a.height \in Int
      /\ loop \in Seq(LoopType) /\ a.depth \in Int
  BY <1>1, <1>2, <1>3, At DEF Types
<1>5. Depth(a) = scope_depth - 1 /\ Depth(a) - 1 = scope_depth - 2
  BY <1>4 DEF Depth
<1>6. loop # <<>> /\ LoopOk(a, Loop) /\ LoopsOk(Front(lv), Front(at), Front(loop))
  BY <1>3, <1>4, LoopsEnd DEF Looping, Loop
<1>7. LoopJumps \subseteq {Jump(Here(a.height), Here(a.height))}
  BY <1>1, <1>3, <1>4, <1>6, LoopJumpsAgree
<1> HIDE DEF a
<1>8. JumpsAgree' /\ \A j \in jumps' : j.from \in Places /\ j.to \in Places
  <2>1. jumps' \subseteq {Jump(Here(a.height), Here(a.height))}
    BY <1>7 DEF EndFor
  <2>2. QED
    BY <1>4, <2>1, JumpsFrom
<1>9. loop' = Front(loop) /\ loop' \in Seq(LoopType)
  BY <1>4, <1>6, FrontOf DEF EndFor
<1> DEFINE n == Popped(Depth(a)) - Popped(scope_depth)
<1>10. /\ Emit(Operands(3) \o Pops(n), -Popped(Depth(a)), -Popped(Depth(a)))
       /\ locals' = Kept(Depth(a)) /\ scope_depth' = Depth(a) - 1 /\ parse' = Front(parse)
       /\ UNCHANGED <<new_local, is_last_call>> /\ NoPatch
  BY <1>5 DEF EndFor
<1>11. n \in Nat
  <2>1. Popped(scope_depth) = Len(locals) - a.height /\ Len(locals) \in Nat
    BY <1>1, <1>3, <1>4, AfterBlockIs, At DEF Nests, a
  <2>2. Popped(Depth(a)) = Len(locals) - (a.height - 3)
    <3>1. Shape(lv, func, locals) /\ locals \in Seq(LocalType)
      BY <1>1, <1>3, At DEF Types
    <3>2. a.kind \in Nests \ {"script", "sequence"}
      BY <1>4 DEF Nests
    <3>3. /\ Height(a) \in 0 .. Len(locals) /\ Depth(a) \in Int
          /\ \A j \in 1 .. Len(locals) : locals[j].depth < Depth(a) <=> j <= Height(a)
      BY <3>1, <3>2, BlockEnds DEF a
    <3>4. Popped(Depth(a)) = Len(locals) - Height(a)
      BY <3>1, <3>3, PoppedIs
    <3>5. QED
      BY <1>4, <3>4 DEF Height
  <2>3. QED
    BY <1>4, <2>1, <2>2
<1> HIDE DEF n
<1>12. Operands(3) \o Pops(n) \in Seq(Bytes)
  BY <1>11, CodeTyped, ConcatProperties
<1>13. a.kind \in Nests \ {"script", "sequence"}
  BY <1>4 DEF Nests
<1>14. QED
  BY <1>3, <1>6, <1>8, <1>9, <1>10, <1>12, <1>13, LeaveBlockKeeps DEF a

(* The then block ends, and what follows it begins. *)
LEMMA ThenEnds ==
  ASSUME Types, Room, NEW lv, NEW at, Scoped(lv), LoopsOk(lv, at, loop),
         Last(lv).kind = "then", NEW kind \in {"else", "elsif"},
         Emit(Pops(Popped(scope_depth)) \o Operands(3), -Popped(scope_depth), -Popped(scope_depth)),
         locals' = Kept(scope_depth), jumps' = {Jump(Here(Top.height), AfterBlock)}
  PROVE  /\ stack_size' \in Nat /\ SameBut(func, func') /\ Room' /\ Fn'.code # <<>>
         /\ locals' \in Seq(LocalType) /\ new_local = FALSE
         /\ JumpsAgree' /\ \A j \in jumps' : j.from \in Places /\ j.to \in Places
         /\ Fn'.height = Len(locals') /\ Fn.height - Popped(scope_depth) = Len(locals')
         /\ \E w \in Seq(Level) :
              /\ w # <<>> /\ Shape(w, func', locals') /\ Shallow(w, locals')
              /\ Last(w).kind = kind /\ Last(w).depth = scope_depth
              /\ Parsed(w) = Instead(kind, Len(locals'))
              /\ LoopsOk(w, at, loop)
<1> DEFINE a == Last(lv)
           u == Front(lv)
<1>1. /\ a.kind = "then" /\ scope_depth = a.depth /\ Nested(lv) /\ FuncOk(func) /\ a.depth \in Int
  BY At
<1>2. /\ Top.height = a.height /\ AfterBlock = Here(a.height) /\ a.height \in Int
      /\ Popped(scope_depth) \in Nat
  BY <1>1, AfterBlockIs DEF Nests
<1>3. Depth(a) = scope_depth
  BY <1>1 DEF Depth
<1>4. JumpsAgree' /\ \A j \in jumps' : j.from \in Places /\ j.to \in Places
  <2>1. jumps' = {Jump(Here(a.height), Here(a.height))}
    BY <1>2
  <2> HIDE DEF a
  <2>2. QED
    BY <1>1, <1>2, <2>1, JumpsFrom
<1> DEFINE code == Pops(Popped(scope_depth)) \o Operands(3)
<1>5. code \in Seq(Bytes)
  BY <1>2, CodeTyped, ConcatProperties
<1>6. /\ stack_size' \in Nat /\ SameBut(func, func') /\ Room'
      /\ Fn'.height = Height(a) /\ Fn'.code = LastThree(Fn.code \o code)
      /\ Fn.height - Popped(Depth(a)) = Height(a)
      /\ locals' \in Seq(LocalType) /\ Len(locals') = Height(a) /\ new_local = FALSE
      /\ Shape(u, func', locals') /\ Shallow(u, locals')
      /\ Last(u).kind \in Bodies /\ Last(u).depth = Depth(a) - 1
      /\ Front(parse) = Parsed(u) /\ FuncOk(func')
  <2>1. Emit(code, -Popped(Depth(a)), -Popped(Depth(a))) /\ locals' = Kept(Depth(a))
    BY <1>3
  <2>2. a.kind \in Nests \ {"script", "sequence"}
    BY <1>1 DEF Nests
  <2> HIDE DEF code
  <2>3. QED
    BY <1>5, <2>1, <2>2, BlockLeft
<1>7. Fn'.code # <<>>
  <2>1. Operands(3) \in Seq(Bytes) /\ Len(Operands(3)) = 3 /\ Fn.code \in Seq(Bytes)
        /\ Pops(Popped(scope_depth)) \in Seq(Bytes)
    BY <1>1, <1>2, CodeTyped, FnOf
  <2>2. \A s, t \in Seq(Bytes) : Len(t) = 3 => s \o t # <<>>
    OBVIOUS
  <2>3. code # <<>>
    BY <2>1, <2>2
  <2> HIDE DEF code
  <2>4. QED
    BY <1>5, <1>6, <2>1, <2>3, CodeStays
<1>8. LoopsOk(u, at, loop)
  BY <1>1, LoopsLeave DEF Looping
<1>9. PICK b : b = BlockLevel(u, kind, Len(locals'))
  OBVIOUS
<1> DEFINE w == Append(u, b)
<1>10. /\ b \in Level /\ Shape(w, func', locals') /\ Shallow(w, locals') /\ Last(w) = b
       /\ w \in Seq(Level) /\ w # <<>>
       /\ Parsed(w) = Append(Parsed(u), [kind |-> kind, height |-> Len(locals')])
  <2>1. kind \in Nests \ {"script", "for"}
    BY DEF Nests
  <2> HIDE DEF u, a
  <2>2. LET c == BlockLevel(u, kind, Len(locals'))
            v == Append(u, c)
        IN /\ c \in Level /\ Shape(v, func', locals') /\ Shallow(v, locals') /\ Last(v) = c
           /\ v \in Seq(Level) /\ v # <<>>
           /\ Parsed(v) = Append(Parsed(u), [kind |-> kind, height |-> Len(locals')])
    <3>1. /\ locals' \in Seq(LocalType) /\ Shape(u, func', locals') /\ Shallow(u, locals')
          /\ FuncOk(func') /\ Last(u).kind \in Bodies
      BY <1>6
    <3>2. QED
      BY ONLY <2>1, <3>1, BlockLevelIs
  <2>3. QED
    BY <1>9, <2>2
<1>11. b.kind = kind /\ b.depth = scope_depth
  <2>1. b.depth = (a.depth - 1) + 1
    BY <1>1, <1>3, <1>6, <1>9 DEF BlockLevel
  <2>2. QED
    BY <1>1, <1>9, <2>1 DEF BlockLevel
<1>12. Parsed(w) = Instead(kind, Len(locals'))
  BY <1>6, <1>10 DEF Instead
<1>13. LoopsOk(w, at, loop)
  <2>1. Nested(u) /\ b.kind \notin Looping
    BY <1>6, <1>11 DEF Shape, Looping
  <2>2. QED
    BY <1>8, <1>10, <2>1, LoopsEnter
<1> HIDE DEF w
<1>14. QED
  BY <1>3, <1>4, <1>6, <1>7, <1>10, <1>11, <1>12, <1>13

LEMMA ElseKeeps ==
  ASSUME Inv, Else
  PROVE  Inv'
<1>1. Types /\ Room
  BY DEF Inv
<1>2. /\ parse # <<>> /\ Top.kind = "then"
      /\ Emit(Pops(Popped(scope_depth)) \o Operands(3), -Popped(scope_depth), -Popped(scope_depth))
      /\ locals' = Kept(scope_depth) /\ jumps' = {Jump(Here(Top.height), AfterBlock)}
      /\ parse' = Instead("else", Fn.height - Popped(scope_depth)) /\ patched' = {}
      /\ UNCHANGED <<scope_depth, loop, new_local, is_last_call>>
  BY DEF Else, NoPatch
<1>3. PICK lv, at : Scoped(lv) /\ LoopsOk(lv, at, loop)
  BY <1>2, OpenIs DEF Open
<1>4. Last(lv).kind = "then"
  BY <1>1, <1>2, <1>3, At
<1>5. /\ stack_size' \in Nat /\ SameBut(func, func') /\ Room' /\ Fn'.code # <<>>
      /\ locals' \in Seq(LocalType) /\ new_local = FALSE
      /\ JumpsAgree' /\ \A j \in jumps' : j.from \in Places /\ j.to \in Places
      /\ Fn'.height = Len(locals') /\ Fn.height - Popped(scope_depth) = Len(locals')
      /\ \E w \in Seq(Level) :
           /\ w # <<>> /\ Shape(w, func', locals') /\ Shallow(w, locals')
           /\ Last(w).kind = "else" /\ Last(w).depth = scope_depth
           /\ Parsed(w) = Instead("else", Len(locals'))
           /\ LoopsOk(w, at, loop)
  BY <1>1, <1>2, <1>3, <1>4, ThenEnds
<1>6. PICK w \in Seq(Level) :
           /\ w # <<>> /\ Shape(w, func', locals') /\ Shallow(w, locals')
           /\ Last(w).kind = "else" /\ Last(w).depth = scope_depth
           /\ Parsed(w) = Instead("else", Len(locals'))
           /\ LoopsOk(w, at, loop)
  BY <1>5
<1>7. parse' = Parsed(w)
  BY <1>2, <1>5, <1>6
<1>8. TopOk(Last(w), Last(func').height, Len(locals'), FALSE)
  BY <1>5, <1>6, BodyOk DEF Bodies, Blocks, Fn
<1>9. Scoped(w)'
  BY <1>2, <1>5, <1>6, <1>7, <1>8 DEF Scoped, Fn
<1>10. Open'
  BY <1>2, <1>6, <1>9 DEF Open
<1>11. Calls'
  BY <1>5, <1>6, <1>7, CallsOutside DEF Expressions, Fn
<1>12. Types'
  BY <1>1, <1>2, <1>5 DEF Types, SameBut
<1>13. QED
  BY <1>2, <1>5, <1>10, <1>11, <1>12 DEF Inv, ReturnedCall

LEMMA ElsifKeeps ==
  ASSUME Inv, Elsif
  PROVE  Inv'
<1>1. Types /\ Room
  BY DEF Inv
<1> DEFINE m == Len(locals')
<1>2. /\ parse # <<>> /\ Top.kind = "then"
      /\ Emit(Pops(Popped(scope_depth)) \o Operands(3), -Popped(scope_depth), -Popped(scope_depth))
      /\ locals' = Kept(scope_depth) /\ jumps' = {Jump(Here(Top.height), AfterBlock)}
      /\ parse' = Instead("elsif", Fn.height - Popped(scope_depth))
                    \o <<[kind |-> "if", height |-> Fn.height - Popped(scope_depth)]>>
      /\ patched' = {} /\ is_last_call' = FALSE
      /\ UNCHANGED <<scope_depth, loop, new_local>>
  BY DEF Elsif, NoPatch
<1>3. PICK lv, at : Scoped(lv) /\ LoopsOk(lv, at, loop)
  BY <1>2, OpenIs DEF Open
<1>4. Last(lv).kind = "then"
  BY <1>1, <1>2, <1>3, At
<1>5. /\ stack_size' \in Nat /\ SameBut(func, func') /\ Room' /\ Fn'.code # <<>>
      /\ locals' \in Seq(LocalType) /\ new_local = FALSE
      /\ JumpsAgree' /\ \A j \in jumps' : j.from \in Places /\ j.to \in Places
      /\ Fn'.height = m /\ Fn.height - Popped(scope_depth) = m
      /\ \E w \in Seq(Level) :
           /\ w # <<>> /\ Shape(w, func', locals') /\ Shallow(w, locals')
           /\ Last(w).kind = "elsif" /\ Last(w).depth = scope_depth
           /\ Parsed(w) = Instead("elsif", m)
           /\ LoopsOk(w, at, loop)
  BY <1>1, <1>2, <1>3, <1>4, ThenEnds
<1>6. PICK w \in Seq(Level) :
           /\ w # <<>> /\ Shape(w, func', locals') /\ Shallow(w, locals')
           /\ Last(w).kind = "elsif" /\ Last(w).depth = scope_depth
           /\ Parsed(w) = Instead("elsif", m)
           /\ LoopsOk(w, at, loop)
  BY <1>5
<1>7. PICK a : a = [kind |-> "if", height |-> m, depth |-> Last(w).depth, fn |-> Last(w).fn, own |-> m]
  OBVIOUS
<1> DEFINE v == Append(w, a)
<1>8. /\ Last(w).depth \in Int /\ Last(w).fn \in Nat /\ LevelOk(Last(w)) /\ Nested(w)
      /\ Parsed(w) \in Seq(Entry) /\ m \in Nat
  <2>1. Nested(w)
    BY <1>6 DEF Shape
  <2>2. m \in Nat
    BY <1>5
  <2>3. QED
    BY <1>6, <2>1, <2>2, LevelsOf, ParsedIs
<1> HIDE DEF m
<1>9. a \in Level /\ LevelOk(a) /\ Under(Last(w), a)
  <2>1. Last(w).depth + 0 = Last(w).depth
    BY <1>8
  <2>2. a.kind = "if" /\ a.kind \notin Opening /\ Scopes(a.kind) = 0 /\ Last(w).kind \notin Expressions
    BY <1>6, <1>7 DEF Opening, Scopes, Expressions
  <2>3. Under(Last(w), a)
    BY <1>6, <1>7, <2>1, <2>2 DEF Under
  <2>4. a \in Level
    BY <1>7, <1>8 DEF Level, Kinds, Expressions
  <2>5. LevelOk(a)
    BY <1>7, <1>8 DEF LevelOk
  <2>6. QED
    BY <2>3, <2>4, <2>5
<1>10. /\ Shape(v, func', locals') /\ Shallow(v, locals')
       /\ Last(v) = a /\ v \in Seq(Level)
       /\ Parsed(v) = Append(Parsed(w), [kind |-> "if", height |-> m])
  <2>1. a.kind \in Expressions \ {"sequence"} /\ FuncOk(func')
    BY <1>5, <1>7 DEF Expressions, SameBut
  <2>2. Shape(v, func', locals') /\ Shallow(v, locals')
    BY <1>5, <1>6, <1>9, <2>1, EnterExpression
  <2>3. Last(v) = a /\ v \in Seq(Level)
    BY <1>6, <1>9, Appended
  <2>4. Parsed(v) = Append(Parsed(w), [kind |-> a.kind, height |-> a.height])
    BY <1>6, <1>9, ParsedEnter
  <2>5. QED
    BY <1>7, <2>2, <2>3, <2>4
<1>11. parse' = Parsed(v)
  <2>1. parse' = Parsed(w) \o <<[kind |-> "if", height |-> m]>>
    BY <1>2, <1>5, <1>6
  <2>2. [kind |-> "if", height |-> m] \in Entry
    BY <1>8 DEF Entry, Kinds, Expressions
  <2>3. QED
    BY <1>8, <1>10, <2>1, <2>2
<1>12. LoopsOk(v, at, loop)
  <2>1. a.kind \notin Looping
    BY <1>7 DEF Looping
  <2>2. QED
    BY <1>6, <1>8, <1>9, <2>1, LoopsEnter
<1> HIDE DEF v
<1>13. TopOk(a, m, m, FALSE)
  <2>1. m >= m
    BY <1>8
  <2>2. QED
    BY <1>7, <2>1 DEF TopOk, Bodies, Blocks
<1>14. Scoped(v)'
  <2>1. scope_depth' = Last(v).depth
    BY <1>2, <1>6, <1>7, <1>10
  <2>2. TopOk(Last(v), Last(func').height, Len(locals'), new_local')
    BY <1>2, <1>5, <1>10, <1>13 DEF Fn, m
  <2>3. QED
    BY <1>10, <1>11, <2>1, <2>2 DEF Scoped, Fn
<1>15. Open'
  BY <1>2, <1>12, <1>14 DEF Open
<1>16. Types'
  BY <1>1, <1>2, <1>5 DEF Types, SameBut
<1>17. QED
  BY <1>2, <1>5, <1>15, <1>16 DEF Inv, ReturnedCall, Calls

-----------------------------------------------------------------------------
(* A local is added, at the depth of the innermost level. *)
LEMMA AppendTwo ==
  \A s \in Seq(LocalType) : \A x, y \in LocalType : s \o <<x, y>> = Append(Append(s, x), y)
OBVIOUS

LEMMA LocalAdded ==
  ASSUME NEW lv, NEW f, NEW loc \in Seq(LocalType), Shape(lv, f, loc), Shallow(lv, loc), FuncOk(f),
         NEW l \in LocalType, l.slot = Len(loc), l.depth = Last(lv).depth
  PROVE  /\ Shape(lv, f, Append(loc, l)) /\ Shallow(lv, Append(loc, l))
         /\ Append(loc, l) \in Seq(LocalType) /\ Len(Append(loc, l)) = Len(loc) + 1
<1> DEFINE more == Append(loc, l)
<1>1. Shape(lv, f, more)
  BY ShapeLocal
<1>2. /\ more \in Seq(LocalType) /\ Len(more) = Len(loc) + 1 /\ Len(loc) \in Nat
      /\ more[Len(loc) + 1] = l /\ \A j \in 1 .. Len(loc) : more[j] = loc[j]
  BY Appended
<1> HIDE DEF more
<1>3. \A j \in 1 .. Len(loc) + 1 : j \in 1 .. Len(loc) \/ j = Len(loc) + 1
  BY <1>2
<1>4. Shallow(lv, more)
  <2>1. \A j \in 1 .. Len(loc) : more[j].depth <= Last(lv).depth
    BY <1>2 DEF Shallow
  <2>2. l.depth <= Last(lv).depth
    BY DEF LocalType
  <2>3. QED
    BY <1>2, <1>3, <2>1, <2>2 DEF Shallow
<1>5. QED
  BY <1>1, <1>2, <1>4 DEF more

LEMMA ForKeeps ==
  ASSUME Inv, For
  PROVE  Inv'
<1>1. Types /\ Room
  BY DEF Inv
<1>2. /\ parse # <<>> /\ Top.kind \in Bodies /\ is_last_call' = FALSE
      /\ scope_depth' = scope_depth + 1
      /\ locals' = Append(locals, Local(scope_depth + 1, Fn.height))
      /\ parse' = Enter("sequence", Fn.height) /\ jumps' = {} /\ patched' = {}
      /\ UNCHANGED <<stack_size, func, loop, new_local>>
  BY DEF For, AtStatement, Bodies, NoJump, NoPatch
<1>3. PICK lv, at : Scoped(lv) /\ LoopsOk(lv, at, loop)
  BY <1>2, OpenIs DEF Open
<1>4. /\ Last(lv).kind \in Bodies /\ Fn.height = Len(locals) /\ new_local = FALSE
  BY <1>1, <1>2, <1>3, AtStatementIs
<1>5. /\ Shape(lv, func, locals) /\ Shallow(lv, locals) /\ FuncOk(func) /\ Len(locals) \in Nat
      /\ Last(lv).depth \in Int /\ scope_depth = Last(lv).depth /\ locals \in Seq(LocalType)
      /\ Nested(lv) /\ scope_depth >= DEPTH_GLOBAL
  BY <1>1, <1>3, At DEF Types
<1>6. PICK a : a = BlockLevel(lv, "sequence", Len(locals))
  OBVIOUS
<1> DEFINE w == Append(lv, a)
           l == Local(scope_depth + 1, Fn.height)
<1>7. /\ a \in Level /\ Shape(w, func, locals) /\ Shallow(w, locals)
      /\ w \in Seq(Level) /\ w # <<>> /\ Last(w) = a
      /\ Parsed(w) = Append(Parsed(lv), [kind |-> "sequence", height |-> Len(locals)])
  <2>1. "sequence" \in Nests \ {"script", "for"}
    BY DEF Nests
  <2>2. LET c == BlockLevel(lv, "sequence", Len(locals))
            v == Append(lv, c)
        IN /\ c \in Level /\ Shape(v, func, locals) /\ Shallow(v, locals)
           /\ v \in Seq(Level) /\ v # <<>> /\ Last(v) = c
           /\ Parsed(v) = Append(Parsed(lv), [kind |-> "sequence", height |-> Len(locals)])
    BY ONLY <1>4, <1>5, <2>1, BlockLevelIs
  <2>3. QED
    BY <1>6, <2>2
<1>8. /\ a.kind = "sequence" /\ a.height = Len(locals) /\ a.own = Len(locals) + 1
      /\ a.depth = scope_depth + 1
  BY <1>5, <1>6 DEF BlockLevel
<1>9. LoopsOk(w, at, loop)
  BY <1>3, <1>5, <1>7, <1>8, LoopsEnter DEF Looping
<1> HIDE DEF w
<1>10. l \in LocalType /\ l.slot = Len(locals) /\ l.depth = Last(w).depth
  BY <1>4, <1>5, <1>7, <1>8 DEF Local, LocalType, DEPTH_GLOBAL
<1> HIDE DEF l
<1>11. /\ Shape(w, func, locals') /\ Shallow(w, locals')
       /\ locals' \in Seq(LocalType) /\ Len(locals') = Len(locals) + 1
  <2>1. locals' = Append(locals, l)
    BY <1>2 DEF l
  <2>2. QED
    BY <1>5, <1>7, <1>10, <2>1, LocalAdded
<1>12. parse' = Parsed(w)
  BY <1>2, <1>3, <1>4, <1>7 DEF Enter, Scoped
<1>13. TopOk(a, Fn.height, Len(locals'), FALSE)
  <2>1. Fn.height >= a.height
    BY <1>4, <1>5, <1>8
  <2>2. QED
    BY <1>8, <1>11, <2>1 DEF TopOk, Bodies, Blocks
<1>14. Scoped(w)'
  BY <1>2, <1>4, <1>7, <1>8, <1>11, <1>12, <1>13 DEF Scoped, Fn
<1>15. Open'
  BY <1>2, <1>9, <1>14 DEF Open
<1>16. Types'
  <2>1. scope_depth' \in Int /\ scope_depth' >= DEPTH_GLOBAL
    BY <1>2, <1>5 DEF DEPTH_GLOBAL
  <2>2. QED
    BY <1>1, <1>2, <1>11, <2>1 DEF Types
<1>17. QED
  BY <1>1, <1>2, <1>15, <1>16 DEF Inv, JumpsAgree, ReturnedCall, Calls, Room

LEMMA IterateKeeps ==
  ASSUME Inv, Iterate
  PROVE  Inv'
<1>1. Types /\ Room
  BY DEF Inv
<1> DEFINE x == Local(scope_depth, Fn.height)
           y == Local(scope_depth, Fn.height + 1)
           l == NewLoop(Fn.height + 2)
<1>2. /\ parse # <<>> /\ Top.kind = "sequence" /\ Fn.height = Top.height + 1
      /\ Emit(Operands(3), 2, 2)
      /\ locals' = locals \o <<x, y>>
      /\ loop' = Append(loop, l)
      /\ parse' = Instead("for", Fn.height + 2)
      /\ scope_depth' = scope_depth + 1 /\ jumps' = {} /\ patched' = {}
      /\ UNCHANGED <<new_local, is_last_call>>
  BY DEF Iterate, Complete, NoJump, NoPatch
<1>3. PICK lv, at : Scoped(lv) /\ LoopsOk(lv, at, loop)
  BY <1>2, OpenIs DEF Open
<1> DEFINE top == Last(lv)
           u == Front(lv)
           h == top.height
<1>4. /\ top.kind = "sequence" /\ h \in Nat /\ top.depth \in Int /\ scope_depth = top.depth
      /\ LevelOk(top) /\ Shape(lv, func, locals) /\ Shallow(lv, locals) /\ FuncOk(func)
      /\ Fn.height = h + 1 /\ TopOk(top, Fn.height, Len(locals), new_local) /\ Nested(lv)
      /\ locals \in Seq(LocalType) /\ loop \in Seq(LoopType) /\ stack_size \in Nat
      /\ Fn.height \in Nat /\ top.fn = Len(func) /\ Len(func) \in Nat \ {0}
  BY <1>1, <1>2, <1>3, At DEF Types
<1>5. new_local = FALSE
  BY <1>1, <1>4 DEF TopOk, Types
<1>6. Len(locals) = h + 1
  BY <1>4, <1>5 DEF TopOk, LevelOk, Expressions
<1>7. /\ Last(u).kind \in Bodies /\ Last(u).fn = top.fn /\ Last(u).depth \in Int
      /\ top.depth = Last(u).depth + 1 /\ Front(parse) = Parsed(u) /\ u \in Seq(Level) /\ u # <<>>
      /\ Shape(u, func, locals)
  BY <1>1, <1>3, <1>4, BodyBelow
<1>8. Nested(u) /\ LevelOk(Last(u))
  <2>1. Nested(u)
    BY <1>7 DEF Shape
  <2>2. QED
    BY <2>1, LevelsOf
<1>9. top.depth \in Nat
  BY <1>7, <1>8 DEF LevelOk, DEPTH_GLOBAL
<1>10. /\ x \in LocalType /\ x.slot = Len(locals) /\ x.depth = top.depth
       /\ y \in LocalType /\ y.slot = Len(locals) + 1 /\ y.depth = top.depth
  BY <1>4, <1>6, <1>9 DEF Local, LocalType
<1>11. l \in LoopType /\ l.depth = scope_depth /\ l.start = [fn |-> Len(func), height |-> h + 3]
       /\ l.patches = {}
  <2>1. l = [depth |-> scope_depth, start |-> [fn |-> Len(func), height |-> Fn.height + 2], patches |-> {}]
    BY DEF NewLoop, Here
  <2>2. Fn.height + 2 = h + 3
    BY <1>4
  <2>3. [fn |-> Len(func), height |-> h + 3] \in Places /\ scope_depth \in Int
    BY <1>4 DEF Places
  <2> HIDE DEF l
  <2>4. QED
    BY <2>1, <2>2, <2>3 DEF LoopType
<1> HIDE DEF top, h, x, y, l
<1>12. /\ stack_size' \in Nat /\ SameBut(func, func') /\ Room' /\ Fn'.height = Fn.height + 2
       /\ Fn'.code = LastThree(Fn.code \o Operands(3))
  <2>1. Operands(3) \in Seq(Bytes) /\ 2 \in Int /\ 2 <= 2 /\ Fn.height + 2 >= 0
    BY <1>4, CodeTyped
  <2>2. QED
    BY <1>1, <1>2, <1>4, <2>1, EmitOk
<1>13. Fn'.code # <<>> /\ FuncOk(func')
  <2>1. Operands(3) \in Seq(Bytes) /\ Len(Operands(3)) = 3 /\ Fn.code \in Seq(Bytes)
    BY <1>4, CodeTyped, FnOf
  <2>2. \A t \in Seq(Bytes) : Len(t) = 3 => t # <<>>
    BY ThreeAreSome, Zenon
  <2>3. QED
    BY <1>12, <2>1, <2>2, CodeStays DEF SameBut
<1>14. Shape(lv, func', locals)
  BY <1>4, <1>12, ShapeEmit
<1> DEFINE one == Append(locals, x)
<1>15. Shape(lv, func', one) /\ Shallow(lv, one) /\ one \in Seq(LocalType) /\ Len(one) = Len(locals) + 1
  BY <1>4, <1>10, <1>13, <1>14, LocalAdded DEF top
<1>16. locals' = Append(one, y)
  <2>1. locals \o <<x, y>> = Append(Append(locals, x), y)
    BY <1>4, <1>10, AppendTwo, Zenon
  <2>2. QED
    BY <1>2, <2>1, Zenon
<1> HIDE DEF one
<1>17. /\ Shape(lv, func', locals') /\ Shallow(lv, locals') /\ locals' \in Seq(LocalType)
       /\ Len(locals') = h + 3
  <2>1. /\ Shape(lv, func', locals') /\ Shallow(lv, locals') /\ locals' \in Seq(LocalType)
        /\ Len(locals') = Len(one) + 1
    BY <1>10, <1>13, <1>15, <1>16, LocalAdded DEF top
  <2>2. (h + 1) + 1 + 1 = h + 3
    BY <1>4
  <2>3. QED
    BY <1>6, <1>15, <2>1, <2>2
<1>18. PICK a : a = [kind |-> "for", height |-> h + 3, depth |-> top.depth + 1, fn |-> top.fn, own |-> 0]
  OBVIOUS
<1> DEFINE w == Append(u, a)
<1>19. a \in Level /\ LevelOk(a) /\ Under(Last(u), a)
  <2>1. h + 3 \in Nat /\ h + 3 >= 3 /\ top.depth + 1 \in Int /\ top.depth + 1 >= DEPTH_GLOBAL
        /\ top.fn \in Nat /\ top.fn >= 1 /\ top.depth + 1 = Last(u).depth + 2
    BY <1>4, <1>7, <1>9 DEF DEPTH_GLOBAL
  <2>2. a \in Level
    BY <1>18, <2>1 DEF Level, Kinds, Blocks
  <2>3. LevelOk(a)
    BY <1>18, <2>1 DEF LevelOk
  <2>4. Last(u).kind \notin Expressions /\ Last(u).kind # "class"
    BY <1>7 DEF Bodies, Blocks, Expressions
  <2>5. a.kind = "for" /\ a.kind \notin Opening /\ Scopes(a.kind) = 2
    BY <1>18 DEF Opening, Scopes
  <2>6. Under(Last(u), a)
    BY <1>7, <1>18, <2>1, <2>4, <2>5 DEF Under
  <2>7. QED
    BY <2>2, <2>3, <2>6
<1>20. Shape(u, func', locals')
  BY <1>4, <1>17, LeaveExpression DEF top, Expressions
<1>21. \A j \in 1 .. Len(locals') :
         /\ locals'[j].depth < a.depth /\ j <= a.height /\ locals'[j].depth <= a.depth
         /\ locals'[j].depth < a.depth - 1 <=> j <= a.height - 3
  <2>1. TAKE j \in 1 .. Len(locals')
  <2>2. locals'[j].depth \in Nat
    BY <1>17, LocalOf
  <2>3. locals'[j].depth <= top.depth
    BY <1>17 DEF Shallow, top
  <2>4. locals'[j].depth < top.depth <=> j <= h
    <3>1. Len(lv) \in 1 .. Len(lv) /\ lv[Len(lv)] = top
      BY <1>4, LevelsOf DEF top
    <3>2. top.fn = Len(func')
      BY <1>4, <1>12 DEF SameBut
    <3>3. QED
      BY <1>4, <1>17, <3>1, <3>2 DEF Shape, Slots, Nests, h
  <2>5. a.depth = top.depth + 1 /\ a.height = h + 3 /\ top.depth \in Int /\ h \in Nat
    BY <1>4, <1>18
  <2>6. j <= h + 3 /\ (h + 3) - 3 = h /\ (top.depth + 1) - 1 = top.depth
    BY <1>17, <2>5
  <2>7. QED
    BY <2>2, <2>3, <2>4, <2>5, <2>6
<1>22. /\ Shape(w, func', locals') /\ Last(w) = a /\ w \in Seq(Level)
       /\ Parsed(w) = Append(Parsed(u), [kind |-> "for", height |-> h + 3])
  <2>1. a.kind \notin Opening /\ a.height <= Len(locals')
    <3>1. h + 3 <= h + 3
      BY <1>4
    <3>2. QED
      BY <1>17, <1>18, <3>1 DEF Opening
  <2>2. func'[Len(func')].depth \in Int
    BY <1>13, InnermostOf
  <2>3. \A j \in 1 .. Len(locals') :
          /\ a.kind \in Nests => (locals'[j].depth < a.depth <=> j <= a.height)
          /\ a.kind = "for" => (locals'[j].depth < a.depth - 1 <=> j <= a.height - 3)
    BY <1>21
  <2>4. Shape(w, func', locals')
    BY <1>17, <1>19, <1>20, <2>1, <2>2, <2>3, ShapePush
  <2>5. Last(w) = a /\ w \in Seq(Level)
    BY <1>7, <1>19, Appended
  <2>6. Parsed(w) = Append(Parsed(u), [kind |-> a.kind, height |-> a.height])
    BY <1>7, <1>19, ParsedEnter
  <2>7. QED
    BY <1>18, <2>4, <2>5, <2>6
<1>23. LoopsOk(w, Append(at, Len(u) + 1), loop')
  <2>1. LoopsOk(u, at, loop)
    BY <1>3, <1>4, LoopsLeave DEF Looping, top
  <2>2. a.kind \in Looping
    BY <1>18 DEF Looping
  <2>3. LoopOk(a, l)
    <3>1. (top.depth + 1) - 1 = scope_depth
      BY <1>4
    <3>2. QED
      BY <1>4, <1>11, <1>18, <3>1 DEF LoopOk
  <2>4. QED
    BY <1>2, <1>4, <1>8, <1>11, <1>19, <2>1, <2>2, <2>3, LoopsBegin
<1>24. Shallow(w, locals')
  BY <1>21, <1>22 DEF Shallow
<1>25. parse' = Parsed(w)
  <2>1. Fn.height + 2 = h + 3
    BY <1>4
  <2>2. QED
    BY <1>2, <1>7, <1>22, <2>1 DEF Instead
<1> HIDE DEF w
<1>26. Scoped(w)'
  <2>1. scope_depth' = Last(w).depth
    BY <1>2, <1>4, <1>18, <1>22
  <2>2. TopOk(a, Last(func').height, Len(locals'), FALSE)
    <3>1. Last(func').height = Len(locals')
      BY <1>4, <1>12, <1>17 DEF Fn
    <3>2. QED
      BY <1>18, <3>1, BodyOk DEF Bodies, Blocks
  <2>3. QED
    BY <1>2, <1>5, <1>22, <1>24, <1>25, <2>1, <2>2 DEF Scoped, Fn
<1>27. Open'
  BY <1>23, <1>26 DEF Open
<1>28. Types'
  <2>1. loop' \in Seq(LoopType)
    BY <1>2, <1>4, <1>11, Appended
  <2>2. scope_depth' \in Int /\ scope_depth' >= DEPTH_GLOBAL
    BY <1>2, <1>4, <1>9 DEF DEPTH_GLOBAL
  <2>3. QED
    BY <1>1, <1>2, <1>12, <1>13, <1>17, <2>1, <2>2 DEF Types
<1>29. Calls'
  <2>1. w # <<>> /\ Last(w).kind \notin Expressions
    BY <1>7, <1>18, <1>19, <1>22, Appended DEF Expressions, w
  <2>2. QED
    BY <1>13, <1>22, <1>25, <2>1, CallsOutside DEF Fn
<1>30. QED
  BY <1>2, <1>12, <1>27, <1>28, <1>29 DEF Inv, JumpsAgree, ReturnedCall

-----------------------------------------------------------------------------
(* Code is emitted that the compiler does not count. *)
LEMMA UncountedOk ==
  ASSUME stack_size \in Nat, FuncOk(func), Room, NEW code \in Seq(Bytes), NEW counted \in Nat,
         stack_size' = stack_size, func' = Front(func) \o <<Emitting(Fn, code, counted, 0)>>
  PROVE  /\ SameBut(func, func') /\ Room' /\ Fn'.height = Fn.height
         /\ Fn'.code = LastThree(Fn.code \o code)
<1> DEFINE g == Emitting(Fn, code, counted, 0)
<1>1. Fn \in FuncType /\ Fn.height \in Nat /\ Fn.size \in Nat /\ Len(func) \in Nat \ {0}
  BY FnOf
<1>2. /\ g \in FuncType /\ g.depth = Fn.depth /\ g.height = Fn.height + 0
      /\ g.size >= Fn.size /\ g.code = LastThree(Fn.code \o code) /\ Len(g.code) <= 3
  <2>1. counted \in Int /\ 0 \in Int /\ Fn.height + 0 >= 0
    BY <1>1
  <2>2. QED
    BY <1>1, <2>1, EmittingIs
<1>3. func' = Front(func) \o <<g>>
  OBVIOUS
<1> HIDE DEF g
<1>4. SameBut(func, func') /\ Last(func') = g
  BY <1>2, <1>3, FnReplaced DEF Fn
<1>5. PICK base : RoomOk(base, func, stack_size)
  BY DEF Room
<1>6. Fn.height <= Fn.size
  <2>1. Len(func) \in 1 .. Len(func)
    BY <1>1
  <2>2. QED
    BY <1>5, <2>1 DEF RoomOk, Fn, Last
<1>7. g.height = Fn.height /\ g.height <= g.size
  <2>1. g.size \in Nat
    BY <1>2 DEF FuncType
  <2>2. QED
    BY <1>1, <1>2, <1>6, <2>1
<1>8. RoomOk(base, func', stack_size + 0)
  <2>1. 0 \in Int /\ 0 <= 0 /\ Last(func').height = Last(func).height + 0
    BY <1>2, <1>4 DEF Fn
  <2>2. Last(func').height <= Last(func').size
    BY <1>4, <1>7
  <2>3. QED
    BY <1>4, <1>5, <2>1, <2>2, RoomEmitted
<1>9. stack_size + 0 = stack_size'
  OBVIOUS
<1>10. QED
  BY <1>2, <1>4, <1>7, <1>8, <1>9 DEF Room, Fn

(* The innermost loop of a careful program is one of the function's own, and *)
(* its body is around the statement.                                         *)
LEMMA InLoopIs ==
  ASSUME Types, Careless = {}, NEW lv, NEW at, Scoped(lv), LoopsOk(lv, at, loop),
         Top.kind \in Bodies, InLoop
  PROVE  /\ loop \in Seq(LoopType) /\ loop # <<>> /\ Len(loop) \in 1 .. Len(loop)
         /\ Loop = loop[Len(loop)] /\ Loop \in LoopType
         /\ LET b == lv[at[Len(loop)]] IN
            /\ LoopOk(b, Loop) /\ b.kind # "condition" /\ b.height \in Nat
            /\ Loop.start = Here(b.height)
            /\ LeaveBody \in Nat /\ Fn.height - LeaveBody = b.height
<1> DEFINE k == at[Len(loop)]
           b == lv[k]
           m == Len(locals)
<1>1. loop \in Seq(LoopType) /\ loop # <<>> /\ Loop.start.fn = Len(func) /\ locals \in Seq(LocalType)
  BY DEF Types, InLoop
<1>2. Len(loop) \in 1 .. Len(loop) /\ Loop \in LoopType /\ Loop = loop[Len(loop)]
  <2>1. Len(loop) \in Nat \ {0} /\ Last(loop) \in LoopType
    BY <1>1, LastOf
  <2>2. QED
    BY <2>1 DEF Loop, Last
<1>3. k \in 1 .. Len(lv) /\ b.kind \in Looping /\ LoopOk(b, Loop)
  BY <1>2 DEF LoopsOk
<1>4. /\ Nested(lv) /\ Shape(lv, func, locals) /\ Last(lv).fn = Len(func) /\ m \in Nat
      /\ Fn.height \in Nat
  BY At
<1>5. Last(lv).kind \in Bodies /\ Fn.height = m
  BY AtStatementIs
<1>6. b.height \in Nat /\ b.depth \in Int
  BY <1>3, <1>4, LevelsOf
<1>7. b.fn = Len(func)
  BY <1>1, <1>3 DEF LoopOk
<1>8. b.kind # "condition"
  <2>1. b.kind \in Expressions => Last(lv).kind \in Expressions
    BY <1>3, <1>4, <1>7, LevelsBelow
  <2>2. QED
    BY <1>5, <2>1 DEF Bodies, Blocks, Expressions
<1>9. b.kind \in Nests
  BY <1>3, <1>8 DEF Looping, Nests
<1> HIDE DEF k
<1>10. b.height <= m
  BY <1>3, <1>4, <1>7, <1>9 DEF Shape, Heights
<1>11. \A j \in 1 .. m : locals[j].depth < b.depth <=> j <= b.height
  BY <1>3, <1>4, <1>7, <1>9 DEF Shape, Slots
<1>12. Loop.depth + 1 = b.depth
  BY <1>3, <1>6, <1>8 DEF LoopOk
<1>13. Popped(b.depth) = m - b.height
  <2>1. b.height \in 0 .. m
    BY <1>4, <1>6, <1>10
  <2>2. QED
    BY <1>1, <1>6, <1>11, <2>1, PoppedIs
<1>14. LeaveBody = m - b.height
  BY <1>12, <1>13 DEF LeaveBody
<1>15. LeaveBody \in Nat /\ Fn.height - LeaveBody = b.height
  BY <1>4, <1>5, <1>6, <1>10, <1>14
<1>16. Loop.start = Here(b.height)
  BY <1>3, <1>7 DEF LoopOk, Here
<1>17. QED
  BY <1>1, <1>2, <1>3, <1>6, <1>8, <1>15, <1>16 DEF k

(* Leaving the loop, or for its start, changes nothing but the code. *)
LEMMA LeapKeeps ==
  ASSUME Inv, NEW lv, NEW at, Scoped(lv), LoopsOk(lv, at, loop), Top.kind \in Bodies,
         Leap(Operands(3)), LeaveBody \in Nat, is_last_call' = FALSE, patched' = {},
         UNCHANGED <<parse, scope_depth, locals, stack_size, new_local>>,
         JumpsAgree', \A j \in jumps' : j.from \in Places /\ j.to \in Places,
         LoopsOk(lv, at, loop'), loop' \in Seq(LoopType)
  PROVE  Inv'
<1>1. Types /\ Room /\ stack_size \in Nat /\ FuncOk(func)
  BY DEF Inv, Types
<1>2. Pops(LeaveBody) \o Operands(3) \in Seq(Bytes)
  BY CodeTyped, ConcatProperties
<1>3. SameBut(func, func') /\ Room' /\ Fn'.height = Fn.height
  <2>1. func' = Front(func) \o <<Emitting(Fn, Pops(LeaveBody) \o Operands(3), 0, 0)>>
    BY DEF Leap
  <2>2. 0 \in Nat
    OBVIOUS
  <2>3. QED
    BY <1>1, <1>2, <2>1, <2>2, UncountedOk
<1>4. Shape(lv, func', locals)
  BY <1>1, <1>3, At, ShapeEmit
<1>5. Scoped(lv)'
  BY <1>3, <1>4 DEF Scoped, Fn
<1>6. Open'
  BY <1>5 DEF Open
<1>7. Types'
  BY <1>1, <1>3 DEF Types, SameBut
<1>8. QED
  BY <1>3, <1>6, <1>7 DEF Inv, ReturnedCall, Calls

LEMMA BreakKeeps ==
  ASSUME Inv, Careless = {}, Break
  PROVE  Inv'
<1>1. Types
  BY DEF Inv
<1>2. /\ parse # <<>> /\ Top.kind \in Bodies /\ is_last_call' = FALSE /\ InLoop
      /\ Leap(Operands(3)) /\ jumps' = {} /\ patched' = {}
      /\ loop' = Front(loop) \o <<[Loop EXCEPT !.patches = @ \cup {Here(Fn.height - LeaveBody)}]>>
      /\ UNCHANGED <<parse, scope_depth, locals, stack_size, new_local>>
  BY DEF Break, AtStatement, Bodies, NoJump, NoPatch
<1>3. PICK lv, at : Scoped(lv) /\ LoopsOk(lv, at, loop)
  BY <1>2, OpenIs DEF Open
<1> DEFINE b == lv[at[Len(loop)]]
<1>4. /\ loop \in Seq(LoopType) /\ loop # <<>> /\ Loop \in LoopType
      /\ LoopOk(b, Loop) /\ b.kind # "condition" /\ Loop.start = Here(b.height)
      /\ LeaveBody \in Nat /\ Fn.height - LeaveBody = b.height
  BY <1>1, <1>2, <1>3, InLoopIs
<1> HIDE DEF b
<1>5. PICK l : l = [Loop EXCEPT !.patches = @ \cup {Loop.start}]
  OBVIOUS
<1>6. l \in LoopType /\ LoopOk(b, l)
  <2>1. l = [depth |-> Loop.depth, start |-> Loop.start, patches |-> Loop.patches \cup {Loop.start}]
    BY <1>4, <1>5 DEF LoopType
  <2>2. Loop.depth \in Int /\ Loop.start \in Places /\ Loop.patches \in SUBSET Places
    BY <1>4 DEF LoopType
  <2>3. l \in LoopType
    BY <2>1, <2>2 DEF LoopType
  <2>4. LoopOk(b, l)
    BY <1>4, <2>1 DEF LoopOk
  <2>5. QED
    BY <2>3, <2>4
<1>7. loop' = Front(loop) \o <<l>>
  BY <1>2, <1>4, <1>5
<1>8. LoopsOk(lv, at, loop')
  BY <1>3, <1>4, <1>6, <1>7, LoopsChange DEF b
<1>9. loop' \in Seq(LoopType)
  BY <1>4, <1>6, <1>7, Replaced
<1>10. JumpsAgree' /\ \A j \in jumps' : j.from \in Places /\ j.to \in Places
  BY <1>2 DEF JumpsAgree
<1>11. QED
  BY <1>2, <1>3, <1>4, <1>8, <1>9, <1>10, LeapKeeps

LEMMA ContinueKeeps ==
  ASSUME Inv, Careless = {}, Continue
  PROVE  Inv'
<1>1. Types /\ FuncOk(func) /\ loop \in Seq(LoopType)
  BY DEF Inv, Types
<1>2. /\ parse # <<>> /\ Top.kind \in Bodies /\ is_last_call' = FALSE /\ InLoop
      /\ Leap(Operands(3)) /\ patched' = {}
      /\ jumps' = {Jump(Here(Fn.height - LeaveBody), Loop.start)}
      /\ UNCHANGED <<parse, scope_depth, locals, stack_size, new_local>> /\ loop' = loop
  BY DEF Continue, AtStatement, Bodies, NoPatch
<1>3. PICK lv, at : Scoped(lv) /\ LoopsOk(lv, at, loop)
  BY <1>2, OpenIs DEF Open
<1> DEFINE h == lv[at[Len(loop)]].height
<1>4. /\ Loop.start = Here(h) /\ LeaveBody \in Nat /\ Fn.height - LeaveBody = h /\ h \in Nat
  BY <1>1, <1>2, <1>3, InLoopIs
<1> HIDE DEF h
<1>5. JumpsAgree' /\ \A j \in jumps' : j.from \in Places /\ j.to \in Places
  <2>1. jumps' \subseteq {Jump(Here(h), Here(h))} /\ h \in Int
    BY <1>2, <1>4
  <2>2. QED
    BY <1>1, <2>1, JumpsFrom
<1>6. QED
  BY <1>1, <1>2, <1>3, <1>4, <1>5, LeapKeeps

LEMMA ImportKeeps ==
  ASSUME Inv, NEW names \in 0 .. 1, Import(names)
  PROVE  Inv'
<1>1. Types /\ Room /\ stack_size \in Nat /\ FuncOk(func)
  BY DEF Inv, Types
<1> DEFINE f == Emitting(Fn, <<>>, 1 + names, 0)
<1>2. /\ parse # <<>> /\ is_last_call' = FALSE /\ jumps' = {} /\ patched' = {}
      /\ func' = Front(func) \o <<Emitting(f, <<"POP">>, 0, 0)>>
      /\ UNCHANGED <<parse, scope_depth, locals, stack_size, loop, new_local>>
  BY DEF Import, AtTopLevel, AtStatement, NoJump, NoPatch
<1>3. Fn \in FuncType /\ Fn.height \in Nat /\ Fn.size \in Nat /\ Len(func) \in Nat \ {0}
  BY <1>1, FnOf
<1>4. <<"POP">> \in Seq(Bytes) /\ <<>> \in Seq(Bytes)
  BY CodeTyped
<1>5. f \in FuncType /\ f.depth = Fn.depth /\ f.height = Fn.height /\ f.size >= Fn.size
  <2>1. 1 + names \in Int /\ 0 \in Int /\ Fn.height + 0 >= 0 /\ Fn.height + 0 = Fn.height
    BY <1>3
  <2>2. f \in FuncType /\ f.depth = Fn.depth /\ f.height = Fn.height + 0 /\ f.size >= Fn.size
    BY <1>1, <1>3, <1>4, <2>1, EmittingIs
  <2>3. QED
    BY <2>1, <2>2
<1> HIDE DEF f
<1> DEFINE g == Emitting(f, <<"POP">>, 0, 0)
<1>6. g \in FuncType /\ g.depth = Fn.depth /\ g.height = Fn.height /\ g.size >= f.size /\ Len(g.code) <= 3
  <2>1. 0 \in Int /\ f.height + 0 >= 0 /\ f.height + 0 = Fn.height
    BY <1>3, <1>5
  <2>2. g \in FuncType /\ g.depth = f.depth /\ g.height = f.height + 0 /\ g.size >= f.size
        /\ Len(g.code) <= 3
    BY <1>1, <1>4, <1>5, <2>1, EmittingIs
  <2>3. QED
    BY <1>5, <2>1, <2>2
<1> HIDE DEF g
<1>7. SameBut(func, func') /\ Last(func') = g
  BY <1>1, <1>2, <1>6, FnReplaced DEF Fn, g
<1>8. PICK base : RoomOk(base, func, stack_size)
  BY <1>1 DEF Room
<1>9. g.height <= g.size
  <2>1. Len(func) \in 1 .. Len(func)
    BY <1>3
  <2>2. Fn.height <= Fn.size
    BY <1>8, <2>1 DEF RoomOk, Fn, Last
  <2>3. f.size \in Nat /\ g.size \in Nat
    BY <1>5, <1>6 DEF FuncType
  <2>4. QED
    BY <1>3, <1>5, <1>6, <2>2, <2>3
<1>10. Room'
  <2>1. Last(func').height = Last(func).height + 0 /\ 0 \in Int /\ 0 <= 0
    BY <1>3, <1>6, <1>7 DEF Fn
  <2>2. RoomOk(base, func', stack_size + 0)
    BY <1>1, <1>7, <1>8, <1>9, <2>1, RoomEmitted
  <2>3. stack_size + 0 = stack_size'
    BY <1>1, <1>2
  <2>4. QED
    BY <2>2, <2>3 DEF Room
<1>11. PICK lv, at : Scoped(lv) /\ LoopsOk(lv, at, loop)
  BY <1>2, OpenIs DEF Open
<1>12. Shape(lv, func', locals)
  BY <1>1, <1>7, <1>11, At, ShapeEmit
<1>13. Last(func').height = Fn.height
  BY <1>6, <1>7
<1>14. Scoped(lv)'
  BY <1>2, <1>11, <1>12, <1>13 DEF Scoped, Fn
<1>15. Open'
  BY <1>2, <1>11, <1>14 DEF Open
<1>16. Types'
  BY <1>1, <1>2, <1>7 DEF Types, SameBut
<1>17. QED
  BY <1>2, <1>10, <1>15, <1>16 DEF Inv, JumpsAgree, ReturnedCall, Calls

-----------------------------------------------------------------------------
(* Functions are begun. *)
Params(argc) == [i \in 1 .. argc |-> Local(scope_depth + 1, i - 1)]
NewFunc(argc, code) == [depth |-> scope_depth, size |-> stack_size + argc, height |-> argc, code |-> code]

LEMMA OpenFunction ==
  ASSUME Inv, NEW lv, NEW at, Scoped(lv), LoopsOk(lv, at, loop), locals = <<>>, new_local = FALSE,
         WaitOk(Last(lv), Fn.height),
         NEW kind \in Opening, NEW argc \in Nat, NEW params \in Nat, NEW code \in Seq(Bytes), NEW h \in Nat,
         Len(code) <= 3,
         kind = "class" => argc = 1 /\ params = 0 /\ h = 1,
         kind # "class" => argc = params /\ h = 0,
         kind = "literal" => Last(lv).kind \in Expressions /\ Last(lv).own = 0,
         kind # "literal" => Last(lv).kind = "script",
         stack_size' = stack_size + argc, func' = Append(func, NewFunc(argc, code)),
         locals' = Params(params), scope_depth' = scope_depth + Scopes(kind), parse' = Enter(kind, h),
         is_last_call' = FALSE, UNCHANGED <<loop, new_local>>, jumps' = {}, patched' = {}
  PROVE  Inv'
<1>1. Types /\ Room /\ stack_size \in Nat
  BY DEF Inv, Types
<1> DEFINE top == Last(lv)
           g == NewFunc(argc, code)
<1>2. PICK a : a = [kind |-> kind, height |-> h, depth |-> scope_depth + Scopes(kind),
                    fn |-> Len(func) + 1, own |-> 0]
  OBVIOUS
<1> DEFINE w == Append(lv, a)
<1>3. /\ Shape(lv, func, locals) /\ Nested(lv) /\ lv \in Seq(Level) /\ FuncOk(func)
      /\ Len(func) \in Nat \ {0} /\ top.fn = Len(func) /\ scope_depth = top.depth
      /\ top.depth \in Int /\ top.depth >= DEPTH_GLOBAL
  BY <1>1, At DEF LevelOk
<1>4. kind \in {"function", "literal", "class"} /\ Scopes(kind) \in {1, 2}
      /\ (kind # "class" => Scopes(kind) = 2)
  BY DEF Opening, Scopes
<1> HIDE DEF top
<1>5. a \in Level /\ LevelOk(a)
  <2>1. scope_depth + Scopes(kind) \in Int /\ scope_depth + Scopes(kind) >= DEPTH_GLOBAL
    BY <1>3, <1>4 DEF DEPTH_GLOBAL
  <2>2. Len(func) + 1 \in Nat /\ Len(func) + 1 >= 1
    BY <1>3
  <2>3. a \in Level
    BY <1>2, <1>4, <2>1, <2>2 DEF Level, Kinds, Blocks
  <2>4. LevelOk(a)
    BY <1>2, <1>4, <2>1, <2>2 DEF LevelOk
  <2>5. QED
    BY <2>3, <2>4
<1>6. Under(top, a)
  <2>1. a.kind = kind /\ a.depth = top.depth + Scopes(a.kind) /\ a.fn = top.fn + 1
    BY <1>2, <1>3
  <2>2. kind = "literal" => top.kind \in Expressions /\ top.kind # "class" /\ top.own = 0
    BY DEF top, Expressions
  <2>3. kind # "literal" => top.kind = "script" /\ top.kind \notin Expressions /\ top.kind # "class"
    BY DEF top, Expressions
  <2>4. QED
    BY <1>4, <2>1, <2>2, <2>3 DEF Under, Opening
<1>7. g \in FuncType /\ g.depth = top.depth
  <2>1. stack_size + argc \in Nat /\ scope_depth \in Int
    BY <1>1, <1>3
  <2>2. QED
    BY <1>3, <2>1 DEF FuncType, NewFunc
<1>8. /\ locals' \in Seq(LocalType) /\ Len(locals') = params
      /\ \A j \in 1 .. Len(locals') : locals'[j].slot = j - 1 /\ locals'[j].depth = g.depth + 1
  <2>1. \A i \in 1 .. params : /\ Local(scope_depth + 1, i - 1) \in LocalType
                               /\ Local(scope_depth + 1, i - 1).slot = i - 1
                               /\ Local(scope_depth + 1, i - 1).depth = g.depth + 1
    <3>1. scope_depth + 1 \in Nat /\ g.depth = scope_depth
      BY <1>3, <1>7 DEF DEPTH_GLOBAL
    <3> HIDE DEF g
    <3>2. QED
      BY <3>1 DEF Local, LocalType
  <2> HIDE DEF g
  <2>2. locals' \in Seq(LocalType) /\ Len(locals') = params
    BY <2>1 DEF Params
  <2>3. \A j \in 1 .. params : locals'[j] = Local(scope_depth + 1, j - 1)
    BY DEF Params
  <2>4. QED
    BY <2>1, <2>2, <2>3
<1> HIDE DEF g
<1>9. Shape(w, func', locals')
  <2>1. func' = Append(func, g) /\ Shape(lv, func, <<>>) /\ WaitOk(Last(lv), Last(func).height)
    BY <1>3 DEF g, Fn
  <2>2. a.kind \in Opening
    BY <1>2
  <2>3. QED
    BY <1>3, <1>5, <1>6, <1>7, <1>8, <2>1, <2>2, ShapeOpen DEF top
<1>10. Last(w) = a /\ w \in Seq(Level) /\ w # <<>>
       /\ Parsed(w) = Append(Parsed(lv), [kind |-> kind, height |-> h])
  <2>1. Last(w) = a /\ w \in Seq(Level) /\ w # <<>>
    BY <1>3, <1>5, Appended
  <2>2. Parsed(w) = Append(Parsed(lv), [kind |-> a.kind, height |-> a.height])
    BY <1>3, <1>5, ParsedEnter
  <2>3. QED
    BY <1>2, <2>1, <2>2
<1>11. LoopsOk(w, at, loop)
  <2>1. a.kind \notin Looping
    BY <1>2, <1>4 DEF Looping
  <2>2. QED
    BY <1>3, <1>5, <2>1, LoopsEnter
<1> HIDE DEF w
<1>12. Shallow(w, locals')
  <2>1. CASE kind = "class"
    BY <1>8, <2>1 DEF Shallow
  <2>2. CASE kind # "class"
    <3>1. g.depth + 1 <= a.depth
      BY <1>2, <1>3, <1>4, <1>7, <2>2
    <3>2. QED
      BY <1>8, <1>10, <3>1 DEF Shallow
  <2>3. QED
    BY <2>1, <2>2
<1>13. FuncOk(func') /\ Last(func') = g /\ Len(func') = Len(func) + 1
       /\ \A k \in 1 .. Len(func) : func'[k] = func[k]
  <2>1. func' = Append(func, g) /\ func \in Seq(FuncType)
    BY <1>3 DEF g, FuncOk
  <2>2. /\ func' \in Seq(FuncType) /\ func' # <<>> /\ Len(func') = Len(func) + 1
        /\ Last(func') = g /\ func'[Len(func) + 1] = g
        /\ \A k \in 1 .. Len(func) : func'[k] = func[k]
    BY <1>7, <2>1, Appended
  <2>3. \A k \in 1 .. Len(func) + 1 : k \in 1 .. Len(func) \/ k = Len(func) + 1
    BY <1>3
  <2>4. Len(g.code) <= 3
    BY DEF g, NewFunc
  <2>5. QED
    BY <1>3, <2>2, <2>3, <2>4 DEF FuncOk
<1>14. TopOk(a, argc, params, FALSE)
  <2>1. CASE kind = "class"
    BY <1>2, <2>1 DEF TopOk, Bodies, Blocks, Expressions
  <2>2. CASE kind # "class"
    BY <1>2, <1>4, <2>2, BodyOk DEF Bodies, Blocks
  <2>3. QED
    BY <2>1, <2>2
<1>15. Scoped(w)'
  <2>1. parse' = Parsed(w)
    BY <1>10 DEF Scoped, Enter
  <2>2. scope_depth' = Last(w).depth
    BY <1>2, <1>10
  <2>3. Last(func').height = argc
    BY <1>13 DEF g, NewFunc
  <2>4. TopOk(Last(w), Last(func').height, Len(locals'), new_local')
    BY <1>8, <1>10, <1>14, <2>3
  <2>5. QED
    BY <1>9, <1>12, <2>1, <2>2, <2>4 DEF Scoped, Fn
<1>16. Open'
  BY <1>11, <1>15 DEF Open
<1>17. Room'
  <2>1. PICK base : RoomOk(base, func, stack_size)
    BY <1>1 DEF Room
  <2>2. /\ base \in Seq(Nat) /\ Len(base) = Len(func)
        /\ \A k \in 1 .. Len(func) - 1 : base[k] + func[k].height <= base[k + 1]
        /\ \A k \in 1 .. Len(func) : func[k].height <= func[k].size
        /\ Last(base) + Last(func).height <= stack_size
    BY <2>1 DEF RoomOk
  <2> DEFINE more == Append(base, stack_size)
  <2>3. /\ more \in Seq(Nat) /\ Len(more) = Len(base) + 1 /\ Last(more) = stack_size
        /\ more[Len(base) + 1] = stack_size /\ \A k \in 1 .. Len(base) : more[k] = base[k]
    BY <1>1, <2>2, Appended
  <2> HIDE DEF more
  <2>4. \A k \in 1 .. Len(func') - 1 : more[k] + func'[k].height <= more[k + 1]
    <3>1. ASSUME NEW k \in 1 .. Len(func)
          PROVE  more[k] + func'[k].height <= more[k + 1]
      <4>1. more[k] = base[k] /\ func'[k] = func[k]
        BY <1>13, <2>2, <2>3
      <4>2. CASE k = Len(func)
        BY <2>2, <2>3, <4>1, <4>2 DEF Last
      <4>3. CASE k # Len(func)
        <5>1. k \in 1 .. Len(func) - 1 /\ k + 1 \in 1 .. Len(func)
          BY <1>3, <4>3
        <5>2. QED
          BY <2>2, <2>3, <4>1, <5>1
      <4>4. QED
        BY <4>2, <4>3
    <3>2. Len(func') - 1 = Len(func)
      BY <1>3, <1>13
    <3>3. QED
      BY <3>1, <3>2
  <2>5. g.height = argc /\ g.size = stack_size + argc /\ argc <= stack_size + argc
        /\ stack_size + argc <= stack_size + argc
    BY <1>1 DEF g, NewFunc
  <2>6. \A k \in 1 .. Len(func') : func'[k].height <= func'[k].size
    <3>1. \A k \in 1 .. Len(func) + 1 : k \in 1 .. Len(func) \/ k = Len(func) + 1
      BY <1>3
    <3>2. func'[Len(func) + 1] = g
      BY <1>13 DEF Last
    <3>3. QED
      BY <1>13, <2>2, <2>5, <3>1, <3>2
  <2>7. Last(more) + Last(func').height <= stack_size'
    BY <1>13, <2>3, <2>5
  <2>8. RoomOk(more, func', stack_size')
    BY <1>13, <2>2, <2>3, <2>4, <2>6, <2>7 DEF RoomOk
  <2>9. QED
    BY <2>8 DEF Room
<1>18. Types'
  <2>1. scope_depth' \in Int /\ scope_depth' >= DEPTH_GLOBAL /\ stack_size' \in Nat
    BY <1>1, <1>3, <1>4 DEF DEPTH_GLOBAL
  <2>2. QED
    BY <1>1, <1>8, <1>13, <2>1 DEF Types
<1>19. QED
  BY <1>16, <1>17, <1>18 DEF Inv, JumpsAgree, ReturnedCall, Calls

(* At the top level there are no locals. *)
LEMMA AtTopLevelIs ==
  ASSUME Types, NEW lv, Scoped(lv), Len(parse) = 1
  PROVE  /\ Last(lv) = Script /\ locals = <<>> /\ Fn.height = 0 /\ new_local = FALSE
         /\ Len(func) = 1 /\ scope_depth = DEPTH_GLOBAL
<1>1. /\ Nested(lv) /\ Shape(lv, func, locals) /\ Shallow(lv, locals) /\ Len(lv) = 1
      /\ Last(lv).fn = Len(func) /\ scope_depth = Last(lv).depth
      /\ TopOk(Last(lv), Fn.height, Len(locals), new_local) /\ Top.kind = Last(lv).kind
      /\ locals \in Seq(LocalType)
  BY At DEF Types
<1>2. Last(lv) = Script
  BY <1>1 DEF Nested, Last
<1>3. Len(func) = 1 /\ scope_depth = DEPTH_GLOBAL
  BY <1>1, <1>2 DEF Script
<1>4. Fn.height = Len(locals) /\ new_local = FALSE
  <2>1. Top.kind \in Bodies
    BY <1>1, <1>2 DEF Script, Bodies, Blocks
  <2>2. QED
    BY <2>1, AtStatementIs
<1>5. ASSUME NEW j \in 1 .. Len(locals)
      PROVE  FALSE
  <2>1. locals[j].depth \in Nat
    BY <1>1, LocalOf
  <2>2. locals[j].depth <= -1
    BY <1>1, <1>2 DEF Shallow, Script, DEPTH_GLOBAL
  <2>3. QED
    BY <2>1, <2>2
<1>6. locals = <<>>
  <2>1. Len(locals) \notin Nat \ {0}
    <3>1. ASSUME Len(locals) \in Nat \ {0} PROVE FALSE
      <4>1. 1 \in 1 .. Len(locals)
        BY <3>1
      <4>2. QED
        BY <1>5, <4>1
    <3>2. QED
      BY <3>1
  <2>2. QED
    BY <1>1, <2>1
<1>7. QED
  BY <1>2, <1>3, <1>4, <1>6

LEMMA FunctionKeeps ==
  ASSUME Inv, MaxArgs \in Nat, NEW argc \in 0 .. MaxArgs, Function(argc)
  PROVE  Inv'
<1>1. Types /\ argc \in Nat
  BY DEF Inv
<1>2. /\ parse # <<>> /\ Len(parse) = 1 /\ is_last_call' = FALSE
      /\ stack_size' = stack_size + argc /\ func' = Append(func, NewFunc(argc, <<>>))
      /\ locals' = locals \o Params(argc)
      /\ scope_depth' = scope_depth + 2 /\ parse' = Enter("function", 0)
      /\ jumps' = {} /\ patched' = {} /\ UNCHANGED <<loop, new_local>>
  BY DEF Function, PushFunc, AtTopLevel, AtStatement, NewFunc, Params, NoJump, NoPatch
<1>3. PICK lv, at : Scoped(lv) /\ LoopsOk(lv, at, loop)
  BY <1>2, OpenIs DEF Open
<1>4. /\ Last(lv) = Script /\ locals = <<>> /\ Fn.height = 0 /\ new_local = FALSE
      /\ scope_depth = DEPTH_GLOBAL
  BY <1>1, <1>2, <1>3, AtTopLevelIs
<1>5. locals' = Params(argc)
  <2>1. \A i \in 1 .. argc : Local(scope_depth + 1, i - 1) \in LocalType
    BY <1>1, <1>4 DEF Local, LocalType, DEPTH_GLOBAL
  <2>2. Params(argc) \in Seq(LocalType)
    BY <1>1, <2>1 DEF Params
  <2>3. \A s \in Seq(LocalType) : <<>> \o s = s
    OBVIOUS
  <2>4. QED
    BY <1>2, <1>4, <2>2, <2>3
<1>6. WaitOk(Last(lv), Fn.height) /\ Last(lv).kind = "script"
  BY <1>4 DEF WaitOk, Script, Expressions
<1>7. <<>> \in Seq(Bytes) /\ Len(<<>>) <= 3 /\ 0 \in Nat /\ "function" \in Opening
      /\ Scopes("function") = 2
  BY DEF Opening, Scopes
<1>8. scope_depth' = scope_depth + Scopes("function")
  BY <1>2, <1>7
<1>9. QED
  BY <1>1, <1>2, <1>3, <1>4, <1>5, <1>6, <1>7, <1>8, OpenFunction

LEMMA LiteralKeeps ==
  ASSUME Inv, Careless = {}, MaxArgs \in Nat, NEW argc \in 0 .. MaxArgs, Literal(argc)
  PROVE  Inv'
<1>1. Types /\ argc \in Nat
  BY DEF Inv
<1>2. /\ parse # <<>> /\ InExpression /\ locals = <<>> /\ is_last_call' = FALSE
      /\ stack_size' = stack_size + argc /\ func' = Append(func, NewFunc(argc, <<>>))
      /\ locals' = locals \o Params(argc)
      /\ scope_depth' = scope_depth + 2 /\ parse' = Enter("literal", 0)
      /\ jumps' = {} /\ patched' = {} /\ UNCHANGED <<loop, new_local>>
  BY DEF Literal, PushFunc, InExpression, NewFunc, Params, NoJump, NoPatch
<1>3. PICK lv, at : Scoped(lv) /\ LoopsOk(lv, at, loop)
  BY <1>2, OpenIs DEF Open
<1>4. /\ Last(lv).kind \in Expressions /\ new_local = FALSE
      /\ Fn.height >= Last(lv).height /\ Len(locals) = Last(lv).own
  BY <1>1, <1>2, <1>3, InExpressionIs
<1>5. locals' = Params(argc)
  <2>1. scope_depth \in Int /\ scope_depth >= DEPTH_GLOBAL
    BY <1>1 DEF Types
  <2>2. \A i \in 1 .. argc : Local(scope_depth + 1, i - 1) \in LocalType
    BY <1>1, <2>1 DEF Local, LocalType, DEPTH_GLOBAL
  <2>3. Params(argc) \in Seq(LocalType)
    BY <1>1, <2>2 DEF Params
  <2>4. \A s \in Seq(LocalType) : <<>> \o s = s
    OBVIOUS
  <2>5. QED
    BY <1>2, <2>3, <2>4
<1>6. WaitOk(Last(lv), Fn.height) /\ Last(lv).own = 0
  BY <1>2, <1>4 DEF WaitOk, Expressions, Bodies, Blocks
<1>7. <<>> \in Seq(Bytes) /\ Len(<<>>) <= 3 /\ 0 \in Nat /\ "literal" \in Opening
      /\ Scopes("literal") = 2
  BY DEF Opening, Scopes
<1>8. scope_depth' = scope_depth + Scopes("literal")
  BY <1>2, <1>7
<1>9. QED
  BY <1>1, <1>2, <1>3, <1>4, <1>5, <1>6, <1>7, <1>8, OpenFunction

LEMMA ClassKeeps ==
  ASSUME Inv, Class
  PROVE  Inv'
<1>1. Types
  BY DEF Inv
<1>2. /\ parse # <<>> /\ Len(parse) = 1 /\ is_last_call' = FALSE
      /\ stack_size' = stack_size + 1 /\ func' = Append(func, NewFunc(1, Operands(2)))
      /\ locals' = locals
      /\ scope_depth' = scope_depth + 1 /\ parse' = Enter("class", 1)
      /\ jumps' = {} /\ patched' = {} /\ UNCHANGED <<loop, new_local>>
  BY DEF Class, AtTopLevel, AtStatement, NewFunc, NoJump, NoPatch
<1>3. PICK lv, at : Scoped(lv) /\ LoopsOk(lv, at, loop)
  BY <1>2, OpenIs DEF Open
<1>4. /\ Last(lv) = Script /\ locals = <<>> /\ Fn.height = 0 /\ new_local = FALSE
  BY <1>1, <1>2, <1>3, AtTopLevelIs
<1>5. locals' = Params(0)
  <2>1. Params(0) = <<>>
    BY DEF Params
  <2>2. QED
    BY <1>2, <1>4, <2>1
<1>6. WaitOk(Last(lv), Fn.height) /\ Last(lv).kind = "script"
  BY <1>4 DEF WaitOk, Script, Expressions
<1>7. Operands(2) \in Seq(Bytes) /\ Len(Operands(2)) <= 3 /\ 0 \in Nat /\ 1 \in Nat
      /\ "class" \in Opening /\ Scopes("class") = 1
  BY CodeTyped DEF Opening, Scopes
<1>8. scope_depth' = scope_depth + Scopes("class")
  BY <1>2, <1>7
<1>9. QED
  BY <1>1, <1>2, <1>3, <1>4, <1>5, <1>6, <1>7, <1>8, OpenFunction

(* Functions end: all their locals are popped, and what they were in, which *)
(* had none, goes on.                                                       *)
Bottom(a) == IF a.kind = "class" THEN a.depth ELSE a.depth - 1

LEMMA CloseFunction ==
  ASSUME Types, Room, NEW lv, NEW at, Scoped(lv), LoopsOk(lv, at, loop), Last(lv).kind \in Opening
  PROVE  /\ Kept(Bottom(Last(lv))) = <<>> /\ new_local = FALSE
         /\ Popped(Bottom(Last(lv))) = Len(locals)
         /\ Fn.height - Len(locals) = IF Last(lv).kind = "class" THEN 1 ELSE 0
         /\ Front(lv) \in Seq(Level) /\ Front(lv) # <<>> /\ LevelOk(Last(Front(lv)))
         /\ Shape(Front(lv), Front(func), <<>>) /\ Shallow(Front(lv), <<>>)
         /\ Front(parse) = Parsed(Front(lv)) /\ Under(Last(Front(lv)), Last(lv))
         /\ Last(Front(lv)).depth \in Int
         /\ FuncOk(Front(func)) /\ WaitOk(Last(Front(lv)), Last(Front(func)).height)
         /\ LoopsOk(Front(lv), at, loop)
         /\ stack_size - Len(locals) \in Nat
         /\ \E base : RoomOk(base, Front(func), stack_size - Len(locals))
<1> DEFINE a == Last(lv)
           u == Front(lv)
           m == Len(locals)
           outer == Front(func)
<1>1. /\ Shape(lv, func, locals) /\ Nested(lv) /\ lv \in Seq(Level) /\ lv # <<>> /\ FuncOk(func)
      /\ Len(func) \in Nat \ {0} /\ a.fn = Len(func) /\ a.depth \in Int
      /\ TopOk(a, Fn.height, m, new_local) /\ m \in Nat /\ Fn.height \in Nat
      /\ locals \in Seq(LocalType) /\ new_local \in BOOLEAN /\ stack_size \in Nat
  BY At DEF Types
<1>2. a.kind \in {"function", "literal", "class"}
  BY DEF Opening
<1>3. new_local = FALSE
  BY <1>1, <1>2 DEF TopOk
<1>4. /\ Shape(u, outer, <<>>) /\ FuncOk(outer) /\ Len(outer) = Len(func) - 1
      /\ Len(func) >= 2 /\ WaitOk(Last(u), Last(outer).height)
      /\ \A i \in 1 .. Len(func) - 1 : outer[i] = func[i]
  BY <1>1, ShapeClose
<1>5. \A j \in 1 .. m : locals[j].depth \in Nat
  BY <1>1, LocalOf
<1> DEFINE d == Bottom(a)
<1>6. d \in Int /\ \A j \in 1 .. m : locals[j].depth < d <=> j <= 0
  <2>1. CASE a.kind = "class"
    <3>1. m = 0
      BY <1>1, <2>1 DEF TopOk
    <3>2. d \in Int
      BY <1>1, <2>1 DEF Bottom
    <3> HIDE DEF d
    <3>3. QED
      BY <3>1, <3>2
  <2>2. CASE a.kind # "class"
    <3>1. a.kind \in {"function", "literal"} /\ d = a.depth - 1
      BY <1>2, <2>2 DEF Bottom
    <3>2. Len(lv) \in 1 .. Len(lv) /\ lv[Len(lv)] = a
      BY <1>1, LevelsOf
    <3>3. a.depth - 2 <= func[Len(func)].depth
      BY <1>1, <3>1, <3>2 DEF Shape, Heights
    <3>4. \A j \in 1 .. m : Last(func).depth < locals[j].depth
      BY <1>1 DEF Shape, Slots
    <3>5. func[Len(func)].depth \in Int /\ func[Len(func)] = Last(func)
      BY <1>1, InnermostOf
    <3> HIDE DEF a, d
    <3>6. ASSUME NEW j \in 1 .. m
          PROVE  ~(locals[j].depth < d) /\ ~(j <= 0)
      BY <1>1, <1>5, <3>1, <3>3, <3>4, <3>5 DEF a
    <3>7. d \in Int
      BY <1>1, <3>1
    <3>8. QED
      BY <3>6, <3>7
  <2>3. QED
    BY <2>1, <2>2
<1>7. Popped(d) = m /\ Kept(d) = <<>>
  <2>1. 0 \in 0 .. m
    BY <1>1
  <2> HIDE DEF d
  <2>2. Popped(d) = m - 0 /\ Kept(d) = SubSeq(locals, 1, 0)
    BY <1>1, <1>6, <2>1, PoppedIs
  <2>3. SubSeq(locals, 1, 0) = <<>>
    BY <1>1
  <2>4. QED
    BY <1>1, <2>2, <2>3
<1>8. Fn.height - m = IF a.kind = "class" THEN 1 ELSE 0
  <2>1. CASE a.kind = "class"
    <3>1. Fn.height = 1 /\ m = 0
      BY <1>1, <2>1 DEF TopOk
    <3>2. QED
      BY <2>1, <3>1
  <2>2. CASE a.kind # "class"
    <3>1. Fn.height = m
      BY <1>1, <1>2, <2>2 DEF TopOk, Bodies, Blocks
    <3>2. QED
      BY <1>1, <2>2, <3>1
  <2>3. QED
    BY <2>1, <2>2
<1>9. /\ Nested(u) /\ Under(Last(u), a) /\ u \in Seq(Level) /\ u # <<>> /\ LevelOk(Last(u))
      /\ Last(u).depth \in Int
  <2>1. Nested(u) /\ Under(Last(u), a)
    BY <1>1, <1>2, NestedPop
  <2>2. QED
    BY <2>1, LevelsOf
<1>10. Shallow(u, <<>>)
  BY DEF Shallow
<1>11. Front(parse) = Parsed(u)
  BY <1>1, ParsedLeave DEF Scoped
<1>12. LoopsOk(u, at, loop)
  BY <1>1, <1>2, LoopsLeave DEF Looping
<1>13. /\ stack_size - m \in Nat /\ \E base : RoomOk(base, outer, stack_size - m)
  <2>1. PICK base : RoomOk(base, func, stack_size)
    BY DEF Room
  <2>2. /\ base \in Seq(Nat) /\ Len(base) = Len(func)
        /\ \A k \in 1 .. Len(func) - 1 : base[k] + func[k].height <= base[k + 1]
        /\ \A k \in 1 .. Len(func) : func[k].height <= func[k].size
        /\ Last(base) + Last(func).height <= stack_size
    BY <2>1 DEF RoomOk
  <2>3. base # <<>>
    BY <1>1, <2>2
  <2> DEFINE less == Front(base)
  <2>4. /\ less \in Seq(Nat) /\ Len(less) = Len(base) - 1 /\ \A k \in 1 .. Len(base) - 1 : less[k] = base[k]
        /\ Last(base) \in Nat /\ Last(base) = base[Len(base)]
    BY <2>2, <2>3, FrontOf, LastOf DEF Last
  <2> HIDE DEF less
  <2>5. m <= Fn.height
    BY <1>1, <1>8
  <2>6. stack_size - m \in Nat /\ Last(base) <= stack_size - m
    BY <1>1, <2>2, <2>4, <2>5 DEF Fn
  <2>7. \A k \in 1 .. Len(outer) - 1 : less[k] + outer[k].height <= less[k + 1]
    <3>1. ASSUME NEW k \in 1 .. Len(outer) - 1
          PROVE  less[k] + outer[k].height <= less[k + 1]
      <4>1. k \in 1 .. Len(func) - 1 /\ k + 1 \in 1 .. Len(func) - 1
        BY <1>1, <1>4
      <4>2. QED
        BY <1>4, <2>2, <2>4, <4>1
    <3>2. QED
      BY <3>1
  <2>8. \A k \in 1 .. Len(outer) : outer[k].height <= outer[k].size
    <3>1. \A k \in 1 .. Len(func) - 1 : k \in 1 .. Len(func)
      BY <1>1
    <3>2. QED
      BY <1>4, <2>2, <3>1
  <2>9. Last(less) + Last(outer).height <= stack_size - m
    <3> DEFINE n == Len(func)
    <3>1. n \in Nat /\ n >= 2 /\ n - 1 \in 1 .. n - 1 /\ (n - 1) + 1 = n
      <4>1. n \in Nat /\ n >= 2
        BY <1>1, <1>4
      <4> HIDE DEF n
      <4>2. QED
        BY <4>1
    <3>2. Last(less) = base[n - 1] /\ Last(outer) = func[n - 1]
      BY <1>4, <2>2, <2>4, <3>1 DEF Last
    <3>3. base[n - 1] + func[n - 1].height <= base[n]
      BY <2>2, <3>1
    <3>4. base[n - 1] + func[n - 1].height \in Nat
      <4>1. base[n - 1] \in Nat
        <5>1. n - 1 \in 1 .. Len(base)
          BY <2>2, <3>1
        <5>2. QED
          BY <2>2, <5>1, ElementOfSeq
      <4>2. Last(outer).height \in Nat
        BY <1>4, InnermostOf
      <4>3. QED
        BY <3>2, <4>1, <4>2
    <3>5. base[n] = Last(base)
      BY <2>2, <2>4
    <3> HIDE DEF n
    <3>6. Last(less) + Last(outer).height \in Nat /\ Last(less) + Last(outer).height <= Last(base)
      BY <3>2, <3>3, <3>4, <3>5
    <3>7. QED
      BY <2>4, <2>6, <3>6
  <2>10. RoomOk(less, outer, stack_size - m)
    BY <1>4, <2>2, <2>4, <2>7, <2>8, <2>9 DEF RoomOk
  <2>11. QED
    BY <2>6, <2>10
<1>14. QED
  BY <1>3, <1>4, <1>7, <1>8, <1>9, <1>10, <1>11, <1>12, <1>13

(* A function of the top level ends. *)
LEMMA CloseAtTopKeeps ==
  ASSUME Inv, NEW lv, NEW at, Scoped(lv), LoopsOk(lv, at, loop),
         Last(lv).kind \in {"function", "class"},
         stack_size' = stack_size - Popped(Bottom(Last(lv))), func' = Front(func),
         locals' = Kept(Bottom(Last(lv))), scope_depth' = scope_depth - Scopes(Last(lv).kind),
         parse' = Front(parse), UNCHANGED <<loop, new_local, is_last_call>>,
         NEW x \in Int, jumps' = {Jump(Here(x), Here(x))},
         \A p \in patched' : p.at = "end" /\ p.byte \in Bytes
  PROVE  Inv'
<1>1. Types /\ Room /\ FuncOk(func)
  BY DEF Inv, Types
<1> DEFINE a == Last(lv)
           u == Front(lv)
<1>2. a.kind \in Opening
  BY DEF Opening
<1>3. /\ Kept(Bottom(a)) = <<>> /\ new_local = FALSE
      /\ Popped(Bottom(a)) = Len(locals)
      /\ u \in Seq(Level) /\ u # <<>> /\ LevelOk(Last(u))
      /\ Shape(u, Front(func), <<>>) /\ Shallow(u, <<>>)
      /\ Front(parse) = Parsed(u) /\ Under(Last(u), a)
      /\ Last(u).depth \in Int
      /\ FuncOk(Front(func)) /\ WaitOk(Last(u), Last(Front(func)).height)
      /\ LoopsOk(u, at, loop)
      /\ stack_size - Len(locals) \in Nat
      /\ \E base : RoomOk(base, Front(func), stack_size - Len(locals))
  BY <1>1, <1>2, CloseFunction
<1>4. Last(u).kind = "script" /\ scope_depth = a.depth /\ a.depth = Last(u).depth + Scopes(a.kind)
  BY <1>1, <1>3, At DEF Under
<1>5. Scopes(a.kind) \in Nat
  BY DEF Scopes
<1> HIDE DEF a, u
<1>6. scope_depth' = Last(u).depth
  BY <1>3, <1>4, <1>5 DEF a
<1>7. Last(Front(func)).height = 0
  BY <1>3, <1>4 DEF WaitOk, Bodies, Blocks
<1>8. locals' = <<>> /\ Len(locals') = 0 /\ locals' \in Seq(LocalType)
  BY <1>3 DEF a
<1>9. TopOk(Last(u), 0, 0, FALSE)
  BY <1>4, BodyOk DEF Bodies, Blocks
<1>10. Scoped(u)'
  BY <1>3, <1>6, <1>7, <1>8, <1>9 DEF Scoped, Fn
<1>11. Open'
  BY <1>3, <1>10 DEF Open
<1>12. Room' /\ stack_size' \in Nat
  BY <1>3 DEF Room, a
<1>13. JumpsAgree' /\ \A j \in jumps' : j.from \in Places /\ j.to \in Places
  BY <1>1, JumpsFrom
<1>14. Types'
  <2>1. scope_depth' \in Int /\ scope_depth' >= DEPTH_GLOBAL
    BY <1>3, <1>6 DEF LevelOk
  <2>2. QED
    BY <1>1, <1>3, <1>8, <1>12, <1>13, <2>1 DEF Types
<1>15. Calls'
  <2>1. Last(u).kind \in {"script", "class"} /\ Last(u).kind \notin Expressions
    BY <1>4 DEF Expressions
  <2>2. QED
    BY <1>3, <2>1, CallsOutside
<1>16. ReturnedCall'
  BY DEF ReturnedCall
<1>17. QED
  BY <1>11, <1>12, <1>13, <1>14, <1>15, <1>16 DEF Inv

(* The byte that a function's end makes a tail call of. *)
LEMMA PatchedEnd ==
  ASSUME Inv, parse # <<>>, Top.kind \in {"function", "literal"}, NEW n \in Nat,
         PatchEnd(Fn.code \o Pops(n))
  PROVE  \A p \in patched' : p.at = "end" /\ p.byte \in Bytes
<1> DEFINE s == LastThree(Fn.code \o Pops(n))
<1>1. CASE TailCalls /\ is_last_call
  <2>1. FuncOk(func) /\ Calls
    BY DEF Inv, Types
  <2>2. Fn.code # <<>>
    BY <1>1, <2>1 DEF Calls
  <2>3. Fn.code \in Seq(Bytes) /\ Pops(n) \in Seq(Bytes)
    BY <2>1, FnOf, CodeTyped
  <2>4. s # <<>>
    BY <2>2, <2>3, CodeStays
  <2>5. s \in Seq(Bytes)
    BY <2>3, ConcatProperties, LastThreeOf
  <2> HIDE DEF s
  <2>6. 1 \in 1 .. Len(s)
    BY <2>4, <2>5
  <2>7. s[1] \in Bytes
    BY <2>5, <2>6, ElementOfSeq
  <2>8. patched' = {[at |-> "end", byte |-> s[1]]}
    BY <1>1 DEF PatchEnd, s
  <2>9. QED
    BY <2>7, <2>8
<1>2. CASE ~(TailCalls /\ is_last_call)
  BY <1>2 DEF PatchEnd
<1>3. QED
  BY <1>1, <1>2

LEMMA EndFunctionKeeps ==
  ASSUME Inv, EndFunction
  PROVE  Inv'
<1>1. Types /\ Room /\ locals \in Seq(LocalType) /\ scope_depth \in Int
  BY DEF Inv, Types
<1> DEFINE popped == Popped(scope_depth - 1)
<1>2. /\ parse # <<>> /\ Top.kind = "function"
      /\ PatchEnd(Fn.code \o Pops(Popped(scope_depth)))
      /\ jumps' = {Jump(Here(Fn.height - popped), Here(0))}
      /\ stack_size' = stack_size - popped
      /\ func' = Front(func) /\ locals' = Kept(scope_depth - 1)
      /\ scope_depth' = scope_depth - 2 /\ parse' = Front(parse)
      /\ UNCHANGED <<loop, new_local, is_last_call>>
  BY DEF EndFunction, PopFunc
<1>3. PICK lv, at : Scoped(lv) /\ LoopsOk(lv, at, loop)
  BY <1>2, OpenIs DEF Open
<1>4. Last(lv).kind = "function" /\ scope_depth = Last(lv).depth
  BY <1>1, <1>2, <1>3, At
<1>5. Bottom(Last(lv)) = scope_depth - 1 /\ Scopes(Last(lv).kind) = 2
  BY <1>4 DEF Bottom, Scopes
<1>6. Fn.height - popped = 0
  <2>1. /\ Popped(Bottom(Last(lv))) = Len(locals)
        /\ Fn.height - Len(locals) = IF Last(lv).kind = "class" THEN 1 ELSE 0
    BY <1>1, <1>3, <1>4, CloseFunction DEF Opening
  <2>2. QED
    BY <1>4, <1>5, <2>1
<1>7. \A p \in patched' : p.at = "end" /\ p.byte \in Bytes
  <2>1. Popped(scope_depth) \in Nat
    BY <1>1, PoppedNat
  <2>2. QED
    BY <1>2, <2>1, PatchedEnd
<1>8. jumps' = {Jump(Here(0), Here(0))} /\ 0 \in Int
  BY <1>2, <1>6
<1> HIDE DEF popped
<1>9. stack_size' = stack_size - Popped(Bottom(Last(lv))) /\ locals' = Kept(Bottom(Last(lv)))
      /\ scope_depth' = scope_depth - Scopes(Last(lv).kind)
  BY <1>2, <1>5 DEF popped
<1>10. QED
  BY <1>2, <1>3, <1>4, <1>7, <1>8, <1>9, CloseAtTopKeeps

LEMMA EndClassKeeps ==
  ASSUME Inv, EndClass
  PROVE  Inv'
<1>1. Types /\ Room
  BY DEF Inv
<1>2. /\ parse # <<>> /\ Top.kind = "class"
      /\ jumps' = {Jump(Here(Fn.height - Popped(scope_depth)), Here(1))}
      /\ stack_size' = stack_size - Popped(scope_depth)
      /\ func' = Front(func) /\ locals' = Kept(scope_depth)
      /\ scope_depth' = scope_depth - 1 /\ parse' = Front(parse) /\ patched' = {}
      /\ UNCHANGED <<loop, new_local, is_last_call>>
  BY DEF EndClass, PopFunc, NoPatch
<1>3. PICK lv, at : Scoped(lv) /\ LoopsOk(lv, at, loop)
  BY <1>2, OpenIs DEF Open
<1>4. Last(lv).kind = "class" /\ scope_depth = Last(lv).depth
  BY <1>1, <1>2, <1>3, At
<1>5. Bottom(Last(lv)) = scope_depth /\ Scopes(Last(lv).kind) = 1
  BY <1>4 DEF Bottom, Scopes
<1>6. Fn.height - Popped(scope_depth) = 1
  <2>1. /\ Popped(Bottom(Last(lv))) = Len(locals)
        /\ Fn.height - Len(locals) = IF Last(lv).kind = "class" THEN 1 ELSE 0
    BY <1>1, <1>3, <1>4, CloseFunction DEF Opening
  <2>2. QED
    BY <1>4, <1>5, <2>1
<1>7. jumps' = {Jump(Here(1), Here(1))} /\ 1 \in Int
  BY <1>2, <1>6
<1>8. stack_size' = stack_size - Popped(Bottom(Last(lv))) /\ locals' = Kept(Bottom(Last(lv)))
      /\ scope_depth' = scope_depth - Scopes(Last(lv).kind)
  BY <1>2, <1>5
<1>9. \A p \in patched' : p.at = "end" /\ p.byte \in Bytes
  BY <1>2
<1>10. QED
  BY <1>2, <1>3, <1>4, <1>7, <1>8, <1>9, CloseAtTopKeeps

LEMMA EndLiteralKeeps ==
  ASSUME Inv, EndLiteral
  PROVE  Inv'
<1>1. Types /\ Room /\ locals \in Seq(LocalType) /\ scope_depth \in Int /\ stack_size \in Nat
      /\ FuncOk(func)
  BY DEF Inv, Types
<1> DEFINE popped == Popped(scope_depth - 1)
           outer  == Front(func)
           m == Len(locals)
<1>2. /\ parse # <<>> /\ Top.kind = "literal"
      /\ PatchEnd(Fn.code \o Pops(Popped(scope_depth)))
      /\ jumps' = {Jump(Here(Fn.height - popped), Here(0))}
      /\ stack_size' = stack_size - popped + 1
      /\ func' = Front(outer) \o <<Emitting(Last(outer), Operands(2), 1 - popped, 1)>>
      /\ locals' = Kept(scope_depth - 1)
      /\ scope_depth' = scope_depth - 2 /\ parse' = Front(parse) /\ is_last_call' = FALSE
      /\ UNCHANGED <<loop, new_local>>
  BY DEF EndLiteral, PopFunc
<1>3. PICK lv, at : Scoped(lv) /\ LoopsOk(lv, at, loop)
  BY <1>2, OpenIs DEF Open
<1> DEFINE a == Last(lv)
           u == Front(lv)
<1>4. a.kind = "literal" /\ scope_depth = a.depth
  BY <1>1, <1>2, <1>3, At
<1>5. Bottom(a) = scope_depth - 1 /\ Scopes(a.kind) = 2
  BY <1>4 DEF Bottom, Scopes
<1>6. /\ Kept(Bottom(a)) = <<>> /\ new_local = FALSE
      /\ Popped(Bottom(a)) = m
      /\ Fn.height - m = IF a.kind = "class" THEN 1 ELSE 0
      /\ u \in Seq(Level) /\ u # <<>> /\ LevelOk(Last(u))
      /\ Shape(u, outer, <<>>) /\ Shallow(u, <<>>)
      /\ Front(parse) = Parsed(u) /\ Under(Last(u), a)
      /\ Last(u).depth \in Int
      /\ FuncOk(outer) /\ WaitOk(Last(u), Last(outer).height)
      /\ LoopsOk(u, at, loop)
      /\ stack_size - m \in Nat
      /\ \E base : RoomOk(base, outer, stack_size - m)
  BY <1>1, <1>3, <1>4, CloseFunction DEF Opening
<1>7. popped = m /\ locals' = <<>> /\ Fn.height - popped = 0 /\ m \in Nat
  BY <1>1, <1>2, <1>4, <1>5, <1>6
<1>8. Last(u).kind \in Expressions /\ Last(u).own = 0 /\ a.depth = Last(u).depth + 2
  BY <1>4, <1>5, <1>6 DEF Under
<1>9. Last(u).height \in Nat
  <2>1. Nested(u)
    BY <1>6 DEF Shape
  <2>2. QED
    BY <2>1, LevelsOf
<1>10. scope_depth' = Last(u).depth
  BY <1>2, <1>4, <1>6, <1>8
<1> HIDE DEF popped, outer, a, u, m
<1> DEFINE f == Last(outer)
           g == Emitting(f, Operands(2), 1 - m, 1)
<1>11. f \in FuncType /\ f.height \in Nat
  BY <1>6, InnermostOf
<1> HIDE DEF f
<1>12. /\ g \in FuncType /\ g.depth = f.depth /\ g.height = f.height + 1
       /\ g.size >= stack_size + (1 - m) /\ Len(g.code) <= 3
  <2>1. Operands(2) \in Seq(Bytes) /\ 1 - m \in Int /\ 1 \in Int /\ f.height + 1 >= 0
    BY <1>7, <1>11, CodeTyped
  <2>2. QED
    BY <1>1, <1>11, <2>1, EmittingIs
<1>13. func' = Front(outer) \o <<g>>
  BY <1>2, <1>7 DEF f
<1> HIDE DEF g
<1>14. SameBut(outer, func') /\ Last(func') = g
  BY <1>6, <1>12, <1>13, FnReplaced DEF f
<1>15. Room' /\ stack_size' \in Nat
  <2>1. PICK base : RoomOk(base, outer, stack_size - m)
    BY <1>6
  <2>2. base \in Seq(Nat) /\ base # <<>> /\ Last(base) + f.height <= stack_size - m
    <3>1. base \in Seq(Nat) /\ Len(base) = Len(outer) /\ Last(base) + f.height <= stack_size - m
      BY <2>1 DEF RoomOk, f
    <3>2. Len(outer) # 0
      BY <1>6, InnermostOf
    <3>3. QED
      BY <3>1, <3>2
  <2>3. Last(base) \in Nat
    BY <2>2, LastOf
  <2>4. g.height <= g.size
    <3>1. g.size \in Nat
      BY <1>12 DEF FuncType
    <3>2. stack_size - m \in Nat /\ stack_size + (1 - m) = (stack_size - m) + 1
      BY <1>1, <1>6, <1>7
    <3>3. f.height <= stack_size - m
      BY <1>11, <2>2, <2>3, <3>2
    <3>4. QED
      BY <1>11, <1>12, <3>1, <3>2, <3>3
  <2>5. Last(func').height = Last(outer).height + 1 /\ Last(func').height <= Last(func').size
    BY <1>12, <1>14, <2>4 DEF f
  <2>6. 1 \in Int /\ 1 <= 1
    OBVIOUS
  <2>7. RoomOk(base, func', (stack_size - m) + 1) /\ (stack_size - m) + 1 \in Nat
    BY <1>6, <1>14, <2>1, <2>5, <2>6, RoomEmitted
  <2>8. stack_size' = (stack_size - m) + 1
    BY <1>2, <1>7
  <2>9. QED
    BY <2>7, <2>8 DEF Room
<1>16. TopOk(Last(u), Last(func').height, 0, FALSE)
  <2>1. Last(outer).height >= Last(u).height
    BY <1>6, <1>8 DEF WaitOk
  <2>2. Last(func').height >= Last(u).height
    BY <1>9, <1>11, <1>12, <1>14, <2>1 DEF f
  <2>3. Last(u).kind \notin Bodies /\ Last(u).kind # "class"
    BY <1>8 DEF Expressions, Bodies, Blocks
  <2>4. QED
    BY <1>8, <2>2, <2>3 DEF TopOk
<1>17. Shape(u, func', <<>>)
  BY <1>6, <1>14, ShapeEmit
<1>18. locals' \in Seq(LocalType) /\ Len(locals') = 0
  BY <1>7
<1>19. Scoped(u)'
  BY <1>2, <1>6, <1>7, <1>10, <1>16, <1>17, <1>18 DEF Scoped, Fn
<1>20. Open'
  BY <1>2, <1>6, <1>19 DEF Open
<1>21. JumpsAgree' /\ \A j \in jumps' : j.from \in Places /\ j.to \in Places
  <2>1. jumps' \subseteq {Jump(Here(0), Here(0))} /\ 0 \in Int
    BY <1>2, <1>7
  <2>2. QED
    BY <1>1, <2>1, JumpsFrom
<1>22. \A p \in patched' : p.at = "end" /\ p.byte \in Bytes
  <2>1. Popped(scope_depth) \in Nat
    BY <1>1, PoppedNat
  <2>2. QED
    BY <1>2, <2>1, PatchedEnd
<1>23. Types'
  <2>1. scope_depth' \in Int /\ scope_depth' >= DEPTH_GLOBAL
    BY <1>6, <1>10 DEF LevelOk
  <2>2. QED
    BY <1>1, <1>2, <1>14, <1>15, <1>18, <1>21, <1>22, <2>1 DEF Types, SameBut
<1>24. QED
  BY <1>2, <1>15, <1>20, <1>21, <1>22, <1>23 DEF Inv, ReturnedCall, Calls

-----------------------------------------------------------------------------
LEMMA EndScriptKeeps ==
  ASSUME Inv, EndScript
  PROVE  Inv'
<1>1. Types /\ Room /\ FuncOk(func)
  BY DEF Inv, Types
<1>2. /\ parse # <<>> /\ Len(parse) = 1 /\ is_last_call' = FALSE
      /\ jumps' = {Jump(Here(Fn.height - 0), Here(0))} /\ parse' = <<>> /\ patched' = {}
      /\ UNCHANGED <<scope_depth, locals, stack_size, func, loop, new_local>>
  BY DEF EndScript, AtTopLevel, AtStatement, PopFunc, NoPatch
<1>3. PICK lv, at : Scoped(lv) /\ LoopsOk(lv, at, loop)
  BY <1>2, OpenIs DEF Open
<1>4. locals = <<>> /\ Fn.height = 0
  BY <1>1, <1>2, <1>3, AtTopLevelIs
<1>5. Ended'
  BY <1>2, <1>4 DEF Ended
<1>6. JumpsAgree' /\ \A j \in jumps' : j.from \in Places /\ j.to \in Places
  <2>1. jumps' \subseteq {Jump(Here(0), Here(0))} /\ 0 \in Int
    BY <1>2, <1>4
  <2>2. QED
    BY <1>1, <2>1, JumpsFrom
<1>7. QED
  BY <1>1, <1>2, <1>5, <1>6 DEF Inv, Types, Room, ReturnedCall, Calls

LEMMA InitKeeps ==
  ASSUME Init
  PROVE  Inv
<1> DEFINE f == [depth |-> DEPTH_SCRIPT, size |-> 0, height |-> 0, code |-> <<>>]
           lv == <<Script>>
<1>1. f \in FuncType /\ Len(f.code) = 0
  BY DEF FuncType, DEPTH_SCRIPT
<1>2. func = <<f>> /\ func \in Seq(FuncType) /\ func # <<>> /\ Len(func) = 1 /\ func[1] = f /\ Last(func) = f
  <2>1. func = <<f>>
    BY DEF Init
  <2> HIDE DEF f
  <2>2. QED
    BY <1>1, <2>1 DEF Last
<1>3. FuncOk(func)
  BY <1>1, <1>2 DEF FuncOk
<1>4. Types
  <2>1. locals = <<>> /\ loop = <<>> /\ <<>> \in Seq(LocalType) /\ <<>> \in Seq(LoopType)
    BY DEF Init
  <2>2. scope_depth \in Int /\ scope_depth >= DEPTH_GLOBAL /\ stack_size \in Nat
    BY DEF Init, DEPTH_GLOBAL
  <2>3. new_local \in BOOLEAN /\ is_last_call \in BOOLEAN /\ jumps = {} /\ patched = {}
    BY DEF Init
  <2>4. QED
    BY <1>3, <2>1, <2>2, <2>3 DEF Types
<1>5. Script \in Level /\ LevelOk(Script)
  BY DEF Script, Level, LevelOk, Kinds, Blocks, DEPTH_GLOBAL, Expressions
<1>6. lv \in Seq(Level) /\ lv # <<>> /\ Len(lv) = 1 /\ lv[1] = Script /\ Last(lv) = Script
  BY <1>5 DEF Last
<1> HIDE DEF lv, f
<1>7. Nested(lv)
  BY <1>5, <1>6 DEF Nested
<1>8. Heights(lv, func, 0)
  BY <1>2, <1>6 DEF Heights, Script, Nests, f, DEPTH_SCRIPT, DEPTH_GLOBAL
<1>9. Slots(lv, func, <<>>) /\ Shallow(lv, <<>>)
  BY <1>6 DEF Slots, Shallow
<1>10. parse = Parsed(lv)
  <2>1. Parsed(lv) = [i \in 1 .. 1 |-> [kind |-> "script", height |-> 0]]
    BY <1>6 DEF Parsed, Script
  <2>2. QED
    BY <2>1 DEF Init
<1>11. Scoped(lv)
  <2>1. TopOk(Script, 0, 0, FALSE)
    BY BodyOk DEF Script, Bodies, Blocks
  <2>2. Fn.height = 0
    BY <1>2 DEF Fn, f
  <2>3. locals = <<>> /\ new_local = FALSE /\ scope_depth = DEPTH_GLOBAL
    BY DEF Init
  <2>4. Shape(lv, func, locals) /\ Shallow(lv, locals)
    <3>1. Len(locals) = 0
      BY <2>3
    <3>2. QED
      BY <1>7, <1>8, <1>9, <2>3, <3>1 DEF Shape
  <2>5. TopOk(Last(lv), Fn.height, Len(locals), new_local)
    BY <1>6, <2>1, <2>2, <2>3
  <2>6. scope_depth = Last(lv).depth
    BY <1>6, <2>3 DEF Script
  <2>7. QED
    BY <1>10, <2>4, <2>5, <2>6 DEF Scoped
<1>12. LoopsOk(lv, <<>>, loop)
  <2>1. loop = <<>> /\ <<>> \in Seq(Nat) /\ Len(<<>>) = 0
    BY DEF Init
  <2>2. \A i \in 1 .. Len(lv) : lv[i].kind \notin Looping
    BY <1>6 DEF Script, Looping
  <2>3. QED
    BY <2>1, <2>2 DEF LoopsOk
<1>13. Open
  BY <1>11, <1>12 DEF Open
<1>14. Room
  <2>1. <<0>> \in Seq(Nat) /\ Len(<<0>>) = 1 /\ Last(<<0>>) = 0
    BY DEF Last
  <2>2. stack_size = 0
    BY DEF Init
  <2>3. RoomOk(<<0>>, func, stack_size)
    BY <1>2, <2>1, <2>2 DEF RoomOk, f
  <2>4. QED
    BY <2>3 DEF Room
<1>15. QED
  BY <1>4, <1>13, <1>14 DEF Inv, Init, JumpsAgree, ReturnedCall, Calls

LEMMA StepKeeps ==
  ASSUME Inv, Careless = {}, [Next]_vars
  PROVE  Inv'
<1>0. MaxArgs \in Nat
  BY CompilerAssumption
<1>1. CASE UNCHANGED vars
  BY <1>1 DEF vars, Inv, Types, Calls, Top, Fn, JumpsAgree, ReturnedCall, Ended, Open, Scoped, Room
<1>2. CASE Push
  BY <1>2, PushKeeps
<1>3. CASE \E n \in 0 .. 2 : Operate(n)
  BY <1>3, OperateKeeps
<1>4. CASE \E argc \in 0 .. MaxArgs, chain \in BOOLEAN : Call(argc, chain)
  BY <1>4, CallKeeps
<1>5. CASE ShortCircuit \/ EndShortCircuit
  BY <1>5, ShortCircuitKeeps, EndShortCircuitKeeps
<1>6. CASE Assign \/ EndAssign
  BY <1>6, AssignKeeps, EndAssignKeeps
<1>7. CASE \E argc \in 0 .. MaxArgs : Function(argc)
  BY <1>0, <1>7, FunctionKeeps
<1>8. CASE \E argc \in 0 .. MaxArgs : Literal(argc)
  BY <1>0, <1>8, LiteralKeeps
<1>9. CASE EndFunction \/ EndLiteral
  BY <1>9, EndFunctionKeeps, EndLiteralKeeps
<1>10. CASE Class \/ Field \/ EndField \/ EndClass
  BY <1>10, ClassKeeps, FieldKeeps, EndFieldKeeps, EndClassKeeps
<1>11. CASE Expression \/ EndExpression \/ Return \/ EndReturn
  BY <1>11, ExpressionKeeps, EndExpressionKeeps, ReturnKeeps, EndReturnKeeps
<1>12. CASE \E names \in 0 .. 1 : Import(names)
  BY <1>12, ImportKeeps
<1>13. CASE If \/ Then \/ Else \/ Elsif \/ EndIf
  BY <1>13, IfKeeps, ThenKeeps, ElseKeeps, ElsifKeeps, EndIfKeeps
<1>14. CASE While \/ Do \/ EndWhile
  BY <1>14, WhileKeeps, DoKeeps, EndWhileKeeps
<1>15. CASE For \/ Iterate \/ EndFor
  BY <1>15, ForKeeps, IterateKeeps, EndForKeeps
<1>16. CASE Break \/ Continue
  BY <1>16, BreakKeeps, ContinueKeeps
<1>17. CASE EndScript
  BY <1>17, EndScriptKeeps
<1>18. QED
  BY <1>1, <1>2, <1>3, <1>4, <1>5, <1>6, <1>7, <1>8, <1>9, <1>10, <1>11, <1>12, <1>13,
     <1>14, <1>15, <1>16, <1>17 DEF Next

(* What the compiler counts, and what the emitted code does, follow the     *)
(* levels of the parser, of every careful program.                          *)
THEOREM Follows == Careless = {} => (Spec => []Inv)
<1> SUFFICES ASSUME Careless = {} PROVE Spec => []Inv
  OBVIOUS
<1>1. Init => Inv
  BY InitKeeps
<1>2. Inv /\ [Next]_vars => Inv'
  BY StepKeeps
<1>3. QED
  BY <1>1, <1>2, PTL DEF Spec

LEMMA SlotsFollow ==
  ASSUME Inv
  PROVE  LocalsAtSlots
<1>1. CASE Ended
  <2>1. Own = {}
    BY <1>1 DEF Ended, Own
  <2>2. QED
    BY <1>1, <2>1 DEF Ended, LocalsAtSlots
<1>2. CASE Open
  <2>1. Types /\ locals \in Seq(LocalType) /\ FuncOk(func)
    BY DEF Inv, Types
  <2>2. PICK lv : Scoped(lv)
    BY <1>2 DEF Open
  <2>3. \A j \in 1 .. Len(locals) : locals[j].slot = j - 1 /\ Fn.depth < locals[j].depth
    BY <2>2 DEF Scoped, Shape, Slots, Fn
  <2>4. Own = 1 .. Len(locals)
    <3>1. \A j \in 1 .. Len(locals) : locals[j].depth > Fn.depth
      BY <2>1, <2>3, FnOf, LocalOf
    <3>2. QED
      BY <3>1 DEF Own
  <2>5. Cardinality(1 .. Len(locals)) = Len(locals)
    <3>1. Len(locals) \in Nat
      BY <2>1
    <3>2. 1 \in Int /\ Len(locals) \in Int
      BY <3>1
    <3>3. Cardinality(1 .. Len(locals)) = IF 1 > Len(locals) THEN 0 ELSE Len(locals) - 1 + 1
      BY <3>2, FS_Interval
    <3>4. QED
      BY <3>1, <3>3
  <2>6. Top.kind \in Blocks => Fn.height = Len(locals)
    BY <2>1, <2>2, AtStatementIs DEF Bodies
  <2>7. QED
    BY <2>3, <2>4, <2>5, <2>6 DEF LocalsAtSlots
<1>3. QED
  BY <1>1, <1>2 DEF Inv

(* LocalsAtSlots: the slot that the code of a local's name uses is the one  *)
(* its value is in, and between statements there is nothing else.           *)
THEOREM LocalsInSlots == Careless = {} => (Spec => []LocalsAtSlots)
<1> SUFFICES ASSUME Careless = {} PROVE Spec => []LocalsAtSlots
  OBVIOUS
<1>1. Inv => LocalsAtSlots
  BY SlotsFollow
<1>2. Spec => []Inv
  BY Follows
<1>3. QED
  BY <1>1, <1>2, PTL

(* JumpsAgree: the branches of a condition, the breaks and the end of a     *)
(* loop, and what a function returns with, leave the same stack.            *)
THEOREM JumpsMeet == Careless = {} => (Spec => []JumpsAgree)
<1> SUFFICES ASSUME Careless = {} PROVE Spec => []JumpsAgree
  OBVIOUS
<1>1. Inv => JumpsAgree
  BY DEF Inv
<1>2. Spec => []Inv
  BY Follows
<1>3. QED
  BY <1>1, <1>2, PTL

LEMMA TypesFollow ==
  ASSUME Inv
  PROVE  TypeOK
<1>1. /\ scope_depth \in Int /\ scope_depth >= DEPTH_GLOBAL
      /\ locals \in Seq(LocalType) /\ stack_size \in Nat /\ FuncOk(func)
      /\ loop \in Seq(LoopType) /\ new_local \in BOOLEAN /\ is_last_call \in BOOLEAN
      /\ \A j \in jumps : j.from \in Places /\ j.to \in Places
      /\ \A p \in patched : p.at \in {"return", "end"} /\ p.byte \in Bytes
  BY DEF Inv, Types
<1>2. parse \in Seq(Entry)
  <2>1. CASE Ended
    BY <2>1 DEF Ended
  <2>2. CASE Open
    BY <2>2, At DEF Open, Inv
  <2>3. QED
    BY <2>1, <2>2 DEF Inv
<1>3. \A i \in 1 .. Len(parse) :
        parse[i] \in [kind : Blocks \cup Expressions \cup {"class", "elsif"}, height : Nat]
  BY <1>2, ElementOfSeq DEF Entry, Kinds
<1>4. \A i \in 1 .. Len(locals) : locals[i] \in [depth : Nat, slot : Nat]
  BY <1>1, ElementOfSeq DEF LocalType
<1>5. Len(func) >= 1
  BY <1>1, FnOf
<1>6. ASSUME NEW i \in 1 .. Len(func)
      PROVE  /\ func[i].depth \in Int /\ func[i].size \in Nat /\ func[i].height \in Nat
             /\ Len(func[i].code) <= 3
             /\ \A b \in 1 .. Len(func[i].code) : func[i].code[b] \in Bytes
  <2>1. func \in Seq(FuncType) /\ Len(func[i].code) <= 3
    BY <1>1 DEF FuncOk
  <2>2. func[i] \in FuncType
    BY <2>1, ElementOfSeq
  <2>3. func[i].depth \in Int /\ func[i].size \in Nat /\ func[i].height \in Nat
        /\ func[i].code \in Seq(Bytes)
    BY <2>2 DEF FuncType
  <2>4. \A b \in 1 .. Len(func[i].code) : func[i].code[b] \in Bytes
    BY <2>3, ElementOfSeq
  <2>5. QED
    BY <2>1, <2>3, <2>4
<1>7. \A i \in 1 .. Len(loop) :
        loop[i].depth \in Int /\ loop[i].start \in Places /\ loop[i].patches \subseteq Places
  <2>1. \A i \in 1 .. Len(loop) : loop[i] \in LoopType
    BY <1>1, ElementOfSeq
  <2>2. QED
    BY <2>1 DEF LoopType
<1>8. QED
  BY <1>1, <1>3, <1>4, <1>5, <1>6, <1>7 DEF TypeOK

LEMMA RoomFollows ==
  ASSUME Inv
  PROVE  RoomCounted
<1>1. TypeOK
  BY TypesFollow
<1>2. FuncOk(func) /\ stack_size \in Nat
  BY DEF Inv, Types
<1>3. PICK base : RoomOk(base, func, stack_size)
  BY DEF Inv, Room
<1>4. \A i \in 1 .. Len(func) : func[i].height <= func[i].size
  BY <1>3 DEF RoomOk
<1>5. stack_size >= Fn.height
  <2>1. base \in Seq(Nat) /\ Len(base) = Len(func) /\ Last(base) + Fn.height <= stack_size
    BY <1>3 DEF RoomOk, Fn
  <2>2. base # <<>> /\ Fn.height \in Nat
    BY <1>2, <2>1, FnOf
  <2>3. Last(base) \in Nat
    BY <2>1, <2>2, LastOf
  <2>4. QED
    BY <1>2, <2>1, <2>2, <2>3
<1>6. QED
  BY <1>1, <1>4, <1>5 DEF RoomCounted

(* RoomCounted: what the compiler takes for the height of the stack is      *)
(* enough for what the code of each function has on it.                     *)
THEOREM RoomIsCounted == Careless = {} => (Spec => []RoomCounted)
<1> SUFFICES ASSUME Careless = {} PROVE Spec => []RoomCounted
  OBVIOUS
<1>1. Inv => RoomCounted
  BY RoomFollows
<1>2. Spec => []Inv
  BY Follows
<1>3. QED
  BY <1>1, <1>2, PTL

(* ReturnedCall: the byte that `return f()' overwrites is that of a call.   *)
THEOREM CallsAreReturned == Careless = {} => (Spec => []ReturnedCall)
<1> SUFFICES ASSUME Careless = {} PROVE Spec => []ReturnedCall
  OBVIOUS
<1>1. Inv => ReturnedCall
  BY DEF Inv
<1>2. Spec => []Inv
  BY Follows
<1>3. QED
  BY <1>1, <1>2, PTL

=============================================================================
