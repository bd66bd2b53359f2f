--------------------------- MODULE ImportsProofs ---------------------------
(***************************************************************************)
(* Proofs about Imports for every set of scripts and names and any number  *)
(* of imports, nested compilations and bodies that run.                    *)
(***************************************************************************)
EXTENDS Imports, TLAPS, SequenceTheorems, WellFoundedInduction

FrameType == [script : Script, pc : Nat]
ImportType == [script : Script, all : BOOLEAN]
CompilerType ==
  [script : Script, globals : Nat, functions : Nat, errors : BOOLEAN,
   refs : SUBSET Refs, forwards : SUBSET Name, importing : Script \cup {None}]
Tables == [globals : Seq(Name), functions : Seq(Name)]

(* The types of the variables. *)
Types ==
  /\ cached \in SUBSET Script
  /\ globals \in [Script -> Seq(Name)] /\ functions \in [Script -> Seq(Name)]
  /\ code \in [Script -> Seq(ImportType)]
  /\ file \in [Script -> Script \cup {None}]
  /\ initialized \in [Script -> BOOLEAN]
  /\ compilers \in Seq(CompilerType)
  /\ frames \in Seq(FrameType)
  /\ held \in [Script -> SUBSET Refs]
  /\ kept \in [Script -> Tables]
  /\ ran \in [Script -> {"new", "running", "ended"}]

(* What code, compilers and frames refer to is in the cache, and a script  *)
(* in the cache has its "__file__".                                        *)
AllCached ==
  /\ \A s \in Script : \A k \in 1 .. Len(code[s]) : code[s][k].script \in cached
  /\ \A s \in Script : file[s] \in cached \cup {None} /\ (s \in cached => file[s] # None)
  /\ \A i \in 1 .. Len(compilers) :
       compilers[i].script \in cached /\ compilers[i].importing \in cached \cup {None}
  /\ \A i \in 1 .. Len(frames) : frames[i].script \in cached

(* Nothing runs while something is compiled; a body is at an import of its *)
(* code, behind its first one if it waits; a script is initialized when its *)
(* body has begun, and a body that has begun and not ended has a frame.    *)
Runs ==
  /\ compilers = <<>> \/ frames = <<>>
  /\ \A i \in 1 .. Len(frames) :
       /\ frames[i].pc <= Len(code[frames[i].script])
       /\ i < Len(frames) => frames[i].pc >= 1
       /\ initialized[frames[i].script]
  /\ \A s \in Script :
       /\ initialized[s] <=> ran[s] # "new"
       /\ ran[s] = "running" => \E j \in 1 .. Len(frames) : frames[j].script = s

(* A reference, by these tables. *)
Right(r, g, f) ==
  LET t == IF r.kind = "global" THEN g ELSE f
  IN r.index <= Len(t) /\ t[r.index] = r.name

(* A table has these names first. *)
Begins(k, t) == Len(k) <= Len(t) /\ \A j \in 1 .. Len(k) : t[j] = k[j]

(* What was kept is the beginning of the tables and all that finished code *)
(* refers to; a compiler remembers where it ends, and all it has added is  *)
(* behind it.                                                              *)
Apart ==
  /\ OneCompilerPerScript
  /\ \A s \in Script : Distinct(globals[s] \o functions[s])
  /\ \A s \in Script : Begins(kept[s].globals, globals[s]) /\ Begins(kept[s].functions, functions[s])
  /\ \A s \in Script : \A r \in held[s] : Right(r, kept[s].globals, kept[s].functions)
  /\ FailedLeavesNoName
  /\ \A i \in 1 .. Len(compilers) :
       LET c == compilers[i] IN
       /\ c.globals = Len(kept[c.script].globals) /\ c.functions = Len(kept[c.script].functions)
       /\ \A r \in c.refs : Right(r, globals[c.script], functions[c.script])

(* The inductive invariant, with Types. *)
Inv == AllCached /\ Runs /\ Apart /\ ImportedIsReady

-----------------------------------------------------------------------------
(* Sequences. *)
LEMMA LastOf ==
  ASSUME NEW S, NEW s \in Seq(S), s # <<>>
  PROVE  Len(s) \in Nat \ {0} /\ Last(s) \in S
<1>1. Len(s) \in Nat /\ Len(s) # 0
  OBVIOUS
<1>2. Len(s) \in 1 .. Len(s)
  BY <1>1
<1>3. QED
  BY <1>1, <1>2, ElementOfSeq DEF Last

LEMMA BelowLast ==
  \A n \in Nat : \A k \in 1 .. n + 1 : k # n + 1 => k \in 1 .. n
OBVIOUS

LEMMA Truncated ==
  ASSUME NEW S, NEW s \in Seq(S), NEW n \in 0 .. Len(s)
  PROVE  /\ SubSeq(s, 1, n) \in Seq(S)
         /\ Len(SubSeq(s, 1, n)) = n
         /\ \A i \in 1 .. n : SubSeq(s, 1, n)[i] = s[i]
<1>1. 1 \in 1 .. Len(s) + 1 /\ n \in 1 - 1 .. Len(s) /\ n - 1 + 1 = n
  OBVIOUS
<1>2. QED
  BY <1>1, SubSeqProperties

LEMMA FrontOf ==
  ASSUME NEW S, NEW s \in Seq(S), s # <<>>
  PROVE  /\ Front(s) \in Seq(S)
         /\ Len(Front(s)) = Len(s) - 1
         /\ \A i \in 1 .. Len(s) - 1 : Front(s)[i] = s[i]
<1>1. Len(s) \in Nat /\ Len(s) # 0
  OBVIOUS
<1>2. Len(s) - 1 \in 0 .. Len(s)
  BY <1>1
<1>3. QED
  BY <1>2, Truncated DEF Front

LEMMA Replaced ==
  ASSUME NEW S, NEW s \in Seq(S), s # <<>>, NEW x \in S
  PROVE  /\ Append(Front(s), x) \in Seq(S)
         /\ Len(Append(Front(s), x)) = Len(s)
         /\ Append(Front(s), x)[Len(s)] = x
         /\ \A i \in 1 .. Len(s) - 1 : Append(Front(s), x)[i] = s[i]
<1>1. Len(s) \in Nat /\ Len(s) # 0
  OBVIOUS
<1>2. QED
  BY <1>1, FrontOf, AppendProperties

(* A set of natural numbers that is not empty has a least one. *)
LEMMA LeastNat ==
  ASSUME NEW S \in SUBSET Nat, NEW m \in S
  PROVE  \E n \in S : \A k \in S : n <= k
<1>1. IsWellFoundedOn(OpToRel(<, Nat), Nat)
  BY NatLessThanWellFounded
<1>2. PICK n \in S : \A k \in S : ~(<<k, n>> \in OpToRel(<, Nat))
  BY <1>1, WFMin, Zenon
<1>3. ASSUME NEW k \in S
      PROVE  n <= k
  <2>1. ~(<<k, n>> \in OpToRel(<, Nat))
    BY <1>2, Zenon
  <2>2. k \in Nat /\ n \in Nat
    OBVIOUS
  <2>3. ~(k < n)
    BY <2>1, <2>2 DEF OpToRel
  <2>4. QED
    BY <2>2, <2>3
<1>4. QED
  BY <1>3

(* What is missing of a list of names is names, none twice that was not in *)
(* the list twice, which the script has not.                               *)
LEMMA MissingNames ==
  ASSUME NEW names \in Seq(Name), NEW s
  PROVE  /\ Missing(names, s) \in Seq(Name)
         /\ \A j \in 1 .. Len(Missing(names, s)) : ~Defined(s, Missing(names, s)[j])
         /\ Distinct(names) => Distinct(Missing(names, s))
<1> DEFINE N == Len(names)
           Next1(g, k) == IF k = 0 THEN <<>>
                          ELSE IF Defined(s, names[k]) THEN g[k - 1]
                          ELSE Append(g[k - 1], names[k])
           Step(n, g) == [k \in 0 .. n |-> Next1(g, k)]
           Found1(n) == \E g : g = Step(n, g)
           upTo == CHOOSE g : g = Step(N, g)
           Good(k, q) == /\ q \in Seq(Name)
                         /\ \A j \in 1 .. Len(q) :
                              ~Defined(s, q[j]) /\ \E i \in 1 .. k : q[j] = names[i]
                         /\ Distinct(names) => Distinct(q)
<1>1. N \in Nat
  OBVIOUS
<1>2. Found1(0)
  <2>1. [k \in 0 .. 0 |-> <<>>] = Step(0, [k \in 0 .. 0 |-> <<>>])
    OBVIOUS
  <2>2. QED
    BY <2>1
<1>3. ASSUME NEW n \in Nat, Found1(n)
      PROVE  Found1(n + 1)
  <2>1. PICK g : g = Step(n, g)
    BY <1>3
  <2> DEFINE h == [k \in 0 .. n + 1 |-> IF k = n + 1 THEN Next1(g, n + 1) ELSE g[k]]
  <2>2. ASSUME NEW k \in 0 .. n + 1
        PROVE  h[k] = Next1(h, k)
    <3>1. CASE k = 0
      <4>1. h[0] = g[0] /\ g[0] = <<>>
        BY <2>1
      <4>2. QED
        BY <3>1, <4>1
    <3>2. CASE k # 0
      <4>1. k - 1 \in 0 .. n /\ h[k - 1] = g[k - 1]
        BY <3>2
      <4>2. h[k] = Next1(g, k)
        <5>1. CASE k = n + 1
          BY <5>1
        <5>2. CASE k # n + 1
          <6>1. k \in 0 .. n /\ h[k] = g[k]
            BY <5>2
          <6>2. g[k] = Next1(g, k)
            BY <2>1, <6>1
          <6>3. QED
            BY <6>1, <6>2
        <5>3. QED
          BY <5>1, <5>2
      <4>3. Next1(g, k) = Next1(h, k)
        BY <3>2, <4>1
      <4>4. QED
        BY <4>2, <4>3
    <3>3. QED
      BY <3>1, <3>2
  <2>3. h = Step(n + 1, h)
    BY <2>2
  <2>4. QED
    BY <2>3
<1>4. Found1(N)
  <2> DEFINE Bad == {n \in Nat : ~Found1(n)}
  <2>1. SUFFICES ASSUME N \in Bad PROVE FALSE
    BY <1>1
  <2> HIDE DEF Found1, N
  <2>2. PICK n \in Bad : \A k \in Bad : n <= k
    <3>1. Bad \in SUBSET Nat
      OBVIOUS
    <3> HIDE DEF Bad
    <3>2. QED
      BY <2>1, <3>1, LeastNat
  <2>3. n \in Nat /\ n # 0
    BY <1>2, <2>2
  <2>4. n - 1 \in Nat /\ ~(n - 1 \in Bad) /\ n - 1 + 1 = n
    BY <2>2, <2>3
  <2>5. QED
    BY <1>3, <2>2, <2>4
<1>5. upTo = Step(N, upTo)
  BY <1>4
<1>6. Missing(names, s) = upTo[N]
  BY DEF Missing
<1> HIDE DEF upTo
<1>7. ASSUME NEW k \in 0 .. N
      PROVE  upTo[k] = Next1(upTo, k)
  BY <1>5
<1> HIDE DEF Found1, Step
<1>8. Good(0, upTo[0])
  <2>1. upTo[0] = <<>>
    BY <1>1, <1>7
  <2>2. Good(0, <<>>)
    BY DEF Distinct
  <2>3. QED
    BY <2>1, <2>2
<1>9. ASSUME NEW k \in 1 .. N, Good(k - 1, upTo[k - 1])
      PROVE  Good(k, upTo[k])
  <2> DEFINE q == upTo[k - 1]
  <2>1. k \in 0 .. N /\ k # 0 /\ names[k] \in Name
    BY <1>1
  <2>2. CASE Defined(s, names[k])
    <3>1. upTo[k] = q
      BY <1>7, <2>1, <2>2
    <3>2. \A i \in 1 .. k - 1 : i \in 1 .. k
      BY <2>1
    <3> HIDE DEF N
    <3>3. Good(k, q)
      BY <1>9, <3>2
    <3>4. QED
      BY <3>1, <3>3
  <2>3. CASE ~Defined(s, names[k])
    <3>1. upTo[k] = Append(q, names[k])
      BY <1>7, <2>1, <2>3
    <3>2. q \in Seq(Name) /\ Len(q) \in Nat
      BY <1>9
    <3> DEFINE r == Append(q, names[k])
    <3>3. /\ r \in Seq(Name) /\ Len(r) = Len(q) + 1
          /\ r[Len(q) + 1] = names[k] /\ \A j \in 1 .. Len(q) : r[j] = q[j]
      BY <2>1, <3>2, AppendProperties
    <3> HIDE DEF q, r
    <3>4. ASSUME NEW j \in 1 .. Len(r)
          PROVE  ~Defined(s, r[j]) /\ \E i \in 1 .. k : r[j] = names[i]
      <4>1. CASE j = Len(q) + 1
        BY <2>1, <2>3, <3>3, <4>1
      <4>2. CASE j # Len(q) + 1
        <5>1. j \in 1 .. Len(q)
          BY <3>2, <3>3, <4>2
        <5>2. QED
          BY <1>9, <3>3, <5>1 DEF q
      <4>3. QED
        BY <4>1, <4>2
    <3>5. ASSUME Distinct(names)
          PROVE  Distinct(r)
      <4>1. ASSUME NEW j \in 1 .. Len(q)
            PROVE  r[j] # r[Len(q) + 1]
        <5>1. PICK i \in 1 .. k - 1 : q[j] = names[i]
          BY <1>9 DEF q
        <5>2. names[i] # names[k]
          BY <1>1, <3>5, <5>1 DEF Distinct
        <5>3. QED
          BY <3>3, <5>1, <5>2
      <4>2. Distinct(q)
        BY <1>9, <3>5 DEF q
      <4>3. ASSUME NEW i \in 1 .. Len(r), NEW j \in 1 .. Len(r), r[i] = r[j]
            PROVE  i = j
        <5>1. CASE i \in 1 .. Len(q) /\ j \in 1 .. Len(q)
          BY <3>3, <4>2, <4>3, <5>1 DEF Distinct
        <5>2. CASE ~(i \in 1 .. Len(q) /\ j \in 1 .. Len(q))
          BY <3>2, <3>3, <4>1, <4>3, <5>2
        <5>3. QED
          BY <5>1, <5>2
      <4>4. QED
        BY <4>3 DEF Distinct
    <3>6. QED
      BY <3>1, <3>3, <3>4, <3>5 DEF q, r
  <2>4. QED
    BY <2>2, <2>3
<1>10. Good(N, upTo[N])
  <2> DEFINE Bad == {k \in 0 .. N : ~Good(k, upTo[k])}
  <2>1. SUFFICES ASSUME N \in Bad PROVE FALSE
    BY <1>1
  <2> HIDE DEF Good
  <2>2. PICK k \in Bad : \A n \in Bad : k <= n
    <3>1. Bad \in SUBSET Nat
      BY <1>1
    <3> HIDE DEF Bad
    <3>2. QED
      BY <2>1, <3>1, LeastNat
  <2>3. k \in 1 .. N
    BY <1>1, <1>8, <2>2
  <2>4. k - 1 \in 0 .. N /\ ~(k - 1 \in Bad)
    BY <1>1, <2>2, <2>3
  <2>5. QED
    BY <1>9, <2>2, <2>3, <2>4
<1>11. QED
  BY <1>6, <1>10

(* Two lists together have no name twice when neither has and they share none. *)
LEMMA DistinctParts ==
  ASSUME NEW S, NEW g \in Seq(S), NEW f \in Seq(S)
  PROVE  Distinct(g \o f) <=>
           /\ Distinct(g) /\ Distinct(f)
           /\ \A i \in 1 .. Len(g), j \in 1 .. Len(f) : g[i] # f[j]
<1> DEFINE t == g \o f
<1>1. /\ Len(g) \in Nat /\ Len(f) \in Nat /\ Len(t) = Len(g) + Len(f)
      /\ \A i \in 1 .. Len(g) : t[i] = g[i]
      /\ \A j \in 1 .. Len(f) : t[Len(g) + j] = f[j]
  BY ConcatProperties
<1>2. \A i \in 1 .. Len(t) : i \in 1 .. Len(g) \/ \E j \in 1 .. Len(f) : i = Len(g) + j
  <2>1. ASSUME NEW i \in 1 .. Len(t), i \notin 1 .. Len(g)
        PROVE  i - Len(g) \in 1 .. Len(f) /\ i = Len(g) + (i - Len(g))
    BY <1>1, <2>1
  <2>2. QED
    BY <2>1
<1> HIDE DEF t
<1>3. ASSUME Distinct(t)
      PROVE  /\ Distinct(g) /\ Distinct(f)
             /\ \A i \in 1 .. Len(g), j \in 1 .. Len(f) : g[i] # f[j]
  <2>1. ASSUME NEW i \in 1 .. Len(g), NEW j \in 1 .. Len(g), g[i] = g[j]
        PROVE  i = j
    BY <1>1, <1>3, <2>1 DEF Distinct
  <2>2. ASSUME NEW i \in 1 .. Len(f), NEW j \in 1 .. Len(f), f[i] = f[j]
        PROVE  i = j
    <3>1. Len(g) + i \in 1 .. Len(t) /\ Len(g) + j \in 1 .. Len(t)
      BY <1>1
    <3>2. Len(g) + i = Len(g) + j
      BY <1>1, <1>3, <2>2, <3>1 DEF Distinct
    <3>3. QED
      BY <1>1, <3>2
  <2>3. ASSUME NEW i \in 1 .. Len(g), NEW j \in 1 .. Len(f), g[i] = f[j]
        PROVE  FALSE
    <3>1. Len(g) + j \in 1 .. Len(t) /\ i \in 1 .. Len(t) /\ i # Len(g) + j
      BY <1>1
    <3>2. QED
      BY <1>1, <1>3, <2>3, <3>1 DEF Distinct
  <2>4. QED
    BY <2>1, <2>2, <2>3 DEF Distinct
<1>4. ASSUME Distinct(g), Distinct(f), \A i \in 1 .. Len(g), j \in 1 .. Len(f) : g[i] # f[j]
      PROVE  Distinct(t)
  <2>1. ASSUME NEW i \in 1 .. Len(t), NEW j \in 1 .. Len(t), t[i] = t[j]
        PROVE  i = j
    <3>1. CASE i \in 1 .. Len(g) /\ j \in 1 .. Len(g)
      BY <1>1, <1>4, <2>1, <3>1 DEF Distinct
    <3>2. CASE i \in 1 .. Len(g) /\ j \notin 1 .. Len(g)
      BY <1>1, <1>2, <1>4, <2>1, <3>2
    <3>3. CASE i \notin 1 .. Len(g) /\ j \in 1 .. Len(g)
      BY <1>1, <1>2, <1>4, <2>1, <3>3
    <3>4. CASE i \notin 1 .. Len(g) /\ j \notin 1 .. Len(g)
      <4>1. PICK a \in 1 .. Len(f), b \in 1 .. Len(f) : i = Len(g) + a /\ j = Len(g) + b
        BY <1>2, <3>4
      <4>2. a = b
        BY <1>1, <1>4, <2>1, <4>1 DEF Distinct
      <4>3. QED
        BY <4>1, <4>2
    <3>5. QED
      BY <3>1, <3>2, <3>3, <3>4
  <2>2. QED
    BY <2>1 DEF Distinct
<1>5. QED
  BY <1>3, <1>4 DEF t

(* Names that a script has not can be added to either of its tables. *)
LEMMA Added ==
  ASSUME NEW S, NEW g \in Seq(S), NEW f \in Seq(S), NEW more \in Seq(S),
         Distinct(g \o f), Distinct(more),
         \A j \in 1 .. Len(more) : more[j] \notin Elements(g) \cup Elements(f)
  PROVE  /\ g \o more \in Seq(S) /\ Begins(g, g \o more)
         /\ Distinct((g \o more) \o f) /\ Distinct(f \o (g \o more))
<1> DEFINE t == g \o more
<1>1. /\ Len(g) \in Nat /\ Len(more) \in Nat /\ Len(t) = Len(g) + Len(more)
      /\ t \in Seq(S)
      /\ \A i \in 1 .. Len(g) : t[i] = g[i]
      /\ \A j \in 1 .. Len(more) : t[Len(g) + j] = more[j]
  BY ConcatProperties
<1>2. Distinct(g) /\ Distinct(f) /\ \A i \in 1 .. Len(g), j \in 1 .. Len(f) : g[i] # f[j]
  BY DistinctParts
<1>3. \A j \in 1 .. Len(more) : /\ \A i \in 1 .. Len(g) : g[i] # more[j]
                               /\ \A i \in 1 .. Len(f) : f[i] # more[j]
  BY DEF Elements
<1>4. Distinct(t)
  BY <1>2, <1>3, DistinctParts
<1>5. ASSUME NEW i \in 1 .. Len(t), NEW j \in 1 .. Len(f)
      PROVE  t[i] # f[j]
  <2> HIDE DEF t
  <2>1. CASE i \in 1 .. Len(g)
    BY <1>1, <1>2, <2>1
  <2>2. CASE i \notin 1 .. Len(g)
    <3>1. i - Len(g) \in 1 .. Len(more) /\ i = Len(g) + (i - Len(g))
      BY <1>1, <2>2
    <3>2. t[i] = more[i - Len(g)]
      BY <1>1, <3>1
    <3>3. QED
      BY <1>3, <3>1, <3>2
  <2>3. QED
    BY <2>1, <2>2
<1>6. Begins(g, t)
  BY <1>1 DEF Begins
<1> HIDE DEF t
<1>7. Distinct(t \o f) /\ Distinct(f \o t)
  BY <1>1, <1>2, <1>4, <1>5, DistinctParts
<1>8. QED
  BY <1>1, <1>6, <1>7 DEF t

(* The order of the tables does not matter. *)
LEMMA Swapped ==
  ASSUME NEW S, NEW g \in Seq(S), NEW f \in Seq(S), Distinct(g \o f)
  PROVE  Distinct(f \o g)
BY DistinctParts

(* Both tables may be cut. *)
LEMMA DistinctBegins ==
  ASSUME NEW S, NEW g \in Seq(S), NEW f \in Seq(S), NEW h \in Seq(S), NEW k \in Seq(S),
         Distinct(g \o f), Begins(h, g), Begins(k, f)
  PROVE  Distinct(h \o k)
<1>1. Len(g) \in Nat /\ Len(f) \in Nat /\ Len(h) \in Nat /\ Len(k) \in Nat
  OBVIOUS
<1>2. Distinct(g) /\ Distinct(f) /\ \A i \in 1 .. Len(g), j \in 1 .. Len(f) : g[i] # f[j]
  BY DistinctParts
<1>3. /\ \A i \in 1 .. Len(h) : i \in 1 .. Len(g) /\ h[i] = g[i]
      /\ \A i \in 1 .. Len(k) : i \in 1 .. Len(f) /\ k[i] = f[i]
  BY <1>1 DEF Begins
<1>4. Distinct(h) /\ Distinct(k) /\ \A i \in 1 .. Len(h), j \in 1 .. Len(k) : h[i] # k[j]
  BY <1>2, <1>3 DEF Distinct
<1>5. QED
  BY <1>4, DistinctParts

(* A reference stays right as the tables grow. *)
LEMMA StaysRight ==
  ASSUME NEW r \in Refs, NEW g \in Seq(Name), NEW f \in Seq(Name),
         NEW h \in Seq(Name), NEW k \in Seq(Name),
         Right(r, g, f), Begins(g, h), Begins(f, k)
  PROVE  Right(r, h, k)
BY DEF Right, Begins, Refs

LEMMA BeginsTrans ==
  ASSUME NEW S, NEW g \in Seq(S), NEW h \in Seq(S), NEW k \in Seq(S),
         Begins(g, h), Begins(h, k)
  PROVE  Begins(g, k)
BY DEF Begins

-----------------------------------------------------------------------------
(* What is at the top. *)
LEMMA CompilerTyped ==
  ASSUME Types, compilers # <<>>
  PROVE  /\ Compiler \in CompilerType /\ Current \in Script
         /\ Len(compilers) \in Nat \ {0} /\ Len(compilers) \in 1 .. Len(compilers)
         /\ Compiler = compilers[Len(compilers)]
<1>1. compilers \in Seq(CompilerType)
  BY DEF Types
<1>2. Len(compilers) \in Nat \ {0} /\ Compiler \in CompilerType
  BY <1>1, LastOf DEF Compiler
<1>3. QED
  BY <1>2 DEF CompilerType, Current, Compiler, Last

LEMMA FoundRight ==
  ASSUME Types, NEW s \in Script, NEW n \in Name
  PROVE  /\ Found(s, n) \in SUBSET Refs
         /\ \A r \in Found(s, n) : Right(r, globals[s], functions[s])
<1>1. globals[s] \in Seq(Name) /\ functions[s] \in Seq(Name)
  BY DEF Types
<1>2. QED
  BY <1>1 DEF Found, Ref, Refs, Right

-----------------------------------------------------------------------------
(* A step of the innermost compiler adds names to the tables of its script. *)
Grown ==
  /\ globals' \in [Script -> Seq(Name)] /\ functions' \in [Script -> Seq(Name)]
  /\ \A s \in Script :
       /\ Begins(globals[s], globals'[s]) /\ Begins(functions[s], functions'[s])
       /\ Distinct(globals'[s] \o functions'[s])
       /\ s # Current => globals'[s] = globals[s] /\ functions'[s] = functions[s]

SameCompilation(c, d) ==
  c.script = d.script /\ c.globals = d.globals /\ c.functions = d.functions

Replaces(c) ==
  /\ c \in CompilerType /\ SameCompilation(c, Compiler)
  /\ c.importing \in cached \cup {None}
  /\ \A r \in c.refs : Right(r, globals'[Current], functions'[Current])
  /\ With(c)

GoesOn ==
  /\ compilers # <<>>
  /\ \E c : Replaces(c)
  /\ Grown
  /\ code' \in [Script -> Seq(ImportType)]
  /\ \A s \in Script : \A k \in 1 .. Len(code'[s]) : code'[s][k].script \in cached
  /\ UnchangedByCompiling

LEMMA SameTables ==
  ASSUME Types, Inv, UNCHANGED tables
  PROVE  Grown
<1>1. \A s \in Script : Begins(globals[s], globals[s]) /\ Begins(functions[s], functions[s])
  BY DEF Begins, Types
<1>2. QED
  BY <1>1 DEF Grown, tables, Types, Inv, Apart

LEMMA MoreGlobals ==
  ASSUME Types, Inv, Current \in Script, NEW more \in Seq(Name), Distinct(more),
         \A j \in 1 .. Len(more) : ~Defined(Current, more[j]),
         globals' = [globals EXCEPT ![Current] = @ \o more], UNCHANGED functions
  PROVE  Grown
<1>1. \A s \in Script : /\ globals[s] \in Seq(Name) /\ functions[s] \in Seq(Name)
                       /\ Distinct(globals[s] \o functions[s])
  BY DEF Types, Inv, Apart
<1>2. /\ globals'[Current] = globals[Current] \o more
      /\ functions' = functions
      /\ \A s \in Script : s # Current => globals'[s] = globals[s]
  BY DEF Types
<1>3. /\ globals'[Current] \in Seq(Name) /\ Begins(globals[Current], globals'[Current])
      /\ Distinct(globals'[Current] \o functions[Current])
  BY <1>1, <1>2, Added DEF Defined
<1>4. \A s \in Script : Begins(globals[s], globals[s]) /\ Begins(functions[s], functions[s])
  BY DEF Begins, Types
<1>5. globals' \in [Script -> Seq(Name)] /\ functions' \in [Script -> Seq(Name)]
  BY <1>1, <1>2, <1>3 DEF Types
<1>6. QED
  BY <1>1, <1>2, <1>3, <1>4, <1>5 DEF Grown

LEMMA MoreFunctions ==
  ASSUME Types, Inv, Current \in Script, NEW more \in Seq(Name), Distinct(more),
         \A j \in 1 .. Len(more) : ~Defined(Current, more[j]),
         functions' = [functions EXCEPT ![Current] = @ \o more], UNCHANGED globals
  PROVE  Grown
<1>1. \A s \in Script : /\ globals[s] \in Seq(Name) /\ functions[s] \in Seq(Name)
                       /\ Distinct(globals[s] \o functions[s])
                       /\ Distinct(functions[s] \o globals[s])
  BY Swapped DEF Types, Inv, Apart
<1>2. /\ functions'[Current] = functions[Current] \o more
      /\ globals' = globals
      /\ \A s \in Script : s # Current => functions'[s] = functions[s]
  BY DEF Types
<1>3. /\ functions'[Current] \in Seq(Name) /\ Begins(functions[Current], functions'[Current])
      /\ Distinct(globals[Current] \o functions'[Current])
  <2>1. \A j \in 1 .. Len(more) :
          more[j] \notin Elements(functions[Current]) \cup Elements(globals[Current])
    BY DEF Defined
  <2>2. /\ functions[Current] \in Seq(Name) /\ globals[Current] \in Seq(Name)
        /\ Distinct(functions[Current] \o globals[Current])
    BY <1>1
  <2>3. /\ functions[Current] \o more \in Seq(Name)
        /\ Begins(functions[Current], functions[Current] \o more)
        /\ Distinct(globals[Current] \o (functions[Current] \o more))
    BY <2>1, <2>2, Added
  <2>4. QED
    BY <1>2, <2>3
<1>4. \A s \in Script : Begins(globals[s], globals[s]) /\ Begins(functions[s], functions[s])
  BY DEF Begins, Types
<1>5. globals' \in [Script -> Seq(Name)] /\ functions' \in [Script -> Seq(Name)]
  BY <1>1, <1>2, <1>3 DEF Types
<1>6. QED
  BY <1>1, <1>2, <1>3, <1>4, <1>5 DEF Grown

(* A reference of the compiler is right in what its tables have become. *)
LEMMA RefsStayRight ==
  ASSUME Types, Inv, Grown, compilers # <<>>
  PROVE  \A r \in Compiler.refs : Right(r, globals'[Current], functions'[Current])
<1>1. Compiler \in CompilerType /\ Current \in Script
  BY CompilerTyped
<1>2. /\ Compiler = compilers[Len(compilers)]
      /\ Len(compilers) \in 1 .. Len(compilers)
  BY CompilerTyped
<1>3. ASSUME NEW r \in Compiler.refs
      PROVE  Right(r, globals'[Current], functions'[Current])
  <2>1. r \in Refs
    BY <1>1 DEF CompilerType
  <2>2. Right(r, globals[Current], functions[Current])
    BY <1>2 DEF Inv, Apart, Current
  <2>3. /\ globals[Current] \in Seq(Name) /\ functions[Current] \in Seq(Name)
        /\ globals'[Current] \in Seq(Name) /\ functions'[Current] \in Seq(Name)
        /\ Begins(globals[Current], globals'[Current])
        /\ Begins(functions[Current], functions'[Current])
    BY <1>1 DEF Types, Grown
  <2>4. QED
    BY <2>1, <2>2, <2>3, StaysRight
<1>4. QED
  BY <1>3

(* Whatever the compiler does between the ends of a compilation. *)
LEMMA GoingOnKeeps ==
  ASSUME Types, Inv, GoesOn
  PROVE  Types' /\ Inv'
<1> DEFINE N == Len(compilers)
<1>1. PICK c : Replaces(c)
  BY DEF GoesOn
<1>2. /\ compilers \in Seq(CompilerType) /\ compilers # <<>>
      /\ Compiler = compilers[N] /\ N \in Nat \ {0} /\ Current = compilers[N].script
      /\ Current \in Script /\ Compiler \in CompilerType
  BY CompilerTyped DEF GoesOn, Types, Current
<1>3. /\ compilers' \in Seq(CompilerType) /\ Len(compilers') = N
      /\ compilers'[N] = c
      /\ \A i \in 1 .. N - 1 : compilers'[i] = compilers[i]
  BY <1>1, <1>2, Replaced DEF Replaces, With
<1>4. \A i \in 1 .. N : /\ compilers'[i] \in CompilerType
                       /\ SameCompilation(compilers'[i], compilers[i])
  BY <1>1, <1>2, <1>3, ElementOfSeq DEF Replaces, SameCompilation
<1>5. UNCHANGED <<cached, file, initialized, frames, held, kept, ran>>
  BY DEF GoesOn, UnchangedByCompiling
<1>6. Types'
  BY <1>3, <1>5 DEF Types, GoesOn, Grown
<1>7. frames = <<>>
  BY <1>2 DEF Inv, Runs
<1>8. AllCached'
  <2>1. ASSUME NEW i \in 1 .. N
        PROVE  compilers'[i].script \in cached /\ compilers'[i].importing \in cached \cup {None}
    <3>1. CASE i = N
      BY <1>1, <1>2, <1>3, <3>1 DEF Inv, AllCached, Replaces, SameCompilation
    <3>2. CASE i # N
      BY <1>2, <1>3, <3>2 DEF Inv, AllCached
    <3>3. QED
      BY <3>1, <3>2
  <2>2. QED
    BY <1>3, <1>5, <2>1 DEF Inv, AllCached, GoesOn
<1>9. Runs' /\ ImportedIsReady'
  BY <1>5, <1>7 DEF Inv, Runs, ImportedIsReady
<1>10. OneCompilerPerScript'
  BY <1>3, <1>4 DEF Inv, Apart, OneCompilerPerScript, Distinct, SameCompilation
<1>11. ASSUME NEW s \in Script
       PROVE  Begins(kept[s].globals, globals'[s]) /\ Begins(kept[s].functions, functions'[s])
  <2>1. kept[s].globals \in Seq(Name) /\ kept[s].functions \in Seq(Name)
    BY DEF Types, Tables
  <2>2. QED
    BY <2>1, BeginsTrans DEF Inv, Apart, GoesOn, Grown, Types
<1>12. FailedLeavesNoName'
  <2>1. ASSUME NEW s \in Script, s \notin {compilers'[i].script : i \in 1 .. N}
        PROVE  globals'[s] = kept[s].globals /\ functions'[s] = kept[s].functions
    <3>1. s \notin {compilers[i].script : i \in 1 .. N}
      BY <1>4, <2>1 DEF SameCompilation
    <3>2. s # Current
      BY <1>2, <3>1
    <3>3. QED
      BY <3>1, <3>2 DEF Inv, Apart, FailedLeavesNoName, GoesOn, Grown
  <2>2. QED
    BY <1>3, <1>5, <2>1 DEF FailedLeavesNoName
<1>13. ASSUME NEW i \in 1 .. N
       PROVE  LET d == compilers'[i] IN
              /\ d.globals = Len(kept[d.script].globals)
              /\ d.functions = Len(kept[d.script].functions)
              /\ \A r \in d.refs : Right(r, globals'[d.script], functions'[d.script])
  <2>1. /\ compilers'[i].globals = Len(kept[compilers'[i].script].globals)
        /\ compilers'[i].functions = Len(kept[compilers'[i].script].functions)
    BY <1>4 DEF Inv, Apart, SameCompilation
  <2>2. CASE i = N
    <3>1. compilers'[i] = c /\ c.script = Current
      BY <1>1, <1>3, <2>2 DEF Replaces, SameCompilation, Current
    <3>2. QED
      BY <1>1, <2>1, <3>1 DEF Replaces
  <2>3. CASE i # N
    <3>1. compilers'[i] = compilers[i] /\ i \in 1 .. Len(compilers)
      BY <1>2, <1>3, <2>3
    <3>2. compilers[i].script # Current /\ compilers[i].script \in Script
      BY <1>2, <1>4, <2>3, <3>1
         DEF Inv, Apart, OneCompilerPerScript, Distinct, CompilerType
    <3>3. /\ globals'[compilers[i].script] = globals[compilers[i].script]
          /\ functions'[compilers[i].script] = functions[compilers[i].script]
      BY <3>2 DEF GoesOn, Grown
    <3>4. \A r \in compilers[i].refs :
            Right(r, globals[compilers[i].script], functions[compilers[i].script])
      BY DEF Inv, Apart
    <3>5. QED
      BY <2>1, <3>1, <3>3, <3>4
  <2>4. QED
    BY <2>2, <2>3
<1>14. Apart'
  BY <1>3, <1>5, <1>10, <1>11, <1>12, <1>13 DEF Apart, GoesOn, Grown, Inv
<1>15. QED
  BY <1>6, <1>8, <1>9, <1>14 DEF Inv

(* The import that is bound is the last of the code. *)
LEMMA BoundTyped ==
  ASSUME NEW q \in Seq(ImportType)
  PROVE  /\ [q EXCEPT ![Len(q)].all = TRUE] \in Seq(ImportType)
         /\ Len([q EXCEPT ![Len(q)].all = TRUE]) = Len(q)
         /\ \A k \in 1 .. Len(q) : [q EXCEPT ![Len(q)].all = TRUE][k].script = q[k].script
<1> DEFINE u == [q EXCEPT ![Len(q)].all = TRUE]
<1>1. Len(q) \in Nat /\ DOMAIN q = 1 .. Len(q) /\ \A k \in 1 .. Len(q) : q[k] \in ImportType
  OBVIOUS
<1>2. u = [k \in 1 .. Len(q) |-> IF k = Len(q) THEN [q[k] EXCEPT !.all = TRUE] ELSE q[k]]
  BY <1>1
<1>3. \A k \in 1 .. Len(q) : u[k] \in ImportType /\ u[k].script = q[k].script
  BY <1>1, <1>2 DEF ImportType
<1>4. u \in [1 .. Len(q) -> ImportType]
  BY <1>2, <1>3
<1> HIDE DEF u
<1>5. u \in Seq(ImportType) /\ Len(u) = Len(q)
  BY <1>1, <1>4
<1>6. QED
  BY <1>3, <1>5 DEF u

LEMMA SameCode ==
  ASSUME Types, Inv, UNCHANGED code
  PROVE  /\ code' \in [Script -> Seq(ImportType)]
         /\ \A s \in Script : \A k \in 1 .. Len(code'[s]) : code'[s][k].script \in cached
BY DEF Types, Inv, AllCached

LEMMA AssignNameGoesOn ==
  ASSUME Types, Inv, NEW n \in Name, AssignName(n)
  PROVE  GoesOn
<1>1. compilers # <<>>
  BY DEF AssignName, Compiling
<1>2. Compiler \in CompilerType /\ Current \in Script
  BY <1>1, CompilerTyped
<1>3. Compiler.importing \in cached \cup {None}
  BY <1>1, CompilerTyped DEF Inv, AllCached
<1>4. UNCHANGED <<functions, code>> /\ UnchangedByCompiling
  BY DEF AssignName
<1>5. CASE Defined(Current, n)
  <2>1. Grown
    BY <1>4, <1>5, SameTables DEF AssignName, tables
  <2> DEFINE c == [Compiler EXCEPT !.refs = @ \cup Found(Current, n)]
  <2>2. With(c) /\ globals' = globals
    BY <1>5 DEF AssignName
  <2>3. c \in CompilerType /\ SameCompilation(c, Compiler) /\ c.importing = Compiler.importing
        /\ c.refs = Compiler.refs \cup Found(Current, n)
    BY <1>2, FoundRight DEF CompilerType, SameCompilation
  <2>4. \A r \in c.refs : Right(r, globals'[Current], functions'[Current])
    BY <1>1, <1>2, <1>4, <2>1, <2>2, <2>3, FoundRight, RefsStayRight
  <2>5. Replaces(c)
    BY <1>3, <2>2, <2>3, <2>4 DEF Replaces
  <2>6. QED
    BY <1>1, <1>4, <2>1, <2>5, SameCode DEF GoesOn
<1>6. CASE ~Defined(Current, n)
  <2> DEFINE g == globals[Current]
             r0 == Ref("global", Len(g) + 1, n)
             c == [Compiler EXCEPT !.refs = @ \cup {r0}]
  <2>1. With(c) /\ globals' = [globals EXCEPT ![Current] = Append(@, n)]
    BY <1>6 DEF AssignName
  <2>2. g \in Seq(Name) /\ Append(g, n) = g \o <<n>> /\ globals'[Current] = Append(g, n)
    BY <1>2, <2>1, AppendIsConcat DEF Types
  <2>3. Grown
    <3>1. <<n>> \in Seq(Name) /\ Distinct(<<n>>)
      BY DEF Distinct
    <3>2. \A j \in 1 .. Len(<<n>>) : ~Defined(Current, <<n>>[j])
      BY <1>6
    <3>3. globals' = [globals EXCEPT ![Current] = @ \o <<n>>]
      BY <2>1, <2>2
    <3>4. QED
      BY <1>2, <1>4, <3>1, <3>2, <3>3, MoreGlobals
  <2>4. r0 \in Refs /\ Right(r0, globals'[Current], functions'[Current])
    BY <2>2, AppendProperties DEF Ref, Refs, Right
  <2>5. c \in CompilerType /\ SameCompilation(c, Compiler) /\ c.importing = Compiler.importing
        /\ c.refs = Compiler.refs \cup {r0}
    BY <1>2, <2>4 DEF CompilerType, SameCompilation
  <2>6. \A r \in c.refs : Right(r, globals'[Current], functions'[Current])
    BY <1>1, <2>3, <2>4, <2>5, RefsStayRight
  <2>7. Replaces(c)
    BY <1>3, <2>1, <2>5, <2>6 DEF Replaces
  <2>8. QED
    BY <1>1, <1>4, <2>3, <2>7, SameCode DEF GoesOn
<1>7. QED
  BY <1>5, <1>6

LEMMA CallNameGoesOn ==
  ASSUME Types, Inv, NEW n \in Name, CallName(n)
  PROVE  GoesOn
<1>1. compilers # <<>>
  BY DEF CallName, Compiling
<1>2. Compiler \in CompilerType /\ Current \in Script
  BY <1>1, CompilerTyped
<1>3. Compiler.importing \in cached \cup {None}
  BY <1>1, CompilerTyped DEF Inv, AllCached
<1>4. UNCHANGED <<globals, functions, code>> /\ UnchangedByCompiling
  BY DEF CallName
<1>5. Grown
  BY <1>4, SameTables DEF tables
<1> DEFINE c == IF Defined(Current, n)
                THEN [Compiler EXCEPT !.refs = @ \cup Found(Current, n)]
                ELSE [Compiler EXCEPT !.forwards = @ \cup {n}]
<1>6. With(c)
  BY DEF CallName
<1>7. c \in CompilerType /\ SameCompilation(c, Compiler) /\ c.importing = Compiler.importing
      /\ c.refs \subseteq Compiler.refs \cup Found(Current, n)
  BY <1>2, FoundRight DEF CompilerType, SameCompilation
<1>8. \A r \in c.refs : Right(r, globals'[Current], functions'[Current])
  BY <1>1, <1>2, <1>4, <1>5, <1>7, FoundRight, RefsStayRight
<1>9. Replaces(c)
  BY <1>3, <1>6, <1>7, <1>8 DEF Replaces
<1>10. QED
  BY <1>1, <1>4, <1>5, <1>9, SameCode DEF GoesOn

LEMMA DefineFunctionGoesOn ==
  ASSUME Types, Inv, NEW n \in Name, DefineFunction(n)
  PROVE  GoesOn
<1>1. compilers # <<>>
  BY DEF DefineFunction, Compiling
<1>2. Compiler \in CompilerType /\ Current \in Script
  BY <1>1, CompilerTyped
<1>3. Compiler.importing \in cached \cup {None}
  BY <1>1, CompilerTyped DEF Inv, AllCached
<1>4. UNCHANGED <<compilers, globals, code>> /\ UnchangedByCompiling /\ ~Defined(Current, n)
  BY DEF DefineFunction
<1> DEFINE f == functions[Current]
<1>5. /\ functions' = [functions EXCEPT ![Current] = Append(@, n)]
      /\ f \in Seq(Name) /\ Append(f, n) = f \o <<n>>
  BY <1>2, AppendIsConcat DEF Types, DefineFunction
<1>6. Grown
  <2>1. <<n>> \in Seq(Name) /\ Distinct(<<n>>)
    BY DEF Distinct
  <2>2. \A j \in 1 .. Len(<<n>>) : ~Defined(Current, <<n>>[j])
    BY <1>4
  <2>3. functions' = [functions EXCEPT ![Current] = @ \o <<n>>]
    BY <1>5
  <2>4. QED
    BY <1>2, <1>4, <2>1, <2>2, <2>3, MoreFunctions
<1>7. With(Compiler)
  <2>1. compilers \in Seq(CompilerType) /\ Len(compilers) \in Nat \ {0}
    BY <1>1, CompilerTyped DEF Types
  <2> DEFINE t == Append(Front(compilers), Compiler)
  <2>2. /\ t \in Seq(CompilerType) /\ Len(t) = Len(compilers)
        /\ t[Len(compilers)] = compilers[Len(compilers)]
        /\ \A i \in 1 .. Len(compilers) - 1 : t[i] = compilers[i]
    BY <1>1, <1>2, <2>1, CompilerTyped, Replaced
  <2> HIDE DEF t
  <2>3. \A i \in 1 .. Len(compilers) : t[i] = compilers[i]
    BY <2>1, <2>2
  <2>4. t = compilers
    BY <2>1, <2>2, <2>3
  <2>5. QED
    BY <1>4, <2>4 DEF With, t
<1>8. Replaces(Compiler)
  BY <1>1, <1>2, <1>3, <1>6, <1>7, RefsStayRight DEF Replaces, SameCompilation
<1>9. QED
  BY <1>1, <1>4, <1>6, <1>8, SameCode DEF GoesOn

LEMMA ParseErrorGoesOn ==
  ASSUME Types, Inv, ParseError
  PROVE  GoesOn
<1>1. compilers # <<>>
  BY DEF ParseError, Compiling
<1>2. Compiler \in CompilerType /\ Current \in Script
  BY <1>1, CompilerTyped
<1>3. Compiler.importing \in cached \cup {None}
  BY <1>1, CompilerTyped DEF Inv, AllCached
<1>4. UNCHANGED <<globals, functions, code>> /\ UnchangedByCompiling
  BY DEF ParseError
<1>5. Grown
  BY <1>4, SameTables DEF tables
<1> DEFINE c == [Compiler EXCEPT !.errors = TRUE]
<1>6. /\ With(c) /\ c \in CompilerType /\ SameCompilation(c, Compiler)
      /\ c.importing = Compiler.importing /\ c.refs = Compiler.refs
  BY <1>2 DEF ParseError, CompilerType, SameCompilation
<1>7. Replaces(c)
  BY <1>1, <1>3, <1>5, <1>6, RefsStayRight DEF Replaces
<1>8. QED
  BY <1>1, <1>4, <1>5, <1>7, SameCode DEF GoesOn

(* Another import at the end of a script's code. *)
LEMMA MoreCode ==
  ASSUME Types, Inv, NEW s \in Script, NEW p \in Script,
         code' = [code EXCEPT ![s] = Append(@, Import(p))]
  PROVE  /\ code' \in [Script -> Seq(ImportType)]
         /\ \A c \in Script : \A k \in 1 .. Len(code'[c]) :
              code'[c][k].script \in cached \cup {p}
<1>1. Import(p) \in ImportType /\ Import(p).script = p
  BY DEF Import, ImportType
<1>2. /\ code[s] \in Seq(ImportType) /\ code'[s] = Append(code[s], Import(p))
      /\ \A c \in Script : c # s => code'[c] = code[c]
  BY DEF Types
<1>3. /\ code'[s] \in Seq(ImportType) /\ Len(code'[s]) = Len(code[s]) + 1
      /\ code'[s][Len(code[s]) + 1] = Import(p)
      /\ \A k \in 1 .. Len(code[s]) : code'[s][k] = code[s][k]
  BY <1>1, <1>2, AppendProperties
<1>4. code' \in [Script -> Seq(ImportType)]
  BY <1>2, <1>3 DEF Types
<1>5. \A k \in 1 .. Len(code'[s]) : code'[s][k].script \in cached \cup {p}
  <2>1. ASSUME NEW k \in 1 .. Len(code'[s])
        PROVE  code'[s][k].script \in cached \cup {p}
    <3>1. CASE k = Len(code[s]) + 1
      BY <1>1, <1>3, <3>1
    <3>2. CASE k # Len(code[s]) + 1
      <4>1. k \in 1 .. Len(code[s])
        BY <1>2, <1>3, <3>2
      <4>2. QED
        BY <1>3, <4>1 DEF Inv, AllCached
    <3>3. QED
      BY <3>1, <3>2
  <2>2. QED
    BY <2>1
<1>6. QED
  BY <1>2, <1>4, <1>5 DEF Inv, AllCached

LEMMA ImportCachedGoesOn ==
  ASSUME Types, Inv, NEW p \in Script, ImportCached(p)
  PROVE  GoesOn
<1>1. compilers # <<>> /\ p \in cached
  BY DEF ImportCached, Compiling
<1>2. Compiler \in CompilerType /\ Current \in Script
  BY <1>1, CompilerTyped
<1>3. UNCHANGED <<globals, functions>> /\ UnchangedByCompiling
  BY DEF ImportCached
<1>4. Grown
  BY <1>3, SameTables DEF tables
<1> DEFINE c == [Compiler EXCEPT !.importing = p]
<1>5. /\ With(c) /\ c \in CompilerType /\ SameCompilation(c, Compiler)
      /\ c.importing = p /\ c.refs = Compiler.refs
  BY <1>2 DEF ImportCached, CompilerType, SameCompilation
<1>6. Replaces(c)
  BY <1>1, <1>4, <1>5, RefsStayRight DEF Replaces
<1>7. /\ code' \in [Script -> Seq(ImportType)]
      /\ \A s \in Script : \A k \in 1 .. Len(code'[s]) : code'[s][k].script \in cached \cup {p}
  BY <1>2, MoreCode DEF ImportCached
<1>8. QED
  BY <1>1, <1>3, <1>4, <1>6, <1>7 DEF GoesOn

LEMMA BindNamesGoesOn ==
  ASSUME Types, Inv, compilers # <<>>, NEW names \in Seq(Name), Distinct(names),
         BindNames(names), UNCHANGED functions
  PROVE  Grown /\ \E c : Replaces(c)
<1> DEFINE s == Current
           all == globals[s] \o Missing(names, s)
           bound == {Ref("global", i, all[i]) : i \in {j \in 1 .. Len(all) : all[j] \in Elements(names)}}
           c == [Compiler EXCEPT
                  !.importing = None,
                  !.errors = @ \/ Elements(names) \cap Elements(functions[s]) # {},
                  !.refs = @ \cup bound]
<1>1. Compiler \in CompilerType /\ s \in Script
  BY CompilerTyped
<1>2. /\ globals' = [globals EXCEPT ![s] = all] /\ With(c)
  BY DEF BindNames
<1>3. /\ Missing(names, s) \in Seq(Name) /\ Distinct(Missing(names, s))
      /\ \A j \in 1 .. Len(Missing(names, s)) : ~Defined(s, Missing(names, s)[j])
  BY MissingNames
<1>4. Grown
  BY <1>1, <1>2, <1>3, MoreGlobals
<1>5. globals'[s] = all /\ all \in Seq(Name)
  BY <1>1, <1>2, <1>3, ConcatProperties DEF Types
<1> HIDE DEF all
<1>6. bound \in SUBSET Refs /\ \A r \in bound : Right(r, globals'[s], functions'[s])
  BY <1>5 DEF Ref, Refs, Right
<1> HIDE DEF bound
<1>7. /\ c \in CompilerType /\ SameCompilation(c, Compiler)
      /\ c.importing = None /\ c.refs = Compiler.refs \cup bound
  BY <1>1, <1>6 DEF CompilerType, SameCompilation
<1>8. \A r \in c.refs : Right(r, globals'[Current], functions'[Current])
  BY <1>4, <1>6, <1>7, RefsStayRight
<1>9. Replaces(c)
  BY <1>2, <1>7, <1>8 DEF Replaces
<1>10. QED
  BY <1>4, <1>9

LEMMA BindNameGoesOn ==
  ASSUME Types, Inv, NEW n \in Name, BindName(n)
  PROVE  GoesOn
<1>1. <<n>> \in Seq(Name) /\ Distinct(<<n>>)
  BY DEF Distinct
<1>2. /\ compilers # <<>> /\ BindNames(<<n>>)
      /\ UNCHANGED <<functions, code>> /\ UnchangedByCompiling
  BY DEF BindName
<1>3. Grown /\ \E c : Replaces(c)
  BY <1>1, <1>2, BindNamesGoesOn
<1>4. QED
  BY <1>2, <1>3, SameCode DEF GoesOn

LEMMA BindAllGoesOn ==
  ASSUME Types, Inv, BindAll
  PROVE  GoesOn
<1> DEFINE p == Compiler.importing
           q == code[Current]
<1>1. /\ compilers # <<>> /\ BindNames(functions[p] \o globals[p])
      /\ p # None
      /\ code' = [code EXCEPT ![Current][Len(q)].all = TRUE]
      /\ UNCHANGED functions /\ UnchangedByCompiling
  BY DEF BindAll
<1>2. Compiler \in CompilerType /\ Current \in Script
  BY <1>1, CompilerTyped
<1>3. p \in Script
  BY <1>1, <1>2 DEF CompilerType
<1>4. functions[p] \o globals[p] \in Seq(Name) /\ Distinct(functions[p] \o globals[p])
  BY <1>3, Swapped DEF Types, Inv, Apart
<1>5. Grown /\ \E c : Replaces(c)
  BY <1>1, <1>4, BindNamesGoesOn
<1>6. q \in Seq(ImportType)
  BY <1>2 DEF Types
<1>7. /\ code'[Current] = [q EXCEPT ![Len(q)].all = TRUE]
      /\ \A s \in Script : s # Current => code'[s] = code[s]
      /\ DOMAIN code' = Script /\ code' = [s \in Script |-> code'[s]]
  BY <1>1, <1>2 DEF Types
<1>8. /\ code'[Current] \in Seq(ImportType) /\ Len(code'[Current]) = Len(q)
      /\ \A k \in 1 .. Len(q) : code'[Current][k].script = q[k].script
  BY <1>6, <1>7, BoundTyped
<1>9. code' \in [Script -> Seq(ImportType)]
  BY <1>7, <1>8 DEF Types
<1>10. ASSUME NEW s \in Script, NEW k \in 1 .. Len(code'[s])
       PROVE  code'[s][k].script \in cached
  <2>1. CASE s = Current
    BY <1>2, <1>8, <2>1 DEF Inv, AllCached
  <2>2. CASE s # Current
    BY <1>7, <2>2 DEF Inv, AllCached
  <2>3. QED
    BY <2>1, <2>2
<1>11. QED
  BY <1>1, <1>5, <1>9, <1>10 DEF GoesOn

-----------------------------------------------------------------------------
LEMMA DistinctScripts ==
  ASSUME NEW c, Len(c) \in Nat
  PROVE  Distinct([i \in 1 .. Len(c) |-> c[i].script]) <=>
           \A i, j \in 1 .. Len(c) : c[i].script = c[j].script => i = j
<1>1. Len([i \in 1 .. Len(c) |-> c[i].script]) = Len(c)
  OBVIOUS
<1>2. QED
  BY <1>1 DEF Distinct

(* A compilation begins: of a script that no compiler has. *)
LEMMA BeginningKeeps ==
  ASSUME Types, Inv, NEW p \in Script, NEW outer \in Seq(CompilerType),
         Len(outer) = Len(compilers),
         \A i \in 1 .. Len(compilers) :
           /\ SameCompilation(outer[i], compilers[i]) /\ outer[i].refs = compilers[i].refs
           /\ outer[i].importing \in cached \cup {p, None}
           /\ compilers[i].script # p,
         frames = <<>>, Cache(p), Compile(outer, p),
         UNCHANGED <<globals, functions, initialized, frames, held, kept, ran>>
  PROVE  Types' /\ Inv'
<1> DEFINE N == Len(compilers)
<1>1. /\ N \in Nat
      /\ compilers' = Append(outer, NewCompiler(p))
      /\ code' = [c \in Script |->
                   IF c = p THEN <<>>
                   ELSE IF outer # <<>> /\ c = Last(outer).script THEN Append(code[c], Import(p))
                   ELSE code[c]]
  BY DEF Compile, Types
<1>2. /\ NewCompiler(p) \in CompilerType /\ NewCompiler(p).script = p
      /\ NewCompiler(p).importing = None /\ NewCompiler(p).refs = {}
      /\ NewCompiler(p).globals = Len(globals[p])
      /\ NewCompiler(p).functions = Len(functions[p])
  BY DEF NewCompiler, CompilerType, Types
<1>3. /\ compilers' \in Seq(CompilerType) /\ Len(compilers') = N + 1
      /\ compilers'[N + 1] = NewCompiler(p)
      /\ \A i \in 1 .. N : compilers'[i] = outer[i]
  BY <1>1, <1>2, AppendProperties
<1>4. cached' = cached \cup {p} /\ file' = IF p \in cached THEN file ELSE [file EXCEPT ![p] = p]
  BY DEF Cache
<1>5. Import(p) \in ImportType /\ Import(p).script = p
  BY DEF Import, ImportType
<1>6. ASSUME NEW c \in Script
      PROVE  /\ code'[c] \in Seq(ImportType)
             /\ \A k \in 1 .. Len(code'[c]) : code'[c][k].script \in cached'
  <2>1. /\ code[c] \in Seq(ImportType) /\ Len(code[c]) \in Nat
        /\ \A k \in 1 .. Len(code[c]) : code[c][k].script \in cached'
    BY <1>4 DEF Types, Inv, AllCached
  <2>2. CASE code'[c] = <<>>
    BY <2>2
  <2>3. CASE code'[c] = code[c]
    BY <2>1, <2>3
  <2>4. CASE code'[c] = Append(code[c], Import(p))
    <3>1. /\ code'[c] \in Seq(ImportType) /\ Len(code'[c]) = Len(code[c]) + 1
          /\ code'[c][Len(code[c]) + 1] = Import(p)
          /\ \A k \in 1 .. Len(code[c]) : code'[c][k] = code[c][k]
      BY <1>5, <2>1, <2>4, AppendProperties
    <3>2. ASSUME NEW k \in 1 .. Len(code'[c]), k # Len(code[c]) + 1
          PROVE  k \in 1 .. Len(code[c])
      BY <2>1, <3>1, <3>2
    <3>3. QED
      BY <1>4, <1>5, <2>1, <3>1, <3>2
  <2>5. QED
    BY <1>1, <2>2, <2>3, <2>4
<1>7. Types'
  <2>1. code' \in [Script -> Seq(ImportType)]
    BY <1>1, <1>6
  <2>2. cached' \in SUBSET Script /\ file' \in [Script -> Script \cup {None}]
    BY <1>4 DEF Types
  <2>3. QED
    BY <1>3, <2>1, <2>2 DEF Types
<1>8. AllCached'
  <2>1. ASSUME NEW s \in Script
        PROVE  file'[s] \in cached' \cup {None} /\ (s \in cached' => file'[s] # None)
    <3>1. file \in [Script -> Script \cup {None}] /\ file[s] \in cached \cup {None}
          /\ (s \in cached => file[s] # None)
      BY DEF Types, Inv, AllCached
    <3>2. file'[s] = IF p \in cached \/ s # p THEN file[s] ELSE p
      BY <1>4, <3>1
    <3>3. p # None
      BY ImportsAssumption
    <3>4. QED
      BY <1>4, <3>1, <3>2, <3>3
  <2>2. ASSUME NEW i \in 1 .. N + 1
        PROVE  compilers'[i].script \in cached' /\ compilers'[i].importing \in cached' \cup {None}
    <3>1. CASE i = N + 1
      BY <1>2, <1>3, <1>4, <3>1
    <3>2. CASE i # N + 1
      <4>1. i \in 1 .. N
        BY <1>1, <3>2
      <4>2. QED
        BY <1>3, <1>4, <4>1 DEF Inv, AllCached, SameCompilation
    <3>3. QED
      BY <3>1, <3>2
  <2>3. \A i \in 1 .. Len(frames') : frames'[i].script \in cached'
    OBVIOUS
  <2>4. QED
    BY <1>3, <1>6, <2>1, <2>2, <2>3 DEF AllCached
<1>9. Runs' /\ ImportedIsReady'
  BY DEF Inv, Runs, ImportedIsReady
<1>10. OneCompilerPerScript'
  <2>1. ASSUME NEW i \in 1 .. N + 1, NEW j \in 1 .. N + 1,
               compilers'[i].script = compilers'[j].script
        PROVE  i = j
    <3>1. \A k \in 1 .. N + 1 : k # N + 1 => k \in 1 .. N
      BY <1>1, BelowLast
    <3>2. \A k \in 1 .. N : compilers'[k].script = compilers[k].script
      BY <1>3 DEF SameCompilation
    <3>3. CASE i = N + 1 \/ j = N + 1
      BY <1>2, <1>3, <2>1, <3>1, <3>2, <3>3
    <3>4. CASE i # N + 1 /\ j # N + 1
      <4>1. i \in 1 .. N /\ j \in 1 .. N /\ compilers[i].script = compilers[j].script
        BY <2>1, <3>1, <3>2, <3>4
      <4>2. QED
        BY <1>1, <4>1, DistinctScripts DEF Inv, Apart, OneCompilerPerScript
    <3>5. QED
      BY <3>3, <3>4
  <2>2. Len(compilers') \in Nat /\ Len(compilers') = N + 1
    BY <1>1, <1>3
  <2>3. \A i, j \in 1 .. Len(compilers') :
          compilers'[i].script = compilers'[j].script => i = j
    BY <2>1, <2>2
  <2>4. QED
    BY <2>2, <2>3, DistinctScripts DEF OneCompilerPerScript
<1>11. FailedLeavesNoName'
  <2>1. ASSUME NEW s \in Script, s \notin {compilers'[i].script : i \in 1 .. N + 1}
        PROVE  s \notin {compilers[i].script : i \in 1 .. N}
    BY <1>1, <1>3, <2>1 DEF SameCompilation
  <2>2. QED
    BY <1>3, <2>1 DEF Inv, Apart, FailedLeavesNoName
<1>12. ASSUME NEW i \in 1 .. N + 1
       PROVE  LET d == compilers'[i] IN
              /\ d.globals = Len(kept[d.script].globals)
              /\ d.functions = Len(kept[d.script].functions)
              /\ \A r \in d.refs : Right(r, globals[d.script], functions[d.script])
  <2>1. CASE i = N + 1
    <3>1. p \notin {compilers[k].script : k \in 1 .. N}
      OBVIOUS
    <3>2. globals[p] = kept[p].globals /\ functions[p] = kept[p].functions
      BY <3>1 DEF Inv, Apart, FailedLeavesNoName
    <3>3. QED
      BY <1>2, <1>3, <2>1, <3>2
  <2>2. CASE i # N + 1
    <3>1. i \in 1 .. N
      BY <1>1, <2>2
    <3>2. QED
      BY <1>3, <3>1 DEF Inv, Apart, SameCompilation
  <2>3. QED
    BY <2>1, <2>2
<1>13. Apart'
  BY <1>3, <1>10, <1>11, <1>12 DEF Inv, Apart
<1>14. QED
  BY <1>7, <1>8, <1>9, <1>13 DEF Inv

LEMMA InterpretKeeps ==
  ASSUME Types, Inv, NEW s \in Script, Interpret(s)
  PROVE  Types' /\ Inv'
<1>1. /\ compilers = <<>> /\ frames = <<>> /\ Cache(s) /\ Compile(<<>>, s)
      /\ UNCHANGED <<globals, functions, initialized, frames, held, kept, ran>>
  BY DEF Interpret
<1>2. <<>> \in Seq(CompilerType) /\ Len(<<>>) = Len(compilers)
  BY <1>1
<1>3. \A i \in 1 .. Len(compilers) : FALSE
  BY <1>1
<1>4. QED
  BY <1>1, <1>2, <1>3, BeginningKeeps

LEMMA ImportFileKeeps ==
  ASSUME Types, Inv, NEW p \in Script, ImportFile(p)
  PROVE  Types' /\ Inv'
<1> DEFINE c == [Compiler EXCEPT !.importing = p]
           outer == Append(Front(compilers), c)
           N == Len(compilers)
<1>1. /\ compilers # <<>> /\ p \notin cached /\ Cache(p) /\ Compile(outer, p)
      /\ UNCHANGED <<globals, functions, initialized, frames, held, kept, ran>>
  BY DEF ImportFile, Compiling
<1>2. /\ compilers \in Seq(CompilerType) /\ Compiler \in CompilerType
      /\ Compiler = compilers[N] /\ N \in Nat \ {0}
  BY <1>1, CompilerTyped DEF Types
<1>3. /\ c \in CompilerType /\ SameCompilation(c, Compiler)
      /\ c.refs = Compiler.refs /\ c.importing = p
  BY <1>2 DEF CompilerType, SameCompilation
<1> HIDE DEF c
<1>4. /\ outer \in Seq(CompilerType) /\ Len(outer) = N /\ outer[N] = c
      /\ \A i \in 1 .. N - 1 : outer[i] = compilers[i]
  BY <1>1, <1>2, <1>3, Replaced
<1> HIDE DEF outer
<1>5. ASSUME NEW i \in 1 .. N
      PROVE  /\ SameCompilation(outer[i], compilers[i]) /\ outer[i].refs = compilers[i].refs
             /\ outer[i].importing \in cached \cup {p, None}
             /\ compilers[i].script # p
  <2>1. /\ compilers[i].script \in cached
        /\ compilers[i].importing \in cached \cup {None}
    BY DEF Inv, AllCached
  <2>2. CASE i = N
    BY <1>1, <1>2, <1>3, <1>4, <2>1, <2>2
  <2>3. CASE i # N
    <3>1. i \in 1 .. N - 1
      BY <1>2, <2>3
    <3>2. QED
      BY <1>1, <1>4, <2>1, <3>1 DEF SameCompilation
  <2>4. QED
    BY <2>2, <2>3
<1>6. frames = <<>>
  BY <1>1 DEF Inv, Runs
<1>7. QED
  BY <1>1, <1>4, <1>5, <1>6, BeginningKeeps

-----------------------------------------------------------------------------
(* A compilation ends: its names are discarded, or kept with the code that *)
(* refers to them.                                                         *)
LEMMA EndingKeepsApart ==
  ASSUME Types, Inv, compilers # <<>>, NEW rest \in Seq(CompilerType),
         Len(rest) = Len(compilers) - 1,
         \A i \in 1 .. Len(compilers) - 1 :
           SameCompilation(rest[i], compilers[i]) /\ rest[i].refs = compilers[i].refs,
         compilers' = rest,
         (Discard /\ UNCHANGED <<held, kept>>) \/ Keep
  PROVE  /\ globals' \in [Script -> Seq(Name)] /\ functions' \in [Script -> Seq(Name)]
         /\ held' \in [Script -> SUBSET Refs] /\ kept' \in [Script -> Tables]
         /\ Apart'
<1> DEFINE N == Len(compilers)
           s == Current
<1>1. /\ Compiler \in CompilerType /\ s \in Script /\ N \in Nat \ {0}
      /\ Compiler = compilers[N] /\ s = Compiler.script
  BY CompilerTyped DEF Current
<1>2. /\ globals[s] \in Seq(Name) /\ functions[s] \in Seq(Name)
      /\ kept[s].globals \in Seq(Name) /\ kept[s].functions \in Seq(Name)
      /\ Begins(kept[s].globals, globals[s]) /\ Begins(kept[s].functions, functions[s])
      /\ Compiler.globals = Len(kept[s].globals) /\ Compiler.functions = Len(kept[s].functions)
      /\ Distinct(globals[s] \o functions[s])
      /\ \A r \in Compiler.refs : Right(r, globals[s], functions[s])
  <2>1. /\ globals[s] \in Seq(Name) /\ functions[s] \in Seq(Name)
        /\ kept[s].globals \in Seq(Name) /\ kept[s].functions \in Seq(Name)
    BY <1>1 DEF Types, Tables
  <2>2. /\ Begins(kept[s].globals, globals[s]) /\ Begins(kept[s].functions, functions[s])
        /\ Distinct(globals[s] \o functions[s])
    BY <1>1 DEF Inv, Apart
  <2>3. N \in 1 .. Len(compilers)
    BY <1>1
  <2>4. LET c == compilers[N] IN
        /\ c.globals = Len(kept[c.script].globals) /\ c.functions = Len(kept[c.script].functions)
        /\ \A r \in c.refs : Right(r, globals[c.script], functions[c.script])
    BY <2>3 DEF Inv, Apart
  <2>5. QED
    BY <1>1, <2>1, <2>2, <2>4
<1>3. \A i \in 1 .. N - 1 : compilers[i].script \in Script /\ compilers[i].script # s
  <2>1. \A i \in 1 .. N - 1 : i \in 1 .. N /\ N \in 1 .. N /\ i # N
    BY <1>1
  <2>2. \A i \in 1 .. N : compilers[i] \in CompilerType
    BY <1>1, ElementOfSeq DEF Types
  <2>3. \A i, j \in 1 .. N : compilers[i].script = compilers[j].script => i = j
    BY <1>1, DistinctScripts DEF Inv, Apart, OneCompilerPerScript
  <2>4. QED
    BY <1>1, <2>1, <2>2, <2>3 DEF CompilerType
<1>4. /\ globals' \in [Script -> Seq(Name)] /\ functions' \in [Script -> Seq(Name)]
      /\ held' \in [Script -> SUBSET Refs] /\ kept' \in [Script -> Tables]
      /\ Distinct(globals'[s] \o functions'[s])
      /\ globals'[s] = kept'[s].globals /\ functions'[s] = kept'[s].functions
      /\ \A r \in held'[s] : Right(r, kept'[s].globals, kept'[s].functions)
      /\ \A t \in Script : t # s => /\ globals'[t] = globals[t] /\ functions'[t] = functions[t]
                                   /\ kept'[t] = kept[t] /\ held'[t] = held[t]
  <2>1. CASE Discard /\ UNCHANGED <<held, kept>>
    <3> DEFINE g == SubSeq(globals[s], 1, Compiler.globals)
               f == SubSeq(functions[s], 1, Compiler.functions)
    <3>1. globals' = [globals EXCEPT ![s] = g] /\ functions' = [functions EXCEPT ![s] = f]
      BY <2>1 DEF Discard, Truncate
    <3>2. /\ Len(kept[s].globals) \in 0 .. Len(globals[s])
          /\ Len(kept[s].functions) \in 0 .. Len(functions[s])
      BY <1>2 DEF Begins
    <3>3. g = kept[s].globals
      <4>1. /\ g \in Seq(Name) /\ Len(g) = Len(kept[s].globals)
            /\ \A i \in 1 .. Len(kept[s].globals) : g[i] = globals[s][i]
        BY <1>2, <3>2, Truncated
      <4> HIDE DEF g
      <4>2. \A i \in 1 .. Len(g) : g[i] = kept[s].globals[i]
        BY <1>2, <4>1 DEF Begins
      <4>3. \A u, v \in Seq(Name) :
              Len(u) = Len(v) /\ (\A i \in 1 .. Len(u) : u[i] = v[i]) => u = v
        OBVIOUS
      <4>4. kept[s].globals \in Seq(Name)
        BY <1>2
      <4>5. QED
        BY <4>1, <4>2, <4>3, <4>4
    <3>4. f = kept[s].functions
      <4>1. /\ f \in Seq(Name) /\ Len(f) = Len(kept[s].functions)
            /\ \A i \in 1 .. Len(kept[s].functions) : f[i] = functions[s][i]
        BY <1>2, <3>2, Truncated
      <4> HIDE DEF f
      <4>2. \A i \in 1 .. Len(f) : f[i] = kept[s].functions[i]
        BY <1>2, <4>1 DEF Begins
      <4>3. \A u, v \in Seq(Name) :
              Len(u) = Len(v) /\ (\A i \in 1 .. Len(u) : u[i] = v[i]) => u = v
        OBVIOUS
      <4>4. kept[s].functions \in Seq(Name)
        BY <1>2
      <4>5. QED
        BY <4>1, <4>2, <4>3, <4>4
    <3> HIDE DEF f, g
    <3>5. Distinct(g \o f)
      BY <1>2, <3>3, <3>4, DistinctBegins
    <3>6. \A r \in held[s] : Right(r, kept[s].globals, kept[s].functions)
      BY <1>1 DEF Inv, Apart
    <3>7. QED
      BY <1>1, <1>2, <2>1, <3>1, <3>3, <3>4, <3>5, <3>6 DEF Types
  <2>2. CASE Keep
    <3> DEFINE more == Compiler.refs \cup Resolved
    <3>1. more \in SUBSET Refs /\ \A r \in more : Right(r, globals[s], functions[s])
      <4>1. \A n \in Compiler.forwards : n \in Name
        BY <1>1 DEF CompilerType
      <4>2. \A n \in Compiler.forwards :
              Found(s, n) \in SUBSET Refs /\ \A r \in Found(s, n) : Right(r, globals[s], functions[s])
        BY <1>1, <4>1, FoundRight
      <4>3. Resolved \in SUBSET Refs /\ \A r \in Resolved : Right(r, globals[s], functions[s])
        BY <4>2 DEF Resolved
      <4>4. QED
        BY <1>1, <1>2, <4>3 DEF CompilerType
    <3>2. /\ held' = [held EXCEPT ![s] = @ \cup Compiler.refs \cup Resolved]
          /\ kept' = [kept EXCEPT ![s] = [globals |-> globals[s], functions |-> functions[s]]]
          /\ globals' = globals /\ functions' = functions
      BY <2>2 DEF Keep, tables
    <3>3. held'[s] = held[s] \cup more /\ held[s] \in SUBSET Refs
      BY <1>1, <3>2 DEF Types
    <3> HIDE DEF more
    <3>4. \A r \in held[s] : Right(r, globals[s], functions[s])
      <4>1. ASSUME NEW r \in held[s]
            PROVE  Right(r, globals[s], functions[s])
        <5>1. r \in Refs /\ Right(r, kept[s].globals, kept[s].functions)
          BY <1>1, <3>3 DEF Inv, Apart
        <5>2. QED
          BY <1>2, <5>1, StaysRight
      <4>2. QED
        BY <4>1
    <3>5. held' \in [Script -> SUBSET Refs] /\ kept' \in [Script -> Tables]
      BY <1>1, <1>2, <3>1, <3>2, <3>3 DEF Types, Tables, more
    <3>6. kept'[s] = [globals |-> globals[s], functions |-> functions[s]]
      BY <1>1, <3>2 DEF Types
    <3>7. \A r \in held'[s] : Right(r, globals[s], functions[s])
      BY <3>1, <3>3, <3>4
    <3>8. \A t \in Script : t # s => kept'[t] = kept[t] /\ held'[t] = held[t]
      BY <3>2 DEF Types
    <3>9. QED
      BY <1>2, <3>2, <3>5, <3>6, <3>7, <3>8 DEF Types
  <2>3. QED
    BY <2>1, <2>2
<1>5. OneCompilerPerScript'
  <2>1. \A i \in 1 .. N - 1 : i \in 1 .. N /\ rest[i].script = compilers[i].script
    BY <1>1 DEF SameCompilation
  <2>2. \A i, j \in 1 .. N : compilers[i].script = compilers[j].script => i = j
    BY <1>1, DistinctScripts DEF Inv, Apart, OneCompilerPerScript
  <2>3. \A i, j \in 1 .. Len(rest) : rest[i].script = rest[j].script => i = j
    BY <2>1, <2>2
  <2>4. Len(rest) \in Nat
    OBVIOUS
  <2>5. QED
    BY <2>3, <2>4, DistinctScripts DEF OneCompilerPerScript
<1>6. FailedLeavesNoName'
  <2>1. ASSUME NEW t \in Script, t # s, t \notin {rest[i].script : i \in 1 .. N - 1}
        PROVE  t \notin {compilers[i].script : i \in 1 .. N}
    <3>1. SUFFICES ASSUME NEW i \in 1 .. N, t = compilers[i].script PROVE FALSE
      OBVIOUS
    <3>2. i \in 1 .. N - 1
      BY <1>1, <2>1, <3>1
    <3>3. QED
      BY <2>1, <3>1, <3>2 DEF SameCompilation
  <2>2. \A t \in Script : t \notin {compilers[i].script : i \in 1 .. N} =>
          globals[t] = kept[t].globals /\ functions[t] = kept[t].functions
    BY DEF Inv, Apart, FailedLeavesNoName
  <2>3. QED
    BY <1>4, <2>1, <2>2 DEF FailedLeavesNoName
<1>7. ASSUME NEW i \in 1 .. N - 1
      PROVE  LET d == rest[i] IN
             /\ d.globals = Len(kept'[d.script].globals)
             /\ d.functions = Len(kept'[d.script].functions)
             /\ \A r \in d.refs : Right(r, globals'[d.script], functions'[d.script])
  <2>1. i \in 1 .. N
    BY <1>1
  <2>2. LET d == compilers[i] IN
        /\ d.globals = Len(kept[d.script].globals)
        /\ d.functions = Len(kept[d.script].functions)
        /\ \A r \in d.refs : Right(r, globals[d.script], functions[d.script])
    BY <2>1 DEF Inv, Apart
  <2>3. /\ rest[i].script = compilers[i].script /\ rest[i].globals = compilers[i].globals
        /\ rest[i].functions = compilers[i].functions /\ rest[i].refs = compilers[i].refs
    BY DEF SameCompilation
  <2>4. /\ globals'[compilers[i].script] = globals[compilers[i].script]
        /\ functions'[compilers[i].script] = functions[compilers[i].script]
        /\ kept'[compilers[i].script] = kept[compilers[i].script]
    BY <1>3, <1>4
  <2>5. QED
    BY <2>2, <2>3, <2>4
<1>8. ASSUME NEW t \in Script
      PROVE  /\ Distinct(globals'[t] \o functions'[t])
             /\ Begins(kept'[t].globals, globals'[t]) /\ Begins(kept'[t].functions, functions'[t])
             /\ \A r \in held'[t] : Right(r, kept'[t].globals, kept'[t].functions)
  <2>1. CASE t = s
    <3>1. globals'[s] \in Seq(Name) /\ functions'[s] \in Seq(Name)
      BY <1>1, <1>4
    <3>2. Begins(globals'[s], globals'[s]) /\ Begins(functions'[s], functions'[s])
      BY <3>1 DEF Begins
    <3>3. QED
      BY <1>4, <2>1, <3>2
  <2>2. CASE t # s
    BY <1>4, <2>2 DEF Inv, Apart
  <2>3. QED
    BY <2>1, <2>2
<1>9. QED
  BY <1>4, <1>5, <1>6, <1>7, <1>8 DEF Apart

LEMMA EndImportedKeeps ==
  ASSUME Types, Inv, EndImported
  PROVE  Types' /\ Inv'
<1> DEFINE N == Len(compilers)
           outer == Front(compilers)
           c == [Last(outer) EXCEPT !.errors = @ \/ Failed]
           rest == Append(Front(outer), c)
<1>1. /\ compilers # <<>> /\ N > 1 /\ compilers' = rest
      /\ (Discard /\ UNCHANGED <<held, kept>>) \/ Keep
      /\ UNCHANGED <<cached, code, file, initialized, frames, ran>>
  BY DEF EndImported, Compiling
<1>2. compilers \in Seq(CompilerType) /\ N \in Nat
  BY DEF Types
<1>3. /\ outer \in Seq(CompilerType) /\ Len(outer) = N - 1
      /\ \A i \in 1 .. N - 1 : outer[i] = compilers[i]
  BY <1>1, <1>2, FrontOf
<1> HIDE DEF outer
<1>4. outer # <<>> /\ Last(outer) \in CompilerType /\ Last(outer) = outer[N - 1]
  BY <1>1, <1>2, <1>3, LastOf DEF Last
<1>5. /\ c \in CompilerType /\ SameCompilation(c, Last(outer))
      /\ c.refs = Last(outer).refs /\ c.importing = Last(outer).importing
  <2>1. Failed \in BOOLEAN
    <3>1. Compiler.errors \in BOOLEAN
      BY <1>1, CompilerTyped DEF CompilerType
    <3>2. QED
      BY <3>1 DEF Failed
  <2> HIDE DEF Failed
  <2>2. QED
    BY <1>4 DEF CompilerType, SameCompilation
<1> HIDE DEF c
<1>6. /\ rest \in Seq(CompilerType) /\ Len(rest) = N - 1 /\ rest[N - 1] = c
      /\ \A i \in 1 .. N - 2 : rest[i] = compilers[i]
  <2>1. /\ rest \in Seq(CompilerType) /\ Len(rest) = Len(outer) /\ rest[Len(outer)] = c
        /\ \A i \in 1 .. Len(outer) - 1 : rest[i] = outer[i]
    BY <1>3, <1>4, <1>5, Replaced
  <2>2. Len(outer) - 1 = N - 2 /\ \A i \in 1 .. N - 2 : i \in 1 .. N - 1
    BY <1>2, <1>3
  <2>3. QED
    BY <1>3, <2>1, <2>2
<1> HIDE DEF rest
<1>7. ASSUME NEW i \in 1 .. N - 1
      PROVE  /\ SameCompilation(rest[i], compilers[i]) /\ rest[i].refs = compilers[i].refs
             /\ rest[i].importing = compilers[i].importing
  <2>1. CASE i = N - 1
    BY <1>3, <1>4, <1>5, <1>6, <2>1
  <2>2. CASE i # N - 1
    <3>1. i \in 1 .. N - 2
      BY <1>2, <2>2
    <3>2. QED
      BY <1>6, <3>1 DEF SameCompilation
  <2>3. QED
    BY <2>1, <2>2
<1>8. /\ globals' \in [Script -> Seq(Name)] /\ functions' \in [Script -> Seq(Name)]
      /\ held' \in [Script -> SUBSET Refs] /\ kept' \in [Script -> Tables]
      /\ Apart'
  BY <1>1, <1>6, <1>7, EndingKeepsApart
<1>9. Types'
  BY <1>1, <1>6, <1>8 DEF Types
<1>10. frames = <<>> /\ frames' = <<>>
  BY <1>1 DEF Inv, Runs
<1>11. AllCached'
  <2>1. ASSUME NEW i \in 1 .. N - 1
        PROVE  rest[i].script \in cached /\ rest[i].importing \in cached \cup {None}
    <3>1. i \in 1 .. Len(compilers)
      BY <1>2
    <3>2. QED
      BY <1>7, <3>1 DEF Inv, AllCached, SameCompilation
  <2>2. QED
    BY <1>1, <1>6, <1>10, <2>1 DEF Inv, AllCached
<1>12. Runs' /\ ImportedIsReady'
  BY <1>1, <1>10 DEF Inv, Runs, ImportedIsReady
<1>13. QED
  BY <1>8, <1>9, <1>11, <1>12 DEF Inv

LEMMA EndInterpretedKeeps ==
  ASSUME Types, Inv, EndInterpreted
  PROVE  Types' /\ Inv'
<1> DEFINE s == Current
<1>1. /\ compilers # <<>> /\ Len(compilers) = 1 /\ compilers' = <<>>
      /\ (Discard /\ UNCHANGED <<held, kept>>) \/ Keep
      /\ UNCHANGED <<cached, code, file>>
  BY DEF EndInterpreted, Compiling
<1>2. <<>> \in Seq(CompilerType) /\ Len(<<>>) = Len(compilers) - 1
      /\ \A i \in 1 .. Len(compilers) - 1 : FALSE
  BY <1>1
<1>3. /\ globals' \in [Script -> Seq(Name)] /\ functions' \in [Script -> Seq(Name)]
      /\ held' \in [Script -> SUBSET Refs] /\ kept' \in [Script -> Tables]
      /\ Apart'
  BY <1>1, <1>2, EndingKeepsApart
<1>4. frames = <<>> /\ s \in Script /\ s \in cached
  BY <1>1, CompilerTyped DEF Inv, Runs, AllCached, Current
<1>5. CASE UNCHANGED <<initialized, frames, ran>>
  <2>1. Types'
    BY <1>1, <1>3, <1>5 DEF Types
  <2>2. AllCached'
    BY <1>1, <1>4, <1>5 DEF Inv, AllCached
  <2>3. Runs' /\ ImportedIsReady'
    BY <1>1, <1>4, <1>5 DEF Inv, Runs, ImportedIsReady
  <2>4. QED
    BY <1>3, <2>1, <2>2, <2>3 DEF Inv
<1>6. CASE /\ initialized' = [initialized EXCEPT ![s] = TRUE]
           /\ frames' = <<NewFrame(s)>>
           /\ ran' = [ran EXCEPT ![s] = "running"]
  <2>1. /\ frames' \in Seq(FrameType) /\ Len(frames') = 1
        /\ frames'[1].script = s /\ frames'[1].pc = 0
    <3>1. NewFrame(s) \in FrameType /\ NewFrame(s).script = s /\ NewFrame(s).pc = 0
      BY <1>4 DEF NewFrame, FrameType
    <3>2. QED
      BY <1>6, <3>1
  <2>2. Types'
    <3>1. /\ initialized' \in [Script -> BOOLEAN]
          /\ ran' \in [Script -> {"new", "running", "ended"}]
      BY <1>6 DEF Types
    <3>2. compilers' \in Seq(CompilerType)
      BY <1>1
    <3>3. QED
      BY <1>1, <1>3, <2>1, <3>1, <3>2 DEF Types
  <2>3. AllCached'
    BY <1>1, <1>4, <2>1 DEF Inv, AllCached
  <2>4. Runs'
    <3>1. ASSUME NEW t \in Script
          PROVE  /\ initialized'[t] <=> ran'[t] # "new"
                 /\ ran'[t] = "running" => \E j \in 1 .. Len(frames') : frames'[j].script = t
      <4>1. CASE t = s
        BY <1>4, <1>6, <2>1, <4>1 DEF Types
      <4>2. CASE t # s
        <5>1. initialized'[t] = initialized[t] /\ ran'[t] = ran[t]
          BY <1>6, <4>2 DEF Types
        <5>2. ran[t] # "running"
          BY <1>4 DEF Inv, Runs
        <5>3. QED
          BY <5>1, <5>2 DEF Inv, Runs
      <4>3. QED
        BY <4>1, <4>2
    <3>2. Len(code[s]) \in Nat /\ initialized'[s]
      BY <1>4, <1>6 DEF Types
    <3>3. QED
      BY <1>1, <2>1, <3>1, <3>2 DEF Runs
  <2>5. ImportedIsReady'
    BY <2>1 DEF ImportedIsReady
  <2>6. QED
    BY <1>3, <2>2, <2>3, <2>4, <2>5 DEF Inv
<1>7. QED
  BY <1>5, <1>6 DEF EndInterpreted

-----------------------------------------------------------------------------
(* Bodies run: nothing is being compiled. *)
LEMMA TopTyped ==
  ASSUME Types, frames # <<>>
  PROVE  /\ Top \in FrameType /\ Top.script \in Script /\ Top.pc \in Nat
         /\ Len(frames) \in Nat \ {0} /\ Len(frames) \in 1 .. Len(frames)
         /\ Top = frames[Len(frames)]
<1>1. frames \in Seq(FrameType)
  BY DEF Types
<1>2. Len(frames) \in Nat \ {0} /\ Top \in FrameType
  BY <1>1, LastOf DEF Top
<1>3. QED
  BY <1>2 DEF FrameType, Top, Last

LEMMA RunningKeepsApart ==
  ASSUME Types, Inv, UnchangedByRunning
  PROVE  Apart'
<1>1. Apart
  BY DEF Inv
<1>2. QED
  BY <1>1 DEF UnchangedByRunning, Apart, OneCompilerPerScript, FailedLeavesNoName

(* An import is a place in the code, and what it imports is in the cache. *)
LEMMA ImportTyped ==
  ASSUME Types, Inv, AtImport
  PROVE  /\ frames # <<>> /\ Top.pc + 1 \in 1 .. Len(code[Top.script])
         /\ Imported \in Script /\ Imported \in cached
         /\ Imported = code[Top.script][Top.pc + 1].script
<1>1. /\ frames # <<>> /\ Top.pc < Len(code[Top.script])
  BY DEF AtImport
<1>2. Top.script \in Script /\ Top.pc \in Nat
  BY <1>1, TopTyped
<1>3. Len(code[Top.script]) \in Nat
  BY <1>2 DEF Types
<1>4. Top.pc + 1 \in 1 .. Len(code[Top.script])
  BY <1>1, <1>2, <1>3
<1>5. QED
  BY <1>1, <1>2, <1>4 DEF Types, Inv, AllCached, Imported

LEMMA StoredTyped ==
  ASSUME Types, Inv, NEW f \in FrameType, NEW k \in 1 .. Len(code[f.script])
  PROVE  /\ Stored(f, k) \in [Script -> Script \cup {None}]
         /\ \A s \in Script : /\ Stored(f, k)[s] \in cached \cup {None}
                              /\ (s \in cached => Stored(f, k)[s] # None)
<1>1. f.script \in Script
  BY DEF FrameType
<1>2. code[f.script][k].script \in cached /\ code[f.script][k].script \in Script
  BY <1>1 DEF Types, Inv, AllCached
<1>3. file[code[f.script][k].script] \in cached
  BY <1>2 DEF Inv, AllCached
<1>4. None \notin cached
  BY ImportsAssumption DEF Types
<1>5. Stored(f, k) \in {file, [file EXCEPT ![f.script] = file[code[f.script][k].script]]}
  BY DEF Stored
<1>6. file \in [Script -> Script \cup {None}] /\ cached \in SUBSET Script
  BY DEF Types
<1>7. \A s \in Script : file[s] \in cached \cup {None} /\ (s \in cached => file[s] # None)
  BY DEF Inv, AllCached
<1> HIDE DEF Stored
<1>8. QED
  BY <1>1, <1>3, <1>4, <1>5, <1>6, <1>7

(* The frame at the top goes behind its import; and maybe another is pushed. *)
Stepped == Append(Front(frames), [Top EXCEPT !.pc = @ + 1])

LEMMA SteppedTyped ==
  ASSUME Types, Inv, AtImport
  PROVE  /\ Stepped \in Seq(FrameType) /\ Len(Stepped) = Len(frames)
         /\ \A i \in 1 .. Len(frames) - 1 : Stepped[i] = frames[i]
         /\ Stepped[Len(frames)].script = Top.script
         /\ Stepped[Len(frames)].pc = Top.pc + 1
         /\ \A i \in 1 .. Len(frames) : /\ Stepped[i].script = frames[i].script
                                       /\ Stepped[i].script \in Script
<1> DEFINE f == [Top EXCEPT !.pc = @ + 1]
           N == Len(frames)
<1>1. frames # <<>> /\ Top \in FrameType /\ frames \in Seq(FrameType) /\ Top = frames[N]
      /\ N \in Nat \ {0}
  BY TopTyped DEF AtImport, Types
<1>2. f \in FrameType /\ f.script = Top.script /\ f.pc = Top.pc + 1
  BY <1>1 DEF FrameType
<1> HIDE DEF f
<1>3. /\ Stepped \in Seq(FrameType) /\ Len(Stepped) = N
      /\ Stepped[N] = f
      /\ \A i \in 1 .. N - 1 : Stepped[i] = frames[i]
  BY <1>1, <1>2, Replaced DEF Stepped, f
<1>4. ASSUME NEW i \in 1 .. N
      PROVE  Stepped[i].script = frames[i].script /\ Stepped[i].script \in Script
  <2>1. Stepped[i] \in FrameType
    BY <1>3, ElementOfSeq
  <2>2. CASE i = N
    BY <1>1, <1>2, <1>3, <2>1, <2>2 DEF FrameType
  <2>3. CASE i # N
    <3>1. i \in 1 .. N - 1
      BY <1>1, <2>3
    <3>2. QED
      BY <1>3, <2>1, <3>1 DEF FrameType
  <2>4. QED
    BY <2>2, <2>3
<1>5. QED
  BY <1>2, <1>3, <1>4

LEMMA ImportAgainKeeps ==
  ASSUME Types, Inv, ImportAgain
  PROVE  Types' /\ Inv'
<1> DEFINE N == Len(frames)
<1>1. /\ AtImport /\ initialized[Imported] /\ frames' = Stepped
      /\ file' = Stored(Top, Top.pc + 1)
      /\ UNCHANGED <<initialized, ran>> /\ UnchangedByRunning
  BY DEF ImportAgain, Stepped
<1>2. /\ frames # <<>> /\ Top.pc + 1 \in 1 .. Len(code[Top.script])
      /\ Imported \in Script /\ Imported \in cached
      /\ Imported = code[Top.script][Top.pc + 1].script
  BY <1>1, ImportTyped
<1>3. /\ Top \in FrameType /\ Top.script \in Script /\ Top.pc \in Nat
      /\ N \in Nat \ {0} /\ N \in 1 .. N /\ Top = frames[N]
  BY <1>2, TopTyped
<1>4. /\ frames' \in Seq(FrameType) /\ Len(frames') = N
      /\ \A i \in 1 .. N - 1 : frames'[i] = frames[i]
      /\ frames'[N].script = Top.script /\ frames'[N].pc = Top.pc + 1
      /\ \A i \in 1 .. N : frames'[i].script = frames[i].script /\ frames'[i].script \in Script
  BY <1>1, SteppedTyped
<1>5. UNCHANGED <<cached, globals, functions, code, compilers, held, kept>>
  BY <1>1 DEF UnchangedByRunning
<1>6. /\ file' \in [Script -> Script \cup {None}]
      /\ \A s \in Script : file'[s] \in cached \cup {None} /\ (s \in cached => file'[s] # None)
  BY <1>1, <1>2, <1>3, StoredTyped
<1>7. Types'
  BY <1>1, <1>4, <1>5, <1>6 DEF Types
<1>8. AllCached'
  BY <1>4, <1>5, <1>6 DEF Inv, AllCached
<1>9. Runs'
  <2>1. ASSUME NEW i \in 1 .. N
        PROVE  /\ frames'[i].pc <= Len(code[frames'[i].script])
               /\ i < N => frames'[i].pc >= 1
               /\ initialized[frames'[i].script]
    <3>1. CASE i = N
      BY <1>2, <1>3, <1>4, <3>1 DEF Inv, Runs
    <3>2. CASE i # N
      <4>1. i \in 1 .. N - 1
        BY <1>3, <3>2
      <4>2. QED
        BY <1>4, <4>1 DEF Inv, Runs
    <3>3. QED
      BY <3>1, <3>2
  <2>2. compilers = <<>>
    BY <1>2 DEF Inv, Runs
  <2>3. \A s \in Script :
          /\ initialized[s] <=> ran[s] # "new"
          /\ ran[s] = "running" => \E j \in 1 .. N : frames'[j].script = s
    BY <1>4 DEF Inv, Runs
  <2>4. QED
    BY <1>1, <1>4, <1>5, <2>1, <2>2, <2>3 DEF Runs
<1>10. ImportedIsReady'
  <2>1. ASSUME NEW i \in 1 .. N, NEW k \in 1 .. frames'[i].pc
        PROVE  LET p == code[frames'[i].script][k].script IN
               \/ ran[p] = "ended"
               \/ \E j \in 1 .. i : frames'[j].script = p
               \/ k = frames'[i].pc /\ i < N /\ frames'[i + 1].script = p
    <3> DEFINE p == code[frames[i].script][k].script
    <3>0. \A j \in 1 .. i : j \in 1 .. N
      BY <1>3
    <3>1. CASE i = N /\ k = Top.pc + 1
      <4>1. ran[p] # "new" /\ p = Imported
        BY <1>1, <1>2, <1>3, <3>1 DEF Inv, Runs
      <4>2. ran[p] = "ended" \/ \E j \in 1 .. N : frames[j].script = p
        <5>1. p \in Script /\ ran[p] \in {"new", "running", "ended"}
          BY <1>2, <4>1 DEF Types
        <5>2. QED
          BY <4>1, <5>1 DEF Inv, Runs
      <4>3. QED
        BY <1>4, <3>1, <4>2
    <3>2. CASE ~(i = N /\ k = Top.pc + 1)
      <4>1. k \in 1 .. frames[i].pc
        <5>1. CASE i = N
          BY <1>3, <1>4, <3>2, <5>1
        <5>2. CASE i # N
          <6>1. i \in 1 .. N - 1
            BY <1>3, <5>2
          <6>2. QED
            BY <1>4, <6>1
        <5>3. QED
          BY <5>1, <5>2
      <4>2. \/ ran[p] = "ended"
            \/ \E j \in 1 .. i : frames[j].script = p
            \/ k = frames[i].pc /\ i < N /\ frames[i + 1].script = p
        BY <4>1 DEF Inv, ImportedIsReady
      <4>3. ASSUME i < N
            PROVE  i + 1 \in 1 .. N /\ i \in 1 .. N - 1
        BY <1>3, <4>3
      <4> HIDE DEF p
      <4>4. CASE i < N /\ k = frames[i].pc /\ frames[i + 1].script = p
        BY <1>4, <4>3, <4>4 DEF p
      <4>5. QED
        BY <1>4, <3>0, <4>2, <4>4 DEF p
    <3>3. QED
      BY <3>1, <3>2
  <2>2. QED
    BY <1>1, <1>4, <1>5, <2>1 DEF ImportedIsReady
<1>11. QED
  BY <1>1, <1>7, <1>8, <1>9, <1>10, RunningKeepsApart DEF Inv

LEMMA ImportFirstKeeps ==
  ASSUME Types, Inv, ImportFirst
  PROVE  Types' /\ Inv'
<1> DEFINE N == Len(frames)
           f == [Top EXCEPT !.pc = @ + 1]
           q == Imported
<1>1. /\ AtImport /\ ~initialized[q] /\ frames' = Front(frames) \o <<f, NewFrame(q)>>
      /\ initialized' = [initialized EXCEPT ![q] = TRUE]
      /\ ran' = [ran EXCEPT ![q] = "running"]
      /\ UNCHANGED file /\ UnchangedByRunning
  BY DEF ImportFirst
<1>2. /\ frames # <<>> /\ Top.pc + 1 \in 1 .. Len(code[Top.script])
      /\ q \in Script /\ q \in cached
      /\ q = code[Top.script][Top.pc + 1].script
  BY <1>1, ImportTyped
<1>3. /\ Top \in FrameType /\ Top.script \in Script /\ Top.pc \in Nat
      /\ N \in Nat \ {0} /\ N \in 1 .. N /\ Top = frames[N] /\ frames \in Seq(FrameType)
  BY <1>2, TopTyped DEF Types
<1>4. /\ Stepped \in Seq(FrameType) /\ Len(Stepped) = N
      /\ \A i \in 1 .. N - 1 : Stepped[i] = frames[i]
      /\ Stepped[N].script = Top.script /\ Stepped[N].pc = Top.pc + 1
      /\ \A i \in 1 .. N : Stepped[i].script = frames[i].script /\ Stepped[i].script \in Script
  BY <1>1, SteppedTyped
<1>5. NewFrame(q) \in FrameType /\ NewFrame(q).script = q /\ NewFrame(q).pc = 0
  BY <1>2 DEF NewFrame, FrameType
<1>6. frames' = Append(Stepped, NewFrame(q))
  <2>1. f \in FrameType
    BY <1>3 DEF FrameType
  <2>2. Front(frames) \in Seq(FrameType)
    BY <1>2, <1>3, FrontOf
  <2> HIDE DEF f
  <2>3. \A u \in Seq(FrameType) : \A a, b \in FrameType : u \o <<a, b>> = Append(Append(u, a), b)
    OBVIOUS
  <2>4. QED
    BY <1>1, <1>5, <2>1, <2>2, <2>3 DEF Stepped, f
<1> HIDE DEF f
<1>7. /\ frames' \in Seq(FrameType) /\ Len(frames') = N + 1
      /\ frames'[N + 1].script = q /\ frames'[N + 1].pc = 0
      /\ \A i \in 1 .. N - 1 : frames'[i] = frames[i]
      /\ frames'[N].script = Top.script /\ frames'[N].pc = Top.pc + 1
      /\ \A i \in 1 .. N : frames'[i].script = frames[i].script /\ frames'[i].script \in Script
  <2>1. /\ frames' \in Seq(FrameType) /\ Len(frames') = N + 1 /\ frames'[N + 1] = NewFrame(q)
        /\ \A i \in 1 .. N : frames'[i] = Stepped[i]
    BY <1>4, <1>5, <1>6, AppendProperties
  <2>2. \A i \in 1 .. N - 1 : i \in 1 .. N
    BY <1>3
  <2>3. QED
    BY <1>3, <1>4, <1>5, <2>1, <2>2
<1>8. /\ UNCHANGED <<cached, globals, functions, code, compilers, held, kept>>
      /\ UNCHANGED file
  BY <1>1 DEF UnchangedByRunning
<1>9. /\ initialized' \in [Script -> BOOLEAN]
      /\ ran' \in [Script -> {"new", "running", "ended"}]
      /\ initialized'[q] /\ ran'[q] = "running"
      /\ \A s \in Script : s # q => initialized'[s] = initialized[s] /\ ran'[s] = ran[s]
  BY <1>1, <1>2 DEF Types
<1>10. Types'
  BY <1>7, <1>8, <1>9 DEF Types
<1>11. \A i \in 1 .. N + 1 : i # N + 1 => i \in 1 .. N
  BY <1>3
<1>12. AllCached'
  <2>1. ASSUME NEW i \in 1 .. N + 1
        PROVE  frames'[i].script \in cached
    <3>1. CASE i = N + 1
      BY <1>2, <1>7, <3>1
    <3>2. CASE i # N + 1
      BY <1>7, <1>11, <3>2 DEF Inv, AllCached
    <3>3. QED
      BY <3>1, <3>2
  <2>2. QED
    BY <1>7, <1>8, <2>1 DEF Inv, AllCached
<1>13. Runs'
  <2>1. ASSUME NEW i \in 1 .. N + 1
        PROVE  /\ frames'[i].pc <= Len(code[frames'[i].script])
               /\ i < N + 1 => frames'[i].pc >= 1
               /\ initialized'[frames'[i].script]
    <3>0. i \in 1 .. N => initialized'[frames'[i].script]
      <4>1. i \in 1 .. N => initialized[frames[i].script]
        BY DEF Inv, Runs
      <4>2. QED
        BY <1>7, <1>9, <4>1
    <3>1. CASE i = N + 1
      <4>1. Len(code[q]) \in Nat
        <5>1. q \in Script
          BY <1>2
        <5> HIDE DEF q
        <5>2. QED
          BY <5>1 DEF Types
      <4>2. QED
        BY <1>3, <1>7, <1>9, <3>1, <4>1
    <3>2. CASE i = N
      BY <1>2, <1>3, <1>7, <3>0, <3>2
    <3>3. CASE i # N /\ i # N + 1
      <4>1. i \in 1 .. N - 1 /\ i \in 1 .. N /\ i < N
        BY <1>3, <3>3
      <4>2. QED
        BY <1>7, <3>0, <4>1 DEF Inv, Runs
    <3>4. QED
      BY <3>1, <3>2, <3>3
  <2>2. compilers = <<>>
    BY <1>2 DEF Inv, Runs
  <2>3. ASSUME NEW s \in Script
        PROVE  /\ initialized'[s] <=> ran'[s] # "new"
               /\ ran'[s] = "running" => \E j \in 1 .. N + 1 : frames'[j].script = s
    <3>1. CASE s = q
      <4>1. N + 1 \in 1 .. N + 1
        BY <1>3
      <4>2. QED
        BY <1>7, <1>9, <3>1, <4>1
    <3>2. CASE s # q
      <4>1. /\ initialized[s] <=> ran[s] # "new"
            /\ ran[s] = "running" => \E j \in 1 .. N : frames[j].script = s
        BY DEF Inv, Runs
      <4>2. \A j \in 1 .. N : j \in 1 .. N + 1
        BY <1>3
      <4>3. QED
        BY <1>7, <1>9, <3>2, <4>1, <4>2
    <3>3. QED
      BY <3>1, <3>2
  <2>4. QED
    BY <1>7, <1>8, <2>1, <2>2, <2>3 DEF Runs
<1>14. ran[q] = "new"
  BY <1>1, <1>2 DEF Inv, Runs
<1>15. ImportedIsReady'
  <2>1. ASSUME NEW i \in 1 .. N + 1, NEW k \in 1 .. frames'[i].pc
        PROVE  LET p == code[frames'[i].script][k].script IN
               \/ ran'[p] = "ended"
               \/ \E j \in 1 .. i : frames'[j].script = p
               \/ k = frames'[i].pc /\ i < N + 1 /\ frames'[i + 1].script = p
    <3> DEFINE p == code[frames[i].script][k].script
    <3>1. i \in 1 .. N
      <4>1. i # N + 1
        BY <1>7
      <4>2. QED
        BY <1>11, <4>1
    <3>2. \A j \in 1 .. i : j \in 1 .. N
      BY <1>3, <3>1
    <3>3. CASE i = N /\ k = Top.pc + 1
      BY <1>2, <1>3, <1>7, <3>3
    <3>4. CASE ~(i = N /\ k = Top.pc + 1)
      <4>1. k \in 1 .. frames[i].pc
        <5>1. CASE i = N
          BY <1>3, <1>7, <3>4, <5>1
        <5>2. CASE i # N
          <6>1. i \in 1 .. N - 1
            BY <1>3, <3>1, <5>2
          <6>2. QED
            BY <1>7, <6>1
        <5>3. QED
          BY <5>1, <5>2
      <4>2. \/ ran[p] = "ended"
            \/ \E j \in 1 .. i : frames[j].script = p
            \/ k = frames[i].pc /\ i < N /\ frames[i + 1].script = p
        BY <3>1, <4>1 DEF Inv, ImportedIsReady
      <4>3. frames'[i].script = frames[i].script
        BY <1>7, <3>1
      <4>4. CASE ran[p] = "ended"
        <5>1. p \in Script
          <6>1. frames[i].script \in Script /\ frames[i].pc <= Len(code[frames[i].script])
            BY <1>7, <3>1 DEF Inv, Runs
          <6>2. k \in 1 .. Len(code[frames[i].script])
            <7>1. frames[i].pc \in Nat
              <8>1. frames[i] \in FrameType
                BY <1>3, <3>1, ElementOfSeq
              <8>2. QED
                BY <8>1 DEF FrameType
            <7>2. Len(code[frames[i].script]) \in Nat
              BY <6>1 DEF Types
            <7>3. QED
              BY <4>1, <6>1, <7>1, <7>2
          <6>3. p \in cached
            BY <6>1, <6>2 DEF Inv, AllCached
          <6>4. QED
            BY <6>3 DEF Types
        <5>2. p # q /\ ran'[p] = ran[p]
          BY <1>9, <1>14, <4>4, <5>1
        <5>3. QED
          BY <4>3, <4>4, <5>2
      <4>5. CASE \E j \in 1 .. i : frames[j].script = p
        BY <1>7, <3>2, <4>3, <4>5
      <4>6. CASE i < N /\ k = frames[i].pc /\ frames[i + 1].script = p
        <5>1. i + 1 \in 1 .. N /\ i \in 1 .. N - 1 /\ i < N + 1
          BY <1>3, <3>1, <4>6
        <5> HIDE DEF p
        <5>2. k = frames'[i].pc /\ frames'[i + 1].script = p
          BY <1>7, <4>6, <5>1
        <5>3. QED
          BY <4>3, <5>1, <5>2 DEF p
      <4>7. QED
        BY <4>2, <4>4, <4>5, <4>6
    <3>5. QED
      BY <3>3, <3>4
  <2>2. QED
    BY <1>7, <1>8, <2>1 DEF ImportedIsReady
<1>16. QED
  BY <1>1, <1>10, <1>12, <1>13, <1>15, RunningKeepsApart DEF Inv

LEMMA EndBodyKeeps ==
  ASSUME Types, Inv, EndBody
  PROVE  Types' /\ Inv'
<1> DEFINE N == Len(frames)
           q == Top.script
<1>1. /\ frames # <<>> /\ frames' = Front(frames)
      /\ file' = IF N = 1 THEN file
                 ELSE LET caller == Last(Front(frames)) IN Stored(caller, caller.pc)
      /\ ran' = [ran EXCEPT ![q] = "ended"]
      /\ UNCHANGED initialized /\ UnchangedByRunning
  BY DEF EndBody
<1>2. /\ q \in Script /\ N \in Nat \ {0} /\ N \in 1 .. N /\ Top = frames[N]
      /\ frames \in Seq(FrameType)
  BY <1>1, TopTyped DEF Types
<1>3. /\ frames' \in Seq(FrameType) /\ Len(frames') = N - 1
      /\ \A i \in 1 .. N - 1 : frames'[i] = frames[i] /\ i \in 1 .. N
  BY <1>1, <1>2, FrontOf
<1>4. /\ UNCHANGED <<cached, globals, functions, code, compilers, held, kept, initialized>>
  BY <1>1 DEF UnchangedByRunning
<1>5. /\ ran' \in [Script -> {"new", "running", "ended"}] /\ ran'[q] = "ended"
      /\ \A s \in Script : s # q => ran'[s] = ran[s]
  BY <1>1, <1>2 DEF Types
<1>6. /\ file' \in [Script -> Script \cup {None}]
      /\ \A s \in Script : file'[s] \in cached \cup {None} /\ (s \in cached => file'[s] # None)
  <2>1. CASE N = 1
    BY <1>1, <2>1 DEF Types, Inv, AllCached
  <2>2. CASE N # 1
    <3> DEFINE caller == Last(Front(frames))
    <3>0. \A n \in Nat \ {0} : n # 1 => n - 1 \in 1 .. n /\ n - 1 \in 1 .. n - 1 /\ n - 1 < n
      OBVIOUS
    <3>1. N - 1 \in 1 .. N /\ N - 1 \in 1 .. N - 1 /\ N - 1 < N
      BY <1>2, <2>2, <3>0
    <3>2. caller = frames[N - 1]
      BY <1>1, <1>3, <3>1 DEF Last
    <3>3. caller \in FrameType
      BY <1>2, <3>1, <3>2, ElementOfSeq
    <3>4. caller.pc <= Len(code[caller.script]) /\ caller.pc >= 1
      BY <3>1, <3>2 DEF Inv, Runs
    <3> HIDE DEF caller
    <3>5. caller.pc \in 1 .. Len(code[caller.script])
      <4>1. caller.pc \in Nat /\ Len(code[caller.script]) \in Nat
        BY <3>3 DEF FrameType, Types
      <4>2. QED
        BY <3>4, <4>1
    <3>6. file' = Stored(caller, caller.pc)
      BY <1>1, <2>2 DEF caller
    <3>7. QED
      BY <3>3, <3>5, <3>6, StoredTyped
  <2>3. QED
    BY <2>1, <2>2
<1>7. Types'
  BY <1>3, <1>4, <1>5, <1>6 DEF Types
<1>8. AllCached'
  BY <1>3, <1>4, <1>6 DEF Inv, AllCached
<1>9. Runs'
  <2>1. ASSUME NEW i \in 1 .. N - 1
        PROVE  /\ frames'[i].pc <= Len(code[frames'[i].script])
               /\ frames'[i].pc >= 1
               /\ initialized[frames'[i].script]
    <3>1. i < N
      BY <1>2
    <3>2. QED
      BY <1>3, <3>1 DEF Inv, Runs
  <2>2. compilers = <<>>
    BY <1>1 DEF Inv, Runs
  <2>3. ASSUME NEW s \in Script
        PROVE  /\ initialized[s] <=> ran'[s] # "new"
               /\ ran'[s] = "running" => \E j \in 1 .. N - 1 : frames'[j].script = s
    <3>1. CASE s = q
      <4>1. initialized[q]
        BY <1>2 DEF Inv, Runs
      <4>2. QED
        BY <1>5, <3>1, <4>1
    <3>2. CASE s # q
      <4>1. /\ initialized[s] <=> ran[s] # "new"
            /\ ran[s] = "running" => \E j \in 1 .. N : frames[j].script = s
        BY DEF Inv, Runs
      <4>2. \A j \in 1 .. N : frames[j].script = s => j \in 1 .. N - 1
        BY <1>2, <3>2
      <4>3. QED
        BY <1>3, <1>5, <3>2, <4>1, <4>2
    <3>3. QED
      BY <3>1, <3>2
  <2>4. QED
    BY <1>3, <1>4, <2>1, <2>2, <2>3 DEF Runs
<1>10. ImportedIsReady'
  <2>1. ASSUME NEW i \in 1 .. N - 1, NEW k \in 1 .. frames[i].pc
        PROVE  LET p == code[frames[i].script][k].script IN
               \/ ran'[p] = "ended"
               \/ \E j \in 1 .. i : frames'[j].script = p
               \/ k = frames[i].pc /\ i < N - 1 /\ frames'[i + 1].script = p
    <3> DEFINE p == code[frames[i].script][k].script
    <3>1. \/ ran[p] = "ended"
          \/ \E j \in 1 .. i : frames[j].script = p
          \/ k = frames[i].pc /\ i < N /\ frames[i + 1].script = p
      BY <1>3 DEF Inv, ImportedIsReady
    <3> HIDE DEF p
    <3>2. CASE ran[p] = "ended"
      BY <1>1, <3>2 DEF p, Types
    <3>3. CASE \E j \in 1 .. i : frames[j].script = p
      <4>1. \A j \in 1 .. i : j \in 1 .. N - 1
        BY <1>2
      <4>2. QED
        BY <1>3, <3>3, <4>1 DEF p
    <3>4. CASE k = frames[i].pc /\ i < N /\ frames[i + 1].script = p
      <4>1. CASE i = N - 1
        <5>1. p = q
          BY <1>2, <3>4, <4>1
        <5>2. QED
          BY <1>5, <5>1 DEF p
      <4>2. CASE i # N - 1
        <5>1. i < N - 1 /\ i + 1 \in 1 .. N - 1
          BY <1>2, <4>2
        <5>2. QED
          BY <1>3, <3>4, <5>1 DEF p
      <4>3. QED
        BY <4>1, <4>2
    <3>5. QED
      BY <3>1, <3>2, <3>3, <3>4 DEF p
  <2>2. Len(frames') = N - 1 /\ code' = code
    BY <1>3, <1>4
  <2>3. \A i \in 1 .. N - 1 : frames'[i] = frames[i]
    BY <1>3
  <2>4. \A i \in 1 .. N - 1 : \A k \in 1 .. frames'[i].pc :
               LET p == code'[frames'[i].script][k].script IN
               \/ ran'[p] = "ended"
               \/ \E j \in 1 .. i : frames'[j].script = p
               \/ k = frames'[i].pc /\ i < N - 1 /\ frames'[i + 1].script = p
    BY <2>1, <2>2, <2>3
  <2>5. QED
    BY <2>2, <2>4 DEF ImportedIsReady
<1>11. QED
  BY <1>1, <1>7, <1>8, <1>9, <1>10, RunningKeepsApart DEF Inv

LEMMA RuntimeErrorKeeps ==
  ASSUME Types, Inv, RuntimeError
  PROVE  Types' /\ Inv'
<1>1. /\ frames # <<>> /\ frames' = <<>>
      /\ ran' = [s \in Script |-> IF ran[s] = "running" THEN "ended" ELSE ran[s]]
      /\ UNCHANGED <<file, initialized>> /\ UnchangedByRunning
  BY DEF RuntimeError
<1>2. UNCHANGED <<cached, globals, functions, code, compilers, held, kept, file, initialized>>
  BY <1>1 DEF UnchangedByRunning
<1>3. Types'
  BY <1>1, <1>2 DEF Types
<1>4. AllCached' /\ ImportedIsReady'
  BY <1>1, <1>2 DEF Inv, AllCached, ImportedIsReady
<1>5. Runs'
  BY <1>1, <1>2 DEF Inv, Runs, Types
<1>6. QED
  BY <1>1, <1>3, <1>4, <1>5, RunningKeepsApart DEF Inv

-----------------------------------------------------------------------------
LEMMA Starts == Init => Types /\ Inv
<1> SUFFICES ASSUME Init PROVE Types /\ Inv
  OBVIOUS
<1> USE DEF Init
<1>1. Types
  BY DEF Types, Tables
<1>2. AllCached /\ Runs /\ ImportedIsReady
  BY DEF AllCached, Runs, ImportedIsReady
<1>3. OneCompilerPerScript
  BY DEF OneCompilerPerScript, Distinct
<1>4. <<>> \o <<>> = <<>> /\ Distinct(<<>>) /\ Begins(<<>>, <<>>)
  BY DEF Distinct, Begins
<1>5. Apart
  BY <1>3, <1>4 DEF Apart, FailedLeavesNoName
<1>6. QED
  BY <1>1, <1>2, <1>5 DEF Inv

LEMMA NextKeeps == Types /\ Inv /\ [Next]_vars => Types' /\ Inv'
<1> SUFFICES ASSUME Types, Inv, [Next]_vars PROVE Types' /\ Inv'
  OBVIOUS
<1>1. ASSUME NEW s \in Script, Interpret(s) PROVE Types' /\ Inv'
  BY <1>1, InterpretKeeps
<1>2. ASSUME NEW s \in Script, ImportCached(s) PROVE Types' /\ Inv'
  BY <1>2, ImportCachedGoesOn, GoingOnKeeps
<1>3. ASSUME NEW s \in Script, ImportFile(s) PROVE Types' /\ Inv'
  BY <1>3, ImportFileKeeps
<1>4. ASSUME NEW n \in Name, AssignName(n) PROVE Types' /\ Inv'
  BY <1>4, AssignNameGoesOn, GoingOnKeeps
<1>5. ASSUME NEW n \in Name, CallName(n) PROVE Types' /\ Inv'
  BY <1>5, CallNameGoesOn, GoingOnKeeps
<1>6. ASSUME NEW n \in Name, DefineFunction(n) PROVE Types' /\ Inv'
  BY <1>6, DefineFunctionGoesOn, GoingOnKeeps
<1>7. ASSUME NEW n \in Name, BindName(n) PROVE Types' /\ Inv'
  BY <1>7, BindNameGoesOn, GoingOnKeeps
<1>8. CASE ParseError
  BY <1>8, ParseErrorGoesOn, GoingOnKeeps
<1>9. CASE BindAll
  BY <1>9, BindAllGoesOn, GoingOnKeeps
<1>10. CASE EndImported
  BY <1>10, EndImportedKeeps
<1>11. CASE EndInterpreted
  BY <1>11, EndInterpretedKeeps
<1>12. CASE ImportAgain
  BY <1>12, ImportAgainKeeps
<1>13. CASE ImportFirst
  BY <1>13, ImportFirstKeeps
<1>14. CASE EndBody
  BY <1>14, EndBodyKeeps
<1>15. CASE RuntimeError
  BY <1>15, RuntimeErrorKeeps
<1>16. CASE UNCHANGED vars
  <2>1. UNCHANGED <<cached, globals, functions, code, file, initialized, compilers,
                    frames, held, kept, ran>>
    BY <1>16 DEF vars
  <2>2. Types'
    BY <2>1 DEF Types
  <2>3. AllCached' /\ Runs' /\ ImportedIsReady'
    BY <2>1 DEF Inv, AllCached, Runs, ImportedIsReady
  <2>4. Apart'
    BY <2>1 DEF Inv, Apart, OneCompilerPerScript, FailedLeavesNoName
  <2>5. QED
    BY <2>2, <2>3, <2>4 DEF Inv
<1>17. QED
  BY <1>1, <1>2, <1>3, <1>4, <1>5, <1>6, <1>7, <1>8, <1>9, <1>10, <1>11, <1>12,
     <1>13, <1>14, <1>15, <1>16 DEF Next

LEMMA Always == Spec => [](Types /\ Inv)
<1>1. Init => Types /\ Inv
  BY Starts
<1>2. (Types /\ Inv) /\ [Next]_vars => (Types /\ Inv)'
  BY NextKeeps
<1>3. QED
  BY <1>1, <1>2, PTL DEF Spec

LEMMA CompilationsApart ==
  ASSUME Types, Inv
  PROVE  CompilationsAreSeparate
<1>1. NamesKeepTheirIndex
  <2>1. ASSUME NEW s \in Script, NEW r \in held[s]
        PROVE  Right(r, globals[s], functions[s])
    <3>1. /\ r \in Refs /\ kept[s].globals \in Seq(Name) /\ kept[s].functions \in Seq(Name)
          /\ globals[s] \in Seq(Name) /\ functions[s] \in Seq(Name)
      BY DEF Types, Tables
    <3>2. /\ Right(r, kept[s].globals, kept[s].functions)
          /\ Begins(kept[s].globals, globals[s]) /\ Begins(kept[s].functions, functions[s])
      BY DEF Inv, Apart
    <3>3. QED
      BY <3>1, <3>2, StaysRight
  <2>2. QED
    BY <2>1 DEF NamesKeepTheirIndex, Right
<1>2. TypeOK
  <2>1. ASSUME NEW s \in Script
        PROVE  /\ Distinct(globals[s] \o functions[s])
               /\ Elements(globals[s] \o functions[s]) \subseteq Name
               /\ Elements(code[s]) \subseteq [script : cached, all : BOOLEAN]
               /\ file[s] \in cached \cup {None} /\ (s \in cached => file[s] # None)
               /\ initialized[s] \in BOOLEAN
               /\ held[s] \subseteq Refs
               /\ ran[s] \in {"new", "running", "ended"}
    <3>1. globals[s] \in Seq(Name) /\ functions[s] \in Seq(Name) /\ code[s] \in Seq(ImportType)
      BY DEF Types
    <3>2. globals[s] \o functions[s] \in Seq(Name)
      BY <3>1, ConcatProperties
    <3>3. Elements(globals[s] \o functions[s]) \subseteq Name
      BY <3>2, ElementOfSeq DEF Elements
    <3>4. \A k \in 1 .. Len(code[s]) : code[s][k] \in ImportType /\ code[s][k].script \in cached
      BY <3>1, ElementOfSeq DEF Inv, AllCached
    <3>5. Elements(code[s]) \subseteq [script : cached, all : BOOLEAN]
      BY <3>4 DEF Elements, ImportType
    <3>6. QED
      BY <3>3, <3>5 DEF Types, Inv, AllCached, Apart
  <2>2. ASSUME NEW i \in 1 .. Len(compilers)
        PROVE  LET c == compilers[i] IN
               /\ c.script \in cached /\ c.errors \in BOOLEAN
               /\ c.importing \in cached \cup {None}
               /\ c.refs \subseteq Refs /\ c.forwards \subseteq Name
               /\ c.globals \in 0 .. Len(globals[c.script])
               /\ c.functions \in 0 .. Len(functions[c.script])
    <3> DEFINE c == compilers[i]
    <3>1. c \in CompilerType
      BY ElementOfSeq DEF Types
    <3>2. c.script \in cached /\ c.importing \in cached \cup {None} /\ c.script \in Script
      BY <3>1 DEF Inv, AllCached, CompilerType
    <3>3. c.globals = Len(kept[c.script].globals) /\ c.functions = Len(kept[c.script].functions)
      BY DEF Inv, Apart
    <3>4. /\ Begins(kept[c.script].globals, globals[c.script])
          /\ Begins(kept[c.script].functions, functions[c.script])
      BY <3>2 DEF Inv, Apart
    <3> HIDE DEF c
    <3>5. Len(globals[c.script]) \in Nat /\ Len(functions[c.script]) \in Nat
      BY <3>2 DEF Types
    <3>6. c.globals \in 0 .. Len(globals[c.script]) /\ c.functions \in 0 .. Len(functions[c.script])
      BY <3>1, <3>3, <3>4, <3>5 DEF Begins, CompilerType
    <3>7. QED
      BY <3>1, <3>2, <3>6 DEF CompilerType, c
  <2>3. ASSUME NEW i \in 1 .. Len(frames)
        PROVE  frames[i].script \in cached /\ frames[i].pc \in 0 .. Len(code[frames[i].script])
    <3>1. frames[i] \in FrameType /\ frames[i].script \in cached
      BY ElementOfSeq DEF Types, Inv, AllCached
    <3>2. frames[i].pc \in Nat /\ frames[i].script \in Script
      BY <3>1 DEF FrameType
    <3>3. frames[i].pc <= Len(code[frames[i].script])
      BY DEF Inv, Runs
    <3>4. Len(code[frames[i].script]) \in Nat
      BY <3>2 DEF Types
    <3>5. QED
      BY <3>1, <3>2, <3>3, <3>4
  <2>4. cached \subseteq Script
    BY DEF Types
  <2>5. QED
    BY <2>1, <2>2, <2>3, <2>4 DEF TypeOK
<1>3. QED
  BY <1>1, <1>2 DEF CompilationsAreSeparate, Inv, Apart

(* Compilations inside and after one another do not disturb each other: no *)
(* script is compiled by two compilers at once, the indices in compiled    *)
(* code stay right, and one that fails takes its own names and no others.  *)
THEOREM SeparateCompilations == Spec => []CompilationsAreSeparate
<1>1. Types /\ Inv => CompilationsAreSeparate
  BY CompilationsApart
<1>2. QED
  BY <1>1, Always, PTL

(* When a body has passed an import, what it imported has ended, or it is  *)
(* a body that waits, in a cycle, for this one.                            *)
THEOREM ImportsReady == Spec => []ImportedIsReady
<1>1. Types /\ Inv => ImportedIsReady
  BY DEF Inv
<1>2. QED
  BY <1>1, Always, PTL

-----------------------------------------------------------------------------
LEMMA FirstTime ==
  ASSUME Types, Inv, frames # <<>>, Next, NEW s \in Script,
         NEW i \in 1 .. Len(frames') - Len(frames), frames'[Len(frames) + i].script = s
  PROVE  ran[s] = "new"
<1>1. Len(frames) \in Nat \ {0} /\ frames \in Seq(FrameType)
  BY TopTyped DEF Types
<1>2. compilers = <<>>
  BY DEF Inv, Runs
<1>3. CASE frames' = frames
  <2>1. Len(frames') - Len(frames) = 0
    BY <1>1, <1>3
  <2>2. QED
    BY <2>1
<1>4. CASE ImportAgain
  <2>1. Len(frames') = Len(frames)
    BY <1>4, SteppedTyped DEF ImportAgain, Stepped
  <2>2. Len(frames') - Len(frames) = 0
    BY <1>1, <2>1
  <2>3. QED
    BY <2>2
<1>5. CASE ImportFirst
  <2>1. /\ AtImport /\ ~initialized[Imported]
        /\ frames' = Front(frames) \o <<[Top EXCEPT !.pc = @ + 1], NewFrame(Imported)>>
    BY <1>5 DEF ImportFirst
  <2>2. Imported \in Script
    BY <2>1, ImportTyped
  <2>3. ran[Imported] = "new"
    BY <2>1, <2>2 DEF Inv, Runs
  <2>4. /\ Len(frames') = Len(frames) + 1
        /\ frames'[Len(frames) + 1].script = Imported
    <3>1. /\ Front(frames) \in Seq(FrameType) /\ Len(Front(frames)) = Len(frames) - 1
      BY <1>1, FrontOf
    <3>2. NewFrame(Imported).script = Imported
      BY DEF NewFrame
    <3>3. \A u \in Seq(FrameType) : \A a, b :
            /\ Len(u \o <<a, b>>) = Len(u) + 2
            /\ (u \o <<a, b>>)[Len(u) + 2] = b
      OBVIOUS
    <3>4. \A n \in Nat : n - 1 + 2 = n + 1
      OBVIOUS
    <3> DEFINE u == Front(frames)
               f == [Top EXCEPT !.pc = @ + 1]
    <3>5. frames' = u \o <<f, NewFrame(Imported)>> /\ u \in Seq(FrameType)
      BY <2>1, <3>1
    <3>6. Len(u) + 2 = Len(frames) + 1
      BY <1>1, <3>1, <3>4
    <3> HIDE DEF u, f
    <3>7. Len(frames') = Len(u) + 2 /\ frames'[Len(u) + 2] = NewFrame(Imported)
      BY <3>3, <3>5
    <3>8. QED
      BY <3>2, <3>6, <3>7
  <2>5. \A j \in 1 .. Len(frames') - Len(frames) : j = 1
    BY <1>1, <2>4
  <2>6. QED
    BY <2>3, <2>4, <2>5
<1>6. CASE EndBody
  <2>1. Len(frames') = Len(frames) - 1
    BY <1>1, <1>6, FrontOf DEF EndBody
  <2>2. \A j \in 1 .. Len(frames') - Len(frames) : FALSE
    BY <1>1, <2>1
  <2>3. QED
    BY <2>2
<1>7. CASE RuntimeError
  <2>1. Len(frames') = 0
    BY <1>7 DEF RuntimeError
  <2>2. \A j \in 1 .. Len(frames') - Len(frames) : FALSE
    BY <1>1, <2>1
  <2>3. QED
    BY <2>2
<1>8. frames' = frames \/ ImportAgain \/ ImportFirst \/ EndBody \/ RuntimeError
  BY <1>2 DEF Next, Interpret, Compiling, ImportCached, ImportFile, AssignName, CallName,
              DefineFunction, BindName, ParseError, BindAll, EndImported, EndInterpreted
<1>9. QED
  BY <1>3, <1>4, <1>5, <1>6, <1>7, <1>8

(* No step of a run calls the body of a script that was run before.        *)
THEOREM RunsOnce == Spec => BodyRunsOnce
<1> DEFINE Once == \A s \in Script :
                     frames # <<>> /\ (\E i \in 1 .. Len(frames') - Len(frames) :
                                          frames'[Len(frames) + i].script = s)
                       => ran[s] = "new"
<1>1. Types /\ Inv /\ [Next]_vars => [Once]_vars
  BY FirstTime
<1>2. QED
  BY <1>1, Always, PTL DEF Spec, BodyRunsOnce

=============================================================================
