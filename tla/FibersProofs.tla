---------------------------- MODULE FibersProofs ----------------------------
(***************************************************************************)
(* Proofs about Fibers for every set of fibers, every stack size, and      *)
(* every depth of the C stack.                                             *)
(***************************************************************************)
EXTENDS Fibers, TLAPS, SequenceTheorems, FiniteSetTheorems, WellFoundedInduction

(* What Front and Last are, for the non-empty sequences they are used on. *)
LEMMA FrontLast ==
  ASSUME NEW S, NEW s \in Seq(S), s # <<>>
  PROVE  /\ Len(s) \in Nat \ {0}
         /\ Last(s) = s[Len(s)] /\ Last(s) \in S
         /\ Front(s) \in Seq(S)
         /\ Len(Front(s)) = Len(s) - 1
         /\ \A i \in 1 .. Len(s) - 1 : Front(s)[i] = s[i]
<1>1. Len(s) \in Nat \ {0} /\ Last(s) = s[Len(s)] /\ Last(s) \in S
  BY DEF Last
<1> DEFINE n == Len(s) - 1
<1>2. n \in Nat
  BY <1>1
<1> HIDE DEF n
<1>3. /\ SubSeq(s, 1, n) \in Seq(S)
      /\ Len(SubSeq(s, 1, n)) = IF 1 <= n THEN n - 1 + 1 ELSE 0
      /\ \A i \in 1 .. n - 1 + 1 : SubSeq(s, 1, n)[i] = s[1 + i - 1]
  <2>1. \A i \in 1 .. n : s[i] \in S
    BY <1>1 DEF n
  <2>2. 1 \in Int /\ n \in Int
    BY <1>2
  <2>3. QED
    BY <2>1, <2>2, SubSeqProperties
<1>4. n - 1 + 1 = n /\ \A i \in 1 .. n : 1 + i - 1 = i
  BY <1>2
<1>5. Len(SubSeq(s, 1, n)) = n
  BY <1>2, <1>3, <1>4
<1>6. \A i \in 1 .. n : SubSeq(s, 1, n)[i] = s[i]
  BY <1>3, <1>4
<1>7. Front(s) = SubSeq(s, 1, n)
  BY DEF Front, n
<1>8. QED
  BY <1>1, <1>3, <1>5, <1>6, <1>7 DEF n

-----------------------------------------------------------------------------
(* Runs and natives alternate on the C stack, a run at the bottom; and      *)
(* bytecode only executes on a fiber.                                       *)
Alternates(s) ==
  /\ s # <<>> => s[1].kind = "run"
  /\ \A i \in 1 .. Len(s) - 1 : s[i].kind = "run" <=> s[i + 1].kind # "run"

TypeInv ==
  /\ TypeOK
  /\ Depth <= MaxCStack
  /\ Alternates(cstack)
  /\ Executing => fiber # NoFiber

(* Pushing an entry of the other sort, and popping one. *)
LEMMA PushAlternates ==
  ASSUME NEW s \in Seq(Entry), Alternates(s), NEW e \in Entry,
         e.kind = "run" <=> (s # <<>> => Last(s).kind # "run")
  PROVE  /\ Append(s, e) \in Seq(Entry)
         /\ Alternates(Append(s, e))
         /\ Append(s, e) # <<>>
         /\ Last(Append(s, e)) = e
<1> DEFINE t == Append(s, e)
<1>1. /\ t \in Seq(Entry) /\ t # <<>> /\ Len(t) = Len(s) + 1
      /\ \A i \in 1 .. Len(s) : t[i] = s[i]
      /\ t[Len(s) + 1] = e
      /\ Len(s) \in Nat
  BY AppendProperties
<1>2. Last(t) = e
  BY <1>1 DEF Last
<1>3. t[1].kind = "run"
  <2>1. CASE s = <<>>
    BY <2>1, <1>1
  <2>2. CASE s # <<>>
    BY <2>2, <1>1, EmptySeq DEF Alternates
  <2>3. QED
    BY <2>1, <2>2
<1>4. ASSUME NEW i \in 1 .. Len(t) - 1
      PROVE  t[i].kind = "run" <=> t[i + 1].kind # "run"
  <2>1. CASE i = Len(s)
    <3>1. s # <<>> /\ Last(s) = s[i]
      BY <2>1, <1>1, <1>4, EmptySeq DEF Last
    <3>2. QED
      BY <3>1, <2>1, <1>1
  <2>2. CASE i < Len(s)
    <3>1. i \in 1 .. Len(s) - 1 /\ i \in 1 .. Len(s) /\ i + 1 \in 1 .. Len(s)
      BY <2>2, <1>1, <1>4
    <3>2. QED
      BY <3>1, <1>1 DEF Alternates
  <2>3. QED
    BY <2>1, <2>2, <1>1
<1>5. QED
  BY <1>1, <1>2, <1>3, <1>4 DEF Alternates

(* Popping keeps the alternation, and a native always has a run below it. *)
LEMMA PopAlternates ==
  ASSUME NEW s \in Seq(Entry), Alternates(s), s # <<>>
  PROVE  /\ Front(s) \in Seq(Entry)
         /\ Alternates(Front(s))
         /\ Last(s) \in Entry
         /\ Front(s) # <<>> => (Last(Front(s)).kind = "run" <=> Last(s).kind # "run")
         /\ Last(s).kind # "run" => Front(s) # <<>>
<1> DEFINE t == Front(s)
<1>1. /\ t \in Seq(Entry) /\ Len(t) = Len(s) - 1 /\ Len(s) \in Nat \ {0}
      /\ \A i \in 1 .. Len(s) - 1 : t[i] = s[i]
      /\ Last(s) = s[Len(s)] /\ Last(s) \in Entry
  BY FrontLast
<1>2. t # <<>> => Len(t) \in Nat \ {0}
  BY <1>1, EmptySeq
<1> HIDE DEF t
<1>3. Alternates(t)
  <2>1. t # <<>> => t[1].kind = "run"
    BY <1>1, <1>2 DEF Alternates
  <2>2. ASSUME NEW i \in 1 .. Len(t) - 1
        PROVE  t[i].kind = "run" <=> t[i + 1].kind # "run"
    <3>1. i \in 1 .. Len(s) - 1 /\ i + 1 \in 1 .. Len(s) - 1
      BY <1>1, <2>2
    <3>2. QED
      BY <3>1, <1>1 DEF Alternates
  <2>3. QED
    BY <2>1, <2>2 DEF Alternates
<1>4. ASSUME t # <<>>
      PROVE  Last(t).kind = "run" <=> Last(s).kind # "run"
  <2>1. Len(s) - 1 \in 1 .. Len(s) - 1
    BY <1>1, <1>2, <1>4
  <2>2. Last(t) = t[Len(s) - 1]
    BY <1>1 DEF Last
  <2>3. t[Len(s) - 1] = s[Len(s) - 1]
    BY <2>1, <1>1
  <2>4. s[Len(s) - 1].kind = "run" <=> s[Len(s) - 1 + 1].kind # "run"
    BY <2>1 DEF Alternates
  <2>5. Len(s) - 1 + 1 = Len(s)
    BY <1>1
  <2>6. QED
    BY <2>2, <2>3, <2>4, <2>5, <1>1
<1>5. ASSUME Last(s).kind # "run"
      PROVE  t # <<>>
  <2>1. Len(s) # 1
    BY <1>1, <1>5 DEF Alternates
  <2>2. Len(t) # 0
    BY <2>1, <1>1
  <2>3. QED
    BY <2>2, EmptySeq
<1>6. QED
  BY <1>1, <1>3, <1>4, <1>5 DEF t
-----------------------------------------------------------------------------

(* The running frame is a frame, and its operands lie above its rbp. *)
LEMMA FrameOffsets ==
  ASSUME TypeOK, NEW f \in Fiber, frames[f] # <<>>
  PROVE  /\ Last(frames[f]) \in Frame
         /\ Last(frames[f]).rbp \in Nat /\ Last(frames[f]).argc \in Nat
         /\ Base(f) \in Nat /\ Base(f) > Last(frames[f]).rbp
         /\ Front(frames[f]) \in Seq(Frame)
<1>1. frames[f] \in Seq(Frame)
  BY DEF TypeOK
<1>2. Last(frames[f]) \in Frame /\ Front(frames[f]) \in Seq(Frame)
  BY <1>1, FrontLast
<1>3. Last(frames[f]).rbp \in Nat /\ Last(frames[f]).argc \in Nat
  BY <1>2 DEF Frame
<1>4. QED
  BY <1>2, <1>3 DEF Base

(* When the operands of OP_CALL are there, the callable's slot is among them. *)
LEMMA OperandOffsets ==
  ASSUME TypeInv, NEW n \in Nat, HasOperands(n)
  PROVE  /\ fiber \in Fiber
         /\ sp[fiber] \in Nat /\ sp[fiber] >= n + 1
         /\ Callable(n) \in Nat
         /\ fiber \notin astray => Callable(n) >= Base(fiber)
         /\ Base(fiber) \in Nat /\ Base(fiber) > Last(frames[fiber]).rbp
         /\ Last(frames[fiber]).rbp \in Nat
         /\ Front(frames[fiber]) \in Seq(Frame)
<1>1. fiber \in Fiber /\ frames[fiber] # <<>>
  BY DEF HasOperands, TypeInv, TypeOK
<1>2. /\ Base(fiber) \in Nat /\ Base(fiber) > Last(frames[fiber]).rbp
      /\ Last(frames[fiber]).rbp \in Nat
      /\ Front(frames[fiber]) \in Seq(Frame)
  BY <1>1, FrameOffsets DEF TypeInv
<1>3. /\ sp[fiber] \in Nat /\ sp[fiber] >= n + 1
      /\ fiber \notin astray => sp[fiber] >= Base(fiber) + n + 1
  <2>1. sp[fiber] \in Nat /\ sp[fiber] >= Floor(fiber) + n + 1
    BY <1>1 DEF HasOperands, TypeInv, TypeOK
  <2>2. Floor(fiber) \in Nat /\ (fiber \notin astray => Floor(fiber) = Base(fiber))
    BY <1>2 DEF Floor
  <2>3. QED
    BY <2>1, <2>2
<1>4. QED
  BY <1>1, <1>2, <1>3 DEF Callable

(* The C stack is no longer than its bound. *)
LEMMA StackLength ==
  ASSUME TypeInv
  PROVE  /\ cstack \in Seq(Entry) /\ Depth = Len(cstack) /\ Len(cstack) \in Nat
         /\ cstack # <<>> => /\ Len(cstack) \in 1 .. MaxCStack
                             /\ Last(cstack) = cstack[Len(cstack)]
         /\ \A i \in 1 .. Len(cstack) : cstack[i] \in Entry /\ i \in 1 .. MaxCStack
<1>1. /\ cstack \in Seq(Entry) /\ Len(cstack) \in Nat /\ MaxCStack \in Nat
      /\ Len(cstack) <= MaxCStack
  BY FiberAssumption DEF TypeInv, TypeOK, Depth
<1>2. \A i \in 1 .. Len(cstack) : cstack[i] \in Entry
  BY <1>1, ElementOfSeq
<1>3. cstack # <<>> => Len(cstack) # 0
  BY <1>1, EmptySeq
<1>4. QED
  BY <1>1, <1>2, <1>3 DEF Depth, Last

(* The invocation of runFiber() that executes has a register. *)
LEMMA RegisterRead ==
  ASSUME TypeInv, Executing
  PROVE  Depth \in 1 .. MaxCStack /\ register[Depth] \in Nat
<1>1. Depth \in 1 .. MaxCStack
  BY StackLength DEF Executing
<1>2. QED
  BY <1>1 DEF TypeInv, TypeOK

(* What pushing and popping do to the part of TypeInv about the C stack. *)

(* Invoking runFiber() from host code. *)
LEMMA PushRunType ==
  ASSUME TypeInv, NEW g \in Fiber, NEW s, PushRun(g, s), fiber' = g
  PROVE  /\ cstack' \in Seq(Entry) /\ Alternates(cstack')
         /\ Executing' => fiber' # NoFiber
<1> DEFINE e == [kind |-> "run", fb |-> g]
<1>1. e \in Entry /\ e.kind = "run" /\ cstack' = Append(cstack, e)
  BY DEF Entry, PushRun
<1>2. cstack # <<>> => Last(cstack).kind # "run"
  BY DEF PushRun, HostCode
<1>3. QED
  BY <1>1, <1>2, PushAlternates, FiberAssumption DEF TypeInv, TypeOK

(* Calling a native from the bytecode loop. *)
LEMMA PushNativeType ==
  ASSUME TypeInv, NEW kind \in {"builtin", "native"}, Executing, PushNative(kind)
  PROVE  /\ cstack' \in Seq(Entry) /\ Alternates(cstack')
         /\ Executing' => fiber' # NoFiber
         /\ fiber \in Fiber
<1> DEFINE e == [kind |-> kind, fb |-> fiber]
<1>1. fiber \in Fiber
  BY DEF TypeInv, TypeOK
<1>2. e \in Entry /\ e.kind # "run" /\ cstack' = Append(cstack, e)
  BY <1>1 DEF Entry, PushNative
<1>3. ~(cstack # <<>> => Last(cstack).kind # "run")
  BY DEF Executing
<1>4. /\ cstack' \in Seq(Entry) /\ Alternates(cstack')
      /\ cstack' # <<>> /\ Last(cstack') = e
  BY <1>2, <1>3, PushAlternates DEF TypeInv, TypeOK
<1>5. QED
  BY <1>1, <1>2, <1>4 DEF Executing

(* Leaving runFiber(): host code is below. *)
LEMMA PopRunType ==
  ASSUME TypeInv, Executing, cstack' = Front(cstack)
  PROVE  /\ cstack' \in Seq(Entry) /\ Alternates(cstack')
         /\ ~Executing'
<1>1. cstack \in Seq(Entry) /\ Alternates(cstack) /\ cstack # <<>>
  BY DEF TypeInv, TypeOK, Executing
<1>2. Last(cstack).kind = "run"
  BY DEF Executing
<1>3. QED
  BY <1>1, <1>2, PopAlternates DEF Executing

(* Returning from a native, and leaving the run that called it. *)
LEMMA PopNativeType ==
  ASSUME TypeInv, cstack # <<>>, Last(cstack).kind # "run"
  PROVE  /\ Front(cstack) \in Seq(Entry) /\ Alternates(Front(cstack))
         /\ Front(cstack) # <<>> /\ Last(Front(cstack)).kind = "run"
         /\ Front(Front(cstack)) \in Seq(Entry) /\ Alternates(Front(Front(cstack)))
         /\ Front(Front(cstack)) # <<>> => Last(Front(Front(cstack))).kind # "run"
         /\ Last(cstack).fb \in Fiber
<1>1. cstack \in Seq(Entry) /\ Alternates(cstack)
  BY DEF TypeInv, TypeOK
<1>2. /\ Front(cstack) \in Seq(Entry) /\ Alternates(Front(cstack))
      /\ Front(cstack) # <<>> /\ Last(Front(cstack)).kind = "run"
      /\ Last(cstack) \in Entry
  BY <1>1, PopAlternates
<1>3. /\ Front(Front(cstack)) \in Seq(Entry) /\ Alternates(Front(Front(cstack)))
      /\ Front(Front(cstack)) # <<>> => Last(Front(Front(cstack))).kind # "run"
  BY <1>2, PopAlternates
<1>4. QED
  BY <1>2, <1>3 DEF Entry

-----------------------------------------------------------------------------

(* Before the first API call. *)
LEMMA InitTypeInv == Init => TypeInv
BY FiberAssumption
DEF Init, TypeInv, TypeOK, Alternates, Executing, Depth, FiberState, Value

(* TypeInv without the registers, which every step of the host, the         *)
(* bytecode and the natives gives.                                          *)
CoreInv ==
  /\ fiber \in Fiber \cup {NoFiber}
  /\ state \in [Fiber -> FiberState]
  /\ caller \in [Fiber -> Fiber \cup {NoFiber}]
  /\ frames \in [Fiber -> Seq(Frame)]
  /\ sp \in [Fiber -> Nat]
  /\ ret \in [Fiber -> Nat]
  /\ retval \in [Fiber -> Value]
  /\ error \in [Fiber -> BOOLEAN]
  /\ cstack \in Seq(Entry)
  /\ result \in {"none", "success", "error"}
  /\ Alternates(cstack)
  /\ Executing => fiber # NoFiber

LEMMA CoreInvStep == TypeInv /\ [Next]_vars => CoreInv'
<1> SUFFICES ASSUME TypeInv, [Next]_vars
             PROVE  CoreInv'
  OBVIOUS
<1> USE FiberAssumption
<1>1. ASSUME NEW g \in Fiber, NEW n \in BOOLEAN, HostNewFiber(g, n)
      PROVE  CoreInv'
  <2>1. [rbp |-> 0, argc |-> Arity[g]] \in Frame
    BY DEF Frame
  <2>2. frames' \in [Fiber -> Seq(Frame)]
    BY <1>1, <2>1 DEF HostNewFiber, Allocate, CoreInv, TypeInv, TypeOK
  <2>3. QED
    BY <1>1, <2>2 DEF HostNewFiber, Allocate, CoreInv, TypeInv, TypeOK, FiberState, Executing
<1>2. ASSUME NEW g \in Fiber, HostInterpret(g)
      PROVE  CoreInv'
  <2>1. /\ cstack' \in Seq(Entry) /\ Alternates(cstack')
        /\ Executing' => fiber' # NoFiber
    BY <1>2, PushRunType DEF HostInterpret
  <2>2. [rbp |-> 0, argc |-> 0] \in Frame
    BY DEF Frame
  <2>3. frames' \in [Fiber -> Seq(Frame)]
    BY <1>2, <2>2 DEF HostInterpret, CoreInv, TypeInv, TypeOK
  <2>4. QED
    BY <1>2, <2>1, <2>3 DEF HostInterpret, PushRun, CoreInv, TypeInv, TypeOK, FiberState
<1>3. ASSUME NEW g \in Fiber, NEW n \in Argc, HostRun(g, n)
      PROVE  CoreInv'
  <2>1. /\ cstack' \in Seq(Entry) /\ Alternates(cstack')
        /\ Executing' => fiber' # NoFiber
    BY <1>3, PushRunType DEF HostRun, Enter
  <2>2. n \in Nat
    BY DEF Argc
  <2>3. QED
    BY <1>3, <2>1, <2>2
    DEF HostRun, PushRun, Enter, CoreInv, TypeInv, TypeOK, FiberState
<1>4. ASSUME NEW g \in Fiber, NEW v \in Value, HostResume(g, v)
      PROVE  CoreInv'
  <2>1. /\ cstack' \in Seq(Entry) /\ Alternates(cstack')
        /\ Executing' => fiber' # NoFiber
    BY <1>4, PushRunType DEF HostResume, Enter
  <2>2. QED
    BY <1>4, <2>1 DEF HostResume, PushRun, Enter, CoreInv, TypeInv, TypeOK, FiberState
<1>5. ASSUME NEW g \in Fiber, NEW n \in Argc, HostRefused(g, n)
      PROVE  CoreInv'
  <2>1. error' \in [Fiber -> BOOLEAN]
    BY <1>5 DEF HostRefused, CoreInv, TypeInv, TypeOK
  <2>2. QED
    BY <1>5, <2>1 DEF HostRefused, CoreInv, TypeInv, TypeOK, Executing
<1>6. ASSUME NEW v \in Value, NativeReturnValue(v)
      PROVE  CoreInv'
  BY <1>6 DEF NativeReturnValue, CoreInv, TypeInv, TypeOK, Executing
<1>7. ASSUME NativeSetError
      PROVE  CoreInv'
  BY <1>7 DEF NativeSetError, CoreInv, TypeInv, TypeOK, Executing
<1>8. ASSUME NEW top \in 0 .. MaxSp, NEW v \in Value, Evaluate(top, v)
      PROVE  CoreInv'
  BY <1>8 DEF Evaluate, CoreInv, TypeInv, TypeOK, Executing
<1>9. ASSUME NEW n \in Argc, CallScript(n)
      PROVE  CoreInv'
  <2>1. n \in Nat /\ HasOperands(n)
    BY <1>9 DEF Argc, CallScript
  <2>2. fiber \in Fiber /\ Callable(n) \in Nat
    BY <2>1, OperandOffsets
  <2>3. [rbp |-> Callable(n), argc |-> n] \in Frame /\ frames[fiber] \in Seq(Frame)
    BY <2>1, <2>2 DEF Frame, CoreInv, TypeInv, TypeOK
  <2>4. Append(frames[fiber], [rbp |-> Callable(n), argc |-> n]) \in Seq(Frame)
    BY <2>3, AppendProperties
  <2>5. frames' \in [Fiber -> Seq(Frame)]
    BY <1>9, <2>4 DEF CallScript, CoreInv, TypeInv, TypeOK
  <2>6. ret' \in [Fiber -> Nat] /\ retval' \in [Fiber -> Value]
    BY <1>9, <2>2 DEF CallScript, SetRet, CoreInv, TypeInv, TypeOK, Value
  <2>7. QED
    BY <1>9, <2>5, <2>6 DEF CallScript, CoreInv, TypeInv, TypeOK, Executing
<1>10. ASSUME NEW n \in Argc, NEW v \in Value, TailCallScript(n, v)
       PROVE  CoreInv'
  <2> DEFINE rbp == Last(frames[fiber]).rbp
  <2>1. n \in Nat /\ HasOperands(n)
    BY <1>10 DEF Argc, TailCallScript
  <2>2. /\ fiber \in Fiber /\ Callable(n) \in Nat /\ rbp \in Nat
        /\ Front(frames[fiber]) \in Seq(Frame)
    BY <2>1, OperandOffsets
  <2>3. [rbp |-> rbp, argc |-> n] \in Frame
    BY <2>1, <2>2 DEF Frame
  <2>4. Append(Front(frames[fiber]), [rbp |-> rbp, argc |-> n]) \in Seq(Frame)
    BY <2>2, <2>3, AppendProperties
  <2>5. frames' \in [Fiber -> Seq(Frame)]
    BY <1>10, <2>4 DEF TailCallScript, CoreInv, TypeInv, TypeOK
  <2>6. /\ ret' \in [Fiber -> Nat] /\ retval' \in [Fiber -> Value]
        /\ sp' \in [Fiber -> Nat]
    BY <1>10, <2>1, <2>2 DEF TailCallScript, SetRet, CoreInv, TypeInv, TypeOK
  <2>7. QED
    BY <1>10, <2>5, <2>6 DEF TailCallScript, CoreInv, TypeInv, TypeOK, Executing
<1>11. ASSUME NEW n \in Argc, CallNative(n)
       PROVE  CoreInv'
  <2>1. n \in Nat /\ HasOperands(n) /\ Executing
    BY <1>11 DEF Argc, CallNative, HasOperands
  <2>2. fiber \in Fiber /\ Callable(n) \in Nat
    BY <2>1, OperandOffsets
  <2>3. /\ cstack' \in Seq(Entry) /\ Alternates(cstack')
        /\ Executing' => fiber' # NoFiber
    BY <1>11, <2>1, PushNativeType DEF CallNative
  <2>4. QED
    BY <1>11, <2>2, <2>3 DEF CallNative, SetRet, CoreInv, TypeInv, TypeOK, Value
<1>12. ASSUME NEW n \in Argc, NEW v \in Value, NEW e \in BOOLEAN, CallBuiltin(n, v, e)
       PROVE  CoreInv'
  <2>1. n \in Nat /\ HasOperands(n) /\ Executing
    BY <1>12 DEF Argc, CallBuiltin, HasOperands
  <2>2. fiber \in Fiber /\ Callable(n) \in Nat
    BY <2>1, OperandOffsets
  <2>3. /\ cstack' \in Seq(Entry) /\ Alternates(cstack')
        /\ Executing' => fiber' # NoFiber
    BY <1>12, <2>1, PushNativeType DEF CallBuiltin
  <2>4. error' \in [Fiber -> BOOLEAN]
    BY <1>12, <2>2 DEF CallBuiltin, CoreInv, TypeInv, TypeOK
  <2>5. QED
    BY <1>12, <2>2, <2>3, <2>4 DEF CallBuiltin, SetRet, CoreInv, TypeInv, TypeOK
<1>13. ASSUME NEW g \in Fiber, NEW n \in BOOLEAN, NEW v \in Value,
              CallFiberNew(g, n, v)
       PROVE  CoreInv'
  <2>1. HasOperands(1) /\ Executing
    BY <1>13 DEF CallFiberNew, HasOperands
  <2>2. fiber \in Fiber /\ Callable(1) \in Nat
    BY <2>1, OperandOffsets
  <2>3. /\ cstack' \in Seq(Entry) /\ Alternates(cstack')
        /\ Executing' => fiber' # NoFiber
    BY <1>13, <2>1, PushNativeType DEF CallFiberNew
  <2>4. [rbp |-> 0, argc |-> Arity[g]] \in Frame
    BY DEF Frame
  <2>5. frames' \in [Fiber -> Seq(Frame)]
    BY <1>13, <2>4 DEF CallFiberNew, Allocate, CoreInv, TypeInv, TypeOK
  <2>6. QED
    BY <1>13, <2>2, <2>3, <2>5
    DEF CallFiberNew, Allocate, SetRet, CoreInv, TypeInv, TypeOK, FiberState
<1>14. ASSUME NEW g \in Fiber, NEW n \in Argc, CallFiberRun(g, n)
       PROVE  CoreInv'
  <2>1. n \in Nat /\ n + 1 \in Nat /\ HasOperands(n + 1) /\ Executing
    BY <1>14 DEF Argc, CallFiberRun, HasOperands
  <2>2. fiber \in Fiber /\ Callable(n + 1) \in Nat
    BY <2>1, OperandOffsets
  <2>3. /\ cstack' \in Seq(Entry) /\ Alternates(cstack')
        /\ Executing' => fiber' # NoFiber
    BY <1>14, <2>1, PushNativeType DEF CallFiberRun
  <2>4. QED
    BY <1>14, <2>1, <2>2, <2>3
    DEF CallFiberRun, Enter, SetRet, CoreInv, TypeInv, TypeOK, FiberState, Value
<1>15. ASSUME NEW g \in Fiber, NEW n \in Argc, NEW v \in Value,
              CallFiberResume(g, n, v)
       PROVE  CoreInv'
  <2>1. n \in Nat /\ n + 1 \in Nat /\ HasOperands(n + 1) /\ Executing
    BY <1>15 DEF Argc, CallFiberResume, HasOperands
  <2>2. fiber \in Fiber /\ Callable(n + 1) \in Nat
    BY <2>1, OperandOffsets
  <2>3. /\ cstack' \in Seq(Entry) /\ Alternates(cstack')
        /\ Executing' => fiber' # NoFiber
    BY <1>15, <2>1, PushNativeType DEF CallFiberResume
  <2>4. QED
    BY <1>15, <2>1, <2>2, <2>3
    DEF CallFiberResume, Enter, SetRet, CoreInv, TypeInv, TypeOK, FiberState, Value
<1>16. ASSUME NEW n \in Argc, NEW v \in Value, CallYield(n, v)
       PROVE  CoreInv'
  <2>1. n \in Nat /\ HasOperands(n) /\ Executing
    BY <1>16 DEF Argc, CallYield, Suspend, HasOperands
  <2>2. fiber \in Fiber /\ Callable(n) \in Nat
    BY <2>1, OperandOffsets
  <2>3. /\ cstack' \in Seq(Entry) /\ Alternates(cstack')
        /\ Executing' => fiber' # NoFiber
    BY <1>16, <2>1, PushNativeType DEF CallYield, Suspend
  <2>4. retval' \in [Fiber -> Value]
    BY <1>16 DEF CallYield, Suspend, CoreInv, TypeInv, TypeOK, Value
  <2>5. QED
    BY <1>16, <2>2, <2>3, <2>4 DEF CallYield, Suspend, SetRet, CoreInv, TypeInv, TypeOK, FiberState
<1>17. ASSUME AfterNative
       PROVE  CoreInv'
  <2>1. cstack # <<>> /\ Last(cstack).kind # "run"
    BY <1>17 DEF AfterNative
  <2>2. /\ Front(cstack) \in Seq(Entry) /\ Alternates(Front(cstack))
        /\ Front(cstack) # <<>> /\ Last(Front(cstack)).kind = "run"
        /\ Front(Front(cstack)) \in Seq(Entry) /\ Alternates(Front(Front(cstack)))
        /\ Front(Front(cstack)) # <<>> => Last(Front(Front(cstack))).kind # "run"
        /\ CallFiber \in Fiber
    BY <2>1, PopNativeType DEF CallFiber
  <2>3. /\ cstack' \in Seq(Entry) /\ Alternates(cstack')
        /\ Executing' => fiber' # NoFiber
    BY <1>17, <2>2 DEF AfterNative, Executing
  <2>4. sp' \in [Fiber -> Nat]
    <3>1. \/ sp' = sp
          \/ sp' = [sp EXCEPT ![CallFiber] = ret[CallFiber] + 1]
      BY <1>17 DEF AfterNative
    <3>2. ret[CallFiber] + 1 \in Nat
      BY <2>2 DEF CoreInv, TypeInv, TypeOK
    <3>3. QED
      BY <3>1, <3>2 DEF CoreInv, TypeInv, TypeOK
  <2>5. /\ fiber' \in Fiber \cup {NoFiber} /\ state' \in [Fiber -> FiberState]
        /\ caller' \in [Fiber -> Fiber \cup {NoFiber}]
    BY <1>17 DEF AfterNative, SwitchBack, CoreInv, TypeInv, TypeOK, FiberState
  <2>6. result' \in {"none", "success", "error"}
    BY <1>17 DEF AfterNative, CoreInv, TypeInv, TypeOK
  <2>7. QED
    BY <1>17, <2>3, <2>4, <2>5, <2>6 DEF AfterNative, CoreInv, TypeInv, TypeOK
<1>18. ASSUME NEW v \in Value, ReturnFromCall(v)
       PROVE  CoreInv'
  <2>1. HasOperands(0)
    BY <1>18 DEF ReturnFromCall
  <2>2. /\ fiber \in Fiber /\ register[Depth] \in Nat
        /\ Front(frames[fiber]) \in Seq(Frame)
    BY <2>1, OperandOffsets, RegisterRead DEF HasOperands
  <2>3. frames' \in [Fiber -> Seq(Frame)]
    BY <1>18, <2>2 DEF ReturnFromCall, PopFrame, CoreInv, TypeInv, TypeOK
  <2>4. sp' \in [Fiber -> Nat] /\ retval' \in [Fiber -> Value]
    BY <1>18, <2>2 DEF ReturnFromCall, CoreInv, TypeInv, TypeOK
  <2>5. QED
    BY <1>18, <2>3, <2>4 DEF ReturnFromCall, CoreInv, TypeInv, TypeOK, Executing
<1>19. ASSUME NEW v \in Value, ReturnFromFiber(v)
       PROVE  CoreInv'
  <2>1. HasOperands(0) /\ Executing
    BY <1>19 DEF ReturnFromFiber, HasOperands
  <2>2. /\ fiber \in Fiber
        /\ sp[fiber] \in Nat /\ sp[fiber] >= 0 + 1
        /\ Front(frames[fiber]) \in Seq(Frame)
    BY <2>1, OperandOffsets
  <2>3. /\ cstack' \in Seq(Entry) /\ Alternates(cstack')
        /\ Executing' => fiber' # NoFiber
    <3>1. CASE caller[fiber] = NoFiber
      BY <3>1, <1>19, <2>1, PopRunType DEF ReturnFromFiber
    <3>2. CASE caller[fiber] # NoFiber
      BY <3>2, <1>19 DEF ReturnFromFiber, SwitchBack, CoreInv, TypeInv, TypeOK
    <3>3. QED
      BY <3>1, <3>2
  <2>4. frames' \in [Fiber -> Seq(Frame)] /\ sp' \in [Fiber -> Nat]
    BY <1>19, <2>2 DEF ReturnFromFiber, PopFrame, CoreInv, TypeInv, TypeOK
  <2>5. retval' \in [Fiber -> Value] /\ result' \in {"none", "success", "error"}
    <3>1. CASE caller[fiber] = NoFiber
      BY <3>1, <1>19 DEF ReturnFromFiber, TypeInv, TypeOK
    <3>2. CASE caller[fiber] # NoFiber
      <4>1. retval' = [retval EXCEPT ![caller[fiber]] = v] /\ result' = result
        BY <3>2, <1>19 DEF ReturnFromFiber
      <4>2. QED
        BY <4>1 DEF TypeInv, TypeOK
    <3>3. QED
      BY <3>1, <3>2
  <2>6. QED
    BY <1>19, <2>2, <2>3, <2>4, <2>5
    DEF ReturnFromFiber, SwitchBack, CoreInv, TypeInv, TypeOK, FiberState
<1>20. ASSUME RuntimeError
       PROVE  CoreInv'
  <2>1. Executing
    BY <1>20 DEF RuntimeError
  <2>2. fiber \in Fiber
    BY <2>1 DEF CoreInv, TypeInv, TypeOK
  <2>3. /\ cstack' \in Seq(Entry) /\ Alternates(cstack')
        /\ ~Executing'
    BY <1>20, <2>1, PopRunType DEF RuntimeError
  <2>4. QED
    BY <1>20, <2>2, <2>3 DEF RuntimeError, SwitchBack, CoreInv, TypeInv, TypeOK, FiberState
<1>21. ASSUME NEW v \in Value, ImportBody(v)
       PROVE  CoreInv'
  <2>1. fiber \in Fiber /\ sp[fiber] \in Nat /\ frames[fiber] \in Seq(Frame)
    BY <1>21 DEF ImportBody, CoreInv, TypeInv, TypeOK
  <2>2. [rbp |-> sp[fiber], argc |-> 0] \in Frame
    BY <2>1 DEF Frame
  <2>3. Append(frames[fiber], [rbp |-> sp[fiber], argc |-> 0]) \in Seq(Frame)
    BY <2>1, <2>2, AppendProperties
  <2>4. frames' \in [Fiber -> Seq(Frame)]
    BY <1>21, <2>3 DEF ImportBody, CoreInv, TypeInv, TypeOK
  <2>5. sp' \in [Fiber -> Nat] /\ retval' \in [Fiber -> Value]
    BY <1>21, <2>1 DEF ImportBody, CoreInv, TypeInv, TypeOK
  <2>6. QED
    BY <1>21, <2>4, <2>5 DEF ImportBody, CoreInv, TypeInv, TypeOK, Executing
<1>22. CASE UNCHANGED vars
  BY <1>22 DEF vars, CoreInv, TypeInv, TypeOK, Executing
<1>23. QED
  BY <1>1, <1>2, <1>3, <1>4, <1>5, <1>6, <1>7, <1>8, <1>9, <1>10, <1>11, <1>12,
     <1>13, <1>14, <1>15, <1>16, <1>17, <1>18, <1>19, <1>20, <1>21, <1>22
  DEF Next, Host, Bytecode, Natives

(* LOAD_FRAME *)
LEMMA LoadTypes ==
  ASSUME TypeOK, NEW f \in Fiber, NEW s \in Seq(Frame), NEW d \in 1 .. MaxCStack,
         Load(f, s, d)
  PROVE  loaded' \in [Fiber -> Nat] /\ register' \in [1 .. MaxCStack -> Nat]
<1>1. LastBase(s) \in Nat
  <2>1. s # <<>> => Last(s) \in Frame
    BY FrontLast
  <2>2. QED
    BY <2>1 DEF LastBase, Frame
<1>2. d \in Nat
  BY FiberAssumption
<1>3. QED
  BY <1>1, <1>2 DEF Load, TypeOK

(* The registers and the depth of the C stack. *)
RegisterTypes ==
  /\ Depth <= MaxCStack
  /\ loaded \in [Fiber -> Nat]
  /\ register \in [1 .. MaxCStack -> Nat]
  /\ astray \subseteq Fiber

LEMMA RegisterTypesStep ==
  ASSUME TypeInv, CoreInv', Next
  PROVE  RegisterTypes'
<1>1. /\ TypeOK /\ Depth \in Nat /\ Depth <= MaxCStack /\ MaxCStack \in Nat
      /\ frames' \in [Fiber -> Seq(Frame)]
      /\ loaded \in [Fiber -> Nat] /\ register \in [1 .. MaxCStack -> Nat]
      /\ astray \subseteq Fiber
  BY FiberAssumption, StackLength DEF TypeInv, TypeOK, CoreInv
<1>2. ASSUME NEW e \in Entry, cstack' = Append(cstack, e), Depth < MaxCStack
      PROVE  Depth' <= MaxCStack
  <2>1. Len(cstack') = Len(cstack) + 1
    BY <1>1, <1>2, AppendProperties DEF TypeOK
  <2>2. QED
    BY <1>1, <1>2, <2>1 DEF Depth
<1>3. ASSUME cstack # <<>>
      PROVE  /\ Front(cstack) \in Seq(Entry) /\ Len(Front(cstack)) = Depth - 1
             /\ Depth \in 1 .. MaxCStack
  BY <1>3, FrontLast, StackLength
<1>4. ASSUME NEW g \in Fiber, NEW s \in Seq(Frame), PushRun(g, s)
      PROVE  RegisterTypes'
  <2>1. [kind |-> "run", fb |-> g] \in Entry
    BY DEF Entry
  <2>2. Depth' <= MaxCStack
    BY <1>2, <1>4, <2>1 DEF PushRun
  <2>3. Depth + 1 \in 1 .. MaxCStack
    BY <1>1, <1>4 DEF PushRun
  <2>4. QED
    BY <1>1, <1>4, <2>2, <2>3, LoadTypes DEF PushRun, RegisterTypes
<1>5. ASSUME NEW kind \in {"builtin", "native"}, Executing, PushNative(kind)
      PROVE  RegisterTypes'
  <2>1. [kind |-> kind, fb |-> fiber] \in Entry
    BY <1>5 DEF Entry, TypeInv, TypeOK
  <2>2. Depth' <= MaxCStack
    BY <1>2, <1>5, <2>1 DEF PushNative
  <2>3. QED
    BY <1>1, <1>5, <2>2 DEF PushNative, registers, RegisterTypes
<1>6. ASSUME Executing, Load(fiber, frames'[fiber], Depth), UNCHANGED <<cstack, astray>>
      PROVE  RegisterTypes'
  <2>1. fiber \in Fiber /\ Depth \in 1 .. MaxCStack
    BY <1>3, <1>6 DEF Executing, TypeInv, TypeOK
  <2>2. QED
    BY <1>1, <1>6, <2>1, LoadTypes DEF RegisterTypes, Depth
<1>7. CASE UNCHANGED <<cstack, registers>>
  BY <1>1, <1>7 DEF registers, RegisterTypes, Depth
<1>8. CASE Host
  <2>1. ASSUME NEW g \in Fiber, HostInterpret(g)
        PROVE  RegisterTypes'
    <3>1. [rbp |-> 0, argc |-> 0] \in Frame
      BY DEF Frame
    <3>2. <<[rbp |-> 0, argc |-> 0]>> \in Seq(Frame)
      BY <3>1
    <3>3. QED
      BY <1>4, <2>1, <3>2 DEF HostInterpret
  <2>2. ASSUME NEW g \in Fiber, PushRun(g, frames[g])
        PROVE  RegisterTypes'
    BY <1>1, <1>4, <2>2 DEF TypeOK
  <2>3. QED
    BY <1>7, <1>8, <2>1, <2>2
    DEF Host, HostNewFiber, HostRun, HostResume, HostRefused, NativeReturnValue,
        NativeSetError
<1>9. CASE Bytecode
  <2>1. ASSUME NEW v \in Value, ReturnFromFiber(v)
        PROVE  RegisterTypes'
    <3>1. /\ cstack # <<>> /\ fiber \in Fiber
          /\ caller[fiber] # NoFiber => caller[fiber] \in Fiber
      BY <2>1 DEF ReturnFromFiber, HasOperands, Executing, TypeInv, TypeOK
    <3>2. CASE caller[fiber] = NoFiber
      BY <1>1, <1>3, <2>1, <3>1, <3>2 DEF ReturnFromFiber, RegisterTypes, Depth
    <3>3. CASE caller[fiber] # NoFiber
      <4>1. frames[caller[fiber]] \in Seq(Frame)
        BY <3>1, <3>3 DEF TypeInv, TypeOK
      <4>2. QED
        BY <1>1, <1>3, <2>1, <3>1, <3>3, <4>1, LoadTypes
        DEF ReturnFromFiber, RegisterTypes, Depth
    <3>4. QED
      BY <3>2, <3>3
  <2>2. CASE RuntimeError
    BY <1>1, <1>3, <2>2 DEF RuntimeError, Executing, registers, RegisterTypes, Depth
  <2>3. QED
    BY <1>6, <1>7, <1>9, <2>1, <2>2
    DEF Bytecode, Evaluate, CallScript, TailCallScript, ImportBody, ReturnFromCall,
        HasOperands
<1>10. CASE Natives
  <2>1. CASE AfterNative
    <3> DEFINE below == Front(cstack)
    <3>1. /\ cstack # <<>> /\ below \in Seq(Entry) /\ below # <<>>
          /\ Len(below) = Depth - 1
      BY <1>3, <2>1, PopNativeType DEF AfterNative
    <3>2. Len(Front(below)) = Len(below) - 1 /\ Len(below) \in Nat \ {0}
      BY <3>1, FrontLast
    <3>3. Depth' <= MaxCStack
      BY <1>1, <2>1, <3>1, <3>2 DEF AfterNative, Depth
    <3>4. astray' \subseteq Fiber
      BY <1>1, <2>1 DEF AfterNative, TypeOK, registers
    <3>5. loaded' \in [Fiber -> Nat] /\ register' \in [1 .. MaxCStack -> Nat]
      <4>1. CASE UNCHANGED <<loaded, register>>
        BY <1>1, <4>1
      <4>2. CASE fiber # NoFiber /\ Load(fiber, frames[fiber], Len(below))
        <5>1. fiber \in Fiber /\ frames[fiber] \in Seq(Frame)
          BY <4>2 DEF TypeInv, TypeOK
        <5>2. Len(below) \in 1 .. MaxCStack
          BY <1>1, <3>1, <3>2
        <5>3. QED
          BY <1>1, <4>2, <5>1, <5>2, LoadTypes
      <4>3. QED
        BY <2>1, <4>1, <4>2 DEF AfterNative, Reload, registers
    <3>6. QED
      BY <3>3, <3>4, <3>5 DEF RegisterTypes
  <2>2. QED
    BY <1>5, <1>10, <2>1
    DEF Natives, CallNative, CallBuiltin, CallFiberNew, CallFiberRun,
        CallFiberResume, CallYield, HasOperands
<1>11. QED
  BY <1>8, <1>9, <1>10 DEF Next

(* Both make TypeInv. *)
LEMMA TypeInvStep == TypeInv /\ [Next]_vars => TypeInv'
<1> SUFFICES ASSUME TypeInv, [Next]_vars
             PROVE  TypeInv'
  OBVIOUS
<1>1. CoreInv'
  BY CoreInvStep
<1>2. RegisterTypes'
  <2>1. CASE Next
    BY <1>1, <2>1, RegisterTypesStep
  <2>2. CASE UNCHANGED vars
    BY <2>2 DEF vars, registers, TypeInv, TypeOK, RegisterTypes, Depth
  <2>3. QED
    BY <2>1, <2>2
<1>3. QED
  BY <1>1, <1>2 DEF TypeInv, TypeOK, CoreInv, RegisterTypes

(* TypeInv is an invariant. *)
LEMMA TypeInvariant == Spec => []TypeInv
BY InitTypeInv, TypeInvStep, PTL DEF Spec

(* In every reachable state the VM's fiber, the offsets, the frames and the *)
(* C stack are what their C types say (vm->fiber may be NULL, a caller too).*)
THEOREM TypeCorrect == Spec => []TypeOK
<1>1. TypeInv => TypeOK
  BY DEF TypeInv
<1>2. QED
  BY <1>1, TypeInvariant, PTL

-----------------------------------------------------------------------------
(* The chain of callers.  An action does one of four things to it: nothing, *)
(* entering a fiber, running a fresh one, leaving the current one.          *)
ChainInv == CallersAreRunning /\ OneFiberPerCaller /\ CallersAcyclic

(* The chain and the running fibers stay. *)
LEMMA ChainKept ==
  ASSUME TypeOK, ChainInv, UNCHANGED <<fiber, caller>>,
         \A f \in Fiber : state[f] = "running" => state'[f] = "running"
  PROVE  ChainInv'
<1>1. CallersAreRunning'
  BY DEF ChainInv, CallersAreRunning, TypeOK
<1>2. OneFiberPerCaller' /\ CallersAcyclic'
  BY DEF ChainInv, OneFiberPerCaller, CallersAcyclic
<1>3. QED
  BY <1>1, <1>2 DEF ChainInv

(* vmPrepareFiber() and vmSwitchFiber() put the fiber on top of the chain. *)
LEMMA ChainEnter ==
  ASSUME TypeOK, ChainInv, NEW g \in Fiber, state[g] # "running", Enter(g)
  PROVE  ChainInv'
<1> USE FiberAssumption
<1>1. /\ fiber # g /\ caller[g] = NoFiber
      /\ \A f \in Fiber : caller[f] # g /\ (caller[f] # NoFiber => caller[f] # fiber)
  BY DEF ChainInv, CallersAreRunning, TypeOK
<1>2. /\ caller' = [caller EXCEPT ![g] = fiber] /\ fiber' = g
      /\ state' = [state EXCEPT ![g] = "running"]
  BY DEF Enter
<1>3. CallersAreRunning'
  BY <1>1, <1>2 DEF ChainInv, CallersAreRunning, TypeOK
<1>4. OneFiberPerCaller'
  BY <1>1, <1>2 DEF ChainInv, OneFiberPerCaller, TypeOK
<1>5. CallersAcyclic'
  <2> SUFFICES ASSUME NEW S \in SUBSET Fiber, \A f \in S : caller'[f] \in S
               PROVE  S = {}
    BY DEF CallersAcyclic
  <2>1. \A f \in S \ {g} : caller[f] \in S \ {g}
    BY <1>1, <1>2 DEF TypeOK
  <2>2. S \ {g} = {}
    BY <2>1 DEF ChainInv, CallersAcyclic
  <2>3. g \in S => fiber \in S
    BY <1>2 DEF TypeOK
  <2>4. g \notin S
    BY <1>1, <2>2, <2>3
  <2>5. QED
    BY <2>2, <2>4
<1>6. QED
  BY <1>3, <1>4, <1>5 DEF ChainInv

(* pkInterpretSource() starts a chain of its own. *)
LEMMA ChainFresh ==
  ASSUME TypeOK, ChainInv, NEW g \in Fiber, state[g] # "running",
         fiber' = g, state' = [state EXCEPT ![g] = "running"], UNCHANGED caller
  PROVE  ChainInv'
<1>1. CallersAreRunning'
  BY FiberAssumption DEF ChainInv, CallersAreRunning, TypeOK
<1>2. OneFiberPerCaller' /\ CallersAcyclic'
  BY DEF ChainInv, OneFiberPerCaller, CallersAcyclic
<1>3. QED
  BY <1>1, <1>2 DEF ChainInv

(* vmYieldFiber() and FIBER_SWITCH_BACK take the top off the chain. *)
LEMMA ChainLeave ==
  ASSUME TypeOK, ChainInv, fiber # NoFiber, NEW how \in FiberState,
         state' = [state EXCEPT ![fiber] = how],
         caller' = [caller EXCEPT ![fiber] = NoFiber],
         fiber' = caller[fiber]
  PROVE  ChainInv'
<1> USE FiberAssumption
<1>1. fiber \in Fiber /\ caller[fiber] # fiber
  BY DEF ChainInv, CallersAreRunning, TypeOK
<1>2. \A f \in Fiber : /\ caller'[f] = IF f = fiber THEN NoFiber ELSE caller[f]
                       /\ f # fiber => state'[f] = state[f]
  BY DEF TypeOK
<1>3. CallersAreRunning'
  <2>1. fiber' # NoFiber => state'[fiber'] = "running"
    BY <1>1, <1>2 DEF ChainInv, CallersAreRunning, TypeOK
  <2>2. ASSUME NEW f \in Fiber, caller'[f] # NoFiber
        PROVE  /\ state'[f] = "running"
               /\ state'[caller'[f]] = "running"
               /\ caller'[f] # fiber'
    <3>1. f # fiber /\ caller'[f] = caller[f] /\ caller[f] \in Fiber
      BY <1>2, <2>2 DEF TypeOK
    <3>2. state[f] = "running" /\ state[caller[f]] = "running" /\ caller[f] # fiber
      BY <3>1 DEF ChainInv, CallersAreRunning
    <3>3. caller[f] # caller[fiber]
      BY <1>1, <3>1 DEF ChainInv, OneFiberPerCaller
    <3>4. QED
      BY <1>2, <3>1, <3>2, <3>3
  <2>3. QED
    BY <2>1, <2>2 DEF CallersAreRunning
<1>4. OneFiberPerCaller'
  BY <1>2 DEF ChainInv, OneFiberPerCaller
<1>5. CallersAcyclic'
  <2> SUFFICES ASSUME NEW S \in SUBSET Fiber, \A f \in S : caller'[f] \in S
               PROVE  S = {}
    BY DEF CallersAcyclic
  <2>1. fiber \notin S
    BY <1>2
  <2>2. \A f \in S : caller[f] \in S
    BY <1>2, <2>1
  <2>3. QED
    BY <2>2 DEF ChainInv, CallersAcyclic
<1>6. QED
  BY <1>3, <1>4, <1>5 DEF ChainInv

(* Every step does one of the four. *)
LEMMA ChainStep == TypeInv /\ ChainInv /\ [Next]_vars => ChainInv'
<1> SUFFICES ASSUME TypeInv, ChainInv, [Next]_vars
             PROVE  ChainInv'
  OBVIOUS
<1>1. TypeOK
  BY DEF TypeInv
<1>2. CASE UNCHANGED <<fiber, state, caller>>
  BY <1>1, <1>2, ChainKept
<1>3. ASSUME NEW g \in Fiber, NEW n \in BOOLEAN,
             Allocate(g, n), UNCHANGED <<fiber, caller>>
      PROVE  ChainInv'
  <2>1. \A f \in Fiber : state[f] = "running" => state'[f] = "running"
    BY <1>1, <1>3 DEF Allocate, TypeOK
  <2>2. QED
    BY <1>1, <1>3, <2>1, ChainKept
<1>4. ASSUME NEW g \in Fiber, HostInterpret(g)
      PROVE  ChainInv'
  BY <1>1, <1>4, ChainFresh DEF HostInterpret
<1>5. ASSUME NEW g \in Fiber, state[g] \in {"new", "yielded"}, Enter(g)
      PROVE  ChainInv'
  BY <1>1, <1>5, ChainEnter
<1>6. ASSUME Executing, SwitchBack
      PROVE  ChainInv'
  <2>1. fiber # NoFiber /\ "done" \in FiberState
    BY <1>6 DEF TypeInv, FiberState
  <2>2. QED
    BY <1>1, <1>6, <2>1, ChainLeave DEF SwitchBack
<1>7. ASSUME NEW n \in Argc, NEW v \in Value, CallYield(n, v)
      PROVE  ChainInv'
  <2>1. fiber # NoFiber /\ "yielded" \in FiberState
    BY <1>7 DEF CallYield, Suspend, HasOperands, TypeInv, FiberState
  <2>2. QED
    BY <1>1, <1>7, <2>1, ChainLeave DEF CallYield, Suspend
<1>8. ASSUME AfterNative
      PROVE  ChainInv'
  <2>1. CASE fiber # NoFiber /\ SwitchBack
    <3>1. "done" \in FiberState
      BY DEF FiberState
    <3>2. QED
      BY <1>1, <2>1, <3>1, ChainLeave DEF SwitchBack
  <2>2. QED
    BY <1>2, <1>8, <2>1 DEF AfterNative
<1>9. CASE Host
  BY <1>2, <1>3, <1>4, <1>5, <1>9
  DEF Host, HostNewFiber, HostRun, HostResume, HostRefused, NativeReturnValue,
      NativeSetError, CanPrepare, CanSwitch
<1>10. CASE Bytecode
  BY <1>2, <1>6, <1>10
  DEF Bytecode, Evaluate, CallScript, TailCallScript, ImportBody, ReturnFromCall,
      ReturnFromFiber, RuntimeError, HasOperands
<1>11. CASE Natives
  BY <1>2, <1>3, <1>5, <1>7, <1>8, <1>11
  DEF Natives, CallNative, CallBuiltin, CallFiberNew, CallFiberRun,
      CallFiberResume, CanPrepare, CanSwitch
<1>12. QED
  BY <1>2, <1>9, <1>10, <1>11 DEF Next, vars

(* At the start nobody waits. *)
LEMMA InitChain == Init => ChainInv
<1>1. ASSUME Init, NEW S \in SUBSET Fiber, \A f \in S : caller[f] \in S
      PROVE  S = {}
  BY <1>1, FiberAssumption DEF Init
<1>2. QED
  BY <1>1, FiberAssumption
  DEF Init, ChainInv, CallersAreRunning, OneFiberPerCaller, CallersAcyclic

(* However scripts, errors, refused calls and natives that call the API     *)
(* again interleave: a fiber that is waited for is running (FIBER_SWITCH_   *)
(* BACK asserts it), it is waited for by one fiber only, and following the  *)
(* callers ends in the host.                                                *)
THEOREM CallerChain ==
  Spec => []ChainOfCallers
<1>1. ChainInv => ChainOfCallers
  BY DEF ChainInv, ChainOfCallers
<1>2. QED
  BY <1>1, InitChain, TypeInvariant, ChainStep, PTL DEF Spec
-----------------------------------------------------------------------------
(* Who waits.  Three actions change the live fibers: entering one, running  *)
(* a fresh one, leaving the current one.                                    *)
WaitInv ==
  \A f \in Fiber : Live(f) /\ (f # fiber \/ HostCode) =>
    Pending(f) \/ sp[f] = ret[f] + 1

(* A live fiber is running, stated of the state after a step. *)
LEMMA LiveRunning ==
  ASSUME TypeOK', CallersAreRunning', NEW f \in Fiber, Live(f)'
  PROVE  state'[f] = "running"
<1> DEFINE S == {g \in Fiber : state'[g] = "running"} \cup {NoFiber}
<1>1. fiber' \in S /\ \A g \in S \cap Fiber : caller'[g] \in S
  BY DEF CallersAreRunning, TypeOK
<1>2. f \in S
  BY <1>1 DEF Live
<1>3. QED
  BY <1>2, FiberAssumption

(* The chain stays: the live fibers too. *)
LEMMA LiveKept ==
  ASSUME UNCHANGED <<fiber, caller>>, NEW f \in Fiber, Live(f)'
  PROVE  Live(f)
BY DEF Live

(* Entering a fiber makes that one live, no other. *)
LEMMA LiveEnter ==
  ASSUME TypeOK, NEW g \in Fiber, Enter(g), NEW f \in Fiber, Live(f)'
  PROVE  f = g \/ Live(f)
<1> SUFFICES ASSUME NEW S \in SUBSET (Fiber \cup {NoFiber}), fiber \in S,
                    \A h \in S \cap Fiber : caller[h] \in S,
                    f # g
             PROVE  f \in S
  BY DEF Live
<1> DEFINE T == S \cup {g}
<1>1. fiber' \in T /\ T \in SUBSET (Fiber \cup {NoFiber})
  BY DEF Enter
<1>2. \A h \in T \cap Fiber : caller'[h] \in T
  BY DEF Enter, TypeOK
<1>3. f \in T
  BY <1>1, <1>2 DEF Live
<1>4. QED
  BY <1>3

(* A fresh fiber with no caller is the only live one. *)
LEMMA LiveFresh ==
  ASSUME NEW g \in Fiber, fiber' = g, caller[g] = NoFiber, UNCHANGED caller,
         NEW f \in Fiber, Live(f)'
  PROVE  f = g
<1> DEFINE S == {g, NoFiber}
<1>1. fiber' \in S /\ \A h \in S \cap Fiber : caller'[h] \in S
  BY FiberAssumption
<1>2. f \in S
  BY <1>1 DEF Live
<1>3. QED
  BY <1>2, FiberAssumption

(* Leaving a fiber makes none live. *)
LEMMA LiveLeave ==
  ASSUME TypeOK, fiber \in Fiber,
         caller' = [caller EXCEPT ![fiber] = NoFiber], fiber' = caller[fiber],
         NEW f \in Fiber, Live(f)'
  PROVE  Live(f)
<1> SUFFICES ASSUME NEW S \in SUBSET (Fiber \cup {NoFiber}), fiber \in S,
                    \A h \in S \cap Fiber : caller[h] \in S
             PROVE  f \in S
  BY DEF Live
<1> DEFINE T == S \cup {NoFiber}
<1>1. fiber' \in T /\ T \in SUBSET (Fiber \cup {NoFiber})
  OBVIOUS
<1>2. \A h \in T \cap Fiber : caller'[h] \in T
  BY FiberAssumption DEF TypeOK
<1>3. f \in T
  BY <1>1, <1>2 DEF Live
<1>4. QED
  BY <1>3, FiberAssumption

(* What pushing and popping the C stack do to the calls in progress. *)

(* Calls in progress stay in progress; a native's caller becomes pending. *)
LEMMA PushPending ==
  ASSUME TypeOK, NEW e \in Entry, cstack' = Append(cstack, e)
  PROVE  /\ \A f \in Fiber : Pending(f) => Pending(f)'
         /\ e.kind # "run" => \A f \in Fiber : f = e.fb => Pending(f)'
<1>1. /\ cstack' \in Seq(Entry) /\ Len(cstack') = Len(cstack) + 1
      /\ \A i \in 1 .. Len(cstack) : cstack'[i] = cstack[i]
      /\ cstack'[Len(cstack) + 1] = e
      /\ Len(cstack) \in Nat
  BY AppendProperties DEF TypeOK
<1>2. DOMAIN cstack = 1 .. Len(cstack) /\ DOMAIN cstack' = 1 .. Len(cstack) + 1
  BY <1>1 DEF TypeOK
<1>3. QED
  BY <1>1, <1>2 DEF Pending

(* Calling runFiber() or a builtin, the host no longer executes. *)
LEMMA PushNotHost ==
  ASSUME TypeOK, NEW e \in Entry, cstack' = Append(cstack, e), e.kind # "native"
  PROVE  ~HostCode'
<1>1. /\ cstack' # <<>> /\ Len(cstack') = Len(cstack) + 1
      /\ cstack'[Len(cstack) + 1] = e
  <2>1. cstack \in Seq(Entry)
    BY DEF TypeOK
  <2>2. QED
    BY <2>1, AppendProperties
<1>2. Last(cstack)' = e
  BY <1>1 DEF Last
<1>3. QED
  BY <1>1, <1>2 DEF HostCode

(* Popping the call of another fiber, or a run, ends no call of this one. *)
LEMMA PopPending ==
  ASSUME NEW s \in Seq(Entry), s # <<>>, NEW f, NEW i \in DOMAIN s,
         s[i].kind # "run", s[i].fb = f,
         Last(s).kind = "run" \/ Last(s).fb # f
  PROVE  \E j \in DOMAIN Front(s) : Front(s)[j].kind # "run" /\ Front(s)[j].fb = f
<1>1. /\ Front(s) \in Seq(Entry) /\ Len(Front(s)) = Len(s) - 1
      /\ Len(s) \in Nat \ {0} /\ Last(s) = s[Len(s)]
      /\ \A k \in 1 .. Len(s) - 1 : Front(s)[k] = s[k]
  BY FrontLast
<1>2. i \in 1 .. Len(s) /\ i # Len(s)
  BY <1>1
<1>3. i \in 1 .. Len(s) - 1 /\ DOMAIN Front(s) = 1 .. Len(s) - 1
  BY <1>1, <1>2
<1>4. QED
  BY <1>1, <1>3

(* The four ways the steps keep WaitInv: the chain stays and no waiter is   *)
(* touched; a native is called, which makes its caller pending; a call of   *)
(* the host enters a fiber; the current fiber is done and left.             *)
LEMMA WaitKept ==
  ASSUME WaitInv, UNCHANGED <<fiber, caller, cstack>>,
         \A f \in Fiber : f # fiber \/ HostCode =>
           sp'[f] = sp[f] /\ ret'[f] = ret[f]
  PROVE  WaitInv'
<1> SUFFICES ASSUME NEW f \in Fiber, Live(f)', (f # fiber \/ HostCode)'
             PROVE  Pending(f)' \/ sp'[f] = ret'[f] + 1
  BY DEF WaitInv
<1>1. Live(f) /\ (f # fiber \/ HostCode)
  BY LiveKept DEF HostCode
<1>2. Pending(f) \/ sp[f] = ret[f] + 1
  BY <1>1 DEF WaitInv
<1>3. Pending(f) => Pending(f)'
  BY DEF Pending
<1>4. QED
  BY <1>1, <1>2, <1>3

(* Calling a native. *)
LEMMA WaitCall ==
  ASSUME TypeInv, WaitInv, Executing,
         NEW kind \in {"builtin", "native"}, PushNative(kind),
         \A f \in Fiber : Live(f)' /\ (f # fiber' \/ HostCode') =>
           Live(f) /\ (f # fiber => sp'[f] = sp[f] /\ ret'[f] = ret[f])
  PROVE  WaitInv'
<1> SUFFICES ASSUME NEW f \in Fiber, Live(f)', (f # fiber \/ HostCode)'
             PROVE  Pending(f)' \/ sp'[f] = ret'[f] + 1
  BY DEF WaitInv
<1>1. PICK e \in Entry :
        cstack' = Append(cstack, e) /\ e.kind # "run" /\ e.fb = fiber
  BY PushNativeType DEF Entry, PushNative
<1>2. \A g \in Fiber : Pending(g) \/ g = fiber => Pending(g)'
  <2>1. \A g \in Fiber : Pending(g) \/ g = e.fb => Pending(g)'
    BY <1>1, PushPending DEF TypeInv
  <2>2. QED
    BY <1>1, <2>1
<1>3. CASE f = fiber
  BY <1>2, <1>3
<1>4. CASE f # fiber
  <2>1. Pending(f) \/ sp[f] = ret[f] + 1
    BY <1>4 DEF WaitInv
  <2>2. QED
    BY <1>2, <1>4, <2>1
<1>5. QED
  BY <1>3, <1>4

(* pkRunFiber() and pkResumeFiber(): the fiber whose native calls them waits. *)
LEMMA WaitHost ==
  ASSUME TypeInv, ChainInv, WaitInv, NEW g \in Fiber, NEW s, PushRun(g, s),
         state[g] # "running", Enter(g), UNCHANGED ret,
         \A f \in Fiber : f # g => sp'[f] = sp[f]
  PROVE  WaitInv'
<1> SUFFICES ASSUME NEW f \in Fiber, Live(f)', (f # fiber \/ HostCode)'
             PROVE  Pending(f)' \/ sp'[f] = ret'[f] + 1
  BY DEF WaitInv
<1>1. PICK e \in Entry : cstack' = Append(cstack, e) /\ e.kind = "run"
  BY DEF Entry, PushRun
<1>2. \A h \in Fiber : Pending(h) => Pending(h)'
  BY <1>1, PushPending DEF TypeInv
<1>3. ~HostCode'
  BY <1>1, PushNotHost DEF TypeInv
<1>4. f # g /\ Live(f)
  BY <1>3, LiveEnter DEF Enter, TypeInv
<1>5. Pending(f) \/ sp[f] = ret[f] + 1
  BY <1>4 DEF WaitInv, PushRun
<1>6. QED
  BY <1>2, <1>4, <1>5

(* FIBER_SWITCH_BACK: the fiber that is done is not waited for any more. *)
LEMMA WaitDone ==
  ASSUME TypeInv, WaitInv, TypeOK', CallersAreRunning', fiber \in Fiber, SwitchBack,
         \A f \in Fiber : f # fiber /\ (Pending(f) \/ sp[f] = ret[f] + 1) =>
           Pending(f)' \/ sp'[f] = ret'[f] + 1
  PROVE  WaitInv'
<1> SUFFICES ASSUME NEW f \in Fiber, Live(f)'
             PROVE  Pending(f)' \/ sp'[f] = ret'[f] + 1
  BY DEF WaitInv
<1>1. Live(f)
  BY LiveLeave DEF SwitchBack, TypeInv
<1>2. state'[f] = "running"
  BY LiveRunning
<1>3. f # fiber
  BY <1>2 DEF SwitchBack, TypeInv, TypeOK
<1>4. QED
  BY <1>1, <1>3 DEF WaitInv

(* Every step keeps WaitInv, given the type and the chain on both sides. *)
LEMMA WaitStep ==
  TypeInv /\ ChainInv /\ WaitInv /\ TypeInv' /\ ChainInv' /\ [Next]_vars => WaitInv'
<1> SUFFICES ASSUME TypeInv, ChainInv, WaitInv, TypeInv', ChainInv', [Next]_vars
             PROVE  WaitInv'
  OBVIOUS
<1> USE FiberAssumption
<1>1. TypeOK /\ CallersAreRunning /\ TypeOK' /\ CallersAreRunning'
  BY DEF TypeInv, ChainInv
<1>2. Executing => ~HostCode /\ fiber \in Fiber
  BY DEF Executing, HostCode, TypeInv, TypeOK
<1>3. CASE UNCHANGED <<fiber, caller, cstack, sp, ret>>
  BY <1>3, WaitKept
<1>4. ASSUME NEW g \in Fiber, HostInterpret(g)
      PROVE  WaitInv'
  <2> SUFFICES ASSUME NEW f \in Fiber, Live(f)', (f # fiber \/ HostCode)'
               PROVE  FALSE
    BY DEF WaitInv
  <2>1. fiber' = g /\ caller[g] = NoFiber /\ UNCHANGED caller
    BY <1>1, <1>4 DEF HostInterpret, CallersAreRunning, TypeOK
  <2>2. f = g
    BY <2>1, LiveFresh
  <2>3. PICK e \in Entry : cstack' = Append(cstack, e) /\ e.kind = "run"
    BY <1>4 DEF HostInterpret, PushRun, Entry
  <2>4. ~HostCode'
    BY <1>1, <2>3, PushNotHost
  <2>5. QED
    BY <2>1, <2>2, <2>4
<1>5. ASSUME NEW g \in Fiber, NEW n \in Argc, HostRun(g, n)
      PROVE  WaitInv'
  BY <1>1, <1>5, WaitHost DEF HostRun, CanPrepare, TypeOK
<1>6. ASSUME NEW g \in Fiber, NEW v \in Value, HostResume(g, v)
      PROVE  WaitInv'
  BY <1>1, <1>6, WaitHost DEF HostResume, CanSwitch
<1>7. ASSUME Executing, UNCHANGED <<fiber, caller, cstack>>,
             \A f \in Fiber \ {fiber} : sp'[f] = sp[f] /\ ret'[f] = ret[f]
      PROVE  WaitInv'
  BY <1>2, <1>7, WaitKept
<1>8. ASSUME Executing, NEW kind \in {"builtin", "native"}, PushNative(kind),
             UNCHANGED <<fiber, caller>>,
             \A f \in Fiber \ {fiber} : sp'[f] = sp[f] /\ ret'[f] = ret[f]
      PROVE  WaitInv'
  BY <1>8, LiveKept, WaitCall
<1>9. ASSUME NEW g \in Fiber, Executing, state[g] # "running", Enter(g),
             PushNative("builtin"),
             \A f \in Fiber \ {fiber, g} : sp'[f] = sp[f] /\ ret'[f] = ret[f]
      PROVE  WaitInv'
  <2>1. PICK e \in Entry : cstack' = Append(cstack, e) /\ e.kind = "builtin"
    BY <1>2, <1>9 DEF PushNative, Entry
  <2>2. ~HostCode'
    BY <1>1, <2>1, PushNotHost
  <2>3. fiber' = g
    BY <1>9 DEF Enter
  <2>4. \A f \in Fiber : Live(f)' /\ f # g => Live(f)
    BY <1>1, <1>9, LiveEnter
  <2>5. QED
    BY <1>9, <2>2, <2>3, <2>4, WaitCall
<1>10. ASSUME NEW n \in Argc, NEW v \in Value, CallYield(n, v)
       PROVE  WaitInv'
  <2>1. Executing /\ fiber \in Fiber
    BY <1>2, <1>10 DEF CallYield, Suspend, HasOperands
  <2>2. \A f \in Fiber : Live(f)' => Live(f)
    BY <1>1, <1>10, <2>1, LiveLeave DEF CallYield, Suspend
  <2>3. \A f \in Fiber \ {fiber} : sp'[f] = sp[f] /\ ret'[f] = ret[f]
    BY <1>10 DEF CallYield, Suspend, SetRet, TypeInv, TypeOK
  <2>4. QED
    BY <1>10, <2>1, <2>2, <2>3, WaitCall DEF CallYield, Suspend
<1>11. ASSUME AfterNative
       PROVE  WaitInv'
  <2> DEFINE below == Front(cstack)
  <2>1. /\ cstack \in Seq(Entry) /\ cstack # <<>> /\ Last(cstack).kind # "run"
        /\ below \in Seq(Entry) /\ below # <<>> /\ Last(below).kind = "run"
        /\ CallFiber \in Fiber
    BY <1>1, <1>11, PopNativeType DEF AfterNative, CallFiber, TypeOK
  <2>2. CASE fiber = NoFiber
    <3> SUFFICES ASSUME NEW f \in Fiber, Live(f)'
                 PROVE  FALSE
      BY DEF WaitInv
    <3> DEFINE S == {NoFiber}
    <3>1. fiber' \in S /\ \A h \in S \cap Fiber : caller'[h] \in S
      BY <1>11, <2>2 DEF AfterNative
    <3>2. f \in S
      BY <3>1 DEF Live
    <3>3. QED
      BY <3>2
  <2>3. ASSUME fiber # NoFiber, NEW f \in Fiber, Pending(f) \/ sp[f] = ret[f] + 1
        PROVE  \/ sp'[f] = ret'[f] + 1
               \/ \E i \in DOMAIN below : below[i].kind # "run" /\ below[i].fb = f
    <3>1. /\ sp' = [sp EXCEPT ![CallFiber] = ret[CallFiber] + 1]
          /\ UNCHANGED ret
      BY <1>11, <2>3 DEF AfterNative
    <3>2. CASE f = CallFiber
      BY <1>1, <3>1, <3>2 DEF TypeOK
    <3>3. CASE f # CallFiber /\ sp[f] = ret[f] + 1
      BY <1>1, <3>1, <3>3 DEF TypeOK
    <3>4. CASE f # CallFiber /\ Pending(f)
      <4>1. PICK i \in DOMAIN cstack : cstack[i].kind # "run" /\ cstack[i].fb = f
        BY <3>4 DEF Pending
      <4>2. QED
        BY <2>1, <3>4, <4>1, PopPending DEF CallFiber
    <3>5. QED
      BY <2>3, <3>2, <3>3, <3>4
  <2>4. CASE fiber # NoFiber /\ ~error[fiber]
    <3> SUFFICES ASSUME NEW f \in Fiber, Live(f)', (f # fiber \/ HostCode)'
                 PROVE  Pending(f)' \/ sp'[f] = ret'[f] + 1
      BY DEF WaitInv
    <3>1. cstack' = below /\ UNCHANGED <<fiber, caller>>
      BY <1>11, <2>4 DEF AfterNative
    <3>2. ~HostCode'
      BY <2>1, <3>1 DEF HostCode
    <3>3. Live(f) /\ f # fiber
      BY <3>1, <3>2, LiveKept
    <3>4. Pending(f) \/ sp[f] = ret[f] + 1
      BY <3>3 DEF WaitInv
    <3>5. QED
      BY <2>3, <2>4, <3>1, <3>4 DEF Pending
  <2>5. CASE fiber # NoFiber /\ error[fiber]
    <3>1. SwitchBack /\ cstack' = Front(below) /\ fiber \in Fiber
      BY <1>1, <1>11, <2>5 DEF AfterNative, TypeOK
    <3>2. ASSUME NEW f \in Fiber, Pending(f) \/ sp[f] = ret[f] + 1
          PROVE  Pending(f)' \/ sp'[f] = ret'[f] + 1
      <4>1. CASE sp'[f] = ret'[f] + 1
        BY <4>1
      <4>2. CASE \E i \in DOMAIN below : below[i].kind # "run" /\ below[i].fb = f
        <5>1. PICK i \in DOMAIN below : below[i].kind # "run" /\ below[i].fb = f
          BY <4>2
        <5>2. QED
          BY <2>1, <3>1, <5>1, PopPending DEF Pending
      <4>3. QED
        BY <2>3, <2>5, <3>2, <4>1, <4>2
    <3>3. QED
      BY <1>1, <3>1, <3>2, WaitDone
  <2>6. QED
    BY <2>2, <2>4, <2>5
<1>12. ASSUME Executing, SwitchBack, cstack' \in {cstack, Front(cstack)},
              \A f \in Fiber \ {fiber} : sp'[f] = sp[f] /\ ret'[f] = ret[f]
       PROVE  WaitInv'
  <2>1. ASSUME NEW f \in Fiber \ {fiber}, Pending(f)
        PROVE  Pending(f)'
    <3>1. PICK i \in DOMAIN cstack : cstack[i].kind # "run" /\ cstack[i].fb = f
      BY <2>1 DEF Pending
    <3>2. cstack \in Seq(Entry) /\ cstack # <<>> /\ Last(cstack).kind = "run"
      BY <1>1, <1>12 DEF Executing, TypeOK
    <3>3. \E j \in DOMAIN Front(cstack) :
            Front(cstack)[j].kind # "run" /\ Front(cstack)[j].fb = f
      BY <3>1, <3>2, PopPending
    <3>4. QED
      BY <1>12, <2>1, <3>3 DEF Pending
  <2>2. QED
    BY <1>1, <1>2, <1>12, <2>1, WaitDone
<1>13. CASE Host
  BY <1>3, <1>4, <1>5, <1>6, <1>13
  DEF Host, HostNewFiber, HostRefused, NativeReturnValue, NativeSetError
<1>14. CASE Bytecode
  <2>1. ASSUME NEW top \in 0 .. MaxSp, NEW v \in Value, Evaluate(top, v)
        PROVE  WaitInv'
    BY <1>1, <1>7, <2>1 DEF Evaluate, TypeOK
  <2>2. ASSUME NEW n \in Argc, CallScript(n)
        PROVE  WaitInv'
    BY <1>1, <1>7, <2>2 DEF CallScript, HasOperands, SetRet, TypeOK
  <2>3. ASSUME NEW n \in Argc, NEW v \in Value, TailCallScript(n, v)
        PROVE  WaitInv'
    BY <1>1, <1>7, <2>3 DEF TailCallScript, HasOperands, SetRet, TypeOK
  <2>4. ASSUME NEW v \in Value, ReturnFromCall(v)
        PROVE  WaitInv'
    BY <1>1, <1>7, <2>4 DEF ReturnFromCall, HasOperands, TypeOK
  <2>5. ASSUME NEW v \in Value, ReturnFromFiber(v)
        PROVE  WaitInv'
    BY <1>1, <1>12, <2>5 DEF ReturnFromFiber, HasOperands, TypeOK
  <2>6. CASE RuntimeError
    BY <1>12, <2>6 DEF RuntimeError
  <2>7. ASSUME NEW v \in Value, ImportBody(v)
        PROVE  WaitInv'
    BY <1>1, <1>7, <2>7 DEF ImportBody, TypeOK
  <2>8. QED
    BY <1>14, <2>1, <2>2, <2>3, <2>4, <2>5, <2>6, <2>7 DEF Bytecode
<1>15. CASE Natives
  <2>1. ASSUME NEW n \in Argc, CallNative(n)
        PROVE  WaitInv'
    BY <1>1, <1>8, <2>1 DEF CallNative, HasOperands, SetRet, TypeOK
  <2>2. ASSUME NEW n \in Argc, NEW v \in Value, NEW e \in BOOLEAN, CallBuiltin(n, v, e)
        PROVE  WaitInv'
    BY <1>1, <1>8, <2>2 DEF CallBuiltin, HasOperands, SetRet, TypeOK
  <2>3. ASSUME NEW g \in Fiber, NEW n \in BOOLEAN, NEW v \in Value,
               CallFiberNew(g, n, v)
        PROVE  WaitInv'
    BY <1>1, <1>8, <2>3 DEF CallFiberNew, HasOperands, SetRet, TypeOK
  <2>4. ASSUME NEW g \in Fiber, NEW n \in Argc, CallFiberRun(g, n)
        PROVE  WaitInv'
    BY <1>1, <1>9, <2>4 DEF CallFiberRun, HasOperands, SetRet, CanPrepare, TypeOK
  <2>5. ASSUME NEW g \in Fiber, NEW n \in Argc, NEW v \in Value,
               CallFiberResume(g, n, v)
        PROVE  WaitInv'
    BY <1>1, <1>9, <2>5 DEF CallFiberResume, HasOperands, SetRet, CanSwitch, TypeOK
  <2>6. QED
    BY <1>10, <1>11, <1>15, <2>1, <2>2, <2>3, <2>4, <2>5 DEF Natives
<1>16. QED
  BY <1>3, <1>13, <1>14, <1>15 DEF Next, vars

(* A fiber that control can come back to has the slot of the call it is in  *)
(* on top of its stack (or below the arguments of a native that has not     *)
(* returned): the value vmYieldFiber(), OP_RETURN and pkResumeFiber() store *)
(* is the value of that call, and the arguments have been popped.           *)
THEOREM WaitersAtSlot == Spec => []CallersWaitAtSlot
<1>1. Init => WaitInv
  <2> SUFFICES ASSUME Init, NEW f \in Fiber
               PROVE  sp[f] = ret[f] + 1
    BY DEF WaitInv
  <2>1. QED
    BY DEF Init
<1>2. Init => ChainInv
  BY InitChain
<1>3. WaitInv => CallersWaitAtSlot
  BY DEF WaitInv, CallersWaitAtSlot
<1>4. QED
  BY <1>1, <1>2, <1>3, InitTypeInv, TypeInvStep, ChainStep, WaitStep, PTL DEF Spec

(* What Last is of a sequence appended to. *)
LEMMA LastAppended ==
  ASSUME NEW S, NEW s \in Seq(S), NEW e \in S
  PROVE  Append(s, e) # <<>> /\ Last(Append(s, e)) = e
<1>1. /\ Append(s, e) # <<>> /\ Len(Append(s, e)) = Len(s) + 1
      /\ Append(s, e)[Len(s) + 1] = e
  BY AppendProperties
<1>2. QED
  BY <1>1 DEF Last

-----------------------------------------------------------------------------
(* The registers.  The invocation of runFiber() at depth i of the C stack   *)
(* executes the current fiber if it is the last, and else the fiber that    *)
(* called the native above it.  It keeps the base of that fiber's last      *)
(* frame until an invocation above it executes the fiber.  (RegInv is       *)
(* RegistersFit made inductive.)                                            *)
Runs(i) == IF i = Len(cstack) THEN fiber ELSE cstack[i + 1].fb

Began == {"running", "yielded"}

Held ==
  \A i \in 1 .. Len(cstack), f \in Fiber :
    /\ cstack[i].kind = "run"
    /\ f = Runs(i)
    /\ state[f] \in Began
    /\ loaded[f] = i
    => register[i] = LastBase(frames[f])

Unloaded == \A f \in Fiber : state[f] \in {"unborn", "new"} => loaded[f] = 0

LoadedHere == Executing /\ fiber \notin astray => loaded[fiber] = Depth

(* A native that has called nothing, or whose last call has succeeded,      *)
(* returns to the registers of its caller or to another fiber.              *)
LoadedBelow ==
  /\ cstack # <<>> /\ Last(cstack).kind # "run"
  /\ fiber = CallFiber /\ fiber \notin astray
  /\ loaded[fiber] # Depth - 1
  => result = "error"

RegInv == Held /\ Unloaded /\ LoadedHere /\ LoadedBelow

(* What a step may do to fibers it does not execute. *)
Undisturbed(f) ==
  /\ state'[f] \in Began => /\ state[f] \in Began \cup {"new"}
                            /\ frames'[f] = frames[f]
  /\ state'[f] \in {"unborn", "new"} => state[f] \in {"unborn", "new"}

(* A step that leaves the C stack and the registers alone. *)
LEMMA RegKept ==
  ASSUME TypeInv, RegInv, UNCHANGED <<fiber, cstack, registers>>,
         result' \in {result, "error"}, \A f \in Fiber : Undisturbed(f)
  PROVE  RegInv'
<1>1. UNCHANGED <<loaded, register, astray>>
  BY DEF registers
<1>2. Unloaded'
  BY <1>1 DEF RegInv, Unloaded, Undisturbed
<1>3. Held'
  <2> SUFFICES ASSUME NEW i \in 1 .. Len(cstack), NEW f \in Fiber,
                      cstack[i].kind = "run", f = Runs(i), state'[f] \in Began,
                      loaded[f] = i
               PROVE  register[i] = LastBase(frames[f])'
    BY <1>1 DEF Held, Runs
  <2>1. i # 0
    OBVIOUS
  <2>2. state[f] \in Began /\ frames'[f] = frames[f]
    BY <2>1 DEF RegInv, Unloaded, Undisturbed
  <2>3. QED
    BY <2>2 DEF RegInv, Held, LastBase
<1>4. LoadedHere' /\ LoadedBelow'
  BY <1>1 DEF RegInv, LoadedHere, LoadedBelow, Executing, Depth, CallFiber
<1>5. QED
  BY <1>2, <1>3, <1>4 DEF RegInv

(* Calling a native: its caller is the fiber that is executed. *)
LEMMA RegPushNative ==
  ASSUME TypeInv, RegInv, Executing, NEW kind \in {"builtin", "native"},
         PushNative(kind), \A f \in Fiber : Undisturbed(f)
  PROVE  RegInv'
<1> DEFINE e == [kind |-> kind, fb |-> fiber]
<1>1. UNCHANGED <<loaded, register, astray>>
  BY DEF PushNative, registers
<1>2. /\ cstack \in Seq(Entry) /\ Depth = Len(cstack) /\ Len(cstack) \in Nat
      /\ cstack # <<>>
  BY StackLength DEF Executing
<1>3. e \in Entry /\ cstack' = Append(cstack, e) /\ e.fb = fiber /\ e.kind # "run"
      /\ fiber \in Fiber
  BY DEF PushNative, Entry, TypeInv, TypeOK
<1> HIDE DEF e
<1>4. /\ Len(cstack') = Len(cstack) + 1 /\ cstack'[Len(cstack) + 1] = e
      /\ \A i \in 1 .. Len(cstack) : cstack'[i] = cstack[i]
  BY <1>2, <1>3, AppendProperties
<1>5. cstack' # <<>> /\ Last(cstack') = e
  BY <1>2, <1>3, LastAppended
<1>6. Unloaded'
  BY <1>1 DEF RegInv, Unloaded, Undisturbed
<1>7. Held'
  <2> SUFFICES ASSUME NEW i \in 1 .. Len(cstack'), NEW f \in Fiber,
                      cstack'[i].kind = "run", f = Runs(i)', state'[f] \in Began,
                      loaded[f] = i
               PROVE  register[i] = LastBase(frames[f])'
    BY <1>1 DEF Held
  <2>1. i \in 1 .. Len(cstack) /\ cstack[i].kind = "run" /\ i # 0
    BY <1>2, <1>3, <1>4
  <2>2. Runs(i)' = cstack'[i + 1].fb
    BY <1>2, <1>4, <2>1 DEF Runs
  <2>3. f = Runs(i)
    <3>1. CASE i = Len(cstack)
      BY <1>3, <1>4, <2>2, <3>1 DEF Runs
    <3>2. CASE i # Len(cstack)
      <4>1. i + 1 \in 1 .. Len(cstack)
        BY <1>2, <2>1, <3>2
      <4>2. QED
        BY <1>4, <2>2, <3>2, <4>1 DEF Runs
    <3>3. QED
      BY <3>1, <3>2
  <2>4. state[f] \in Began /\ frames'[f] = frames[f]
    BY <2>1 DEF RegInv, Unloaded, Undisturbed
  <2>5. QED
    BY <2>1, <2>3, <2>4 DEF RegInv, Held, LastBase
<1>8. LoadedHere'
  BY <1>3, <1>5 DEF LoadedHere, Executing
<1>9. LoadedBelow'
  <2>1. fiber \notin astray => loaded[fiber] = Len(cstack)
    BY <1>2 DEF RegInv, LoadedHere
  <2>2. Depth' - 1 = Len(cstack) /\ CallFiber' = fiber
    BY <1>2, <1>3, <1>4, <1>5 DEF Depth, CallFiber
  <2>3. QED
    BY <1>1, <2>1, <2>2 DEF LoadedBelow
<1>10. QED
  BY <1>6, <1>7, <1>8, <1>9 DEF RegInv

(* Invoking runFiber(): what it loads is the base of the fiber it enters,   *)
(* and the invocations below no longer know that fiber.                     *)
LEMMA RegPushRun ==
  ASSUME TypeInv, RegInv, NEW g \in Fiber, PushRun(g, frames'[g]), fiber' = g,
         state' = [state EXCEPT ![g] = "running"],
         \A f \in Fiber \ {g} : frames'[f] = frames[f]
  PROVE  RegInv'
<1> DEFINE e == [kind |-> "run", fb |-> g]
<1>1. /\ cstack \in Seq(Entry) /\ Depth = Len(cstack) /\ Len(cstack) \in Nat
      /\ \A i \in 1 .. Len(cstack) : i \in 1 .. MaxCStack
      /\ cstack # <<>> => Last(cstack) = cstack[Len(cstack)]
  BY StackLength
<1>2. e \in Entry /\ cstack' = Append(cstack, e) /\ e.kind = "run"
  BY DEF PushRun, Entry
<1> HIDE DEF e
<1>3. /\ Len(cstack') = Len(cstack) + 1 /\ cstack'[Len(cstack) + 1] = e
      /\ \A i \in 1 .. Len(cstack) : cstack'[i] = cstack[i]
  BY <1>1, <1>2, AppendProperties
<1>4. cstack' # <<>> /\ Last(cstack') = e
  BY <1>1, <1>2, LastAppended
<1>5. Depth + 1 \in 1 .. MaxCStack
  BY <1>1, FiberAssumption DEF PushRun
<1>6. /\ loaded' = [loaded EXCEPT ![g] = Depth + 1]
      /\ register' = [register EXCEPT ![Depth + 1] = LastBase(frames'[g])]
      /\ astray' = astray
      /\ loaded \in [Fiber -> Nat] /\ register \in [1 .. MaxCStack -> Nat]
      /\ state \in [Fiber -> FiberState]
  BY DEF PushRun, Load, TypeInv, TypeOK
<1>7. Unloaded'
  BY <1>6 DEF RegInv, Unloaded
<1>8. Held'
  <2> SUFFICES ASSUME NEW i \in 1 .. Len(cstack'), NEW f \in Fiber,
                      cstack'[i].kind = "run", f = Runs(i)', state'[f] \in Began,
                      loaded'[f] = i
               PROVE  register'[i] = LastBase(frames'[f])
    BY DEF Held, LastBase
  <2>1. CASE i = Len(cstack) + 1
    <3>1. f = g
      BY <1>3, <2>1 DEF Runs
    <3>2. QED
      BY <1>1, <1>5, <1>6, <2>1, <3>1
  <2>2. CASE i # Len(cstack) + 1
    <3>1. i \in 1 .. Len(cstack) /\ f # g /\ cstack[i].kind = "run"
      BY <1>1, <1>3, <1>6, <2>2
    <3>2. i # Len(cstack)
      <4>1. cstack # <<>>
        BY <1>1, <3>1, EmptySeq
      <4>2. QED
        BY <1>1, <3>1, <4>1 DEF PushRun, HostCode
    <3>3. i + 1 \in 1 .. Len(cstack)
      BY <1>1, <3>1, <3>2
    <3>4. f = Runs(i)
      BY <1>1, <1>3, <3>1, <3>2, <3>3 DEF Runs
    <3>5. state[f] \in Began /\ loaded[f] = i /\ frames'[f] = frames[f]
      BY <1>6, <3>1
    <3>6. register'[i] = register[i]
      BY <1>1, <1>6, <3>1
    <3>7. QED
      BY <3>1, <3>4, <3>5, <3>6 DEF RegInv, Held
  <2>3. QED
    BY <2>1, <2>2
<1>9. LoadedHere' /\ LoadedBelow'
  BY <1>1, <1>2, <1>3, <1>4, <1>6 DEF LoadedHere, LoadedBelow, Depth
<1>10. QED
  BY <1>7, <1>8, <1>9 DEF RegInv

(* LOAD_FRAME in the bytecode loop, of a fiber g that is the current one    *)
(* from now on.                                                             *)
LEMMA RegLoad ==
  ASSUME TypeInv, RegInv, Executing, NEW g \in Fiber, fiber' = g,
         Load(g, frames'[g], Depth), UNCHANGED <<cstack, astray>>,
         state[g] \in Began,
         \A f \in Fiber \ {g} : /\ state'[f] \in {state[f], "done"}
                                /\ state'[f] \in Began => frames'[f] = frames[f],
         state'[g] = state[g]
  PROVE  RegInv'
<1>1. /\ cstack \in Seq(Entry) /\ Depth = Len(cstack) /\ Len(cstack) \in 1 .. MaxCStack
      /\ \A i \in 1 .. Len(cstack) : i \in 1 .. MaxCStack
      /\ cstack # <<>> /\ Last(cstack).kind = "run"
  BY StackLength DEF Executing
<1>2. /\ loaded' = [loaded EXCEPT ![g] = Depth]
      /\ register' = [register EXCEPT ![Depth] = LastBase(frames'[g])]
      /\ loaded \in [Fiber -> Nat] /\ register \in [1 .. MaxCStack -> Nat]
  BY DEF Load, TypeInv, TypeOK
<1>3. Unloaded'
  BY <1>2 DEF RegInv, Unloaded, Began
<1>4. Held'
  <2> SUFFICES ASSUME NEW i \in 1 .. Len(cstack), NEW f \in Fiber,
                      cstack[i].kind = "run", f = Runs(i)', state'[f] \in Began,
                      loaded'[f] = i
               PROVE  register'[i] = LastBase(frames'[f])
    BY DEF Held, LastBase
  <2>1. CASE i = Len(cstack)
    BY <1>1, <1>2, <2>1 DEF Runs
  <2>2. CASE i # Len(cstack)
    <3>1. f # g /\ f = Runs(i)
      BY <1>1, <1>2, <2>2 DEF Runs
    <3>2. state[f] \in Began /\ loaded[f] = i /\ frames'[f] = frames[f]
      BY <1>2, <3>1 DEF Began
    <3>3. register'[i] = register[i]
      BY <1>1, <1>2, <2>2
    <3>4. QED
      BY <3>1, <3>2, <3>3 DEF RegInv, Held
  <2>3. QED
    BY <2>1, <2>2
<1>5. LoadedHere' /\ LoadedBelow'
  BY <1>1, <1>2 DEF LoadedHere, LoadedBelow, Depth
<1>6. QED
  BY <1>3, <1>4, <1>5 DEF RegInv

(* Leaving runFiber() for host code. *)
LEMMA RegLeave ==
  ASSUME TypeInv, RegInv, NEW k \in Nat, k < Len(cstack),
         cstack' \in Seq(Entry), Len(cstack') = k,
         \A i \in 1 .. k : cstack'[i] = cstack[i] /\ register'[i] = register[i],
         cstack' # <<>> => Last(cstack').kind # "run" /\ CallFiber' # NoFiber,
         \A f \in Fiber : state'[f] # "done" =>
           state'[f] = state[f] /\ frames'[f] = frames[f] /\ loaded'[f] = loaded[f],
         result' = "error" \/ fiber' = NoFiber
  PROVE  RegInv'
<1>1. Len(cstack) \in Nat
  BY StackLength
<1>2. Unloaded'
  BY DEF RegInv, Unloaded
<1>3. Held'
  <2> SUFFICES ASSUME NEW i \in 1 .. k, NEW f \in Fiber,
                      cstack'[i].kind = "run", f = Runs(i)', state'[f] \in Began,
                      loaded'[f] = i
               PROVE  register'[i] = LastBase(frames'[f])
    BY DEF Held, LastBase
  <2>1. i # k
    BY EmptySeq DEF Last
  <2>2. /\ i \in 1 .. Len(cstack) /\ i + 1 \in 1 .. k /\ i # Len(cstack)
        /\ cstack[i].kind = "run"
    BY <1>1, <2>1
  <2>3. f = Runs(i)
    BY <2>1, <2>2 DEF Runs
  <2>4. state[f] \in Began /\ frames'[f] = frames[f] /\ loaded[f] = i
    BY DEF Began
  <2>5. QED
    BY <2>2, <2>3, <2>4 DEF RegInv, Held
<1>4. LoadedHere' /\ LoadedBelow'
  BY DEF LoadedHere, LoadedBelow, Executing
<1>5. QED
  BY <1>2, <1>3, <1>4 DEF RegInv

(* The rest of OP_CALL of a native. *)
LEMMA RegAfterNative ==
  ASSUME TypeInv, ChainInv, RegInv, AfterNative
  PROVE  /\ RegInv'
         /\ astray' # astray => result = "error"
<1> DEFINE below == Front(cstack)
           d     == Len(below)
<1>1. /\ cstack \in Seq(Entry) /\ cstack # <<>> /\ Last(cstack).kind # "run"
      /\ below \in Seq(Entry) /\ below # <<>> /\ Last(below).kind = "run"
      /\ Front(below) \in Seq(Entry)
      /\ Front(below) # <<>> => Last(Front(below)).kind # "run"
      /\ CallFiber \in Fiber /\ TypeOK
  BY PopNativeType DEF AfterNative, CallFiber, TypeInv, TypeOK
<1>2. /\ Depth = Len(cstack) /\ Len(cstack) \in 1 .. MaxCStack
      /\ d = Len(cstack) - 1 /\ d \in Nat \ {0} /\ d \in 1 .. MaxCStack
      /\ \A i \in 1 .. d : below[i] = cstack[i] /\ i \in 1 .. MaxCStack
      /\ Last(cstack) = cstack[d + 1]
      /\ Len(Front(below)) = d - 1
      /\ \A i \in 1 .. d - 1 : Front(below)[i] = cstack[i] /\ i \in 1 .. MaxCStack
  <2>1. /\ Depth = Len(cstack) /\ Len(cstack) \in 1 .. MaxCStack
        /\ Last(cstack) = cstack[Len(cstack)] /\ MaxCStack \in Nat
    BY <1>1, StackLength, FiberAssumption
  <2>2. /\ d = Len(cstack) - 1
        /\ \A i \in 1 .. Len(cstack) - 1 : below[i] = cstack[i]
    BY <1>1, FrontLast
  <2>3. /\ d \in Nat \ {0} /\ Len(Front(below)) = d - 1
        /\ \A i \in 1 .. d - 1 : Front(below)[i] = below[i]
    BY <1>1, FrontLast
  <2> HIDE DEF below, d
  <2>4. QED
    BY <2>1, <2>2, <2>3
<1>3. Front(below) # <<>> => Last(Front(below)).fb \in Fiber
  <2>1. Front(below) # <<>> => Last(Front(below)) \in Entry
    BY <1>1, FrontLast
  <2>2. QED
    BY <2>1 DEF Entry
<1>4. /\ UNCHANGED frames
      /\ loaded \in [Fiber -> Nat] /\ register \in [1 .. MaxCStack -> Nat]
      /\ frames \in [Fiber -> Seq(Frame)] /\ state \in [Fiber -> FiberState]
  BY <1>1 DEF AfterNative, TypeOK
<1>5. CASE fiber = NoFiber
  <2>1. /\ cstack' = Front(below)
        /\ UNCHANGED <<fiber, state, loaded, register, astray>>
    BY <1>5 DEF AfterNative, registers
  <2>2. CallFiber' = Last(Front(below)).fb
    BY <2>1 DEF CallFiber
  <2>3. RegInv'
    <3> HIDE DEF below, d
    <3>1. d - 1 \in Nat /\ d - 1 < Len(cstack)
      BY <1>2
    <3>2. QED
      BY <1>1, <1>2, <1>3, <1>4, <1>5, <2>1, <2>2, <3>1, RegLeave, FiberAssumption
  <2>4. QED
    BY <2>1, <2>3
<1>6. CASE fiber # NoFiber
  <2>1. /\ fiber \in Fiber /\ state[fiber] = "running"
        /\ IF fiber = CallFiber THEN UNCHANGED <<loaded, register>>
           ELSE /\ loaded' = [loaded EXCEPT ![fiber] = d]
                /\ register' = [register EXCEPT ![d] = LastBase(frames[fiber])]
    BY <1>1, <1>6 DEF AfterNative, Reload, Load, TypeOK, ChainInv, CallersAreRunning
  <2>2. /\ \A f \in Fiber \ {fiber} : loaded'[f] = loaded[f]
        /\ \A i \in 1 .. d - 1 : register'[i] = register[i]
        /\ fiber # CallFiber => loaded'[fiber] = d
                                /\ register'[d] = LastBase(frames[fiber])
    <3> HIDE DEF below, d
    <3>1. \A f \in Fiber \ {fiber} : loaded'[f] = loaded[f]
      BY <1>4, <2>1
    <3>2. \A i \in 1 .. d - 1 : i # d /\ i \in 1 .. MaxCStack
      BY <1>2
    <3>3. \A i \in 1 .. d - 1 : register'[i] = register[i]
      BY <1>4, <2>1, <3>2
    <3>4. fiber # CallFiber => loaded'[fiber] = d /\ register'[d] = LastBase(frames[fiber])
      BY <1>2, <1>4, <2>1
    <3>5. QED
      BY <3>1, <3>3, <3>4
  <2>3. CASE error[fiber]
    <3>1. /\ SwitchBack /\ cstack' = Front(below) /\ result' = "error"
          /\ UNCHANGED astray
      BY <1>6, <2>3 DEF AfterNative
    <3>2. CallFiber' = Last(Front(below)).fb
      BY <3>1 DEF CallFiber
    <3>3. \A f \in Fiber : state'[f] # "done" =>
            state'[f] = state[f] /\ frames'[f] = frames[f] /\ loaded'[f] = loaded[f]
      BY <1>4, <2>1, <2>2, <3>1 DEF SwitchBack
    <3>4. RegInv'
      <4> HIDE DEF below, d
      <4>1. d - 1 \in Nat /\ d - 1 < Len(cstack)
        BY <1>2
      <4>2. QED
        BY <1>1, <1>2, <1>3, <2>2, <3>1, <3>2, <3>3, <4>1, RegLeave, FiberAssumption
    <3>5. QED
      BY <3>1, <3>4
  <2>4. CASE ~error[fiber]
    <3>1. /\ cstack' = below /\ UNCHANGED <<fiber, state>>
          /\ astray' = astray \cup (IF loaded'[fiber] = d THEN {} ELSE {fiber})
      BY <1>6, <2>4 DEF AfterNative
    <3> HIDE DEF below, d
    <3>2. Unloaded'
      BY <2>1, <2>2, <3>1 DEF RegInv, Unloaded
    <3>3. Depth' = d /\ Executing'
      BY <1>1, <3>1 DEF Depth, Executing, d
    <3>4. LoadedHere' /\ LoadedBelow'
      BY <1>1, <3>1, <3>3 DEF LoadedHere, LoadedBelow, Executing
    <3>5. Held'
      <4> SUFFICES ASSUME NEW i \in 1 .. d, NEW f \in Fiber,
                          cstack[i].kind = "run", f = Runs(i)', state[f] \in Began,
                          loaded'[f] = i
                   PROVE  register'[i] = LastBase(frames[f])
        BY <1>2, <1>4, <3>1 DEF Held, LastBase, d
      <4>1. Len(cstack') = d
        BY <3>1 DEF d
      <4>2. CASE i = d /\ fiber # CallFiber
        BY <2>2, <3>1, <4>1, <4>2 DEF Runs
      <4>3. CASE i = d /\ fiber = CallFiber
        <5>1. f = fiber
          BY <3>1, <4>1, <4>3 DEF Runs
        <5>2. i \in 1 .. Len(cstack) /\ Runs(i) = cstack[d + 1].fb
          BY <1>2, <4>3 DEF Runs
        <5>3. f = Runs(i)
          BY <1>2, <4>3, <5>1, <5>2 DEF CallFiber
        <5>4. loaded[f] = i /\ register'[i] = register[i]
          BY <2>1, <4>3, <5>1
        <5>5. QED
          BY <5>2, <5>3, <5>4 DEF RegInv, Held
      <4>4. CASE i # d
        <5>1. i \in 1 .. d - 1 /\ i + 1 \in 1 .. d /\ i \in 1 .. Len(cstack)
              /\ i # Len(cstack)
          BY <1>2, <4>4
        <5>2. f = Runs(i)
          BY <1>2, <3>1, <4>1, <4>4, <5>1 DEF Runs
        <5>3. loaded[f] = i
          <6>1. CASE f = fiber /\ fiber # CallFiber
            BY <2>2, <4>4, <6>1
          <6>2. QED
            BY <2>1, <2>2, <6>1
        <5>4. QED
          BY <2>2, <5>1, <5>2, <5>3 DEF RegInv, Held
      <4>5. QED
        BY <4>2, <4>3, <4>4
    <3>6. astray' # astray => result = "error"
      <4> SUFFICES ASSUME astray' # astray
                   PROVE  result = "error"
        OBVIOUS
      <4>1. fiber \notin astray /\ loaded'[fiber] # d
        BY <3>1
      <4>2. fiber = CallFiber /\ loaded[fiber] # Depth - 1
        BY <1>2, <2>1, <2>2, <4>1
      <4>3. QED
        BY <1>1, <4>1, <4>2 DEF RegInv, LoadedBelow
    <3>7. QED
      BY <3>2, <3>4, <3>5, <3>6 DEF RegInv
  <2>5. QED
    BY <2>3, <2>4
<1>7. QED
  BY <1>5, <1>6

(* Every step keeps the registers, and only a native whose last call of the *)
(* API has failed leads a fiber astray.                                     *)
LEMMA RegStep ==
  TypeInv /\ ChainInv /\ RegInv /\ [Next]_vars =>
    RegInv' /\ (astray' # astray => result = "error")
<1> SUFFICES ASSUME TypeInv, ChainInv, RegInv, [Next]_vars
             PROVE  RegInv' /\ (astray' # astray => result = "error")
  OBVIOUS
<1>1. /\ TypeOK /\ CallersAreRunning
      /\ Executing => /\ fiber \in Fiber /\ state[fiber] = "running"
                      /\ cstack # <<>> /\ Last(cstack).kind = "run"
  BY FiberAssumption DEF TypeInv, TypeOK, ChainInv, CallersAreRunning, Executing
<1> DEFINE Goal == RegInv' /\ (astray' # astray => result = "error")
<1>2. CASE UNCHANGED <<fiber, state, frames, cstack, registers>>
           /\ result' \in {result, "error"}
  <2>1. \A f \in Fiber : Undisturbed(f)
    BY <1>2 DEF Undisturbed, Began
  <2>2. QED
    BY <1>2, <2>1, RegKept DEF registers
<1>3. ASSUME NEW g \in Fiber, NEW n \in BOOLEAN, Allocate(g, n)
      PROVE  \A f \in Fiber : Undisturbed(f)
  BY <1>1, <1>3 DEF Allocate, Undisturbed, Began, TypeOK
<1>4. ASSUME NEW g \in Fiber, NEW n \in BOOLEAN, HostNewFiber(g, n)
      PROVE  Goal
  BY <1>3, <1>4, RegKept DEF HostNewFiber, registers
<1>5. ASSUME NEW g \in Fiber, HostInterpret(g)
      PROVE  Goal
  <2>1. PushRun(g, frames'[g]) /\ UNCHANGED astray
    BY <1>1, <1>5 DEF HostInterpret, PushRun, TypeOK
  <2>2. QED
    BY <1>1, <1>5, <2>1, RegPushRun DEF HostInterpret, TypeOK
<1>6. ASSUME NEW g \in Fiber, PushRun(g, frames[g]), Enter(g), UNCHANGED frames
      PROVE  Goal
  BY <1>6, RegPushRun DEF Enter, PushRun
<1>7. CASE Host
  BY <1>2, <1>4, <1>5, <1>6, <1>7
  DEF Host, HostRun, HostResume, HostRefused, NativeReturnValue, NativeSetError
<1>8. ASSUME Executing, Load(fiber, frames'[fiber], Depth),
             UNCHANGED <<fiber, state, cstack, astray>>,
             \A f \in Fiber \ {fiber} : frames'[f] = frames[f]
      PROVE  Goal
  BY <1>1, <1>8, RegLoad DEF Began
<1>9. ASSUME cstack' = Front(cstack), Executing, SwitchBack, UNCHANGED registers,
             \A f \in Fiber \ {fiber} : frames'[f] = frames[f],
             result' = "error" \/ fiber' = NoFiber
      PROVE  Goal
  <2>1. UNCHANGED <<loaded, register, astray>>
    BY <1>9 DEF registers
  <2>2. /\ cstack' \in Seq(Entry) /\ Len(cstack') = Len(cstack) - 1
        /\ Len(cstack) - 1 \in Nat
        /\ \A i \in 1 .. Len(cstack) - 1 : cstack'[i] = cstack[i]
        /\ cstack' # <<>> => Last(cstack').kind # "run" /\ Last(cstack') \in Entry
    <3>1. cstack \in Seq(Entry) /\ Alternates(cstack)
      BY DEF TypeInv, TypeOK
    <3>2. /\ cstack' \in Seq(Entry) /\ Len(cstack') = Len(cstack) - 1
          /\ Len(cstack) \in Nat \ {0}
          /\ \A i \in 1 .. Len(cstack) - 1 : cstack'[i] = cstack[i]
      BY <1>1, <1>9, <3>1, FrontLast
    <3>3. cstack' # <<>> => Last(cstack').kind # "run"
      BY <1>1, <1>9, <3>1, PopAlternates
    <3>4. cstack' # <<>> => Last(cstack') \in Entry
      BY <3>2, FrontLast
    <3>5. QED
      BY <3>2, <3>3, <3>4
  <2>3. cstack' # <<>> => CallFiber' # NoFiber
    BY <2>2, FiberAssumption DEF CallFiber, Entry
  <2>4. \A f \in Fiber : state'[f] # "done" =>
          state'[f] = state[f] /\ frames'[f] = frames[f] /\ loaded'[f] = loaded[f]
    BY <1>1, <1>9, <2>1 DEF SwitchBack, TypeOK
  <2>5. Len(cstack) - 1 < Len(cstack)
    BY <2>2
  <2>6. RegInv'
    BY <1>9, <2>1, <2>2, <2>3, <2>4, <2>5, RegLeave
  <2>7. QED
    BY <2>1, <2>6
<1>10. ASSUME NEW v \in Value, ReturnFromFiber(v)
       PROVE  Goal
  <2>1. /\ Executing /\ SwitchBack /\ UNCHANGED astray
        /\ \A f \in Fiber \ {fiber} : frames'[f] = frames[f]
    BY <1>1, <1>10 DEF ReturnFromFiber, HasOperands, PopFrame, TypeOK
  <2>2. CASE caller[fiber] = NoFiber
    BY <1>9, <1>10, <2>1, <2>2 DEF ReturnFromFiber, SwitchBack, registers
  <2>3. CASE caller[fiber] # NoFiber
    <3> DEFINE g == caller[fiber]
    <3>1. /\ fiber \in Fiber /\ g \in Fiber /\ g # fiber /\ state[g] = "running"
      BY <1>1, <2>1, <2>3 DEF CallersAreRunning, TypeOK
    <3>2. /\ fiber' = g /\ state'[g] = state[g]
          /\ \A f \in Fiber \ {g} : /\ state'[f] \in {state[f], "done"}
                                    /\ state'[f] \in Began => frames'[f] = frames[f]
      BY <1>1, <2>1, <3>1 DEF SwitchBack, Began, TypeOK
    <3>3. Load(g, frames'[g], Depth) /\ cstack' = cstack
      BY <1>10, <2>1, <2>3, <3>1 DEF ReturnFromFiber
    <3> HIDE DEF g
    <3>4. RegInv'
      BY <2>1, <3>1, <3>2, <3>3, RegLoad DEF Began
    <3>5. QED
      BY <2>1, <3>4
  <2>4. QED
    BY <2>2, <2>3
<1>11. CASE RuntimeError
  BY <1>1, <1>9, <1>11 DEF RuntimeError, TypeOK
<1>12. CASE Bytecode
  <2>1. ASSUME NEW n \in Argc, CallScript(n)
        PROVE  Goal
    BY <1>1, <1>8, <2>1 DEF CallScript, HasOperands, TypeOK
  <2>2. ASSUME NEW n \in Argc, NEW v \in Value, TailCallScript(n, v)
        PROVE  Goal
    BY <1>1, <1>8, <2>2 DEF TailCallScript, HasOperands, TypeOK
  <2>3. ASSUME NEW v \in Value, ImportBody(v)
        PROVE  Goal
    BY <1>1, <1>8, <2>3 DEF ImportBody, TypeOK
  <2>4. ASSUME NEW v \in Value, ReturnFromCall(v)
        PROVE  Goal
    BY <1>1, <1>8, <2>4 DEF ReturnFromCall, HasOperands, PopFrame, TypeOK
  <2>5. ASSUME NEW top \in 0 .. MaxSp, NEW v \in Value, Evaluate(top, v)
        PROVE  Goal
    BY <1>2, <2>5 DEF Evaluate
  <2>6. QED
    BY <1>10, <1>11, <1>12, <2>1, <2>2, <2>3, <2>4, <2>5 DEF Bytecode
<1>13. ASSUME NEW kind \in {"builtin", "native"}, Executing, PushNative(kind),
              \A f \in Fiber : Undisturbed(f)
       PROVE  Goal
  BY <1>13, RegPushNative DEF PushNative, registers
<1>14. CASE Natives
  <2>1. ASSUME NEW n \in Argc, CallNative(n)
        PROVE  Goal
    BY <1>13, <2>1 DEF CallNative, HasOperands, Undisturbed, Began
  <2>2. ASSUME NEW n \in Argc, NEW v \in Value, NEW e \in BOOLEAN, CallBuiltin(n, v, e)
        PROVE  Goal
    BY <1>13, <2>2 DEF CallBuiltin, HasOperands, Undisturbed, Began
  <2>3. ASSUME NEW g \in Fiber, NEW n \in BOOLEAN, NEW v \in Value,
               CallFiberNew(g, n, v)
        PROVE  Goal
    BY <1>3, <1>13, <2>3 DEF CallFiberNew, HasOperands
  <2>4. ASSUME NEW g \in Fiber, NEW n \in Argc, CallFiberRun(g, n)
        PROVE  Goal
    BY <1>1, <1>13, <2>4
    DEF CallFiberRun, HasOperands, CanPrepare, Enter, Undisturbed, Began, TypeOK
  <2>5. ASSUME NEW g \in Fiber, NEW n \in Argc, NEW v \in Value,
               CallFiberResume(g, n, v)
        PROVE  Goal
    BY <1>1, <1>13, <2>5
    DEF CallFiberResume, HasOperands, CanSwitch, Enter, Undisturbed, Began, TypeOK
  <2>6. ASSUME NEW n \in Argc, NEW v \in Value, CallYield(n, v)
        PROVE  Goal
    BY <1>1, <1>13, <2>6
    DEF CallYield, Suspend, HasOperands, Undisturbed, Began, TypeOK
  <2>7. CASE AfterNative
    BY <2>7, RegAfterNative
  <2>8. QED
    BY <1>14, <2>1, <2>2, <2>3, <2>4, <2>5, <2>6, <2>7 DEF Natives
<1>15. QED
  BY <1>2, <1>7, <1>12, <1>14 DEF Next, vars, registers

(* At the start no invocation has loaded anything. *)
LEMMA InitReg == Init => RegInv
BY DEF Init, RegInv, Held, Unloaded, LoadedHere, LoadedBelow, Executing

LEMMA RegFits ==
  ASSUME TypeInv, ChainInv, RegInv
  PROVE  RegistersFit
<1> SUFFICES ASSUME Executing, frames[fiber] # <<>>, fiber \notin astray
             PROVE  loaded[fiber] = Depth /\ register[Depth] = Last(frames[fiber]).rbp
  BY DEF RegistersFit
<1>1. /\ fiber \in Fiber /\ state[fiber] \in Began
      /\ Len(cstack) \in 1 .. Len(cstack) /\ cstack[Len(cstack)].kind = "run"
      /\ Depth = Len(cstack)
  BY StackLength
  DEF Executing, Began, TypeInv, TypeOK, ChainInv, CallersAreRunning
<1>2. loaded[fiber] = Depth
  BY DEF RegInv, LoadedHere
<1>3. register[Depth] = LastBase(frames[fiber])
  BY <1>1, <1>2 DEF RegInv, Held, Runs
<1>4. QED
  BY <1>2, <1>3 DEF LastBase

(* Whenever a fiber that is not astray executes, the registers are those of *)
(* its last frame: after every switch between fibers, whoever made it, and  *)
(* after nested invocations of runFiber() have executed other fibers.       *)
THEOREM RegistersAreTheirs == Spec => []RegistersFit
<1>1. TypeInv /\ ChainInv /\ RegInv => RegistersFit
  BY RegFits
<1>2. TypeInv /\ ChainInv /\ RegInv /\ [Next]_vars => RegInv'
  BY RegStep
<1>3. QED
  BY <1>1, <1>2, InitReg, InitTypeInv, TypeInvStep, InitChain, ChainStep, PTL DEF Spec

(* And a fiber only goes astray when a native goes on after an error of its *)
(* last call of the API.                                                    *)
THEOREM AstrayAfterErrors == Spec => OnlyErrorsLeadAstray
<1> DEFINE Led == astray' # astray => result = "error"
<1>1. TypeInv /\ ChainInv /\ RegInv /\ [Next]_vars => RegInv' /\ [Led]_vars
  BY RegStep
<1> HIDE DEF Led
<1>2. Spec => [][Led]_vars
  BY <1>1, InitReg, InitTypeInv, TypeInvStep, InitChain, ChainStep, PTL DEF Spec
<1>3. QED
  BY <1>2 DEF OnlyErrorsLeadAstray, Led

-----------------------------------------------------------------------------
(* The frames of each fiber.  A fiber that has called a native, or waits    *)
(* for another one, has its return slot among its operands: AfterNative     *)
(* pops to it.  Of the frames of a fiber astray only that there is one is   *)
(* known.                                                                   *)
Nested(s) == \A i \in 1 .. Len(s) - 1 : s[i].rbp + s[i].argc < s[i + 1].rbp

Idle(f) ==
  \/ f # fiber \/ HostCode
  \/ cstack # <<>> /\ Last(cstack).kind # "run" /\ CallFiber = f

FrameOk(f) ==
  /\ state[f] \in {"unborn", "new"} => sp[f] = 1
  /\ state[f] = "new" => frames[f] = <<[rbp |-> 0, argc |-> Arity[f]]>>
  /\ state[f] \in {"running", "yielded"} =>
       /\ frames[f] # <<>>
       /\ f \notin astray => /\ Nested(frames[f])
                             /\ sp[f] >= Base(f)
                             /\ Idle(f) => ret[f] >= Base(f)

CallersBegan ==
  \A i \in DOMAIN cstack :
    cstack[i].kind # "run" => state[cstack[i].fb] \notin {"unborn", "new"}

FrameInv == (\A f \in Fiber : FrameOk(f)) /\ CallersBegan

(* A frame pushed on the operands of the last one, popped, and reused. *)
LEMMA NestedAppend ==
  ASSUME NEW s \in Seq(Frame), s # <<>>, Nested(s), NEW e \in Frame,
         Last(s).rbp + Last(s).argc < e.rbp
  PROVE  /\ Append(s, e) # <<>> /\ Nested(Append(s, e))
         /\ Last(Append(s, e)) = e
<1> DEFINE t == Append(s, e)
<1>1. /\ t \in Seq(Frame) /\ t # <<>> /\ Len(t) = Len(s) + 1
      /\ \A i \in 1 .. Len(s) : t[i] = s[i]
      /\ t[Len(s) + 1] = e
  BY AppendProperties
<1> HIDE DEF t
<1>2. Len(s) \in Nat \ {0} /\ Last(s) = s[Len(s)]
  BY FrontLast
<1>3. ASSUME NEW i \in 1 .. Len(t) - 1
      PROVE  t[i].rbp + t[i].argc < t[i + 1].rbp
  <2>1. CASE i = Len(s)
    BY <2>1, <1>2, <1>1
  <2>2. CASE i # Len(s)
    <3>1. i \in 1 .. Len(s) - 1 /\ i \in 1 .. Len(s) /\ i + 1 \in 1 .. Len(s)
      BY <2>2, <1>2, <1>1, <1>3
    <3>2. QED
      BY <3>1, <1>1 DEF Nested
  <2>3. QED
    BY <2>1, <2>2
<1>4. QED
  BY <1>1, <1>3 DEF Nested, Last, t

LEMMA NestedFront ==
  ASSUME NEW s \in Seq(Frame), Nested(s), Len(s) > 1
  PROVE  /\ Front(s) # <<>> /\ Front(s) \in Seq(Frame) /\ Nested(Front(s))
         /\ Last(Front(s)).rbp + Last(Front(s)).argc < Last(s).rbp
<1> DEFINE t == Front(s)
<1>1. s # <<>> /\ Len(s) \in Nat
  BY LenProperties
<1>2. /\ t \in Seq(Frame) /\ Len(t) = Len(s) - 1
      /\ \A i \in 1 .. Len(s) - 1 : t[i] = s[i]
      /\ Last(s) = s[Len(s)]
  BY <1>1, FrontLast
<1> HIDE DEF t
<1>3. t # <<>> /\ Last(t) = s[Len(s) - 1]
  BY <1>1, <1>2 DEF Last
<1>4. Nested(t)
  <2> SUFFICES ASSUME NEW i \in 1 .. Len(t) - 1
               PROVE  t[i].rbp + t[i].argc < t[i + 1].rbp
    BY DEF Nested
  <2>1. i \in 1 .. Len(s) - 1 /\ i + 1 \in 1 .. Len(s) - 1
    BY <1>1, <1>2
  <2>2. QED
    BY <2>1, <1>2 DEF Nested
<1>5. Last(t).rbp + Last(t).argc < Last(s).rbp
  <2>1. Len(s) - 1 \in 1 .. Len(s) - 1 /\ Len(s) - 1 + 1 = Len(s)
    BY <1>1
  <2>2. s[Len(s) - 1].rbp + s[Len(s) - 1].argc < s[Len(s) - 1 + 1].rbp
    BY <2>1 DEF Nested
  <2>3. QED
    BY <2>1, <2>2, <1>2, <1>3
<1>6. QED
  BY <1>2, <1>3, <1>4, <1>5 DEF t

LEMMA NestedReuse ==
  ASSUME NEW s \in Seq(Frame), s # <<>>, Nested(s), NEW e \in Frame,
         e.rbp = Last(s).rbp
  PROVE  /\ Append(Front(s), e) # <<>> /\ Nested(Append(Front(s), e))
         /\ Last(Append(Front(s), e)) = e
<1>1. CASE Len(s) > 1
  BY <1>1, NestedFront, NestedAppend
<1>2. CASE ~(Len(s) > 1)
  <2>0. Len(s) \in Nat \ {0} /\ Front(s) \in Seq(Frame) /\ Len(Front(s)) = Len(s) - 1
    BY FrontLast
  <2>1. Len(s) = 1 /\ Front(s) \in Seq(Frame) /\ Len(Front(s)) = 0
    BY <1>2, <2>0
  <2>2. Front(s) = <<>>
    BY <2>1, EmptySeq
  <2>3. Append(Front(s), e) = <<e>>
    BY <2>2
  <2>4. QED
    BY <2>3 DEF Nested, Last
<1>3. QED
  BY <1>1, <1>2

(* A fiber that a step does not touch. *)
LEMMA FrameKept ==
  ASSUME NEW f \in Fiber, FrameOk(f),
         state'[f] = state[f], frames'[f] = frames[f],
         sp'[f] = sp[f], ret'[f] = ret[f], f \in astray => f \in astray',
         Idle(f)' /\ state[f] \in {"running", "yielded"} => Idle(f)
  PROVE  FrameOk(f)'
<1>1. Base(f)' = Base(f)
  BY DEF Base
<1>2. QED
  BY <1>1 DEF FrameOk

(* What pushing and popping do to the calls of natives. *)
LEMMA BegunPush ==
  ASSUME TypeOK, CallersBegan, NEW e \in Entry, cstack' = Append(cstack, e),
         e.kind # "run" => state'[e.fb] \notin {"unborn", "new"},
         \A f \in Fiber : state[f] \notin {"unborn", "new"} =>
                          state'[f] \notin {"unborn", "new"}
  PROVE  CallersBegan'
<1>1. /\ cstack' \in Seq(Entry) /\ Len(cstack') = Len(cstack) + 1
      /\ \A i \in 1 .. Len(cstack) : cstack'[i] = cstack[i]
      /\ cstack'[Len(cstack) + 1] = e
      /\ Len(cstack) \in Nat
      /\ \A i \in 1 .. Len(cstack) : cstack[i] \in Entry
  BY AppendProperties, ElementOfSeq DEF TypeOK
<1>2. DOMAIN cstack = 1 .. Len(cstack) /\ DOMAIN cstack' = 1 .. Len(cstack) + 1
  BY <1>1 DEF TypeOK
<1>3. ASSUME NEW i \in DOMAIN cstack', cstack'[i].kind # "run"
      PROVE  state'[cstack'[i].fb] \notin {"unborn", "new"}
  <2>1. CASE i = Len(cstack) + 1
    BY <1>1, <1>3, <2>1
  <2>2. CASE i \in DOMAIN cstack
    <3>1. cstack'[i] = cstack[i] /\ cstack[i].fb \in Fiber
      BY <1>1, <1>2, <2>2 DEF Entry
    <3>2. QED
      BY <3>1, <2>2, <1>3 DEF CallersBegan
  <2>3. QED
    BY <1>1, <1>2, <2>1, <2>2
<1>4. QED
  BY <1>3 DEF CallersBegan

LEMMA BegunKept ==
  ASSUME TypeOK, CallersBegan, cstack' = cstack,
         \A f \in Fiber : state[f] \notin {"unborn", "new"} =>
                          state'[f] \notin {"unborn", "new"}
  PROVE  CallersBegan'
<1>1. \A i \in DOMAIN cstack : cstack[i].fb \in Fiber
  <2>1. cstack \in Seq(Entry) /\ \A i \in 1 .. Len(cstack) : cstack[i] \in Entry
    BY ElementOfSeq DEF TypeOK
  <2>2. QED
    BY <2>1 DEF Entry
<1>2. QED
  BY <1>1 DEF CallersBegan

LEMMA BegunPop ==
  ASSUME NEW s \in Seq(Entry), s # <<>>,
         \A i \in DOMAIN s : s[i].kind # "run" => state[s[i].fb] \notin {"unborn", "new"}
  PROVE  \A i \in DOMAIN Front(s) :
           Front(s)[i].kind # "run" => state[Front(s)[i].fb] \notin {"unborn", "new"}
<1>1. /\ Front(s) \in Seq(Entry) /\ Len(Front(s)) = Len(s) - 1
      /\ \A i \in 1 .. Len(s) - 1 : Front(s)[i] = s[i]
      /\ Len(s) \in Nat
  BY FrontLast
<1>2. DOMAIN Front(s) = 1 .. Len(s) - 1 /\ DOMAIN s = 1 .. Len(s)
  BY <1>1
<1>3. \A i \in 1 .. Len(s) - 1 : i \in 1 .. Len(s)
  BY <1>1
<1>4. QED
  BY <1>1, <1>2, <1>3

(* The bytecode goes on in the current fiber. *)
LEMMA FrameRun ==
  ASSUME TypeInv, ChainInv, FrameInv, Executing,
         UNCHANGED <<fiber, state, cstack, astray>>,
         \A f \in Fiber \ {fiber} :
           frames'[f] = frames[f] /\ sp'[f] = sp[f] /\ ret'[f] = ret[f],
         frames'[fiber] # <<>>,
         fiber \notin astray => Nested(frames'[fiber]) /\ sp'[fiber] >= Base(fiber)'
  PROVE  FrameInv'
<1>1. fiber \in Fiber /\ state[fiber] = "running"
  BY DEF TypeInv, TypeOK, ChainInv, CallersAreRunning
<1>2. CallersBegan'
  BY BegunKept DEF FrameInv, TypeInv
<1>3. ASSUME NEW f \in Fiber
      PROVE  FrameOk(f)'
  <2>1. CASE f = fiber
    <3>1. ~Idle(f)'
      BY <2>1 DEF Idle, Executing, HostCode
    <3>2. QED
      BY <1>1, <2>1, <3>1 DEF FrameOk
  <2>2. CASE f # fiber
    <3>1. FrameOk(f) /\ Idle(f)
      BY <2>2 DEF FrameInv, Idle
    <3>2. QED
      BY <2>2, <3>1, FrameKept
  <2>3. QED
    BY <2>1, <2>2
<1>4. QED
  BY <1>2, <1>3 DEF FrameInv

(* The fiber that calls a native: the slot of the call is an operand. *)
LEMMA FrameCaller ==
  ASSUME TypeInv, ChainInv, FrameInv, NEW n \in Nat, HasOperands(n), SetRet(n),
         NEW f \in Fiber, f = fiber, state'[f] \in {"running", "yielded"},
         frames'[f] = frames[f], sp'[f] = sp[f], UNCHANGED astray
  PROVE  FrameOk(f)'
<1>1. state[f] = "running"
  BY FiberAssumption DEF ChainInv, CallersAreRunning
<1>2. ret'[f] = Callable(n) /\ (f \notin astray => Callable(n) >= Base(f))
  BY OperandOffsets DEF SetRet, TypeInv, TypeOK
<1>3. Base(f)' = Base(f)
  BY DEF Base
<1>4. QED
  BY <1>1, <1>2, <1>3 DEF FrameInv, FrameOk

(* A builtin or a native is on the C stack, of this caller. *)
LEMMA Pushed ==
  ASSUME TypeInv, Executing, NEW kind \in {"builtin", "native"}, PushNative(kind)
  PROVE  /\ \E e \in Entry : cstack' = Append(cstack, e) /\ e.fb = fiber /\ e.kind # "run"
         /\ cstack' # <<>> /\ Last(cstack').kind = kind
         /\ fiber \in Fiber /\ UNCHANGED astray
<1> DEFINE e == [kind |-> kind, fb |-> fiber]
<1>1. fiber \in Fiber /\ UNCHANGED astray
  BY DEF TypeInv, TypeOK, PushNative, registers
<1>2. e \in Entry /\ e.fb = fiber /\ e.kind # "run" /\ cstack' = Append(cstack, e)
  BY <1>1 DEF Entry, PushNative
<1> HIDE DEF e
<1>3. Last(cstack') = e /\ cstack' # <<>>
  BY <1>2, LastAppended DEF TypeInv, TypeOK
<1>4. QED
  BY <1>1, <1>2, <1>3 DEF e

(* Entering a fiber that is new, with its arguments, or that has yielded. *)
LEMMA FrameEntered ==
  ASSUME TypeInv, NEW g \in Fiber, FrameOk(g), ~Idle(g)',
         state'[g] = "running", frames'[g] = frames[g], UNCHANGED astray,
         \/ state[g] = "new" /\ sp'[g] = sp[g] + Arity[g]
         \/ state[g] = "yielded" /\ sp'[g] = sp[g]
  PROVE  FrameOk(g)'
<1>1. Base(g)' = Base(g)
  BY DEF Base
<1>2. CASE state[g] = "new" /\ sp'[g] = sp[g] + Arity[g]
  <2>1. frames[g] = <<[rbp |-> 0, argc |-> Arity[g]]>> /\ sp[g] = 1
    BY <1>2 DEF FrameOk
  <2>2. frames[g] # <<>> /\ Nested(frames[g]) /\ Base(g) = 0 + Arity[g] + 1
    BY <2>1 DEF Nested, Base, Last
  <2>3. QED
    BY <1>1, <1>2, <2>1, <2>2, FiberAssumption DEF FrameOk
<1>3. CASE state[g] = "yielded" /\ sp'[g] = sp[g]
  BY <1>1, <1>3 DEF FrameOk
<1>4. QED
  BY <1>2, <1>3

(* A call of a native that leaves the fibers alone, or allocates one. *)
LEMMA FrameNative ==
  ASSUME TypeInv, ChainInv, FrameInv, NEW n \in Nat, HasOperands(n), SetRet(n),
         NEW kind \in {"builtin", "native"}, PushNative(kind), UNCHANGED <<fiber, sp>>,
         \/ UNCHANGED <<state, frames>>
         \/ \E g \in Fiber : Allocate(g, FALSE)
  PROVE  FrameInv'
<1>1. /\ Executing /\ fiber \in Fiber /\ state[fiber] = "running" /\ TypeOK
      /\ UNCHANGED astray
  BY FiberAssumption
  DEF HasOperands, PushNative, registers, TypeInv, TypeOK, ChainInv, CallersAreRunning
<1>2. \A f \in Fiber :
        \/ state'[f] = state[f] /\ frames'[f] = frames[f]
        \/ /\ state[f] = "unborn" /\ state'[f] = "new"
           /\ frames'[f] = <<[rbp |-> 0, argc |-> Arity[f]]>>
  BY <1>1 DEF Allocate, TypeOK
<1>3. CallersBegan'
  <2>1. PICK e \in Entry : cstack' = Append(cstack, e) /\ e.fb = fiber /\ e.kind # "run"
    BY <1>1, Pushed
  <2>2. \A f \in Fiber : state[f] \notin {"unborn", "new"} =>
                         state'[f] \notin {"unborn", "new"}
    BY <1>2
  <2>3. QED
    BY <1>1, <2>1, <2>2, BegunPush DEF FrameInv
<1>4. ASSUME NEW f \in Fiber
      PROVE  FrameOk(f)'
  <2>1. CASE f = fiber
    BY <1>1, <1>2, <2>1, FrameCaller
  <2>2. CASE f # fiber
    <3>1. FrameOk(f) /\ Idle(f) /\ ret'[f] = ret[f] /\ sp'[f] = sp[f]
      BY <1>1, <2>2 DEF FrameInv, Idle, SetRet, TypeOK
    <3>2. CASE state[f] = "unborn" /\ state'[f] = "new"
               /\ frames'[f] = <<[rbp |-> 0, argc |-> Arity[f]]>>
      BY <3>1, <3>2 DEF FrameOk
    <3>3. QED
      BY <1>1, <1>2, <3>1, <3>2, FrameKept
  <2>3. QED
    BY <2>1, <2>2
<1>5. QED
  BY <1>3, <1>4 DEF FrameInv

(* Invoking runFiber(), on a fiber that is entered. *)
LEMMA FrameHost ==
  ASSUME TypeInv, ChainInv, FrameInv, NEW g \in Fiber, NEW s, PushRun(g, s), fiber' = g,
         state' = [state EXCEPT ![g] = "running"], UNCHANGED ret,
         \A f \in Fiber \ {g} : frames'[f] = frames[f] /\ sp'[f] = sp[f],
         \/ /\ frames'[g] = frames[g]
            /\ \/ state[g] = "new" /\ sp'[g] = sp[g] + Arity[g]
               \/ state[g] = "yielded" /\ sp'[g] = sp[g]
         \/ /\ state[g] = "unborn" /\ sp'[g] = sp[g]
            /\ frames'[g] = <<[rbp |-> 0, argc |-> 0]>>
  PROVE  FrameInv'
<1>1. /\ TypeOK /\ UNCHANGED astray
      /\ \A f \in Fiber \ {g} : state'[f] = state[f]
  BY DEF PushRun, TypeInv, TypeOK
<1>2. PICK e \in Entry : cstack' = Append(cstack, e) /\ e.kind = "run"
  BY DEF Entry, PushRun
<1>3. cstack' # <<>> /\ Last(cstack') = e
  <2>1. cstack \in Seq(Entry)
    BY <1>1 DEF TypeOK
  <2>2. QED
    BY <1>2, <2>1, LastAppended
<1>4. CallersBegan'
  <2>1. \A f \in Fiber : state[f] \notin {"unborn", "new"} =>
                         state'[f] \notin {"unborn", "new"}
    BY <1>1 DEF TypeOK
  <2>2. QED
    BY <1>1, <1>2, <2>1, BegunPush DEF FrameInv
<1>5. state'[g] = "running" /\ FrameOk(g) /\ ~Idle(g)'
  BY <1>1, <1>2, <1>3 DEF TypeOK, FrameInv, Idle, HostCode
<1>6. FrameOk(g)'
  <2>1. CASE state[g] \in {"new", "yielded"}
    BY <1>1, <1>5, <2>1, FrameEntered
  <2>2. CASE state[g] = "unborn" /\ sp'[g] = sp[g]
             /\ frames'[g] = <<[rbp |-> 0, argc |-> 0]>>
    <3>1. frames'[g] # <<>> /\ Nested(frames'[g]) /\ Base(g)' = 0 + 0 + 1
      BY <2>2 DEF Nested, Base, Last
    <3>2. sp[g] = 1
      BY <1>5, <2>2 DEF FrameOk
    <3>3. QED
      BY <1>5, <2>2, <3>1, <3>2 DEF FrameOk
  <2>3. QED
    BY <2>1, <2>2
<1>7. ASSUME NEW f \in Fiber \ {g}
      PROVE  FrameOk(f)'
  <2>1. FrameOk(f) /\ Idle(f)
    BY DEF FrameInv, Idle, PushRun
  <2>2. QED
    BY <1>1, <2>1, FrameKept
<1>8. QED
  BY <1>4, <1>6, <1>7 DEF FrameInv

(* Fiber.run() and Fiber.resume() *)
LEMMA FrameSwitch ==
  ASSUME TypeInv, ChainInv, FrameInv, NEW g \in Fiber, NEW n \in Nat,
         HasOperands(n), SetRet(n), PushNative("builtin"), Enter(g), UNCHANGED frames,
         \A f \in Fiber \ {g} : sp'[f] = sp[f],
         \/ state[g] = "new" /\ sp'[g] = sp[g] + Arity[g]
         \/ state[g] = "yielded" /\ sp'[g] = sp[g]
  PROVE  FrameInv'
<1>1. /\ Executing /\ fiber \in Fiber /\ TypeOK
      /\ state[fiber] = "running" /\ g # fiber /\ UNCHANGED astray
  BY FiberAssumption, Pushed DEF HasOperands, TypeInv, TypeOK, ChainInv, CallersAreRunning
<1>2. /\ fiber' = g /\ state'[g] = "running"
      /\ \A f \in Fiber \ {g} : state'[f] = state[f]
      /\ \A f \in Fiber \ {fiber} : ret'[f] = ret[f]
  BY <1>1 DEF Enter, SetRet, TypeOK
<1>3. PICK e \in Entry : cstack' = Append(cstack, e) /\ e.fb = fiber /\ e.kind # "run"
  BY <1>1, Pushed
<1>4. /\ cstack' # <<>> /\ Last(cstack').kind = "builtin"
      /\ Last(cstack') = e
  BY <1>1, <1>3, LastAppended, Pushed DEF TypeOK
<1>5. CallersBegan'
  <2>1. \A f \in Fiber : state[f] \notin {"unborn", "new"} =>
                         state'[f] \notin {"unborn", "new"}
    BY <1>2
  <2>2. state'[e.fb] \notin {"unborn", "new"}
    BY <1>1, <1>2, <1>3
  <2>3. QED
    BY <1>1, <1>3, <2>1, <2>2, BegunPush DEF FrameInv
<1>6. ~Idle(g)'
  BY <1>1, <1>2, <1>3, <1>4 DEF Idle, HostCode, CallFiber
<1>7. ASSUME NEW f \in Fiber
      PROVE  FrameOk(f)'
  <2>1. CASE f = g
    BY <1>1, <1>2, <1>6, <2>1, FrameEntered DEF FrameInv
  <2>2. CASE f = fiber
    BY <1>1, <1>2, <2>2, FrameCaller
  <2>3. CASE f \notin {g, fiber}
    BY <1>1, <1>2, <2>3, FrameKept DEF FrameInv, Idle
  <2>4. QED
    BY <2>1, <2>2, <2>3
<1>8. QED
  BY <1>5, <1>7 DEF FrameInv

(* yield() *)
LEMMA FrameYield ==
  ASSUME TypeInv, ChainInv, FrameInv, NEW n \in Argc, NEW v \in Value, CallYield(n, v)
  PROVE  FrameInv'
<1>1. /\ Executing /\ fiber \in Fiber /\ TypeOK /\ n \in Nat
      /\ state[fiber] = "running" /\ HasOperands(n) /\ SetRet(n)
      /\ UNCHANGED astray
  BY FiberAssumption
  DEF CallYield, Argc, HasOperands, PushNative, registers, TypeInv, TypeOK, ChainInv,
      CallersAreRunning
<1>2. /\ state'[fiber] = "yielded"
      /\ \A f \in Fiber \ {fiber} : state'[f] = state[f] /\ ret'[f] = ret[f]
      /\ UNCHANGED <<frames, sp>>
  BY <1>1 DEF CallYield, Suspend, SetRet, TypeOK
<1>3. CallersBegan'
  <2>1. PICK e \in Entry : cstack' = Append(cstack, e) /\ e.fb = fiber /\ e.kind # "run"
    BY <1>1, Pushed DEF CallYield
  <2>2. \A f \in Fiber : state[f] \notin {"unborn", "new"} =>
                         state'[f] \notin {"unborn", "new"}
    BY <1>2
  <2>3. QED
    BY <1>1, <1>2, <2>1, <2>2, BegunPush DEF FrameInv
<1>4. ASSUME NEW f \in Fiber
      PROVE  FrameOk(f)'
  <2>1. CASE f = fiber
    BY <1>1, <1>2, <2>1, FrameCaller
  <2>2. CASE f # fiber
    BY <1>1, <1>2, <2>2, FrameKept DEF FrameInv, Idle
  <2>3. QED
    BY <2>1, <2>2
<1>5. QED
  BY <1>3, <1>4 DEF FrameInv

(* FIBER_SWITCH_BACK, of a fiber whose frames no longer matter. *)
LEMMA FrameDone ==
  ASSUME TypeInv, ChainInv, FrameInv, fiber \in Fiber, SwitchBack,
         UNCHANGED <<ret, astray>>,
         \A f \in Fiber \ {fiber} :
           /\ frames'[f] = frames[f]
           /\ \/ sp'[f] = sp[f]
              \/ /\ state[f] \in {"running", "yielded", "done"}
                 /\ Idle(f) /\ sp'[f] = ret[f] + 1,
         CallersBegan'
  PROVE  FrameInv'
<1>1. /\ state'[fiber] = "done"
      /\ \A f \in Fiber \ {fiber} : state'[f] = state[f]
  BY DEF SwitchBack, TypeInv, TypeOK
<1>2. ASSUME NEW f \in Fiber
      PROVE  FrameOk(f)'
  <2>1. CASE f = fiber
    BY <1>1, <2>1 DEF FrameOk
  <2>2. CASE f # fiber /\ sp'[f] = sp[f]
    BY <1>1, <2>2, FrameKept DEF FrameInv, Idle
  <2>3. CASE /\ f # fiber /\ state[f] \in {"running", "yielded", "done"}
             /\ Idle(f) /\ sp'[f] = ret[f] + 1
    <3>1. Base(f)' = Base(f) /\ FrameOk(f) /\ state'[f] = state[f]
      BY <1>1, <2>3 DEF Base, FrameInv
    <3>2. state[f] # "done" /\ f \notin astray => Base(f) \in Nat /\ ret[f] \in Nat
      BY <2>3, <3>1, FrameOffsets DEF FrameOk, TypeInv, TypeOK
    <3>3. QED
      BY <2>3, <3>1, <3>2 DEF FrameOk
  <2>4. QED
    BY <2>1, <2>2, <2>3
<1>3. QED
  BY <1>2 DEF FrameInv

(* The rest of OP_CALL of a native. *)
LEMMA FrameAfterNative ==
  ASSUME TypeInv, ChainInv, FrameInv, AfterNative
  PROVE  FrameInv'
<1> DEFINE below == Front(cstack)
<1>1. /\ cstack \in Seq(Entry) /\ cstack # <<>> /\ Last(cstack).kind # "run"
      /\ below \in Seq(Entry) /\ below # <<>> /\ Last(below).kind = "run"
      /\ CallFiber \in Fiber /\ TypeOK
  BY PopNativeType DEF AfterNative, CallFiber, TypeInv, TypeOK
<1>2. /\ \A i \in DOMAIN below :
           below[i].kind # "run" => state[below[i].fb] \notin {"unborn", "new"}
      /\ \A i \in DOMAIN Front(below) :
           Front(below)[i].kind # "run" =>
             state[Front(below)[i].fb] \notin {"unborn", "new"}
  <2>1. \A i \in DOMAIN below :
          below[i].kind # "run" => state[below[i].fb] \notin {"unborn", "new"}
    BY <1>1, BegunPop DEF FrameInv, CallersBegan
  <2>2. QED
    BY <1>1, <2>1, BegunPop
<1>3. state[CallFiber] \in {"running", "yielded", "done"} /\ Idle(CallFiber)
  <2>1. Len(cstack) \in DOMAIN cstack /\ Last(cstack) = cstack[Len(cstack)]
    BY <1>1, FrontLast
  <2>2. state[CallFiber] \notin {"unborn", "new"}
    BY <1>1, <2>1 DEF FrameInv, CallersBegan, CallFiber
  <2>3. QED
    BY <1>1, <2>2 DEF TypeOK, FiberState, Idle
<1>4. CASE fiber = NoFiber
  <2>1. cstack' = Front(below) /\ UNCHANGED <<fiber, state, sp, frames, ret, astray>>
    BY <1>4 DEF AfterNative, registers
  <2>2. CallersBegan'
    BY <1>2, <2>1 DEF CallersBegan
  <2>3. \A f \in Fiber : Idle(f)
    BY <1>4, FiberAssumption DEF Idle
  <2>4. \A f \in Fiber : FrameOk(f)'
    BY <2>1, <2>3, FrameKept DEF FrameInv
  <2>5. QED
    BY <2>2, <2>4 DEF FrameInv
<1>5. CASE fiber # NoFiber /\ ~error[fiber]
  <2>1. /\ cstack' = below /\ UNCHANGED <<fiber, state, frames, ret>>
        /\ \A f \in Fiber : f \in astray => f \in astray'
        /\ sp' = [sp EXCEPT ![CallFiber] = ret[CallFiber] + 1]
    BY <1>5 DEF AfterNative
  <2>2. CallersBegan'
    BY <1>2, <2>1 DEF CallersBegan
  <2>3. ASSUME NEW f \in Fiber
        PROVE  FrameOk(f)'
    <3>1. FrameOk(f) /\ Base(f)' = Base(f) /\ (Idle(f)' => Idle(f))
      BY <1>1, <2>1 DEF FrameInv, Base, Idle, HostCode
    <3>2. CASE f = CallFiber
      <4>1. state[f] # "done" /\ f \notin astray =>
              ret[f] >= Base(f) /\ Base(f) \in Nat /\ ret[f] \in Nat
        BY <1>1, <1>3, <3>1, <3>2, FrameOffsets DEF FrameOk, TypeOK
      <4>2. sp'[f] = ret[f] + 1
        BY <1>1, <2>1, <3>2 DEF TypeOK
      <4>3. QED
        BY <1>3, <2>1, <3>1, <3>2, <4>1, <4>2 DEF FrameOk
    <3>3. CASE f # CallFiber
      BY <1>1, <2>1, <3>1, <3>3, FrameKept DEF TypeOK
    <3>4. QED
      BY <3>2, <3>3
  <2>4. QED
    BY <2>2, <2>3 DEF FrameInv
<1>6. CASE fiber # NoFiber /\ error[fiber]
  <2>1. /\ cstack' = Front(below) /\ SwitchBack /\ UNCHANGED <<frames, ret, astray>>
        /\ sp' = [sp EXCEPT ![CallFiber] = ret[CallFiber] + 1]
        /\ fiber \in Fiber
    BY <1>1, <1>6 DEF AfterNative, TypeOK
  <2>2. CallersBegan'
    <3>1. \A f \in Fiber : state[f] \notin {"unborn", "new"} =>
                           state'[f] \notin {"unborn", "new"}
      BY <1>1, <2>1 DEF SwitchBack, TypeOK
    <3>2. Front(below) \in Seq(Entry)
      BY <1>1, FrontLast
    <3>3. \A i \in DOMAIN Front(below) : Front(below)[i].fb \in Fiber
      <4>1. \A i \in 1 .. Len(Front(below)) : Front(below)[i] \in Entry
        BY <3>2, ElementOfSeq
      <4>2. QED
        BY <3>2, <4>1 DEF Entry
    <3>4. QED
      BY <1>2, <2>1, <3>1, <3>3 DEF CallersBegan
  <2>3. \A f \in Fiber \ {fiber} :
          /\ frames'[f] = frames[f]
          /\ \/ sp'[f] = sp[f]
             \/ /\ state[f] \in {"running", "yielded", "done"}
                /\ Idle(f) /\ sp'[f] = ret[f] + 1
    BY <1>1, <1>3, <2>1 DEF TypeOK
  <2>4. QED
    BY <2>1, <2>2, <2>3, FrameDone
<1>7. QED
  BY <1>4, <1>5, <1>6

(* The bytecode that stays in the fiber. *)
LEMMA FrameBytecode ==
  ASSUME TypeInv, ChainInv, FrameInv, RegistersFit,
         \/ \E top \in 0 .. MaxSp, v \in Value : Evaluate(top, v)
         \/ \E n \in Argc : CallScript(n)
         \/ \E n \in Argc, v \in Value : TailCallScript(n, v)
         \/ \E v \in Value : ImportBody(v)
         \/ \E v \in Value : ReturnFromCall(v)
  PROVE  FrameInv'
<1>1. TypeOK /\ (Executing => fiber \in Fiber /\ state[fiber] = "running")
  BY FiberAssumption DEF TypeInv, TypeOK, ChainInv, CallersAreRunning
<1>2. Executing =>
        /\ frames[fiber] \in Seq(Frame) /\ frames[fiber] # <<>>
        /\ sp[fiber] \in Nat /\ Base(fiber) \in Nat
        /\ fiber \notin astray => Nested(frames[fiber]) /\ sp[fiber] >= Base(fiber)
  BY <1>1, FrameOffsets DEF FrameInv, FrameOk, TypeOK
<1>3. ASSUME NEW top \in 0 .. MaxSp, NEW v \in Value, Evaluate(top, v)
      PROVE  FrameInv'
  <2>1. Base(fiber)' = Base(fiber) /\ UNCHANGED astray
    BY <1>3 DEF Evaluate, Base, registers
  <2>2. fiber \notin astray => sp'[fiber] >= Base(fiber)
    BY <1>1, <1>2, <1>3, FiberAssumption DEF Evaluate, Floor, TypeOK
  <2>3. QED
    BY <1>1, <1>2, <1>3, <2>1, <2>2, FrameRun DEF Evaluate, TypeOK
<1>4. ASSUME NEW n \in Argc, CallScript(n)
      PROVE  FrameInv'
  <2> DEFINE e == [rbp |-> Callable(n), argc |-> n]
  <2>1. n \in Nat /\ Executing /\ HasOperands(n)
    BY <1>4 DEF CallScript, HasOperands, Argc
  <2>2. /\ Callable(n) \in Nat /\ (fiber \notin astray => Callable(n) >= Base(fiber))
        /\ sp[fiber] = Callable(n) + n + 1
    BY <2>1, OperandOffsets DEF Callable
  <2>3. e \in Frame /\ frames'[fiber] = Append(frames[fiber], e)
    BY <1>1, <1>4, <2>1, <2>2 DEF CallScript, Frame, TypeOK
  <2>4. frames'[fiber] # <<>> /\ Last(frames'[fiber]) = e
    BY <1>2, <2>1, <2>3, LastAppended
  <2>5. ASSUME fiber \notin astray
        PROVE  Nested(frames'[fiber])
    <3>1. /\ Last(frames[fiber]).rbp \in Nat /\ Last(frames[fiber]).argc \in Nat
      BY <1>1, <1>2, <2>1, FrameOffsets
    <3>2. Last(frames[fiber]).rbp + Last(frames[fiber]).argc < e.rbp
      BY <2>2, <2>5, <3>1 DEF Base
    <3>3. QED
      BY <1>2, <2>1, <2>3, <2>5, <3>2, NestedAppend
  <2>6. Base(fiber)' = Callable(n) + n + 1 /\ sp'[fiber] = sp[fiber]
    BY <1>4, <2>4 DEF Base, CallScript
  <2>7. sp'[fiber] >= Base(fiber)'
    BY <1>2, <2>1, <2>2, <2>6
  <2>8. QED
    BY <1>1, <1>4, <2>1, <2>4, <2>5, <2>7, FrameRun DEF CallScript, SetRet, TypeOK
<1>5. ASSUME NEW n \in Argc, NEW v \in Value, TailCallScript(n, v)
      PROVE  FrameInv'
  <2> DEFINE rbp == Last(frames[fiber]).rbp
             e   == [rbp |-> rbp, argc |-> n]
  <2>1. n \in Nat /\ Executing /\ HasOperands(n)
    BY <1>5 DEF TailCallScript, HasOperands, Argc
  <2>2. rbp \in Nat /\ Front(frames[fiber]) \in Seq(Frame)
    BY <2>1, OperandOffsets
  <2>3. e \in Frame /\ frames'[fiber] = Append(Front(frames[fiber]), e)
    BY <1>1, <1>5, <2>1, <2>2 DEF TailCallScript, Frame, TypeOK
  <2>4. frames'[fiber] # <<>> /\ Last(frames'[fiber]) = e
    BY <2>2, <2>3, LastAppended
  <2>5. fiber \notin astray => Nested(frames'[fiber])
    BY <1>2, <2>1, <2>3, NestedReuse
  <2>6. Base(fiber)' = rbp + n + 1 /\ sp'[fiber] = rbp + n + 1
    BY <1>1, <1>5, <2>1, <2>4 DEF Base, TailCallScript, TypeOK
  <2>7. sp'[fiber] >= Base(fiber)'
    BY <2>1, <2>2, <2>6
  <2>8. QED
    BY <1>1, <1>5, <2>1, <2>4, <2>5, <2>7, FrameRun DEF TailCallScript, SetRet, TypeOK
<1>6. ASSUME NEW v \in Value, ImportBody(v)
      PROVE  FrameInv'
  <2> DEFINE e == [rbp |-> sp[fiber], argc |-> 0]
  <2>1. Executing /\ fiber \in Fiber
    BY <1>1, <1>6 DEF ImportBody
  <2>2. e \in Frame /\ frames'[fiber] = Append(frames[fiber], e)
    BY <1>1, <1>2, <1>6, <2>1 DEF ImportBody, Frame, TypeOK
  <2>3. frames'[fiber] # <<>> /\ Last(frames'[fiber]) = e
    BY <1>2, <2>1, <2>2, LastAppended
  <2>4. ASSUME fiber \notin astray
        PROVE  Nested(frames'[fiber])
    <3>1. /\ Last(frames[fiber]).rbp \in Nat /\ Last(frames[fiber]).argc \in Nat
      BY <1>1, <1>2, <2>1, FrameOffsets
    <3>2. Last(frames[fiber]).rbp + Last(frames[fiber]).argc < e.rbp
      BY <1>2, <2>1, <2>4, <3>1 DEF Base
    <3>3. QED
      BY <1>2, <2>1, <2>2, <2>4, <3>2, NestedAppend
  <2>5. Base(fiber)' = sp[fiber] + 0 + 1 /\ sp'[fiber] = sp[fiber] + 1
    BY <1>1, <1>6, <2>1, <2>3 DEF Base, ImportBody, TypeOK
  <2>6. sp'[fiber] >= Base(fiber)'
    BY <1>2, <2>1, <2>5
  <2>7. QED
    BY <1>1, <1>6, <2>1, <2>3, <2>4, <2>6, FrameRun DEF ImportBody, TypeOK
<1>7. ASSUME NEW v \in Value, ReturnFromCall(v)
      PROVE  FrameInv'
  <2>1. Executing /\ fiber \in Fiber /\ Len(frames[fiber]) > 1
    BY <1>1, <1>7 DEF ReturnFromCall, HasOperands
  <2>2. frames'[fiber] = Front(frames[fiber])
    BY <1>1, <1>7, <2>1 DEF ReturnFromCall, PopFrame, TypeOK
  <2> DEFINE s == frames[fiber]
  <2>3. Front(s) # <<>> /\ Front(s) \in Seq(Frame)
    <3>1. /\ Front(s) \in Seq(Frame) /\ Len(Front(s)) = Len(s) - 1
          /\ Len(s) \in Nat
      BY <1>2, <2>1, FrontLast
    <3>2. Len(Front(s)) > 0
      <4> HIDE DEF s
      <4>1. QED
        BY <2>1, <3>1 DEF s
    <3>3. QED
      BY <3>1, <3>2, EmptySeq
  <2>4. ASSUME fiber \notin astray
        PROVE  Nested(frames'[fiber]) /\ sp'[fiber] >= Base(fiber)'
    <3>1. /\ Nested(Front(s))
          /\ Last(Front(s)).rbp + Last(Front(s)).argc < Last(s).rbp
      BY <1>2, <2>1, <2>4, NestedFront
    <3>2. /\ Last(Front(s)).rbp \in Nat /\ Last(Front(s)).argc \in Nat
          /\ Last(s).rbp \in Nat
      <4>1. Last(Front(s)) \in Frame /\ Last(s) \in Frame
        BY <1>2, <2>1, <2>3, FrontLast
      <4>2. QED
        BY <4>1 DEF Frame
    <3>3. register[Depth] = Last(s).rbp
      BY <1>2, <2>1, <2>4 DEF RegistersFit
    <3>4. /\ sp'[fiber] = Last(s).rbp + 1
          /\ Base(fiber)' = Last(Front(s)).rbp + Last(Front(s)).argc + 1
      BY <1>1, <1>7, <2>1, <2>2, <3>3 DEF ReturnFromCall, Base, TypeOK
    <3>5. QED
      BY <2>2, <3>1, <3>2, <3>4
  <2>5. QED
    BY <1>1, <1>7, <2>1, <2>2, <2>3, <2>4, FrameRun DEF ReturnFromCall, PopFrame, TypeOK
<1>8. QED
  BY <1>3, <1>4, <1>5, <1>6, <1>7

(* Without fibers of native functions, every step keeps the frames. *)
LEMMA FrameStep ==
  ASSUME ~NativeFns
  PROVE  TypeInv /\ ChainInv /\ RegInv /\ FrameInv /\ [Next]_vars => FrameInv'
<1> SUFFICES ASSUME TypeInv, ChainInv, RegistersFit, FrameInv, [Next]_vars
             PROVE  FrameInv'
  BY RegFits
<1>1. TypeOK /\ (Executing => fiber \in Fiber /\ state[fiber] = "running")
  BY FiberAssumption DEF TypeInv, TypeOK, ChainInv, CallersAreRunning
<1>2. ASSUME UNCHANGED <<fiber, state, frames, sp, ret, cstack, registers>>
      PROVE  FrameInv'
  <2>1. CallersBegan'
    BY <1>2 DEF FrameInv, CallersBegan
  <2>2. \A f \in Fiber : Idle(f)' <=> Idle(f)
    BY <1>2 DEF Idle, HostCode, CallFiber
  <2>3. \A f \in Fiber : FrameOk(f)'
    BY <1>2, <2>2, FrameKept DEF FrameInv, registers
  <2>4. QED
    BY <2>1, <2>3 DEF FrameInv
<1>3. ASSUME NEW g \in Fiber, NEW n \in BOOLEAN, HostNewFiber(g, n)
      PROVE  FrameInv'
  <2>1. /\ state[g] = "unborn" /\ state'[g] = "new"
        /\ frames'[g] = <<[rbp |-> 0, argc |-> Arity[g]]>>
        /\ \A f \in Fiber \ {g} : state'[f] = state[f] /\ frames'[f] = frames[f]
        /\ UNCHANGED <<fiber, sp, ret, cstack, astray>>
    BY <1>1, <1>3 DEF HostNewFiber, Allocate, TypeOK, registers
  <2>2. CallersBegan'
    BY <1>1, <2>1, BegunKept DEF FrameInv
  <2>3. \A f \in Fiber : Idle(f)' <=> Idle(f)
    BY <2>1 DEF Idle, HostCode, CallFiber
  <2>4. FrameOk(g)'
    BY <2>1 DEF FrameOk, FrameInv
  <2>5. \A f \in Fiber \ {g} : FrameOk(f)'
    BY <2>1, <2>3, FrameKept DEF FrameInv
  <2>6. QED
    BY <2>2, <2>4, <2>5 DEF FrameInv
<1>4. ASSUME NEW g \in Fiber, HostInterpret(g)
      PROVE  FrameInv'
  BY <1>1, <1>4, FrameHost DEF HostInterpret, TypeOK
<1>5. ASSUME NEW g \in Fiber, NEW n \in Argc, HostRun(g, n)
      PROVE  FrameInv'
  BY <1>1, <1>5, FrameHost DEF HostRun, CanPrepare, Enter, TypeOK
<1>6. ASSUME NEW g \in Fiber, NEW v \in Value, HostResume(g, v)
      PROVE  FrameInv'
  BY <1>1, <1>6, FrameHost DEF HostResume, CanSwitch, Enter, TypeOK
<1>7. CASE Host
  BY <1>2, <1>3, <1>4, <1>5, <1>6, <1>7
  DEF Host, HostRefused, NativeReturnValue, NativeSetError
<1>8. ASSUME Executing, SwitchBack, cstack' \in {cstack, Front(cstack)},
             UNCHANGED <<ret, astray>>,
             \A f \in Fiber \ {fiber} : frames'[f] = frames[f] /\ sp'[f] = sp[f]
      PROVE  FrameInv'
  <2>1. \A f \in Fiber : state[f] \notin {"unborn", "new"} =>
                         state'[f] \notin {"unborn", "new"}
    BY <1>1, <1>8 DEF SwitchBack, TypeOK
  <2>2. CASE cstack' = cstack
    BY <1>1, <1>8, <2>1, <2>2, BegunKept, FrameDone DEF FrameInv
  <2>3. CASE cstack' = Front(cstack)
    <3>1. cstack \in Seq(Entry) /\ cstack # <<>> /\ Front(cstack) \in Seq(Entry)
      BY <1>1, <1>8, FrontLast DEF Executing, TypeOK
    <3>2. \A i \in DOMAIN cstack' :
            cstack'[i].kind # "run" => state[cstack'[i].fb] \notin {"unborn", "new"}
      BY <2>3, <3>1, BegunPop DEF FrameInv, CallersBegan
    <3>3. \A i \in 1 .. Len(cstack') : cstack'[i] \in Entry
      BY <2>3, <3>1, ElementOfSeq
    <3>4. \A i \in DOMAIN cstack' : cstack'[i].fb \in Fiber
      BY <2>3, <3>1, <3>3 DEF Entry
    <3>5. CallersBegan'
      BY <2>1, <3>2, <3>4 DEF CallersBegan
    <3>6. QED
      BY <1>1, <1>8, <3>5, FrameDone
  <2>4. QED
    BY <1>8, <2>2, <2>3
<1>9. ASSUME NEW v \in Value, ReturnFromFiber(v)
      PROVE  FrameInv'
  BY <1>1, <1>8, <1>9 DEF ReturnFromFiber, HasOperands, PopFrame, TypeOK
<1>10. CASE RuntimeError
  BY <1>1, <1>8, <1>10 DEF RuntimeError, TypeOK, registers
<1>11. CASE Bytecode
  BY <1>9, <1>10, <1>11, FrameBytecode DEF Bytecode
<1>12. ASSUME NEW n \in Argc, CallNative(n)
       PROVE  FrameInv'
  BY <1>12, FrameNative DEF CallNative, Argc
<1>13. ASSUME NEW n \in Argc, NEW v \in Value, NEW e \in BOOLEAN, CallBuiltin(n, v, e)
       PROVE  FrameInv'
  BY <1>13, FrameNative DEF CallBuiltin, Argc
<1>14. ASSUME NEW g \in Fiber, NEW n \in BOOLEAN, NEW v \in Value, CallFiberNew(g, n, v)
       PROVE  FrameInv'
  <2>1. Allocate(g, FALSE)
    BY <1>14 DEF CallFiberNew, Allocate
  <2>2. QED
    BY <1>14, <2>1, FrameNative DEF CallFiberNew
<1>15. ASSUME NEW g \in Fiber, NEW n \in Argc, CallFiberRun(g, n)
       PROVE  FrameInv'
  <2>1. n + 1 \in Nat
    BY DEF Argc
  <2>2. QED
    BY <1>1, <1>15, <2>1, FrameSwitch DEF CallFiberRun, CanPrepare, TypeOK
<1>16. ASSUME NEW g \in Fiber, NEW n \in Argc, NEW v \in Value, CallFiberResume(g, n, v)
       PROVE  FrameInv'
  <2>1. n + 1 \in Nat
    BY DEF Argc
  <2>2. QED
    BY <1>1, <1>16, <2>1, FrameSwitch DEF CallFiberResume, CanSwitch, TypeOK
<1>17. CASE Natives
  BY <1>12, <1>13, <1>14, <1>15, <1>16, <1>17, FrameYield, FrameAfterNative DEF Natives
<1>18. QED
  BY <1>2, <1>7, <1>11, <1>17 DEF Next, vars

(* Unless a fiber is made of a native function, every fiber that can be     *)
(* given control has a frame for LOAD_FRAME; and unless it is astray, its   *)
(* frames lie one above the operands of the other and the stack pointer     *)
(* above the operands of the last: OP_RETURN, with the rbp of its register, *)
(* tail calls and the pops after natives that have switched fibers never    *)
(* cut into a frame, and a fiber astray harms only itself.                  *)
THEOREM FramesAreNested == ~NativeFns => (Spec => []FramesNested)
<1> SUFFICES ASSUME ~NativeFns
             PROVE  Spec => []FramesNested
  OBVIOUS
<1>1. Init => FrameInv
  BY DEF Init, FrameInv, FrameOk, CallersBegan
<1>2. FrameInv => FramesNested
  <2> SUFFICES ASSUME FrameInv, NEW f \in Fiber, state[f] \in {"new", "running", "yielded"}
               PROVE  /\ frames[f] # <<>>
                      /\ f \notin astray => /\ Nested(frames[f])
                                            /\ state[f] # "new" => sp[f] >= Base(f)
    BY DEF FramesNested, Nested
  <2>1. CASE state[f] = "new"
    <3>1. frames[f] = <<[rbp |-> 0, argc |-> Arity[f]]>>
      BY <2>1 DEF FrameInv, FrameOk
    <3>2. QED
      BY <2>1, <3>1 DEF Nested
  <2>2. CASE state[f] # "new"
    BY <2>2 DEF FrameInv, FrameOk
  <2>3. QED
    BY <2>1, <2>2
<1>3. TypeInv /\ ChainInv /\ RegInv /\ FrameInv /\ [Next]_vars => FrameInv'
  BY FrameStep
<1>4. TypeInv /\ ChainInv /\ RegInv /\ [Next]_vars => RegInv'
  BY RegStep
<1>5. QED
  BY <1>1, <1>2, <1>3, <1>4, InitTypeInv, TypeInvStep, InitChain, ChainStep, InitReg, PTL
  DEF Spec

-----------------------------------------------------------------------------
(* Whatever runs meanwhile: a fiber that waits or has yielded keeps its     *)
(* frames and its return slot, and the value there only comes from the step *)
(* that gives it control.                                                   *)
THEOREM SuspendedKept == Spec => SuspendedUntouched
<1> DEFINE Untouched ==
      \A f \in Fiber : f # fiber /\ state[f] \in {"running", "yielded"} =>
        /\ frames'[f] = frames[f]
        /\ ret'[f] = ret[f]
        /\ retval'[f] = retval[f] \/ fiber' = f
<1>1. TypeInv /\ [Next]_vars => [Untouched]_vars
  <2> SUFFICES ASSUME TypeInv, Next
               PROVE  Untouched
    OBVIOUS
  <2>1. TypeOK /\ (Executing => fiber \in Fiber)
    BY DEF TypeInv, TypeOK
  <2>2. CASE Host
    BY <2>1, <2>2
    DEF Host, HostNewFiber, Allocate, HostInterpret, HostRun, HostResume, Enter,
        HostRefused, NativeReturnValue, NativeSetError, TypeOK
  <2>3. CASE Bytecode
    BY <2>1, <2>3
    DEF Bytecode, Evaluate, CallScript, TailCallScript, ImportBody, ReturnFromCall,
        ReturnFromFiber, RuntimeError, SetRet, PopFrame, SwitchBack, HasOperands, TypeOK
  <2>4. CASE Natives
    BY <2>1, <2>4
    DEF Natives, CallNative, CallBuiltin, CallFiberNew, Allocate, CallFiberRun,
        CallFiberResume, CallYield, AfterNative, SetRet, Enter, Suspend, HasOperands,
        TypeOK
  <2>5. QED
    BY <2>2, <2>3, <2>4 DEF Next
<1>2. QED
  BY <1>1, TypeInvariant, PTL DEF Spec, SuspendedUntouched

-----------------------------------------------------------------------------
(* The refinement.  What the mapping counts upwards from the current fiber, *)
(* as functions of the current fiber and the callers.                       *)
UpOf(fib, call) ==
  CHOOSE up : up = [n \in 0 .. Cardinality(Fiber) |->
    IF n = 0 THEN fib
    ELSE IF up[n - 1] = NoFiber THEN NoFiber ELSE call[up[n - 1]]]

Downwards(up) ==
  LET depth == Cardinality({n \in DOMAIN up : up[n] # NoFiber})
  IN  [i \in 1 .. depth |-> up[depth - i]]

(* The same stack, by what it must be: the callers, down to the host, each  *)
(* once.                                                                    *)
IsStack(s, fib, call) ==
  /\ s \in Seq(Fiber)
  /\ IF fib = NoFiber THEN Len(s) = 0 ELSE Len(s) > 0 /\ s[Len(s)] = fib
  /\ \A i \in 1 .. Len(s) : call[s[i]] = IF i = 1 THEN NoFiber ELSE s[i - 1]
  /\ \A i, j \in 1 .. Len(s) : s[i] = s[j] => i = j

(* A set of natural numbers that is not empty has a least one. *)
LEMMA LeastNat ==
  ASSUME NEW S \in SUBSET Nat, NEW m \in S
  PROVE  \E n \in S : \A k \in S : n <= k
<1>1. IsWellFoundedOn(OpToRel(<, Nat), Nat)
  BY NatLessThanWellFounded
<1>2. PICK n \in S : \A k \in S : ~(<<k, n>> \in OpToRel(<, Nat))
  BY <1>1, WFMin, Zenon
<1>3. ASSUME NEW k \in S
      PROVE  n <= k
  <2>1. ~(<<k, n>> \in OpToRel(<, Nat))
    BY <1>2, Zenon
  <2>2. k \in Nat /\ n \in Nat
    OBVIOUS
  <2>3. ~(k < n)
    BY <2>1, <2>2 DEF OpToRel
  <2>4. QED
    BY <2>2, <2>3
<1>4. QED
  BY <1>3

(* There is one such stack, and the mapping finds it. *)
LEMMA StackFound ==
  ASSUME IsFiniteSet(Fiber), NEW fib \in Fiber \cup {NoFiber},
         NEW call \in [Fiber -> Fiber \cup {NoFiber}],
         NEW s, IsStack(s, fib, call)
  PROVE  Downwards(UpOf(fib, call)) = s
<1> DEFINE k == Len(s)
           N == Cardinality(Fiber)
           Step(up) == [n \in 0 .. N |->
                          IF n = 0 THEN fib
                          ELSE IF up[n - 1] = NoFiber THEN NoFiber ELSE call[up[n - 1]]]
           u == [n \in 0 .. N |-> IF n < k THEN s[k - n] ELSE NoFiber]
<1>1. /\ s \in [1 .. k -> Fiber] /\ k \in Nat
      /\ \A i \in 1 .. k : s[i] \in Fiber /\ s[i] # NoFiber
  BY LenProperties, FiberAssumption DEF IsStack
<1>2. N \in Nat /\ k <= N
  <2>1. s \in Injection(1 .. k, Fiber)
    BY <1>1 DEF IsStack, Injection, IsInjective
  <2>2. Cardinality(1 .. k) <= Cardinality(Fiber)
    BY <2>1, FS_Injection
  <2> HIDE DEF k
  <2>3. Cardinality(1 .. k) = k
    <3>1. Cardinality(1 .. k) = IF 1 > k THEN 0 ELSE k - 1 + 1
      BY <1>1, FS_Interval
    <3>2. QED
      BY <1>1, <3>1
  <2>4. QED
    BY <2>2, <2>3, FS_CardinalityType
<1>3. /\ fib = NoFiber => k = 0
      /\ fib # NoFiber => k > 0 /\ s[k] = fib
      /\ \A i \in 1 .. k : call[s[i]] = IF i = 1 THEN NoFiber ELSE s[i - 1]
  BY DEF IsStack
<1> HIDE DEF k, N
<1>4. ASSUME NEW n \in 0 .. N
      PROVE  u[n] = Step(u)[n]
  <2>1. CASE n = 0
    BY <1>1, <1>2, <1>3, <2>1
  <2>2. CASE n > 0 /\ n - 1 < k
    <3>1. /\ n - 1 \in 0 .. N /\ k - (n - 1) \in 1 .. k
          /\ (n < k => k - (n - 1) # 1 /\ k - (n - 1) - 1 = k - n)
          /\ (~(n < k) => k - (n - 1) = 1)
      BY <1>1, <1>2, <2>2
    <3>2. u[n - 1] = s[k - (n - 1)] /\ u[n - 1] # NoFiber
      BY <1>1, <2>2, <3>1
    <3>3. call[s[k - (n - 1)]] = IF n < k THEN s[k - n] ELSE NoFiber
      BY <1>3, <3>1
    <3>4. QED
      BY <2>2, <3>2, <3>3
  <2>3. CASE n > 0 /\ ~(n - 1 < k)
    <3>1. n - 1 \in 0 .. N /\ ~(n < k)
      BY <1>1, <1>2, <2>3
    <3>2. QED
      BY <2>3, <3>1
  <2>4. QED
    BY <2>1, <2>2, <2>3
<1>5. u = Step(u)
  BY <1>4
<1>6. ASSUME NEW v, v = Step(v)
      PROVE  v = u
  <2> DEFINE Different == {n \in 0 .. N : v[n] # u[n]}
  <2>1. SUFFICES ASSUME NEW m \in Different
                 PROVE  FALSE
    BY <1>6
  <2>2. Different \in SUBSET Nat
    BY <1>2
  <2>3. PICK n \in Different : \A i \in Different : n <= i
    <3> HIDE DEF Different
    <3>1. QED
      BY <2>1, <2>2, LeastNat
  <2>4. v[n] = Step(v)[n] /\ u[n] = Step(u)[n] /\ n \in 0 .. N
    BY <1>5, <1>6
  <2>5. n # 0
    BY <2>3, <2>4
  <2>6. n - 1 \in 0 .. N /\ n - 1 \notin Different
    BY <1>2, <2>3, <2>4, <2>5
  <2>7. v[n - 1] = u[n - 1]
    BY <2>6
  <2> HIDE DEF u
  <2>8. Step(v)[n] = Step(u)[n]
    BY <2>4, <2>5, <2>7
  <2>9. QED
    BY <2>3, <2>4, <2>8
<1>7. UpOf(fib, call) = u
  <2>1. UpOf(fib, call) = Step(UpOf(fib, call))
    <3>1. \E up : up = Step(up)
      BY <1>5
    <3>2. QED
      BY <3>1 DEF UpOf, N
  <2>2. QED
    BY <1>6, <2>1
<1>8. {n \in DOMAIN u : u[n] # NoFiber} = 0 .. k - 1
  <2>1. ASSUME NEW n \in 0 .. N
        PROVE  u[n] # NoFiber <=> n \in 0 .. k - 1
    <3>1. n < k => k - n \in 1 .. k
      BY <1>1, <1>2
    <3>2. QED
      BY <1>1, <1>2, <3>1
  <2>2. 0 .. k - 1 \subseteq 0 .. N
    BY <1>1, <1>2
  <2>3. QED
    BY <2>1, <2>2
<1>9. Cardinality(0 .. k - 1) = k
  BY <1>1, FS_Interval
<1>10. ASSUME NEW i \in 1 .. k
       PROVE  u[k - i] = s[i]
  BY <1>1, <1>2
<1>11. s = [i \in 1 .. k |-> u[k - i]]
  <2> HIDE DEF u
  <2>1. QED
    BY <1>1, <1>10
<1>12. QED
  <2> HIDE DEF u
  <2>1. QED
    BY <1>7, <1>8, <1>9, <1>11 DEF Downwards

(* What the mapping gives, and what a step makes of it. *)
Chained == \E s : IsStack(s, fiber, caller)

LEMMA MappedStack ==
  ASSUME IsFiniteSet(Fiber), TypeOK, NEW s, IsStack(s, fiber, caller)
  PROVE  Activations = s
<1>1. Activations = Downwards(UpOf(fiber, caller))
  BY DEF Activations, Downwards, UpOf
<1>2. QED
  BY <1>1, StackFound DEF TypeOK

LEMMA MappedStackAfter ==
  ASSUME IsFiniteSet(Fiber), TypeOK', NEW s, IsStack(s, fiber', caller')
  PROVE  Activations' = s
<1>1. Activations' = Downwards(UpOf(fiber', caller'))
  BY DEF Activations, Downwards, UpOf
<1>2. fiber' \in Fiber \cup {NoFiber} /\ caller' \in [Fiber -> Fiber \cup {NoFiber}]
  BY DEF TypeOK
<1>3. QED
  BY <1>1, <1>2, StackFound

(* All of the stack are running. *)
LEMMA StackRunning ==
  ASSUME TypeOK, CallersAreRunning, NEW s, IsStack(s, fiber, caller)
  PROVE  \A i \in 1 .. Len(s) : s[i] \in Fiber /\ state[s[i]] = "running"
<1> SUFFICES ASSUME NEW i \in 1 .. Len(s)
             PROVE  s[i] \in Fiber /\ state[s[i]] = "running"
  OBVIOUS
<1>1. /\ s \in Seq(Fiber) /\ Len(s) \in Nat
      /\ \A j \in 1 .. Len(s) : s[j] \in Fiber
  BY ElementOfSeq, LenProperties DEF IsStack
<1>2. CASE i = Len(s)
  BY <1>1, <1>2 DEF IsStack, CallersAreRunning
<1>3. CASE i < Len(s)
  <2>1. i + 1 \in 1 .. Len(s) /\ i + 1 # 1 /\ (i + 1) - 1 = i
    BY <1>1, <1>3
  <2>2. caller[s[i + 1]] = s[i]
    BY <2>1 DEF IsStack
  <2>3. s[i + 1] \in Fiber /\ s[i] \in Fiber /\ s[i] # NoFiber
    BY <1>1, <2>1, FiberAssumption
  <2>4. QED
    BY <2>2, <2>3 DEF CallersAreRunning
<1>4. QED
  BY <1>1, <1>2, <1>3

(* Entering a fiber pushes it. *)
LEMMA StackEnter ==
  ASSUME TypeOK, CallersAreRunning, NEW s, IsStack(s, fiber, caller),
         NEW g \in Fiber, state[g] # "running",
         caller' = [caller EXCEPT ![g] = fiber], fiber' = g
  PROVE  IsStack(Append(s, g), fiber', caller')
<1> DEFINE t == Append(s, g)
<1>1. /\ s \in Seq(Fiber) /\ Len(s) \in Nat
      /\ \A i \in 1 .. Len(s) : s[i] \in Fiber /\ s[i] # g
  BY StackRunning, LenProperties DEF IsStack
<1>2. /\ t \in Seq(Fiber) /\ Len(t) = Len(s) + 1
      /\ \A i \in 1 .. Len(s) : t[i] = s[i]
      /\ t[Len(s) + 1] = g
  BY <1>1, AppendProperties
<1> HIDE DEF t
<1>3. IF fiber' = NoFiber THEN Len(t) = 0 ELSE Len(t) > 0 /\ t[Len(t)] = fiber'
  BY <1>1, <1>2, FiberAssumption
<1>4. ASSUME NEW i \in 1 .. Len(t)
      PROVE  caller'[t[i]] = IF i = 1 THEN NoFiber ELSE t[i - 1]
  <2>1. CASE i = Len(s) + 1
    <3>1. caller'[t[i]] = fiber
      BY <1>2, <2>1 DEF TypeOK
    <3>2. CASE i = 1
      BY <1>1, <2>1, <3>1, <3>2 DEF IsStack
    <3>3. CASE i # 1
      <4>1. i - 1 = Len(s) /\ Len(s) > 0 /\ i - 1 \in 1 .. Len(s)
        BY <1>1, <2>1, <3>3
      <4>2. fiber = s[Len(s)]
        BY <4>1 DEF IsStack
      <4>3. QED
        BY <1>2, <3>1, <3>3, <4>1, <4>2
    <3>4. QED
      BY <3>2, <3>3
  <2>2. CASE i # Len(s) + 1
    <3>1. i \in 1 .. Len(s) /\ (i # 1 => i - 1 \in 1 .. Len(s))
      BY <1>1, <1>2, <2>2
    <3>2. caller'[s[i]] = caller[s[i]]
      BY <1>1, <3>1 DEF TypeOK
    <3>3. QED
      BY <1>2, <3>1, <3>2 DEF IsStack
  <2>3. QED
    BY <2>1, <2>2
<1>5. ASSUME NEW i \in 1 .. Len(t), NEW j \in 1 .. Len(t), t[i] = t[j]
      PROVE  i = j
  <2>1. CASE i \in 1 .. Len(s) /\ j \in 1 .. Len(s)
    BY <1>2, <1>5, <2>1 DEF IsStack
  <2>2. CASE i = Len(s) + 1 \/ j = Len(s) + 1
    <3>1. \A m \in 1 .. Len(t) : m = Len(s) + 1 \/ m \in 1 .. Len(s)
      BY <1>1, <1>2
    <3>2. QED
      BY <1>1, <1>2, <1>5, <2>2, <3>1
  <2>3. QED
    BY <1>1, <1>2, <2>1, <2>2
<1>6. QED
  BY <1>2, <1>3, <1>4, <1>5 DEF IsStack, t

(* pkInterpretSource() begins another one. *)
LEMMA StackFresh ==
  ASSUME TypeOK, NEW g \in Fiber, caller[g] = NoFiber, UNCHANGED caller, fiber' = g
  PROVE  IsStack(<<g>>, fiber', caller')
BY FiberAssumption DEF IsStack

(* Leaving the current fiber pops it. *)
LEMMA StackLeave ==
  ASSUME TypeOK, NEW s, IsStack(s, fiber, caller), fiber # NoFiber,
         caller' = [caller EXCEPT ![fiber] = NoFiber], fiber' = caller[fiber]
  PROVE  /\ s # <<>> /\ Last(s) = fiber
         /\ IsStack(Front(s), fiber', caller')
<1> DEFINE t == Front(s)
<1>1. /\ s \in Seq(Fiber) /\ Len(s) \in Nat /\ Len(s) > 0 /\ s # <<>>
      /\ \A i \in 1 .. Len(s) : s[i] \in Fiber /\ s[i] # NoFiber
  BY LenProperties, ElementOfSeq, FiberAssumption DEF IsStack
<1>2. /\ t \in Seq(Fiber) /\ Len(t) = Len(s) - 1
      /\ \A i \in 1 .. Len(s) - 1 : t[i] = s[i]
      /\ Last(s) = s[Len(s)] /\ s[Len(s)] = fiber
  BY <1>1, FrontLast DEF IsStack
<1> HIDE DEF t
<1>3. caller[fiber] = IF Len(s) = 1 THEN NoFiber ELSE s[Len(s) - 1]
  BY <1>1, <1>2 DEF IsStack
<1>4. IF fiber' = NoFiber THEN Len(t) = 0 ELSE Len(t) > 0 /\ t[Len(t)] = fiber'
  <2>1. CASE Len(s) = 1
    BY <1>2, <1>3, <2>1
  <2>2. CASE Len(s) # 1
    <3>1. Len(s) - 1 \in 1 .. Len(s) - 1 /\ Len(s) - 1 \in 1 .. Len(s)
      <4>1. \A n \in Nat : n > 0 /\ n # 1 => n - 1 \in 1 .. n - 1 /\ n - 1 \in 1 .. n
        OBVIOUS
      <4>2. QED
        BY <1>1, <2>2, <4>1
    <3>2. fiber' = s[Len(s) - 1] /\ fiber' # NoFiber
      BY <1>1, <1>3, <2>2, <3>1
    <3>3. QED
      BY <1>1, <1>2, <3>1, <3>2
  <2>3. QED
    BY <2>1, <2>2
<1>5. ASSUME NEW i \in 1 .. Len(t)
      PROVE  caller'[t[i]] = IF i = 1 THEN NoFiber ELSE t[i - 1]
  <2>1. /\ i \in 1 .. Len(s) - 1 /\ i \in 1 .. Len(s) /\ i # Len(s)
        /\ (i # 1 => i - 1 \in 1 .. Len(s) - 1)
    BY <1>1, <1>2
  <2>2. s[i] # fiber /\ s[i] \in Fiber
    BY <1>1, <1>2, <2>1 DEF IsStack
  <2>3. caller'[s[i]] = caller[s[i]]
    BY <2>2 DEF TypeOK
  <2>4. QED
    BY <1>2, <2>1, <2>3 DEF IsStack
<1>6. \A i, j \in 1 .. Len(t) : t[i] = t[j] => i = j
  <2>1. \A i \in 1 .. Len(t) : i \in 1 .. Len(s) /\ t[i] = s[i]
    BY <1>1, <1>2
  <2>2. QED
    BY <2>1 DEF IsStack
<1>7. QED
  BY <1>1, <1>2, <1>4, <1>5, <1>6 DEF IsStack, t

(* Each step is one of the coroutines', or none; and keeps the stack.       *)
LEMMA CreateMapped ==
  ASSUME IsFiniteSet(Fiber), TypeOK, TypeOK', NEW s, IsStack(s, fiber, caller),
         NEW g \in Fiber, NEW n \in BOOLEAN, Allocate(g, n), UNCHANGED <<fiber, caller>>
  PROVE  Abstract!Next /\ Chained'
<1>1. IsStack(s, fiber', caller')
  OBVIOUS
<1>2. Activations = s /\ Activations' = s
  BY <1>1, MappedStack, MappedStackAfter
<1>3. Abstract!Create(g)
  BY <1>2 DEF Allocate, Abstract!Create
<1>4. QED
  BY <1>1, <1>3 DEF Abstract!Next, Chained

LEMMA StartMapped ==
  ASSUME IsFiniteSet(Fiber), TypeOK, TypeOK', CallersAreRunning,
         NEW s, IsStack(s, fiber, caller),
         NEW g \in Fiber, state[g] \in {"new", "yielded"}, Enter(g)
  PROVE  Abstract!Next /\ Chained'
<1>1. IsStack(Append(s, g), fiber', caller')
  BY StackEnter DEF Enter
<1>2. Activations = s /\ Activations' = Append(s, g)
  BY <1>1, MappedStack, MappedStackAfter
<1>3. Abstract!Start(g)
  BY <1>2 DEF Enter, Abstract!Start
<1>4. QED
  BY <1>1, <1>3 DEF Abstract!Next, Chained

LEMMA DiscardMapped ==
  ASSUME IsFiniteSet(Fiber), TypeOK, TypeOK', CallersAreRunning,
         NEW g \in Fiber, HostInterpret(g)
  PROVE  Abstract!Next /\ Chained'
<1>1. caller[g] = NoFiber /\ UNCHANGED caller /\ fiber' = g
  BY DEF HostInterpret, CallersAreRunning
<1>2. IsStack(<<g>>, fiber', caller')
  BY <1>1, StackFresh
<1>3. Activations' = <<g>>
  BY <1>2, MappedStackAfter
<1>4. Abstract!Discard(g)
  BY <1>3 DEF HostInterpret, Abstract!Discard
<1>5. QED
  BY <1>2, <1>4 DEF Abstract!Next, Chained

LEMMA LeaveMapped ==
  ASSUME IsFiniteSet(Fiber), TypeOK, TypeOK', NEW s, IsStack(s, fiber, caller),
         fiber # NoFiber, NEW how \in {"yielded", "done"},
         state' = [state EXCEPT ![fiber] = how],
         caller' = [caller EXCEPT ![fiber] = NoFiber], fiber' = caller[fiber]
  PROVE  Abstract!Next /\ Chained'
<1>1. s # <<>> /\ Last(s) = fiber /\ IsStack(Front(s), fiber', caller')
  BY StackLeave
<1>2. Activations = s /\ Activations' = Front(s)
  BY <1>1, MappedStack, MappedStackAfter
<1>3. Abstract!Leave(how)
  BY <1>1, <1>2 DEF Abstract!Leave, Last, Front, Abstract!Last, Abstract!Front
<1>4. QED
  BY <1>1, <1>3 DEF Abstract!Next, Chained

LEMMA StutterMapped ==
  ASSUME IsFiniteSet(Fiber), TypeOK, TypeOK', Chained, UNCHANGED <<fiber, state, caller>>
  PROVE  UNCHANGED <<state, Activations>> /\ Chained'
<1>1. PICK s : IsStack(s, fiber, caller)
  BY DEF Chained
<1>2. IsStack(s, fiber', caller')
  BY <1>1
<1>3. QED
  BY <1>1, <1>2, MappedStack, MappedStackAfter DEF Chained

LEMMA StepMapped ==
  ASSUME IsFiniteSet(Fiber)
  PROVE  TypeInv /\ TypeInv' /\ ChainInv /\ Chained /\ [Next]_vars =>
           [Abstract!Next]_<<state, Activations>> /\ Chained'
<1> SUFFICES ASSUME TypeInv, TypeInv', ChainInv, Chained, [Next]_vars
             PROVE  [Abstract!Next]_<<state, Activations>> /\ Chained'
  OBVIOUS
<1>1. TypeOK /\ TypeOK' /\ CallersAreRunning /\ (Executing => fiber # NoFiber)
  BY DEF TypeInv, ChainInv
<1>2. PICK s : IsStack(s, fiber, caller)
  BY DEF Chained
<1> DEFINE Goal == [Abstract!Next]_<<state, Activations>> /\ Chained'
<1>3. CASE UNCHANGED <<fiber, state, caller>>
  BY <1>1, <1>3, StutterMapped
<1>4. ASSUME NEW g \in Fiber, NEW n \in BOOLEAN, Allocate(g, n), UNCHANGED <<fiber, caller>>
      PROVE  Goal
  BY <1>1, <1>2, <1>4, CreateMapped
<1>5. ASSUME NEW g \in Fiber, state[g] \in {"new", "yielded"}, Enter(g)
      PROVE  Goal
  BY <1>1, <1>2, <1>5, StartMapped
<1>6. ASSUME NEW g \in Fiber, HostInterpret(g)
      PROVE  Goal
  BY <1>1, <1>6, DiscardMapped
<1>7. ASSUME fiber # NoFiber, SwitchBack
      PROVE  Goal
  BY <1>1, <1>2, <1>7, LeaveMapped DEF SwitchBack
<1>8. ASSUME NEW n \in Argc, NEW v \in Value, CallYield(n, v)
      PROVE  Goal
  BY <1>1, <1>2, <1>8, LeaveMapped DEF CallYield, Suspend, HasOperands
<1> HIDE DEF Goal
<1>9. CASE AfterNative
  BY <1>3, <1>7, <1>9 DEF AfterNative, Goal
<1>10. CASE Host
  BY <1>3, <1>4, <1>5, <1>6, <1>10
  DEF Host, HostNewFiber, HostRun, HostResume, HostRefused, NativeReturnValue,
      NativeSetError, CanPrepare, CanSwitch, Goal
<1>11. CASE Bytecode
  BY <1>1, <1>3, <1>7, <1>11
  DEF Bytecode, Evaluate, CallScript, TailCallScript, ImportBody, ReturnFromCall,
      ReturnFromFiber, RuntimeError, HasOperands, Goal
<1>12. CASE Natives
  BY <1>3, <1>4, <1>5, <1>8, <1>9, <1>12
  DEF Natives, CallNative, CallBuiltin, CallFiberNew, CallFiberRun,
      CallFiberResume, CanPrepare, CanSwitch, Goal
<1>13. QED
  BY <1>3, <1>10, <1>11, <1>12 DEF Next, vars, Goal

(* The fibers implement the coroutines: however scripts, natives, errors    *)
(* and API calls interleave, the fibers that vm->fiber and the callers make *)
(* are a stack of activations that is only pushed, popped and, by           *)
(* pkInterpretSource(), begun anew.                                         *)
THEOREM FibersImplementCoroutines == IsFiniteSet(Fiber) => (Spec => FibersAreCoroutines)
<1> SUFFICES ASSUME IsFiniteSet(Fiber)
             PROVE  Spec => FibersAreCoroutines
  OBVIOUS
<1>1. Init => Chained
  <2>1. Init => IsStack(<<>>, fiber, caller)
    BY DEF Init, IsStack
  <2>2. QED
    BY <2>1 DEF Chained
<1>2. Init => Abstract!Init
  <2> SUFFICES ASSUME Init
               PROVE  Abstract!Init
    OBVIOUS
  <2>1. IsStack(<<>>, fiber, caller)
    BY DEF Init, IsStack
  <2>2. Activations = <<>>
    BY <2>1, InitTypeInv, MappedStack DEF TypeInv
  <2>3. QED
    BY <2>2 DEF Init, Abstract!Init
<1>3. TypeInv /\ TypeInv' /\ ChainInv /\ Chained /\ [Next]_vars =>
        [Abstract!Next]_<<state, Activations>> /\ Chained'
  BY StepMapped
<1>4. QED
  BY <1>1, <1>2, <1>3, InitTypeInv, TypeInvStep, InitChain, ChainStep, PTL
  DEF Spec, FibersAreCoroutines, Abstract!Spec, Abstract!vars

=============================================================================
