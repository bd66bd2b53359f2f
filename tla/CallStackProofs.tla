--------------------------- MODULE CallStackProofs ---------------------------
(***************************************************************************)
(* Proofs about CallStack for every set of functions, every size of their  *)
(* frames and every sequence of calls.                                     *)
(***************************************************************************)
EXTENDS CallStack, TLAPS, FiniteSetTheorems, WellFoundedInduction

(* The invariant: what the runs check, and that the return pointer is never *)
(* a stale one (growStack() moves it).                                      *)
IInv == TypeOK /\ RoomForFrames /\ FramesStacked /\ Live(ret)

Frame == [fn : Fn, rbp : Pointer]

(* Where the slots of a frame end. *)
End(fr) == fr.rbp.slot + 1 + StackSize[fr.fn]

(* A power of two is a natural number: that of k is the number of subsets   *)
(* of a set of k.                                                           *)
LEMMA PowerNat ==
  ASSUME NEW k \in Nat
  PROVE  2^k \in Nat
<1>1. IsFiniteSet(1 .. k) /\ Cardinality(1 .. k) = k
  BY FS_Interval
<1>2. IsFiniteSet(SUBSET (1 .. k)) /\ Cardinality(SUBSET (1 .. k)) = 2^k
  BY <1>1, FS_SUBSET
<1>3. QED
  BY <1>2, FS_CardinalityType

LEMMA MaxStackNat == MaxStack \in Nat
BY PowerNat, CallStackAssumption DEF MaxStack

(* utilPowerOf2Ceil() rounds up. *)
LEMMA RoundsUp ==
  ASSUME NEW n \in 0 .. MaxStack
  PROVE  PowerOf2Ceil(n) \in n .. MaxStack
<1> DEFINE S == {p \in Powers : p >= n}
<1>1. Powers \subseteq Nat /\ MaxStack \in Powers /\ n \in Nat /\ n <= MaxStack
  BY PowerNat, MaxStackNat, CallStackAssumption DEF Powers, MaxStack
<1>2. S \in SUBSET Nat /\ MaxStack \in S
  BY <1>1
<1>3. IsWellFoundedOn(OpToRel(<, Nat), Nat)
  BY NatLessThanWellFounded
<1>4. PICK p \in S : \A q \in S : ~(<<q, p>> \in OpToRel(<, Nat))
  BY <1>2, <1>3, WFMin, Zenon
<1>5. ASSUME NEW q \in S
      PROVE  p <= q
  <2>1. p \in Nat /\ q \in Nat
    BY <1>2
  <2>2. ~(<<q, p>> \in OpToRel(<, Nat))
    BY <1>4, Zenon
  <2>3. ~(q < p)
    BY <2>1, <2>2 DEF OpToRel
  <2>4. QED
    BY <2>1, <2>3
<1>6. p \in Powers /\ p >= n /\ \A q \in Powers : q >= n => p <= q
  BY <1>5
<1>7. /\ PowerOf2Ceil(n) \in Powers /\ PowerOf2Ceil(n) >= n
      /\ \A q \in Powers : q >= n => PowerOf2Ceil(n) <= q
  BY <1>6 DEF PowerOf2Ceil
<1>8. PowerOf2Ceil(n) \in Nat /\ PowerOf2Ceil(n) <= MaxStack
  <2>1. PowerOf2Ceil(n) \in Nat
    BY <1>1, <1>7
  <2>2. MaxStack \in Powers /\ MaxStack >= n
    BY <1>1, MaxStackNat
  <2>3. QED
    BY <2>1, <2>2, <1>7
<1>9. n \in Nat /\ MaxStack \in Nat /\ n <= PowerOf2Ceil(n)
  <2> DEFINE c == PowerOf2Ceil(n)
  <2>1. c \in Nat /\ c >= n /\ n \in Nat
    BY <1>1, <1>7, <1>8
  <2> HIDE DEF c
  <2>2. n <= c
    BY <2>1
  <2>3. QED
    BY <2>1, <2>2, MaxStackNat DEF c
<1>10. QED
  <2> DEFINE c == PowerOf2Ceil(n)
  <2>1. c \in Nat /\ n <= c /\ c <= MaxStack /\ n \in Nat /\ MaxStack \in Nat
    BY <1>8, <1>9
  <2> HIDE DEF c
  <2>2. c \in n .. MaxStack
    BY <2>1
  <2>3. QED
    BY <2>2 DEF c

(* What the bounds of the sequence of frames say of each of them. *)
LEMMA FrameTypes ==
  ASSUME TypeOK
  PROVE  /\ Top \in Nat /\ frames \in [1 .. Top -> Frame]
         /\ \A i \in 1 .. Top : /\ frames[i].fn \in Fn /\ frames[i].rbp \in Pointer
                                /\ frames[i].rbp.slot \in Nat /\ Reach(i) \in Nat
<1>1. Top \in Nat /\ frames \in [1 .. Top -> Frame]
  <2>1. frames \in Seq(Frame)
    BY DEF TypeOK, Frame
  <2>2. QED
    BY <2>1 DEF Top
<1>2. ASSUME NEW i \in 1 .. Top
      PROVE  /\ frames[i].fn \in Fn /\ frames[i].rbp \in Pointer
             /\ frames[i].rbp.slot \in Nat /\ Reach(i) \in Nat
  <2>1. frames[i] \in Frame
    BY <1>1
  <2>2. /\ frames[i].fn \in Fn /\ frames[i].rbp \in Pointer /\ frames[i].rbp.slot \in Nat
    BY <2>1 DEF Frame, Pointer
  <2>3. QED
    BY <2>2, CallStackAssumption, MaxStackNat DEF Reach
<1>3. QED
  BY <1>1, <1>2

-----------------------------------------------------------------------------
(* The pointers, when the stack moves. *)

LEMMA MovedPointer ==
  ASSUME NEW p \in Pointer, NEW b \in Block, stack \in Block
  PROVE  /\ Moved(p, b) \in Pointer /\ Moved(p, b).slot = p.slot
         /\ Live(p) => Moved(p, b).block = b
BY CallStackAssumption, MaxStackNat DEF Moved, Pointer, Live

LEMMA MovedFrames ==
  ASSUME TypeOK, NEW b \in Block
  PROVE  /\ FramesMoved(b) \in Seq(Frame) /\ Len(FramesMoved(b)) = Top
         /\ \A i \in 1 .. Top :
              /\ FramesMoved(b)[i].fn = frames[i].fn
              /\ FramesMoved(b)[i].rbp = Moved(frames[i].rbp, b)
              /\ FramesMoved(b)[i].rbp.slot = frames[i].rbp.slot
<1>1. \A i \in 1 .. Top : /\ frames[i] \in Frame
                          /\ Moved(frames[i].rbp, b) \in Pointer
                          /\ Moved(frames[i].rbp, b).slot = frames[i].rbp.slot
  BY FrameTypes, MovedPointer DEF TypeOK
<1>2. \A i \in 1 .. Top :
        LET m == [frames[i] EXCEPT !.rbp = Moved(@, b)]
        IN  m \in Frame /\ m.fn = frames[i].fn /\ m.rbp = Moved(frames[i].rbp, b)
  BY <1>1 DEF Frame
<1>3. FramesMoved(b) \in [1 .. Top -> Frame]
  BY <1>2 DEF FramesMoved
<1>4. FramesMoved(b) \in Seq(Frame) /\ Len(FramesMoved(b)) = Top
  BY <1>3, FrameTypes
<1>5. QED
  BY <1>1, <1>2, <1>4 DEF FramesMoved

(* The stack has room for what the call needs, and never shrinks. *)
LEMMA GrowMakesRoom ==
  ASSUME TypeOK, NEW f \in Fn, NEW slot \in Nat, NEW b \in Block, GrowStack(f, slot, b)
  PROVE  /\ stack' = b
         /\ stack_size' \in 1 .. MaxStack /\ stack_size <= stack_size'
         /\ StackSize[f] + slot <= stack_size'
<1>1. Needed(f, slot) = StackSize[f] + slot /\ Needed(f, slot) \in Nat
  BY CallStackAssumption, MaxStackNat DEF Needed
<1>2. Needed(f, slot) <= MaxStack /\ stack' = b
  BY DEF GrowStack
<1>3. CASE stack_size <= Needed(f, slot)
  <2>1. stack_size' = PowerOf2Ceil(Needed(f, slot))
    BY <1>3 DEF GrowStack
  <2>2. PowerOf2Ceil(Needed(f, slot)) \in Needed(f, slot) .. MaxStack
    BY <1>1, <1>2, RoundsUp, CallStackAssumption, MaxStackNat
  <2>3. QED
    BY <1>1, <1>2, <1>3, <2>1, <2>2, CallStackAssumption, MaxStackNat DEF TypeOK
<1>4. CASE ~(stack_size <= Needed(f, slot))
  <2>1. stack_size' = stack_size
    BY <1>4 DEF GrowStack
  <2>2. QED
    BY <1>1, <1>2, <1>4, <2>1, CallStackAssumption, MaxStackNat DEF TypeOK
<1>5. QED
  BY <1>3, <1>4

-----------------------------------------------------------------------------
LEMMA InitInvariant == Init => IInv
<1> SUFFICES ASSUME Init
             PROVE  IInv
  OBVIOUS
<1>1. PICK f \in Fn :
        /\ stack \in Block
        /\ stack_size = Larger(MIN_STACK_SIZE, PowerOf2Ceil(StackSize[f] + 1))
        /\ ret = Ptr(0)
        /\ sp = Ptr(1 + Arity[f])
        /\ frames = <<[fn |-> f, rbp |-> ret]>>
        /\ frame_capacity = INITIAL_CALL_FRAMES
  BY DEF Init
<1>2. /\ Arity[f] \in Nat /\ StackSize[f] \in Nat /\ Arity[f] <= StackSize[f]
      /\ StackSize[f] + 1 \in 0 .. MaxStack
  BY CallStackAssumption, MaxStackNat
<1>3. PowerOf2Ceil(StackSize[f] + 1) \in StackSize[f] + 1 .. MaxStack
  BY <1>2, RoundsUp
<1>4. stack_size \in StackSize[f] + 1 .. MaxStack
  BY <1>1, <1>2, <1>3, CallStackAssumption, MaxStackNat DEF Larger
<1>5. /\ ret = [block |-> stack, slot |-> 0]
      /\ sp = [block |-> stack, slot |-> 1 + Arity[f]]
  BY <1>1 DEF Ptr
<1>6. ret \in Pointer /\ sp \in Pointer /\ ret.slot = 0 /\ sp.slot = 1 + Arity[f] /\ Live(ret)
  BY <1>1, <1>2, <1>5 DEF Pointer, Live
<1>7. /\ Top = 1 /\ frames[1].fn = f /\ frames[1].rbp = ret /\ Base = ret
      /\ Reach(1) = 1 + StackSize[f]
      /\ frames \in Seq(Frame)
  BY <1>1, <1>2, <1>6 DEF Frame, Top, Base, Reach
<1>8. TypeOK
  BY <1>1, <1>2, <1>4, <1>6, <1>7, CallStackAssumption, MaxStackNat DEF TypeOK, Frame
<1>9. RoomForFrames /\ FramesStacked
  BY <1>2, <1>4, <1>6, <1>7, CallStackAssumption, MaxStackNat DEF RoomForFrames, FramesStacked
<1>10. QED
  BY <1>6, <1>8, <1>9 DEF IInv

(* The stack pointer moves in the slots of the last frame. *)
LEMMA SlotKeeps ==
  ASSUME IInv, NEW n \in Nat, Top > 0 => n \in Base.slot + 1 .. Reach(Top), sp' = Ptr(n),
         ret' \in Pointer, Live(ret)',
         UNCHANGED <<stack, stack_size, frames, frame_capacity>>
  PROVE  IInv'
<1>1. sp' \in Pointer /\ sp'.slot = n
  BY DEF IInv, TypeOK, Ptr, Pointer
<1>2. TypeOK'
  BY <1>1 DEF IInv, TypeOK, Pointer, Top
<1>3. RoomForFrames' /\ FramesStacked'
  BY <1>1 DEF IInv, RoomForFrames, FramesStacked, Top, Base, Reach
<1>4. QED
  BY <1>2, <1>3 DEF IInv

LEMMA PushKeeps == ASSUME IInv, Push PROVE IInv'
<1>1. Top \in Nat /\ Top > 0 /\ sp.slot \in Nat /\ Base.slot \in Nat /\ Reach(Top) \in Nat
  BY FrameTypes DEF IInv, TypeOK, Pointer, Push, Running, Base
<1>2. sp.slot + 1 \in Nat /\ sp.slot + 1 \in Base.slot + 1 .. Reach(Top)
  BY <1>1 DEF Push, IInv, FramesStacked
<1>3. ret' \in Pointer /\ Live(ret)'
  BY DEF Push, IInv, TypeOK, Live
<1>4. QED
  BY <1>2, <1>3, SlotKeeps DEF Push

LEMMA PopKeeps == ASSUME IInv, Pop PROVE IInv'
<1>1. Top \in Nat /\ Top > 0 /\ sp.slot \in Nat /\ Base.slot \in Nat /\ Reach(Top) \in Nat
  BY FrameTypes DEF IInv, TypeOK, Pointer, Pop, Running, Base
<1>2. sp.slot - 1 \in Nat /\ sp.slot - 1 \in Base.slot + 1 .. Reach(Top)
  BY <1>1 DEF Pop, IInv, FramesStacked
<1>3. ret' \in Pointer /\ Live(ret)'
  BY DEF Pop, IInv, TypeOK, Live
<1>4. QED
  BY <1>2, <1>3, SlotKeeps DEF Pop

(* The callable and its arguments are slots of the last frame. *)
LEMMA Operands ==
  ASSUME IInv, NEW n \in Nat, HasOperands(n)
  PROVE  /\ Top \in Nat /\ Top > 0 /\ Live(sp)
         /\ sp.slot \in Nat /\ Base.slot \in Nat /\ Reach(Top) \in Nat
         /\ sp.slot \in Base.slot + n + 2 .. Reach(Top)
         /\ Callable(n) \in Pointer /\ Live(Callable(n))
         /\ Callable(n).slot = sp.slot - n - 1
<1>1. /\ Top \in Nat /\ Top > 0 /\ Live(sp)
      /\ sp.slot \in Nat /\ Base.slot \in Nat /\ Reach(Top) \in Nat
  BY FrameTypes DEF IInv, TypeOK, Pointer, HasOperands, Running, Base
<1>2. sp.slot \in Base.slot + n + 2 .. Reach(Top)
  BY <1>1 DEF HasOperands, IInv, FramesStacked
<1>3. sp.slot - n - 1 \in Nat
  BY <1>1, <1>2
<1>4. QED
  BY <1>1, <1>2, <1>3 DEF Callable, Ptr, Pointer, Live, IInv, TypeOK

LEMMA CallNativeKeeps ==
  ASSUME IInv, NEW n \in 0 .. MaxArgc, CallNative(n)
  PROVE  IInv'
<1>1. n \in Nat /\ HasOperands(n)
  BY CallStackAssumption, MaxStackNat DEF CallNative
<1>2. /\ sp.slot - n \in Nat /\ sp.slot - n \in Base.slot + 1 .. Reach(Top)
      /\ Callable(n) \in Pointer /\ Live(Callable(n))
  BY <1>1, Operands
<1>3. ret' \in Pointer /\ Live(ret)'
  BY <1>2 DEF CallNative, Live
<1>4. QED
  BY <1>2, <1>3, SlotKeeps DEF CallNative

-----------------------------------------------------------------------------
(* A call: the new frame begins in what its caller pushed. *)
LEMMA PushCallFrameKeeps ==
  ASSUME IInv, NEW f \in Fn, NEW slot \in Nat, NEW r \in Pointer, NEW rbp \in Pointer,
         Top > 0, Live(r),
         rbp.slot \in Base.slot + 1 .. Reach(Top) - 1,
         slot \in rbp.slot + 1 .. rbp.slot + 1 + StackSize[f],
         PushCallFrame(f, slot, r, rbp)
  PROVE  IInv'
<1>1. PICK b \in Block :
        /\ GrowStack(f, slot, b)
        /\ sp' = Moved(Ptr(slot), b)
        /\ ret' = Moved(r, b)
        /\ frames' = Append(FramesMoved(b), [fn |-> f, rbp |-> rbp])
  BY DEF PushCallFrame
<1>2. /\ stack' = b /\ stack_size' \in 1 .. MaxStack /\ stack_size <= stack_size'
      /\ StackSize[f] + slot <= stack_size' /\ StackSize[f] \in Nat
  BY <1>1, GrowMakesRoom, CallStackAssumption, MaxStackNat DEF IInv
<1>3. /\ Ptr(slot) \in Pointer /\ Ptr(slot).slot = slot /\ stack \in Block
      /\ Top \in Nat /\ rbp.slot \in Nat
  BY FrameTypes DEF Ptr, Pointer, IInv, TypeOK
<1>4. /\ sp' \in Pointer /\ sp'.slot = slot /\ ret' \in Pointer /\ Live(ret)'
  <2>1. sp' \in Pointer /\ sp'.slot = slot
    BY <1>1, <1>3, MovedPointer
  <2>2. ret' \in Pointer /\ ret'.block = b
    BY <1>1, <1>3, MovedPointer
  <2>3. QED
    BY <1>2, <2>1, <2>2 DEF Live
<1>5. /\ frames' \in Seq(Frame) /\ Len(frames') = Top + 1
      /\ frames'[Top + 1] = [fn |-> f, rbp |-> rbp]
      /\ \A i \in 1 .. Top : /\ frames'[i].fn = frames[i].fn
                             /\ frames'[i].rbp.slot = frames[i].rbp.slot
  <2>1. PICK g : g = FramesMoved(b)
    OBVIOUS
  <2>2. PICK k : k = Top
    OBVIOUS
  <2>3. g \in Seq(Frame) /\ Len(g) = k /\ k \in Nat
    BY <1>3, <2>1, <2>2, MovedFrames DEF IInv
  <2>4. [fn |-> f, rbp |-> rbp] \in Frame
    BY DEF Frame
  <2>5. /\ frames' \in Seq(Frame) /\ Len(frames') = k + 1
        /\ frames'[k + 1] = [fn |-> f, rbp |-> rbp]
        /\ \A i \in 1 .. k : frames'[i] = g[i]
    BY <1>1, <2>1, <2>3, <2>4
  <2>6. QED
    BY <2>1, <2>2, <2>5, MovedFrames DEF IInv
<1>6. /\ Top' = Top + 1
      /\ \A i \in 1 .. Top : End(frames'[i]) = Reach(i)
      /\ End(frames'[Top + 1])
           = rbp.slot + 1 + StackSize[f]
  BY <1>5 DEF Top, Reach, End
<1>7. TypeOK'
  <2>1. frame_capacity' \in Nat /\ Top + 1 <= frame_capacity'
    BY <1>3 DEF PushCallFrame, ReserveFrame, IInv, TypeOK
  <2>2. QED
    BY <1>1, <1>2, <1>4, <1>5, <1>6, <2>1 DEF TypeOK, Frame, Pointer
<1>8. RoomForFrames'
  <2>1. \A i \in 1 .. Top + 1 :
          End(frames'[i]) <= stack_size'
    <3> SUFFICES ASSUME NEW i \in 1 .. Top + 1
                 PROVE  End(frames'[i]) <= stack_size'
      OBVIOUS
    <3>1. CASE i = Top + 1
      BY <1>2, <1>3, <1>6, <3>1, CallStackAssumption, MaxStackNat
    <3>2. CASE i \in 1 .. Top
      <4>1. Reach(i) <= stack_size /\ Reach(i) \in Nat
        BY <3>2, FrameTypes DEF IInv, RoomForFrames
      <4>2. QED
        BY <1>2, <1>6, <3>2, <4>1, CallStackAssumption, MaxStackNat DEF IInv, TypeOK
    <3>3. QED
      BY <1>3, <3>1, <3>2
  <2>2. QED
    BY <1>6, <2>1 DEF RoomForFrames, Reach, End
<1>9. FramesStacked'
  <2>1. \A i \in 1 .. Top :
          frames'[i + 1].rbp.slot \in
            frames'[i].rbp.slot + 1 .. End(frames'[i]) - 1
    <3> SUFFICES ASSUME NEW i \in 1 .. Top
                 PROVE  frames'[i + 1].rbp.slot \in
                          frames'[i].rbp.slot + 1
                            .. End(frames'[i]) - 1
      OBVIOUS
    <3>1. CASE i = Top
      <4>1. frames'[i + 1].rbp.slot = rbp.slot /\ frames'[i].rbp.slot = Base.slot
        BY <1>5, <3>1 DEF Base
      <4>2. QED
        BY <1>6, <3>1, <4>1
    <3>2. CASE i \in 1 .. Top - 1
      <4>1. i + 1 \in 1 .. Top
        BY <1>3, <3>2
      <4>2. frames[i + 1].rbp.slot \in frames[i].rbp.slot + 1 .. Reach(i) - 1
        BY <3>2 DEF IInv, FramesStacked
      <4>3. QED
        BY <1>5, <1>6, <4>1, <4>2
    <3>3. QED
      BY <1>3, <3>1, <3>2
  <2>2. sp'.slot \in frames'[Top + 1].rbp.slot + 1
                       .. End(frames'[Top + 1])
    BY <1>4, <1>5, <1>6
  <2>3. Top' - 1 = Top
    BY <1>3, <1>6
  <2>4. \A i \in 1 .. Top' - 1 :
          frames'[i + 1].rbp.slot \in frames'[i].rbp.slot + 1 .. End(frames'[i]) - 1
    BY <1>6, <2>1, <2>3
  <2>5. Top' > 0 => sp'.slot \in frames'[Top'].rbp.slot + 1 .. End(frames'[Top'])
    BY <1>6, <2>2
  <2>6. QED
    BY <2>4, <2>5 DEF FramesStacked, Base, Reach, End
<1>10. QED
  BY <1>4, <1>7, <1>8, <1>9 DEF IInv

LEMMA CallKeeps == ASSUME IInv, NEW f \in Fn, Call(f) PROVE IInv'
<1> DEFINE n == Arity[f]
<1>1. /\ n \in Nat /\ StackSize[f] \in Nat /\ n <= StackSize[f]
      /\ HasOperands(n) /\ PushCallFrame(f, sp.slot, Callable(n), Callable(n))
  BY CallStackAssumption, MaxStackNat DEF Call
<1> HIDE DEF n
<1>2. /\ Top \in Nat /\ Top > 0 /\ sp.slot \in Nat /\ Base.slot \in Nat /\ Reach(Top) \in Nat
      /\ sp.slot \in Base.slot + n + 2 .. Reach(Top)
      /\ Callable(n) \in Pointer /\ Live(Callable(n))
      /\ Callable(n).slot = sp.slot - n - 1
  BY <1>1, Operands
<1>3. /\ Callable(n).slot \in Base.slot + 1 .. Reach(Top) - 1
      /\ sp.slot \in Callable(n).slot + 1 .. Callable(n).slot + 1 + StackSize[f]
  BY <1>1, <1>2
<1>4. QED
  BY <1>1, <1>2, <1>3, PushCallFrameKeeps

LEMMA ImportKeeps == ASSUME IInv, NEW f \in Fn, Import(f) PROVE IInv'
<1>1. /\ StackSize[f] \in Nat /\ PushCallFrame(f, sp.slot + 1, ret, Ptr(sp.slot))
      /\ sp.slot < Reach(Top) /\ Running
  BY CallStackAssumption, MaxStackNat DEF Import
<1>2. /\ Top \in Nat /\ Top > 0 /\ sp.slot \in Nat /\ Base.slot \in Nat /\ Reach(Top) \in Nat
      /\ ret \in Pointer /\ Live(ret) /\ sp.slot > Base.slot
  BY <1>1, FrameTypes DEF IInv, TypeOK, Pointer, Running, Base, FramesStacked
<1>3. Ptr(sp.slot) \in Pointer /\ Ptr(sp.slot).slot = sp.slot
  BY <1>2 DEF Ptr, Pointer, IInv, TypeOK
<1>4. /\ sp.slot + 1 \in Nat
      /\ Ptr(sp.slot).slot \in Base.slot + 1 .. Reach(Top) - 1
      /\ sp.slot + 1 \in Ptr(sp.slot).slot + 1 .. Ptr(sp.slot).slot + 1 + StackSize[f]
  BY <1>1, <1>2, <1>3
<1>5. QED
  BY <1>1, <1>2, <1>3, <1>4, PushCallFrameKeeps

(* A tail call has its frame where that of its caller was. *)
LEMMA TailCallKeeps == ASSUME IInv, NEW f \in Fn, TailCall(f) PROVE IInv'
<1> DEFINE n == Arity[f]
           slot == Base.slot + 1 + n
<1>1. n \in Nat /\ StackSize[f] \in Nat /\ n <= StackSize[f] /\ HasOperands(n)
  BY CallStackAssumption, MaxStackNat DEF TailCall
<1>2. PICK b \in Block :
        /\ GrowStack(f, slot, b)
        /\ sp' = Moved(Ptr(slot), b)
        /\ ret' = Moved(Callable(n), b)
        /\ frames' = [FramesMoved(b) EXCEPT ![Top].fn = f]
        /\ frame_capacity' = frame_capacity
  BY DEF TailCall
<1> HIDE DEF n
<1>3. /\ Top \in Nat /\ Top > 0 /\ Base.slot \in Nat /\ slot \in Nat
      /\ Callable(n) \in Pointer /\ Live(Callable(n))
  BY <1>1, Operands
<1> HIDE DEF slot
<1>4. slot \in Base.slot + 1 .. Base.slot + 1 + StackSize[f]
  BY <1>1, <1>3 DEF slot
<1>5. /\ stack' = b /\ stack_size' \in 1 .. MaxStack /\ stack_size <= stack_size'
      /\ StackSize[f] + slot <= stack_size'
  BY <1>2, <1>3, GrowMakesRoom DEF IInv
<1>6. /\ sp' \in Pointer /\ sp'.slot = slot /\ ret' \in Pointer /\ Live(ret)'
  <2>1. Ptr(slot) \in Pointer /\ Ptr(slot).slot = slot /\ stack \in Block
    BY <1>3 DEF Ptr, Pointer, IInv, TypeOK
  <2>2. sp' \in Pointer /\ sp'.slot = slot /\ ret' \in Pointer /\ ret'.block = b
    BY <1>2, <1>3, <2>1, MovedPointer
  <2>3. QED
    BY <1>5, <2>2 DEF Live
<1>7. /\ frames' \in Seq(Frame) /\ Len(frames') = Top
      /\ frames'[Top].fn = f /\ frames'[Top].rbp.slot = Base.slot
      /\ \A i \in 1 .. Top - 1 : frames'[i].fn = frames[i].fn
      /\ \A i \in 1 .. Top : frames'[i].rbp.slot = frames[i].rbp.slot
  <2>1. PICK g : g = FramesMoved(b)
    OBVIOUS
  <2>2. PICK k : k = Top
    OBVIOUS
  <2>3. g \in Seq(Frame) /\ Len(g) = k /\ k \in Nat /\ k > 0
    BY <1>3, <2>1, <2>2, MovedFrames DEF IInv
  <2>4. g[k] \in Frame
    BY <2>3
  <2>5. [g[k] EXCEPT !.fn = f] \in Frame /\ [g[k] EXCEPT !.fn = f].fn = f
        /\ [g[k] EXCEPT !.fn = f].rbp = g[k].rbp
    BY <2>4 DEF Frame
  <2>6. frames' = [g EXCEPT ![k] = [g[k] EXCEPT !.fn = f]]
    BY <1>2, <2>1, <2>2
  <2>7. /\ frames' \in Seq(Frame) /\ Len(frames') = k
        /\ frames'[k] = [g[k] EXCEPT !.fn = f]
        /\ \A i \in 1 .. k : i # k => frames'[i] = g[i]
    BY <2>3, <2>5, <2>6
  <2>8. \A i \in 1 .. k : /\ g[i].fn = frames[i].fn
                          /\ g[i].rbp.slot = frames[i].rbp.slot
    BY <2>1, <2>2, MovedFrames DEF IInv
  <2>9. \A i \in 1 .. k - 1 : i # k /\ i \in 1 .. k
    BY <2>3
  <2>10. ASSUME NEW i \in 1 .. k
         PROVE  frames'[i].rbp.slot = frames[i].rbp.slot
    <3>1. frames'[i].rbp = g[i].rbp
      BY <2>5, <2>7
    <3>2. QED
      BY <2>8, <3>1
  <2>11. k \in 1 .. k
    BY <2>3
  <2>12. frames'[k].rbp.slot = frames[k].rbp.slot
    BY <2>10, <2>11
  <2>13. QED
    BY <2>2, <2>5, <2>7, <2>8, <2>9, <2>10, <2>12 DEF Base
<1>8. /\ Top' = Top
      /\ \A i \in 1 .. Top - 1 :
           End(frames'[i]) = Reach(i)
      /\ End(frames'[Top]) = Base.slot + 1 + StackSize[f]
  <2>1. \A i \in 1 .. Top - 1 : i \in 1 .. Top
    BY <1>3
  <2>2. QED
    BY <1>7, <2>1 DEF Top, Reach, End
<1>9. TypeOK'
  BY <1>2, <1>5, <1>6, <1>7, <1>8 DEF TypeOK, IInv, Frame, Pointer
<1>10. RoomForFrames'
  <2>1. \A i \in 1 .. Top :
          End(frames'[i]) <= stack_size'
    <3> SUFFICES ASSUME NEW i \in 1 .. Top
                 PROVE  End(frames'[i]) <= stack_size'
      OBVIOUS
    <3>1. CASE i = Top
      BY <1>1, <1>3, <1>4, <1>5, <1>8, <3>1, CallStackAssumption, MaxStackNat
    <3>2. CASE i \in 1 .. Top - 1
      <4>1. Reach(i) <= stack_size /\ Reach(i) \in Nat
        BY FrameTypes DEF IInv, RoomForFrames
      <4>2. QED
        BY <1>5, <1>8, <3>2, <4>1, CallStackAssumption, MaxStackNat DEF IInv, TypeOK
    <3>3. QED
      BY <1>3, <3>1, <3>2
  <2>2. QED
    BY <1>8, <2>1 DEF RoomForFrames, Reach, End
<1>11. FramesStacked'
  <2>1. \A i \in 1 .. Top - 1 :
          frames'[i + 1].rbp.slot \in
            frames'[i].rbp.slot + 1 .. End(frames'[i]) - 1
    <3> SUFFICES ASSUME NEW i \in 1 .. Top - 1
                 PROVE  frames'[i + 1].rbp.slot \in
                          frames'[i].rbp.slot + 1
                            .. End(frames'[i]) - 1
      OBVIOUS
    <3>1. i \in 1 .. Top /\ i + 1 \in 1 .. Top
      BY <1>3
    <3>2. frames[i + 1].rbp.slot \in frames[i].rbp.slot + 1 .. Reach(i) - 1
      BY DEF IInv, FramesStacked
    <3>3. QED
      BY <1>7, <1>8, <3>1, <3>2
  <2>2. sp'.slot \in frames'[Top].rbp.slot + 1
                       .. End(frames'[Top])
    BY <1>4, <1>6, <1>7, <1>8
  <2>3. \A i \in 1 .. Top' - 1 :
          frames'[i + 1].rbp.slot \in frames'[i].rbp.slot + 1 .. End(frames'[i]) - 1
    BY <1>8, <2>1
  <2>4. Top' > 0 => sp'.slot \in frames'[Top'].rbp.slot + 1 .. End(frames'[Top'])
    BY <1>8, <2>2
  <2>5. QED
    BY <2>3, <2>4 DEF FramesStacked, Base, Reach, End
<1>12. QED
  BY <1>6, <1>9, <1>10, <1>11 DEF IInv

(* The caller's slots are those it had. *)
LEMMA ReturnKeeps == ASSUME IInv, Return PROVE IInv'
<1>1. /\ Top \in Nat /\ Top > 0 /\ sp.slot \in Nat /\ Base \in Pointer /\ Base.slot \in Nat
      /\ sp.slot > Base.slot
  BY FrameTypes DEF IInv, TypeOK, Pointer, Return, Running, Base
<1>2. /\ frames' \in Seq(Frame) /\ Len(frames') = Top - 1
      /\ \A i \in 1 .. Top - 1 : frames'[i] = frames[i]
  <2>1. PICK k : k = Top - 1
    OBVIOUS
  <2>2. k \in 0 .. Len(frames) /\ frames \in Seq(Frame)
    BY <1>1, <2>1 DEF Top, IInv, TypeOK, Frame
  <2>3. frames' = SubSeq(frames, 1, k)
    BY <2>1 DEF Return
  <2>4. QED
    BY <2>1, <2>2, <2>3
<1>3. Top' = Top - 1
  BY <1>2 DEF Top
<1>4. /\ sp' \in Pointer
      /\ Top > 1 => sp'.slot = Base.slot + 1
  <2>1. CASE Top = 1
    <3>1. sp' = [block |-> stack, slot |-> sp.slot - 1] /\ sp.slot - 1 \in Nat
      BY <1>1, <2>1 DEF Return, Ptr
    <3>2. QED
      BY <2>1, <3>1 DEF Pointer, IInv, TypeOK
  <2>2. CASE Top # 1
    <3>1. sp' = [Base EXCEPT !.slot = Base.slot + 1]
      BY <2>2 DEF Return
    <3>2. QED
      BY <1>1, <3>1 DEF Pointer
  <2>3. QED
    BY <2>1, <2>2
<1>5. /\ UNCHANGED <<stack, stack_size, ret, frame_capacity>> /\ Live(ret)'
  BY DEF Return, IInv, Live
<1>6. TypeOK'
  BY <1>1, <1>2, <1>3, <1>4, <1>5 DEF IInv, TypeOK, Frame, Pointer
<1>7. \A i \in 1 .. Top - 1 :
        End(frames'[i]) = Reach(i)
  BY <1>2 DEF Reach, End
<1>8. RoomForFrames'
  <2>1. \A i \in 1 .. Top - 1 : Reach(i) <= stack_size
    BY <1>1 DEF IInv, RoomForFrames
  <2>2. QED
    BY <1>3, <1>5, <1>7, <2>1 DEF RoomForFrames, Reach, End
<1>9. FramesStacked'
  <2>1. \A i \in 1 .. Top - 1 - 1 :
          frames'[i + 1].rbp.slot \in
            frames'[i].rbp.slot + 1 .. End(frames'[i]) - 1
    <3> SUFFICES ASSUME NEW i \in 1 .. Top - 1 - 1
                 PROVE  frames'[i + 1].rbp.slot \in
                          frames'[i].rbp.slot + 1
                            .. End(frames'[i]) - 1
      OBVIOUS
    <3>1. i \in 1 .. Top - 1 /\ i + 1 \in 1 .. Top - 1
      BY <1>1
    <3>2. frames[i + 1].rbp.slot \in frames[i].rbp.slot + 1 .. Reach(i) - 1
      BY <3>1 DEF IInv, FramesStacked
    <3>3. QED
      BY <1>2, <1>7, <3>1, <3>2
  <2>2. ASSUME Top - 1 > 0
        PROVE  sp'.slot \in frames'[Top - 1].rbp.slot + 1
                 .. End(frames'[Top - 1])
    <3>1. Top - 1 \in 1 .. Top - 1 /\ Top - 1 + 1 = Top
      BY <1>1, <2>2
    <3>2. Base.slot \in frames[Top - 1].rbp.slot + 1 .. Reach(Top - 1) - 1
      BY <3>1 DEF IInv, FramesStacked, Base
    <3>3. Reach(Top - 1) \in Nat /\ frames[Top - 1].rbp.slot \in Nat
      BY <1>1, <3>1, FrameTypes DEF IInv
    <3>4. sp'.slot = Base.slot + 1
      BY <1>1, <1>4, <2>2
    <3>5. QED
      BY <1>1, <1>2, <1>7, <3>1, <3>2, <3>3, <3>4
  <2>3. \A i \in 1 .. Top' - 1 :
          frames'[i + 1].rbp.slot \in frames'[i].rbp.slot + 1 .. End(frames'[i]) - 1
    BY <1>3, <2>1
  <2>4. Top' > 0 => sp'.slot \in frames'[Top'].rbp.slot + 1 .. End(frames'[Top'])
    BY <1>3, <2>2
  <2>5. QED
    BY <2>3, <2>4 DEF FramesStacked, Base, Reach, End
<1>10. QED
  BY <1>5, <1>6, <1>8, <1>9 DEF IInv

LEMMA NextKeeps == IInv /\ [Next]_vars => IInv'
<1> SUFFICES ASSUME IInv, [Next]_vars
             PROVE  IInv'
  OBVIOUS
<1>1. CASE Push \/ Pop \/ Return
  BY <1>1, PushKeeps, PopKeeps, ReturnKeeps
<1>2. CASE \E f \in Fn : Call(f) \/ TailCall(f) \/ Import(f)
  BY <1>2, CallKeeps, TailCallKeeps, ImportKeeps
<1>3. CASE \E n \in 0 .. MaxArgc : CallNative(n)
  BY <1>3, CallNativeKeeps
<1>4. CASE UNCHANGED vars
  BY <1>4 DEF vars, IInv, TypeOK, RoomForFrames, FramesStacked, Live, Top, Base, Reach
<1>5. QED
  BY <1>1, <1>2, <1>3, <1>4 DEF Next

THEOREM Invariant == Spec => []IInv
BY InitInvariant, NextKeeps, PTL DEF Spec

(* The pointers and the frames keep their types, and the array of frames    *)
(* has room for them.                                                       *)
THEOREM TypeCorrect == Spec => []TypeOK
<1>1. IInv => TypeOK
  BY DEF IInv
<1>2. QED
  BY <1>1, Invariant, PTL

(* The stack has room for every slot of every frame: no code the compiler   *)
(* counted the slots of pushes a value past the end of the stack.           *)
THEOREM Room == Spec => []RoomForFrames
<1>1. IInv => RoomForFrames
  BY DEF IInv
<1>2. QED
  BY <1>1, Invariant, PTL

(* Frames are stacked: a callee's slots begin in what its caller pushed.    *)
THEOREM Stacked == Spec => []FramesStacked
<1>1. IInv => FramesStacked
  BY DEF IInv
<1>2. QED
  BY <1>1, Invariant, PTL

-----------------------------------------------------------------------------
(* The pointers follow the stack. *)

Follow ==
  /\ \A i \in DOMAIN frames \cap DOMAIN frames' :
       Live(frames[i].rbp) => /\ Live(frames[i].rbp)'
                              /\ frames'[i].rbp.slot = frames[i].rbp.slot
  /\ Live(ret)'

LEMMA SameFramesFollow ==
  ASSUME Live(ret)', UNCHANGED <<stack, frames>>
  PROVE  Follow
BY DEF Follow, Live

(* The frames that are there, when the stack moves to b. *)
LEMMA MovedFollow ==
  ASSUME TypeOK, NEW b \in Block, stack' = b, Live(ret)',
         \A i \in 1 .. Top : frames'[i].rbp = FramesMoved(b)[i].rbp
  PROVE  Follow
<1>1. stack \in Block /\ DOMAIN frames = 1 .. Top
  BY FrameTypes DEF TypeOK
<1>2. ASSUME NEW i \in 1 .. Top, Live(frames[i].rbp)
      PROVE  Live(frames[i].rbp)' /\ frames'[i].rbp.slot = frames[i].rbp.slot
  <2>1. frames'[i].rbp = Moved(frames[i].rbp, b) /\ frames[i].rbp \in Pointer
    BY MovedFrames, FrameTypes
  <2>2. frames'[i].rbp.block = b /\ frames'[i].rbp.slot = frames[i].rbp.slot
    BY <1>1, <1>2, <2>1, MovedPointer
  <2>3. QED
    BY <2>2 DEF Live
<1>3. QED
  BY <1>1, <1>2 DEF Follow

LEMMA PushCallFrameFollows ==
  ASSUME IInv, IInv', NEW f, NEW slot, NEW r, NEW rbp, PushCallFrame(f, slot, r, rbp)
  PROVE  Follow
<1>1. PICK b \in Block :
        stack' = b /\ frames' = Append(FramesMoved(b), [fn |-> f, rbp |-> rbp])
  BY DEF PushCallFrame, GrowStack
<1>2. \A i \in 1 .. Top : frames'[i].rbp = FramesMoved(b)[i].rbp
  BY <1>1, MovedFrames DEF IInv
<1>3. QED
  BY <1>1, <1>2, MovedFollow DEF IInv

LEMMA TailCallFollows ==
  ASSUME IInv, IInv', NEW f \in Fn, TailCall(f)
  PROVE  Follow
<1>1. PICK b \in Block :
        stack' = b /\ frames' = [FramesMoved(b) EXCEPT ![Top].fn = f]
  BY DEF TailCall, GrowStack
<1>2. ASSUME NEW i \in 1 .. Top
      PROVE  frames'[i].rbp = FramesMoved(b)[i].rbp
  <2>1. PICK g : g = FramesMoved(b)
    OBVIOUS
  <2>2. g \in Seq(Frame) /\ Len(g) = Top /\ g[i] \in Frame /\ Top \in Nat
    BY <2>1, MovedFrames, FrameTypes DEF IInv
  <2>3. frames' = [g EXCEPT ![Top] = [g[Top] EXCEPT !.fn = f]]
    BY <1>1, <2>1
  <2>4. [g[i] EXCEPT !.fn = f].rbp = g[i].rbp
    BY <2>2 DEF Frame
  <2>5. frames'[i] = g[i] \/ frames'[i] = [g[i] EXCEPT !.fn = f]
    BY <2>2, <2>3
  <2>6. QED
    BY <2>1, <2>4, <2>5
<1>3. QED
  BY <1>1, <1>2, MovedFollow DEF IInv

LEMMA ReturnFollows ==
  ASSUME IInv, IInv', Return
  PROVE  Follow
<1>1. PICK k : k = Top - 1
  OBVIOUS
<1>2. frames \in Seq(Frame) /\ k \in 0 .. Len(frames) /\ frames' = SubSeq(frames, 1, k)
  BY <1>1, FrameTypes DEF IInv, TypeOK, Frame, Return, Running, Top
<1>3. DOMAIN frames' = 1 .. k /\ \A i \in 1 .. k : frames'[i] = frames[i]
  BY <1>2
<1>4. stack' = stack
  BY DEF Return
<1>5. QED
  BY <1>3, <1>4 DEF Follow, IInv, Live

(* When the stack is moved the frames that are on it, and the return        *)
(* pointer, are moved with it: only the frame that is being pushed is not.  *)
THEOREM Follows == Spec => PointersFollow
<1>1. IInv /\ IInv' /\ [Next]_vars => [Follow]_vars
  <2> SUFFICES ASSUME IInv, IInv', Next
               PROVE  Follow
    OBVIOUS
  <2>1. CASE Push \/ Pop \/ \E n \in 0 .. MaxArgc : CallNative(n)
    BY <2>1, SameFramesFollow DEF Push, Pop, CallNative, IInv
  <2>2. CASE Return
    BY <2>2, ReturnFollows
  <2>3. CASE \E f \in Fn : Call(f) \/ Import(f)
    BY <2>3, PushCallFrameFollows DEF Call, Import
  <2>4. CASE \E f \in Fn : TailCall(f)
    BY <2>4, TailCallFollows
  <2>5. QED
    BY <2>1, <2>2, <2>3, <2>4 DEF Next
<1>2. Spec => [][Follow]_vars
  BY <1>1, Invariant, PTL DEF Spec
<1>3. QED
  BY <1>2 DEF PointersFollow, Follow
=============================================================================
