----------------------------- MODULE CallStack -----------------------------
(***************************************************************************)
(* The value stack and the call frames of one fiber, and the pointers into *)
(* the stack: newFiber(), growStack(), pushCallFrame(), reuseCallFrame()   *)
(* and the instructions of runFiber() that move the stack pointer.         *)
(*                                                                         *)
(* growStack() may move the stack: a pointer is the block it points into   *)
(* and the slot there.  A pointer into a block that was freed is stale;    *)
(* what the program does once it uses one is undefined, and is left out.   *)
(* So are the values in the slots.                                         *)
(***************************************************************************)
EXTENDS Integers, Sequences

CONSTANTS
  Fn,                   (* the compiled functions, with their parameters    *)
  Arity, StackSize,     (* and the slots they need, the parameters included *)
  Block,                (* the blocks of memory realloc() can give          *)
  Wild,                 (* a pointer computed from a stale one              *)
  MIN_STACK_SIZE, INITIAL_CALL_FRAMES,
  MaxLog, MaxFrames,    (* bounds: the log of the stack's size, the frames, *)
  MaxArgc               (* and the arguments of a native                    *)

(* utilPowerOf2Ceil() *)
Powers == {2^k : k \in 0 .. MaxLog}

PowerOf2Ceil(n) == CHOOSE p \in Powers : p >= n /\ \A q \in Powers : q >= n => p <= q

MaxStack == 2^MaxLog

ASSUME CallStackAssumption ==
  /\ Arity \in [Fn -> Nat] /\ StackSize \in [Fn -> Nat]
  /\ \A f \in Fn : Arity[f] <= StackSize[f] /\ StackSize[f] < MaxStack
  /\ Wild \notin Block
  /\ MIN_STACK_SIZE \in Nat /\ MIN_STACK_SIZE <= MaxStack
  /\ INITIAL_CALL_FRAMES \in Nat \ {0}
  /\ MaxLog \in Nat /\ MaxFrames \in Nat /\ MaxArgc \in Nat

VARIABLES
  stack, stack_size,    (* the block of the stack, and its slots            *)
  sp, ret,              (* the stack pointer, the last call's return value  *)
  frames,
  frame_capacity

vars == <<stack, stack_size, sp, ret, frames, frame_capacity>>

Ptr(n) == [block |-> stack, slot |-> n]

Live(p) == p.block = stack

Top  == Len(frames)
Base == frames[Top].rbp

(* The slots of a frame end here: the compiler counted what its code pushes. *)
Reach(i) == frames[i].rbp.slot + 1 + StackSize[frames[i].fn]

Larger(m, n) == IF m < n THEN n ELSE m

-----------------------------------------------------------------------------
(* newFiber(), and vmPrepareFiber() that pushes the parameters. *)
Init ==
  \E f \in Fn :
    /\ stack \in Block
    /\ stack_size = Larger(MIN_STACK_SIZE, PowerOf2Ceil(StackSize[f] + 1))
    /\ ret = Ptr(0)
    /\ sp = Ptr(1 + Arity[f])
    /\ frames = <<[fn |-> f, rbp |-> ret]>>
    /\ frame_capacity = INITIAL_CALL_FRAMES

(* MAP_PTR() of growStack(): the pointer p, when the stack is moved to b. *)
Moved(p, b) ==
  IF b = stack THEN p
  ELSE [p EXCEPT !.block = IF Live(p) THEN b ELSE Wild]

(* A fault: only the frame that calls is moved.  (The definitions said to   *)
(* be faults are only there to see that the properties below detect them.)  *)
TopFrameMoved(b) == [frames EXCEPT ![Top].rbp = Moved(@, b)]

FramesMoved(b) == [i \in 1 .. Top |-> [frames[i] EXCEPT !.rbp = Moved(@, b)]]

(* A fault: what is on the stack already is not counted. *)
NeededByItself(f, slot) == StackSize[f] + 1

Needed(f, slot) == StackSize[f] + slot

(* The stack grows for a call of f, the stack pointer at the slot, and is   *)
(* then in the block b.                                                     *)
GrowStack(f, slot, b) ==
  LET needed == Needed(f, slot)
  IN  /\ needed <= MaxStack
      /\ stack' = b
      /\ IF stack_size <= needed
         THEN stack_size' = PowerOf2Ceil(needed)
         ELSE b = stack /\ UNCHANGED stack_size

ReserveFrame ==
  frame_capacity' = IF Top + 1 > frame_capacity THEN 2 * frame_capacity ELSE frame_capacity

(* pushCallFrame(), once the stack pointer is at the slot and the return    *)
(* pointer is r.  The new frame's rbp is not moved.                         *)
PushCallFrame(f, slot, r, rbp) ==
  /\ Top < MaxFrames
  /\ ReserveFrame
  /\ \E b \in Block :
       /\ GrowStack(f, slot, b)
       /\ sp' = Moved(Ptr(slot), b)
       /\ ret' = Moved(r, b)
       /\ frames' = Append(FramesMoved(b), [fn |-> f, rbp |-> rbp])

-----------------------------------------------------------------------------
(* The instructions: the fiber runs until its first frame returns, or until *)
(* its stack pointer is one into a freed block.                             *)
Running == Top > 0 /\ Live(sp)

Push ==
  /\ Running
  /\ sp.slot < Reach(Top)
  /\ sp' = Ptr(sp.slot + 1)
  /\ UNCHANGED <<stack, stack_size, ret, frames, frame_capacity>>

Pop ==
  /\ Running
  /\ sp.slot > Base.slot + 1
  /\ sp' = Ptr(sp.slot - 1)
  /\ UNCHANGED <<stack, stack_size, ret, frames, frame_capacity>>

(* The callable, under its n arguments. *)
Callable(n) == Ptr(sp.slot - n - 1)

HasOperands(n) == Running /\ sp.slot - n - 1 > Base.slot

(* OP_CALL *)
Call(f) ==
  /\ HasOperands(Arity[f])
  /\ PushCallFrame(f, sp.slot, Callable(Arity[f]), Callable(Arity[f]))

CallNative(n) ==
  /\ HasOperands(n)
  /\ ret' = Callable(n)
  /\ sp' = Ptr(sp.slot - n)
  /\ UNCHANGED <<stack, stack_size, frames, frame_capacity>>

(* OP_TAIL_CALL: reuseCallFrame().  A fault: the arguments stay where they  *)
(* are.                                                                     *)
TailCallInPlace(f) ==
  /\ HasOperands(Arity[f]) /\ Live(Base)
  /\ \E b \in Block :
       /\ GrowStack(f, sp.slot, b)
       /\ sp' = Moved(sp, b)
       /\ ret' = Moved(Callable(Arity[f]), b)
       /\ frames' = [FramesMoved(b) EXCEPT ![Top].fn = f]
  /\ UNCHANGED frame_capacity

TailCall(f) ==
  /\ HasOperands(Arity[f]) /\ Live(Base)
  /\ LET target == Base.slot + 1 + Arity[f]
     IN  \E b \in Block :
           /\ GrowStack(f, target, b)
           /\ sp' = Moved(Ptr(target), b)
           /\ ret' = Moved(Callable(Arity[f]), b)
           /\ frames' = [FramesMoved(b) EXCEPT ![Top].fn = f]
  /\ UNCHANGED frame_capacity

(* OP_IMPORT of a module whose body f has not run: it is pushed, and is     *)
(* where the body returns to.                                               *)
Import(f) ==
  /\ Running
  /\ sp.slot < Reach(Top)
  /\ Arity[f] = 0
  /\ PushCallFrame(f, sp.slot + 1, ret, Ptr(sp.slot))

(* OP_RETURN *)
Return ==
  /\ Running
  /\ sp.slot > Base.slot
  /\ frames' = SubSeq(frames, 1, Top - 1)
  /\ sp' = IF Top = 1 THEN Ptr(sp.slot - 1) ELSE [Base EXCEPT !.slot = @ + 1]
  /\ UNCHANGED <<stack, stack_size, ret, frame_capacity>>

Next ==
  \/ Push \/ Pop \/ Return
  \/ \E f \in Fn : Call(f) \/ TailCall(f) \/ Import(f)
  \/ \E n \in 0 .. MaxArgc : CallNative(n)

Spec == Init /\ [][Next]_vars

-----------------------------------------------------------------------------
(* Properties. *)

Pointer == [block : Block \cup {Wild}, slot : Nat]

TypeOK ==
  /\ stack \in Block
  /\ stack_size \in 1 .. MaxStack
  /\ sp \in Pointer /\ ret \in Pointer
  /\ frames \in Seq([fn : Fn, rbp : Pointer])
  /\ frame_capacity \in Nat
  /\ Top <= frame_capacity

(* The slots the compiler counted for each function are on the stack,       *)
(* whatever calls, tail calls and imports led to it.                        *)
RoomForFrames == \A i \in 1 .. Top : Reach(i) <= stack_size

(* Each frame begins above the base of its caller and in what its caller    *)
(* pushed, and the stack pointer is among the slots of the last frame.      *)
FramesStacked ==
  /\ \A i \in 1 .. Top - 1 :
       frames[i + 1].rbp.slot \in frames[i].rbp.slot + 1 .. Reach(i) - 1
  /\ Top > 0 => sp.slot \in Base.slot + 1 .. Reach(Top)

(* What pointed into the stack still points to the same slot when the stack *)
(* has been moved under it.                                                 *)
PointersFollow ==
  [][/\ \A i \in DOMAIN frames \cap DOMAIN frames' :
          Live(frames[i].rbp) =>
            /\ Live(frames[i].rbp)'
            /\ frames'[i].rbp.slot = frames[i].rbp.slot
     /\ Live(ret)']_vars
=============================================================================
