------------------------------- MODULE Fibers -------------------------------
(***************************************************************************)
(* The fibers (coroutines) of the VM: runFiber() and the context switches  *)
(* of pk_vm.c, the fiber natives of pk_core.c (yield, Fiber.new,           *)
(* Fiber.run, Fiber.resume) and the host's API (pkInterpretSource,         *)
(* pkRunFiber, pkResumeFiber), with the host's native functions that call  *)
(* the API again while a script is running.                                *)
(*                                                                         *)
(* The VM is single threaded; what interleaves is the script code of the   *)
(* fibers, the natives it calls and the host.  `cstack' is the C stack:    *)
(* its entries are the invocations of runFiber() and of native functions,  *)
(* and its last entry says who executes the next step.                     *)
(*                                                                         *)
(* A fiber's value stack is abstracted to its offsets: the stack pointer,  *)
(* the return slot, the frame bases, and the value in the return slot.     *)
(* The bytecode of a function is any sequence of pushes, pops, calls and   *)
(* returns that stays above its parameters, as compiled code does.         *)
(*                                                                         *)
(* Each invocation of runFiber() has registers, loaded from the last frame *)
(* of the fiber it executes.  After a native it reloads them only if that  *)
(* is another fiber than before: if the native has called the API, and the *)
(* nested invocation executed the same fiber and left it current, this one *)
(* goes on with the ip and the rbp it had.  The code then runs at a height *)
(* it was not compiled for, and the fiber is `astray'.                     *)
(***************************************************************************)
EXTENDS Naturals, Sequences, SequencesExt, FiniteSets

CONSTANTS
  Fiber,        (* the fiber objects a behaviour may allocate               *)
  NoFiber,      (* the NULL fiber pointer                                   *)
  Val,          (* script values                                            *)
  Null,         (* the script's null                                        *)
  Arity,        (* parameter count of each fiber's function                 *)
  NativeFns,    (* whether Fiber.new() is given native functions as well    *)
  MaxSp,        (* bound: slots of a fiber's value stack                    *)
  MaxFrames,    (* bound: call frames of a fiber                            *)
  MaxCStack     (* bound: entries of the C stack                            *)

ASSUME FiberAssumption ==
  /\ NoFiber \notin Fiber
  /\ Null \notin Val
  /\ Arity \in [Fiber -> Nat]
  /\ NativeFns \in BOOLEAN
  /\ MaxSp \in Nat /\ MaxFrames \in Nat /\ MaxCStack \in Nat

Value == Val \cup {Null}

VARIABLES
  fiber,    (* vm->fiber                                                    *)
  state,    (* fiber->state, "unborn" before the fiber is allocated         *)
  caller,   (* fiber->caller                                                *)
  frames,   (* fiber->frames: the rbp offset and the arguments of each      *)
  sp,       (* fiber->sp, as an offset: the first free slot                 *)
  ret,      (* fiber->ret, as an offset                                     *)
  retval,   (* the value in the slot fiber->ret points to                   *)
  error,    (* fiber->error != NULL                                         *)
  cstack,   (* the C stack                                                  *)
  result,   (* the PkResult of the last API call that has returned to the   *)
            (* host code that executes, "none" if there is no such call     *)
  loaded,   (* which invocation of runFiber(), by its depth in the C stack, *)
            (* was the last to load its registers from the fiber's frame    *)
  register, (* the register rbp of the invocation at each depth             *)
  astray    (* followed: the fibers executed with registers not theirs      *)

registers == <<loaded, register, astray>>

vars == <<fiber, state, caller, frames, sp, ret, retval, error, cstack, result,
          registers>>

FiberState == {"unborn", "new", "running", "yielded", "done"}

Entry == [kind : {"run", "builtin", "native"}, fb : Fiber]

Frame == [rbp : Nat, argc : Nat]

-----------------------------------------------------------------------------
(* Who executes. *)

(* The bytecode loop of runFiber(). *)
Executing == cstack # <<>> /\ Last(cstack).kind = "run"

(* The host, between two API calls or inside a native function of its own. *)
HostCode == cstack # <<>> => Last(cstack).kind = "native"

(* The invocation of runFiber() that executes. *)
Depth == Len(cstack)

(* The lowest the stack pointer may be in the running frame: compiled code  *)
(* pops neither the frame's return slot nor its parameters.  Of code that   *)
(* goes on at another height than its own nothing is known.                 *)
Base(f) == Last(frames[f]).rbp + Last(frames[f]).argc + 1
Floor(f) == IF f \in astray THEN 0 ELSE Base(f)

-----------------------------------------------------------------------------
(* Mutations of the definitions below, each a slip the code could have: the  *)
(* properties are checked to tell the model from them.                      *)

(* the state test of vmSwitchFiber() lets running fibers through *)
CanSwitchRunning(g) == state[g] \in {"yielded", "running"}

(* FIBER_SWITCH_BACK goes to the host at once *)
SwitchBackToHost ==
  /\ state' = [state EXCEPT ![fiber] = "done"]
  /\ caller' = [caller EXCEPT ![fiber] = NoFiber]
  /\ fiber' = NoFiber

(* the callable's own slot is not counted *)
CallableOffByOne(argc) == sp[fiber] - argc

(* OP_CALL pops the stack of vm->fiber, which the native may have changed *)
CallFiberNow == fiber

(* the registers are not loaded again after a native has switched *)
ReloadNever(d) == UNCHANGED <<loaded, register>>

(* rbp is that of the first frame *)
FirstBase(s) == IF s = <<>> THEN 0 ELSE s[1].rbp

(* OP_RETURN pops the frame after it has switched back *)
PopFrameAfterSwitch ==
  LET f == IF Len(frames[fiber]) = 1 /\ caller[fiber] # NoFiber
           THEN caller[fiber] ELSE fiber
  IN  frames' = [frames EXCEPT ![f] = Front(@)]

-----------------------------------------------------------------------------
(* Pieces of the handlers. *)

(* newFiber(): the frame of a script function is set up here, a native one  *)
(* has no frame.                                                            *)
Allocate(g, isNative) ==
  /\ state[g] = "unborn"
  /\ isNative => NativeFns
  /\ state' = [state EXCEPT ![g] = "new"]
  /\ frames' = [frames EXCEPT ![g] =
                  IF isNative THEN <<>> ELSE <<[rbp |-> 0, argc |-> Arity[g]]>>]

(* The checks of vmPrepareFiber(). *)
CanPrepare(g, argc) == argc = Arity[g] /\ state[g] = "new"

(* The checks of vmSwitchFiber(). *)
CanSwitch(g) == state[g] = "yielded"

(* Entering a fiber from the current one, the common end of               *)
(* vmPrepareFiber() and vmSwitchFiber(), with the state its callers set.    *)
Enter(g) ==
  /\ caller' = [caller EXCEPT ![g] = fiber]
  /\ state' = [state EXCEPT ![g] = "running"]
  /\ fiber' = g

(* FIBER_SWITCH_BACK *)
SwitchBack ==
  /\ state' = [state EXCEPT ![fiber] = "done"]
  /\ caller' = [caller EXCEPT ![fiber] = NoFiber]
  /\ fiber' = caller[fiber]

(* vmYieldFiber(), but for the value. *)
Suspend ==
  /\ state' = [state EXCEPT ![fiber] = "yielded"]
  /\ caller' = [caller EXCEPT ![fiber] = NoFiber]
  /\ fiber' = caller[fiber]

(* The operands of OP_CALL: the callable below argc arguments. *)
Callable(argc) == sp[fiber] - argc - 1

HasOperands(argc) ==
  /\ Executing
  /\ frames[fiber] # <<>>
  /\ sp[fiber] >= Floor(fiber) + argc + 1

(* The slot a call leaves its value in, null until it is set. *)
SetRet(argc) == ret' = [ret EXCEPT ![fiber] = Callable(argc)]

(* Calling a native function from the bytecode loop. *)
PushNative(kind) ==
  /\ Depth < MaxCStack
  /\ cstack' = Append(cstack, [kind |-> kind, fb |-> fiber])
  /\ UNCHANGED registers

(* The fiber whose OP_CALL called the native that executes. *)
CallFiber == Last(cstack).fb

(* OP_RETURN, first of all: the last frame is popped. *)
PopFrame == frames' = [frames EXCEPT ![fiber] = Front(@)]

(* LOAD_FRAME, by the invocation at depth d, of a fiber whose frames are s. *)
(* (What it reads for a fiber of a native function, which has none, is not  *)
(* looked at.)                                                              *)
LastBase(s) == IF s = <<>> THEN 0 ELSE Last(s).rbp
Load(f, s, d) ==
  /\ loaded' = [loaded EXCEPT ![f] = d]
  /\ register' = [register EXCEPT ![d] = LastBase(s)]

(* The same after a native, if it has switched to another fiber. *)
Reload(d) ==
  IF fiber # CallFiber THEN Load(fiber, frames[fiber], d)
  ELSE UNCHANGED <<loaded, register>>

(* Invoking runFiber() from host code, on a fiber whose frames are s. *)
PushRun(g, s) ==
  /\ HostCode
  /\ Depth < MaxCStack
  /\ cstack' = Append(cstack, [kind |-> "run", fb |-> g])
  /\ Load(g, s, Depth + 1)
  /\ result' = "none"
  /\ UNCHANGED astray

-----------------------------------------------------------------------------
Init ==
  /\ fiber = NoFiber
  /\ state = [f \in Fiber |-> "unborn"]
  /\ caller = [f \in Fiber |-> NoFiber]
  /\ frames = [f \in Fiber |-> <<>>]
  /\ sp = [f \in Fiber |-> 1]
  /\ ret = [f \in Fiber |-> 0]
  /\ retval = [f \in Fiber |-> Null]
  /\ error = [f \in Fiber |-> FALSE]
  /\ cstack = <<>>
  /\ result = "none"
  /\ loaded = [f \in Fiber |-> 0]
  /\ register = [d \in 1 .. MaxCStack |-> 0]
  /\ astray = {}

-----------------------------------------------------------------------------
(* The host. *)

(* pkNewFiber() *)
HostNewFiber(g, isNative) ==
  /\ HostCode
  /\ Allocate(g, isNative)
  /\ UNCHANGED <<fiber, caller, sp, ret, retval, error, cstack, result, registers>>

(* pkInterpretSource(), from its newFiber() on: the fiber of the script's   *)
(* body becomes the VM's fiber whatever it was, and has no caller.          *)
HostInterpret(g) ==
  LET body == <<[rbp |-> 0, argc |-> 0]>>
  IN  /\ PushRun(g, body)
      /\ state[g] = "unborn"
      /\ state' = [state EXCEPT ![g] = "running"]
      /\ frames' = [frames EXCEPT ![g] = body]
      /\ fiber' = g
      /\ UNCHANGED <<caller, sp, ret, retval, error>>

(* pkRunFiber() *)
HostRun(g, argc) ==
  /\ PushRun(g, frames[g])
  /\ CanPrepare(g, argc)
  /\ Enter(g)
  /\ sp' = [sp EXCEPT ![g] = @ + argc]
  /\ UNCHANGED <<frames, ret, retval, error>>

(* pkResumeFiber() *)
HostResume(g, v) ==
  /\ PushRun(g, frames[g])
  /\ CanSwitch(g)
  /\ Enter(g)
  /\ retval' = [retval EXCEPT ![g] = v]
  /\ UNCHANGED <<frames, sp, ret, error>>

(* pkRunFiber() or pkResumeFiber() refused: the error goes to the VM's      *)
(* fiber, if it has any.                                                    *)
HostRefused(g, argc) ==
  /\ HostCode
  /\ state[g] # "unborn"
  /\ ~CanPrepare(g, argc) \/ ~CanSwitch(g)
  /\ error' = [f \in Fiber |-> error[f] \/ f = fiber]
  /\ result' = "error"
  /\ UNCHANGED <<fiber, state, caller, frames, sp, ret, retval, cstack, registers>>

(* pkReturn...() in a native function: the slot is that of the VM's fiber.  *)
NativeReturnValue(v) ==
  /\ cstack # <<>> /\ Last(cstack).kind = "native"
  /\ fiber # NoFiber
  /\ retval' = [retval EXCEPT ![fiber] = v]
  /\ UNCHANGED <<fiber, state, caller, frames, sp, ret, error, cstack, result, registers>>

(* pkSetRuntimeError() in a native function. *)
NativeSetError ==
  /\ cstack # <<>> /\ Last(cstack).kind = "native"
  /\ fiber # NoFiber
  /\ error' = [error EXCEPT ![fiber] = TRUE]
  /\ UNCHANGED <<fiber, state, caller, frames, sp, ret, retval, cstack, result, registers>>

-----------------------------------------------------------------------------
(* The bytecode of the current fiber. *)

(* Any run of instructions that only push and pop.  A slot at or above the  *)
(* frame's base may be written, the return slot of an earlier call too.     *)
Evaluate(top, v) ==
  /\ Executing
  /\ frames[fiber] # <<>>
  /\ top \in Floor(fiber) .. MaxSp
  /\ v # retval[fiber] => ret[fiber] >= Floor(fiber)
  /\ sp' = [sp EXCEPT ![fiber] = top]
  /\ retval' = [retval EXCEPT ![fiber] = v]
  /\ UNCHANGED <<fiber, state, caller, frames, ret, error, cstack, result, registers>>

(* OP_CALL of a script function. *)
CallScript(argc) ==
  /\ HasOperands(argc)
  /\ Len(frames[fiber]) < MaxFrames
  /\ SetRet(argc)
  /\ retval' = [retval EXCEPT ![fiber] = Null]
  /\ frames' = [frames EXCEPT ![fiber] =
                  Append(@, [rbp |-> Callable(argc), argc |-> argc])]
  /\ Load(fiber, frames'[fiber], Depth)
  /\ UNCHANGED <<fiber, state, caller, sp, error, cstack, result, astray>>

(* OP_TAIL_CALL of a script function: reuseCallFrame() moves the arguments  *)
(* to the base of the current frame, over the return slot if it is there.   *)
TailCallScript(argc, v) ==
  LET rbp == Last(frames[fiber]).rbp
  IN  /\ HasOperands(argc)
      /\ SetRet(argc)
      /\ v # Null => Callable(argc) \in rbp + 1 .. rbp + argc
      /\ retval' = [retval EXCEPT ![fiber] = v]
      /\ sp' = [sp EXCEPT ![fiber] = rbp + argc + 1]
      /\ frames' = [frames EXCEPT ![fiber] =
                      Append(Front(@), [rbp |-> rbp, argc |-> argc])]
      /\ Load(fiber, frames'[fiber], Depth)
      /\ UNCHANGED <<fiber, state, caller, error, cstack, result, astray>>

(* OP_IMPORT of a module that has not been initialised: the module is pushed *)
(* and its body is called on that slot.  fiber->ret is not set.             *)
ImportBody(v) ==
  /\ Executing
  /\ frames[fiber] # <<>>
  /\ sp[fiber] \in Floor(fiber) .. MaxSp - 1
  /\ Len(frames[fiber]) < MaxFrames
  /\ frames' = [frames EXCEPT ![fiber] = Append(@, [rbp |-> sp[fiber], argc |-> 0])]
  /\ sp' = [sp EXCEPT ![fiber] = @ + 1]
  /\ retval' = [retval EXCEPT ![fiber] = IF ret[fiber] = sp[fiber] THEN v ELSE @]
  /\ Load(fiber, frames'[fiber], Depth)
  /\ UNCHANGED <<fiber, state, caller, ret, error, cstack, result, astray>>

(* OP_CALL of a native function of the host. *)
CallNative(argc) ==
  /\ HasOperands(argc)
  /\ PushNative("native")
  /\ SetRet(argc)
  /\ retval' = [retval EXCEPT ![fiber] = Null]
  /\ UNCHANGED <<fiber, state, caller, frames, sp, error, result>>

(* OP_CALL of a builtin that leaves a value or an error, and switches no    *)
(* fiber: any of the core's functions, and the fiber natives refusing their *)
(* arguments (vmPrepareFiber() and vmSwitchFiber() set the error and leave  *)
(* everything else alone).                                                  *)
CallBuiltin(argc, v, fails) ==
  /\ HasOperands(argc)
  /\ PushNative("builtin")
  /\ SetRet(argc)
  /\ retval' = [retval EXCEPT ![fiber] = v]
  /\ error' = [error EXCEPT ![fiber] = @ \/ fails]
  /\ UNCHANGED <<fiber, state, caller, frames, sp, result>>

(* Fiber.new(fn), returning the new fiber (its value is not told apart). *)
CallFiberNew(g, isNative, v) ==
  /\ HasOperands(1)
  /\ PushNative("builtin")
  /\ Allocate(g, isNative)
  /\ SetRet(1)
  /\ retval' = [retval EXCEPT ![fiber] = v]
  /\ UNCHANGED <<fiber, caller, sp, error, result>>

(* Fiber.run(g, ...) *)
CallFiberRun(g, argc) ==
  /\ HasOperands(argc + 1)
  /\ PushNative("builtin")
  /\ CanPrepare(g, argc)
  /\ Enter(g)
  /\ SetRet(argc + 1)
  /\ retval' = [retval EXCEPT ![fiber] = Null]
  /\ sp' = [sp EXCEPT ![g] = @ + argc]
  /\ UNCHANGED <<frames, error, result>>

(* Fiber.resume(g) and Fiber.resume(g, v) *)
CallFiberResume(g, argc, v) ==
  /\ argc = 0 => v = Null
  /\ HasOperands(argc + 1)
  /\ PushNative("builtin")
  /\ CanSwitch(g)
  /\ Enter(g)
  /\ SetRet(argc + 1)
  /\ retval' = [retval EXCEPT ![fiber] = Null, ![g] = v]
  /\ UNCHANGED <<frames, sp, error, result>>

(* yield() and yield(v): vmYieldFiber() gives the value to the caller. *)
CallYield(argc, v) ==
  /\ argc = 0 => v = Null
  /\ HasOperands(argc)
  /\ PushNative("builtin")
  /\ SetRet(argc)
  /\ retval' = [f \in Fiber |-> IF f = fiber THEN Null
                                ELSE IF f = caller[fiber] THEN v
                                ELSE retval[f]]
  /\ Suspend
  /\ UNCHANGED <<frames, sp, error, result>>

(* The rest of OP_CALL once the native has returned: leave runFiber() if no *)
(* fiber is left, else load the frame of the fiber that is current now if   *)
(* it is another one, pop the arguments of the fiber that made the call,    *)
(* and CHECK_ERROR the current one.  If it is the same fiber, and a nested  *)
(* runFiber() has executed it meanwhile, the registers are old.             *)
AfterNative ==
  /\ cstack # <<>>
  /\ Last(cstack).kind # "run"
  /\ LET below == Front(cstack)
     IN \/ /\ fiber = NoFiber
           /\ cstack' = Front(below)
           /\ result' = "success"
           /\ UNCHANGED <<fiber, state, caller, sp, registers>>
        \/ /\ fiber # NoFiber
           /\ Reload(Len(below))
           /\ sp' = [sp EXCEPT ![CallFiber] = ret[CallFiber] + 1]
           /\ IF error[fiber]
              THEN /\ SwitchBack
                   /\ cstack' = Front(below)
                   /\ result' = "error"
                   /\ UNCHANGED astray
              ELSE /\ cstack' = below
                   /\ result' = "none"
                   /\ astray' = astray \cup
                        (IF loaded'[fiber] = Len(below) THEN {} ELSE {fiber})
                   /\ UNCHANGED <<fiber, state, caller>>
  /\ UNCHANGED <<frames, ret, retval, error>>

(* OP_RETURN from a function that is not the fiber's root: the value and    *)
(* the stack pointer go where the register says, the frame that is popped   *)
(* is the fiber's last.                                                     *)
ReturnFromCall(v) ==
  LET rbp == register[Depth]
  IN  /\ HasOperands(0)
      /\ Len(frames[fiber]) > 1
      /\ PopFrame
      /\ sp' = [sp EXCEPT ![fiber] = rbp + 1]
      /\ retval' = [retval EXCEPT ![fiber] = IF ret[fiber] = rbp THEN v ELSE @]
      /\ Load(fiber, frames'[fiber], Depth)
      /\ UNCHANGED <<fiber, state, caller, ret, error, cstack, result, astray>>

(* OP_RETURN from the root function: the fiber is done and its caller, if   *)
(* any, goes on in the same runFiber() with the value.                      *)
ReturnFromFiber(v) ==
  /\ HasOperands(0)
  /\ Len(frames[fiber]) = 1
  /\ PopFrame
  /\ sp' = [sp EXCEPT ![fiber] = @ - 1]
  /\ SwitchBack
  /\ IF caller[fiber] = NoFiber
     THEN /\ cstack' = Front(cstack)
          /\ result' = "success"
          /\ UNCHANGED <<retval, loaded, register>>
     ELSE /\ retval' = [retval EXCEPT ![caller[fiber]] = v]
          /\ Load(caller[fiber], frames[caller[fiber]], Depth)
          /\ UNCHANGED <<cstack, result>>
  /\ UNCHANGED <<ret, error, astray>>

(* RUNTIME_ERROR and CHECK_ERROR in any other instruction: the fiber is     *)
(* done, its caller is the current fiber again, and runFiber() returns.     *)
RuntimeError ==
  /\ Executing
  /\ frames[fiber] # <<>>
  /\ error' = [error EXCEPT ![fiber] = TRUE]
  /\ SwitchBack
  /\ cstack' = Front(cstack)
  /\ result' = "error"
  /\ UNCHANGED <<frames, sp, ret, retval, registers>>

-----------------------------------------------------------------------------
(* The argument counts worth telling apart, yield and resume take 0 or 1. *)
Argc == 0 .. 1

Host ==
  \/ \E g \in Fiber, n \in BOOLEAN : HostNewFiber(g, n)
  \/ \E g \in Fiber : HostInterpret(g)
  \/ \E g \in Fiber, n \in Argc : HostRun(g, n)
  \/ \E g \in Fiber, v \in Value : HostResume(g, v)
  \/ \E g \in Fiber, n \in Argc : HostRefused(g, n)
  \/ \E v \in Value : NativeReturnValue(v)
  \/ NativeSetError

Bytecode ==
  \/ \E top \in 0 .. MaxSp, v \in Value : Evaluate(top, v)
  \/ \E n \in Argc : CallScript(n)
  \/ \E n \in Argc, v \in Value : TailCallScript(n, v)
  \/ \E v \in Value : ImportBody(v)
  \/ \E v \in Value : ReturnFromCall(v)
  \/ \E v \in Value : ReturnFromFiber(v)
  \/ RuntimeError

Natives ==
  \/ \E n \in Argc : CallNative(n)
  \/ \E n \in Argc, v \in Value, e \in BOOLEAN : CallBuiltin(n, v, e)
  \/ \E g \in Fiber, n \in BOOLEAN, v \in Value : CallFiberNew(g, n, v)
  \/ \E g \in Fiber, n \in Argc : CallFiberRun(g, n)
  \/ \E g \in Fiber, n \in Argc, v \in Value : CallFiberResume(g, n, v)
  \/ \E n \in Argc, v \in Value : CallYield(n, v)
  \/ AfterNative

Next == Host \/ Bytecode \/ Natives

Spec == Init /\ [][Next]_vars

-----------------------------------------------------------------------------
(* Properties. *)

TypeOK ==
  /\ fiber \in Fiber \cup {NoFiber}
  /\ state \in [Fiber -> FiberState]
  /\ caller \in [Fiber -> Fiber \cup {NoFiber}]
  /\ frames \in [Fiber -> Seq(Frame)]
  /\ sp \in [Fiber -> Nat]
  /\ ret \in [Fiber -> Nat]
  /\ retval \in [Fiber -> Value]
  /\ error \in [Fiber -> BOOLEAN]
  /\ cstack \in Seq(Entry)
  /\ result \in {"none", "success", "error"}
  /\ loaded \in [Fiber -> Nat]
  /\ register \in [1 .. MaxCStack -> Nat]
  /\ astray \subseteq Fiber

(* Only running fibers wait for another one or are waited for, no two wait  *)
(* for the same slot, and nobody waits for itself to return: what           *)
(* FIBER_SWITCH_BACK relies on (and half of it asserts) when it makes the   *)
(* caller current without looking at its state.                             *)
CallersAreRunning ==
  /\ fiber # NoFiber => state[fiber] = "running"
  /\ \A f \in Fiber : caller[f] # NoFiber =>
       /\ state[f] = "running"
       /\ state[caller[f]] = "running"
       /\ caller[f] # fiber

OneFiberPerCaller ==
  \A f, g \in Fiber : caller[f] = caller[g] /\ caller[f] # NoFiber => f = g

(* No fiber is, through any number of callers, its own caller: switching    *)
(* back always ends in the host.                                            *)
CallersAcyclic ==
  \A S \in SUBSET Fiber : (\A f \in S : caller[f] \in S) => S = {}

(* The callers are a chain that ends in the host: what every switch back    *)
(* needs, however runs, resumes, yields, returns and errors succeed each    *)
(* other (vmPrepareFiber(), vmSwitchFiber(), FIBER_SWITCH_BACK).            *)
ChainOfCallers == CallersAreRunning /\ OneFiberPerCaller /\ CallersAcyclic

(* Every fiber that can be given control has a frame for LOAD_FRAME, even   *)
(* one astray; and unless it is, its frames lie one above the operands of   *)
(* the other.  A fiber astray spoils the frames of no other.                *)
FramesNested ==
  \A f \in Fiber : state[f] \in {"new", "running", "yielded"} =>
    /\ frames[f] # <<>>
    /\ f \notin astray =>
         /\ \A i \in 1 .. Len(frames[f]) - 1 :
              frames[f][i].rbp + frames[f][i].argc < frames[f][i + 1].rbp
         /\ state[f] # "new" => sp[f] >= Base(f)

(* The register is the base of the last frame of the fiber that executes,   *)
(* and nobody else has executed that fiber since it was loaded, however     *)
(* natives switched fibers and nested invocations ran them; but for the     *)
(* fibers astray.  (OP_RETURN stores to where the register points.)         *)
RegistersFit ==
  Executing /\ frames[fiber] # <<>> /\ fiber \notin astray =>
    /\ loaded[fiber] = Depth
    /\ register[Depth] = Last(frames[fiber]).rbp

(* A fiber goes astray only when a native returns to it whose last call of  *)
(* the API returned an error: no switch by a script, and no call that       *)
(* succeeds, leaves the loop with the registers of another place.           *)
OnlyErrorsLeadAstray == [][astray' # astray => result = "error"]_vars

(* A native function has been called by the fiber and has not returned. *)
Pending(f) == \E i \in DOMAIN cstack : cstack[i].kind # "run" /\ cstack[i].fb = f

(* A fiber that control can come back to: the VM's fiber, its caller, the   *)
(* caller of that one and so on.                                            *)
Live(f) ==
  \A S \in SUBSET (Fiber \cup {NoFiber}) :
    fiber \in S /\ (\A g \in S \cap Fiber : caller[g] \in S) => f \in S

(* A fiber that control can come back to, and does not execute, has the     *)
(* slot of the call it is in on top of its stack: the value it is given     *)
(* will be the value of that call.  (Until a native it has called returns,  *)
(* the arguments of that call lie above the slot.)                          *)
CallersWaitAtSlot ==
  \A f \in Fiber : Live(f) /\ (f # fiber \/ HostCode) /\ ~Pending(f) =>
    sp[f] = ret[f] + 1

(* A fiber that is not current keeps its frames and its return slot, and    *)
(* its slot is only written by the step that gives it control.              *)
SuspendedUntouched ==
  [][\A f \in Fiber : f # fiber /\ state[f] \in {"running", "yielded"} =>
       /\ frames'[f] = frames[f]
       /\ ret'[f] = ret[f]
       /\ retval'[f] = retval[f] \/ fiber' = f]_vars

(* The fibers are coroutines: the callers from the current fiber down are   *)
(* the activations.  No interleaving of scripts, refused calls, errors and  *)
(* API calls from native functions enters a fiber twice or gives control to *)
(* another one than the activation below.                                   *)
Activations ==
  LET up[n \in 0 .. Cardinality(Fiber)] ==
        IF n = 0 THEN fiber
        ELSE IF up[n - 1] = NoFiber THEN NoFiber ELSE caller[up[n - 1]]
      depth == Cardinality({n \in DOMAIN up : up[n] # NoFiber})
  IN  [i \in 1 .. depth |-> up[depth - i]]

Abstract == INSTANCE Coroutines WITH
  Coroutine <- Fiber, status <- state, active <- Activations

FibersAreCoroutines == Abstract!Spec

=============================================================================
