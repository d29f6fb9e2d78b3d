--------------------------- MODULE ContextProofs ---------------------------
(***************************************************************************)
(* Proofs about Context for any number of tasks.                           *)
(*                                                                         *)
(* The argument: every frame that may be loaded is one of two.  The frame  *)
(* of a waiting task lies at base[t] and holds what the task had (Waits);  *)
(* the frame of a system call lies at the bottom of the stack and holds    *)
(* the registers of the program (InCall).  A step of the current task      *)
(* writes above both, and a step that loads a frame loads one of the two.  *)
(***************************************************************************)
EXTENDS Context, TLAPS

Registers == {"mode", "masked", "r0", "r", "pc", "sp_usr", "lr_usr", "sp_svc",
              "lr_svc", "spsr_svc"}

\* A program status register.
IsPsr(p) == p = [mode |-> p.mode, masked |-> p.masked] /\ p.mode \in {"usr", "svc"}

\* struct pt_regs.
IsFrame(f) ==
  /\ DOMAIN f = {"r0", "r", "spsr", "lr", "sp", "cpsr", "pc"}
  /\ IsPsr(f.cpsr)

\* What a program sees once the frame f at depth d is loaded, with r0 for r0.
Loaded(f, d, r0) ==
  [cpsr |-> f.cpsr, r0 |-> r0, r |-> f.r, pc |-> f.pc, depth |-> d - 1, lr |-> f.lr,
   sp |-> IF f.cpsr.mode = "usr" THEN f.sp ELSE <<"depth", d - 1>>]

\* The variables are functions of tasks, the stacks have room for the deepest
\* frame, and the registers are all there.
CtxTypeOK ==
  /\ DOMAIN cpu = Registers /\ cpu.mode \in {"usr", "svc"} /\ cpu.sp_svc \in Nat
  /\ DOMAIN kstack = Tasks
  /\ \A t \in Tasks : DOMAIN kstack[t] = 1 .. MaxDepth + 1
  /\ base \in [Tasks -> 0 .. MaxDepth]
  /\ flag \in [Tasks -> {"kernel", "user"}]
  /\ DOMAIN saved = Tasks /\ DOMAIN user = Tasks /\ DOMAIN call = Tasks
  /\ current \in alive /\ alive \subseteq Tasks

\* The current task is in user mode, in a system call or a kernel task, and its
\* stack is as deep as that needs.
Runs ==
  /\ flag[current] = "kernel" => cpu.mode = "svc" /\ cpu.sp_svc = 0
  /\ flag[current] = "user" => cpu.sp_svc = IF cpu.mode = "usr" THEN 0 ELSE 1

\* A task that waits has its registers in the frame at base, and lost the CPU
\* at one of the same three places.
Waits(t) ==
  /\ base[t] \in 1 .. MaxDepth
  /\ IsFrame(kstack[t][base[t]])
  /\ saved[t] = Loaded(kstack[t][base[t]], base[t], kstack[t][base[t]].r0)
  /\ flag[t] = "kernel" => base[t] = 1 /\ kstack[t][base[t]].cpsr.mode = "svc"
  /\ flag[t] = "user" =>
       kstack[t][base[t]].cpsr.mode = IF base[t] = 1 THEN "usr" ELSE "svc"

\* t has made a system call that has not returned.
InCall(t) ==
  flag[t] = "user" /\ IF t = current THEN cpu.mode = "svc" ELSE base[t] = 2

\* The frame a system call returns to holds what the program had, but for r0.
CallFrame(t) ==
  /\ IsFrame(kstack[t][1]) /\ kstack[t][1].cpsr.mode = "usr"
  /\ user[t] = Loaded(kstack[t][1], 1, user[t].r0)

\* The inductive invariant.
CInv ==
  /\ CtxTypeOK
  /\ Runs
  /\ RunsInOwnSpace
  /\ \A t \in alive \ {current} : Waits(t)
  /\ \A t \in alive : InCall(t) => CallFrame(t)

-----------------------------------------------------------------------------
(* Frames *)

\* What every path loads.
LEMMA LoadSets ==
  ASSUME NEW c, DOMAIN c = Registers, NEW f, NEW d
  PROVE  /\ DOMAIN load(c, f, d) = Registers
         /\ load(c, f, d).r0 = f.r0 /\ load(c, f, d).r = f.r
         /\ load(c, f, d).pc = f.pc /\ load(c, f, d).sp_svc = d - 1
         /\ load(c, f, d).mode = f.cpsr.mode
         /\ load(c, f, d).masked = f.cpsr.masked
BY Zenon DEF load, Registers

\* arch_switch_task_sw and the end of irq load all of a frame, in either mode.
LEMMA FrameIsLoaded ==
  ASSUME NEW c, DOMAIN c = Registers, NEW f, IsFrame(f), NEW d,
         NEW e \in {restore_sw(c, f, d), restore_irq(c, f, d)}
  PROVE  /\ DOMAIN e = Registers /\ e.mode = f.cpsr.mode /\ e.sp_svc = d - 1
         /\ View(e) = Loaded(f, d, f.r0)
<1> DEFINE g == load(c, f, d)
<1>1. /\ DOMAIN g = Registers
      /\ g.r0 = f.r0 /\ g.r = f.r /\ g.pc = f.pc /\ g.sp_svc = d - 1
      /\ g.mode = f.cpsr.mode /\ g.masked = f.cpsr.masked
  BY LoadSets
<1>2. /\ f.cpsr = [mode |-> f.cpsr.mode, masked |-> f.cpsr.masked]
      /\ f.cpsr.mode = "usr" \/ f.cpsr.mode = "svc"
  BY DEF IsFrame, IsPsr
<1> HIDE DEF g
<1>3. /\ DOMAIN e = Registers
      /\ e.r0 = f.r0 /\ e.r = f.r /\ e.pc = f.pc /\ e.sp_svc = d - 1
      /\ e.mode = f.cpsr.mode /\ e.masked = f.cpsr.masked
      /\ IF f.cpsr.mode = "usr" THEN e.sp_usr = f.sp /\ e.lr_usr = f.lr
         ELSE e.lr_svc = f.lr
  <2>1. CASE e = restore_sw(c, f, d)
    BY <2>1, <1>1 DEF restore_sw, g, Registers
  <2>2. CASE e = restore_irq(c, f, d)
    BY <2>2, <1>1 DEF restore_irq, g, Registers
  <2> QED  BY <2>1, <2>2
<1>4. View(e) = Loaded(f, d, f.r0)
  BY <1>2, <1>3 DEF View, Cpsr, Loaded
<1> QED  BY <1>3, <1>4

\* So does the end of software_interrupt with a frame of user mode, whatever
\* result has been stored for r0.
LEMMA CallIsLoaded ==
  ASSUME NEW c, DOMAIN c = Registers, NEW f, IsFrame(f), f.cpsr.mode = "usr",
         NEW d, NEW x, NEW e, e = restore_swi(c, [f EXCEPT !.r0 = x], d)
  PROVE  /\ DOMAIN e = Registers /\ e.mode = "usr" /\ e.sp_svc = d - 1
         /\ View(e) = Loaded(f, d, x)
<1> DEFINE h == [f EXCEPT !.r0 = x]
           g == load(c, h, d)
<1>1. /\ h.r0 = x /\ h.r = f.r /\ h.pc = f.pc /\ h.cpsr = f.cpsr
      /\ h.sp = f.sp /\ h.lr = f.lr
  BY DEF IsFrame
<1> HIDE DEF h
<1>2. /\ DOMAIN g = Registers
      /\ g.r0 = x /\ g.r = f.r /\ g.pc = f.pc /\ g.sp_svc = d - 1
      /\ g.mode = "usr" /\ g.masked = f.cpsr.masked
  BY <1>1, LoadSets
<1>3. f.cpsr = [mode |-> "usr", masked |-> f.cpsr.masked]
  BY DEF IsFrame, IsPsr
<1>4. e = [g EXCEPT !.sp_usr = h.sp, !.lr_usr = h.lr, !.spsr_svc = h.cpsr.mode]
  BY DEF restore_swi, g, h
<1> HIDE DEF g
<1>5. /\ DOMAIN e = Registers
      /\ e.r0 = x /\ e.r = f.r /\ e.pc = f.pc /\ e.sp_svc = d - 1
      /\ e.mode = "usr" /\ e.masked = f.cpsr.masked
      /\ e.sp_usr = f.sp /\ e.lr_usr = f.lr
  BY <1>1, <1>2, <1>4 DEF Registers
<1>6. View(e) = Loaded(f, d, x)
  BY <1>3, <1>5 DEF View, Cpsr, Loaded
<1> QED  BY <1>5, <1>6

\* The frames that are written.
LEMMA FrameIsSaved ==
  ASSUME NEW c, DOMAIN c = Registers, c.mode \in {"usr", "svc"}, c.sp_svc \in Nat
  PROVE  /\ IsFrame(save_irq(c)) /\ save_irq(c).cpsr.mode = c.mode
         /\ View(c) = Loaded(save_irq(c), c.sp_svc + 1, save_irq(c).r0)
         /\ c.mode = "svc" =>
              /\ IsFrame(save_sw(c)) /\ save_sw(c).cpsr.mode = "svc"
              /\ [View(c) EXCEPT !.pc = c.lr_svc]
                   = Loaded(save_sw(c), c.sp_svc + 1, save_sw(c).r0)
<1>1. c.sp_svc + 1 - 1 = c.sp_svc /\ 1 - 1 = 0
  OBVIOUS
<1>2. IsPsr(Cpsr(c)) /\ Cpsr(c).mode = c.mode
  BY DEF IsPsr, Cpsr
<1>3. /\ IsFrame(save_irq(c)) /\ save_irq(c).cpsr.mode = c.mode
  BY <1>2 DEF save_irq, IsFrame
<1>4. View(c) = Loaded(save_irq(c), c.sp_svc + 1, save_irq(c).r0)
  BY <1>1, <1>2 DEF save_irq, Loaded, View
<1>5. IsFrame(save_sw(c)) /\ save_sw(c).cpsr.mode = c.mode
  BY <1>2 DEF save_sw, IsFrame
<1>6. ASSUME c.mode = "svc"
      PROVE  [View(c) EXCEPT !.pc = c.lr_svc]
               = Loaded(save_sw(c), c.sp_svc + 1, save_sw(c).r0)
  BY <1>1, <1>2, <1>6 DEF save_sw, Loaded, View
<1> QED  BY <1>3, <1>4, <1>5, <1>6

\* The frame of a system call.
LEMMA CallIsSaved ==
  ASSUME NEW c, c.mode = "usr", c.sp_svc = 0, NEW old, NEW f, f = save_swi(c, old)
  PROVE  /\ IsFrame(f) /\ f.cpsr.mode = "usr"
         /\ View(c) = Loaded(f, 1, View(c).r0)
<1>1. IsPsr(Cpsr(c)) /\ Cpsr(c).mode = "usr"
  BY DEF IsPsr, Cpsr
<1>2. IsFrame(f) /\ f.cpsr = Cpsr(c)
  BY <1>1 DEF save_swi, IsFrame
<1>3. 1 - 1 = 0
  OBVIOUS
<1> QED  BY <1>1, <1>2, <1>3 DEF save_swi, Loaded, View

-----------------------------------------------------------------------------
(* One lemma per kind of step *)

\* The boot state: main is the idle task and nobody waits.
LEMMA CtxInitCInv == CtxInit => CInv
<1> SUFFICES ASSUME CtxInit PROVE CInv
  OBVIOUS
<1> USE ContextAssumption
<1>1. CtxTypeOK
  BY DEF CtxInit, CtxTypeOK, BootCpu, Registers, MaxDepth
<1>2. Runs /\ RunsInOwnSpace
  BY DEF CtxInit, Runs, RunsInOwnSpace, BootCpu
<1>3. \A t \in alive : t = current /\ ~InCall(t)
  BY DEF CtxInit, InCall
<1> QED  BY <1>1, <1>2, <1>3 DEF CInv

\* What a step of the current task leaves of the others.
LEMMA OthersWait ==
  ASSUME NEW u, u # current, u # current',
         kstack'[u] = kstack[u], base'[u] = base[u], flag'[u] = flag[u],
         saved'[u] = saved[u], user'[u] = user[u]
  PROVE  /\ Waits(u) => Waits(u)'
         /\ (InCall(u) => CallFrame(u)) => (InCall(u)' => CallFrame(u)')
<1>1. Waits(u) => Waits(u)'
  BY DEF Waits
<1>2. InCall(u)' => InCall(u)
  BY DEF InCall
<1>3. CallFrame(u) => CallFrame(u)'
  BY DEF CallFrame
<1> QED  BY <1>1, <1>2, <1>3

\* A step that leaves the current task in its mode, at its depth.
LEMMA QuietKeeps ==
  ASSUME CInv, DOMAIN cpu' = Registers, cpu'.mode = cpu.mode,
         cpu'.sp_svc = cpu.sp_svc,
         UNCHANGED <<kstack, base, current, alive, flag, loaded, call, saved, user>>
  PROVE  CInv'
<1>1. CtxTypeOK'
  BY DEF CInv, CtxTypeOK
<1>2. Runs' /\ RunsInOwnSpace'
  BY DEF CInv, Runs, RunsInOwnSpace
<1>3. \A t \in alive \ {current} : Waits(t)'
  BY DEF CInv, Waits
<1>4. \A t \in alive : InCall(t)' => CallFrame(t)'
  BY DEF CInv, InCall, CallFrame
<1> QED  BY <1>1, <1>2, <1>3, <1>4 DEF CInv

\* The task computes, or masks interrupts.
LEMMA RunKeeps ==
  ASSUME CInv, (\E v \in 0 .. 1 : Run(v)) \/ (\E b \in BOOLEAN : Mask(b))
  PROVE  CInv'
<1>1. DOMAIN cpu = Registers
  BY DEF CInv, CtxTypeOK
<1>2. /\ DOMAIN cpu' = Registers /\ cpu'.mode = cpu.mode
      /\ cpu'.sp_svc = cpu.sp_svc
      /\ UNCHANGED <<kstack, base, current, alive, flag, loaded, call, saved, user>>
  <2>1. CASE \E v \in 0 .. 1 : Run(v)
    BY <2>1, <1>1 DEF Run, InUser, InKernel, Registers
  <2>2. CASE \E b \in BOOLEAN : Mask(b)
    BY <2>2, <1>1 DEF Mask, Registers
  <2> QED  BY <2>1, <2>2
<1> QED  BY <1>2, QuietKeeps

\* software_interrupt: the frame goes to the bottom of an empty stack.
LEMMA SwiKeeps ==
  ASSUME CInv, Swi
  PROVE  CInv'
<1>1. /\ DOMAIN cpu = Registers /\ cpu.mode = "usr" /\ cpu.sp_svc = 0
      /\ flag[current] = "user" /\ current \in Tasks
      /\ DOMAIN kstack = Tasks /\ DOMAIN user = Tasks
      /\ \A t \in Tasks : DOMAIN kstack[t] = 1 .. MaxDepth + 1
  BY DEF CInv, CtxTypeOK, Runs, Swi
<1> DEFINE f == save_swi(cpu, kstack[current][1])
<1>2. /\ kstack' = [kstack EXCEPT ![current][1] = f]
      /\ user' = [user EXCEPT ![current] = View(cpu)]
      /\ UNCHANGED <<base, current, alive, flag, loaded, call, saved>>
  BY <1>1 DEF Swi, MaxDepth
<1>3. DOMAIN cpu' = Registers /\ cpu'.mode = "svc" /\ cpu'.sp_svc = 1
  <2> DEFINE e == [cpu EXCEPT !.mode = "svc", !.sp_svc = cpu.sp_svc + 1,
                              !.spsr_svc = cpu.mode, !.sp_usr = Junk, !.lr_usr = Junk]
  <2>1. DOMAIN e = Registers /\ e.mode = "svc" /\ e.sp_svc = cpu.sp_svc + 1
    BY <1>1 DEF Registers
  <2>2. cpu' = InKernel(e)
    BY DEF Swi
  <2> HIDE DEF e
  <2>3. /\ DOMAIN cpu' = Registers /\ cpu'.mode = "svc"
        /\ cpu'.sp_svc = cpu.sp_svc + 1
    BY <2>1, <2>2 DEF InKernel, Registers
  <2> QED  BY <1>1, <2>3
<1>4. /\ IsFrame(f) /\ f.cpsr.mode = "usr"
      /\ View(cpu) = Loaded(f, 1, View(cpu).r0)
  BY <1>1, CallIsSaved
<1> HIDE DEF f
<1>5. /\ kstack'[current][1] = f /\ user'[current] = View(cpu)
      /\ DOMAIN kstack' = Tasks /\ DOMAIN user' = Tasks
      /\ \A t \in Tasks : DOMAIN kstack'[t] = 1 .. MaxDepth + 1
      /\ \A u \in Tasks \ {current} : kstack'[u] = kstack[u] /\ user'[u] = user[u]
  BY <1>1, <1>2 DEF MaxDepth
<1>6. CtxTypeOK'
  BY <1>2, <1>3, <1>5 DEF CInv, CtxTypeOK
<1>7. Runs' /\ RunsInOwnSpace'
  BY <1>1, <1>2, <1>3 DEF CInv, Runs, RunsInOwnSpace
<1>8. CallFrame(current)'
  BY <1>2, <1>4, <1>5 DEF CallFrame
<1>9. \A u \in alive \ {current} : Waits(u)' /\ (InCall(u)' => CallFrame(u)')
  BY <1>2, <1>5, OthersWait DEF CInv, CtxTypeOK
<1> QED  BY <1>2, <1>6, <1>7, <1>8, <1>9 DEF CInv

\* In a system call the stack holds one frame, that of the call.
LEMMA SyscallFrame ==
  ASSUME CInv, InSyscall
  PROVE  /\ flag[current] = "user" /\ cpu.mode = "svc" /\ cpu.sp_svc = 1
         /\ current \in alive /\ alive \subseteq Tasks
         /\ IsFrame(kstack[current][1]) /\ kstack[current][1].cpsr.mode = "usr"
         /\ user[current] = Loaded(kstack[current][1], 1, user[current].r0)
         /\ DOMAIN cpu = Registers /\ DOMAIN kstack = Tasks
         /\ DOMAIN user = Tasks /\ DOMAIN saved = Tasks /\ DOMAIN call = Tasks
         /\ \A t \in Tasks : DOMAIN kstack[t] = 1 .. MaxDepth + 1
<1>1. flag[current] = "user" /\ cpu.mode = "svc" /\ cpu.sp_svc = 1
  BY DEF InSyscall
<1>2. current \in alive /\ InCall(current)
  BY <1>1 DEF CInv, CtxTypeOK, InCall
<1>3. CallFrame(current)
  BY <1>2 DEF CInv
<1> QED  BY <1>1, <1>3 DEF CInv, CtxTypeOK, CallFrame

\* The end of a system call, and where it comes back to.
LEMMA SwiReturnKeeps ==
  ASSUME CInv, SwiReturn
  PROVE  CInv' /\ View(cpu') = [user[current] EXCEPT !.r0 = Result]
<1> DEFINE k == kstack[current][1]
<1>1. InSyscall
  BY DEF SwiReturn
<1>2. /\ flag[current] = "user" /\ cpu.mode = "svc" /\ cpu.sp_svc = 1
      /\ current \in alive /\ alive \subseteq Tasks
      /\ IsFrame(k) /\ k.cpsr.mode = "usr"
      /\ user[current] = Loaded(k, 1, user[current].r0)
      /\ DOMAIN cpu = Registers /\ DOMAIN kstack = Tasks
      /\ DOMAIN user = Tasks /\ DOMAIN saved = Tasks /\ DOMAIN call = Tasks
      /\ \A t \in Tasks : DOMAIN kstack[t] = 1 .. MaxDepth + 1
  BY <1>1, SyscallFrame
<1>3. /\ kstack' = [kstack EXCEPT ![current][1] = NoFrame]
      /\ cpu' = restore_swi(cpu, [k EXCEPT !.r0 = Result], 1)
      /\ user' = [user EXCEPT ![current] = NoView]
      /\ call' = [call EXCEPT ![current] = "none"]
      /\ UNCHANGED <<base, current, alive, flag, loaded, saved>>
  BY <1>2 DEF SwiReturn
<1> HIDE DEF k
<1>4. /\ DOMAIN cpu' = Registers /\ cpu'.mode = "usr" /\ cpu'.sp_svc = 1 - 1
      /\ View(cpu') = Loaded(k, 1, Result)
  BY <1>2, <1>3, CallIsLoaded
<1>5. View(cpu') = [user[current] EXCEPT !.r0 = Result]
  BY <1>2, <1>4 DEF Loaded
<1>6. /\ DOMAIN kstack' = Tasks /\ DOMAIN user' = Tasks /\ DOMAIN call' = Tasks
      /\ \A t \in Tasks : DOMAIN kstack'[t] = 1 .. MaxDepth + 1
      /\ \A u \in Tasks \ {current} : kstack'[u] = kstack[u] /\ user'[u] = user[u]
  BY <1>2, <1>3 DEF MaxDepth
<1>7. CtxTypeOK'
  BY <1>3, <1>4, <1>6 DEF CInv, CtxTypeOK
<1>8. Runs' /\ RunsInOwnSpace' /\ ~InCall(current)'
  BY <1>2, <1>3, <1>4 DEF CInv, Runs, RunsInOwnSpace, InCall
<1>9. \A u \in alive \ {current} : Waits(u)' /\ (InCall(u)' => CallFrame(u)')
  BY <1>2, <1>3, <1>6, OthersWait DEF CInv
<1> QED  BY <1>3, <1>5, <1>7, <1>8, <1>9 DEF CInv

\* The first frames.
LEMMA FirstFrames ==
  /\ IsFrame(init_program) /\ init_program.cpsr.mode = "usr"
  /\ First(init_program) = Loaded(init_program, 1, init_program.r0)
  /\ First(init_program).r0 = init_program.r0
  /\ \A t : /\ IsFrame(init_thread(t)) /\ init_thread(t).cpsr.mode = "svc"
            /\ First(init_thread(t)) = Loaded(init_thread(t), 1, init_thread(t).r0)
<1>1. IsPsr(User) /\ User.mode = "usr" /\ IsPsr(Svc) /\ Svc.mode = "svc" /\ User # Svc
  BY DEF IsPsr, User, Svc
<1>2. IsFrame(init_program) /\ init_program.cpsr = User
  BY <1>1 DEF init_program, IsFrame
<1>3. First(init_program) = Loaded(init_program, 1, init_program.r0)
  BY <1>1, <1>2 DEF First, Loaded
<1>4. First(init_program).r0 = init_program.r0
  BY DEF First
<1>5. ASSUME NEW t
      PROVE  /\ IsFrame(init_thread(t)) /\ init_thread(t).cpsr = Svc
             /\ First(init_thread(t)) = Loaded(init_thread(t), 1, init_thread(t).r0)
  <2>1. IsFrame(init_thread(t)) /\ init_thread(t).cpsr = Svc
    BY <1>1 DEF init_thread, IsFrame
  <2> QED  BY <1>1, <2>1 DEF First, Loaded
<1> QED  BY <1>1, <1>2, <1>3, <1>4, <1>5

\* exec replaces the frame its own system call returns to.
LEMMA ExecKeeps ==
  ASSUME CInv, Exec
  PROVE  CInv'
<1>1. InSyscall
  BY DEF Exec
<1>2. /\ flag[current] = "user" /\ cpu.mode = "svc" /\ cpu.sp_svc = 1
      /\ current \in alive /\ alive \subseteq Tasks
      /\ DOMAIN kstack = Tasks /\ DOMAIN user = Tasks /\ DOMAIN call = Tasks
      /\ \A t \in Tasks : DOMAIN kstack[t] = 1 .. MaxDepth + 1
  BY <1>1, SyscallFrame
<1>3. /\ kstack' = [kstack EXCEPT ![current][1] = init_program]
      /\ user' = [user EXCEPT ![current] = First(init_program)]
      /\ call' = [call EXCEPT ![current] = "exec"]
      /\ UNCHANGED <<cpu, base, current, alive, flag, loaded, saved>>
  BY DEF Exec
<1>4. /\ DOMAIN kstack' = Tasks /\ DOMAIN user' = Tasks /\ DOMAIN call' = Tasks
      /\ \A t \in Tasks : DOMAIN kstack'[t] = 1 .. MaxDepth + 1
      /\ \A u \in Tasks \ {current} : kstack'[u] = kstack[u] /\ user'[u] = user[u]
      /\ kstack'[current][1] = init_program
      /\ user'[current] = First(init_program)
  BY <1>2, <1>3 DEF MaxDepth
<1>5. CtxTypeOK'
  BY <1>3, <1>4 DEF CInv, CtxTypeOK
<1>6. Runs' /\ RunsInOwnSpace'
  BY <1>2, <1>3 DEF CInv, Runs, RunsInOwnSpace
<1>7. CallFrame(current)'
  BY <1>3, <1>4, FirstFrames DEF CallFrame
<1>8. \A u \in alive \ {current} : Waits(u)' /\ (InCall(u)' => CallFrame(u)')
  BY <1>2, <1>3, <1>4, OthersWait DEF CInv
<1> QED  BY <1>3, <1>5, <1>6, <1>7, <1>8 DEF CInv

\* L is K with the frame x on the stack of a and y on that of b.
Framed(K, L, a, b, i, j, x, y) ==
  /\ DOMAIN L = Tasks /\ \A u \in Tasks : DOMAIN L[u] = 1 .. MaxDepth + 1
  /\ L[a][i] = x /\ L[b][j] = y
  /\ \A u \in Tasks \ {a, b} : L[u] = K[u]

\* Two frames on two stacks are written.
LEMMA TwoFrames ==
  ASSUME NEW K, DOMAIN K = Tasks, \A u \in Tasks : DOMAIN K[u] = 1 .. MaxDepth + 1,
         NEW a \in Tasks, NEW b \in Tasks, a # b,
         NEW i \in 1 .. MaxDepth + 1, NEW j \in 1 .. MaxDepth + 1, NEW x, NEW y,
         NEW L, L = [K EXCEPT ![a][i] = x, ![b][j] = y]
  PROVE  Framed(K, L, a, b, i, j, x, y)
<1> DEFINE M == [K EXCEPT ![a][i] = x]
<1>1. /\ DOMAIN M = Tasks /\ M[a] = [K[a] EXCEPT ![i] = x]
      /\ \A u \in Tasks \ {a} : M[u] = K[u]
  OBVIOUS
<1>2. L = [M EXCEPT ![b][j] = y]
  OBVIOUS
<1> HIDE DEF M
<1>3. /\ DOMAIN L = Tasks /\ L[b] = [K[b] EXCEPT ![j] = y] /\ L[a] = [K[a] EXCEPT ![i] = x]
      /\ \A u \in Tasks \ {a, b} : L[u] = K[u]
  BY <1>1, <1>2
<1>4. DOMAIN L[a] = 1 .. MaxDepth + 1 /\ DOMAIN L[b] = 1 .. MaxDepth + 1
  BY <1>3
<1>5. \A u \in Tasks : DOMAIN L[u] = 1 .. MaxDepth + 1
  BY <1>3, <1>4
<1>6. L[a][i] = x /\ L[b][j] = y
  BY <1>3
<1> QED  BY <1>3, <1>5, <1>6 DEF Framed

\* A task t is set up with the frame f, by a step that leaves the registers
\* alone and writes to the stack of the current task at most the call frame.
LEMMA SetUpKeeps ==
  ASSUME CInv, NEW t, NEW k \in {"kernel", "user"}, SetUp(t, k),
         NEW f, IsFrame(f), f.cpsr.mode = IF k = "kernel" THEN "svc" ELSE "usr",
         kstack'[t][1] = f, saved'[t] = Loaded(f, 1, f.r0),
         DOMAIN kstack' = Tasks, DOMAIN saved' = Tasks, DOMAIN call' = Tasks,
         \A u \in Tasks : DOMAIN kstack'[u] = 1 .. MaxDepth + 1,
         \A u \in Tasks \ {t, current} : kstack'[u] = kstack[u],
         \A u \in Tasks \ {t} : saved'[u] = saved[u],
         UNCHANGED <<cpu, current, loaded, user>>,
         InCall(current)' => CallFrame(current)'
  PROVE  CInv'
<1>1. /\ t \in Tasks /\ t \notin alive /\ t # current /\ current \in Tasks
      /\ flag' = [flag EXCEPT ![t] = k] /\ alive' = alive \cup {t}
      /\ base' = [base EXCEPT ![t] = 1]
  BY DEF SetUp, CInv, CtxTypeOK
<1>2. /\ flag'[t] = k /\ base'[t] = 1
      /\ \A u \in Tasks \ {t} : flag'[u] = flag[u] /\ base'[u] = base[u]
      /\ flag' \in [Tasks -> {"kernel", "user"}]
      /\ base' \in [Tasks -> 0 .. MaxDepth]
  BY <1>1 DEF CInv, CtxTypeOK, MaxDepth
<1>3. CtxTypeOK'
  BY <1>1, <1>2 DEF CInv, CtxTypeOK
<1>4. Runs' /\ RunsInOwnSpace'
  BY <1>1, <1>2 DEF CInv, Runs, RunsInOwnSpace
<1>5. Waits(t)' /\ ~InCall(t)'
  <2>1. ~InCall(t)'
    BY <1>1, <1>2 DEF InCall
  <2>2. base'[t] \in 1 .. MaxDepth /\ kstack'[t][base'[t]] = f
    BY <1>2 DEF MaxDepth
  <2> QED  BY <1>2, <2>1, <2>2 DEF Waits
<1>6. \A u \in alive \ {current} : Waits(u)' /\ (InCall(u)' => CallFrame(u)')
  <2> TAKE u \in alive \ {current}
  <2>1. /\ u \in Tasks /\ u # current /\ u # t
        /\ Waits(u) /\ (InCall(u) => CallFrame(u))
    BY <1>1 DEF CInv, CtxTypeOK
  <2> QED  BY <1>2, <2>1, OthersWait
<1> QED  BY <1>1, <1>3, <1>4, <1>5, <1>6 DEF CInv

\* sys_fork.
LEMMA ForkKeeps ==
  ASSUME CInv, NEW t \in Tasks, Fork(t)
  PROVE  CInv'
<1> DEFINE k == kstack[current][1]
           f == [k EXCEPT !.r0 = <<"pid", t>>]
<1>1. InSyscall /\ SetUp(t, "user")
  BY DEF Fork
<1>2. /\ current \in Tasks /\ IsFrame(k) /\ k.cpsr.mode = "usr"
      /\ user[current] = Loaded(k, 1, user[current].r0)
      /\ DOMAIN kstack = Tasks /\ DOMAIN saved = Tasks /\ DOMAIN call = Tasks
      /\ \A u \in Tasks : DOMAIN kstack[u] = 1 .. MaxDepth + 1
  BY <1>1, SyscallFrame
<1>3. /\ kstack' = [kstack EXCEPT ![current][1] = f, ![t][1] = f]
      /\ saved' = [saved EXCEPT ![t] = [user[current] EXCEPT !.r0 = f.r0]]
      /\ call' = [call EXCEPT ![current] = "fork"]
      /\ UNCHANGED <<cpu, current, loaded, user>>
  BY DEF Fork
<1>4. t # current
  BY <1>1 DEF SetUp, CInv, CtxTypeOK
<1>5. /\ IsFrame(f) /\ f.cpsr = k.cpsr /\ f.r = k.r /\ f.pc = k.pc /\ f.lr = k.lr
      /\ f.sp = k.sp
  BY <1>2 DEF IsFrame
<1> HIDE DEF k, f
<1>6. \A x : Loaded(k, 1, x) = Loaded(f, 1, x)
  BY <1>5 DEF Loaded
<1>7. [user[current] EXCEPT !.r0 = f.r0] = Loaded(f, 1, f.r0)
  BY <1>2, <1>6 DEF Loaded
<1>8. /\ kstack'[t][1] = f /\ kstack'[current][1] = f
      /\ DOMAIN kstack' = Tasks /\ DOMAIN saved' = Tasks /\ DOMAIN call' = Tasks
      /\ \A u \in Tasks : DOMAIN kstack'[u] = 1 .. MaxDepth + 1
      /\ \A u \in Tasks \ {t, current} : kstack'[u] = kstack[u]
      /\ saved'[t] = Loaded(f, 1, f.r0)
      /\ \A u \in Tasks \ {t} : saved'[u] = saved[u]
  <2>1. 1 \in 1 .. MaxDepth + 1 /\ current # t
    BY <1>4 DEF MaxDepth
  <2>2. /\ kstack'[t][1] = f /\ kstack'[current][1] = f /\ DOMAIN kstack' = Tasks
        /\ \A u \in Tasks : DOMAIN kstack'[u] = 1 .. MaxDepth + 1
        /\ \A u \in Tasks \ {current, t} : kstack'[u] = kstack[u]
    <3>1. Framed(kstack, kstack', current, t, 1, 1, f, f)
      BY <1>1, <1>2, <1>3, <2>1, TwoFrames, Zenon DEF SetUp
    <3> QED  BY <3>1 DEF Framed
  <2>3. /\ DOMAIN saved' = Tasks /\ DOMAIN call' = Tasks
        /\ saved'[t] = Loaded(f, 1, f.r0)
        /\ \A u \in Tasks \ {t} : saved'[u] = saved[u]
    BY <1>2, <1>3, <1>7
  <2> QED  BY <2>2, <2>3
<1>9. CallFrame(current)'
  <2>1. IsFrame(f) /\ f.cpsr.mode = "usr"
    BY <1>2, <1>5
  <2>2. user[current] = Loaded(f, 1, user[current].r0)
    BY <1>2, <1>6
  <2>3. kstack'[current'][1] = f /\ user'[current'] = user[current]
    BY <1>3, <1>8
  <2> QED  BY <2>1, <2>2, <2>3 DEF CallFrame
<1>10. f.cpsr.mode = "usr"
  BY <1>2, <1>5
<1> QED  BY <1>1, <1>3, <1>5, <1>8, <1>9, <1>10, SetUpKeeps

\* kthread_run, and do_exec by a kernel task.
LEMMA NewTaskKeeps ==
  ASSUME CInv, NEW t \in Tasks, NEW k \in {"kernel", "user"}, NewTask(t, k)
  PROVE  CInv'
<1> DEFINE f == IF k = "kernel" THEN init_thread(t) ELSE init_program
<1>1. /\ SetUp(t, k) /\ flag[current] = "kernel"
      /\ kstack' = [kstack EXCEPT ![t][1] = f]
      /\ saved' = [saved EXCEPT ![t] = First(f)]
      /\ UNCHANGED <<cpu, current, loaded, call, user>>
  BY DEF NewTask
<1>2. /\ IsFrame(f) /\ First(f) = Loaded(f, 1, f.r0)
      /\ f.cpsr.mode = IF k = "kernel" THEN "svc" ELSE "usr"
  BY FirstFrames
<1> HIDE DEF f
<1>3. /\ current \in Tasks /\ t # current
      /\ DOMAIN kstack = Tasks /\ DOMAIN saved = Tasks /\ DOMAIN call = Tasks
      /\ \A u \in Tasks : DOMAIN kstack[u] = 1 .. MaxDepth + 1
  BY <1>1 DEF SetUp, CInv, CtxTypeOK
<1>4. /\ kstack'[t][1] = f
      /\ DOMAIN kstack' = Tasks /\ DOMAIN saved' = Tasks /\ DOMAIN call' = Tasks
      /\ \A u \in Tasks : DOMAIN kstack'[u] = 1 .. MaxDepth + 1
      /\ \A u \in Tasks \ {t, current} : kstack'[u] = kstack[u]
      /\ saved'[t] = Loaded(f, 1, f.r0)
      /\ \A u \in Tasks \ {t} : saved'[u] = saved[u]
  BY <1>1, <1>2, <1>3 DEF MaxDepth
<1>5. ~InCall(current)'
  BY <1>1, <1>3 DEF InCall, SetUp, CInv, CtxTypeOK
<1> QED  BY <1>1, <1>2, <1>4, <1>5, SetUpKeeps

\* Another task n gets the CPU, by either way, and its frame goes.
LEMMA ResumeKeeps ==
  ASSUME CInv, NEW n \in alive, n # current,
         cpu' = restore_sw(cpu, kstack[n][base[n]], base[n])
           \/ cpu' = restore_irq(cpu, kstack[n][base[n]], base[n]),
         loaded' = switch_task(n), current' = n, flag' = flag,
         \A d \in 1 .. MaxDepth + 1 : d # base[n] => kstack'[n][d] = kstack[n][d],
         user'[n] = user[n]
  PROVE  /\ DOMAIN cpu' = Registers /\ cpu'.mode \in {"usr", "svc"}
         /\ cpu'.sp_svc \in Nat
         /\ Runs' /\ RunsInOwnSpace'
         /\ InCall(n)' => CallFrame(n)'
<1> DEFINE f == kstack[n][base[n]]
<1>1. /\ Waits(n) /\ DOMAIN cpu = Registers /\ n \in Tasks
      /\ flag \in [Tasks -> {"kernel", "user"}]
  BY DEF CInv, CtxTypeOK
<1>2. IsFrame(f) /\ base[n] \in 1 .. 2 /\ f.cpsr.mode \in {"usr", "svc"}
  BY <1>1 DEF Waits, MaxDepth, IsFrame, IsPsr
<1>3. /\ flag[n] = "kernel" => base[n] = 1 /\ f.cpsr.mode = "svc"
      /\ flag[n] = "user" => f.cpsr.mode = IF base[n] = 1 THEN "usr" ELSE "svc"
  BY <1>1 DEF Waits
<1>4. cpu' \in {restore_sw(cpu, f, base[n]), restore_irq(cpu, f, base[n])}
  OBVIOUS
<1> HIDE DEF f
<1>5. DOMAIN cpu' = Registers /\ cpu'.mode = f.cpsr.mode /\ cpu'.sp_svc = base[n] - 1
  BY <1>1, <1>2, <1>4, FrameIsLoaded
<1>6. cpu'.sp_svc \in Nat
  BY <1>2, <1>5
<1>7. Runs'
  BY <1>1, <1>2, <1>3, <1>5 DEF Runs
<1>8. RunsInOwnSpace'
  BY DEF RunsInOwnSpace, switch_task
<1>9. InCall(n)' => CallFrame(n)'
  <2>1. SUFFICES ASSUME InCall(n)' PROVE CallFrame(n)'
    OBVIOUS
  <2>2. flag[n] = "user" /\ base[n] = 2
    BY <2>1, <1>2, <1>3, <1>5 DEF InCall
  <2>3. CallFrame(n)
    BY <2>2 DEF CInv, InCall
  <2>4. kstack'[n][1] = kstack[n][1]
    BY <2>2 DEF MaxDepth
  <2> QED  BY <2>3, <2>4 DEF CallFrame
<1> QED  BY <1>2, <1>5, <1>6, <1>7, <1>8, <1>9

\* The current task gives the CPU to n, and leaves its registers in the frame
\* f on top of its stack.
LEMMA SwitchKeeps ==
  ASSUME CInv, NEW n \in alive, n # current, NEW f, IsFrame(f), NEW d,
         d = cpu.sp_svc + 1, f.cpsr.mode = cpu.mode,
         cpu' = restore_sw(cpu, kstack[n][base[n]], base[n])
           \/ cpu' = restore_irq(cpu, kstack[n][base[n]], base[n]),
         kstack' = [kstack EXCEPT ![current][d] = f, ![n][base[n]] = NoFrame],
         base' = [base EXCEPT ![current] = d],
         saved' = [saved EXCEPT ![current] = Loaded(f, d, f.r0), ![n] = NoView],
         loaded' = switch_task(n), current' = n,
         UNCHANGED <<alive, flag, call, user>>
  PROVE  CInv'
<1>1. /\ current \in Tasks /\ n \in Tasks /\ alive \subseteq Tasks
      /\ current \in alive
      /\ DOMAIN kstack = Tasks /\ DOMAIN saved = Tasks
      /\ \A u \in Tasks : DOMAIN kstack[u] = 1 .. MaxDepth + 1
      /\ cpu.mode \in {"usr", "svc"} /\ base \in [Tasks -> 0 .. MaxDepth]
      /\ flag \in [Tasks -> {"kernel", "user"}]
  BY DEF CInv, CtxTypeOK
<1>2. d \in 1 .. 2 /\ (InCall(current) => d = 2)
  BY <1>1 DEF CInv, Runs, InCall
<1>3. base[n] \in 1 .. 2
  BY DEF CInv, Waits, MaxDepth
<1>4. /\ DOMAIN kstack' = Tasks /\ DOMAIN saved' = Tasks
      /\ \A u \in Tasks : DOMAIN kstack'[u] = 1 .. MaxDepth + 1
      /\ kstack'[current][d] = f
      /\ \A e \in 1 .. MaxDepth + 1 : e # d => kstack'[current][e] = kstack[current][e]
      /\ \A e \in 1 .. MaxDepth + 1 : e # base[n] => kstack'[n][e] = kstack[n][e]
      /\ \A u \in Tasks \ {current, n} : kstack'[u] = kstack[u]
  <2>1. d \in 1 .. MaxDepth + 1 /\ base[n] \in 1 .. MaxDepth + 1
    BY <1>2, <1>3 DEF MaxDepth
  <2>2. DOMAIN saved' = Tasks
    BY <1>1
  <2> DEFINE M == [kstack EXCEPT ![current][d] = f]
  <2>3. /\ DOMAIN M = Tasks /\ M[current] = [kstack[current] EXCEPT ![d] = f]
        /\ \A u \in Tasks \ {current} : M[u] = kstack[u]
    BY <1>1
  <2>4. kstack' = [M EXCEPT ![n][base[n]] = NoFrame]
    OBVIOUS
  <2> HIDE DEF M
  <2>5. /\ DOMAIN kstack' = Tasks
        /\ kstack'[n] = [kstack[n] EXCEPT ![base[n]] = NoFrame]
        /\ kstack'[current] = [kstack[current] EXCEPT ![d] = f]
        /\ \A u \in Tasks \ {current, n} : kstack'[u] = kstack[u]
    BY <1>1, <2>3, <2>4
  <2>6. DOMAIN kstack'[n] = 1 .. MaxDepth + 1 /\ DOMAIN kstack'[current] = 1 .. MaxDepth + 1
    BY <1>1, <2>5
  <2>7. /\ kstack'[current][d] = f
        /\ \A e \in 1 .. MaxDepth + 1 : e # d => kstack'[current][e] = kstack[current][e]
    BY <1>1, <2>1, <2>5
  <2>8. \A e \in 1 .. MaxDepth + 1 : e # base[n] => kstack'[n][e] = kstack[n][e]
    BY <1>1, <2>1, <2>5
  <2> QED  BY <1>1, <2>2, <2>5, <2>6, <2>7, <2>8
<1>5. /\ base' \in [Tasks -> 0 .. MaxDepth] /\ base'[current] = d
      /\ \A u \in Tasks \ {current} : base'[u] = base[u]
      /\ saved'[current] = Loaded(f, d, f.r0)
      /\ \A u \in Tasks \ {current, n} : saved'[u] = saved[u]
  BY <1>1, <1>2 DEF MaxDepth
<1>6. /\ DOMAIN cpu' = Registers /\ cpu'.mode \in {"usr", "svc"}
      /\ cpu'.sp_svc \in Nat
      /\ Runs' /\ RunsInOwnSpace' /\ (InCall(n)' => CallFrame(n)')
  BY <1>4, ResumeKeeps
<1>7. CtxTypeOK'
  BY <1>1, <1>4, <1>5, <1>6 DEF CInv, CtxTypeOK
<1>9. ASSUME NEW c, c = current
      PROVE  Waits(c)' /\ (InCall(c)' => CallFrame(c)')
  <2>1. c \in Tasks /\ c # current' /\ base'[c] = d /\ kstack'[c][d] = f
    BY <1>1, <1>4, <1>5, <1>9
  <2>2. /\ flag'[c] = "kernel" => d = 1 /\ f.cpsr.mode = "svc"
        /\ flag'[c] = "user" => f.cpsr.mode = IF d = 1 THEN "usr" ELSE "svc"
    BY <1>1, <1>9 DEF CInv, Runs
  <2>3. saved'[c] = Loaded(f, d, f.r0)
    BY <1>5, <1>9
  <2>4. Waits(c)'
    BY <1>2, <2>1, <2>2, <2>3 DEF Waits, MaxDepth
  <2>5. InCall(c)' => InCall(c)
    BY <1>9, <1>1, <2>1, <2>2, <1>2 DEF InCall
  <2>6. InCall(c) => CallFrame(c)'
    <3>1. SUFFICES ASSUME InCall(c) PROVE CallFrame(c)'
      OBVIOUS
    <3>2. CallFrame(c) /\ d = 2
      BY <3>1, <1>1, <1>2, <1>9 DEF CInv
    <3>3. kstack'[c][1] = kstack[c][1]
      BY <3>2, <1>4, <1>9 DEF MaxDepth
    <3> QED  BY <3>2, <3>3 DEF CallFrame
  <2> QED  BY <2>4, <2>5, <2>6
<1>10. \A u \in alive \ {current, n} : Waits(u)' /\ (InCall(u)' => CallFrame(u)')
  <2> TAKE u \in alive \ {current, n}
  <2>1. /\ u \in Tasks /\ u # current /\ u # n
        /\ Waits(u) /\ (InCall(u) => CallFrame(u))
    BY <1>1 DEF CInv
  <2> QED  BY <1>4, <1>5, <2>1, OthersWait
<1> QED  BY <1>1, <1>6, <1>7, <1>9, <1>10 DEF CInv

\* An interrupt returns to the task, or gives the CPU to another.
LEMMA IrqKeeps ==
  ASSUME CInv, NEW n \in Tasks, Irq(n)
  PROVE  CInv' /\ (n = current => cpu'.sp_svc = cpu.sp_svc)
<1> DEFINE d == cpu.sp_svc + 1
           f == save_irq(cpu)
<1>1. /\ DOMAIN cpu = Registers /\ cpu.mode \in {"usr", "svc"} /\ cpu.sp_svc \in Nat
      /\ d - 1 = cpu.sp_svc /\ n \in alive
  BY DEF CInv, CtxTypeOK, Irq
<1>2. IsFrame(f) /\ f.cpsr.mode = cpu.mode /\ View(cpu) = Loaded(f, d, f.r0)
  BY <1>1, FrameIsSaved
<1>3. CASE n = current
  <2>1. /\ cpu' = restore_irq(cpu, f, d)
        /\ UNCHANGED <<kstack, base, saved, loaded, current, alive, flag, call, user>>
    BY <1>3 DEF Irq
  <2>2. cpu' \in {restore_sw(cpu, f, d), restore_irq(cpu, f, d)}
    BY <2>1
  <2> HIDE DEF f, d
  <2>3. /\ DOMAIN cpu' = Registers /\ cpu'.mode = cpu.mode
        /\ cpu'.sp_svc = cpu.sp_svc
    BY <1>1, <1>2, <2>2, FrameIsLoaded
  <2> QED  BY <2>1, <2>3, QuietKeeps
<1>4. CASE n # current
  <2>1. /\ cpu' = restore_irq(cpu, kstack[n][base[n]], base[n])
        /\ kstack' = [kstack EXCEPT ![current][d] = f, ![n][base[n]] = NoFrame]
        /\ base' = [base EXCEPT ![current] = d]
        /\ saved' = [saved EXCEPT ![current] = View(cpu), ![n] = NoView]
        /\ loaded' = switch_task(n) /\ current' = n
        /\ UNCHANGED <<alive, flag, call, user>>
    BY <1>4 DEF Irq
  <2>2. saved' = [saved EXCEPT ![current] = Loaded(f, d, f.r0), ![n] = NoView]
    BY <2>1, <1>2
  <2> HIDE DEF f
  <2> QED  BY <1>1, <1>2, <1>4, <2>1, <2>2, SwitchKeeps
<1> QED  BY <1>3, <1>4

\* sched gives the CPU to another task, or goes through the switch for nothing.
LEMMA SwitchToKeeps ==
  ASSUME CInv, NEW n \in Tasks, SwitchTo(n)
  PROVE  CInv' /\ (n = current => cpu'.sp_svc = cpu.sp_svc)
<1> DEFINE d == cpu.sp_svc + 1
           f == save_sw(cpu)
           stack == [kstack EXCEPT ![current][d] = f]
<1>1. /\ DOMAIN cpu = Registers /\ cpu.mode = "svc" /\ cpu.sp_svc \in Nat
      /\ d - 1 = cpu.sp_svc /\ n \in alive /\ current \in Tasks
      /\ DOMAIN kstack = Tasks /\ DOMAIN saved = Tasks
      /\ \A u \in Tasks : DOMAIN kstack[u] = 1 .. MaxDepth + 1
      /\ base \in [Tasks -> 0 .. MaxDepth] /\ d \in 1 .. MaxDepth
      /\ flag \in [Tasks -> {"kernel", "user"}]
  BY DEF CInv, CtxTypeOK, Runs, SwitchTo, MaxDepth
<1>2. /\ IsFrame(f) /\ f.cpsr.mode = cpu.mode
      /\ [View(cpu) EXCEPT !.pc = cpu.lr_svc] = Loaded(f, d, f.r0)
  BY <1>1, FrameIsSaved
<1>3. /\ base' = [base EXCEPT ![current] = d]
      /\ cpu' = restore_sw(cpu, stack[n][base'[n]], base'[n])
      /\ kstack' = [stack EXCEPT ![n][base'[n]] = NoFrame]
      /\ saved' = [saved EXCEPT ![current] = Loaded(f, d, f.r0), ![n] = NoView]
      /\ loaded' = switch_task(n) /\ current' = n
      /\ UNCHANGED <<alive, flag, call, user>>
  BY <1>2 DEF SwitchTo
<1>4. CASE n = current
  <2>1. base'[n] = d /\ \A u \in Tasks \ {n} : base'[u] = base[u]
    BY <1>1, <1>3, <1>4
  <2>2. base' \in [Tasks -> 0 .. MaxDepth]
    BY <1>1, <1>3 DEF MaxDepth
  <2>3. stack[n][d] = f /\ DOMAIN stack = Tasks
    BY <1>1, <1>4 DEF MaxDepth
  <2>4. stack[n] = [kstack[n] EXCEPT ![d] = f] /\ \A u \in Tasks \ {n} : stack[u] = kstack[u]
    BY <1>1, <1>4
  <2>5. cpu' \in {restore_sw(cpu, f, d), restore_irq(cpu, f, d)}
    BY <1>3, <2>1, <2>3
  <2> HIDE DEF stack
  <2>6. /\ DOMAIN kstack' = Tasks
        /\ kstack'[n] = [[kstack[n] EXCEPT ![d] = f] EXCEPT ![d] = NoFrame]
        /\ \A u \in Tasks \ {n} : kstack'[u] = kstack[u]
    BY <1>3, <2>1, <2>3, <2>4
  <2> HIDE DEF f, d
  <2>7. /\ DOMAIN kstack'[n] = 1 .. MaxDepth + 1
        /\ \A e \in 1 .. MaxDepth + 1 : e # d => kstack'[n][e] = kstack[n][e]
    BY <1>1, <2>6
  <2>8. /\ DOMAIN cpu' = Registers /\ cpu'.mode = cpu.mode
        /\ cpu'.sp_svc = cpu.sp_svc
    BY <1>1, <1>2, <2>5, FrameIsLoaded
  <2>9. DOMAIN saved' = Tasks /\ \A u \in Tasks \ {n} : saved'[u] = saved[u]
    BY <1>1, <1>3, <1>4
  <2>10. CtxTypeOK'
    BY <1>1, <1>3, <1>4, <2>2, <2>6, <2>7, <2>8, <2>9 DEF CInv, CtxTypeOK
  <2>11. Runs' /\ RunsInOwnSpace'
    BY <1>1, <1>3, <1>4, <2>8 DEF CInv, Runs, RunsInOwnSpace, switch_task
  <2>12. InCall(n)' => CallFrame(n)'
    <3>1. SUFFICES ASSUME InCall(n)' PROVE CallFrame(n)'
      OBVIOUS
    <3>2. flag[n] = "user" /\ InCall(n) /\ d = 2
      BY <3>1, <1>1, <1>3, <1>4, <2>8 DEF InCall, CInv, Runs, d
    <3>3. CallFrame(n) /\ kstack'[n][1] = kstack[n][1]
      BY <3>2, <1>1, <2>7 DEF CInv, MaxDepth
    <3> QED  BY <3>3, <1>3 DEF CallFrame
  <2>13. \A u \in alive \ {n} : Waits(u)' /\ (InCall(u)' => CallFrame(u)')
    <3> TAKE u \in alive \ {n}
    <3>1. /\ u \in Tasks /\ u # current /\ u # current'
          /\ Waits(u) /\ (InCall(u) => CallFrame(u))
      BY <1>3, <1>4 DEF CInv, CtxTypeOK
    <3> QED  BY <1>3, <2>1, <2>6, <2>9, <3>1, OthersWait
  <2> QED  BY <1>3, <1>4, <2>8, <2>10, <2>11, <2>12, <2>13 DEF CInv
<1>5. CASE n # current
  <2>1. base'[n] = base[n] /\ stack[n] = kstack[n]
    BY <1>1, <1>3, <1>5
  <2>2. kstack' = [kstack EXCEPT ![current][d] = f, ![n][base[n]] = NoFrame]
    BY <1>3, <2>1
  <2>3. cpu' = restore_sw(cpu, kstack[n][base[n]], base[n])
    BY <1>3, <2>1
  <2> HIDE DEF f, stack
  <2> QED  BY <1>1, <1>2, <1>3, <1>5, <2>2, <2>3, SwitchKeeps
<1> QED  BY <1>4, <1>5

\* sys_exit: the task is gone with its frames, and another one runs.
LEMMA ExitKeeps ==
  ASSUME CInv, NEW n \in Tasks, Exit(n)
  PROVE  CInv'
<1>1. /\ n \in alive /\ n # current /\ current' = n
      /\ cpu' = restore_sw(cpu, kstack[n][base[n]], base[n])
      /\ kstack' = [kstack EXCEPT ![current] = [d \in DOMAIN @ |-> NoFrame],
                                 ![n][base[n]] = NoFrame]
      /\ saved' = [saved EXCEPT ![n] = NoView]
      /\ user' = [user EXCEPT ![current] = NoView]
      /\ call' = [call EXCEPT ![current] = "none"]
      /\ loaded' = switch_task(n) /\ alive' = alive \ {current}
      /\ UNCHANGED <<base, flag>>
  BY DEF Exit
<1>2. /\ current \in Tasks /\ alive \subseteq Tasks
      /\ DOMAIN kstack = Tasks /\ DOMAIN saved = Tasks
      /\ DOMAIN user = Tasks /\ DOMAIN call = Tasks
      /\ \A u \in Tasks : DOMAIN kstack[u] = 1 .. MaxDepth + 1
      /\ base[n] \in 1 .. MaxDepth
  BY <1>1 DEF CInv, CtxTypeOK, Waits
<1> DEFINE M == [kstack EXCEPT ![current] = [d \in DOMAIN @ |-> NoFrame]]
<1>3. /\ DOMAIN M = Tasks /\ DOMAIN M[current] = 1 .. MaxDepth + 1
      /\ \A u \in Tasks \ {current} : M[u] = kstack[u]
  BY <1>2
<1>4. kstack' = [M EXCEPT ![n][base[n]] = NoFrame]
  BY <1>1
<1> HIDE DEF M
<1>5. /\ DOMAIN kstack' = Tasks /\ kstack'[current] = M[current]
      /\ kstack'[n] = [kstack[n] EXCEPT ![base[n]] = NoFrame]
      /\ \A u \in Tasks \ {current, n} : kstack'[u] = kstack[u]
  BY <1>1, <1>2, <1>3, <1>4
<1>6. /\ \A u \in Tasks : DOMAIN kstack'[u] = 1 .. MaxDepth + 1
      /\ \A e \in 1 .. MaxDepth + 1 : e # base[n] => kstack'[n][e] = kstack[n][e]
  <2>1. DOMAIN kstack'[n] = 1 .. MaxDepth + 1
    BY <1>2, <1>5
  <2>2. \A e \in 1 .. MaxDepth + 1 : e # base[n] => kstack'[n][e] = kstack[n][e]
    BY <1>2, <1>5
  <2> QED  BY <1>2, <1>3, <1>5, <2>1, <2>2
<1>7. /\ DOMAIN saved' = Tasks /\ DOMAIN user' = Tasks /\ DOMAIN call' = Tasks
      /\ \A u \in Tasks \ {current, n} : saved'[u] = saved[u] /\ user'[u] = user[u]
      /\ user'[n] = user[n]
  BY <1>1, <1>2
<1>8. /\ DOMAIN cpu' = Registers /\ cpu'.mode \in {"usr", "svc"}
      /\ cpu'.sp_svc \in Nat
      /\ Runs' /\ RunsInOwnSpace' /\ (InCall(n)' => CallFrame(n)')
  BY <1>1, <1>6, <1>7, ResumeKeeps
<1>9. CtxTypeOK'
  BY <1>1, <1>2, <1>5, <1>6, <1>7, <1>8 DEF CInv, CtxTypeOK
<1>10. \A u \in alive \ {current, n} : Waits(u)' /\ (InCall(u)' => CallFrame(u)')
  <2> TAKE u \in alive \ {current, n}
  <2>1. /\ u \in Tasks /\ u # current /\ u # current'
        /\ Waits(u) /\ (InCall(u) => CallFrame(u))
    BY <1>1, <1>2 DEF CInv
  <2> QED  BY <1>1, <1>5, <1>7, <2>1, OthersWait
<1> QED  BY <1>1, <1>8, <1>9, <1>10 DEF CInv

-----------------------------------------------------------------------------
(* The theorems *)

\* Every step keeps the invariant, and the only step of a task that leaves its
\* system call is the return, with the registers the call was made with.
LEMMA CtxNextCInv ==
  ASSUME CInv, [CtxNext]_ctxVars
  PROVE  /\ CInv'
         /\ cpu.sp_svc = 1 /\ current' = current /\ cpu'.sp_svc = 0 =>
              View(cpu') = [user[current] EXCEPT !.r0 = Result]
<1> DEFINE Back == cpu.sp_svc = 1 /\ current' = current /\ cpu'.sp_svc = 0 =>
                     View(cpu') = [user[current] EXCEPT !.r0 = Result]
<1>1. CASE UNCHANGED ctxVars
  <2>1. UNCHANGED <<cpu, kstack, base, current, alive, flag, loaded, call, saved, user>>
    BY <1>1 DEF ctxVars
  <2>2. DOMAIN cpu' = Registers
    BY <2>1 DEF CInv, CtxTypeOK
  <2> QED  BY <2>1, <2>2, QuietKeeps
<1>2. CASE (\E v \in 0 .. 1 : Run(v)) \/ (\E b \in BOOLEAN : Mask(b))
  <2>1. cpu'.sp_svc = cpu.sp_svc
    <3>1. DOMAIN cpu = Registers
      BY DEF CInv, CtxTypeOK
    <3> QED  BY <1>2, <3>1 DEF Run, Mask, InUser, InKernel, Registers
  <2> QED  BY <1>2, <2>1, RunKeeps
<1>3. CASE Swi
  <2>1. cpu.sp_svc = 0
    BY <1>3 DEF Swi, CInv, CtxTypeOK, Runs
  <2> QED  BY <1>3, <2>1, SwiKeeps
<1>4. CASE SwiReturn
  BY <1>4, SwiReturnKeeps
<1>5. CASE Exec
  <2>1. cpu' = cpu
    BY <1>5 DEF Exec
  <2> QED  BY <1>5, <2>1, ExecKeeps
<1>6. ASSUME NEW t \in Tasks, Irq(t) PROVE CInv' /\ Back
  <2>1. current' = t
    BY <1>6 DEF Irq
  <2> QED  BY <1>6, <2>1, IrqKeeps
<1>7. ASSUME NEW t \in Tasks, SwitchTo(t) PROVE CInv' /\ Back
  <2>1. current' = t
    BY <1>7 DEF SwitchTo
  <2> QED  BY <1>7, <2>1, SwitchToKeeps
<1>8. ASSUME NEW t \in Tasks, Exit(t) PROVE CInv' /\ Back
  <2>1. current' # current
    BY <1>8 DEF Exit
  <2> QED  BY <1>8, <2>1, ExitKeeps
<1>9. ASSUME NEW t \in Tasks, Fork(t) PROVE CInv' /\ Back
  <2>1. cpu' = cpu
    BY <1>9 DEF Fork
  <2> QED  BY <1>9, <2>1, ForkKeeps
<1>10. ASSUME NEW t \in Tasks, NEW k \in {"kernel", "user"}, NewTask(t, k)
       PROVE  CInv' /\ Back
  <2>1. cpu' = cpu
    BY <1>10 DEF NewTask
  <2> QED  BY <1>10, <2>1, NewTaskKeeps
<1> QED  BY <1>1, <1>2, <1>3, <1>4, <1>5, <1>6, <1>7, <1>8, <1>9, <1>10 DEF CtxNext

\* What the invariant says of frames and stacks.
LEMMA CInvSafe == CInv => FramesResume /\ StackBalanced /\ RunsInOwnSpace
<1> SUFFICES ASSUME CInv PROVE FramesResume /\ StackBalanced
  BY DEF CInv
<1>1. FramesResume
  <2> SUFFICES ASSUME NEW t \in alive \ {current}
               PROVE  /\ View(restore_sw(cpu, kstack[t][base[t]], base[t])) = saved[t]
                      /\ View(restore_irq(cpu, kstack[t][base[t]], base[t])) = saved[t]
    BY DEF FramesResume
  <2>1. Waits(t) /\ DOMAIN cpu = Registers
    BY DEF CInv, CtxTypeOK
  <2> DEFINE f == kstack[t][base[t]]
  <2>2. IsFrame(f) /\ saved[t] = Loaded(f, base[t], f.r0)
    BY <2>1 DEF Waits
  <2> HIDE DEF f
  <2>3. \A e \in {restore_sw(cpu, f, base[t]), restore_irq(cpu, f, base[t])} :
          View(e) = saved[t]
    BY <2>1, <2>2, FrameIsLoaded
  <2> QED  BY <2>3 DEF f
<1>2. StackBalanced
  <2>1. flag[current] \in {"kernel", "user"} /\ cpu.mode \in {"usr", "svc"} /\ Runs
    BY DEF CInv, CtxTypeOK
  <2> QED  BY <2>1 DEF StackBalanced, Runs
<1> QED  BY <1>1, <1>2

\* For any number of tasks: whichever of the paths of entry.S, arm920t_s.S and
\* arm920t_c.c wrote the frame of a waiting task, both ways back load from it
\* what the task had.
THEOREM FramesAreInterchangeable == CtxSpec => []FramesResume
<1>1. CtxInit => CInv
  BY CtxInitCInv
<1>2. CInv /\ [CtxNext]_ctxVars => CInv'
  BY CtxNextCInv
<1> QED  BY <1>1, <1>2, CInvSafe, PTL DEF CtxSpec

\* No path leaves a frame on a kernel stack, however often system calls are
\* interrupted and sleep: it holds at most that of the call.
THEOREM StacksStayBalanced == CtxSpec => []StackBalanced
<1>1. CtxInit => CInv
  BY CtxInitCInv
<1>2. CInv /\ [CtxNext]_ctxVars => CInv'
  BY CtxNextCInv
<1> QED  BY <1>1, <1>2, CInvSafe, PTL DEF CtxSpec

\* A user task runs on its own page tables, although switch_task loads none for
\* a kernel task.
THEOREM TasksRunInTheirOwnSpace == CtxSpec => []RunsInOwnSpace
<1>1. CtxInit => CInv
  BY CtxInitCInv
<1>2. CInv /\ [CtxNext]_ctxVars => CInv'
  BY CtxNextCInv
<1> QED  BY <1>1, <1>2, CInvSafe, PTL DEF CtxSpec

\* A system call comes back where it was made, with all registers but r0,
\* whatever was interrupted, switched, forked or executed in between.
THEOREM CallsComeBack == CtxSpec => SyscallComesBack
<1> DEFINE Back == cpu.sp_svc = 1 /\ current' = current /\ cpu'.sp_svc = 0 =>
                     View(cpu') = [user[current] EXCEPT !.r0 = Result]
<1>1. CtxInit => CInv
  BY CtxInitCInv
<1>2. CInv /\ [CtxNext]_ctxVars => CInv' /\ [Back]_ctxVars
  BY CtxNextCInv
<1> QED  BY <1>1, <1>2, PTL DEF CtxSpec, SyscallComesBack

=============================================================================
